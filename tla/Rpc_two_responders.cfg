SPECIFICATION Spec
CONSTANTS
  r1 = r1
  h1 = h1
  h2 = h2
  Requesters = {r1}
  Handlers = {h1, h2}
  NoOne = NoOne
  Side = "connect"
  CarriesHeaders = TRUE
  Room = 1
  MaxOpens = 2
  MaxCalls = 2
  MaxAnswers = 2
  MaxCancels = 1
PROPERTIES AnswerReaches
CHECK_DEADLOCK FALSE
