SPECIFICATION FairSpec
CONSTANTS
  r1 = r1
  h1 = h1
  h2 = h2
  Requesters = {r1}
  Handlers = {h1, h2}
  NoOne = NoOne
  Side = "bind"
  CarriesHeaders = TRUE
  Room = 1
  MaxOpens = 2
  MaxCalls = 2
  MaxAnswers = 2
  MaxCancels = 1
INVARIANTS Inv AnswersItsCall
PROPERTIES ExchangeSpec AnswerReaches RouteIsFreed RequestsEnd
CHECK_DEADLOCK FALSE
