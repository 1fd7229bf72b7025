SPECIFICATION FairSpec
CONSTANTS
  t1 = t1  t2 = t2
  NoOne = NoOne
  Tasks = {t1, t2}
  Room = 1
  MaxCalls = 2
  MaxCancels = 2
  MaxStops = 2
CHECK_DEADLOCK FALSE
INVARIANTS RightName PeerKept AnswersTrue Inv
PROPERTIES CallsReturn
