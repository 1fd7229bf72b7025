SPECIFICATION FairSpec
CONSTANTS
  s1 = s1
  s2 = s2
  x1 = x1
  x2 = x2
  a = a
  b = b
  Subs = {s1, s2}
  Senders = {x1, x2}
  Kinds <- AllKinds
  Names = {a, b}
  Fits <- Prefixes
  NoSub = NoSub
  MaxSends = 1
  MaxReplies = 2
INVARIANTS CountExact OnePlace OneTaker AskedOnce
PROPERTIES CountDrains
CHECK_DEADLOCK FALSE
