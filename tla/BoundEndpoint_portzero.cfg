SPECIFICATION Spec
CONSTANTS
  s1 = s1  s2 = s2  p1 = p1  p2 = p2  t1 = t1  t2 = t2
  NoOne = NoOne
  Subs = {s1, s2}
  Pubs = {p1, p2}
  Tasks = {t1, t2}
  PubOf <- TwoSlots
  Pattern = "fanout"
  FixedPort = FALSE
  MaxOpens = 2
  MaxCalls = 2
  MaxCancels = 0
CHECK_DEADLOCK FALSE
SYMMETRY SubSymmetry
INVARIANTS NoDeafListener
PROPERTIES LeaseSpec
