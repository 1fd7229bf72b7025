SPECIFICATION FairSpec
CONSTANTS
  c1 = c1  c2 = c2  s1 = s1  k1 = k1  k2 = k2  k3 = k3
  NoOne = NoOne
  Calls = {c1, c2}
  Subs = {s1}
  Sockets = {k1, k2}
INVARIANTS LateIsRefused WatchedWhileInSlot Inv
PROPERTIES OneSocket TakesWhatItWatched DeadIsForgotten ReachesThePeer
