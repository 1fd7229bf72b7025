--------------------------- MODULE MCBoundEndpoint ---------------------------
(* Instances of BoundEndpoint: who publishes through which publisher.        *)
EXTENDS BoundEndpoint, TLC

CONSTANTS s1, s2, p1, p2, t1, t2

OneSlot  == t1 :> p1 @@ t2 :> p1
TwoSlots == t1 :> p1 @@ t2 :> p2

SubSymmetry == Permutations(Subs)
==============================================================================
