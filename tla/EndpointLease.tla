---------------------------- MODULE EndpointLease ----------------------------
(***************************************************************************)
(* What a bound endpoint promises the process that owns it (common.rs,     *)
(* Lifecycle): at any moment it is listened on either by publishers of the *)
(* process or by one subscription, and each subscription takes it under a  *)
(* new term.  A taken endpoint comes free only through its holder, and no  *)
(* publisher listens again before that.                                    *)
(***************************************************************************)
EXTENDS Naturals

CONSTANT Pubs

VARIABLES holder,     \* the term of the subscription that holds it, or 0
          term,       \* the last term given
          listeners   \* the publishers listening while nobody holds it

leaseVars == <<holder, term, listeners>>

LeaseInit == holder = 0 /\ term = 0 /\ listeners = {}

Acquire == /\ holder = 0 /\ listeners = {}
           /\ term' = term + 1 /\ holder' = term'
           /\ UNCHANGED listeners

Free == holder # 0 /\ holder' = 0 /\ UNCHANGED <<term, listeners>>

Listen(p) == /\ holder = 0 /\ p \notin listeners
             /\ listeners' = listeners \cup {p}
             /\ UNCHANGED <<holder, term>>

GiveUp(p) == /\ p \in listeners
             /\ listeners' = listeners \ {p}
             /\ UNCHANGED <<holder, term>>

LeaseNext == Acquire \/ Free \/ \E p \in Pubs : Listen(p) \/ GiveUp(p)

LeaseSpec == LeaseInit /\ [][LeaseNext]_leaseVars
==============================================================================
