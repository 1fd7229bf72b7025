------------------------------ MODULE Exchange ------------------------------
(***************************************************************************)
(* What ZmqRpcPublisher::request promises its caller.  A requester has one *)
(* request under way at a time.  A request ends once: with an answer that  *)
(* was made for it, or with none, when it fails, times out or is dropped.  *)
(* An answer to a request that is over is never heard.                     *)
(***************************************************************************)
EXTENDS Naturals

CONSTANTS
  Requesters,  \* callers of request
  MaxCalls     \* bound: requests of each requester

VARIABLES
  num,    \* requests each requester has made
  busy,   \* the requesters with a request under way
  heard   \* <<request, the request its answer was made for>>

vars == <<num, busy, heard>>

Call(r) == <<r, num[r]>>

Init ==
  /\ num = [r \in Requesters |-> 0]
  /\ busy = {} /\ heard = {}

Ask(r) ==
  /\ r \notin busy /\ num[r] < MaxCalls
  /\ num' = [num EXCEPT ![r] = @ + 1]
  /\ busy' = busy \cup {r}
  /\ UNCHANGED heard

\* The answer is its own, and the first: no earlier one was heard.
Hear(r) ==
  /\ r \in busy /\ \A e \in heard : e[1] # Call(r)
  /\ heard' = heard \cup {<<Call(r), Call(r)>>}
  /\ busy' = busy \ {r}
  /\ UNCHANGED num

EndUnheard(r) ==
  /\ r \in busy
  /\ busy' = busy \ {r}
  /\ UNCHANGED <<num, heard>>

Next == \E r \in Requesters : Ask(r) \/ Hear(r) \/ EndUnheard(r)

ExchangeSpec == Init /\ [][Next]_vars
=============================================================================
