--------------------------- MODULE DialedProofs ---------------------------
(***************************************************************************)
(* Proofs about DialedEndpoint: whatever the callers, the subscriptions    *)
(* and the peer do, a publisher has one socket to send on, a task takes    *)
(* the socket it watched, and a late publish is refused.                   *)
(***************************************************************************)
EXTENDS DialedEndpoint, TLAPS

USE DialedAssumption

\* Nobody has published, dialed or attached yet.
LEMMA InitInv == Init => Inv
BY DEF Init, Inv, TypeOK, LateIsRefused, WatchedWhileInSlot, Guarded, Attaching

\* Every step keeps what the guards keep together: the holder of the attach lock alone dials
\* and installs, the holder of the slot's lock alone sends, and an attach has found the slot
\* empty and waits for a dial that nobody has dropped the socket of.
LEMMA StepInv == Inv /\ [Next]_vars => Inv'
<1> SUFFICES ASSUME Inv, [Next]_vars PROVE Inv'
  OBVIOUS
<1> USE DEF Inv, TypeOK, LateIsRefused, WatchedWhileInSlot, Guarded, Attaching,
            slotVars, callVars
<1>1. CASE UNCHANGED vars
  BY <1>1 DEF vars
<1>2. CASE Connect
  BY <1>2 DEF Connect
<1>3. CASE Shutdown
  BY <1>3 DEF Shutdown
<1>4. CASE PeerStarts
  BY <1>4 DEF PeerStarts
<1>5. CASE PeerStops
  BY <1>5 DEF PeerStops
<1>6. ASSUME NEW s \in Subs, Open(s) PROVE Inv'
  BY <1>6 DEF Open
<1>7. ASSUME NEW s \in Subs, AttachReceiver(s) PROVE Inv'
  BY <1>7 DEF AttachReceiver
<1>8. ASSUME NEW s \in Subs, Close(s) PROVE Inv'
  BY <1>8 DEF Close
<1>9. ASSUME NEW c \in Calls, Publish(c) PROVE Inv'
  <2>1. PICK begun \in SUBSET {c} : late' = late \cup begun
    BY <1>9 DEF Publish
  <2>2. begun # {} => dialer # NoOne
    <3>1. begun # {} => \E s \in Subs : sub[s] = "open"
      BY <1>9, <2>1 DEF Publish
    <3> QED BY <3>1
  <2> QED BY <1>9, <2>1, <2>2 DEF Publish, Goto
<1>10. ASSUME NEW c \in Calls, CheckDialer(c) PROVE Inv'
  BY <1>10 DEF CheckDialer, Goto, Ends
<1>11. ASSUME NEW c \in Calls, LockSlot(c) PROVE Inv'
  BY <1>11 DEF LockSlot, Goto
<1>12. ASSUME NEW c \in Calls, Attach(c) PROVE Inv'
  BY <1>12 DEF Attach, Goto
<1>13. ASSUME NEW c \in Calls, LookAgain(c) PROVE Inv'
  <2>1. pc[c] = "looking" /\ lock = NoOne /\ binding = c
        /\ UNCHANGED <<pattern, cell, peer, dialer, sub, lock, slot, watched, events, late>>
    BY <1>13 DEF LookAgain
  <2>2. CASE slot # NoOne
    BY <1>13, <2>1, <2>2 DEF LookAgain, Goto
  <2>3. CASE slot = NoOne
    <3>1. PICK k \in Sockets : /\ conn[k] = "none"
                               /\ conn' = [conn EXCEPT ![k] = "dialing"]
                               /\ holds' = [holds EXCEPT ![c] = k]
      BY <1>13, <2>3 DEF LookAgain, StartDial
    <3>2. Goto(c, "dialing") /\ UNCHANGED binding
      BY <1>13, <2>3 DEF LookAgain, StartDial
    <3> QED BY <2>1, <2>3, <3>1, <3>2 DEF Goto
  <2> QED BY <2>2, <2>3
<1>14. ASSUME NEW c \in Calls, DialFails(c) PROVE Inv'
  BY <1>14 DEF DialFails, Ends, Goto, Dropped
<1>15. ASSUME NEW c \in Calls, Install(c) PROVE Inv'
  <2>1. slot = NoOne /\ watched = {} /\ pc[c] = "dialing" /\ binding = c
    BY <1>15 DEF Install
  <2>2. slot' = holds[c] /\ holds' = [holds EXCEPT ![c] = NoOne]
        /\ UNCHANGED <<pattern, dialer, sub, lock, conn, events, late, cell, peer>>
    BY <1>15 DEF Install
  <2>3. holds[c] \in Sockets /\ conn[holds[c]] \notin {"none", "dialing", "failed"}
    BY <1>15, <2>1 DEF Install
  <2>4. \A d \in Calls \ {c} : holds[d] = NoOne /\ pc[d] \notin Attaching
    BY <2>1
  <2>5. TypeOK' /\ LateIsRefused'
    BY <1>15, <2>1, <2>3 DEF Install, Goto
  <2>6. WatchedWhileInSlot'
    BY <1>15, <2>1, <2>3, <2>4 DEF Install
  <2>7. Guarded'
    BY <1>15, <2>1, <2>2, <2>3, <2>4 DEF Install, Goto
  <2> QED BY <2>5, <2>6, <2>7
<1>16. ASSUME NEW c \in Calls, Send(c) PROVE Inv'
  <2>1. pc[c] = "send" /\ lock = c /\ slot \in Sockets /\ lock' = NoOne /\ Ends(c)
    BY <1>16 DEF Send
  <2>2. \/ pattern = "queue" /\ slot' = NoOne /\ Dropped(slot)
        \/ UNCHANGED <<slot, conn>>
    BY <1>16 DEF Send
  <2>3. UNCHANGED <<pattern, cell, peer, dialer, sub, binding, watched, events, holds>>
    BY <1>16 DEF Send
  <2>4. \A d \in Calls : d # c => pc[d] # "send" /\ holds[d] = NoOne
    BY <2>1
  <2>5. CASE pattern = "queue" /\ slot' = NoOne /\ Dropped(slot)
    BY <2>1, <2>3, <2>4, <2>5 DEF Ends, Goto, Dropped
  <2>6. CASE UNCHANGED <<slot, conn>>
    BY <2>1, <2>3, <2>4, <2>6 DEF Ends, Goto
  <2> QED BY <2>2, <2>5, <2>6
<1>17. ASSUME NEW c \in Calls, Cancel(c) PROVE Inv'
  BY <1>17 DEF Cancel, Ends, Goto
<1>18. ASSUME NEW k \in Sockets, FilterArrives(k) PROVE Inv'
  BY <1>18 DEF FilterArrives
<1>19. ASSUME NEW k \in Sockets, Notices(k) PROVE Inv'
  BY <1>19 DEF Notices
<1>20. ASSUME NEW k \in Sockets, Dial(k) PROVE Inv'
  <2>1. PICK what \in {"failed", "up", "joining"} : conn' = [conn EXCEPT ![k] = what]
    BY <1>20 DEF Dial
  <2>2. k # slot /\ k \notin events
    BY <1>20 DEF Dial
  <2> QED BY <1>20, <2>1, <2>2 DEF Dial
<1>21. ASSUME NEW k \in Sockets, Discard(k) PROVE Inv'
  <2>1. k # slot /\ \A c \in Calls : holds[c] # k
    BY <1>21 DEF Discard, InUse
  <2> QED BY <1>21, <2>1 DEF Discard, Dropped
<1>22. ASSUME NEW k \in Sockets, ForgetOnDisconnect(k) PROVE Inv'
  BY <1>22 DEF ForgetOnDisconnect
<1> QED
  BY <1>1, <1>2, <1>3, <1>4, <1>5, <1>6, <1>7, <1>8, <1>9, <1>10, <1>11, <1>12, <1>13, <1>14,
     <1>15, <1>16, <1>17, <1>18, <1>19, <1>20, <1>21, <1>22 DEF Next, Serve, Client, Runtime
-----------------------------------------------------------------------------
\* The inductive invariant holds in every reachable state.
THEOREM Invariance == Spec => []Inv
BY InitInv, StepInv, PTL DEF Spec

\* Publish, dialer and ensure_open: a publish begun after a subscription of this service has
\* opened, or after shutdown, is refused before it takes the slot.
THEOREM RefusesTheLate == Spec => []LateIsRefused
<1>1. Inv => LateIsRefused
  BY DEF Inv
<1> QED BY Invariance, <1>1, PTL

\* The socket in the slot and the one an attach waits for are never two.
LEMMA OneInUse == Inv => \A k, l \in InUse : k = l
<1> SUFFICES ASSUME Inv PROVE \A k, l \in InUse : k = l
  OBVIOUS
<1>1. \A c, d \in Calls : holds[c] # NoOne /\ holds[d] # NoOne => c = d
  BY DEF Inv, Guarded, Attaching
<1>2. \A c \in Calls : holds[c] # NoOne => slot = NoOne
  BY DEF Inv, Guarded
<1> QED BY <1>1, <1>2 DEF InUse

ComesNew == \A k \in InUse' \ InUse : conn[k] = "none"

\* A socket comes into use at the start of its dial, and not again.
LEMMA ComesIntoUseNew == Inv /\ [Next]_vars => ComesNew
<1> SUFFICES ASSUME Inv, [Next]_vars, NEW k \in InUse', k \notin InUse PROVE conn[k] = "none"
  BY DEF ComesNew
<1>1. /\ k # NoOne /\ k # slot /\ \A c \in Calls : holds[c] # k
      /\ k = slot' \/ \E c \in Calls : holds'[c] = k
  BY DEF InUse
<1>2. holds \in [Calls -> Sockets \cup {NoOne}]
  BY DEF Inv, TypeOK
<1>3. ~UNCHANGED <<slot, holds>>
  BY <1>1
<1>4. ASSUME NEW c \in Calls, LookAgain(c) PROVE conn[k] = "none"
  BY <1>1, <1>2, <1>4 DEF LookAgain, StartDial
<1>5. ASSUME NEW c \in Calls, DialFails(c) PROVE FALSE
  BY <1>1, <1>2, <1>5 DEF DialFails
<1>6. ASSUME NEW c \in Calls, Install(c) PROVE FALSE
  BY <1>1, <1>2, <1>6 DEF Install
<1>7. ASSUME NEW c \in Calls, Send(c) PROVE FALSE
  BY <1>1, <1>2, <1>7 DEF Send
<1>8. ASSUME NEW c \in Calls, Cancel(c) PROVE FALSE
  BY <1>1, <1>2, <1>8 DEF Cancel
<1>9. ASSUME NEW l \in Sockets, ForgetOnDisconnect(l) PROVE FALSE
  BY <1>1, <1>2, <1>9 DEF ForgetOnDisconnect
<1>10. \E c \in Calls : LookAgain(c)
  BY <1>3, <1>5, <1>6, <1>7, <1>8, <1>9
  DEF Next, Serve, Client, Runtime, vars, slotVars, Connect, Shutdown, PeerStarts, PeerStops, Open,
      AttachReceiver, Close, Publish, CheckDialer, LockSlot, Attach, Dial, Discard, FilterArrives,
      Notices
<1> QED BY <1>4, <1>10

\* Publisher::attach: a publisher has one socket to send on.  The holder of the attach lock is
\* the only one that waits for a dial, it has found the slot empty, and the socket of a dial
\* that outlives its publish does not come back into use.
THEOREM KeepsOneSocket == Spec => OneSocket
<1>1. Inv /\ [Next]_vars => [ComesNew]_vars
  BY ComesIntoUseNew
<1>2. Spec => [][ComesNew]_vars
  BY Invariance, <1>1, PTL DEF Spec
<1>3. Spec => [](\A k, l \in InUse : k = l)
  BY Invariance, OneInUse, PTL
<1> QED BY <1>2, <1>3, PTL DEF OneSocket, ComesNew

\* The socket in a fan-out slot is watched, and no task outlives the socket it watches.
THEOREM WatchesItsSlot == Spec => []WatchedWhileInSlot
<1>1. Inv => WatchedWhileInSlot
  BY DEF Inv
<1> QED BY Invariance, <1>1, PTL

EmptiesItsOwn ==
  pattern = "fanout" /\ slot # NoOne /\ slot' # slot =>
    slot \in watched \cap events /\ slot \notin watched' /\ conn[slot] = "gone"

\* forget_on_disconnect: the socket it takes is the one it watched.  No other step changes the
\* slot of a dialing fan-out publisher that has one.
THEOREM TakesItsOwn == Spec => TakesWhatItWatched
<1>1. ASSUME Inv, [Next]_vars PROVE EmptiesItsOwn
  <2> SUFFICES ASSUME pattern = "fanout", slot # NoOne, slot' # slot
               PROVE  slot \in watched \cap events /\ slot \notin watched' /\ conn[slot] = "gone"
    BY DEF EmptiesItsOwn
  <2>1. watched = {slot} /\ \A k \in events : conn[k] = "gone"
    BY <1>1 DEF Inv, WatchedWhileInSlot, Guarded
  <2>2. \A c \in Calls : ~Install(c)
    BY <1>1 DEF Inv, Guarded, Install
  <2>3. \A c \in Calls : ~Send(c)
    BY DEF Send
  <2>4. \A c \in Calls : ~(Serve(c) \/ Publish(c) \/ Cancel(c))
    BY <2>2, <2>3 DEF Serve, Publish, Cancel, CheckDialer, LockSlot, Attach, LookAgain, DialFails,
                      slotVars
  <2>5. PICK k \in Sockets : ForgetOnDisconnect(k)
    BY <1>1, <2>4 DEF Next, vars, slotVars, Connect, Shutdown, PeerStarts, PeerStops, Open,
                      AttachReceiver, Close, Client, FilterArrives, Notices, Runtime, Dial, Discard
  <2>6. k = slot
    BY <2>1, <2>5 DEF ForgetOnDisconnect
  <2> QED BY <2>1, <2>5, <2>6 DEF ForgetOnDisconnect
<1>2. Inv /\ [Next]_vars => [EmptiesItsOwn]_vars
  BY <1>1
<1>3. Spec => [][EmptiesItsOwn]_vars
  BY Invariance, <1>2, PTL DEF Spec
<1> QED BY <1>3, PTL DEF TakesWhatItWatched, EmptiesItsOwn
=============================================================================
