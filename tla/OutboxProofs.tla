---------------------------- MODULE OutboxProofs ----------------------------
(***************************************************************************)
(* What Outbox guarantees for every number of clones, every room in the    *)
(* peer's pipe and every number of dropped publishes and stopped peers.    *)
(***************************************************************************)
EXTENDS Outbox, TLAPS

------------------------------------------------------------------------------
(* What is known of messages and of what has left. *)

LEMMA Appended ==
  ASSUME NEW s \in Seq(Msgs), NEW m \in Msgs
  PROVE  /\ Append(s, m) \in Seq(Msgs)
         /\ Len(Append(s, m)) = Len(s) + 1
         /\ \A i \in 1..Len(s) : Append(s, m)[i] = s[i]
         /\ Append(s, m)[Len(s) + 1] = m
OBVIOUS

LEMMA Named ==
  ASSUME TypeOK, NEW t \in Tasks
  PROVE  /\ Message(t) \in Msgs /\ Message(t) \in Calls /\ Message(t) # NoMsg
BY OutboxAssumption DEF TypeOK, Message, Msgs, Calls, NoMsg

LEMMA EmptyPipe == 0 \in 0..Room
BY OutboxAssumption

LEMMA Fresh ==
  ASSUME TypeOK, Untold, NEW t \in Tasks, pc[t] # "idle"
  PROVE  outcome[Message(t)] = "none" /\ Message(t) \in Calls
BY DEF TypeOK, Untold, Message, Calls

LEMMA LeavesTyped ==
  ASSUME TypeOK, Leaves
  PROVE  /\ handed' \in Seq(Msgs) /\ queued' \in 0..Room /\ rotation' \in BOOLEAN
         /\ flight' \in Msgs \cup {NoMsg}
         /\ conn' \in {"none", "joining", "up", "dead"}
<1>1. flight \in Msgs
  BY DEF TypeOK, Leaves
<1>2. handed' \in Seq(Msgs)
  BY <1>1, Appended DEF TypeOK, Leaves
<1>3. queued' \in 0..Room
  BY OutboxAssumption DEF TypeOK, Leaves
<1> QED BY <1>2, <1>3 DEF TypeOK, Leaves

LEMMA BreaksTyped ==
  ASSUME TypeOK, Breaks
  PROVE  /\ handed' \in Seq(Msgs) /\ queued' \in 0..Room /\ rotation' \in BOOLEAN
         /\ flight' \in Msgs \cup {NoMsg}
         /\ conn' \in {"none", "joining", "up", "dead"}
BY EmptyPipe DEF TypeOK, Breaks

LEMMA CompletedTyped ==
  ASSUME TypeOK, CompleteDropped
  PROVE  /\ handed' \in Seq(Msgs) /\ queued' \in 0..Room /\ rotation' \in BOOLEAN
         /\ flight' \in Msgs \cup {NoMsg} /\ dropped' \in Msgs \cup {NoMsg}
         /\ conn' \in {"none", "joining", "up", "dead"}
         /\ logged' \subseteq (Msgs \cup {NoMsg}) \X Msgs
<1>1. CASE Leaves /\ UNCHANGED logged
  BY <1>1, LeavesTyped DEF CompleteDropped, TypeOK
<1>2. CASE Breaks /\ logged' = logged \cup {<<dropped, flight>>}
  <2>1. flight \in Msgs
    BY <1>2 DEF TypeOK, Breaks
  <2> QED BY <1>2, <2>1, BreaksTyped DEF CompleteDropped, TypeOK
<1> QED BY <1>1, <1>2 DEF CompleteDropped

LEMMA ReturnTyped ==
  ASSUME TypeOK, NEW t \in Tasks, NEW r \in {"ok", "nopeer", "wire"}, Return(t, r)
  PROVE  /\ outcome' \in [Calls -> {"none", "ok", "nopeer", "wire", "parked", "cut"}]
         /\ slot' \in {"held", "empty"}
         /\ lock' \in Tasks \cup {NoOne}
         /\ pc' \in [Tasks -> {"idle", "lock", "attach", "drain", "offer", "waiting",
                               "sending"}]
         /\ window' \in [Tasks -> {"none", "open", "over"}]
BY DEF TypeOK, Return, Goto

LEMMA Frozen ==
  ASSUME AnswersTrue, UNCHANGED <<handed, outcome>>
  PROVE  AnswersTrue'
BY DEF AnswersTrue, HasLeft

LEMMA ToldOfNone ==
  ASSUME TypeOK, AnswersTrue, UNCHANGED handed, NEW m \in Calls, outcome[m] = "none",
         NEW r, r # "ok", outcome' = [outcome EXCEPT ![m] = r]
  PROVE  AnswersTrue'
<1>1. ~HasLeft(m)
  BY DEF AnswersTrue
<1>2. \A n \in Calls : HasLeft(n)' <=> HasLeft(n)
  BY DEF HasLeft
<1>3. \A n \in Calls : n # m => outcome'[n] = outcome[n]
  BY DEF TypeOK
<1>4. outcome'[m] = r
  BY DEF TypeOK
<1> QED BY <1>1, <1>2, <1>3, <1>4 DEF AnswersTrue

LEMMA LeftNow ==
  ASSUME TypeOK, Leaves, NEW m
  PROVE  HasLeft(m)' <=> HasLeft(m) \/ m = flight
<1>1. flight \in Msgs /\ handed \in Seq(Msgs) /\ handed' = Append(handed, flight)
  BY DEF TypeOK, Leaves
<1>2. Len(handed) \in Nat /\ Len(handed') = Len(handed) + 1
  BY <1>1
<1>3. \A i \in 1..Len(handed) : handed'[i] = handed[i]
  BY <1>1
<1>4. handed'[Len(handed) + 1] = flight
  BY <1>1
<1> QED BY <1>2, <1>3, <1>4 DEF HasLeft

LEMMA ToldOfLeft ==
  ASSUME TypeOK, AnswersTrue, Untold, Leaves,
         \/ outcome[flight] = "parked" /\ UNCHANGED outcome
         \/ outcome' = [outcome EXCEPT ![flight] = "ok"]
  PROVE  AnswersTrue'
<1>1. flight \in Calls /\ ~HasLeft(flight)
  BY DEF Untold, Leaves
<1>2. flight \in Msgs /\ handed \in Seq(Msgs) /\ handed' = Append(handed, flight)
  BY DEF TypeOK, Leaves
<1>3. \A i, j \in 1..Len(handed') : handed'[i] = handed'[j] => i = j
  <2>1. Len(handed) \in Nat /\ Len(handed') = Len(handed) + 1
    BY <1>2
  <2>2. \A i \in 1..Len(handed) : handed'[i] = handed[i] /\ handed[i] # flight
    BY <1>1, <1>2 DEF HasLeft
  <2>3. handed'[Len(handed) + 1] = flight
    BY <1>2
  <2> QED BY <2>1, <2>2, <2>3 DEF AnswersTrue
<1>4. outcome'[flight] \in {"ok", "parked"}
  BY <1>1 DEF TypeOK
<1>5. \A n \in Calls : n # flight => outcome'[n] = outcome[n]
  BY DEF TypeOK
<1>6. \A n \in Calls : HasLeft(n)' <=> HasLeft(n) \/ n = flight
  BY LeftNow
<1> QED BY <1>3, <1>4, <1>5, <1>6 DEF AnswersTrue


LEMMA TypeInit == Init => TypeOK
<1> SUFFICES ASSUME Init PROVE TypeOK
  OBVIOUS
<1>1. 0 \in 0..Room /\ MaxCalls \in 0..MaxCalls
  BY OutboxAssumption
<1>2. handed \in Seq(Msgs)
  BY DEF Init
<1>3. left \in [Tasks -> 0..MaxCalls] /\ queued \in 0..Room
  BY <1>1 DEF Init
<1>4. outcome \in [Calls -> {"none", "ok", "nopeer", "wire", "parked", "cut"}]
  BY DEF Init
<1>5. cancels \in Nat /\ stops \in Nat
  BY OutboxAssumption DEF Init
<1> QED BY <1>2, <1>3, <1>4, <1>5 DEF Init, TypeOK

LEMMA GotoTyped ==
  ASSUME TypeOK, NEW t \in Tasks, NEW l, Goto(t, l),
         l \in {"idle", "lock", "attach", "drain", "offer", "waiting", "sending"}
  PROVE  pc' \in [Tasks -> {"idle", "lock", "attach", "drain", "offer", "waiting",
                            "sending"}]
  BY DEF TypeOK, Goto

LEMMA TypeStep == TypeOK /\ [Next]_vars => TypeOK'
<1> SUFFICES ASSUME TypeOK, [Next]_vars PROVE TypeOK'
  OBVIOUS
<1>1. ASSUME NEW t \in Tasks, Publish(t) PROVE TypeOK'
  <2> USE <1>1
  <2>1. left' \in [Tasks -> 0..MaxCalls]
    BY OutboxAssumption DEF TypeOK, Publish
  <2>2. Goto(t, "lock")
    BY DEF Publish
  <2> QED BY <2>1, <2>2, GotoTyped DEF TypeOK, Publish, slotVars, peerVars,
             wireVars
<1>2. ASSUME NEW t \in Tasks, Lock(t) PROVE TypeOK'
  <2> USE <1>2
  <2>1. lock' \in Tasks \cup {NoOne}
    BY DEF TypeOK, Lock
  <2>2. \/ Goto(t, "attach") \/ Goto(t, "drain") \/ Goto(t, "offer")
    BY DEF Lock
  <2>3. pc' \in [Tasks -> {"idle", "lock", "attach", "drain", "offer", "waiting",
                          "sending"}]
    BY <2>2, GotoTyped
  <2> QED BY <2>1, <2>3 DEF TypeOK, Lock, slotVars, peerVars, wireVars
<1>3. ASSUME NEW t \in Tasks, Attach(t) PROVE TypeOK'
  <2> USE <1>3
  <2>1. pc' \in [Tasks -> {"idle", "lock", "attach", "drain", "offer", "waiting",
                          "sending"}]
    BY GotoTyped DEF Attach
  <2>2. /\ slot' \in {"held", "empty"} /\ conn' \in {"none", "joining", "up", "dead"}
        /\ UNCHANGED <<rotation, queued, handed, flight>>
    BY DEF TypeOK, Attach, wireVars
  <2>3. /\ UNCHANGED <<side, yielding, lock, left, window, dropped, alive, stops>>
        /\ UNCHANGED <<outcome, logged, cancels>>
    BY DEF Attach, peerVars
  <2> QED BY <2>1, <2>2, <2>3 DEF TypeOK
<1>4. ASSUME NEW t \in Tasks, Drain(t) PROVE TypeOK'
  BY <1>4, CompletedTyped DEF TypeOK, Drain, Goto, slotVars, peerVars
<1>5. ASSUME NEW t \in Tasks, Offer(t) PROVE TypeOK'
  <2> USE <1>5
  <2>1. Goto(t, "sending")
    BY DEF Offer
  <2>2. flight' \in Msgs \cup {NoMsg} /\ rotation' \in BOOLEAN
    BY Named DEF Offer
  <2> QED BY <2>1, <2>2, GotoTyped DEF TypeOK, Offer, slotVars, peerVars
<1>6. ASSUME NEW t \in Tasks, Refused(t) PROVE TypeOK'
  <2> USE <1>6
  <2>1. window' \in [Tasks -> {"none", "open", "over"}]
    BY DEF TypeOK, Refused
  <2>2. Goto(t, "waiting")
    BY DEF Refused
  <2> QED BY <2>1, <2>2, GotoTyped DEF TypeOK, Refused, slotVars, peerVars,
             wireVars
<1>7. ASSUME NEW t \in Tasks, GivesUp(t) PROVE TypeOK'
  <2> USE <1>7
  <2>1. /\ conn' \in {"none", "joining", "up", "dead"} /\ queued' \in 0..Room
        /\ rotation' \in BOOLEAN
    BY EmptyPipe DEF TypeOK, GivesUp, NoSocket
  <2> QED BY <2>1, ReturnTyped DEF TypeOK, GivesUp, peerVars
<1>8. ASSUME NEW t \in Tasks, Retry(t) PROVE TypeOK'
  <2>1. Goto(t, "offer")
    BY <1>8 DEF Retry
  <2> QED BY <1>8, <2>1, GotoTyped DEF TypeOK, Retry, slotVars, peerVars, wireVars
<1>9. ASSUME NEW t \in Tasks, WindowCloses(t) PROVE TypeOK'
  <2>1. window' \in [Tasks -> {"none", "open", "over"}]
    BY <1>9 DEF TypeOK, WindowCloses
  <2> QED BY <1>9, <2>1 DEF TypeOK, WindowCloses, slotVars, peerVars, wireVars
<1>10. ASSUME NEW t \in Tasks, Sent(t) PROVE TypeOK'
  BY <1>10, LeavesTyped, ReturnTyped DEF TypeOK, Sent, peerVars
<1>11. ASSUME NEW t \in Tasks, SendBroke(t) PROVE TypeOK'
  BY <1>11, BreaksTyped, ReturnTyped DEF TypeOK, SendBroke, peerVars
<1>12. ASSUME NEW t \in Tasks, Cancel(t) PROVE TypeOK'
  <2> USE <1>12
  <2>1. Goto(t, "idle")
    BY DEF Cancel
  <2>2. window' \in [Tasks -> {"none", "open", "over"}]
    BY DEF TypeOK, Cancel
  <2>3. dropped' \in Msgs \cup {NoMsg}
    BY Named DEF TypeOK, Cancel
  <2>4. outcome' \in [Calls -> {"none", "ok", "nopeer", "wire", "parked", "cut"}]
    BY DEF TypeOK, Cancel
  <2>5. lock' \in Tasks \cup {NoOne} /\ cancels' \in Nat
    BY DEF TypeOK, Cancel
  <2> QED BY <2>1, <2>2, <2>3, <2>4, <2>5, GotoTyped DEF TypeOK, Cancel, slotVars,
             peerVars, wireVars
<1>13. CASE GiveWay
  BY <1>13 DEF TypeOK, slotVars, peerVars, wireVars, GiveWay
<1>14. CASE GiveWayDrains
  BY <1>14, CompletedTyped DEF TypeOK, GiveWayDrains, slotVars, peerVars
<1>15. CASE GiveWayReleases
  BY <1>15, EmptyPipe DEF TypeOK, GiveWayReleases, NoSocket, peerVars
<1>16. CASE PeerStarts
  BY <1>16 DEF TypeOK, slotVars, peerVars, wireVars, PeerStarts
<1>17. CASE PeerDials
  BY <1>17 DEF TypeOK, slotVars, peerVars, wireVars, PeerDials
<1>18. CASE Joins
  BY <1>18 DEF TypeOK, slotVars, peerVars, wireVars, Joins
<1>19. CASE PeerReads
  <2>1. queued' \in 0..Room
    BY <1>19, OutboxAssumption DEF TypeOK, PeerReads
  <2> QED BY <1>19, <2>1 DEF TypeOK, PeerReads, slotVars, peerVars
<1>20. CASE PeerStops
  <2> USE <1>20
  <2>1. queued' \in 0..Room
    BY OutboxAssumption DEF PeerStops
  <2>2. conn' \in {"none", "joining", "up", "dead"}
    BY DEF TypeOK, PeerStops
  <2>3. stops' \in Nat
    BY DEF TypeOK, PeerStops
  <2> QED BY <2>1, <2>2, <2>3 DEF TypeOK, PeerStops, slotVars
<1>21. CASE Notices
  BY <1>21 DEF TypeOK, slotVars, peerVars, wireVars, Notices
<1>22. CASE UNCHANGED vars
  BY <1>22 DEF TypeOK, vars, slotVars, peerVars, wireVars
<1> QED BY <1>1, <1>2, <1>3, <1>4, <1>5, <1>6, <1>7, <1>8, <1>9, <1>10, <1>11,
       <1>12, <1>13, <1>14, <1>15, <1>16, <1>17, <1>18, <1>19, <1>20, <1>21,
       <1>22 DEF Next, Sending, Yielding, Network

------------------------------------------------------------------------------
(* The inductive invariant, action by action. *)

LEMMA InvInit == Init => Inv
<1> SUFFICES ASSUME Init PROVE Inv
  OBVIOUS
<1>1. TypeOK
  BY TypeInit
<1>2. SocketAtHand /\ RightName /\ PeerKept /\ HolderSends
  BY OutboxAssumption DEF Init, SocketAtHand, RightName, PeerKept, HolderSends
<1>3. AnswersTrue /\ Untold
  BY OutboxAssumption DEF Init, AnswersTrue, Untold, HasLeft, Calls
<1> QED BY <1>1, <1>2, <1>3 DEF Inv

LEMMA InvStep == Inv /\ [Next]_vars => Inv'
<1> SUFFICES ASSUME Inv, [Next]_vars PROVE Inv'
  OBVIOUS
<1>0. TypeOK'
  BY TypeStep DEF Inv
<1> USE OutboxAssumption, <1>0 DEF Inv, TypeOK, slotVars, peerVars, wireVars
<1>1. ASSUME NEW t \in Tasks, Publish(t) PROVE Inv'
  <2> USE <1>1 DEF Publish, Goto
  <2>1. SocketAtHand'
    BY DEF SocketAtHand, HolderSends, NoMsg, Message
  <2>2. RightName'
    BY DEF RightName, SocketAtHand, HolderSends, NoMsg, Message
  <2>3. HolderSends'
    BY DEF HolderSends, SocketAtHand
  <2>4. Untold'
    BY DEF Untold, HasLeft, SocketAtHand, HolderSends, NoMsg, Message, Calls
  <2> QED BY <2>1, <2>2, <2>3, <2>4 DEF PeerKept, AnswersTrue, HasLeft,
         Message
<1>2. ASSUME NEW t \in Tasks, Lock(t) PROVE Inv'
  <2> USE <1>2 DEF Lock, Goto
  <2>1. SocketAtHand'
    BY DEF SocketAtHand, HolderSends, NoMsg, Message
  <2>2. RightName'
    BY DEF RightName, SocketAtHand, HolderSends, NoMsg, Message
  <2>3. HolderSends'
    BY DEF HolderSends, SocketAtHand
  <2>4. Untold'
    BY DEF Untold, HasLeft, SocketAtHand, HolderSends, NoMsg, Message, Calls
  <2> QED BY <2>1, <2>2, <2>3, <2>4 DEF PeerKept, AnswersTrue, HasLeft,
         Message
<1>3. ASSUME NEW t \in Tasks, Attach(t) PROVE Inv'
  <2> USE <1>3 DEF Attach, Goto
  <2>1. SocketAtHand'
    BY DEF SocketAtHand, HolderSends, NoMsg, Message
  <2>2. RightName'
    BY DEF RightName, SocketAtHand, HolderSends, NoMsg, Message
  <2>3. PeerKept'
    BY DEF PeerKept, NoMsg, Message
  <2>4. AnswersTrue'
    BY Frozen
  <2>5. HolderSends'
    BY DEF HolderSends, SocketAtHand
  <2>6. Untold'
    BY DEF Untold, HasLeft, SocketAtHand, HolderSends, NoMsg, Message, Calls
  <2> QED BY <2>1, <2>2, <2>3, <2>4, <2>5, <2>6
<1>4. ASSUME NEW t \in Tasks, Drain(t) PROVE Inv'
  <2> USE <1>4 DEF Drain, CompleteDropped, Leaves, Breaks, Goto
  <2>1. SocketAtHand'
    BY DEF SocketAtHand, HolderSends, NoMsg, Message
  <2>2. RightName'
    BY DEF RightName, SocketAtHand, HolderSends, NoMsg, Message
  <2>3. PeerKept'
    BY DEF PeerKept, NoMsg, Message
  <2>4. AnswersTrue'
    <3>1. CASE Leaves
      BY <3>1, ToldOfLeft DEF Untold, HolderSends
    <3>2. CASE Breaks
      BY <3>2, Frozen
    <3> QED BY <3>1, <3>2
  <2>5. HolderSends'
    BY DEF HolderSends, SocketAtHand
  <2>6. Untold'
    <3>1. flight' = NoMsg
      OBVIOUS
    <3>2. \A m : HasLeft(m)' => HasLeft(m) \/ m = flight
      BY LeftNow DEF HasLeft
    <3> QED BY <3>1 DEF Untold
  <2> QED BY <2>1, <2>2, <2>3, <2>4, <2>5, <2>6
<1>5. ASSUME NEW t \in Tasks, Offer(t) PROVE Inv'
  <2> USE <1>5 DEF Offer, Goto
  <2>1. SocketAtHand'
    BY DEF SocketAtHand, HolderSends, NoMsg, Message
  <2>2. RightName'
    BY DEF RightName, SocketAtHand, HolderSends, NoMsg, Message
  <2>3. PeerKept'
    BY DEF PeerKept, NoMsg, Message
  <2>4. HolderSends'
    BY DEF HolderSends, SocketAtHand
  <2>5. Untold'
    <3>1. outcome[Message(t)] = "none" /\ Message(t) \in Calls /\ ~HasLeft(Message(t))
      BY Fresh DEF AnswersTrue
    <3>2. UNCHANGED <<outcome, left, handed>> /\ pc'[t] = "sending"
      BY DEF Offer
    <3>3. \A q \in Tasks : pc[q] # "idle" <=> pc'[q] # "idle"
      OBVIOUS
    <3> QED BY <3>1, <3>2, <3>3 DEF Untold, HasLeft
  <2> QED BY <2>1, <2>2, <2>3, <2>4, <2>5 DEF AnswersTrue, HasLeft, Message
<1>6. ASSUME NEW t \in Tasks, Refused(t) PROVE Inv'
  <2> USE <1>6 DEF Refused, Goto
  <2>1. SocketAtHand'
    BY DEF SocketAtHand, HolderSends, NoMsg, Message
  <2>2. RightName'
    BY DEF RightName, SocketAtHand, HolderSends, NoMsg, Message
  <2>3. HolderSends'
    BY DEF HolderSends, SocketAtHand
  <2>4. Untold'
    BY DEF Untold, HasLeft, SocketAtHand, HolderSends, NoMsg, Message, Calls
  <2> QED BY <2>1, <2>2, <2>3, <2>4 DEF PeerKept, AnswersTrue, HasLeft,
         Message
<1>7. ASSUME NEW t \in Tasks, GivesUp(t) PROVE Inv'
  <2> USE <1>7 DEF GivesUp, Return, NoSocket, Goto
  <2>1. SocketAtHand'
    BY DEF SocketAtHand, HolderSends, NoMsg, Message
  <2>2. RightName'
    BY DEF RightName, SocketAtHand, HolderSends, NoMsg, Message
  <2>3. PeerKept'
    BY DEF PeerKept, NoMsg, Message
  <2>4. AnswersTrue'
    <3>1. outcome[Message(t)] = "none" /\ Message(t) \in Calls
      BY Fresh
    <3> QED BY <3>1, ToldOfNone
  <2>5. HolderSends'
    BY DEF HolderSends, SocketAtHand
  <2>6. Untold'
    BY DEF Untold, HasLeft, SocketAtHand, HolderSends, NoMsg, Message, Calls
  <2> QED BY <2>1, <2>2, <2>3, <2>4, <2>5, <2>6
<1>8. ASSUME NEW t \in Tasks, Retry(t) PROVE Inv'
  <2> USE <1>8 DEF Retry, Goto
  <2>1. SocketAtHand'
    BY DEF SocketAtHand, HolderSends, NoMsg, Message
  <2>2. RightName'
    BY DEF RightName, SocketAtHand, HolderSends, NoMsg, Message
  <2>3. HolderSends'
    BY DEF HolderSends, SocketAtHand
  <2>4. Untold'
    BY DEF Untold, HasLeft, SocketAtHand, HolderSends, NoMsg, Message, Calls
  <2> QED BY <2>1, <2>2, <2>3, <2>4 DEF PeerKept, AnswersTrue, HasLeft,
         Message
<1>9. ASSUME NEW t \in Tasks, WindowCloses(t) PROVE Inv'
  BY <1>9 DEF WindowCloses, SocketAtHand, RightName, PeerKept, AnswersTrue,
         HolderSends, Untold, HasLeft, Message
<1>10. ASSUME NEW t \in Tasks, Sent(t) PROVE Inv'
  <2> USE <1>10 DEF Sent, Leaves, Return, Goto
  <2>1. SocketAtHand'
    BY DEF SocketAtHand, HolderSends, NoMsg, Message
  <2>2. RightName'
    BY DEF RightName, SocketAtHand, HolderSends, NoMsg, Message
  <2>3. PeerKept'
    BY DEF PeerKept, NoMsg, Message
  <2>4. AnswersTrue'
    <3>1. flight = Message(t)
      BY DEF SocketAtHand
    <3> QED BY <3>1, ToldOfLeft
  <2>5. HolderSends'
    BY DEF HolderSends, SocketAtHand
  <2>6. Untold'
    BY DEF Untold, HasLeft, SocketAtHand, HolderSends, NoMsg, Message, Calls
  <2> QED BY <2>1, <2>2, <2>3, <2>4, <2>5, <2>6
<1>11. ASSUME NEW t \in Tasks, SendBroke(t) PROVE Inv'
  <2> USE <1>11 DEF SendBroke, Breaks, Return, Goto
  <2>1. SocketAtHand'
    BY DEF SocketAtHand, HolderSends, NoMsg, Message
  <2>2. RightName'
    BY DEF RightName, SocketAtHand, HolderSends, NoMsg, Message
  <2>3. PeerKept'
    BY DEF PeerKept, NoMsg, Message
  <2>4. AnswersTrue'
    <3>1. outcome[Message(t)] = "none" /\ Message(t) \in Calls
      BY Fresh
    <3> QED BY <3>1, ToldOfNone
  <2>5. HolderSends'
    BY DEF HolderSends, SocketAtHand
  <2>6. Untold'
    BY DEF Untold, HasLeft, SocketAtHand, HolderSends, NoMsg, Message, Calls
  <2> QED BY <2>1, <2>2, <2>3, <2>4, <2>5, <2>6
<1>12. ASSUME NEW t \in Tasks, Cancel(t) PROVE Inv'
  <2> USE <1>12 DEF Cancel, Goto
  <2>1. SocketAtHand'
    BY DEF SocketAtHand, HolderSends, NoMsg, Message
  <2>2. RightName'
    BY DEF RightName, SocketAtHand, HolderSends, NoMsg, Message
  <2>3. AnswersTrue'
    <3>1. outcome[Message(t)] = "none" /\ Message(t) \in Calls
      BY Fresh
    <3> QED BY <3>1, ToldOfNone
  <2>4. HolderSends'
    BY DEF HolderSends, SocketAtHand
  <2>5. Untold'
    BY DEF Untold, HasLeft, SocketAtHand, HolderSends, NoMsg, Message, Calls
  <2> QED BY <2>1, <2>2, <2>3, <2>4, <2>5 DEF PeerKept, HasLeft, Message
<1>13. CASE GiveWay
  <2> USE <1>13 DEF GiveWay
  <2>1. HolderSends'
    BY DEF HolderSends, SocketAtHand
  <2> QED BY <2>1 DEF SocketAtHand, RightName, PeerKept, AnswersTrue, Untold,
         HasLeft, Message
<1>14. CASE GiveWayDrains
  <2> USE <1>14 DEF GiveWayDrains, CompleteDropped, Leaves, Breaks
  <2>1. SocketAtHand'
    BY DEF SocketAtHand, HolderSends, NoMsg, Message
  <2>2. RightName'
    BY DEF RightName, SocketAtHand, HolderSends, NoMsg, Message
  <2>3. PeerKept'
    BY DEF PeerKept, NoMsg, Message
  <2>4. AnswersTrue'
    <3>1. CASE Leaves
      BY <3>1, ToldOfLeft DEF Untold, HolderSends
    <3>2. CASE Breaks
      BY <3>2, Frozen
    <3> QED BY <3>1, <3>2
  <2>5. HolderSends'
    BY DEF HolderSends, SocketAtHand
  <2>6. Untold'
    BY DEF Untold, HasLeft, SocketAtHand, HolderSends, NoMsg, Message, Calls
  <2> QED BY <2>1, <2>2, <2>3, <2>4, <2>5, <2>6
<1>15. CASE GiveWayReleases
  <2> USE <1>15 DEF GiveWayReleases, NoSocket
  <2>1. PeerKept'
    BY DEF PeerKept, NoMsg, Message
  <2>2. HolderSends'
    BY DEF HolderSends, SocketAtHand
  <2> QED BY <2>1, <2>2 DEF SocketAtHand, RightName, AnswersTrue, Untold,
         HasLeft, Message
<1>16. CASE PeerStarts
  BY <1>16 DEF PeerStarts, SocketAtHand, RightName, PeerKept, AnswersTrue,
         HolderSends, Untold, HasLeft, Message
<1>17. CASE PeerDials
  <2> USE <1>17 DEF PeerDials, HasSocket
  <2>1. PeerKept'
    BY DEF PeerKept, NoMsg, Message
  <2> QED BY <2>1 DEF SocketAtHand, RightName, AnswersTrue, HolderSends,
         Untold, HasLeft, Message
<1>18. CASE Joins
  <2> USE <1>18 DEF Joins
  <2>1. PeerKept'
    BY DEF PeerKept, NoMsg, Message
  <2> QED BY <2>1 DEF SocketAtHand, RightName, AnswersTrue, HolderSends,
         Untold, HasLeft, Message
<1>19. CASE PeerReads
  BY <1>19 DEF PeerReads, SocketAtHand, RightName, PeerKept, AnswersTrue,
         HolderSends, Untold, HasLeft, Message
<1>20. CASE PeerStops
  <2> USE <1>20 DEF PeerStops
  <2>1. PeerKept'
    BY DEF PeerKept, NoMsg, Message
  <2> QED BY <2>1 DEF SocketAtHand, RightName, AnswersTrue, HolderSends,
         Untold, HasLeft, Message
<1>21. CASE Notices
  <2> USE <1>21 DEF Notices
  <2>1. PeerKept'
    BY DEF PeerKept, NoMsg, Message
  <2> QED BY <2>1 DEF SocketAtHand, RightName, AnswersTrue, HolderSends,
         Untold, HasLeft, Message
<1>22. CASE UNCHANGED vars
  BY <1>22 DEF vars, SocketAtHand, RightName, PeerKept, AnswersTrue,
     HolderSends, Untold, HasLeft, Message
<1> QED BY <1>1, <1>2, <1>3, <1>4, <1>5, <1>6, <1>7, <1>8, <1>9, <1>10, <1>11,
       <1>12, <1>13, <1>14, <1>15, <1>16, <1>17, <1>18, <1>19, <1>20, <1>21,
       <1>22 DEF Next, Sending, Yielding, Network

------------------------------------------------------------------------------
(* Every reachable state satisfies the inductive invariant.                   *)
THEOREM Invariance == Spec => []Inv
BY InvInit, InvStep, PTL DEF Spec

(* Every variable keeps its type: the pipe is never over its room.            *)
THEOREM TypeCorrect == Spec => []TypeOK
<1>1. Inv => TypeOK
  BY DEF Inv
<1> QED BY <1>1, Invariance, PTL

(* Neither expectation of the outbox panics (Parked::offer, Sending::poll).   *)
THEOREM NeverPanics == Spec => []SocketAtHand
<1>1. Inv => SocketAtHand
  BY DEF Inv
<1> QED BY <1>1, Invariance, PTL

(* A parked send keeps the name of its own message (Sending::drop).           *)
THEOREM NamesItsOwn == Spec => []RightName
<1>1. Inv => RightName
  BY DEF Inv
<1> QED BY <1>1, Invariance, PTL

(* Dropping publishes never costs a socket its peer (Outbox).                 *)
THEOREM KeepsItsPeer == Spec => []PeerKept
<1>1. Inv => PeerKept
  BY DEF Inv
<1> QED BY <1>1, Invariance, PTL

(* What a publish returns is true of its message, and stays true.             *)
THEOREM TellsTheTruth == Spec => []AnswersTrue
<1>1. Inv => AnswersTrue
  BY DEF Inv
<1> QED BY <1>1, Invariance, PTL
==============================================================================
