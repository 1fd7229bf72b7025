------------------------------- MODULE Outbox -------------------------------
(***************************************************************************)
(* How a queue publisher and its clones send (common.rs: retry, Outbox,    *)
(* Parked, Sending; queue.rs: publish, Attached).  The clones share one    *)
(* slot behind a mutex.  A publish offers its message until the client     *)
(* takes it, within a retry window; a message taken waits for room in the  *)
(* peer's pipe, and a publish dropped meanwhile leaves that send parked    *)
(* for the next one to complete.  A socket that dialed a peer is dropped   *)
(* with the first send that fails on it; one that listens is taken over by *)
(* a subscription that opens, which completes a parked send first.         *)
(*                                                                         *)
(* The client library keeps the peer of a socket out of its rotation while *)
(* it sends to it: a send that is lost there loses the peer.               *)
(***************************************************************************)
EXTENDS Naturals, Sequences

CONSTANTS
  Tasks,       \* callers of publish, through clones of one publisher
  NoOne,       \* nobody holds the slot
  Room,        \* messages the peer's pipe holds
  MaxCalls,    \* bound: publishes of each caller
  MaxCancels,  \* bound: publishes dropped over a behaviour
  MaxStops     \* bound: times the peer stops

ASSUME OutboxAssumption ==
  /\ NoOne \notin Tasks
  /\ Room \in Nat \ {0}
  /\ MaxCalls \in Nat /\ MaxCancels \in Nat /\ MaxStops \in Nat

VARIABLES
  side,      \* whether the socket dials a peer or listens for one
  slot,      \* "held" when an attached socket is in the slot, or "empty"
  lock,      \* the caller that holds the slot's mutex
  pc,        \* where each caller is
  left,      \* publishes left to each caller; numbers its messages
  window,    \* each caller's retry window: none, open, or over
  flight,    \* Outbox.send: the message of the send in flight
  dropped,   \* Outbox.dropped: the message whose name is kept
  rotation,  \* whether the client has the peer in its rotation
  conn,      \* the connection: none, joining, up, or dead and not noticed
  alive,     \* whether the peer runs
  queued,    \* messages in the peer's pipe
  handed,    \* the messages the client queued, in order
  outcome,   \* what became of each publish
  logged,    \* <<name, message>> of the failures logged for dropped publishes
  yielding,  \* give_way on this slot: no, draining or done
  cancels,   \* publishes that may still be dropped (bound)
  stops      \* stops left to the peer (bound)

slotVars == <<side, slot, yielding>>
peerVars == <<alive, stops>>
wireVars == <<rotation, conn, queued, handed, flight>>
vars == <<slotVars, lock, pc, left, window, dropped, wireVars, peerVars, outcome,
          logged, cancels>>

Msgs == Tasks \X Nat
Calls == Tasks \X (0..MaxCalls)
NoMsg == <<NoOne, 0>>
Message(t) == <<t, left[t]>>

Init ==
  /\ side \in {"bind", "connect"} /\ slot = "empty" /\ yielding = "no"
  /\ lock = NoOne
  /\ pc = [t \in Tasks |-> "idle"] /\ left = [t \in Tasks |-> MaxCalls]
  /\ window = [t \in Tasks |-> "none"]
  /\ flight = NoMsg /\ dropped = NoMsg
  /\ rotation = FALSE /\ conn = "none" /\ queued = 0 /\ handed = <<>>
  /\ alive \in BOOLEAN
  /\ outcome = [m \in Calls |-> "none"]
  /\ logged = {}
  /\ cancels = MaxCancels /\ stops = MaxStops

------------------------------------------------------------------------------
(* The client: how the send in flight ends, and what is left of the socket.  *)

(* Its frames are queued, for a peer that has room or is dead unnoticed, and *)
(* the peer goes back into rotation.                                         *)
Leaves ==
  /\ flight # NoMsg
  /\ (conn = "up" /\ queued < Room) \/ conn = "dead"
  /\ handed' = Append(handed, flight)
  /\ queued' = IF conn = "up" THEN queued + 1 ELSE queued
  /\ rotation' = TRUE /\ flight' = NoMsg
  /\ UNCHANGED conn

(* The connection broke: the peer is gone from the socket. *)
Breaks ==
  /\ flight # NoMsg
  /\ conn \in {"dead", "none"}
  /\ flight' = NoMsg /\ conn' = "none" /\ rotation' = FALSE /\ queued' = 0
  /\ UNCHANGED handed

NoSocket == conn' = "none" /\ rotation' = FALSE /\ queued' = 0

------------------------------------------------------------------------------
(* A publish. *)

Goto(t, l) == pc' = [pc EXCEPT ![t] = l]

Publish(t) ==
  /\ pc[t] = "idle" /\ left[t] > 0
  /\ left' = [left EXCEPT ![t] = @ - 1]
  /\ Goto(t, "lock")
  /\ UNCHANGED <<slotVars, lock, window, dropped, wireVars, peerVars, outcome,
                 logged, cancels>>

(* Mutant: an offer that does not look for a parked send. *)
LockOffering(t) ==
  /\ pc[t] = "lock" /\ lock = NoOne
  /\ IF slot = "empty"
     THEN Goto(t, "attach") /\ UNCHANGED lock
     ELSE lock' = t /\ Goto(t, "offer")
  /\ UNCHANGED <<slotVars, left, window, dropped, wireVars, peerVars, outcome,
                 logged, cancels>>

(* Outbox::send completes a parked send before it offers its own message. *)
Lock(t) ==
  /\ pc[t] = "lock" /\ lock = NoOne
  /\ IF slot = "empty"
     THEN Goto(t, "attach") /\ UNCHANGED lock
     ELSE /\ lock' = t
          /\ Goto(t, IF flight # NoMsg THEN "drain" ELSE "offer")
  /\ UNCHANGED <<slotVars, left, window, dropped, wireVars, peerVars, outcome,
                 logged, cancels>>

(* An attach (BoundEndpoint shows it in full): a dial waits for its peer, and *)
(* an opening subscription holds attaches off until it has bound.             *)
Attach(t) ==
  /\ pc[t] = "attach" /\ lock = NoOne /\ yielding # "draining"
  /\ IF slot = "held"
     THEN UNCHANGED <<slot, wireVars>>
     ELSE /\ side = "connect" => alive
          /\ slot' = "held"
          /\ conn' = IF alive \/ yielding = "done" THEN "joining" ELSE "none"
          /\ UNCHANGED <<rotation, queued, handed, flight>>
  /\ Goto(t, "lock")
  /\ UNCHANGED <<side, yielding, lock, left, window, dropped, peerVars, outcome,
                 logged, cancels>>

(* complete_dropped: the name goes with the send, and a failure is logged     *)
(* under it.                                                                  *)
CompleteDropped ==
  /\ \/ Leaves /\ UNCHANGED logged
     \/ Breaks /\ logged' = logged \cup {<<dropped, flight>>}
  /\ dropped' = NoMsg

(* The publish returns.  A failure on a socket that dialed drops the socket.  *)
Return(t, result) ==
  /\ outcome' = [outcome EXCEPT ![Message(t)] = result]
  /\ slot' = IF side = "connect" /\ result # "ok" THEN "empty" ELSE slot
  /\ lock' = NoOne
  /\ Goto(t, "idle")
  /\ window' = [window EXCEPT ![t] = "none"]

(* Mutant: the parked send's outcome is taken for the publish's own. *)
DrainAnswering(t) ==
  /\ pc[t] = "drain"
  /\ CompleteDropped
  /\ Return(t, "ok")
  /\ UNCHANGED <<side, yielding, left, peerVars, cancels>>

Drain(t) ==
  /\ pc[t] = "drain"
  /\ CompleteDropped
  /\ Goto(t, "offer")
  /\ UNCHANGED <<slotVars, lock, left, window, peerVars, outcome, cancels>>

(* The client takes the message and the peer it sends it to, *)
Offer(t) ==
  /\ pc[t] = "offer" /\ rotation
  /\ flight' = Message(t) /\ rotation' = FALSE
  /\ Goto(t, "sending")
  /\ UNCHANGED <<slotVars, lock, left, window, dropped, conn, queued, handed,
                 peerVars, outcome, logged, cancels>>

(* Mutant: every refusal opens the window anew. *)
RefusedAnew(t) ==
  /\ pc[t] = "offer" /\ ~rotation
  /\ window' = [window EXCEPT ![t] = "open"]
  /\ Goto(t, "waiting")
  /\ UNCHANGED <<slotVars, lock, left, dropped, wireVars, peerVars, outcome,
                 logged, cancels>>

(* or returns it, having no peer: the window opens with the first refusal. *)
Refused(t) ==
  /\ pc[t] = "offer" /\ ~rotation /\ window[t] # "over"
  /\ window' = [window EXCEPT ![t] = "open"]
  /\ Goto(t, "waiting")
  /\ UNCHANGED <<slotVars, lock, left, dropped, wireVars, peerVars, outcome,
                 logged, cancels>>

GivesUp(t) ==
  /\ pc[t] = "offer" /\ ~rotation /\ window[t] = "over"
  /\ Return(t, "nopeer")
  /\ IF side = "connect" THEN NoSocket ELSE UNCHANGED <<conn, rotation, queued>>
  /\ UNCHANGED <<side, yielding, left, dropped, handed, flight, peerVars, logged,
                 cancels>>

Retry(t) ==
  /\ pc[t] = "waiting"
  /\ Goto(t, "offer")
  /\ UNCHANGED <<slotVars, lock, left, window, dropped, wireVars, peerVars, outcome,
                 logged, cancels>>

(* SEND_RETRY_WINDOW is over: long after a handshake under way would be done. *)
WindowCloses(t) ==
  /\ window[t] = "open" /\ conn # "joining"
  /\ window' = [window EXCEPT ![t] = "over"]
  /\ UNCHANGED <<slotVars, lock, pc, left, dropped, wireVars, peerVars, outcome,
                 logged, cancels>>

Sent(t) ==
  /\ pc[t] = "sending"
  /\ Leaves
  /\ Return(t, "ok")
  /\ UNCHANGED <<side, yielding, left, dropped, peerVars, logged, cancels>>

SendBroke(t) ==
  /\ pc[t] = "sending"
  /\ Breaks
  /\ Return(t, "wire")
  /\ UNCHANGED <<side, yielding, left, dropped, peerVars, logged, cancels>>

(* Mutant: the name of a parked send is not kept. *)
CancelUnnamed(t) ==
  /\ pc[t] # "idle" /\ cancels > 0
  /\ cancels' = cancels - 1
  /\ lock' = IF lock = t THEN NoOne ELSE lock
  /\ outcome' = [outcome EXCEPT ![Message(t)] =
                   IF pc[t] = "sending" THEN "parked" ELSE "cut"]
  /\ Goto(t, "idle")
  /\ window' = [window EXCEPT ![t] = "none"]
  /\ UNCHANGED <<slotVars, left, dropped, wireVars, peerVars, logged>>

(* Mutant: the send lives in the publish and is dropped with it. *)
CancelSend(t) ==
  /\ pc[t] # "idle" /\ cancels > 0
  /\ cancels' = cancels - 1
  /\ lock' = IF lock = t THEN NoOne ELSE lock
  /\ flight' = IF pc[t] = "sending" THEN NoMsg ELSE flight
  /\ outcome' = [outcome EXCEPT ![Message(t)] = "cut"]
  /\ Goto(t, "idle")
  /\ window' = [window EXCEPT ![t] = "none"]
  /\ UNCHANGED <<slotVars, left, dropped, rotation, conn, queued, handed, peerVars,
                 logged>>

(* The publish is dropped.  Sending::drop leaves a send in flight parked and  *)
(* keeps its name; anywhere else the message is dropped with the publish.     *)
Cancel(t) ==
  /\ pc[t] # "idle" /\ cancels > 0
  /\ cancels' = cancels - 1
  /\ lock' = IF lock = t THEN NoOne ELSE lock
  /\ dropped' = IF pc[t] = "sending" THEN Message(t) ELSE dropped
  /\ outcome' = [outcome EXCEPT ![Message(t)] =
                   IF pc[t] = "sending" THEN "parked" ELSE "cut"]
  /\ Goto(t, "idle")
  /\ window' = [window EXCEPT ![t] = "none"]
  /\ UNCHANGED <<slotVars, left, wireVars, peerVars, logged>>

------------------------------------------------------------------------------
(* OwnListener::give_way and Attached::give_way, for a subscription that opens *)
(* where the publisher listens.                                                *)

GiveWay ==
  /\ side = "bind" /\ yielding = "no" /\ slot = "held" /\ lock = NoOne
  /\ slot' = "empty" /\ yielding' = "draining"
  /\ UNCHANGED <<side, lock, pc, left, window, dropped, wireVars, peerVars, outcome,
                 logged, cancels>>

GiveWayDrains ==
  /\ yielding = "draining" /\ CompleteDropped
  /\ UNCHANGED <<slotVars, lock, pc, left, window, peerVars, outcome, cancels>>

GiveWayReleases ==
  /\ yielding = "draining" /\ flight = NoMsg
  /\ yielding' = "done" /\ NoSocket
  /\ UNCHANGED <<side, slot, lock, pc, left, window, dropped, handed, flight,
                 peerVars, outcome, logged, cancels>>

------------------------------------------------------------------------------
(* The peer, and what the client notices of it. *)

(* What the publisher has left of the socket in its slot or being drained.  *)
HasSocket == slot = "held" \/ yielding = "draining"

PeerStarts ==
  /\ ~alive
  /\ alive' = TRUE
  /\ UNCHANGED <<slotVars, lock, pc, left, window, dropped, wireVars, stops, outcome,
                 logged, cancels>>

(* A peer dials a socket that listens, again and again; after give_way the    *)
(* socket is one that dialed the subscription.                                *)
PeerDials ==
  /\ side = "bind" /\ HasSocket /\ yielding # "done" /\ alive /\ conn = "none" /\ flight = NoMsg
  /\ conn' = "joining"
  /\ UNCHANGED <<slotVars, lock, pc, left, window, dropped, rotation, queued, handed,
                 flight, peerVars, outcome, logged, cancels>>

Joins ==
  /\ conn = "joining"
  /\ conn' = "up" /\ rotation' = TRUE
  /\ UNCHANGED <<slotVars, lock, pc, left, window, dropped, queued, handed, flight,
                 peerVars, outcome, logged, cancels>>

PeerReads ==
  /\ conn = "up" /\ queued > 0
  /\ queued' = queued - 1
  /\ UNCHANGED <<slotVars, lock, pc, left, window, dropped, rotation, conn, handed,
                 flight, peerVars, outcome, logged, cancels>>

PeerStops ==
  /\ alive /\ stops > 0
  /\ alive' = FALSE /\ stops' = stops - 1
  /\ conn' = IF conn = "up" THEN "dead"
             ELSE IF conn = "joining" THEN "none" ELSE conn
  /\ queued' = 0
  /\ UNCHANGED <<slotVars, lock, pc, left, window, dropped, rotation, handed, flight,
                 outcome, logged, cancels>>

Notices ==
  /\ conn = "dead"
  /\ conn' = "none" /\ rotation' = FALSE
  /\ UNCHANGED <<slotVars, lock, pc, left, window, dropped, queued, handed, flight,
                 peerVars, outcome, logged, cancels>>

------------------------------------------------------------------------------
Sending(t) ==
  \/ Lock(t) \/ Attach(t) \/ Drain(t) \/ Offer(t) \/ Refused(t) \/ GivesUp(t)
  \/ Retry(t) \/ Sent(t) \/ SendBroke(t)

Yielding == GiveWayDrains \/ GiveWayReleases

Network == PeerDials \/ Joins \/ PeerReads \/ Notices

Next ==
  \/ \E t \in Tasks : Publish(t) \/ Sending(t) \/ WindowCloses(t) \/ Cancel(t)
  \/ GiveWay \/ Yielding \/ Network \/ PeerStarts \/ PeerStops

Spec == Init /\ [][Next]_vars

(* The runtime polls what can go on, time passes, the peer reads what it is    *)
(* sent and is started again when it has stopped.                              *)
Fairness ==
  /\ \A t \in Tasks : WF_vars(Sending(t)) /\ WF_vars(WindowCloses(t))
  /\ WF_vars(Yielding) /\ WF_vars(PeerDials) /\ WF_vars(Joins)
  /\ WF_vars(PeerReads) /\ WF_vars(Notices) /\ WF_vars(PeerStarts)

FairSpec == Spec /\ Fairness

------------------------------------------------------------------------------
TypeOK ==
  /\ side \in {"bind", "connect"} /\ slot \in {"held", "empty"}
  /\ yielding \in {"no", "draining", "done"}
  /\ lock \in Tasks \cup {NoOne}
  /\ pc \in [Tasks -> {"idle", "lock", "attach", "drain", "offer", "waiting",
                      "sending"}]
  /\ left \in [Tasks -> 0..MaxCalls]
  /\ window \in [Tasks -> {"none", "open", "over"}]
  /\ flight \in Msgs \cup {NoMsg} /\ dropped \in Msgs \cup {NoMsg}
  /\ rotation \in BOOLEAN /\ conn \in {"none", "joining", "up", "dead"}
  /\ alive \in BOOLEAN /\ queued \in 0..Room
  /\ handed \in Seq(Msgs)
  /\ outcome \in [Calls ->
                   {"none", "ok", "nopeer", "wire", "parked", "cut"}]
  /\ logged \subseteq (Msgs \cup {NoMsg}) \X Msgs
  /\ cancels \in Nat /\ stops \in Nat

(* The two expectations the code states: an offer finds the socket at hand,   *)
(* no send being in flight, and a send stays in the outbox until the publish  *)
(* that awaits it has it (Parked::offer, Sending::poll).                      *)
SocketAtHand ==
  \A t \in Tasks : /\ pc[t] = "offer" => flight = NoMsg
                   /\ pc[t] = "sending" => flight = Message(t)

(* A send nobody awaits is parked under the name of its own message, and a    *)
(* failure of it is logged under that name (Sending::drop, complete_dropped). *)
RightName ==
  /\ flight # NoMsg /\ (\A t \in Tasks : pc[t] # "sending") => dropped = flight
  /\ \A e \in logged : e[1] = e[2]

(* No publish, dropped or not, costs a socket its peer: between sends the     *)
(* peer of a live connection is in rotation (Outbox).                         *)
PeerKept == conn = "up" /\ flight = NoMsg => rotation

(* What a publish is told is true: one that returns Ok has left, once; one    *)
(* that fails, or is dropped before the socket takes its message, never       *)
(* leaves, whoever sends after it (Outbox::send, publish).                    *)
HasLeft(m) == \E i \in 1..Len(handed) : handed[i] = m
AnswersTrue ==
  /\ \A i, j \in 1..Len(handed) : handed[i] = handed[j] => i = j
  /\ \A m \in Calls : /\ outcome[m] = "ok" => HasLeft(m)
                      /\ HasLeft(m) => outcome[m] \in {"ok", "parked"}

(* Why these hold: the inductive invariant.  Only the holder of the slot      *)
(* touches the socket in it, only an opening subscription the one it took.    *)
HolderSends ==
  /\ \A t \in Tasks : lock = t <=> pc[t] \in {"drain", "offer", "waiting", "sending"}
  /\ lock # NoOne => slot = "held"
  /\ yielding = "draining" => slot = "empty"
  /\ \A t \in Tasks : pc[t] = "waiting" => flight = NoMsg

(* A message is new until its publish is over, and a parked one has not left. *)
Untold ==
  /\ \A t \in Tasks : \A k \in 0..MaxCalls :
       k < left[t] \/ (k = left[t] /\ pc[t] # "idle") => outcome[<<t, k>>] = "none"
  /\ flight # NoMsg => /\ flight \in Calls /\ ~HasLeft(flight)
                       /\ outcome[flight] \in {"none", "parked"}
  /\ flight # NoMsg /\ (\A t \in Tasks : pc[t] # "sending")
       => outcome[flight] = "parked"

Inv == /\ TypeOK /\ SocketAtHand /\ RightName /\ PeerKept /\ AnswersTrue
       /\ HolderSends /\ Untold

(* A publish returns: a peer comes up, or the window closes; a parked send    *)
(* ahead of it, and an opening subscription, only delay it.                   *)
CallsReturn == \A t \in Tasks : pc[t] # "idle" ~> pc[t] = "idle"
==============================================================================
