---------------------------- MODULE BoundEndpoint ----------------------------
(***************************************************************************)
(* The endpoint of a broker that BINDS (Side::Bind), as the subscriptions  *)
(* and the publishers of one process share it: common.rs (Lifecycle,       *)
(* OwnListener, BoundSlot), the open and publish paths of queue.rs and     *)
(* fanout.rs.                                                              *)
(*                                                                         *)
(* A subscription opens on the runtime: it takes the `binding` lock, is    *)
(* refused when a listener is recorded, makes every publisher recorded in  *)
(* `listening` give its socket up, binds, and records its listener.  A     *)
(* publish locks its publisher's slot; finding it empty it takes `binding` *)
(* and attaches: it dials the recorded listener, or listens on the         *)
(* endpoint itself.  The attach runs in a task of its own, while `binding` *)
(* is held by the caller's future, which may be dropped at every await.    *)
(***************************************************************************)
EXTENDS Naturals

CONSTANTS
  Subs,        \* subscription names; one subscription of a name at a time
  Pubs,        \* publisher slots (a publisher and its clones share one)
  Tasks,       \* callers of publish, each on one publisher
  PubOf,       \* the publisher of each caller
  NoOne,       \* the absence of a name, a lock holder or a publisher
  Pattern,     \* "queue" or "fanout"
  FixedPort,   \* TRUE: one address; FALSE: port zero, an address per bind
  MaxOpens,    \* bound: subscriptions opened over a behaviour
  MaxCalls,    \* bound: calls per caller
  MaxCancels   \* bound: publish futures dropped over a behaviour

ASSUME NamesAssumption ==
  /\ NoOne \notin Subs \cup Pubs \cup Tasks
  /\ Subs \cap Tasks = {}
  /\ PubOf \in [Tasks -> Pubs]

ASSUME KindAssumption ==
  /\ Pattern \in {"queue", "fanout"}
  /\ FixedPort \in BOOLEAN
  /\ MaxOpens \in Nat /\ MaxCalls \in Nat /\ MaxCancels \in Nat

VARIABLES
  closed,      \* Lifecycle.closed
  binding,     \* holder of Lifecycle.binding: a subscription or a caller
  listener,    \* Lifecycle.listener: who bound the endpoint, and which bind
  listening,   \* Lifecycle.listening: publishers recorded as listening
  yielding,    \* what an opening subscription took from `listening`
  releasing,   \* the publisher whose taken socket is being unbound
  subPc,       \* where each subscription's open or life is
  held,        \* the bind whose BoundSlot a subscription holds, or 0
  lastGen,     \* the binds that succeeded so far
  opens,       \* the subscriptions opened so far (bound)
  sockets,     \* binds whose receiving socket the system still has
  slot,        \* what each publisher's slot holds
  slotLock,    \* the caller holding a slot's mutex across a send
  callPc,      \* where each caller is
  callName,    \* the name it publishes under; NoOne when it only pairs
  job,         \* the attach running on the runtime for each caller
  detached,    \* an attach whose caller is gone
  lingering,   \* dropped publishers whose socket the system still has
  left,        \* calls left to each caller (bound)
  cancels,     \* futures that may still be dropped (bound)
  arrived      \* <<caller, name, subscription>> of each caller's last message

subVars  == <<yielding, releasing, subPc, held, opens>>
callVars == <<callPc, callName, left>>
vars == <<closed, binding, listener, listening, yielding, releasing, subPc,
          held, lastGen, opens, sockets, slot, slotLock, callPc, callName,
          job, detached, lingering, left, cancels, arrived>>

------------------------------------------------------------------------------
(* Where a sending socket is attached: nowhere, on the endpoint itself, or  *)
(* to the listener of bind `gen` by subscription `sub`; `peer` is the bind  *)
(* its connection really reached.                                           *)
Place == [at : {"none", "listen", "local"}, gen : Nat,
          sub : Subs \cup {NoOne}, peer : Nat]

NoListener == [gen |-> 0, sub |-> NoOne]
Nowhere    == [at |-> "none", gen |-> 0, sub |-> NoOne, peer |-> 0]
Here       == [at |-> "listen", gen |-> 0, sub |-> NoOne, peer |-> 0]
Loopback(l, g) == [at |-> "local", gen |-> l.gen, sub |-> l.sub, peer |-> g]

Job == [step : {"none", "spawned", "aimed", "done", "failed"}, place : Place]
JobAt(s, pl) == [step |-> s, place |-> pl]
NoJob == JobAt("none", Nowhere)

(* Mutant: a publisher that never looks for a subscription of its own service. *)
SendTargetAlone == Here

(* Lifecycle.send_target on the bind side. *)
SendTarget == IF listener = NoListener THEN Here ELSE Loopback(listener, 0)

(* Sockets of this process's publishers that listen on the endpoint. *)
ListensInSlot(p) == slot[p].at = "listen"
ListensInJob(t)  == job[t].step = "done" /\ job[t].place.at = "listen"
PublisherBound ==
  \/ \E p \in Pubs : ListensInSlot(p) \/ p = releasing \/ p \in lingering
  \/ \E t \in Tasks : ListensInJob(t) \/ detached[t] = "bound"

(* Whether the system lets one more socket listen: port zero always does. *)
AddressFree == FixedPort => sockets = {} /\ ~PublisherBound

(* The binds a connection to the address of bind g may reach: on a fixed     *)
(* port, whichever socket is bound there now.                                *)
Reached(g) == IF FixedPort THEN sockets ELSE sockets \cap {g}

------------------------------------------------------------------------------
Init ==
  /\ closed = FALSE
  /\ binding = NoOne
  /\ listener = NoListener
  /\ listening = {} /\ yielding = {} /\ releasing = NoOne
  /\ subPc = [s \in Subs |-> "idle"] /\ held = [s \in Subs |-> 0]
  /\ lastGen = 0 /\ opens = 0 /\ sockets = {}
  /\ slot = [p \in Pubs |-> Nowhere] /\ slotLock = [p \in Pubs |-> NoOne]
  /\ callPc = [t \in Tasks |-> "idle"] /\ callName = [t \in Tasks |-> NoOne]
  /\ job = [t \in Tasks |-> NoJob] /\ detached = [t \in Tasks |-> "none"]
  /\ lingering = {}
  /\ left = [t \in Tasks |-> MaxCalls] /\ cancels = MaxCancels
  /\ arrived = {}

(* shutdown: marks the broker closed, and stops nothing already under way. *)
Shutdown ==
  /\ ~closed
  /\ closed' = TRUE
  /\ UNCHANGED <<binding, listener, listening, subVars, lastGen, sockets, slot,
                 slotLock, callVars, job, detached, lingering, cancels, arrived>>

------------------------------------------------------------------------------
(* Subscriptions.  The attach runs in a spawned task, so a caller that gives *)
(* up only drops what the task returns: DropSubscription, one step later.    *)

Subscribe(s) ==
  /\ subPc[s] = "idle" /\ ~closed
  /\ opens < MaxOpens
  /\ opens' = opens + 1
  /\ subPc' = [subPc EXCEPT ![s] = "queued"]
  /\ UNCHANGED <<closed, binding, listener, listening, yielding, releasing, held,
                 lastGen, sockets, slot, slotLock, callVars, job, detached,
                 lingering, cancels, arrived>>

(* hold_listener refuses a second subscription (endpoint_taken). *)
RefuseSubscription(s) ==
  /\ subPc[s] = "queued" /\ binding = NoOne
  /\ listener # NoListener
  /\ subPc' = [subPc EXCEPT ![s] = "idle"]
  /\ UNCHANGED <<closed, binding, listener, listening, yielding, releasing, held,
                 lastGen, opens, sockets, slot, slotLock, callVars, job,
                 detached, lingering, cancels, arrived>>

(* hold_listener takes the lock and the list of publishers listening here. *)
TakeBinding(s) ==
  /\ subPc[s] = "queued" /\ binding = NoOne
  /\ listener = NoListener
  /\ binding' = s
  /\ yielding' = listening /\ listening' = {}
  /\ subPc' = [subPc EXCEPT ![s] = "yielding"]
  /\ UNCHANGED <<closed, listener, releasing, held, lastGen, opens, sockets, slot,
                 slotLock, callVars, job, detached, lingering, cancels, arrived>>

(* Mutant: a socket that listens stays in its publisher's slot. *)
TakeSlotOfDialers(s, p) ==
  /\ subPc[s] = "yielding" /\ p \in yielding /\ releasing = NoOne
  /\ slotLock[p] = NoOne
  /\ yielding' = yielding \ {p}
  /\ slot' = IF ListensInSlot(p) THEN slot ELSE [slot EXCEPT ![p] = Nowhere]
  /\ UNCHANGED <<closed, binding, listener, listening, releasing, subPc, held,
                 lastGen, opens, sockets, slotLock, callVars, job, detached,
                 lingering, cancels, arrived>>

(* OwnListener::give_way takes the socket out of the slot, once no send      *)
(* holds the slot; a socket that listens has then to be unbound.             *)
TakeSlot(s, p) ==
  /\ subPc[s] = "yielding" /\ p \in yielding /\ releasing = NoOne
  /\ slotLock[p] = NoOne
  /\ yielding' = yielding \ {p}
  /\ releasing' = IF ListensInSlot(p) THEN p ELSE NoOne
  /\ slot' = [slot EXCEPT ![p] = Nowhere]
  /\ UNCHANGED <<closed, binding, listener, listening, subPc, held, lastGen, opens,
                 sockets, slotLock, callVars, job, detached, lingering, cancels,
                 arrived>>

(* release: unbind_all has let the address go. *)
ReleaseSocket(s) ==
  /\ subPc[s] = "yielding" /\ releasing # NoOne
  /\ releasing' = NoOne
  /\ UNCHANGED <<closed, binding, listener, listening, yielding, subPc, held,
                 lastGen, opens, sockets, slot, slotLock, callVars, job,
                 detached, lingering, cancels, arrived>>

EveryoneGaveWay(s) ==
  subPc[s] = "yielding" /\ yielding = {} /\ releasing = NoOne

(* The bind succeeds: the listener is recorded and the BoundSlot handed out. *)
BindSocket(s) ==
  /\ EveryoneGaveWay(s) /\ AddressFree
  /\ lastGen' = lastGen + 1
  /\ listener' = [gen |-> lastGen + 1, sub |-> s]
  /\ held' = [held EXCEPT ![s] = lastGen + 1]
  /\ sockets' = sockets \cup {lastGen + 1}
  /\ binding' = NoOne
  /\ subPc' = [subPc EXCEPT ![s] = "open"]
  /\ UNCHANGED <<closed, listening, yielding, releasing, opens, slot, slotLock,
                 callVars, job, detached, lingering, cancels, arrived>>

(* Mutant: a failed bind keeps the lock. *)
BindFailsHolding(s) ==
  /\ EveryoneGaveWay(s) /\ ~AddressFree
  /\ subPc' = [subPc EXCEPT ![s] = "idle"]
  /\ UNCHANGED <<closed, binding, listener, listening, yielding, releasing, held,
                 lastGen, opens, sockets, slot, slotLock, callVars, job,
                 detached, lingering, cancels, arrived>>

(* The bind fails on an address taken, and leaves the slot empty. *)
BindFails(s) ==
  /\ EveryoneGaveWay(s) /\ ~AddressFree
  /\ binding' = NoOne
  /\ subPc' = [subPc EXCEPT ![s] = "idle"]
  /\ UNCHANGED <<closed, listener, listening, yielding, releasing, held, lastGen,
                 opens, sockets, slot, slotLock, callVars, job, detached,
                 lingering, cancels, arrived>>

(* Dropping a subscription aborts its driver and drops its BoundSlot, which   *)
(* empties the listener it recorded and no other.  The aborted task, and the  *)
(* socket it owns, go later: ReapSocket.                                      *)
DropSubscription(s) ==
  /\ subPc[s] = "open"
  /\ listener' = IF listener.gen = held[s] THEN NoListener ELSE listener
  /\ held' = [held EXCEPT ![s] = 0]
  /\ subPc' = [subPc EXCEPT ![s] = "idle"]
  /\ UNCHANGED <<closed, binding, listening, yielding, releasing, lastGen, opens,
                 sockets, slot, slotLock, callVars, job, detached, lingering,
                 cancels, arrived>>

ReapSocket(g) ==
  /\ g \in sockets /\ \A s \in Subs : held[s] # g
  /\ sockets' = sockets \ {g}
  /\ UNCHANGED <<closed, binding, listener, listening, subVars, lastGen, slot,
                 slotLock, callVars, job, detached, lingering, cancels, arrived>>

------------------------------------------------------------------------------
(* Publishers. *)

Goto(t, pc) == callPc' = [callPc EXCEPT ![t] = pc]
Returns(t)  == Goto(t, "idle") /\ callName' = [callName EXCEPT ![t] = NoOne]
(* What follows an attach: the publish locks its slot again, a pairing ends.  *)
Proceeds(t) == IF callName[t] = NoOne
               THEN Returns(t)
               ELSE Goto(t, "lockSlot") /\ UNCHANGED callName

Publish(t, n) ==
  /\ callPc[t] = "idle" /\ left[t] > 0 /\ ~closed
  /\ left' = [left EXCEPT ![t] = @ - 1]
  /\ Goto(t, "lockSlot")
  /\ callName' = [callName EXCEPT ![t] = n]
  /\ arrived' = {a \in arrived : a[1] # t}
  /\ UNCHANGED <<closed, binding, listener, listening, subVars, lastGen, sockets,
                 slot, slotLock, job, detached, lingering, cancels>>

(* paired: a publisher the runtime pairs attaches before its first publish. *)
Pair(t) ==
  /\ callPc[t] = "idle" /\ left[t] > 0 /\ left[t] = MaxCalls /\ ~closed
  /\ left' = [left EXCEPT ![t] = @ - 1]
  /\ Goto(t, "lockBinding")
  /\ UNCHANGED <<closed, binding, listener, listening, subVars, lastGen, sockets,
                 slot, slotLock, callName, job, detached, lingering, cancels,
                 arrived>>

LockSlot(t) ==
  LET p == PubOf[t] IN
  /\ callPc[t] = "lockSlot" /\ slotLock[p] = NoOne
  /\ IF slot[p].at = "none"
     THEN Goto(t, "lockBinding") /\ UNCHANGED slotLock
     ELSE Goto(t, "sending") /\ slotLock' = [slotLock EXCEPT ![p] = t]
  /\ UNCHANGED <<closed, binding, listener, listening, subVars, lastGen, sockets,
                 slot, callName, left, job, detached, lingering, cancels, arrived>>

(* Mutant: an attach that does not wait for opens and other attaches. *)
LockBindingUnserialised(t) ==
  /\ callPc[t] = "lockBinding"
  /\ Goto(t, "checkSlot")
  /\ UNCHANGED <<closed, binding, listener, listening, subVars, lastGen, sockets,
                 slot, slotLock, callName, left, job, detached, lingering, cancels,
                 arrived>>

LockBinding(t) ==
  /\ callPc[t] = "lockBinding" /\ binding = NoOne
  /\ binding' = t
  /\ Goto(t, "checkSlot")
  /\ UNCHANGED <<closed, listener, listening, subVars, lastGen, sockets, slot,
                 slotLock, callName, left, job, detached, lingering, cancels,
                 arrived>>

(* attach, under the lock: another caller may have filled the slot already. *)
CheckSlot(t) ==
  LET p == PubOf[t] IN
  /\ callPc[t] = "checkSlot" /\ slotLock[p] = NoOne
  /\ IF slot[p].at = "none"
     THEN /\ job' = [job EXCEPT ![t] = JobAt("spawned", Nowhere)]
          /\ Goto(t, "attaching")
          /\ UNCHANGED <<binding, callName>>
     ELSE /\ binding' = NoOne
          /\ Proceeds(t)
          /\ UNCHANGED job
  /\ UNCHANGED <<closed, listener, listening, subVars, lastGen, sockets, slot,
                 slotLock, left, detached, lingering, cancels, arrived>>

(* The spawned attach reads where to attach, *)
Aim(t) ==
  /\ job[t].step = "spawned"
  /\ job' = [job EXCEPT ![t] = JobAt("aimed", SendTarget)]
  /\ UNCHANGED <<closed, binding, listener, listening, subVars, lastGen, sockets,
                 slot, slotLock, callVars, detached, lingering, cancels, arrived>>

(* and binds or connects there. *)
AttachListens(t) ==
  /\ job[t].step = "aimed" /\ job[t].place.at = "listen"
  /\ job' = [job EXCEPT ![t] = JobAt(IF AddressFree THEN "done" ELSE "failed", Here)]
  /\ UNCHANGED <<closed, binding, listener, listening, subVars, lastGen, sockets,
                 slot, slotLock, callVars, detached, lingering, cancels, arrived>>

AttachDials(t) ==
  /\ job[t].step = "aimed" /\ job[t].place.at = "local"
  /\ \/ \E g \in Reached(job[t].place.gen) :
          job' = [job EXCEPT ![t] = JobAt("done", Loopback(job[t].place, g))]
     \/ /\ \A s \in Subs : held[s] # job[t].place.gen
        /\ job' = [job EXCEPT ![t] = JobAt("failed", Nowhere)]
  /\ UNCHANGED <<closed, binding, listener, listening, subVars, lastGen, sockets,
                 slot, slotLock, callVars, detached, lingering, cancels, arrived>>

(* Mutant: a socket that listens is not recorded. *)
RecordNothing(t) ==
  /\ callPc[t] = "attaching" /\ job[t].step = "done"
  /\ Goto(t, "installing")
  /\ UNCHANGED <<closed, binding, listener, listening, subVars, lastGen, sockets,
                 slot, slotLock, callName, left, job, detached, lingering, cancels,
                 arrived>>

(* Mutant: `binding` is given back before the socket is in the slot. *)
RecordReleasing(t) ==
  /\ callPc[t] = "attaching" /\ job[t].step = "done"
  /\ listening' = IF job[t].place.at = "listen"
                  THEN listening \cup {PubOf[t]} ELSE listening
  /\ binding' = NoOne
  /\ Goto(t, "installing")
  /\ UNCHANGED <<closed, listener, subVars, lastGen, sockets, slot, slotLock,
                 callName, left, job, detached, lingering, cancels, arrived>>

(* The caller gets the socket back and records it when it listens here, *)
Record(t) ==
  /\ callPc[t] = "attaching" /\ job[t].step = "done"
  /\ listening' = IF job[t].place.at = "listen"
                  THEN listening \cup {PubOf[t]} ELSE listening
  /\ Goto(t, "installing")
  /\ UNCHANGED <<closed, binding, listener, subVars, lastGen, sockets, slot,
                 slotLock, callName, left, job, detached, lingering, cancels,
                 arrived>>

(* Mutant: a failed attach keeps the lock. *)
AttachFailsHolding(t) ==
  /\ callPc[t] = "attaching" /\ job[t].step = "failed"
  /\ job' = [job EXCEPT ![t] = NoJob]
  /\ Returns(t)
  /\ UNCHANGED <<closed, binding, listener, listening, subVars, lastGen, sockets,
                 slot, slotLock, left, detached, lingering, cancels, arrived>>

(* or reports the failure, *)
AttachFails(t) ==
  /\ callPc[t] = "attaching" /\ job[t].step = "failed"
  /\ binding' = NoOne
  /\ job' = [job EXCEPT ![t] = NoJob]
  /\ Returns(t)
  /\ UNCHANGED <<closed, listener, listening, subVars, lastGen, sockets, slot,
                 slotLock, left, detached, lingering, cancels, arrived>>

(* and installs it in the slot before it lets `binding` go. *)
Install(t) ==
  LET p == PubOf[t] IN
  /\ callPc[t] = "installing" /\ slotLock[p] = NoOne
  /\ slot' = [slot EXCEPT ![p] = job[t].place]
  /\ job' = [job EXCEPT ![t] = NoJob]
  /\ binding' = NoOne
  /\ Proceeds(t)
  /\ UNCHANGED <<closed, listener, listening, subVars, lastGen, sockets, slotLock,
                 left, detached, lingering, cancels, arrived>>

(* A queue publish under a name that is not the dialed subscription's.  *)
ComesBack(t) ==
  /\ Pattern = "queue"
  /\ slot[PubOf[t]].at = "local" /\ slot[PubOf[t]].sub # callName[t]

Unlock(t) == slotLock' = [slotLock EXCEPT ![PubOf[t]] = NoOne] /\ Returns(t)

(* returns_to_subscription *)
RefuseName(t) ==
  /\ callPc[t] = "sending" /\ ComesBack(t)
  /\ Unlock(t)
  /\ UNCHANGED <<closed, binding, listener, listening, subVars, lastGen, sockets,
                 slot, left, job, detached, lingering, cancels, arrived>>

(* A subscription takes a message: a PULL socket every one, a SUB socket what *)
(* its own filter matches (a name that starts with the subscription's).       *)
Takes(s, n) == Pattern = "queue" \/ n = s

(* The send to a subscription of this service: taken while its socket lives,  *)
(* and delivered while the subscription is open.                              *)
SendLocal(t) ==
  LET p == PubOf[t] IN
  /\ callPc[t] = "sending" /\ ~ComesBack(t) /\ slot[p].at = "local"
  /\ slot[p].peer \in sockets
  /\ arrived' = arrived \cup
       {t} \X {callName[t]}
           \X {s \in Subs : held[s] = slot[p].peer /\ Takes(s, callName[t])}
  /\ Unlock(t)
  /\ UNCHANGED <<closed, binding, listener, listening, subVars, lastGen, sockets,
                 slot, left, job, detached, lingering, cancels>>

(* A send that leaves for a peer outside this process, or fails: the slot of  *)
(* a publisher that does not dial out keeps its socket either way.            *)
SendAway(t) ==
  LET p == PubOf[t] IN
  /\ callPc[t] = "sending" /\ ~ComesBack(t)
  /\ slot[p].at = "local" => slot[p].peer \notin sockets
  /\ Unlock(t)
  /\ UNCHANGED <<closed, binding, listener, listening, subVars, lastGen, sockets,
                 slot, left, job, detached, lingering, cancels, arrived>>

------------------------------------------------------------------------------
(* A publish future dropped at an await gives its locks back; the attach it   *)
(* awaited runs on, detached, and its socket is dropped when it is done.      *)
Abandoned(j) ==
  IF j.step = "spawned"          THEN "spawned"
  ELSE IF j.place.at # "listen"  THEN "none"
  ELSE IF j.step = "aimed"       THEN "aimed"
  ELSE IF j.step = "done"        THEN "bound"
  ELSE "none"

Cancel(t) ==
  /\ callPc[t] # "idle" /\ cancels > 0 /\ detached[t] = "none"
  /\ cancels' = cancels - 1
  /\ binding' = IF binding = t THEN NoOne ELSE binding
  /\ slotLock' = [p \in Pubs |-> IF slotLock[p] = t THEN NoOne ELSE slotLock[p]]
  /\ detached' = [detached EXCEPT ![t] = Abandoned(job[t])]
  /\ job' = [job EXCEPT ![t] = NoJob]
  /\ Returns(t)
  /\ UNCHANGED <<closed, listener, listening, subVars, lastGen, sockets, slot,
                 left, lingering, arrived>>

DetachedAim(t) ==
  /\ detached[t] = "spawned"
  /\ detached' = [detached EXCEPT ![t] =
                    IF SendTarget = Here THEN "aimed" ELSE "none"]
  /\ UNCHANGED <<closed, binding, listener, listening, subVars, lastGen, sockets,
                 slot, slotLock, callVars, job, lingering, cancels, arrived>>

DetachedListens(t) ==
  /\ detached[t] = "aimed"
  /\ detached' = [detached EXCEPT ![t] = IF AddressFree THEN "bound" ELSE "none"]
  /\ UNCHANGED <<closed, binding, listener, listening, subVars, lastGen, sockets,
                 slot, slotLock, callVars, job, lingering, cancels, arrived>>

DetachedGone(t) ==
  /\ detached[t] = "bound"
  /\ detached' = [detached EXCEPT ![t] = "none"]
  /\ UNCHANGED <<closed, binding, listener, listening, subVars, lastGen, sockets,
                 slot, slotLock, callVars, job, lingering, cancels, arrived>>

(* The last clone of a publisher goes, and its slot with it: the weak         *)
(* reference `listening` keeps is dead from then on (is_alive, upgrade).      *)
DropPublisher(p) ==
  /\ slot[p].at # "none" /\ p \notin lingering
  /\ \A t \in Tasks : PubOf[t] = p => callPc[t] = "idle"
  /\ slot' = [slot EXCEPT ![p] = Nowhere]
  /\ lingering' = IF ListensInSlot(p) THEN lingering \cup {p} ELSE lingering
  /\ listening' = listening \ {p}
  /\ yielding' = yielding \ {p}
  /\ UNCHANGED <<closed, binding, listener, releasing, subPc, held, lastGen, opens,
                 sockets, slotLock, callVars, job, detached, cancels, arrived>>

LingererGone(p) ==
  /\ p \in lingering
  /\ lingering' = lingering \ {p}
  /\ UNCHANGED <<closed, binding, listener, listening, subVars, lastGen, sockets,
                 slot, slotLock, callVars, job, detached, cancels, arrived>>

------------------------------------------------------------------------------
Opening(s) ==
  \/ RefuseSubscription(s) \/ TakeBinding(s) \/ ReleaseSocket(s)
  \/ BindSocket(s) \/ BindFails(s)
  \/ \E p \in Pubs : TakeSlot(s, p)

Attaching(t) ==
  \/ LockBinding(t) \/ CheckSlot(t) \/ Aim(t) \/ AttachListens(t)
  \/ AttachDials(t) \/ Record(t) \/ AttachFails(t) \/ Install(t)

Sending(t) == LockSlot(t) \/ RefuseName(t) \/ SendLocal(t) \/ SendAway(t)

System ==
  \/ \E g \in sockets : ReapSocket(g)
  \/ \E t \in Tasks : DetachedAim(t) \/ DetachedListens(t) \/ DetachedGone(t)
  \/ \E p \in Pubs : LingererGone(p)

Callers ==
  \/ Shutdown
  \/ \E s \in Subs : Subscribe(s) \/ DropSubscription(s)
  \/ \E t \in Tasks : Pair(t) \/ Cancel(t) \/ \E n \in Subs : Publish(t, n)
  \/ \E p \in Pubs : DropPublisher(p)

Next ==
  \/ \E s \in Subs : Opening(s)
  \/ \E t \in Tasks : Attaching(t) \/ Sending(t)
  \/ System
  \/ Callers

Spec == Init /\ [][Next]_vars

(* The runtime polls every task that can go on, the locks serve their         *)
(* waiters, and a send completes; nothing makes the callers act.              *)
Fairness ==
  /\ \A s \in Subs : WF_vars(Opening(s))
  /\ \A t \in Tasks : WF_vars(Attaching(t)) /\ WF_vars(Sending(t))
  /\ WF_vars(System)

FairSpec == Spec /\ Fairness

------------------------------------------------------------------------------
TypeOK ==
  /\ closed \in BOOLEAN
  /\ binding \in Subs \cup Tasks \cup {NoOne}
  /\ listener \in [gen : Nat, sub : Subs \cup {NoOne}]
  /\ listening \in SUBSET Pubs /\ yielding \in SUBSET Pubs
  /\ releasing \in Pubs \cup {NoOne}
  /\ subPc \in [Subs -> {"idle", "queued", "yielding", "open"}]
  /\ held \in [Subs -> Nat]
  /\ lastGen \in Nat /\ opens \in Nat /\ sockets \in SUBSET Nat
  /\ slot \in [Pubs -> Place] /\ slotLock \in [Pubs -> Tasks \cup {NoOne}]
  /\ callPc \in [Tasks -> {"idle", "lockSlot", "lockBinding", "checkSlot",
                           "attaching", "installing", "sending"}]
  /\ callName \in [Tasks -> Subs \cup {NoOne}]
  /\ job \in [Tasks -> Job]
  /\ detached \in [Tasks -> {"none", "spawned", "aimed", "bound"}]
  /\ lingering \in SUBSET Pubs
  /\ left \in [Tasks -> Nat] /\ cancels \in Nat
  /\ arrived \in SUBSET (Tasks \X (Subs \cup {NoOne}) \X Subs)

(* The `binding` lock is held by whoever is inside the section it guards, and *)
(* by nobody else: an open that is refused or fails, an attach that fails and *)
(* a publish dropped in the middle all give it back (hold_listener, attach).  *)
BindingExclusion ==
  /\ \A s \in Subs : binding = s <=> subPc[s] = "yielding"
  /\ \A t \in Tasks : binding = t <=>
       callPc[t] \in {"checkSlot", "attaching", "installing"}

(* Two subscriptions never hold the endpoint: the listener recorded is that   *)
(* of the one open subscription, under the bind whose slot it holds, and goes *)
(* with it (hold_listener, BoundSlot::drop).                                  *)
OneHolder ==
  /\ \A s \in Subs : subPc[s] = "open" => listener = [gen |-> held[s], sub |-> s]
  /\ listener # NoListener => \E s \in Subs : subPc[s] = "open"

(* While a subscription holds the endpoint no publisher of this service keeps *)
(* a socket that listens there itself, which on port zero nothing would read  *)
(* (hold_listener, OwnListener::give_way, attach).                            *)
NoDeafListener ==
  listener # NoListener => \A p \in Pubs : ~ListensInSlot(p)

(* On a queue, what the loopback delivers went out under the name of the      *)
(* subscription that took it: the name a socket remembers is the name of the  *)
(* subscription its connection reached (publish, returns_to_subscription).    *)
LoopbackKeepsNames ==
  Pattern = "queue" => \A a \in arrived : a[2] = a[3]

(* Why these hold: the inductive invariant.  What a lock's holder is about to *)
(* do stays true of the listener and of the list for as long as it holds it.  *)
ListenerHeld ==
  /\ \A s \in Subs : held[s] # 0 <=> subPc[s] = "open"
  /\ \A s \in Subs : subPc[s] = "open" => listener = [gen |-> held[s], sub |-> s]
  /\ listener # NoListener =>
       listener.gen # 0 /\ \E s \in Subs : subPc[s] = "open"

ListKept ==
  /\ \A p \in Pubs : ListensInSlot(p) => p \in listening \cup yielding
  /\ binding \notin Subs => yielding = {} /\ releasing = NoOne
  /\ binding \in Subs => listening = {} /\ listener = NoListener
  /\ listener # NoListener => listening = {}

(* The sockets a caller is attaching, and those in the slots, are attached    *)
(* where the bookkeeping says: to a listener only of the subscription named.  *)
TrueName(place) ==
  place.at = "local" =>
    /\ place.peer <= lastGen
    /\ \A s \in Subs : held[s] # 0 /\ held[s] = place.peer => s = place.sub

JobsKept ==
  \A t \in Tasks :
    /\ job[t].step # "none" => callPc[t] \in {"attaching", "installing"}
    /\ callPc[t] = "installing" =>
         job[t].step = "done" /\ (job[t].place.at = "listen" => PubOf[t] \in listening)
    /\ job[t].place.at = "listen" => listener = NoListener
    /\ job[t].place.at = "local" =>
         listener \in {NoListener, [gen |-> job[t].place.gen, sub |-> job[t].place.sub]}
    /\ job[t].step = "none" => job[t].place = Nowhere
    /\ job[t].step = "done" => TrueName(job[t].place)

SlotsKept ==
  /\ \A p \in Pubs : TrueName(slot[p])
  /\ \A s \in Subs : held[s] <= lastGen
  /\ sockets \subseteq 1..lastGen

Inv == /\ TypeOK /\ BindingExclusion /\ ListenerHeld /\ ListKept
       /\ JobsKept /\ SlotsKept /\ LoopbackKeepsNames

(* The endpoint is shared as EndpointLease promises. *)
Lease == INSTANCE EndpointLease WITH
           holder <- listener.gen, term <- lastGen,
           listeners <- {p \in Pubs : ListensInSlot(p)}
LeaseSpec == Lease!LeaseSpec

(* Whoever takes the lock gets through.  An open under way ends, refused,     *)
(* failed or open, though it waits for the lock and for the sends of the      *)
(* publishers it makes give way; and a publish or a pairing returns: an       *)
(* attach takes `binding` and then the slot, a subscription does too, and no  *)
(* send waits for `binding`.                                                  *)
EveryoneReturns ==
  /\ \A s \in Subs : subPc[s] \in {"queued", "yielding"}
                       ~> subPc[s] \in {"idle", "open"}
  /\ \A t \in Tasks : callPc[t] # "idle" ~> callPc[t] = "idle"

(* A publish under the name of the open subscription reaches it, unless it    *)
(* closes first: also from a publisher that was listening on the endpoint as  *)
(* the subscription bound it.  It says nothing once any caller has dropped a  *)
(* future, nor of a slot still attached to an earlier subscription: see       *)
(* OwnNameIsSent.                                                             *)
ReachesHolder ==
  \A t \in Tasks, s \in Subs :
    (/\ callPc[t] = "lockSlot" /\ callName[t] = s /\ listener.sub = s
     /\ slot[PubOf[t]].at = "local" => slot[PubOf[t]].peer = listener.gen)
      ~> (<<t, s, s>> \in arrived \/ listener.sub # s \/ cancels < MaxCancels)

------------------------------------------------------------------------------
(* A publish under the name of the subscription that holds the endpoint is    *)
(* never refused as one that would come back under a foreign name             *)
(* (ZmqQueuePublisher's documentation).                                       *)
OwnNameIsSent ==
  [][\A t \in Tasks : RefuseName(t) => callName[t] # listener.sub]_vars

(* A subscription that bound the endpoint frees it as it is dropped: the next *)
(* bind fails only because a publisher of this service is in the way          *)
(* (docs/architecture/lifecycle.md).                                          *)
FreedWhenDropped ==
  [][\A s \in Subs : BindFails(s) => PublisherBound]_vars

(* A subscription that binds finds every publisher listening here on the      *)
(* list: no bind fails on a live publisher's socket (Lifecycle.binding).      *)
BinderFindsListeners ==
  [][\A s \in Subs : BindFails(s) => sockets # {} \/ lingering # {}]_vars
==============================================================================
