--------------------------- MODULE DialedEndpoint ---------------------------
(***************************************************************************)
(* A broker that dials its endpoint (queue.rs, fanout.rs and common.rs, on *)
(* the connect side): the one peer at the address either reads what this   *)
(* service publishes or sends what its subscriptions read.  Clones of one  *)
(* publisher share a slot.  Each publish reads the closed flag and the     *)
(* subscription that dialed, takes the slot, attaches a socket when the    *)
(* slot is empty and sends.  The peer may go and come back; a queue        *)
(* publisher learns of it from a failed send and a fan-out publisher from  *)
(* the events of its socket, which a task of that socket watches.          *)
(*                                                                         *)
(* Outbox holds what a queue publish does inside its socket: here a send   *)
(* is one step.  A dial is a task of the runtime: it goes on when the      *)
(* publish that waits for it is dropped, connects or gives up, and only    *)
(* then is its socket dropped.  The peer may see it beside the next one.   *)
(***************************************************************************)
CONSTANTS
  Calls,     \* callers of publish, through clones of one publisher
  Subs,      \* subscriptions of the same broker
  Sockets,   \* bound: sockets that exist at one time
  NoOne      \* no caller, no subscription and no socket

ASSUME DialedAssumption == NoOne \notin Calls \cup Subs \cup Sockets

VARIABLES
  pattern,   \* "queue" or "fanout"
  cell,      \* the lifecycle: "empty", "open" or, after shutdown, "shut"
  peer,      \* at the address: "down", "reads" or "sends"
  dialer,    \* Lifecycle.dialer: the first subscription that dialed
  sub,       \* each subscription: "closed", "dialing" or "open"
  binding,   \* the caller that holds the attach lock
  lock,      \* the caller that holds the slot's lock
  slot,      \* the socket in the slot
  conn,      \* each socket's connection
  watched,   \* sockets a forget_on_disconnect task watches
  events,    \* sockets whose Disconnected waits in their event stream
  pc,        \* where each caller is
  holds,     \* the socket a caller dials and has not installed
  late       \* callers whose publish began after a subscription opened

slotVars == <<binding, lock, slot, conn, watched, events, holds>>
callVars == <<pc, late>>
vars == <<pattern, cell, peer, dialer, sub, slotVars, callVars>>

Attaching == {"looking", "dialing"}

TypeOK ==
  /\ pattern \in {"queue", "fanout"} /\ cell \in {"empty", "open", "shut"}
  /\ peer \in {"down", "reads", "sends"} /\ dialer \in Subs \cup {NoOne}
  /\ sub \in [Subs -> {"closed", "dialing", "open"}]
  /\ binding \in {c \in Calls : pc[c] \in Attaching} \cup {NoOne}
  /\ lock \in {c \in Calls : pc[c] = "send"} \cup {NoOne}
  /\ slot \in Sockets \cup {NoOne}
  /\ conn \in [Sockets -> {"none", "dialing", "failed", "joining", "up", "broken", "gone"}]
  /\ watched \subseteq Sockets /\ events \subseteq Sockets
  /\ pc \in [Calls -> {"idle", "check", "lock", "attach", "send"} \cup Attaching]
  /\ holds \in [Calls -> Sockets \cup {NoOne}]
  /\ late \subseteq Calls

Init ==
  /\ pattern \in {"queue", "fanout"} /\ cell = "empty" /\ peer = "down"
  /\ dialer = NoOne /\ sub = [s \in Subs |-> "closed"]
  /\ binding = NoOne /\ lock = NoOne /\ slot = NoOne
  /\ conn = [k \in Sockets |-> "none"] /\ watched = {} /\ events = {}
  /\ pc = [c \in Calls |-> "idle"] /\ holds = [c \in Calls |-> NoOne]
  /\ late = {}

Goto(c, place) == pc' = [pc EXCEPT ![c] = place]
Ends(c) == Goto(c, "idle") /\ late' = late \ {c}
Dropped(k) == conn' = [conn EXCEPT ![k] = "none"]

\* The sockets the publisher has: the one in the slot, and the one an attach waits for.
InUse == ({slot} \cup {holds[c] : c \in Calls}) \ {NoOne}
-----------------------------------------------------------------------------
(* The broker.                                                             *)

\* connect fills the cell every handle shares, once its endpoint is valid.
Connect ==
  /\ cell = "empty" /\ cell' = "open"
  /\ UNCHANGED <<pattern, peer, dialer, sub, slotVars, callVars>>

Shutdown ==
  /\ cell = "open" /\ cell' = "shut"
  /\ UNCHANGED <<pattern, peer, dialer, sub, slotVars, callVars>>

Open(s) ==
  /\ cell = "open" /\ sub[s] = "closed"
  /\ sub' = [sub EXCEPT ![s] = "dialing"]
  /\ UNCHANGED <<pattern, cell, peer, dialer, slotVars, callVars>>

\* The dial is recorded even when the open then fails or was dropped.
AttachReceiver(s) ==
  /\ sub[s] = "dialing" /\ peer = "sends"
  /\ dialer' = IF dialer = NoOne THEN s ELSE dialer
  /\ \E result \in {"open", "closed"} : sub' = [sub EXCEPT ![s] = result]
  /\ UNCHANGED <<pattern, cell, peer, slotVars, callVars>>

\* The dial window closes, the handshake is refused, or the subscription is dropped.
Close(s) ==
  /\ sub[s] # "closed" /\ (sub[s] = "dialing" => peer # "sends")
  /\ sub' = [sub EXCEPT ![s] = "closed"]
  /\ UNCHANGED <<pattern, cell, peer, dialer, slotVars, callVars>>
-----------------------------------------------------------------------------
(* A publish.                                                              *)

\* Mutant: the check is made on the attach only.
CheckDialerOnAttach(c) ==
  /\ pc[c] = "check"
  /\ IF dialer # NoOne /\ slot = NoOne
       THEN Ends(c) ELSE Goto(c, "lock") /\ UNCHANGED late
  /\ UNCHANGED <<pattern, cell, peer, dialer, sub, slotVars>>

\* A broker that is not connected, or shut down, refuses the publish at once.
Publish(c) ==
  /\ pc[c] = "idle" /\ cell = "open" /\ Goto(c, "check")
  /\ late' = late \cup {d \in {c} : \E s \in Subs : sub[s] = "open"}
  /\ UNCHANGED <<pattern, cell, peer, dialer, sub, slotVars>>

CheckDialer(c) ==
  /\ pc[c] = "check"
  /\ IF dialer # NoOne
       THEN Ends(c) ELSE Goto(c, "lock") /\ UNCHANGED late
  /\ UNCHANGED <<pattern, cell, peer, dialer, sub, slotVars>>

LockSlot(c) ==
  /\ pc[c] = "lock" /\ lock = NoOne
  /\ IF slot = NoOne
       THEN Goto(c, "attach") /\ UNCHANGED lock
       ELSE Goto(c, "send") /\ lock' = c
  /\ UNCHANGED <<pattern, cell, peer, dialer, sub, binding, slot, conn, watched, events,
                 holds, late>>

Attach(c) ==
  /\ pc[c] = "attach" /\ binding = NoOne
  /\ binding' = c /\ Goto(c, "looking")
  /\ UNCHANGED <<pattern, cell, peer, dialer, sub, lock, slot, conn, watched, events,
                 holds, late>>

\* The task of a dial starts on the runtime with a socket of its own.
StartDial(c) ==
  /\ Goto(c, "dialing") /\ UNCHANGED binding
  /\ \E k \in Sockets :
       /\ conn[k] = "none" /\ k \notin watched \* a name nothing uses any more
       /\ conn' = [conn EXCEPT ![k] = "dialing"]
       /\ holds' = [holds EXCEPT ![c] = k]

\* Mutant: the slot found empty before the lock is taken to be empty still.
LookAgainNot(c) ==
  /\ pc[c] = "looking" /\ lock = NoOne /\ StartDial(c)
  /\ UNCHANGED <<pattern, cell, peer, dialer, sub, lock, slot, watched, events, late>>

\* Another clone may have attached since the slot was found empty.
LookAgain(c) ==
  /\ pc[c] = "looking" /\ lock = NoOne
  /\ IF slot # NoOne
       THEN Goto(c, "lock") /\ binding' = NoOne /\ UNCHANGED <<conn, holds>>
       ELSE StartDial(c)
  /\ UNCHANGED <<pattern, cell, peer, dialer, sub, lock, slot, watched, events, late>>

\* The dial's task ends, waited for or not: connected, or, when the dial window closes or a
\* peer that only sends refuses the handshake, failed.
Dial(k) ==
  /\ conn[k] = "dialing"
  /\ conn' = [conn EXCEPT ![k] = IF peer # "reads" THEN "failed"
                                  ELSE IF pattern = "queue" THEN "up" ELSE "joining"]
  /\ UNCHANGED <<pattern, cell, peer, dialer, sub, binding, lock, slot, watched, events,
                 holds, callVars>>

DialFails(c) ==
  /\ pc[c] = "dialing" /\ conn[holds[c]] = "failed"
  /\ binding' = NoOne /\ Ends(c)
  /\ Dropped(holds[c]) /\ holds' = [holds EXCEPT ![c] = NoOne]
  /\ UNCHANGED <<pattern, cell, peer, dialer, sub, lock, slot, watched, events>>

\* The runtime drops the socket of a dial nobody waits for, and its connection closes.
Discard(k) ==
  /\ k \notin InUse /\ conn[k] \notin {"none", "dialing"}
  /\ Dropped(k) /\ events' = events \ {k}
  /\ UNCHANGED <<pattern, cell, peer, dialer, sub, binding, lock, slot, watched, holds,
                 callVars>>

\* Mutant: the task has started before; by the time of the install it may have ended.
InstallWatchedBefore(c) ==
  /\ pc[c] = "dialing" /\ conn[holds[c]] \notin {"dialing", "failed"} /\ lock = NoOne
  /\ slot' = holds[c] /\ holds' = [holds EXCEPT ![c] = NoOne]
  /\ watched' = watched \cup (IF pattern = "fanout" /\ holds[c] \notin events
                              THEN {holds[c]} ELSE {})
  /\ binding' = NoOne /\ Goto(c, "lock")
  /\ UNCHANGED <<pattern, cell, peer, dialer, sub, lock, conn, events, late>>

\* The task of a fan-out socket starts once the socket is in the slot.
Install(c) ==
  /\ pc[c] = "dialing" /\ conn[holds[c]] \notin {"dialing", "failed"} /\ lock = NoOne
  /\ slot' = holds[c] /\ holds' = [holds EXCEPT ![c] = NoOne]
  /\ watched' = watched \cup (IF pattern = "fanout" THEN {holds[c]} ELSE {})
  /\ binding' = NoOne /\ Goto(c, "lock")
  /\ UNCHANGED <<pattern, cell, peer, dialer, sub, lock, conn, events, late>>

\* Whether the client may fail a message: on a connection that broke it may take it still.  A
\* PUB socket never misses its peer; a PUSH socket without one fails when the window closes.
MayFail ==
  CASE conn[slot] = "broken" -> BOOLEAN
    [] conn[slot] = "gone" -> {pattern = "queue"}
    [] OTHER -> {FALSE}

\* Mutant: a fan-out publisher drops its socket on a failed send too.
SendDropping(c) ==
  /\ pc[c] = "send" /\ lock' = NoOne /\ Ends(c)
  /\ \E failed \in MayFail :
       IF failed THEN slot' = NoOne /\ Dropped(slot) ELSE UNCHANGED <<slot, conn>>
  /\ UNCHANGED <<pattern, cell, peer, dialer, sub, binding, watched, events, holds>>

\* Mutant: a queue publisher keeps the socket whatever became of the send.
SendKeeping(c) ==
  /\ pc[c] = "send" /\ lock' = NoOne /\ Ends(c)
  /\ UNCHANGED <<pattern, cell, peer, dialer, sub, binding, slot, conn, watched, events,
                 holds>>

\* A queue publisher drops the socket a send failed on; a fan-out publisher keeps its own.
Send(c) ==
  /\ pc[c] = "send" /\ lock' = NoOne /\ Ends(c)
  /\ \E failed \in MayFail :
       IF failed /\ pattern = "queue"
         THEN slot' = NoOne /\ Dropped(slot) ELSE UNCHANGED <<slot, conn>>
  /\ UNCHANGED <<pattern, cell, peer, dialer, sub, binding, watched, events, holds>>

\* The caller drops the future at an await: its locks are free, and a dial it waits for goes
\* on by itself.
Cancel(c) ==
  /\ pc[c] \notin {"idle", "check"} /\ Ends(c)
  /\ lock' = (IF lock = c THEN NoOne ELSE lock)
  /\ binding' = (IF binding = c THEN NoOne ELSE binding)
  /\ holds' = [holds EXCEPT ![c] = NoOne]
  /\ UNCHANGED <<pattern, cell, peer, dialer, sub, slot, conn, watched, events>>
-----------------------------------------------------------------------------
(* The connection and the task that watches it.                            *)

FilterArrives(k) ==
  /\ conn[k] = "joining" /\ conn' = [conn EXCEPT ![k] = "up"]
  /\ UNCHANGED <<pattern, cell, peer, dialer, sub, binding, lock, slot, watched, events,
                 holds, callVars>>

Notices(k) ==
  /\ conn[k] = "broken" /\ conn' = [conn EXCEPT ![k] = "gone"]
  /\ events' = (IF pattern = "fanout" THEN events \cup {k} ELSE events)
  /\ UNCHANGED <<pattern, cell, peer, dialer, sub, binding, lock, slot, watched, holds,
                 callVars>>

\* Mutant: the task tries the lock once and gives up when a publish holds it.
ForgetOnDisconnectTry(k) ==
  /\ k \in watched \cap events
  /\ IF lock = NoOne
       THEN slot' = NoOne /\ conn' = [conn EXCEPT ![k] = "none", ![slot] = "none"]
       ELSE UNCHANGED <<slot, conn>>
  /\ watched' = watched \ {k} /\ events' = events \ {k}
  /\ UNCHANGED <<pattern, cell, peer, dialer, sub, binding, lock, holds, callVars>>

\* Mutant: the task empties the slot beside the publish that sends on it.
ForgetOnDisconnectUnlocked(k) ==
  /\ k \in watched \cap events
  /\ slot' = NoOne /\ conn' = [conn EXCEPT ![k] = "none", ![slot] = "none"]
  /\ watched' = watched \ {k} /\ events' = events \ {k}
  /\ UNCHANGED <<pattern, cell, peer, dialer, sub, binding, lock, holds, callVars>>

\* On the first Disconnected the task takes the slot's lock, empties the slot and ends.
ForgetOnDisconnect(k) ==
  /\ k \in watched \cap events /\ lock = NoOne
  /\ slot' = NoOne /\ conn' = [conn EXCEPT ![k] = "none", ![slot] = "none"]
  /\ watched' = watched \ {k} /\ events' = events \ {k}
  /\ UNCHANGED <<pattern, cell, peer, dialer, sub, binding, lock, holds, callVars>>

PeerStarts ==
  /\ peer = "down" /\ peer' \in {"reads", "sends"}
  /\ UNCHANGED <<pattern, cell, dialer, sub, slotVars, callVars>>

PeerStops ==
  /\ peer # "down" /\ peer' = "down"
  /\ conn' = [k \in Sockets |-> IF conn[k] \in {"joining", "up"} THEN "broken" ELSE conn[k]]
  /\ UNCHANGED <<pattern, cell, dialer, sub, binding, lock, slot, watched, events, holds,
                 callVars>>
-----------------------------------------------------------------------------
Serve(c) ==
  \/ CheckDialer(c) \/ LockSlot(c) \/ Attach(c) \/ LookAgain(c)
  \/ DialFails(c) \/ Install(c) \/ Send(c)
Client(k) == FilterArrives(k) \/ Notices(k)
Runtime(k) == Dial(k) \/ Discard(k)

Next ==
  \/ Connect \/ Shutdown \/ PeerStarts \/ PeerStops
  \/ \E s \in Subs : Open(s) \/ AttachReceiver(s) \/ Close(s)
  \/ \E c \in Calls : Publish(c) \/ Serve(c) \/ Cancel(c)
  \/ \E k \in Sockets : Client(k) \/ Runtime(k) \/ ForgetOnDisconnect(k)

Spec == Init /\ [][Next]_vars

\* A publish that can go on is polled, a dial ends, the client notices, and the task of a
\* disconnected socket takes the slot's lock if it stays free.  The lock is handed on to no
\* waiter in turn, so nothing says that the task gets it from a stream of publishes.
FairSpec ==
  /\ Spec
  /\ \A c \in Calls : WF_vars(Serve(c))
  /\ \A k \in Sockets :
       WF_vars(Client(k)) /\ WF_vars(Runtime(k)) /\ WF_vars(ForgetOnDisconnect(k))
-----------------------------------------------------------------------------
(* Properties.                                                             *)

\* The struct docs: on an endpoint a subscription of this service dials every publish is
\* refused.  A publish begun then never attaches, waits or sends, so the socket attached before
\* is used only by publishes that were under way.
LateIsRefused == \A c \in late : pc[c] = "check"

\* Publisher::attach: the slot found empty under the attach lock stays empty until the install,
\* so no socket is replaced while it lives and one is there to send on.  A dial whose publish
\* was dropped goes on beside the next one, and its socket never comes back into use.
OneSocket ==
  /\ [](\A k, l \in InUse : k = l)
  /\ [][\A k \in InUse' \ InUse : conn[k] = "none"]_vars

\* forget_on_disconnect: a fan-out slot is emptied of the socket the task watched and of no
\* other, once that socket lost its peer, whatever the publishes did in between.
TakesWhatItWatched ==
  [][pattern = "fanout" /\ slot # NoOne /\ slot' # slot =>
       /\ slot \in watched \cap events /\ slot \notin watched'
       /\ conn[slot] = "gone"]_vars

\* The socket in a fan-out slot has a task, and no task outlives its socket: however attaches
\* and their callers end, nothing empties the slot of a later socket.
WatchedWhileInSlot ==
  pattern = "fanout" => watched = {slot} \ {NoOne}

\* What the guards of the code keep together, and the properties above follow from.
Guarded ==
  /\ (\E s \in Subs : sub[s] = "open") => dialer # NoOne
  /\ \A c \in Calls :
       /\ c \in late => dialer # NoOne
       /\ pc[c] \in Attaching => binding = c
       /\ pc[c] = "send" => lock = c /\ slot # NoOne
       /\ pc[c] = "dialing" => slot = NoOne /\ holds[c] # NoOne
       /\ holds[c] # NoOne => pc[c] = "dialing" /\ conn[holds[c]] # "none"
  /\ slot # NoOne => conn[slot] \notin {"none", "dialing", "failed"}
  /\ \A k \in events : conn[k] = "gone"
  /\ pattern = "queue" => watched = {} /\ events = {}

Inv == TypeOK /\ LateIsRefused /\ WatchedWhileInSlot /\ Guarded

\* A fan-out socket whose peer has gone does not stay in the slot, where it would drop every
\* publish as one nobody matches: once the publishes pause, the task has emptied the slot.
DeadIsForgotten ==
  <>[](lock = NoOne) =>
    \A k \in Sockets : (pattern = "fanout" /\ slot = k /\ conn[k] = "gone") ~> (slot # k)

Settled == peer = "reads" /\ dialer = NoOne /\ cell = "open"
Returns == \E c \in Calls : Serve(c) /\ pc'[c] = "idle"
Reaches == \E c \in Calls : Send(c) /\ conn[slot] = "up"

\* docs/guides/production.md: a publisher that dials reaches its peer once that is back.  While
\* the peer stays and publishes return, publishes reach it, whatever happened before; those of
\* a fan-out publisher as long as each disconnect finds a pause in which its task has the lock.
Paused == watched \cap events = {}
ReachesThePeer ==
  (<>[]Settled /\ []<><<Returns>>_vars /\ []<>Paused) => []<><<Reaches>>_vars
=============================================================================
