-------------------------------- MODULE Bus --------------------------------
(***************************************************************************)
(* The in-process transport the test harness connects a broker over        *)
(* (in_process.rs, and the branches of subscribe, publish and request that *)
(* lead to it).  Under one lock a message picks the subscriptions it       *)
(* reaches; it is handed to them one by one afterwards, while others open, *)
(* close and send.  A coordinator counts every delivery from before it is  *)
(* queued until it is settled or dropped: zero means idle.  A request      *)
(* leaves a peer behind, which its answers are routed to.                  *)
(*                                                                         *)
(* The log of what was published is left out.                              *)
(***************************************************************************)
EXTENDS Integers, Sequences, FiniteSets

CONSTANTS
  Subs,      \* subscriptions, each of which opens once
  Senders,   \* tasks that publish, inject or request
  Kinds,     \* <<pattern, side>> of the broker: one is chosen
  Names,     \* names messages are sent to
  Fits,      \* <<subscription, name>> where the one's name prefixes the other
  NoSub,     \* no subscription
  MaxSends,  \* bound: messages of each sender
  MaxReplies \* bound: answers to one request

ASSUME BusAssumption ==
  /\ NoSub \notin Subs
  /\ Kinds \subseteq {"queue", "fanout", "rpc"} \X {"bind", "connect"}
  /\ Fits \subseteq Subs \X Names
  /\ MaxSends \in Nat /\ MaxReplies \in Nat

VARIABLES
  kind,      \* the broker's pattern and side
  lease,     \* Lifecycle.listener: the subscription that holds the endpoint
  life,      \* each subscription: none, leased, open, deaf, off or gone
  open,      \* State.subscriptions, kept in the order of their ids
  id,        \* Subscription.id
  nextId,    \* State.next_id
  turn,      \* State.turn
  peers,     \* State.peers: who answers at the identity of each request
  chan,      \* deliveries in each subscription's channel
  hand,      \* deliveries handlers hold, with the answers given to each
  sender,    \* what each sender is doing
  sent,      \* messages each sender has sent; numbers them (bound)
  watched,   \* whether the coordinator is installed
  inflight,  \* the coordinator's count
  taken      \* <<subscription, message>> of what was queued

subVars == <<lease, life, open, id, nextId>>
flowVars == <<chan, hand, inflight, taken>>
vars == <<kind, subVars, turn, peers, flowVars, sender, sent, watched>>

Pattern == kind[1]
Side == kind[2]
Messages == Senders \X (1..MaxSends)
Message(x) == <<x, sent[x]>>

Idle == [step |-> "idle", rest |-> {}, inject |-> FALSE, counted |-> FALSE]

Init ==
  /\ kind \in Kinds
  /\ lease = NoSub /\ life = [s \in Subs |-> "none"]
  /\ open = {} /\ id = [s \in Subs |-> 0] /\ nextId = 0
  /\ turn = 0 /\ peers = [m \in Messages |-> "none"]
  /\ chan = [s \in Subs |-> <<>>] /\ hand = {}
  /\ sender = [x \in Senders |-> Idle] /\ sent = [x \in Senders |-> 0]
  /\ watched = FALSE /\ inflight = 0 /\ taken = {}

InstallCoordinator ==
  /\ ~watched /\ watched' = TRUE
  /\ UNCHANGED <<kind, subVars, turn, peers, flowVars, sender, sent>>

Counted(ds) == Cardinality({i \in DOMAIN ds : ds[i].counted})
One(b) == IF b THEN 1 ELSE 0

------------------------------------------------------------------------------
(* Subscriptions. *)

(* attach_in_process: on the bind side the endpoint has one subscription. *)
Lease(s) ==
  /\ life[s] = "none"
  /\ Side = "bind" => lease = NoSub
  /\ lease' = IF Side = "bind" THEN s ELSE lease
  /\ life' = [life EXCEPT ![s] = "leased"]
  /\ UNCHANGED <<kind, open, id, nextId, turn, peers, flowVars, sender, sent, watched>>

Register(s) ==
  /\ life[s] = "leased"
  /\ open' = open \cup {s}
  /\ id' = [id EXCEPT ![s] = nextId] /\ nextId' = nextId + 1
  /\ life' = [life EXCEPT ![s] = "open"]
  /\ UNCHANGED <<kind, lease, turn, peers, flowVars, sender, sent, watched>>

(* Mutant: what was in the channel stays counted. *)
DropChannelCounted(s) ==
  /\ life[s] = "open"
  /\ chan' = [chan EXCEPT ![s] = <<>>]
  /\ life' = [life EXCEPT ![s] = "deaf"]
  /\ UNCHANGED <<kind, lease, open, id, nextId, turn, peers, hand, inflight, taken, sender,
                 sent, watched>>

(* A subscription that is dropped drops its channel first, with every         *)
(* delivery in it, while its name is still registered;                        *)
DropChannel(s) ==
  /\ life[s] = "open"
  /\ inflight' = inflight - Counted(chan[s])
  /\ chan' = [chan EXCEPT ![s] = <<>>]
  /\ life' = [life EXCEPT ![s] = "deaf"]
  /\ UNCHANGED <<kind, lease, open, id, nextId, turn, peers, hand, taken, sender, sent,
                 watched>>

(* Mutant: the endpoint is freed, the place on the transport is not given up. *)
GiveUpLate(s) ==
  /\ life[s] = "deaf"
  /\ lease' = IF lease = s THEN NoSub ELSE lease
  /\ life' = [life EXCEPT ![s] = "off"]
  /\ UNCHANGED <<kind, open, id, nextId, turn, peers, flowVars, sender, sent, watched>>

(* then DriverHandle::drop takes it off the transport,                        *)
GiveUp(s) ==
  /\ life[s] = "deaf"
  /\ open' = open \ {s}
  /\ life' = [life EXCEPT ![s] = "off"]
  /\ UNCHANGED <<kind, lease, id, nextId, turn, peers, flowVars, sender, sent, watched>>

(* and only then its BoundSlot frees the endpoint.                            *)
FreeSlot(s) ==
  /\ life[s] = "off"
  /\ lease' = IF lease = s THEN NoSub ELSE lease
  /\ life' = [life EXCEPT ![s] = "gone"]
  /\ UNCHANGED <<kind, open, id, nextId, turn, peers, flowVars, sender, sent, watched>>

------------------------------------------------------------------------------
(* Sending. *)

(* The subscriptions that opened before s, all of which precede it in the     *)
(* vector: one that is taken off leaves the others in their order.            *)
Before(s) == {o \in open : id[o] < id[s]}

(* Mutant: a message for one in turn goes to all. *)
ChosenAll(n, inject) ==
  IF ~inject /\ lease = NoSub THEN {}
  ELSE IF Pattern = "fanout" THEN {s \in open : <<s, n>> \in Fits}
  ELSE open

(* The subscriptions a message reaches (Pick).  A message of this service     *)
(* reaches one only through the listener it bound.  A publisher looks for it  *)
(* at its attach only (`local`), which comes to the same: one that found none *)
(* has given its slot up when a subscription has bound, and one that found    *)
(* a subscription that has closed since reaches whichever is open, if any.    *)
Chosen(n, inject) ==
  IF ~inject /\ lease = NoSub THEN {}
  ELSE IF Pattern = "fanout" THEN {s \in open : <<s, n>> \in Fits}
  ELSE IF Side = "bind" THEN open
  ELSE {s \in open : Cardinality(Before(s)) = turn % Cardinality(open)}

InTurn(inject) == inject /\ Side = "connect" /\ Pattern # "fanout" /\ open # {}

(* On a broker whose subscriptions dial, queue and fan-out publishers are     *)
(* refused once one has.                                                      *)
Refused(inject) == ~inject /\ Side = "connect" /\ Pattern # "rpc"
                   /\ \E s \in Subs : life[s] # "none"

Send(x, n, inject) ==
  /\ sender[x].step = "idle" /\ sent[x] < MaxSends /\ ~Refused(inject)
  /\ sent' = [sent EXCEPT ![x] = @ + 1]
  /\ sender' = [sender EXCEPT ![x] = [step |-> "picked", rest |-> Chosen(n, inject),
                                      inject |-> inject, counted |-> FALSE]]
  /\ turn' = IF InTurn(inject) THEN turn + 1 ELSE turn
  /\ peers' = IF Pattern = "rpc"
              THEN [peers EXCEPT ![<<x, sent[x] + 1>>] =
                      IF ~inject THEN "waiting"
                      ELSE IF open = {} THEN "none" ELSE "foreign"]
              ELSE peers
  /\ UNCHANGED <<kind, subVars, flowVars, watched>>

(* enqueued: the delivery is counted, *)
Enqueued(x) ==
  /\ sender[x].step = "picked" /\ sender[x].rest # {}
  /\ sender' = [sender EXCEPT ![x].step = "counted", ![x].counted = watched]
  /\ inflight' = inflight + One(watched)
  /\ UNCHANGED <<kind, subVars, turn, peers, chan, hand, taken, sent, watched>>

(* The first of those picked, in the order they opened. *)
First(s, rest) == s \in rest /\ \A o \in rest : id[s] <= id[o]

DeliveryTo(s, x) ==
  [sub |-> s, msg |-> Message(x), counted |-> sender[x].counted, replies |-> 0]

(* Mutant: what a closed subscription does not take stays counted. *)
HandOverLeaking(x) == \E s \in sender[x].rest :
  /\ sender[x].step = "counted" /\ First(s, sender[x].rest)
  /\ sender' = [sender EXCEPT ![x].step = "picked", ![x].rest = @ \ {s}]
  /\ IF life[s] = "open"
     THEN /\ chan' = [chan EXCEPT ![s] = Append(@, DeliveryTo(s, x))]
          /\ taken' = taken \cup {<<s, Message(x)>>}
     ELSE UNCHANGED <<chan, taken>>
  /\ UNCHANGED <<kind, subVars, turn, peers, hand, inflight, sent, watched>>

(* and queued, or dropped, and its count given back, when the subscription    *)
(* has closed since it was picked.                                            *)
HandOver(x) == \E s \in sender[x].rest :
  /\ sender[x].step = "counted" /\ First(s, sender[x].rest)
  /\ sender' = [sender EXCEPT ![x].step = "picked", ![x].rest = @ \ {s}]
  /\ IF life[s] = "open"
     THEN /\ chan' = [chan EXCEPT ![s] = Append(@, DeliveryTo(s, x))]
          /\ taken' = taken \cup {<<s, Message(x)>>}
          /\ UNCHANGED inflight
     ELSE /\ inflight' = inflight - One(sender[x].counted)
          /\ UNCHANGED <<chan, taken>>
  /\ UNCHANGED <<kind, subVars, turn, peers, hand, sent, watched>>

(* The message has reached all it picked; a request goes on to wait.          *)
SendEnds(x) ==
  /\ sender[x].step = "picked" /\ sender[x].rest = {}
  /\ sender' = [sender EXCEPT ![x] =
       IF Pattern = "rpc" /\ ~sender[x].inject THEN [Idle EXCEPT !.step = "waiting"]
       ELSE Idle]
  /\ UNCHANGED <<kind, subVars, turn, peers, flowVars, sent, watched>>

(* A request ends, by its answer, its timeout or being dropped: Connected     *)
(* closes its inbox.                                                          *)
RequestEnds(x) ==
  /\ sender[x].step = "waiting"
  /\ sender' = [sender EXCEPT ![x] = Idle]
  /\ peers' = [peers EXCEPT ![Message(x)] = "none"]
  /\ UNCHANGED <<kind, subVars, turn, flowVars, sent, watched>>

------------------------------------------------------------------------------
(* Handlers. *)

Handle(s) ==
  /\ life[s] = "open" /\ chan[s] # <<>>
  /\ hand' = hand \cup {Head(chan[s])}
  /\ chan' = [chan EXCEPT ![s] = Tail(@)]
  /\ UNCHANGED <<kind, subVars, turn, peers, inflight, taken, sender, sent, watched>>

(* The delivery is settled or dropped: Release. *)
Settle(d) ==
  /\ d \in hand
  /\ hand' = hand \ {d}
  /\ inflight' = inflight - One(d.counted)
  /\ UNCHANGED <<kind, subVars, turn, peers, chan, taken, sender, sent, watched>>

(* Mutant: a foreign peer stays for more answers. *)
ReplyStaying(d) ==
  /\ Pattern = "rpc" /\ d \in hand /\ d.replies < MaxReplies
  /\ peers[d.msg] # "none"
  /\ hand' = (hand \ {d}) \cup {[d EXCEPT !.replies = @ + 1]}
  /\ UNCHANGED <<kind, subVars, turn, peers, chan, inflight, taken, sender, sent, watched>>

(* reply: refused when the peer is gone; a foreign one leaves with it. *)
Reply(d) ==
  /\ Pattern = "rpc" /\ d \in hand /\ d.replies < MaxReplies
  /\ peers[d.msg] # "none"
  /\ hand' = (hand \ {d}) \cup {[d EXCEPT !.replies = @ + 1]}
  /\ peers' = IF peers[d.msg] = "foreign" THEN [peers EXCEPT ![d.msg] = "none"]
              ELSE peers
  /\ UNCHANGED <<kind, subVars, turn, chan, inflight, taken, sender, sent, watched>>

------------------------------------------------------------------------------
Delivering(x) == Enqueued(x) \/ HandOver(x) \/ SendEnds(x)
Closing(s) == GiveUp(s) \/ FreeSlot(s)

Next ==
  \/ InstallCoordinator
  \/ \E s \in Subs : Lease(s) \/ Register(s) \/ DropChannel(s) \/ Closing(s) \/ Handle(s)
  \/ \E x \in Senders :
       \/ \E n \in Names, inject \in BOOLEAN : Send(x, n, inject)
       \/ Delivering(x) \/ RequestEnds(x)
  \/ \E d \in hand : Settle(d) \/ Reply(d)

Spec == Init /\ [][Next]_vars

(* Code that runs goes on, and a delivery is handled and settled. *)
Fairness ==
  /\ \A x \in Senders : WF_vars(Delivering(x)) /\ WF_vars(RequestEnds(x))
  /\ \A s \in Subs : WF_vars(Handle(s)) /\ WF_vars(Closing(s))
  /\ WF_vars(\E d \in hand : Settle(d))

FairSpec == Spec /\ Fairness

------------------------------------------------------------------------------
Deliveries == [sub : Subs, msg : Messages, counted : BOOLEAN, replies : Nat]
InChannels == UNION {{chan[s][i] : i \in DOMAIN chan[s]} : s \in Subs}
CountedSenders == {x \in Senders : sender[x].step = "counted" /\ sender[x].counted}

SendStates == [step : {"idle", "picked", "counted", "waiting"}, rest : SUBSET Subs,
               inject : BOOLEAN, counted : BOOLEAN]

TypeOK ==
  /\ kind \in Kinds
  /\ lease \in Subs \cup {NoSub}
  /\ life \in [Subs -> {"none", "leased", "open", "deaf", "off", "gone"}]
  /\ open \subseteq Subs /\ id \in [Subs -> Nat] /\ nextId \in Nat
  /\ turn \in Nat
  /\ peers \in [Messages -> {"none", "waiting", "foreign"}]
  /\ chan \in [Subs -> Seq(Deliveries)]
  /\ hand \subseteq Deliveries
  /\ sender \in [Senders -> SendStates]
  /\ sent \in [Senders -> 0..MaxSends]
  /\ watched \in BOOLEAN
  /\ inflight \in Int
  /\ taken \subseteq Subs \X Messages

(* The count is exact: the deliveries queued or held, and those counted and   *)
(* about to be queued.  So a harness that sees zero sees an idle system,      *)
(* whatever closed between a pick and its delivery (Bus::subscribe, Release). *)
CountExact ==
  inflight = Cardinality({d \in InChannels \cup hand : d.counted})
             + Cardinality(CountedSenders)

(* A bound endpoint has one place on the transport, that of the subscription  *)
(* that holds the endpoint, however one that closes and one that opens are    *)
(* interleaved (DriverHandle::drop, subscribe).                               *)
OnePlace == Side = "bind" => open \subseteq {lease}

(* A PUSH or a DEALER hands each message to one socket: no message is taken   *)
(* by two subscriptions, except those of a fan-out that dial (Pick).          *)
OneTaker ==
  kind # <<"fanout", "connect">> =>
    \A t, u \in taken : t[2] = u[2] => t[1] = u[1]

(* A foreign peer asks once and leaves with its answer: while it is connected *)
(* nobody has answered it (Bus::reply).                                       *)
AskedOnce == \A d \in hand : peers[d.msg] = "foreign" => d.replies = 0

(* Whatever is counted is given back: the count comes down to zero.           *)
CountDrains == inflight > 0 ~> inflight = 0

------------------------------------------------------------------------------
(* The inductive invariant.  Who has a place: a subscription from when it     *)
(* registers until it is given up, and one that holds the bound endpoint from *)
(* its lease until its slot is freed; ids tell those in the vector apart.     *)
Placed ==
  /\ \A s \in Subs : s \in open <=> life[s] \in {"open", "deaf"}
  /\ Side = "bind" =>
       \A s \in Subs : life[s] \in {"leased", "open", "deaf", "off"} <=> lease = s
  /\ IsFiniteSet(open)
  /\ \A s \in open : id[s] < nextId
  /\ \A s, t \in open : id[s] = id[t] => s = t
  /\ \A s \in Subs : chan[s] # <<>> => life[s] = "open"

(* No message is twice with one subscription: in its channel, with its        *)
(* handlers, or still to be handed over to it.                                *)
Begun(m) == m[2] <= sent[m[1]]

Known ==
  /\ \A s \in Subs : \A i \in DOMAIN chan[s] :
       chan[s][i].sub = s /\ chan[s][i].replies = 0 /\ Begun(chan[s][i].msg)
  /\ \A d \in hand : Begun(d.msg)

QueuedOnce == \A s \in Subs : \A i, j \in DOMAIN chan[s] : chan[s][i].msg = chan[s][j].msg => i = j

HeldOnce == \A d, e \in hand : d.sub = e.sub /\ d.msg = e.msg => d = e

QueuedOrHeld == \A d \in hand : \A i \in DOMAIN chan[d.sub] : chan[d.sub][i].msg # d.msg

NotYetThere ==
  \A x \in Senders : \A s \in sender[x].rest :
    /\ \A i \in DOMAIN chan[s] : chan[s][i].msg # Message(x)
    /\ \A d \in hand : d.sub = s => d.msg # Message(x)

Once == Known /\ QueuedOnce /\ HeldOnce /\ QueuedOrHeld /\ NotYetThere

Finite == IsFiniteSet(InChannels) /\ IsFiniteSet(hand) /\ IsFiniteSet(CountedSenders)

(* A message for one subscription is on its way to one at most, and to none   *)
(* once it is taken.                                                          *)
OnItsWay ==
  /\ \A x \in Senders : sender[x].step # "idle" \/ sender[x].rest # {} => Message(x) \in Messages
  /\ \A t \in taken : Begun(t[2])
  /\ kind # <<"fanout", "connect">> =>
       \A x \in Senders : \A s \in sender[x].rest :
         sender[x].rest = {s} /\ \A t \in taken : t[2] # Message(x)

Inv == /\ TypeOK /\ Placed /\ Once /\ Finite /\ OnItsWay
       /\ CountExact /\ OneTaker /\ AskedOnce
==============================================================================
