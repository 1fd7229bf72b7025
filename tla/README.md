# A verification of ruststream-zeromq

`ruststream-zeromq` gives the RustStream framework three brokers over ZeroMQ
sockets: a queue (PUSH/PULL), a fan-out (PUB/SUB) and request-reply
(DEALER/ROUTER). ZeroMQ has no server, so what a server would arbitrate (who
listens on an address, whose message is in flight, which socket an answer goes
through) is arbitrated inside the process by a few locks and tasks. This project
models that arbitration in TLA+, checks it with TLC on small instances, and
proves the core of it with TLAPS for every size.

Paths below are relative to `crates/ruststream-zeromq/src/`.

## 1. The system

| Component | State it keeps | Operations | Hard because | Correct when |
|---|---|---|---|---|
| **Bound endpoint** (`common.rs` Lifecycle, OwnListener, BoundSlot; open, attach, publish in `queue.rs`, `fanout.rs`) | `closed`, the async lock `binding`, `listener`, the list `listening`, a slot with a mutex per publisher | open and drop a subscription; pair, attach, publish, drop a publisher; shut down | opens, closes and attaches interleave at every await; attaches run in tasks of their own and outlive a dropped caller; a dropped socket is torn down later | one subscription holds the endpoint; no publisher listens beside it; the lock always comes back; a message goes out under the name of who takes it |
| **Outbox and send retry** (`common.rs` retry, Outbox, Parked, Sending; `queue.rs` publish) | the send in flight, the name of a dropped one, the slot's socket | offer, retry in a window, send, drop, complete a dropped send, give way | a publish is dropped while the peer holds it back; peers die unnoticed; the client takes a peer out of rotation while it sends | Ok means left, once; a failure means it never leaves; no peer is lost; failures heal |
| **Request-reply** (`rpc.rs`) | the reply route `router_tx`, a DEALER per request, requests in handlers' hands | request with timeout, open and close a responder, answer | answers come late, twice, or through another responder; a full peer holds the route's lock | an answer ends the request it was made for; whoever waits for the route gets it |
| **Subscription driver** (open in `queue.rs`, `fanout.rs`, `rpc.rs`; `common.rs` WireSubscriber) | the socket, one message in hand, a bounded channel | receive, hand over, take, drop, abort | back-pressure from handler to socket; an abort at any await | everything arrives in order, errors in their place; nothing unbounded |
| **Envelopes and messages** (`envelope/`, `message.rs`) | none; headers read lazily | seal, refuse, open, read headers, stamp the reply address | what is written must read back as the same message, also past trimming and JSON whitespace | a round trip is exact, and what is refused is refused for a reason |
| **In-process transport** (`in_process.rs`, its branches elsewhere) | subscriptions, round-robin turn, peers, the coordinator's count | subscribe, publish, inject, request, reply, settle, close | picks are made under the lock, deliveries after it; a count that is wrong for a moment ends a test too early | the count is exact and drains; one place per bound endpoint; answers go to who asked |
| **Dialed endpoint** (connect side of `common.rs`, `queue.rs`, `fanout.rs`) | the subscription that dialed, a slot with a mutex per publisher, the attach lock, the task of each fan-out socket | dial, refuse, attach, send, forget on disconnect, shut down | the checks come before the locks; a task empties a slot that others fill; a dropped publish leaves its dial going; a peer goes while its socket is being installed | one socket to send on at a time; a dead one is dropped, and only the dead one; publishing resumes when the peer is back |
| **Example services** (`examples/`, `examples/manual/`, services of the tests) | which subscriptions are open; where each message is, its count | start, handle, retry as a copy, bury, answer, stop | copies and dead letters leave through other brokers and come back through other mounts; types do not see the refusals | it starts unless it is said not to; the cap holds; copies and dead letters end where they belong |
| Endpoint addresses (`endpoint.rs`) | none | parse, validate | | validation is in `Deployment`; parsing is not modelled |
| Integration tests (`tests/`) | none | | | the services they mount are in `ServiceTests`; the rest is read as evidence of intent |
| AsyncAPI bindings, errors and prelude, benchmarks, website | none | | | not modelled |

How they meet. A subscription's open takes `binding`, makes the publishers in
`listening` give their sockets up (which waits for the outbox of each), binds,
and spawns a driver. A publish seals its message, locks its publisher's slot,
attaches under `binding` if the slot is empty, and sends through the outbox. A
driver opens messages through the envelope and feeds the handler's channel. A
responder's driver stamps each request with the identity its answer goes to and
puts the sending half of its ROUTER into the reply route all publishers share.
Under the `testing` feature the same brokers run over the in-process transport
instead of sockets, and only the endpoint's bookkeeping stays. The framework above
opens the subscriptions of a service in the order of its mounts and publishes
copies, dead letters and replies through the publishers those mounts name.

`PROJECT.json` lists the hazards of this code, each at its line with the
properties that would catch it.

## 2. The modules

| Module | Models | Composes |
|---|---|---|
| `EndpointLease` | abstract: listened on by publishers, or held under a term by one subscription | |
| `BoundEndpoint` | Lifecycle on the bind side with opens, attaches, publishes, dropped futures, delayed teardown | implements `EndpointLease` |
| `Outbox` | one publisher and its clones, their slot, retry and in-flight send, one peer | what `BoundEndpoint` abstracts of a send |
| `DialedEndpoint` | the connect side of queue and fan-out: clones of a publisher, a subscription, the peer | what `BoundEndpoint` leaves out; a send is one step |
| `Exchange` | abstract: a request ends once, heard or unheard | |
| `Rpc` | requests, responders, the reply route, handlers' answers | implements `Exchange` |
| `Envelope` | the built-in layouts, as pure operators | |
| `Delivery` | a sender, the pipe, the driver, the channel, the handler | extends `Envelope` |
| `Bus` | the in-process transport and its coordinator | |
| `Deployment` | what services declare: brokers, mounts, ways out; which starts and publishes that allows, and whom a publish can reach | the brokers' rules, each as what a publish comes to |
| `Services` | services that start, handle, retry, bury, answer and stop, and the messages on their way through them | `Deployment`, of the services of the run |
| `Examples`, `ManualExamples` | the 42 examples, as the macros and as the types by hand declare them | extend `Services` |
| `ServiceTests` | the services the tests start or see refused | extends `ManualExamples` |
| `MC*` | instances for TLC: constants, symmetry, and in `MCServices` that both forms of an example are one service and that all services are well made | |
| `BoundEndpointProofs`, `OutboxProofs`, `DialedProofs`, `RpcProofs`, `BusProofs`, `ServicesProofs` | theorems and proofs | extend the module |
| `EnvelopeProofs` | what sealing and reading come to, for every message | extends `Envelope` |
| `DeliveryProofs` | theorems and proofs | extends `Delivery` and `EnvelopeProofs` |

The operators named `...Unserialised`, `...Holding`, `...Padded` and the like, each
with a comment that says so, are faulty forms of the definition they precede, the
way a plausible bug would write it. No behaviour of the specification uses them.
`PROJECT.json` pairs each with the property that it breaks, to show that the property
can fail.

### From code to state and actions

**BoundEndpoint.** Variables carry the names of the code's fields. An async
function is cut at its awaits: each action runs from one await to the next.
`hold_listener` is `Subscribe`, `TakeBinding` (with the checks made under the
lock), `TakeSlot` and `ReleaseSocket` for every publisher that gives way,
`EveryoneGaveWay`, and `BindSocket` or `BindFails`. `attach` is `LockBinding`,
`CheckSlot`, `Aim`, `AttachListens` or `AttachDials`, `Record` or `AttachFails`,
and `Install`. `job` is the part of an attach that `on_runtime` spawns; when the
caller is dropped (`Cancel`) it goes on as `detached`, while the lock, which the
caller's future held, is free. `sockets` are the receiving sockets the operating
system still has: dropping a subscription frees its slot in the same step and
leaves the socket to `ReapSocket`, since the task is only aborted. A dropped
publisher's socket goes the same way (`lingering`). Arcs compared with `ptr_eq`
are numbered by the bind that made them.

Two abstractions: an open that is itself dropped is the open followed at once by
a drop, and on a fan-out the prefix filter is taken as equality of names (the
prefixes are in `Bus`). Processes other than this one do not bind its address.

**Outbox.** One slot, its mutex (`lock`), its callers' program counters, the
future kept in the outbox (`flight`) and the name kept with it when its publish
is dropped (`dropped`). The client library, external, is modelled by what the
code relies on: a peer out of `rotation` while something is sent to it, a
connection that may be dead before anyone notices, a pipe of `Room` messages.
`yielding` is a subscription that takes the socket away (`give_way`).

**DialedEndpoint.** A publish is cut at its awaits: `Publish` (`ensure_open`),
`CheckDialer`, `LockSlot`, then `Attach`, `LookAgain`, `DialFails` or `Install` when
the slot is empty, and `Send`. `dialer` is the set-once cell, which
`AttachReceiver` fills even if the open fails afterwards. `conn` is what the client
knows of each socket: `dialing` until its dial ends, `failed` if it failed, `joining`
until the filter has arrived, `broken` when the peer has gone unnoticed, `gone` once it
is noticed. `watched` are the sockets with a
`forget_on_disconnect` task and `events` those whose event it has not read. A dial is a
task of its own (`on_runtime`): `StartDial` begins it, `Dial` ends it, and `holds` is the
dial that a publish waits for. `Cancel` drops the publish, frees its locks and leaves the
dial going; a clone may dial beside it, and the peer may then have two connections of one
publisher until the runtime drops the one nobody waits for (`Discard`). `OneSocket` is
therefore about the sockets in use, the one in the slot and the one an attach waits for:
they are one, and no other comes into use but one whose dial has just begun. A socket's
name is used again once it is dropped and its task has ended. A step that would need more
names than the run has waits for one.

**Rpc.** A responder is a generation: `attached` (its ROUTER is up), `open` (its
half is in the route), `closed`. `route` names the ROUTER answers go through.
A DEALER's identity is its connection. `inbox` is the DEALER's pipe; a full one
blocks the answer and with it the route's mutex (`replyLock`). With `Side =
"connect"` the requesters stand for peers that bind and the responder dials.
The send of a request is awaited before its timeout starts (`SendRequest`), with no bound
on it while the connection holds it back. Only the envelopes that carry headers are run,
and the requesters belong to the responder's process (they see its `closed`). The driver's channel is `pending`.
`Exchange` is what the caller sees of it: `busy` are the requesters that are not
idle, `heard` pairs each request with the one its answer was made for.

**Delivery.** `traffic` is what a sender is about to send: publishes of this
crate, frames of other peers, receives that fail. `wire`, `inHand` and `channel`
are the socket's pipe, the message between `recv` and `tx.send`, and the bounded
channel. A handler looks at the headers as it takes an item. A dropped
subscription closes the channel at once; its driver ends when its task is next
run (`Abort`) or when its send finds the channel closed (`HandOver`). `Received`,
`Read` and `Seen` are the three conversions on the way; they take the envelope and
the pattern (`form`) as a parameter, so that the proof of the order can leave them
closed and the proof of what they come to can open one at a time. `Stamped` sets the
reply address of a request over whatever its envelope says.

**Envelope.** Bytes are a sequence of the kinds of characters the code tells apart
(`Chars`), text is bytes that are UTF-8, and a message (`IsMessage`) is what
`envelope::write` takes: a name that is text, headers whose names are text and whose
values are bytes, a payload.
A Framed document is the record of its fields, with a payload that is a JSON
text, one with whitespace around it, or neither; whatever makes a document no document
of the layout (an unknown field, a payload that is not base64, or no byte string) is the
one field `other`. A carriage return is a character of its own: `unwritable` refuses it as
a line break, and the reader would keep a lone one. Bytes that the codecs themselves read
or write (JSON, CBOR, MessagePack, base64) are external.

**Bus.** `Send` picks under the lock; `Enqueued` and `HandOver` deliver to one
picked subscription after another, outside it. `Chosen` reads the lease at the send where
the code reads it at the attach; its comment says why that comes to the same. A publish
under another name than that of the queue's subscription, which the queue refuses before
it comes here, is let through. A subscriber is dropped in three
steps, `DropChannel`, `GiveUp` and `FreeSlot`: its channel, its place, its endpoint. The
log of published messages, which only tests read, is left out.

**Deployment, Services.** A service is a record of its brokers and its mounts, in order; a mount
is a name on a broker, the outcomes its handler may have, and what is declared on
it: a cap, a dead letter, where copies and replies go. The builder operators
(`Include`, `OutRetry`, `DeadLetter`, ...) are named after the framework's methods.
A message is a `job`: where it is, the mount it came in at, whether it is new, a copy
or a dead letter, and its count. A publish ends at once: `Refused` is the refusals of
the three `publish`, `Receivers` the subscriptions it can reach. `Deployment` has what
is declared, which no step changes, `Services` what changes. `RefusedAsSaid`,
`Addressed`, `LeadHome` and `Parked` are conditions on the declarations alone: which
services can start, that no publish is refused once everything is open, that copies
can reach only mounts like their own, and that a dead letter whose name is mounted
goes to mounts that keep it. TLC evaluates them (`WellMade`) for every group of
services that the run `services` starts. The framework
(mounts, retries, stop) is not in the repository and is modelled from how the
brokers, the tests and the examples use it. Handlers choose among the outcomes their
code has; what they compute is left out.

**Examples, ManualExamples, ServiceTests.** One definition per example file, written
from that file alone, once with the macros and once by hand; `FormsAgree`, which TLC
evaluates before the run `services`, says that the two build the same service, as
their common name promises. `ServiceTests` has the services of `redelivery.rs`,
`reply_destinations.rs`, `harness_zmq.rs` and `integration_zmq.rs` that are about
destinations and starts; port 0 is a number of its own.

## 3. Plan

Done: every module of the plan, which was `EndpointLease`, `BoundEndpoint`,
`Outbox`, `Rpc`, `Bus`, `Envelope`, `Delivery`, then `DialedEndpoint`, `Exchange`,
`Services` with the examples and tests, and the proofs of `BoundEndpoint`, `Outbox`,
`DialedEndpoint`, `Rpc`, `Bus`, `Envelope`, `Delivery` and `Services`.

What is left, and why:

* A composition of `Outbox` into `BoundEndpoint` and `DialedEndpoint`, where a send is
  one step, would multiply their states; each side checks what the other relies on
  (a send ends: `CallsReturn`; the socket is not taken from under one: `SocketAtHand`).
* Several requesters at once: `answers` has one, and `RpcProofs` has any number for
  safety.

## 4. Runs

| Run | Checks | Instance |
|---|---|---|
| `settles` | lock, loopback and the inductive invariant; opens and publishes return; a publish reaches the holder | queue, fixed port, fair; 2 subscriptions, 2 callers on one slot, 2 opens, 1 dropped future |
| `portzero` | `NoDeafListener`, refinement of the lease | fan-out, port zero; 2 subscriptions, 2 publishers, 2 opens, 2 calls |
| `sends` | the outbox: names, peers, truthful outcomes, the inductive invariant; publishes return | fair; 2 clones with 2 publishes each, a pipe of one, 2 dropped, peer stops twice |
| `redials` | the connect side: late publishes are refused, one socket in use, watched while in the slot, only the dead one is dropped, it is dropped if its task gets the lock, publishing resumes; no deadlock | queue and fan-out, fair; 2 callers without a bound on their publishes, 1 subscription, 2 sockets, a peer that comes and goes without end |
| `answers` | the inductive invariant, refinement of `Exchange`; answers match their request and reach it; whoever waits gets through, and a request ends once it is sent | bind side, fair; 1 requester with 2 requests, 2 handlers, 2 responders, 2 answers to a request, 1 dropped future |
| `harness` | count, places, takers, answers; the count drains | all six kinds of broker, fair; 2 subscriptions, 2 senders, 2 names of which one matches both |
| `drivers` | order and back-pressure; what is seen is what was sent; what is refused would not have read back, or holds a carriage return; all of it arrives | 3 patterns × 4 envelopes, fair; every header of up to two characters a side, every header frame of up to three, and all sequences of four of three kinds of message through places for three |
| `services` | starts and refusals, caps, copies, dead letters; every message settles | all 42 examples alone, four groups of guides together, 17 services of tests; 2 messages |
| `stale_name`, `rebind`, `dropped_attach`, `two_responders` | one claim each that the code does not keep | section 6 |

Why the bounds are enough. The endpoint's hazards are about two parties that meet
over a third: two subscriptions in turn and a publisher that was attached to the
first, or two callers on one slot of which one is dropped. Two opens, two calls
and one dropped future reach all of them, as the counterexamples and the faulty
forms show, each of which TLC finds. In `Outbox` two clones
with two publishes let a parked send meet a later publish, a retry and a socket
that died in between; a pipe of one is full after one message. In `Rpc` the
second request lets a late answer meet a new request under the same correlation
id, the second responder replaces the first, and the second handler waits behind
one that is blocked. In `Delivery` the pipe, the driver and the channel hold
three messages and the fourth waits. In `DialedEndpoint` nothing but the callers
and the sockets that exist at a time is bounded: two of them let an abandoned dial run
beside the next attach, which is what the hazard needs, and `DialedProofs` has any number. In `Services` two
messages let one wait out a delay while the process stops under the other, and
only retries under no cap are cut short (`Patience`), those under one run to it. In
`Bus` a third subscription adds no new order: a pick hands over to at most two and
each may close at any step. Two sends take the turn from its start to the second of two
places and not around; `BusProofs` has any number of sends. The counter itself, a `usize`
that wraps (`in_process.rs:250`), is a natural number here. In `Delivery` the headers that are run are short, and
`EnvelopeProofs` has them of any length and number. The proofs lift the safety of
every module to every bound.

`CHECK_DEADLOCK FALSE` is set where the system may really stop, when every bounded
call has been made and nobody has anything left to send; `redials` has no such end
and is checked for deadlock.

### Fairness

Weak fairness, and only of steps the program or its environment does not choose:
tokio polls a ready task (opens, attaches, drivers, dials, teardowns), a timer fires, a
handshake ends within the retry window, a live peer reads, one that stopped is
started again (`sends`), the harness or framework settles a delivery it holds, a
handler returns, a delay ends. Nobody is obliged to publish, push, open, close, drop
a future, answer a request, fail or stop; in `Rpc` no connection has to take what is sent
and none that broke has to be noticed.

The attach lock `binding` is tokio's, a queue. The locks of the slots and of the
reply route are of the `futures` crate, which does not promise turns. With a bounded
number of calls a waiter is served all the same, since the others run out. In
`redials` they do not, and no fairness is assumed that the lock does not give: a stream
of publishes could keep the task that drops a dead socket out for ever. So
`DeadIsForgotten` has the premise that the lock comes to stay free, and `ReachesThePeer`
that no dead socket waits for its task all the time; with a peer that stays and
callers that keep publishing, one publish then reaches it.

`RequestsEnd` leaves out a request whose connection holds it back before it is sent:
the timeout covers the receive alone (`rpc.rs:1024`), and back-pressure may last.
`ReachesHolder` says nothing once any caller has dropped a future.

## 5. Proofs

All theorems are proved for every set of subscriptions, publishers and callers
and every bound, from the modules' named assumptions (`NamesAssumption`,
`KindAssumption`, `OutboxAssumption`, `DialedAssumption`, `RpcAssumption`,
`BusAssumption`, `BoundsAssumption`, `SendsAssumption`, `DeploymentsAssumption`): the
sets of names do not overlap, every caller has a publisher, a pipe and a channel have
room for something, a publisher is given a message, a peer sends at least one frame, and
services that run together have different names and number their mounts.

**BoundEndpoint** (`BoundEndpointProofs`): `TypeCorrect`, `Exclusion`,
`OneHolderAtATime`, `NobodyListensDeaf`, `NamesAreKept`, `KeepsTheLease`, all from
`Invariance`. None of them is inductive alone. That no publisher listens beside a
subscription needs `ListKept` (a socket that listens in a slot is on the list, or
on the list an opening subscription took away, and while a subscription holds the
lock the list is empty) and `JobsKept` (an attach that is about to install a
listening socket is recorded already, and no listener has been recorded since: the
lock keeps what it was aimed at valid). That names are kept needs `SlotsKept`: a
socket remembers the name of the subscription whose bind its connection reached,
and binds are never reused. The invariant says nothing of `detached` attaches;
that is where `dropped_attach` comes from, and why the theorems still hold: what a
dropped caller leaves behind is never installed in a slot. The refinement maps the
term to the bind, the listeners to the slots that listen; `BindSocket`, dropping a
subscription, installing and giving up are the four lease steps and all others
stutter.

**Outbox** (`OutboxProofs`): `TypeCorrect`, `NeverPanics` (the two `expect`s of the
code), `NamesItsOwn`, `KeepsItsPeer`, `TellsTheTruth`, from `Invariance`. The
strengthening is `HolderSends` (only the caller with the slot's mutex is past the
drain, so a send in flight is its own or parked) and `Untold` (a message number
not yet told has no outcome, and the one in flight has not left).

**DialedEndpoint** (`DialedProofs`): `RefusesTheLate`, `KeepsOneSocket`,
`WatchesItsSlot` and the action property `TakesItsOwn`, from `Invariance`. The
strengthening is `Guarded`: who attaches holds the lock, who dials has found the slot
empty and it stays so, one attach at a time waits for a dial and for one of its own, and
an event is that of a socket which has gone. Dials that nobody waits for are free in the
invariant: that one never comes into use is a property of steps (`ComesIntoUseNew`).

**Rpc** (`RpcProofs`): `HearsItsOwn`, `ImplementsExchange` and `AnswersReach`, from
`Invariance`. That a request hears its own answer is not inductive: `OwnDealer` adds
that what lies in a DEALER's inbox was made for the request of that DEALER (identities
are never reused), `RequestsMade` that responders and handlers hold only requests that
were made, `HeardIsOver` that a request in `heard` is not under way, `OneSender` that
one handler at a time has the reply lock, `BoundRoute` that on the bind side the open
responder is in the route. The refinement maps the begin of a request to `Ask`, a
receive that matches to `Hear`, every other end to `EndUnheard`, and the rest to
stuttering. `AnswersReach` assumes `Side = "bind"`; on the connect side it is what
`two_responders` refutes.

**Bus** (`BusProofs`): `CountIsExact`, `PlaceIsHeld`, `TakenByOne` and
`ForeignAskedOnce`, from `Safety`. The count is a number on one side and three kinds of
place on the other: a sender between enqueueing and the hand-over, a channel, a handler's
hands. `CountExact` compares it with the cardinality of what is there, so a step is exact
when what it takes from one place it adds to another; that needs `Once` (with one
subscription a message is once: in its channel, with a handler, or still to be handed
over) and `Finite`. `OnItsWay` says what a sender in the middle of a delivery has picked,
one subscription, and that nobody has taken that message yet. `Placed` orders the subscriptions by their ids, so that
a turn names one of them. On a fan-out that dials, several take a message by design, and
`OneTaker` leaves it out.

**Envelope** (`EnvelopeProofs`): `ReadsBack`, that a message an envelope does not refuse is
read from its frames as it was, whatever its name, its payload, and its headers, their
number and their length; and `RefusedIsLost`, that one it refuses, and whose headers hold
no carriage return, would have come out as another message or as an error. So the checks
before a publish are strong enough, and only for a carriage return stricter than their
reason. The argument follows the reader: the lines of a
text that was joined from lines without a line feed are those lines (`Lines` marks each by
where it starts, so the proof is arithmetic over the positions); the first colon of a line
`name: value` ends its name, since the name has none; trimming takes the blank of the
separator and nothing else from a text without blanks at its ends; and distinct names give
distinct entries, so that the last of a name is the only one. `FlattenSeq` is a recursive
function, and its value for a number of lines is had by induction over that number: the
set of the numbers for which the claim holds contains each next one, and a set that left
one out would have a least outside, by the well-foundedness of `<` (the induction theorem
itself takes an operator and cannot be used).

**Delivery** (`DeliveryProofs`): `KeepsOrder`, for any envelope, traffic and room:
while the subscription is open, what was handed over, the channel, the driver's
message and the pipe are, end to end, the log of what was sent (`InOrder`). That proof
uses only that `Received`, `Read` and `Seen` are functions of their arguments, so what
an envelope does with one message cannot disturb another. `SeenAsSent` and
`RefusedWithReason` add what it does with each: `OnlyFit` (nothing that its envelope
refuses is in the log) and `OnlyUnfit` (nothing else was refused) are the guards of a
publish as invariants, and with the order they reduce both claims to `ReadsBack`,
`RefusedIsLost` and, for the frames of a peer that no publisher checked, `PeerOpens`.

**Services** (`ServicesProofs`): what the declarations of services say of every run of
them, for any services, any number of messages and any patience. `StartsSafety` has the
hypothesis `RefusedAsSaid`, `RefusedSafety` has `Addressed`, `CapSafety` and
`CopiesSafety` have `LeadHome`, `DeadSafety` has `LeadHome` and `Parked`; each is a
condition on what is declared, and `WellMade` says that all the services of the examples
and tests meet it. What the proofs bridge is that a declaration is judged with everything
open, or with one mount open, while a run has any part of it open. A publisher that
refuses with some subscriptions open refuses with more (`StillRefused`), what is open is
never more than what a start can come to (`OpensNext`), and the mount that a copy leaves
is still open, since a stop takes what it held (`Placed`, part of `Base`). So each step of
a message is one of eight (`JobStep`), and the rest is about one message: `OnItsWay` has
that before its end it is at a mount like the one where it came in, that the count a copy
carries is the number of its deliveries and below the cap, and that a dead letter is at a
mount that retries nothing, which is why it cannot come back; `InItsPlace` has where it
is and how it may end; `RefusedThere` who may see a refusal. For the start, a mount that
is refused in its turn is one no start could open (`RefusedIsNotServed`): the mount that
holds the endpoint must be an earlier one, or it would not be open itself.

Model-checked only: every liveness property (liveness under fairness and ENABLED are
beyond the prover); that services are well made, and that their two forms agree, which are
facts about the services at hand; and the claims the violation runs refute.

## 6. Where the code and its documentation part

* `stale_name`: on the bind side a slot attached to a subscription that has closed
  keeps its socket and the name it remembers. When another subscription binds, a
  publish under the new name is refused in favour of the old one, which
  `queue.rs:659-662` says is sent. (A fan-out has no name check and loses such
  messages without an error; `ReachesHolder` leaves those slots out.)
* `rebind`: `docs/architecture/lifecycle.md:60-61` says a dropped subscription
  frees the address at that moment; the socket goes later, with its task.
* `dropped_attach`: `common.rs:90-92` says an opening subscription finds every
  listening publisher on the list; one whose caller was dropped during the attach
  listens for a moment without being on it.
* `two_responders`: on the connect side a second responder takes the reply route
  from the first, whose answers are then refused. The comment at `rpc.rs:278-279`,
  that the route is empty between two responders, is not what happens either:
  nothing empties it, and an answer in between fails on a ROUTER that is closed.

Seen and left without a run: a lone `\r` in a header is refused (`frames.rs:129`) though
the reader would keep it, while the comment above the check (`frames.rs:121-123`) says
that any line break would reach the receiver as another header; the comment "attaches run
one at a time under this lock" (`queue.rs:816`, `fanout.rs:579`) holds of the publishes
that attach and not of the dials, one of which goes on when its publish is dropped; a
request's timeout does not cover its send (`rpc.rs:1009`, `1024`); an injected message whose only subscription closed before it was
handed over leaves its foreign peer in the transport's table, to no effect; the
in-process transport routes an answer by the identity alone, so unlike the sockets
it answers through whichever responder is there.

`zmq_asyncapi`, in both forms, mounts a responder without a destination for its
copies: the service would be refused if it ran, but it is there for the document it
prints (`docs/components/asyncapi/index.md:34`). It is listed in `Refusing`.

## 7. Not modelled

The parsing of addresses, AsyncAPI descriptions, error wording and logging (except
under whose name a failure is logged), the codecs' bytes, benchmarks and the website;
settlements, which on ZeroMQ report that they are unsupported and change nothing; the
ZeroMQ library beyond what the code relies on; conflicts with other processes over an
address; the order between several peers of one socket. Of the framework only what
`Services` says of it: its reports, metrics and test driver are left out, and so is
what the handlers of the examples compute. Of the tests, those that drive a broker
directly are not modelled as such: what they expect is stated as properties of the
modules.

Two hazards have no property, and `PROJECT.json` says why: a fan-out publisher left
on a subscription that has closed (`fanout.rs:676`), and a dial that is recorded
before its open has returned (`common.rs:263`).
