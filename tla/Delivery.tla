------------------------------ MODULE Delivery ------------------------------
(***************************************************************************)
(* A subscription at work: messages published through an envelope, or sent *)
(* by peers in other languages, wait in the socket, the driver task reads  *)
(* them one at a time, opens each through the envelope and hands it to a   *)
(* bounded channel, and the handler takes them and looks at their headers. *)
(*                                                                         *)
(* One sender and one subscription of one broker; the three patterns and   *)
(* the four envelopes are values of `form`, so that a run has them all.    *)
(***************************************************************************)
EXTENDS Envelope

CONSTANTS
  ReadAhead,   \* the messages the driver's channel holds
  Room,        \* the messages the two sockets' pipe holds
  Traffics     \* the sequences of sends to consider

Sends == UNION {Range(sends) : sends \in Traffics}

\* A send is a publish of this crate, the frames of another peer, or a
\* failure of the socket, which its next receive reports.
IsPublish(send) == send.by = "crate"
IsFailure(send) == send.by = "failure"

ASSUME BoundsAssumption ==
  /\ ReadAhead \in Nat \ {0}
  /\ Room \in Nat \ {0}
  /\ Traffics \subseteq Seq(Sends)

\* A publisher is given a message, a peer sends one frame at least.
ASSUME SendsAssumption ==
  \A send \in Sends :
    /\ IsPublish(send) => IsMessage(send.message)
    /\ ~IsPublish(send) /\ ~IsFailure(send) =>
         send.frames \in Seq(Range(send.frames)) /\ send.frames # <<>>

VARIABLES
  form,          \* the envelope and the pattern of the broker
  traffic,       \* what is still to be sent
  wire,          \* what the socket will receive, in order
  subscription,  \* "open" or "dropped"
  driver,        \* "running" or "gone", with the socket it owns
  inHand,        \* the item the driver waits to hand over, at most one
  channel,       \* the items the handler has not taken
  handed,        \* the items the handler took, as it saw them
  log,           \* the sends that entered the pipe, in order (history)
  refused        \* the publishes the envelope refused (history)

vars == <<form, traffic, wire, subscription, driver, inHand, channel, handed, log, refused>>

\* The header a request's delivery carries beside those of its envelope.
ReplyTo == <<"r">>

-----------------------------------------------------------------------------
(* The driver's view of what it receives *)

\* A ROUTER puts the peer's identity in front; read_request takes it off again.
Received(f, send) ==
  LET frames == IF IsPublish(send) THEN Layout(f.env, f.pattern, send.message)
                                   ELSE send.frames
  IN  IF IsFailure(send) THEN <<>>
      ELSE (IF f.pattern = "DealerRouter" THEN << [peer |-> send.peer] >> ELSE <<>>) \o frames

\* envelope::read, behind read_request on a ROUTER, which keeps the identity.
Read(f, frames) ==
  IF frames = <<>> THEN WireError
  ELSE IF f.pattern = "DealerRouter"
       THEN LET opened == Open(f.env, f.pattern, Tail(frames))
            IN  IF opened.ok THEN [ok      |-> TRUE,
                                   name    |-> opened.name,
                                   head    |-> opened.head,
                                   payload |-> opened.payload,
                                   peer    |-> frames[1].peer] ELSE opened
       ELSE Open(f.env, f.pattern, frames)

\* The headers of a request: `reply-to` is set to the address of the peer that
\* asked, whatever the envelope says of it.
Stamped(headers, peer) ==
  [n \in DOMAIN headers \cup {ReplyTo} |-> IF n = ReplyTo THEN peer ELSE headers[n]]

\* A faulty form: the envelope's own `reply-to` wins over the stamp.
SeenHeadersUnder(f, item) ==
  LET read == Headers(f.env, item.head)
  IN  IF f.pattern = "DealerRouter"
      THEN [n \in DOMAIN read \cup {ReplyTo} |-> IF n \in DOMAIN read THEN read[n] ELSE item.peer]
      ELSE read

\* The headers a handler sees.
SeenHeaders(f, item) ==
  LET read == Headers(f.env, item.head)
  IN  IF f.pattern = "DealerRouter" THEN Stamped(read, item.peer) ELSE read

\* An item as its handler sees it; an error of the stream has nothing in it.
Seen(f, item) ==
  IF item.ok THEN [ok |-> TRUE, name |-> item.name,
                   headers |-> SeenHeaders(f, item), payload |-> item.payload]
             ELSE item

-----------------------------------------------------------------------------
Init ==
  /\ form \in [env : Envelopes, pattern : Patterns]
  /\ traffic \in Traffics
  /\ wire = <<>> /\ inHand = <<>> /\ channel = <<>>
  /\ handed = <<>> /\ log = <<>> /\ refused = {}
  /\ subscription = "open" /\ driver = "running"

\* A publish whose message the envelope refuses sends nothing.
Refuse ==
  /\ traffic # <<>> /\ IsPublish(Head(traffic))
  /\ Refuses(form.env, Head(traffic).message)
  /\ refused' = refused \cup {Head(traffic).message}
  /\ traffic' = Tail(traffic)
  /\ UNCHANGED <<form, wire, subscription, driver, inHand, channel, handed, log>>

\* A message enters the pipe.  While the pipe is full a PUSH or a DEALER waits.
Send ==
  /\ traffic # <<>> /\ driver = "running" /\ Len(wire) < Room
  /\ ~(IsPublish(Head(traffic)) /\ Refuses(form.env, Head(traffic).message))
  /\ wire' = Append(wire, Received(form, Head(traffic)))
  /\ log' = Append(log, Head(traffic))
  /\ traffic' = Tail(traffic)
  /\ UNCHANGED <<form, subscription, driver, inHand, channel, handed, refused>>

\* A PUB socket does not wait: a message for a full or an absent peer is dropped.
Lose ==
  /\ traffic # <<>> /\ form.pattern = "PubSub"
  /\ driver = "gone" \/ Len(wire) = Room
  /\ traffic' = Tail(traffic)
  /\ UNCHANGED <<form, wire, subscription, driver, inHand, channel, handed, log, refused>>

\* socket.recv returns: the driver opens what it got, or passes the failure on.
Receive ==
  /\ driver = "running" /\ inHand = <<>> /\ wire # <<>>
  /\ inHand' = << Read(form, Head(wire)) >>
  /\ wire' = Tail(wire)
  /\ UNCHANGED <<form, traffic, subscription, driver, channel, handed, log, refused>>

\* Faulty forms: a channel without a bound; a driver that an error ends.
HandOverUnbounded ==
  /\ driver = "running" /\ inHand # <<>>
  /\ inHand' = <<>>
  /\ IF subscription = "open"
     THEN /\ channel' = channel \o inHand
          /\ UNCHANGED <<driver, wire>>
     ELSE /\ driver' = "gone" /\ wire' = <<>>
          /\ UNCHANGED channel
  /\ UNCHANGED <<form, traffic, subscription, handed, log, refused>>

HandOverStopping ==
  /\ driver = "running" /\ inHand # <<>>
  /\ subscription = "open" => Len(channel) < ReadAhead
  /\ inHand' = <<>>
  /\ IF subscription = "open"
     THEN channel' = channel \o inHand
     ELSE UNCHANGED channel
  /\ IF subscription = "open" /\ inHand[1].ok
     THEN UNCHANGED <<driver, wire>>
     ELSE driver' = "gone" /\ wire' = <<>>
  /\ UNCHANGED <<form, traffic, subscription, handed, log, refused>>

\* tx.send: waits while the channel is full, and ends the driver once the
\* handler's end of it is gone.
HandOver ==
  /\ driver = "running" /\ inHand # <<>>
  /\ subscription = "open" => Len(channel) < ReadAhead
  /\ inHand' = <<>>
  /\ IF subscription = "open"
     THEN /\ channel' = channel \o inHand
          /\ UNCHANGED <<driver, wire>>
     ELSE /\ driver' = "gone" /\ wire' = <<>>
          /\ UNCHANGED channel
  /\ UNCHANGED <<form, traffic, subscription, handed, log, refused>>

\* The handler takes the next item of its stream.
Take ==
  /\ subscription = "open" /\ channel # <<>>
  /\ handed' = Append(handed, Seen(form, Head(channel)))
  /\ channel' = Tail(channel)
  /\ UNCHANGED <<form, traffic, wire, subscription, driver, inHand, log, refused>>

\* WireSubscriber is dropped: its receiver with what it holds, and its handle,
\* which aborts the driver; the task is dropped when it is next run.
DropSubscription ==
  /\ subscription = "open"
  /\ subscription' = "dropped"
  /\ channel' = <<>>
  /\ UNCHANGED <<form, traffic, wire, driver, inHand, handed, log, refused>>

Abort ==
  /\ subscription = "dropped" /\ driver = "running"
  /\ driver' = "gone" /\ inHand' = <<>> /\ wire' = <<>>
  /\ UNCHANGED <<form, traffic, subscription, channel, handed, log, refused>>

Next ==
  \/ Refuse \/ Send \/ Lose
  \/ Receive \/ HandOver \/ Take
  \/ DropSubscription \/ Abort

\* The sockets deliver, tokio polls the driver and the handler keeps taking.
\* Nobody has to drop the subscription or to send.
Fairness ==
  /\ WF_vars(Receive) /\ WF_vars(HandOver) /\ WF_vars(Take) /\ WF_vars(Abort)

Spec == Init /\ [][Next]_vars
FairSpec == Spec /\ Fairness

-----------------------------------------------------------------------------
(* Properties *)

\* The channel never holds more than its read-ahead, the driver at most one
\* message beside it, and the pipe no more than it takes: a handler slower than
\* the wire slows the wire down.
TypeOK ==
  /\ form \in [env : Envelopes, pattern : Patterns]
  /\ subscription \in {"open", "dropped"} /\ driver \in {"running", "gone"}
  /\ Len(wire) <= Room /\ Len(inHand) <= 1 /\ Len(channel) <= ReadAhead
  /\ driver = "gone" => wire = <<>> /\ inHand = <<>>

\* Whatever entered the pipe is on its way, in order and none of it twice: read
\* by the handler, in the channel, with the driver or still in the socket.
InOrder ==
  LET behind == Len(handed) + Len(channel)  ahead == behind + Len(inHand) IN
  /\ Len(handed) <= Len(log)
  /\ \A k \in 1..Len(handed) : handed[k] = Seen(form, Read(form, Received(form, log[k])))
  /\ subscription = "open" =>
       /\ driver = "running" /\ Len(log) = ahead + Len(wire)
       /\ \A k \in 1..Len(channel) :
            channel[k] = Read(form, Received(form, log[Len(handed) + k]))
       /\ \A k \in 1..Len(inHand) : inHand[k] = Read(form, Received(form, log[behind + k]))
       /\ \A k \in 1..Len(wire) : wire[k] = Received(form, log[ahead + k])

Inv == TypeOK /\ InOrder

\* The message a publish means on this broker: all of it, but the name where
\* the layout has no frame for one, with the sender's address on a request.
Meant(send) ==
  [ok      |-> TRUE,
   name    |-> IF form.env = "noop" /\ form.pattern # "PubSub" THEN <<>> ELSE send.message.name,
   headers |-> IF form.pattern = "DealerRouter"
               THEN Stamped(send.message.headers, send.peer) ELSE send.message.headers,
   payload |-> send.message.payload]

\* What a handler may see of a peer's frames: an error for a message of more
\* frames than the layout has or a name that is not text, else its last
\* frame's payload, on a request with the address of the peer that asked, and
\* no header out of a header frame that is not text.
PeerSeen(send, item) ==
  LET most == CASE form.env = "frames" -> 3
                [] form.env = "noop" /\ form.pattern # "PubSub" -> 1
                [] OTHER -> 2
      last == send.frames[Len(send.frames)]
  IN  /\ item.ok <=> /\ Len(send.frames) <= most
                     /\ Len(send.frames) > 1 => IsText(send.frames[1].text)
      /\ item.ok => /\ item.payload = last \/ ("doc" \in DOMAIN last /\ form.env \notin {"frames", "noop"})
                    /\ form.pattern = "DealerRouter" => item.headers[ReplyTo] = send.peer
                    /\ Len(send.frames) = 3 /\ ~IsText(send.frames[2].text)
                         => DOMAIN item.headers \subseteq {ReplyTo}

\* What the handler has seen is, in order and without a gap, what entered the
\* pipe: a publish of this crate reads back as the very message that was
\* published, and a message no handler can read is an error in its own place
\* which takes nothing with it (the drivers of queue, fan-out and
\* request-reply with the envelopes around them).
DeliveredAsSent ==
  /\ Len(handed) <= Len(log)
  /\ \A k \in DOMAIN handed :
       CASE IsPublish(log[k]) -> handed[k] = Meant(log[k])
         [] IsFailure(log[k]) -> handed[k] = WireError
         [] OTHER             -> PeerSeen(log[k], handed[k])

\* A publish is refused only where the message, written all the same, would
\* reach its handler as another message, or where a header of it holds a
\* carriage return: the one thing refused whether its line reads back or not
\* (the checks of the three seal).
RefusesWithReason ==
  \A message \in refused :
    \/ HoldsReturn(form.env, message)
    \/ LET read == Open(form.env, form.pattern, Layout(form.env, form.pattern, message))
       IN  ~read.ok \/ Headers(form.env, read.head) # message.headers

\* While the subscription stays open everything that entered the pipe reaches
\* the handler, malformed messages and failures of the socket included: none of
\* them ends the driver.
DeliveredAll ==
  \A n \in 1..(Room + ReadAhead + 2) :
    Len(log) >= n ~> (Len(handed) >= n \/ subscription = "dropped")
=============================================================================
