--------------------------- MODULE DeliveryProofs ---------------------------
(***************************************************************************)
(* Proofs about Delivery, for every envelope, pattern and traffic and any  *)
(* room in the pipe and the channel.  First, that what the handler has     *)
(* read is what entered the pipe, each message opened on its own, in order *)
(* and once; Received, Read and Seen stand there for whatever they do.     *)
(* Then, with what EnvelopeProofs shows of the envelopes, that it is what  *)
(* was published, and that only what could not be read was refused.        *)
(***************************************************************************)
EXTENDS Delivery, EnvelopeProofs

USE BoundsAssumption

\* The sequences a subscription is made of, as the provers have to know them.
Frames == {Received(form, send) : send \in Sends}
Items  == {Read(form, frames) : frames \in Frames}
Sequences ==
  /\ traffic \in Seq(Sends) /\ log \in Seq(Sends)
  /\ wire \in Seq(Frames) /\ inHand \in Seq(Items) /\ channel \in Seq(Items)
  /\ handed \in Seq({Seen(form, item) : item \in Items})

IInv == Sequences /\ TypeOK /\ InOrder

\* Before anything is sent, the invariant holds.
LEMMA InitInv == Init => IInv
<1> SUFFICES ASSUME Init PROVE IInv
  OBVIOUS
<1>1. Len(<<>>) = 0
  OBVIOUS
<1>2. Sequences
  BY DEF Init, Sequences
<1>3. TypeOK /\ InOrder
  BY <1>1 DEF Init, TypeOK, InOrder
<1> QED BY <1>2, <1>3 DEF IInv

\* The broker's pattern and envelope do not change, and with them what is read.
LEMMA FormKept ==
  ASSUME UNCHANGED form
  PROVE  Frames' = Frames /\ Items' = Items
BY DEF Frames, Items

\* A send adds what it sent to the log and to the wire alike.
LEMMA SendStep ==
  ASSUME IInv, Send
  PROVE  IInv'
<1> DEFINE s == Head(traffic)
<1>1. /\ traffic # <<>> /\ driver = "running" /\ Len(wire) < Room
      /\ wire' = Append(wire, Received(form, s)) /\ log' = Append(log, s)
      /\ traffic' = Tail(traffic)
      /\ UNCHANGED <<form, subscription, driver, inHand, channel, handed>>
  BY DEF Send
<1>2. /\ traffic \in Seq(Sends) /\ log \in Seq(Sends) /\ wire \in Seq(Frames)
      /\ inHand \in Seq(Items) /\ channel \in Seq(Items) /\ Len(handed) \in Nat
  BY DEF IInv, Sequences
<1>3. s \in Sends /\ traffic' \in Seq(Sends)
  BY <1>1, <1>2
<1> HIDE DEF s
<1>4. Received(form, s) \in Frames
  BY <1>3 DEF Frames
<1>5. Frames' = Frames /\ Items' = Items /\ form' = form
  BY <1>1, FormKept
<1>6. /\ wire' \in Seq(Frames) /\ Len(wire') = Len(wire) + 1
      /\ wire'[Len(wire) + 1] = Received(form, s)
      /\ \A k \in 1..Len(wire) : wire'[k] = wire[k]
  BY <1>1, <1>2, <1>4
<1>7. /\ log' \in Seq(Sends) /\ Len(log') = Len(log) + 1 /\ log'[Len(log) + 1] = s
      /\ \A k \in 1..Len(log) : log'[k] = log[k]
  BY <1>1, <1>2, <1>3
<1>8. Sequences'
  BY <1>1, <1>3, <1>5, <1>6, <1>7 DEF IInv, Sequences
<1>9. TypeOK'
  BY <1>1, <1>2, <1>6 DEF IInv, TypeOK
<1>10. InOrder'
  <2>1. /\ Len(handed) <= Len(log)
        /\ \A k \in 1..Len(handed) : handed[k] = Seen(form, Read(form, Received(form, log[k])))
    BY DEF IInv, InOrder
  <2>2. /\ Len(handed') <= Len(log')
        /\ \A k \in 1..Len(handed) : log'[k] = log[k]
    BY <1>1, <1>2, <1>7, <2>1
  <2>3. ASSUME subscription = "open"
        PROVE  /\ driver = "running"
               /\ Len(log) = Len(handed) + Len(channel) + Len(inHand) + Len(wire)
               /\ \A k \in 1..Len(channel) :
                    channel[k] = Read(form, Received(form, log[Len(handed) + k]))
               /\ \A k \in 1..Len(inHand) :
                    inHand[k] = Read(form, Received(form, log[Len(handed) + Len(channel) + k]))
               /\ \A k \in 1..Len(wire) :
                    wire[k] = Received(form, log[Len(handed) + Len(channel) + Len(inHand) + k])
    BY <2>3 DEF IInv, InOrder
  <2>4. ASSUME subscription = "open"
        PROVE  /\ \A k \in 1..Len(channel) : log'[Len(handed) + k] = log[Len(handed) + k]
               /\ \A k \in 1..Len(inHand) : log'[Len(handed) + Len(channel) + k]
                                             = log[Len(handed) + Len(channel) + k]
               /\ \A k \in 1..Len(wire) : log'[Len(handed) + Len(channel) + Len(inHand) + k]
                                           = log[Len(handed) + Len(channel) + Len(inHand) + k]
    <3>1. Len(log) = Len(handed) + Len(channel) + Len(inHand) + Len(wire)
      BY <2>3, <2>4
    <3>2. /\ Len(channel) \in Nat /\ Len(inHand) \in Nat /\ Len(wire) \in Nat
          /\ Len(handed) \in Nat
      BY <1>2
    <3> QED BY <1>7, <3>1, <3>2
  <2>5. ASSUME subscription = "open"
        PROVE  \A k \in 1..Len(wire') : wire'[k]
                 = Received(form, log'[Len(handed) + Len(channel) + Len(inHand) + k])
    <3> SUFFICES ASSUME NEW k \in 1..Len(wire')
                 PROVE  wire'[k]
                        = Received(form, log'[Len(handed) + Len(channel) + Len(inHand) + k])
      OBVIOUS
    <3>1. CASE k \in 1..Len(wire)
      BY <1>6, <2>3, <2>4, <2>5, <3>1
    <3>2. CASE k = Len(wire) + 1
      <4>1. Len(handed) + Len(channel) + Len(inHand) + k = Len(log) + 1
        BY <1>2, <2>3, <2>5, <3>2
      <4> QED BY <1>6, <1>7, <3>2, <4>1
    <3> QED BY <1>2, <1>6, <3>1, <3>2
  <2>6. ASSUME subscription = "open"
        PROVE  Len(log') = Len(handed) + Len(channel) + Len(inHand) + Len(wire')
    <3>1. Len(log) = Len(handed) + Len(channel) + Len(inHand) + Len(wire)
      BY <2>3, <2>6
    <3>2. /\ Len(channel) \in Nat /\ Len(inHand) \in Nat /\ Len(wire) \in Nat
          /\ Len(handed) \in Nat
      BY <1>2
    <3>3. Len(log') = Len(log) + 1 /\ Len(wire') = Len(wire) + 1
      BY <1>6, <1>7
    <3> QED BY <3>1, <3>2, <3>3
  <2> QED BY <1>1, <2>1, <2>2, <2>3, <2>4, <2>5, <2>6 DEF InOrder
<1> QED BY <1>8, <1>9, <1>10 DEF IInv

\* The driver takes the first message out of the socket and opens it.
LEMMA ReceiveStep ==
  ASSUME IInv, Receive
  PROVE  IInv'
<1> DEFINE w == Head(wire)
<1>1. /\ driver = "running" /\ inHand = <<>> /\ wire # <<>>
      /\ inHand' = << Read(form, w) >> /\ wire' = Tail(wire)
      /\ UNCHANGED <<form, traffic, subscription, driver, channel, handed, log>>
  BY DEF Receive
<1>2. /\ wire \in Seq(Frames) /\ channel \in Seq(Items) /\ Len(handed) \in Nat
      /\ Len(channel) \in Nat /\ Len(inHand) = 0 /\ Len(wire) \in Nat \ {0}
  BY <1>1 DEF IInv, Sequences
<1>3. w \in Frames /\ w = wire[1]
  BY <1>1, <1>2
<1> HIDE DEF w
<1>4. Read(form, w) \in Items
  BY <1>3 DEF Items
<1>5. Frames' = Frames /\ Items' = Items /\ form' = form
  BY <1>1, FormKept
<1>6. /\ wire' \in Seq(Frames) /\ Len(wire') = Len(wire) - 1
      /\ \A k \in 1..Len(wire') : wire'[k] = wire[k + 1]
  BY <1>1, <1>2
<1>7. inHand' \in Seq(Items) /\ Len(inHand') = 1 /\ inHand'[1] = Read(form, w)
  BY <1>1, <1>4
<1>8. Sequences'
  BY <1>1, <1>5, <1>6, <1>7 DEF IInv, Sequences
<1>9. TypeOK'
  BY <1>1, <1>2, <1>6, <1>7 DEF IInv, TypeOK
<1>10. InOrder'
  <2>1. ASSUME subscription = "open"
        PROVE  /\ Len(log) = Len(handed) + Len(channel) + Len(wire)
               /\ \A k \in 1..Len(wire) :
                    wire[k] = Received(form, log[Len(handed) + Len(channel) + k])
    <3>1. /\ Len(log) = Len(handed) + Len(channel) + Len(inHand) + Len(wire)
          /\ \A k \in 1..Len(wire) :
               wire[k] = Received(form, log[Len(handed) + Len(channel) + Len(inHand) + k])
      BY <2>1 DEF IInv, InOrder
    <3>2. Len(handed) + Len(channel) + Len(inHand) = Len(handed) + Len(channel)
      BY <1>2
    <3> QED BY <3>1, <3>2
  <2>2. ASSUME subscription = "open"
        PROVE  Len(log) = Len(handed) + Len(channel) + Len(inHand') + Len(wire')
    <3>1. Len(log) = Len(handed) + Len(channel) + Len(wire)
      BY <2>1, <2>2
    <3> QED BY <1>2, <1>6, <1>7, <3>1
  <2>3. ASSUME subscription = "open", NEW k \in 1..Len(inHand')
        PROVE  inHand'[k] = Read(form, Received(form, log[Len(handed) + Len(channel) + k]))
    <3>1. k = 1 /\ 1 \in 1..Len(wire)
      BY <1>2, <1>7
    <3> QED BY <1>3, <1>7, <2>1, <2>3, <3>1
  <2>4. ASSUME subscription = "open", NEW k \in 1..Len(wire')
        PROVE  wire'[k] = Received(form, log[Len(handed) + Len(channel) + Len(inHand') + k])
    <3>1. k + 1 \in 1..Len(wire) /\ wire'[k] = wire[k + 1]
      BY <1>2, <1>6
    <3>2. Len(handed) + Len(channel) + (k + 1) = Len(handed) + Len(channel) + Len(inHand') + k
      BY <1>2, <1>7
    <3> QED BY <2>1, <2>4, <3>1, <3>2
  <2>5. /\ Len(handed) <= Len(log)
        /\ \A k \in 1..Len(handed) : handed[k] = Seen(form, Read(form, Received(form, log[k])))
        /\ subscription = "open" => \A k \in 1..Len(channel) :
             channel[k] = Read(form, Received(form, log[Len(handed) + k]))
    BY DEF IInv, InOrder
  <2> QED BY <1>1, <2>2, <2>3, <2>4, <2>5 DEF InOrder
<1> QED BY <1>8, <1>9, <1>10 DEF IInv

\* The driver hands over what it holds, or ends because nobody takes it.
LEMMA HandOverStep ==
  ASSUME IInv, HandOver
  PROVE  IInv'
<1>1. /\ driver = "running" /\ inHand # <<>> /\ inHand' = <<>>
      /\ UNCHANGED <<form, traffic, subscription, handed, log>>
  BY DEF HandOver
<1>2. /\ inHand \in Seq(Items) /\ channel \in Seq(Items) /\ Len(inHand) = 1
      /\ Len(handed) \in Nat /\ Len(channel) \in Nat /\ Len(wire) \in Nat
  <2>1. /\ inHand \in Seq(Items) /\ channel \in Seq(Items) /\ Len(inHand) <= 1
        /\ Len(handed) \in Nat /\ Len(channel) \in Nat /\ Len(wire) \in Nat
    BY DEF IInv, Sequences, TypeOK
  <2>2. Len(inHand) > 0 /\ Len(inHand) \in Nat
    BY <1>1, <2>1
  <2>3. \A n \in Nat : n > 0 /\ n <= 1 => n = 1
    OBVIOUS
  <2> QED BY <2>1, <2>2, <2>3
<1>3. Frames' = Frames /\ Items' = Items /\ form' = form
  BY <1>1, FormKept
<1>4. inHand' \in Seq(Items) /\ Len(inHand') = 0
  BY <1>1
<1>5. CASE subscription = "open"
  <2>1. /\ Len(channel) < ReadAhead /\ channel' = channel \o inHand
        /\ UNCHANGED <<driver, wire>>
    BY <1>5 DEF HandOver
  <2>2. /\ channel' \in Seq(Items) /\ Len(channel') = Len(channel) + 1
        /\ channel'[Len(channel) + 1] = inHand[1]
        /\ \A k \in 1..Len(channel) : channel'[k] = channel[k]
    <3>1. /\ channel' \in Seq(Items) /\ Len(channel') = Len(channel) + Len(inHand)
          /\ \A k \in 1..Len(channel) + Len(inHand) : channel'[k] =
               IF k <= Len(channel) THEN channel[k] ELSE inHand[k - Len(channel)]
      BY <1>2, <2>1, ConcatProperties
    <3> QED BY <1>2, <3>1
  <2>3. Sequences'
    BY <1>1, <1>3, <1>4, <2>1, <2>2 DEF IInv, Sequences
  <2>4. TypeOK'
    BY <1>1, <1>2, <1>4, <2>1, <2>2 DEF IInv, TypeOK
  <2>5. InOrder'
    <3>1. /\ Len(log) = Len(handed) + Len(channel) + Len(inHand) + Len(wire)
          /\ \A k \in 1..Len(channel) :
               channel[k] = Read(form, Received(form, log[Len(handed) + k]))
          /\ \A k \in 1..Len(inHand) :
               inHand[k] = Read(form, Received(form, log[Len(handed) + Len(channel) + k]))
          /\ \A k \in 1..Len(wire) :
               wire[k] = Received(form, log[Len(handed) + Len(channel) + Len(inHand) + k])
      BY <1>5 DEF IInv, InOrder
    <3>2. Len(log) = Len(handed) + Len(channel') + Len(inHand') + Len(wire)
      BY <1>2, <1>4, <2>2, <3>1
    <3>3. ASSUME NEW k \in 1..Len(channel')
          PROVE  channel'[k] = Read(form, Received(form, log[Len(handed) + k]))
      <4>1. CASE k \in 1..Len(channel)
        BY <2>2, <3>1, <4>1
      <4>2. CASE k = Len(channel) + 1
        <5>1. inHand[1] = Read(form, Received(form, log[Len(handed) + Len(channel) + 1]))
          BY <1>2, <3>1
        <5>2. Len(handed) + k = Len(handed) + Len(channel) + 1
          BY <1>2, <4>2
        <5> QED BY <2>2, <4>2, <5>1, <5>2
      <4> QED BY <1>2, <2>2, <4>1, <4>2
    <3>4. Len(handed) + Len(channel') + Len(inHand') = Len(handed) + Len(channel) + Len(inHand)
      BY <1>2, <1>4, <2>2
    <3>5. 1..Len(inHand') = {}
      BY <1>4
    <3>6. \A k \in 1..Len(wire) :
            wire[k] = Received(form, log[Len(handed) + Len(channel') + Len(inHand') + k])
      BY <3>1, <3>4
    <3>7. /\ Len(handed) <= Len(log) /\ driver = "running"
          /\ \A k \in 1..Len(handed) : handed[k] = Seen(form, Read(form, Received(form, log[k])))
      BY <1>1 DEF IInv, InOrder
    <3> QED BY <1>1, <2>1, <3>2, <3>3, <3>5, <3>6, <3>7 DEF InOrder
  <2> QED BY <2>3, <2>4, <2>5 DEF IInv
<1>6. CASE subscription # "open"
  <2>1. driver' = "gone" /\ wire' = <<>> /\ channel' = channel
    BY <1>6 DEF HandOver
  <2>2. Len(wire') = 0 /\ wire' \in Seq(Frames)
    BY <2>1
  <2> QED BY <1>1, <1>3, <1>4, <1>6, <2>1, <2>2 DEF IInv, Sequences, TypeOK, InOrder
<1> QED BY <1>5, <1>6

\* The handler takes the next item, and sees it as it was opened.
LEMMA TakeStep ==
  ASSUME IInv, Take
  PROVE  IInv'
<1> DEFINE i == Head(channel)
<1>1. /\ subscription = "open" /\ channel # <<>>
      /\ handed' = Append(handed, Seen(form, i)) /\ channel' = Tail(channel)
      /\ UNCHANGED <<form, traffic, wire, subscription, driver, inHand, log>>
  BY DEF Take
<1>2. /\ channel \in Seq(Items) /\ handed \in Seq({Seen(form, item) : item \in Items})
      /\ Len(handed) \in Nat /\ Len(channel) \in Nat /\ Len(inHand) \in Nat /\ Len(wire) \in Nat
  BY DEF IInv, Sequences
<1>3. Len(channel) > 0 /\ i \in Items /\ i = channel[1]
  BY <1>1, <1>2
<1> HIDE DEF i
<1>4. Frames' = Frames /\ Items' = Items /\ form' = form
  BY <1>1, FormKept
<1>5. /\ channel' \in Seq(Items) /\ Len(channel') = Len(channel) - 1
      /\ \A k \in 1..Len(channel') : channel'[k] = channel[k + 1]
  BY <1>1, <1>2
<1>6. Seen(form, i) \in {Seen(form, item) : item \in Items}
  BY <1>3
<1>7. /\ handed' \in Seq({Seen(form, item) : item \in Items})
      /\ Len(handed') = Len(handed) + 1 /\ handed'[Len(handed) + 1] = Seen(form, i)
      /\ \A k \in 1..Len(handed) : handed'[k] = handed[k]
  BY <1>1, <1>2, <1>6
<1>8. Sequences'
  BY <1>1, <1>4, <1>5, <1>7 DEF IInv, Sequences
<1>9. TypeOK'
  BY <1>1, <1>2, <1>5 DEF IInv, TypeOK
<1>10. InOrder'
  <2>1. /\ driver = "running"
        /\ Len(log) = Len(handed) + Len(channel) + Len(inHand) + Len(wire)
        /\ \A k \in 1..Len(handed) : handed[k] = Seen(form, Read(form, Received(form, log[k])))
        /\ \A k \in 1..Len(channel) :
             channel[k] = Read(form, Received(form, log[Len(handed) + k]))
    BY <1>1 DEF IInv, InOrder
  <2>2. Len(handed') + Len(channel') = Len(handed) + Len(channel)
    BY <1>2, <1>5, <1>7
  <2>3. /\ Len(log) = Len(handed') + Len(channel') + Len(inHand) + Len(wire)
        /\ Len(handed') <= Len(log)
    <3>1. Len(log) = Len(handed) + Len(channel) + Len(inHand) + Len(wire)
      BY <2>1
    <3> QED BY <1>2, <1>3, <1>5, <1>7, <3>1
  <2>4. ASSUME NEW k \in 1..Len(handed')
        PROVE  handed'[k] = Seen(form, Read(form, Received(form, log[k])))
    <3>1. CASE k \in 1..Len(handed)
      BY <1>7, <2>1, <3>1
    <3>2. CASE k = Len(handed) + 1
      <4>1. 1 \in 1..Len(channel)
        BY <1>2, <1>3
      <4> QED BY <1>3, <1>7, <2>1, <3>2, <4>1
    <3> QED BY <1>2, <1>7, <3>1, <3>2
  <2>5. ASSUME NEW k \in 1..Len(channel')
        PROVE  channel'[k] = Read(form, Received(form, log[Len(handed') + k]))
    <3>1. k + 1 \in 1..Len(channel) /\ channel'[k] = channel[k + 1]
      BY <1>2, <1>5
    <3>2. Len(handed) + (k + 1) = Len(handed') + k
      BY <1>2, <1>7
    <3> QED BY <2>1, <3>1, <3>2
  <2>6. /\ \A k \in 1..Len(inHand) :
             inHand[k] = Read(form, Received(form, log[Len(handed') + Len(channel') + k]))
        /\ \A k \in 1..Len(wire) :
             wire[k] = Received(form, log[Len(handed') + Len(channel') + Len(inHand) + k])
    <3>1. /\ \A k \in 1..Len(inHand) :
               inHand[k] = Read(form, Received(form, log[Len(handed) + Len(channel) + k]))
          /\ \A k \in 1..Len(wire) :
               wire[k] = Received(form, log[Len(handed) + Len(channel) + Len(inHand) + k])
      BY <1>1 DEF IInv, InOrder
    <3> QED BY <2>2, <3>1
  <2> QED BY <1>1, <2>1, <2>3, <2>4, <2>5, <2>6 DEF InOrder
<1> QED BY <1>8, <1>9, <1>10 DEF IInv

\* Steps that take nothing off the way of a message, or end the way for all of them.
LEMMA OtherStep ==
  ASSUME IInv, Refuse \/ Lose \/ DropSubscription \/ Abort
  PROVE  IInv'
<1>1. /\ UNCHANGED <<form, handed, log>>
      /\ traffic' = traffic \/ (traffic # <<>> /\ traffic' = Tail(traffic))
  BY DEF Refuse, Lose, DropSubscription, Abort
<1>2. Frames' = Frames /\ Items' = Items /\ form' = form
  BY <1>1, FormKept
<1>3. traffic' \in Seq(Sends)
  <2>1. traffic \in Seq(Sends)
    BY DEF IInv, Sequences
  <2>2. CASE traffic # <<>> /\ traffic' = Tail(traffic)
    BY <2>1, <2>2
  <2>3. CASE traffic' = traffic
    BY <2>1, <2>3
  <2> QED BY <1>1, <2>2, <2>3
<1>4. Len(<<>>) = 0
  OBVIOUS
<1>5. CASE Refuse \/ Lose
  <2>1. UNCHANGED <<wire, subscription, driver, inHand, channel>>
    BY <1>5 DEF Refuse, Lose
  <2> QED BY <1>1, <1>2, <1>3, <2>1 DEF IInv, Sequences, TypeOK, InOrder
<1>6. CASE DropSubscription
  <2>1. subscription' = "dropped" /\ channel' = <<>> /\ UNCHANGED <<wire, driver, inHand>>
    BY <1>6 DEF DropSubscription
  <2>2. Sequences'
    BY <1>1, <1>2, <1>3, <2>1 DEF IInv, Sequences
  <2> QED BY <1>1, <1>4, <2>1, <2>2 DEF IInv, TypeOK, InOrder
<1>7. CASE Abort
  <2>1. /\ subscription = "dropped" /\ UNCHANGED <<subscription, channel>>
        /\ driver' = "gone" /\ inHand' = <<>> /\ wire' = <<>>
    BY <1>7 DEF Abort
  <2>2. Sequences'
    BY <1>1, <1>2, <1>3, <2>1 DEF IInv, Sequences
  <2> QED BY <1>1, <1>4, <2>1, <2>2 DEF IInv, TypeOK, InOrder
<1> QED BY <1>5, <1>6, <1>7

\* No step makes what the handlers have seen differ from what was sent.
LEMMA StepInv == IInv /\ [Next]_vars => IInv'
<1> SUFFICES ASSUME IInv, [Next]_vars PROVE IInv'
  OBVIOUS
<1>1. CASE UNCHANGED vars
  <2>1. Frames' = Frames /\ Items' = Items
    BY <1>1, FormKept DEF vars
  <2>2. Sequences'
    BY <1>1, <2>1 DEF vars, IInv, Sequences
  <2> QED BY <1>1, <2>2 DEF vars, IInv, TypeOK, InOrder
<1> QED BY <1>1, SendStep, ReceiveStep, HandOverStep, TakeStep, OtherStep DEF Next
-----------------------------------------------------------------------------
\* The drivers of queue, fan-out and request-reply: what the handler has read is what entered
\* the pipe, each message opened on its own, in order, without a gap and once; and no more is
\* read ahead than the channel takes and the one message its driver waits with.
THEOREM KeepsOrder == Spec => []Inv
<1>1. IInv => Inv
  BY DEF IInv, Inv
<1> QED BY InitInv, StepInv, <1>1, PTL DEF Spec

-----------------------------------------------------------------------------
(* What was published is what is read. *)

\* What entered the pipe had not been refused, and what was refused had to be.
OnlyFit ==
  \A k \in DOMAIN log : IsPublish(log[k]) => ~Refuses(form.env, log[k].message)

OnlyUnfit ==
  \A message \in refused : IsMessage(message) /\ Refuses(form.env, message)

\* A frame in front of others can be taken off again.
LEMMA FrontOff ==
  ASSUME NEW S, NEW frames \in Seq(S), NEW front
  PROVE  /\ << front >> \o frames # <<>>
         /\ (<< front >> \o frames)[1] = front
         /\ Tail(<< front >> \o frames) = frames
<1> DEFINE T == S \cup {front}  one == << front >>  joint == one \o frames
<1>1. one \in Seq(T) /\ Len(one) = 1 /\ one[1] = front /\ frames \in Seq(T) /\ Len(frames) \in Nat
  OBVIOUS
<1> HIDE DEF T, one
<1>2. /\ joint \in Seq(T) /\ Len(joint) = Len(one) + Len(frames)
      /\ \A i \in 1..Len(one) + Len(frames) : joint[i] = IF i <= Len(one) THEN one[i] ELSE frames[i - Len(one)]
  BY <1>1, ConcatProperties
<1> HIDE DEF joint
<1>3. joint # <<>> /\ Len(joint) = Len(frames) + 1 /\ joint[1] = front
  BY <1>1, <1>2
<1>4. /\ Tail(joint) \in Seq(T) /\ Len(Tail(joint)) = Len(frames)
      /\ \A i \in 1..Len(frames) : Tail(joint)[i] = joint[i + 1]
  BY <1>1, <1>2, <1>3, HeadTailProperties
<1>5. ASSUME NEW i \in 1..Len(frames)
      PROVE  Tail(joint)[i] = frames[i]
  <2>1. i + 1 \in 1..Len(one) + Len(frames) /\ ~(i + 1 <= Len(one)) /\ i + 1 - Len(one) = i
    BY <1>1
  <2> QED BY <1>2, <1>4, <2>1
<1>6. Tail(joint) = frames
  BY <1>1, <1>4, <1>5, SeqEqual
<1> QED BY <1>3, <1>6 DEF joint, one

\* An envelope writes one frame at least.
LEMMA LayoutIs ==
  ASSUME NEW env, NEW pattern, NEW message
  PROVE  \E S : Layout(env, pattern, message) \in Seq(S) /\ Layout(env, pattern, message) # <<>>
<1>1. \A a, b, c : <<a, b, c>> \in Seq({a, b, c}) /\ <<a, b, c>> # <<>>
  OBVIOUS
<1>2. \A a, b : <<a, b>> \in Seq({a, b}) /\ <<a, b>> # <<>>
  OBVIOUS
<1>3. \A a : <<a>> \in Seq({a}) /\ <<a>> # <<>> /\ <<>> \o <<a>> = <<a>>
  OBVIOUS
<1> DEFINE layout == Layout(env, pattern, message)
<1> SUFFICES \E S : layout \in Seq(S) /\ layout # <<>>
  OBVIOUS
<1>4. CASE env = "frames"
  <2>1. PICK a, b, c : layout = <<a, b, c>>
    BY <1>4 DEF Layout
  <2>2. layout \in Seq({a, b, c}) /\ layout # <<>>
    BY <1>1, <2>1
  <2> HIDE DEF layout
  <2> QED BY <2>2
<1>5. CASE env = "noop"
  <2>1. \/ \E a, b : layout = <<a>> \o <<b>>
        \/ \E a : layout = <<>> \o <<a>>
    BY <1>5 DEF Layout
  <2> HIDE DEF layout
  <2>2. ASSUME NEW a, NEW b, layout = <<a>> \o <<b>>
        PROVE  layout \in Seq({a, b}) /\ layout # <<>>
    <3>1. layout = <<a, b>>
      BY <2>2, TwoFrames
    <3> QED BY <1>2, <3>1
  <2>3. ASSUME NEW a, layout = <<>> \o <<a>>
        PROVE  layout \in Seq({a}) /\ layout # <<>>
    BY <1>3, <2>3
  <2> QED BY <2>1, <2>2, <2>3
<1>6. CASE env \notin {"frames", "noop"}
  <2>1. PICK a, b : layout = <<a, b>>
    BY <1>6 DEF Layout
  <2>2. layout \in Seq({a, b}) /\ layout # <<>>
    BY <1>2, <2>1
  <2> HIDE DEF layout
  <2> QED BY <2>2
<1> QED BY <1>4, <1>5, <1>6

\* What the driver reads of frames: what the envelope opens, with the peer on a request.
LEMMA ReadIs ==
  ASSUME form \in [env : Envelopes, pattern : Patterns],
         NEW send, ~IsFailure(send), NEW S, NEW frames \in Seq(S), frames # <<>>,
         frames = IF IsPublish(send) THEN Layout(form.env, form.pattern, send.message) ELSE send.frames
  PROVE  LET opened == Open(form.env, form.pattern, frames)
             read   == Read(form, Received(form, send))
         IN  IF form.pattern = "DealerRouter" /\ opened.ok
             THEN read = [ok |-> TRUE, name |-> opened.name, head |-> opened.head,
                          payload |-> opened.payload, peer |-> send.peer]
             ELSE read = opened
<1> DEFINE front == [peer |-> send.peer]
<1>1. /\ << front >> \o frames # <<>> /\ (<< front >> \o frames)[1] = front
      /\ Tail(<< front >> \o frames) = frames
  <2> HIDE DEF front
  <2> QED BY FrontOff
<1>2. <<>> \o frames = frames
  BY ConcatEmptySeq
<1>3. Received(form, send) = IF form.pattern = "DealerRouter" THEN << front >> \o frames ELSE frames
  BY <1>2 DEF Received
<1>4. front.peer = send.peer
  OBVIOUS
<1>5. CASE form.pattern = "DealerRouter"
  <2>1. Received(form, send) = << front >> \o frames
    BY <1>3, <1>5
  <2> HIDE DEF front
  <2> QED BY <1>1, <1>4, <1>5, <2>1 DEF Read
<1>6. CASE form.pattern # "DealerRouter"
  <2> HIDE DEF front
  <2> QED BY <1>3, <1>6 DEF Read
<1> QED BY <1>5, <1>6

\* A publish that was not refused is seen as the message that was published.
LEMMA PublishSeen ==
  ASSUME form \in [env : Envelopes, pattern : Patterns],
         NEW send \in Sends, IsPublish(send), ~Refuses(form.env, send.message)
  PROVE  Seen(form, Read(form, Received(form, send))) = Meant(send)
<1> DEFINE message == send.message  frames == Layout(form.env, form.pattern, message)
           opened == Open(form.env, form.pattern, frames)
           read == Read(form, Received(form, send))
           name == IF form.env = "noop" /\ form.pattern # "PubSub" THEN <<>> ELSE message.name
<1>1. IsMessage(message) /\ ~IsFailure(send)
  BY SendsAssumption DEF IsPublish, IsFailure
<1>2. form.env \in Envelopes /\ form.pattern \in Patterns
  OBVIOUS
<1>3. PICK head : opened = Opened(name, head, message.payload) /\ Headers(form.env, head) = message.headers
  BY <1>1, <1>2, ReadsBack
<1>4. PICK S : frames \in Seq(S) /\ frames # <<>>
  BY LayoutIs
<1> HIDE DEF frames
<1>5. IF form.pattern = "DealerRouter" /\ opened.ok
      THEN read = [ok |-> TRUE, name |-> opened.name, head |-> opened.head,
                   payload |-> opened.payload, peer |-> send.peer]
      ELSE read = opened
  <2>1. frames = IF IsPublish(send) THEN Layout(form.env, form.pattern, send.message) ELSE send.frames
    BY DEF frames
  <2> QED BY <1>1, <1>4, <2>1, ReadIs
<1> HIDE DEF opened, read, name
<1>6. /\ opened.ok /\ opened.name = name /\ opened.head = head /\ opened.payload = message.payload
      /\ opened = [ok |-> TRUE, name |-> name, head |-> head, payload |-> message.payload]
  BY <1>3 DEF Opened
<1>7. CASE form.pattern = "DealerRouter"
  <2>1. read = [ok |-> TRUE, name |-> name, head |-> head, payload |-> message.payload, peer |-> send.peer]
    BY <1>5, <1>6, <1>7
  <2>2. SeenHeaders(form, read) = Stamped(message.headers, send.peer)
    BY <1>3, <1>7, <2>1 DEF SeenHeaders
  <2>3. Seen(form, read) = [ok |-> TRUE, name |-> name,
                            headers |-> Stamped(message.headers, send.peer), payload |-> message.payload]
    BY <2>1, <2>2 DEF Seen
  <2> QED BY <1>7, <2>3 DEF Meant, read, name
<1>8. CASE form.pattern # "DealerRouter"
  <2>1. read = [ok |-> TRUE, name |-> name, head |-> head, payload |-> message.payload]
    BY <1>5, <1>6, <1>8
  <2>2. SeenHeaders(form, read) = message.headers
    BY <1>3, <1>8, <2>1 DEF SeenHeaders
  <2>3. Seen(form, read) = [ok |-> TRUE, name |-> name, headers |-> message.headers, payload |-> message.payload]
    BY <2>1, <2>2 DEF Seen
  <2> QED BY <1>8, <2>3 DEF Meant, read, name
<1> QED BY <1>7, <1>8

\* And the handler sees it as PeerSeen allows.
LEMMA PeerIsSeen ==
  ASSUME form \in [env : Envelopes, pattern : Patterns],
         NEW send \in Sends, ~IsPublish(send), ~IsFailure(send)
  PROVE  PeerSeen(send, Seen(form, Read(form, Received(form, send))))
<1> DEFINE frames == send.frames
           opened == Open(form.env, form.pattern, frames)
           read == Read(form, Received(form, send))
           seen == Seen(form, read)
           most == Most(form.env, form.pattern)
           last == frames[Len(frames)]
<1>1. frames \in Seq(Range(frames)) /\ frames # <<>>
  BY SendsAssumption
<1>2. form.env \in Envelopes /\ form.pattern \in Patterns
  OBVIOUS
<1>3. /\ opened = WireError \/ opened = Opened(opened.name, opened.head, opened.payload)
      /\ opened.ok <=> Len(frames) <= most /\ (Len(frames) > 1 => IsText(frames[1].text))
      /\ opened.ok => opened.payload = last \/ ("doc" \in DOMAIN last /\ form.env \notin {"frames", "noop"})
      /\ opened.ok /\ Len(frames) = 3 => form.env = "frames" /\ opened.head = frames[2].text
  BY <1>1, <1>2, PeerOpens
<1>4. IF form.pattern = "DealerRouter" /\ opened.ok
      THEN read = [ok |-> TRUE, name |-> opened.name, head |-> opened.head,
                   payload |-> opened.payload, peer |-> send.peer]
      ELSE read = opened
  BY <1>1, ReadIs
<1> HIDE DEF opened, read, most, frames
<1>5. CASE ~opened.ok
  <2>1. opened = WireError /\ read = WireError
    BY <1>3, <1>4, <1>5 DEF Opened
  <2>2. seen = WireError
    BY <2>1 DEF Seen, WireError
  <2>3. ~seen.ok
    BY <2>2 DEF WireError
  <2> HIDE DEF seen
  <2> QED BY <1>3, <1>5, <2>3 DEF PeerSeen, Most, most, frames, seen, read
<1>6. CASE opened.ok
  <2>1. /\ read.ok /\ read.head = opened.head /\ read.payload = opened.payload
        /\ form.pattern = "DealerRouter" => read.peer = send.peer
    BY <1>3, <1>4, <1>6 DEF WireError, Opened
  <2>2. seen = [ok |-> TRUE, name |-> read.name, headers |-> SeenHeaders(form, read), payload |-> read.payload]
    BY <2>1 DEF Seen
  <2>3. seen.ok /\ seen.payload = opened.payload /\ seen.headers = SeenHeaders(form, read)
    BY <2>1, <2>2
  <2> HIDE DEF seen
  <2>4. ASSUME form.pattern = "DealerRouter"
        PROVE  seen.headers[ReplyTo] = send.peer
    <3>1. seen.headers = Stamped(Headers(form.env, read.head), send.peer)
      BY <2>1, <2>3, <2>4 DEF SeenHeaders
    <3> QED BY <3>1 DEF Stamped
  <2>5. ASSUME Len(frames) = 3, ~IsText(frames[2].text)
        PROVE  DOMAIN seen.headers \subseteq {ReplyTo}
    <3>1. form.env = "frames" /\ read.head = frames[2].text
      BY <1>3, <1>6, <2>1, <2>5
    <3>2. DecodeHeaders(read.head) = WireError
      BY <2>5, <3>1, DecodeIs
    <3>3. Headers(form.env, read.head) = NoHeaders
      BY <3>1, <3>2 DEF Headers, WireError
    <3>4. DOMAIN NoHeaders = {}
      BY DEF NoHeaders
    <3>5. CASE form.pattern = "DealerRouter"
      <4>1. seen.headers = Stamped(NoHeaders, send.peer)
        BY <2>1, <2>3, <3>3, <3>5 DEF SeenHeaders
      <4> QED BY <3>4, <4>1 DEF Stamped
    <3>6. CASE form.pattern # "DealerRouter"
      <4>1. seen.headers = NoHeaders
        BY <2>3, <3>3, <3>6 DEF SeenHeaders
      <4> QED BY <3>4, <4>1
    <3> QED BY <3>5, <3>6
  <2>6. Len(frames) <= most /\ (Len(frames) > 1 => IsText(frames[1].text))
    BY <1>3, <1>6
  <2>7. seen.payload = last \/ ("doc" \in DOMAIN last /\ form.env \notin {"frames", "noop"})
    BY <1>3, <1>6, <2>3
  <2> QED BY <2>3, <2>4, <2>5, <2>6, <2>7 DEF PeerSeen, Most, most, frames, seen, read
<1> QED BY <1>5, <1>6

\* What is in the log has passed the envelope's check, and what is in `refused` has not.
LEMMA StepFit ==
  ASSUME IInv, OnlyFit, OnlyUnfit, [Next]_vars
  PROVE  OnlyFit' /\ OnlyUnfit'
<1>1. CASE Send
  <2> DEFINE s == Head(traffic)
  <2>1. /\ traffic # <<>> /\ log' = Append(log, s) /\ UNCHANGED <<form, refused>>
        /\ ~(IsPublish(s) /\ Refuses(form.env, s.message))
    BY <1>1 DEF Send
  <2>2. traffic \in Seq(Sends) /\ log \in Seq(Sends)
    BY DEF IInv, Sequences
  <2>3. s \in Sends
    BY <2>1, <2>2
  <2> HIDE DEF s
  <2>4. \A k \in DOMAIN log' : log'[k] = s \/ (k \in DOMAIN log /\ log'[k] = log[k])
    BY <2>1, <2>2, <2>3
  <2> QED BY <2>1, <2>4 DEF OnlyFit, OnlyUnfit
<1>2. CASE Refuse
  <2> DEFINE s == Head(traffic)
  <2>1. /\ traffic # <<>> /\ IsPublish(s) /\ Refuses(form.env, s.message)
        /\ refused' = refused \cup {s.message} /\ UNCHANGED <<form, log>>
    BY <1>2 DEF Refuse
  <2>2. s \in Sends
    BY <2>1 DEF IInv, Sequences
  <2>3. IsMessage(s.message)
    BY <2>1, <2>2, SendsAssumption
  <2> HIDE DEF s
  <2> QED BY <2>1, <2>3 DEF OnlyFit, OnlyUnfit
<1>3. CASE Lose \/ Receive \/ HandOver \/ Take \/ DropSubscription \/ Abort \/ UNCHANGED vars
  <2>1. UNCHANGED <<form, log, refused>>
    BY <1>3 DEF Lose, Receive, HandOver, Take, DropSubscription, Abort, vars
  <2> QED BY <2>1 DEF OnlyFit, OnlyUnfit
<1> QED BY <1>1, <1>2, <1>3 DEF Next

\* Where only messages that read back were sent, what was seen is what was meant.
LEMMA FitIsSeen == IInv /\ OnlyFit => DeliveredAsSent
<1> SUFFICES ASSUME IInv, OnlyFit PROVE DeliveredAsSent
  OBVIOUS
<1>1. /\ form \in [env : Envelopes, pattern : Patterns] /\ log \in Seq(Sends)
      /\ DOMAIN handed = 1..Len(handed) /\ Len(handed) \in Nat /\ Len(log) \in Nat
      /\ Len(handed) <= Len(log)
      /\ \A k \in 1..Len(handed) : handed[k] = Seen(form, Read(form, Received(form, log[k])))
  BY DEF IInv, Sequences, TypeOK, InOrder
<1>2. ASSUME NEW k \in DOMAIN handed
      PROVE  CASE IsPublish(log[k]) -> handed[k] = Meant(log[k])
               [] IsFailure(log[k]) -> handed[k] = WireError
               [] OTHER             -> PeerSeen(log[k], handed[k])
  <2>1. /\ k \in DOMAIN log /\ log[k] \in Sends
        /\ handed[k] = Seen(form, Read(form, Received(form, log[k])))
    BY <1>1
  <2>2. CASE IsPublish(log[k])
    <3>1. handed[k] = Meant(log[k])
      BY <1>1, <2>1, <2>2, PublishSeen DEF OnlyFit
    <3>2. ~IsFailure(log[k])
      BY <2>2 DEF IsPublish, IsFailure
    <3> QED BY <2>2, <3>1, <3>2
  <2>3. CASE IsFailure(log[k])
    <3>1. Received(form, log[k]) = <<>>
      BY <2>3 DEF Received
    <3>2. handed[k] = WireError
      BY <2>1, <3>1 DEF Read, Seen, WireError
    <3>3. ~IsPublish(log[k])
      BY <2>3 DEF IsPublish, IsFailure
    <3> QED BY <2>3, <3>2, <3>3
  <2>4. CASE ~IsPublish(log[k]) /\ ~IsFailure(log[k])
    <3>1. PeerSeen(log[k], handed[k])
      BY <1>1, <2>1, <2>4, PeerIsSeen
    <3> QED BY <2>4, <3>1
  <2> QED BY <2>2, <2>3, <2>4
<1> QED BY <1>1, <1>2 DEF DeliveredAsSent

\* Where only what the envelope refuses was refused, no refusal was without a reason.
LEMMA UnfitIsLost == IInv /\ OnlyUnfit => RefusesWithReason
<1> SUFFICES ASSUME IInv, OnlyUnfit, NEW message \in refused, ~HoldsReturn(form.env, message)
             PROVE  LET read == Open(form.env, form.pattern, Layout(form.env, form.pattern, message))
                    IN  ~read.ok \/ Headers(form.env, read.head) # message.headers
  BY DEF RefusesWithReason
<1>1. form.env \in Envelopes /\ form.pattern \in Patterns
  BY DEF IInv, TypeOK
<1>2. IsMessage(message) /\ Refuses(form.env, message)
  BY DEF OnlyUnfit
<1> QED BY <1>1, <1>2, RefusedIsLost

\* Nothing has been sent or refused at first.
LEMMA InitFit == Init => OnlyFit /\ OnlyUnfit
BY DEF Init, OnlyFit, OnlyUnfit

\* Both hold of every run.
LEMMA AllFit == Spec => [](IInv /\ OnlyFit /\ OnlyUnfit)
<1>1. IInv /\ OnlyFit /\ OnlyUnfit /\ [Next]_vars => (IInv /\ OnlyFit /\ OnlyUnfit)'
  BY StepInv, StepFit
<1> QED BY InitInv, InitFit, <1>1, PTL DEF Spec

\* Whatever the envelope, the pattern and the traffic: what a handler has seen is, in order
\* and without a gap, what was sent to it. A publish of this crate reads back as the very
\* message that was published, with the peer's address on a request; a peer's frames as
\* their layout has them, or as an error in their own place (the drivers of queue, fan-out
\* and request-reply with the four envelopes around them).
THEOREM SeenAsSent == Spec => []DeliveredAsSent
<1> QED BY AllFit, FitIsSeen, PTL

\* A publish is refused only when its frames would not have read back as the message, or
\* when a header of it holds a carriage return.
THEOREM RefusedWithReason == Spec => []RefusesWithReason
<1> QED BY AllFit, UnfitIsLost, PTL
=============================================================================
