----------------------------- MODULE BusProofs -----------------------------
(***************************************************************************)
(* Proofs about Bus, for any subscriptions, senders and bounds: the        *)
(* coordinator's count is exact, a bound endpoint has one place, a message *)
(* for one subscription is taken by one, a foreign peer is answered once.  *)
(***************************************************************************)
EXTENDS Bus, FiniteSetTheorems, SequenceTheorems, TLAPS

USE BusAssumption

------------------------------------------------------------------------------
(* What the operators of a pick and of a channel do. *)

\* Two open subscriptions do not have the same place in the vector: the one that opened first
\* has strictly fewer before it.
LEMMA PlaceIsOwn ==
  ASSUME TypeOK, Placed, NEW s \in open, NEW t \in open,
         Cardinality(Before(s)) = Cardinality(Before(t))
  PROVE  s = t
<1>1. ASSUME NEW u \in open, NEW v \in open, id[u] < id[v]
      PROVE  Cardinality(Before(u)) # Cardinality(Before(v))
  <2>1. id[u] \in Nat /\ id[v] \in Nat /\ \A o \in open : id[o] \in Nat
    BY DEF TypeOK
  <2>2. Before(u) \in SUBSET Before(v)
    BY <1>1, <2>1 DEF Before
  <2>3. u \in Before(v) /\ u \notin Before(u)
    BY <1>1, <2>1 DEF Before
  <2>4. IsFiniteSet(Before(v))
    BY FS_Subset DEF Before, Placed
  <2> QED BY <2>2, <2>3, <2>4, FS_Subset
<1>2. id[s] \in Nat /\ id[t] \in Nat
  BY DEF TypeOK
<1>3. id[s] = id[t]
  BY <1>1, <1>2
<1> QED BY <1>3 DEF Placed

\* Except on a fan-out that dials, a message picks one subscription at most.
LEMMA PickIsOne ==
  ASSUME TypeOK, Placed, kind # <<"fanout", "connect">>, NEW n, NEW inject \in BOOLEAN,
         NEW s \in Chosen(n, inject)
  PROVE  Chosen(n, inject) = {s} /\ s \in open
<1>1. Chosen(n, inject) \subseteq open
  BY DEF Chosen
<1>2. ASSUME NEW t \in Chosen(n, inject) PROVE t = s
  <2>1. CASE Side = "bind"
    <3>1. s \in Subs /\ t \in Subs /\ s \in open /\ t \in open
      BY <1>1, <1>2 DEF TypeOK
    <3> QED BY <2>1, <3>1 DEF Placed
  <2>2. CASE Side # "bind"
    <3>1. Pattern # "fanout"
      BY <2>2 DEF TypeOK, Pattern, Side
    <3> QED BY <2>2, <3>1, <1>1, <1>2, PlaceIsOwn DEF Chosen
  <2> QED BY <2>1, <2>2
<1> QED BY <1>1, <1>2

CountedIn(c) == {c[i] : i \in {k \in DOMAIN c : c[k].counted}}

\* What a channel holds is finite, and counted by its positions.
LEMMA ChannelCounted ==
  ASSUME NEW c \in Seq(Deliveries),
         \A i, j \in DOMAIN c : c[i].msg = c[j].msg => i = j
  PROVE  IsFiniteSet(CountedIn(c)) /\ Cardinality(CountedIn(c)) = Counted(c)
         /\ Counted(c) \in Nat
<1> DEFINE P == {k \in DOMAIN c : c[k].counted}
           D == {c[i] : i \in P}
           f == [i \in P |-> c[i]]
<1>1. IsFiniteSet(P)
  <2>1. DOMAIN c = 1..Len(c) /\ Len(c) \in Nat
    BY LenProperties
  <2>2. IsFiniteSet(1..Len(c))
    BY <2>1, FS_Interval
  <2> QED BY <2>1, <2>2, FS_Subset
<1>2. f \in Bijection(P, D)
  BY DEF Bijection, Injection, Surjection, IsInjective
<1>3. ExistsBijection(P, D)
  BY <1>2 DEF ExistsBijection
<1>4. IsFiniteSet(D) /\ Cardinality(D) = Cardinality(P)
  BY <1>1, <1>3, FS_Bijection
<1> QED BY <1>4, FS_CardinalityType DEF Counted, CountedIn

\* A delivery that is taken off, added to a channel or handed to a handler: what is in the
\* channels afterwards.
LEMMA ChannelAppend ==
  ASSUME TypeOK, NEW s \in Subs, NEW d \in Deliveries,
         chan' = [chan EXCEPT ![s] = Append(@, d)]
  PROVE  InChannels' = InChannels \cup {d}
<1>1. chan[s] \in Seq(Deliveries) /\ chan' \in [Subs -> Seq(Deliveries)]
  BY DEF TypeOK
<1>2. DOMAIN chan'[s] = DOMAIN chan[s] \cup {Len(chan[s]) + 1}
      /\ chan'[s][Len(chan[s]) + 1] = d
      /\ \A i \in DOMAIN chan[s] : chan'[s][i] = chan[s][i]
  BY <1>1 DEF TypeOK
<1>3. {chan'[s][i] : i \in DOMAIN chan'[s]} = {chan[s][i] : i \in DOMAIN chan[s]} \cup {d}
  BY <1>2
<1>4. \A u \in Subs \ {s} : chan'[u] = chan[u]
  BY DEF TypeOK
<1> QED BY <1>3, <1>4 DEF InChannels

\* What leaves a channel by its head is all that leaves it.
LEMMA ChannelHead ==
  ASSUME TypeOK, NEW s \in Subs, chan[s] # <<>>,
         chan' = [chan EXCEPT ![s] = Tail(@)]
  PROVE  InChannels = InChannels' \cup {Head(chan[s])}
<1>1. chan[s] \in Seq(Deliveries) /\ chan' \in [Subs -> Seq(Deliveries)]
  BY DEF TypeOK
<1>2. chan'[s] = Tail(chan[s]) /\ Len(chan[s]) \in Nat \ {0}
      /\ DOMAIN chan[s] = 1..Len(chan[s]) /\ DOMAIN chan'[s] = 1..(Len(chan[s]) - 1)
      /\ Head(chan[s]) = chan[s][1]
      /\ \A i \in DOMAIN chan'[s] : chan'[s][i] = chan[s][i + 1]
  BY <1>1, HeadTailProperties DEF TypeOK
<1>3. \A i \in DOMAIN chan[s] : i = 1 \/ (i - 1 \in DOMAIN chan'[s] /\ chan'[s][i - 1] = chan[s][i])
  BY <1>2
<1>4. \A i \in DOMAIN chan'[s] : i + 1 \in DOMAIN chan[s]
  BY <1>2
<1>5. {chan[s][i] : i \in DOMAIN chan[s]}
      = {chan'[s][i] : i \in DOMAIN chan'[s]} \cup {Head(chan[s])}
  <2>1. ASSUME NEW e PROVE (\E i \in DOMAIN chan[s] : e = chan[s][i])
                           <=> (\E i \in DOMAIN chan'[s] : e = chan'[s][i]) \/ e = Head(chan[s])
    <3>1. 1 \in DOMAIN chan[s]
      BY <1>2
    <3> QED BY <1>2, <1>3, <1>4, <3>1
  <2> QED BY <2>1
<1>6. \A u \in Subs \ {s} : chan'[u] = chan[u]
  BY DEF TypeOK
<1> QED
  <2> DEFINE On(u) == {chan[u][i] : i \in DOMAIN chan[u]}
             After(u) == {chan'[u][i] : i \in DOMAIN chan'[u]}
  <2>1. On(s) = After(s) \cup {Head(chan[s])} /\ \A u \in Subs \ {s} : After(u) = On(u)
    BY <1>5, <1>6
  <2>2. InChannels = UNION {On(u) : u \in Subs} /\ InChannels' = UNION {After(u) : u \in Subs}
    BY DEF InChannels
  <2> HIDE DEF On, After
  <2> QED BY <2>1, <2>2

\* A channel that is emptied takes its own deliveries with it and no others.
LEMMA ChannelEmptied ==
  ASSUME TypeOK, Known, NEW s \in Subs,
         chan' = [chan EXCEPT ![s] = <<>>]
  PROVE  InChannels' = InChannels \ {chan[s][i] : i \in DOMAIN chan[s]}
<1>1. chan'[s] = <<>> /\ \A u \in Subs \ {s} : chan'[u] = chan[u]
  BY DEF TypeOK
<1>2. DOMAIN chan'[s] = {}
  BY <1>1
<1>3. \A u \in Subs \ {s} : \A i \in DOMAIN chan[u], j \in DOMAIN chan[s] : chan[u][i] # chan[s][j]
  BY DEF Known
<1> QED BY <1>1, <1>2, <1>3 DEF InChannels

------------------------------------------------------------------------------
(* One step. *)

\* A reply changes the replies of a delivery and nothing else of it.
LEMMA Answered ==
  ASSUME NEW d \in Deliveries
  PROVE  /\ d.msg \in Messages /\ d.sub \in Subs
         /\ [d EXCEPT !.replies = @ + 1] \in Deliveries
         /\ [d EXCEPT !.replies = @ + 1].sub = d.sub
         /\ [d EXCEPT !.replies = @ + 1].msg = d.msg
         /\ [d EXCEPT !.replies = @ + 1].counted = d.counted
         /\ [d EXCEPT !.replies = @ + 1].replies = d.replies + 1
BY DEF Deliveries

\* What a sender hands over is its own message, for one of the subscriptions it still has.
LEMMA Handed ==
  ASSUME TypeOK, NEW x \in Senders, NEW s \in sender[x].rest, OnItsWay
  PROVE  /\ s \in Subs
         /\ DeliveryTo(s, x) \in Deliveries /\ Message(x) \in Messages
         /\ DeliveryTo(s, x).sub = s /\ DeliveryTo(s, x).msg = Message(x)
         /\ DeliveryTo(s, x).counted = sender[x].counted /\ DeliveryTo(s, x).replies = 0
<1>1. s \in Subs /\ sender[x].counted \in BOOLEAN
  BY DEF TypeOK, SendStates
<1>2. Message(x) \in Messages
  BY DEF OnItsWay
<1> QED BY <1>1, <1>2 DEF DeliveryTo, Deliveries

\* Before anything opens or sends, the invariant holds.
LEMMA InitInv == Init => Inv
<1> SUFFICES ASSUME Init PROVE Inv
  OBVIOUS
<1>1. TypeOK
  <2>1. <<>> \in Seq(Deliveries) /\ {} \in SUBSET Subs /\ 0 \in 0..MaxSends
    OBVIOUS
  <2>2. sender \in [Senders -> SendStates]
    BY DEF Init, Idle, SendStates
  <2>3. sent \in [Senders -> 0..MaxSends]
    BY <2>1 DEF Init
  <2>4. peers \in [Messages -> {"none", "waiting", "foreign"}]
    BY DEF Init
  <2>5. chan \in [Subs -> Seq(Deliveries)]
    BY <2>1 DEF Init
  <2>6. /\ kind \in Kinds /\ lease \in Subs \cup {NoSub} /\ open \subseteq Subs
        /\ nextId \in Nat /\ turn \in Nat /\ hand \subseteq Deliveries /\ inflight \in Int
    BY DEF Init
  <2>8. taken \subseteq Subs \X Messages /\ watched \in BOOLEAN
    BY DEF Init
  <2>7. /\ life \in [Subs -> {"none", "leased", "open", "deaf", "off", "gone"}]
        /\ id \in [Subs -> Nat]
    BY DEF Init
  <2> QED BY <2>2, <2>3, <2>4, <2>5, <2>6, <2>7, <2>8 DEF TypeOK
<1>2. DOMAIN <<>> = {} /\ IsFiniteSet({}) /\ Cardinality({}) = 0
  BY FS_EmptySet
<1>3. \A s \in Subs : DOMAIN chan[s] = {}
  BY <1>2 DEF Init
<1>4. InChannels = {}
  BY <1>3 DEF InChannels
<1>5. CountedSenders = {}
  BY DEF CountedSenders, Init, Idle
<1>6. {d \in InChannels \cup hand : d.counted} = {}
  BY <1>4 DEF Init
<1> QED
  BY <1>1, <1>2, <1>3, <1>4, <1>5, <1>6
     DEF Init, Inv, Placed, Once, Known, QueuedOnce, HeldOnce, QueuedOrHeld, NotYetThere, Finite, OnItsWay, CountExact, OneTaker, AskedOnce, Idle

\* No step leaves the types.
LEMMA StepTypeOK == Inv /\ [Next]_vars => TypeOK'
<1> SUFFICES ASSUME Inv, [Next]_vars PROVE TypeOK'
  OBVIOUS
<1> USE DEF Inv, TypeOK, subVars, flowVars
<1>1. CASE UNCHANGED vars
  BY <1>1 DEF vars
<1>2. CASE InstallCoordinator
  BY <1>2 DEF InstallCoordinator
<1>3. ASSUME NEW s \in Subs, Lease(s) PROVE TypeOK'
  BY <1>3 DEF Lease
<1>4. ASSUME NEW s \in Subs, Register(s) PROVE TypeOK'
  BY <1>4 DEF Register
<1>5. ASSUME NEW s \in Subs, DropChannel(s) PROVE TypeOK'
  <2>1. Counted(chan[s]) \in Nat
    <3>1. chan[s] \in Seq(Deliveries)
          /\ \A i, j \in DOMAIN chan[s] : chan[s][i].msg = chan[s][j].msg => i = j
      BY DEF Once, QueuedOnce
    <3> QED BY <3>1, ChannelCounted
  <2>2. <<>> \in Seq(Deliveries)
    OBVIOUS
  <2> QED BY <1>5, <2>1, <2>2 DEF DropChannel
<1>6. ASSUME NEW s \in Subs, GiveUp(s) PROVE TypeOK'
  BY <1>6 DEF GiveUp
<1>7. ASSUME NEW s \in Subs, FreeSlot(s) PROVE TypeOK'
  BY <1>7 DEF FreeSlot
<1>8. ASSUME NEW s \in Subs, Handle(s) PROVE TypeOK'
  <2>1. Head(chan[s]) \in Deliveries /\ Tail(chan[s]) \in Seq(Deliveries)
    BY <1>8, HeadTailProperties DEF Handle
  <2> QED BY <1>8, <2>1 DEF Handle
<1>9. ASSUME NEW x \in Senders, NEW n \in Names, NEW inject \in BOOLEAN, Send(x, n, inject)
      PROVE  TypeOK'
  <2>1. Chosen(n, inject) \subseteq Subs
    BY DEF Chosen
  <2>2. sent[x] + 1 \in 0..MaxSends /\ <<x, sent[x] + 1>> \in Messages
    BY <1>9 DEF Send, Messages
  <2>3. sender' \in [Senders -> SendStates]
    BY <1>9, <2>1 DEF Send, SendStates
  <2>4. peers' \in [Messages -> {"none", "waiting", "foreign"}]
    BY <1>9, <2>2 DEF Send
  <2> QED BY <1>9, <2>2, <2>3, <2>4 DEF Send
<1>10. ASSUME NEW x \in Senders, Enqueued(x) PROVE TypeOK'
  <2>1. inflight' \in Int
    BY <1>10 DEF Enqueued, One
  <2>2. sender' \in [Senders -> SendStates]
    <3>1. sender[x] \in SendStates /\ watched \in BOOLEAN
      OBVIOUS
    <3>2. [sender[x] EXCEPT !.step = "counted", !.counted = watched] \in SendStates
      BY <3>1 DEF SendStates
    <3> QED BY <1>10, <3>2 DEF Enqueued
  <2> QED BY <1>10, <2>1, <2>2 DEF Enqueued
<1>11. ASSUME NEW x \in Senders, HandOver(x) PROVE TypeOK'
  <2> PICK s \in sender[x].rest : HandOver(x)!(s)
    BY <1>11 DEF HandOver
  <2>1. s \in Subs /\ DeliveryTo(s, x) \in Deliveries /\ Message(x) \in Messages
    BY Handed
  <2>2. sender' \in [Senders -> SendStates]
    <3>1. sender[x] \in SendStates /\ sender[x].rest \ {s} \in SUBSET Subs
      BY DEF SendStates
    <3>2. [sender[x] EXCEPT !.step = "picked", !.rest = @ \ {s}] \in SendStates
      BY <3>1 DEF SendStates
    <3> QED BY <3>2
  <2>3. Append(chan[s], DeliveryTo(s, x)) \in Seq(Deliveries)
    BY <2>1
  <2>4. chan' \in [Subs -> Seq(Deliveries)]
    BY <2>1, <2>3
  <2>5. taken' \subseteq Subs \X Messages
    BY <2>1
  <2>6. inflight' \in Int
    BY DEF One
  <2> QED BY <2>2, <2>4, <2>5, <2>6
<1>12. ASSUME NEW x \in Senders, SendEnds(x) PROVE TypeOK'
  BY <1>12 DEF SendEnds, Idle, SendStates
<1>13. ASSUME NEW x \in Senders, RequestEnds(x) PROVE TypeOK'
  BY <1>13 DEF RequestEnds, Idle, SendStates
<1>14. ASSUME NEW d \in hand, Settle(d) PROVE TypeOK'
  BY <1>14 DEF Settle, One
<1>15. ASSUME NEW d \in hand, Reply(d) PROVE TypeOK'
  <2>1. d \in Deliveries
    OBVIOUS
  <2>2. [d EXCEPT !.replies = @ + 1] \in Deliveries /\ d.msg \in Messages
    BY <2>1, Answered
  <2>3. peers' \in [Messages -> {"none", "waiting", "foreign"}]
    BY <1>15, <2>2 DEF Reply
  <2> QED BY <1>15, <2>2, <2>3 DEF Reply
<1> HIDE DEF Inv, TypeOK, subVars, flowVars
<1> QED
  BY <1>1, <1>2, <1>3, <1>4, <1>5, <1>6, <1>7, <1>8, <1>9, <1>10, <1>11, <1>12, <1>13,
     <1>14, <1>15 DEF Next, Delivering, Closing

\* No step lets a second subscription into the place of a bound endpoint.
LEMMA StepPlaced == Inv /\ [Next]_vars => Placed'
<1> SUFFICES ASSUME Inv, [Next]_vars PROVE Placed'
  OBVIOUS
<1> USE DEF Inv, TypeOK, Placed, Side, subVars, flowVars
<1>1. CASE UNCHANGED vars
  BY <1>1 DEF vars
<1>2. CASE InstallCoordinator
  BY <1>2 DEF InstallCoordinator
<1>3. ASSUME NEW s \in Subs, Lease(s) PROVE Placed'
  BY <1>3 DEF Lease
<1>4. ASSUME NEW s \in Subs, Register(s) PROVE Placed'
  <2>1. IsFiniteSet(open')
    BY <1>4, FS_AddElement DEF Register
  <2>2. /\ open' = open \cup {s} /\ s \notin open /\ id' = [id EXCEPT ![s] = nextId]
        /\ nextId' = nextId + 1 /\ lease' = lease /\ chan' = chan /\ kind' = kind
        /\ life[s] = "leased" /\ life' = [life EXCEPT ![s] = "open"]
    BY <1>4 DEF Register
  <2>3. \A t \in open' : id'[t] < nextId'
    BY <2>2
  <2>4. \A t, u \in open' : id'[t] = id'[u] => t = u
    BY <2>2
  <2> QED BY <2>1, <2>2, <2>3, <2>4
<1>5. ASSUME NEW s \in Subs, DropChannel(s) PROVE Placed'
  BY <1>5 DEF DropChannel
<1>6. ASSUME NEW s \in Subs, GiveUp(s) PROVE Placed'
  <2>1. IsFiniteSet(open')
    BY <1>6, FS_Subset DEF GiveUp
  <2> QED BY <1>6, <2>1 DEF GiveUp
<1>7. ASSUME NEW s \in Subs, FreeSlot(s) PROVE Placed'
  BY <1>7 DEF FreeSlot
<1>8. ASSUME NEW s \in Subs, Handle(s) PROVE Placed'
  BY <1>8 DEF Handle
<1>9. ASSUME NEW x \in Senders, NEW n \in Names, NEW inject \in BOOLEAN, Send(x, n, inject)
      PROVE  Placed'
  BY <1>9 DEF Send
<1>10. ASSUME NEW x \in Senders, Enqueued(x) PROVE Placed'
  BY <1>10 DEF Enqueued
<1>11. ASSUME NEW x \in Senders, HandOver(x) PROVE Placed'
  <2> PICK s \in sender[x].rest : HandOver(x)!(s)
    BY <1>11 DEF HandOver
  <2>1. \A u \in Subs \ {s} : chan'[u] = chan[u]
    OBVIOUS
  <2>2. chan'[s] # chan[s] => life[s] = "open"
    OBVIOUS
  <2> QED BY <2>1, <2>2
<1>12. ASSUME NEW x \in Senders, SendEnds(x) PROVE Placed'
  BY <1>12 DEF SendEnds
<1>13. ASSUME NEW x \in Senders, RequestEnds(x) PROVE Placed'
  BY <1>13 DEF RequestEnds
<1>14. ASSUME NEW d \in hand, Settle(d) PROVE Placed'
  BY <1>14 DEF Settle
<1>15. ASSUME NEW d \in hand, Reply(d) PROVE Placed'
  BY <1>15 DEF Reply
<1> HIDE DEF Inv, TypeOK, Placed, Side, subVars, flowVars
<1> QED
  BY <1>1, <1>2, <1>3, <1>4, <1>5, <1>6, <1>7, <1>8, <1>9, <1>10, <1>11, <1>12, <1>13,
     <1>14, <1>15 DEF Next, Delivering, Closing

\* Nothing new in the channels, with the handlers, or to come: no message is anywhere twice.
LEMMA NothingNew ==
  ASSUME TypeOK, Once, sent' = sent, hand' \subseteq hand,
         \A s \in Subs : \A i \in DOMAIN chan'[s] : i \in DOMAIN chan[s] /\ chan'[s][i] = chan[s][i],
         \A x \in Senders : sender'[x].rest \subseteq sender[x].rest
  PROVE  Once'
<1>1. /\ \A x \in Senders : sender[x].rest \subseteq Subs /\ Message(x)' = Message(x)
      /\ \A d \in hand : d.sub \in Subs
      /\ \A m : Begun(m)' = Begun(m)
  BY Answered DEF TypeOK, SendStates, Message, Begun
<1>2. Known'
  BY <1>1 DEF Once, Known
<1>3. QueuedOnce'
  BY DEF Once, QueuedOnce
<1>4. HeldOnce'
  BY DEF Once, HeldOnce
<1>5. QueuedOrHeld'
  BY <1>1 DEF Once, QueuedOrHeld
<1>6. NotYetThere'
  BY <1>1 DEF Once, NotYetThere
<1> QED BY <1>2, <1>3, <1>4, <1>5, <1>6 DEF Once

\* A message just begun is nowhere yet.
LEMMA BegunIsNew ==
  ASSUME TypeOK, Once, NEW x \in Senders, chan' = chan, hand' = hand,
         sent' = [sent EXCEPT ![x] = @ + 1], sender'[x].rest \subseteq Subs,
         \A y \in Senders \ {x} : sender'[y] = sender[y]
  PROVE  Once'
<1>1. \A m \in Messages : Begun(m) => Begun(m)' /\ m # Message(x)'
  BY DEF Messages, TypeOK, Begun, Message
<1>2. /\ \A s \in Subs : \A i \in DOMAIN chan[s] : chan[s][i] \in Deliveries
      /\ \A d \in hand : d \in Deliveries
  BY DEF TypeOK
<1>3. /\ \A s \in Subs : \A i \in DOMAIN chan[s] : chan[s][i].msg \in Messages
      /\ \A d \in hand : d.msg \in Messages
  BY <1>2, Answered
<1>4. \A y \in Senders \ {x} : Message(y)' = Message(y)
  BY DEF TypeOK, Message
<1>5. Known'
  BY <1>1, <1>3 DEF Once, Known
<1>6. QueuedOnce' /\ HeldOnce' /\ QueuedOrHeld'
  BY DEF Once, QueuedOnce, HeldOnce, QueuedOrHeld
<1>7. NotYetThere'
  <2> SUFFICES ASSUME NEW y \in Senders, NEW s \in sender'[y].rest
               PROVE  /\ \A i \in DOMAIN chan[s] : chan[s][i].msg # Message(y)'
                      /\ \A d \in hand : d.sub = s => d.msg # Message(y)'
    BY DEF NotYetThere
  <2>1. CASE y = x
    BY <2>1, <1>1, <1>3 DEF Once, Known
  <2>2. CASE y # x
    BY <2>2, <1>4 DEF Once, NotYetThere
  <2> QED BY <2>1, <2>2
<1> QED BY <1>5, <1>6, <1>7 DEF Once

\* What a handler takes leaves the channel.
LEMMA TakenIsMoved ==
  ASSUME TypeOK, Once, NEW s \in Subs, Handle(s)
  PROVE  Once'
<1> DEFINE h == Head(chan[s])
<1>1. /\ chan[s] \in Seq(Deliveries) /\ chan[s] # <<>>
      /\ hand' = hand \cup {h} /\ sender' = sender /\ sent' = sent
      /\ chan'[s] = Tail(chan[s]) /\ \A u \in Subs \ {s} : chan'[u] = chan[u]
  BY DEF Handle, TypeOK
<1>2. /\ h = chan[s][1] /\ 1 \in DOMAIN chan[s]
      /\ \A i \in DOMAIN chan'[s] : i \in Nat /\ i + 1 \in DOMAIN chan[s] /\ i + 1 # 1
                                    /\ chan'[s][i] = chan[s][i + 1]
  BY <1>1, HeadTailProperties
<1>3. /\ h.sub = s /\ Begun(h.msg)
      /\ \A d \in hand : d.sub = s => d.msg # h.msg
  BY <1>2 DEF Once, Known, QueuedOrHeld
<1>4. /\ \A x \in Senders : sender[x].rest \subseteq Subs /\ Message(x)' = Message(x)
      /\ \A d \in hand : d.sub \in Subs
      /\ \A m : Begun(m)' = Begun(m)
  BY <1>1, Answered DEF TypeOK, SendStates, Message, Begun
<1> HIDE DEF h
<1>5. \A u \in Subs : \A i \in DOMAIN chan'[u] : \E j \in DOMAIN chan[u] : chan'[u][i] = chan[u][j]
  <2> SUFFICES ASSUME NEW u \in Subs, NEW i \in DOMAIN chan'[u]
               PROVE  \E j \in DOMAIN chan[u] : chan'[u][i] = chan[u][j]
    OBVIOUS
  <2>1. CASE u = s
    <3>1. i + 1 \in DOMAIN chan[u] /\ chan'[u][i] = chan[u][i + 1]
      BY <2>1, <1>2
    <3> QED BY <3>1
  <2>2. CASE u # s
    <3>1. chan'[u] = chan[u]
      BY <2>2, <1>1
    <3> QED BY <3>1
  <2> QED BY <2>1, <2>2
<1>6. Known'
  BY <1>1, <1>3, <1>4, <1>5 DEF Once, Known
<1>7. QueuedOnce'
  <2> SUFFICES ASSUME NEW u \in Subs, NEW i \in DOMAIN chan'[u], NEW j \in DOMAIN chan'[u],
                      chan'[u][i].msg = chan'[u][j].msg
               PROVE  i = j
    BY DEF QueuedOnce
  <2>1. CASE u = s
    <3>1. i + 1 = j + 1 /\ i \in Nat /\ j \in Nat
      BY <2>1, <1>2 DEF Once, QueuedOnce
    <3> QED BY <3>1
  <2>2. CASE u # s
    BY <2>2, <1>1 DEF Once, QueuedOnce
  <2> QED BY <2>1, <2>2
<1>8. HeldOnce'
  BY <1>1, <1>3 DEF Once, HeldOnce
<1>9. QueuedOrHeld'
  <2>1. \A i \in DOMAIN chan'[s] : chan'[s][i].msg # h.msg
    BY <1>2 DEF Once, QueuedOnce
  <2>2. \A d \in hand : \A i \in DOMAIN chan'[d.sub] : chan'[d.sub][i].msg # d.msg
    <3> SUFFICES ASSUME NEW d \in hand, NEW i \in DOMAIN chan'[d.sub]
                 PROVE  chan'[d.sub][i].msg # d.msg
      OBVIOUS
    <3>1. PICK j \in DOMAIN chan[d.sub] : chan'[d.sub][i] = chan[d.sub][j]
      BY <1>4, <1>5
    <3> QED BY <3>1 DEF Once, QueuedOrHeld
  <2> QED BY <1>1, <1>3, <2>1, <2>2 DEF QueuedOrHeld
<1>10. NotYetThere'
  <2> SUFFICES ASSUME NEW x \in Senders, NEW u \in sender[x].rest
               PROVE  /\ \A i \in DOMAIN chan'[u] : chan'[u][i].msg # Message(x)
                      /\ \A d \in hand' : d.sub = u => d.msg # Message(x)
    BY <1>1, <1>4 DEF NotYetThere
  <2>1. u \in Subs
    BY <1>4
  <2>2. \A i \in DOMAIN chan[u] : chan[u][i].msg # Message(x)
    BY DEF Once, NotYetThere
  <2> QED BY <1>1, <1>2, <1>3, <1>5, <2>1, <2>2 DEF Once, NotYetThere
<1> QED BY <1>6, <1>7, <1>8, <1>9, <1>10 DEF Once

\* What is handed over to a subscription no longer comes to it.
LEMMA QueuedIsNoMoreToCome ==
  ASSUME TypeOK, Once, OnItsWay, NEW x \in Senders, NEW s \in sender[x].rest,
         hand' = hand, sent' = sent,
         chan' = [chan EXCEPT ![s] = Append(@, DeliveryTo(s, x))],
         sender'[x].rest = sender[x].rest \ {s},
         \A y \in Senders \ {x} : sender'[y] = sender[y]
  PROVE  Once'
<1> DEFINE d == DeliveryTo(s, x)
           k == Len(chan[s]) + 1
<1>1. /\ s \in Subs /\ d \in Deliveries /\ d.sub = s /\ d.msg = Message(x) /\ d.replies = 0
      /\ Begun(d.msg)
  <2>1. Message(x) = <<x, sent[x]>> /\ sent[x] \in Nat
    BY DEF Message, TypeOK
  <2>2. Begun(Message(x))
    BY <2>1 DEF Begun
  <2> QED BY <2>2, Handed
<1>2. /\ chan[s] \in Seq(Deliveries) /\ chan'[s] = Append(chan[s], d)
      /\ \A u \in Subs \ {s} : chan'[u] = chan[u]
  BY <1>1 DEF TypeOK
<1>3. /\ DOMAIN chan'[s] = DOMAIN chan[s] \cup {k} /\ chan'[s][k] = d
      /\ \A i \in DOMAIN chan[s] : chan'[s][i] = chan[s][i]
  BY <1>1, <1>2, AppendProperties
<1>4. /\ \A y \in Senders : sender[y].rest \subseteq Subs /\ Message(y)' = Message(y)
      /\ \A y \in Senders : y # x => Message(y) # Message(x)
      /\ \A e \in hand : e.sub \in Subs
      /\ \A m : Begun(m)' = Begun(m)
  BY Answered DEF TypeOK, SendStates, Message, Begun
<1>5. /\ \A i \in DOMAIN chan[s] : chan[s][i].msg # d.msg
      /\ \A e \in hand : e.sub = s => e.msg # d.msg
  BY <1>1 DEF Once, NotYetThere
<1> HIDE DEF d, k
<1>6. Known'
  BY <1>1, <1>2, <1>3, <1>4 DEF Once, Known
<1>7. QueuedOnce'
  <2> SUFFICES ASSUME NEW u \in Subs, NEW i \in DOMAIN chan'[u], NEW j \in DOMAIN chan'[u],
                      chan'[u][i].msg = chan'[u][j].msg
               PROVE  i = j
    BY DEF QueuedOnce
  <2>1. CASE u = s
    BY <2>1, <1>3, <1>5 DEF Once, QueuedOnce
  <2>2. CASE u # s
    BY <2>2, <1>2 DEF Once, QueuedOnce
  <2> QED BY <2>1, <2>2
<1>8. HeldOnce'
  BY DEF Once, HeldOnce
<1>9. QueuedOrHeld'
  <2> SUFFICES ASSUME NEW e \in hand, NEW i \in DOMAIN chan'[e.sub]
               PROVE  chan'[e.sub][i].msg # e.msg
    BY <1>1 DEF QueuedOrHeld
  <2>1. CASE e.sub = s /\ i \in DOMAIN chan[s]
    BY <2>1, <1>3 DEF Once, QueuedOrHeld
  <2>2. CASE e.sub = s /\ i = k
    BY <2>2, <1>3, <1>5
  <2>3. CASE e.sub # s
    <3>1. chan'[e.sub] = chan[e.sub]
      BY <2>3, <1>2, <1>4
    <3> QED BY <3>1 DEF Once, QueuedOrHeld
  <2> QED BY <2>1, <2>2, <2>3, <1>3
<1>10. NotYetThere'
  <2> SUFFICES ASSUME NEW y \in Senders, NEW u \in sender'[y].rest
               PROVE  /\ \A i \in DOMAIN chan'[u] : chan'[u][i].msg # Message(y)
                      /\ \A e \in hand : e.sub = u => e.msg # Message(y)
    BY <1>4 DEF NotYetThere
  <2>1. u \in sender[y].rest /\ u \in Subs /\ (y = x => u # s)
    BY <1>4
  <2>2. /\ \A i \in DOMAIN chan[u] : chan[u][i].msg # Message(y)
        /\ \A e \in hand : e.sub = u => e.msg # Message(y)
    BY <2>1 DEF Once, NotYetThere
  <2> QED BY <1>1, <1>2, <1>3, <1>4, <2>1, <2>2
<1> QED BY <1>6, <1>7, <1>8, <1>9, <1>10 DEF Once

\* A handler that answers holds the same message.
LEMMA AnsweredIsTheSame ==
  ASSUME TypeOK, Once, NEW d \in hand, Reply(d)
  PROVE  Once'
<1> DEFINE e == [d EXCEPT !.replies = @ + 1]
<1>1. e.sub = d.sub /\ e.msg = d.msg /\ d.sub \in Subs
  BY Answered DEF TypeOK
<1>2. hand' = (hand \ {d}) \cup {e} /\ chan' = chan /\ sender' = sender /\ sent' = sent
  BY DEF Reply, subVars
<1>3. (\A m : Begun(m)' = Begun(m)) /\ \A x \in Senders : Message(x)' = Message(x)
  BY <1>2 DEF Begun, Message
<1> HIDE DEF e
<1>4. Known' /\ QueuedOnce' /\ QueuedOrHeld'
  BY <1>1, <1>2, <1>3 DEF Once, Known, QueuedOnce, QueuedOrHeld
<1>5. HeldOnce'
  BY <1>1, <1>2 DEF Once, HeldOnce
<1>6. NotYetThere'
  BY <1>1, <1>2, <1>3 DEF Once, NotYetThere
<1> QED BY <1>4, <1>5, <1>6 DEF Once

\* No step brings a message to a subscription twice.
LEMMA StepOnce == Inv /\ [Next]_vars => Once'
<1> SUFFICES ASSUME Inv, [Next]_vars PROVE Once'
  OBVIOUS
<1> USE DEF Inv, subVars, flowVars
<1>1. CASE UNCHANGED vars
  BY <1>1, NothingNew DEF vars
<1>2. CASE InstallCoordinator
  BY <1>2, NothingNew DEF InstallCoordinator
<1>3. ASSUME NEW s \in Subs, Lease(s) PROVE Once'
  BY <1>3, NothingNew DEF Lease
<1>4. ASSUME NEW s \in Subs, Register(s) PROVE Once'
  BY <1>4, NothingNew DEF Register
<1>5. ASSUME NEW s \in Subs, DropChannel(s) PROVE Once'
  <2>1. chan'[s] = <<>> /\ \A u \in Subs \ {s} : chan'[u] = chan[u]
    BY <1>5 DEF DropChannel, TypeOK
  <2>2. DOMAIN chan'[s] = {}
    BY <2>1
  <2>3. \A u \in Subs : \A i \in DOMAIN chan'[u] : i \in DOMAIN chan[u] /\ chan'[u][i] = chan[u][i]
    BY <2>1, <2>2
  <2> QED BY <1>5, <2>3, NothingNew DEF DropChannel
<1>6. ASSUME NEW s \in Subs, GiveUp(s) PROVE Once'
  BY <1>6, NothingNew DEF GiveUp
<1>7. ASSUME NEW s \in Subs, FreeSlot(s) PROVE Once'
  BY <1>7, NothingNew DEF FreeSlot
<1>8. ASSUME NEW s \in Subs, Handle(s) PROVE Once'
  BY <1>8, TakenIsMoved
<1>9. ASSUME NEW x \in Senders, NEW n \in Names, NEW inject \in BOOLEAN, Send(x, n, inject)
      PROVE  Once'
  <2>1. Chosen(n, inject) \subseteq Subs
    BY DEF Chosen, TypeOK
  <2>2. sender'[x].rest \subseteq Subs /\ \A y \in Senders \ {x} : sender'[y] = sender[y]
    BY <1>9, <2>1 DEF Send, TypeOK
  <2> QED BY <1>9, <2>2, BegunIsNew DEF Send
<1>10. ASSUME NEW x \in Senders, Enqueued(x) PROVE Once'
  <2>1. \A y \in Senders : sender'[y].rest = sender[y].rest
    BY <1>10 DEF Enqueued, TypeOK, SendStates
  <2> QED BY <1>10, <2>1, NothingNew DEF Enqueued
<1>11. ASSUME NEW x \in Senders, HandOver(x) PROVE Once'
  <2> PICK s \in sender[x].rest : HandOver(x)!(s)
    BY <1>11 DEF HandOver
  <2>1. /\ \A y \in Senders \ {x} : sender'[y] = sender[y]
        /\ sender'[x].rest = sender[x].rest \ {s}
    BY DEF TypeOK, SendStates
  <2>2. CASE life[s] = "open"
    BY <2>1, <2>2, QueuedIsNoMoreToCome
  <2>3. CASE life[s] # "open"
    BY <2>1, <2>3, NothingNew
  <2> QED BY <2>2, <2>3
<1>12. ASSUME NEW x \in Senders, SendEnds(x) PROVE Once'
  <2>1. \A y \in Senders : sender'[y].rest \subseteq sender[y].rest
    BY <1>12 DEF SendEnds, Idle, TypeOK
  <2> QED BY <1>12, <2>1, NothingNew DEF SendEnds
<1>13. ASSUME NEW x \in Senders, RequestEnds(x) PROVE Once'
  <2>1. \A y \in Senders : sender'[y].rest \subseteq sender[y].rest
    BY <1>13 DEF RequestEnds, Idle, TypeOK
  <2> QED BY <1>13, <2>1, NothingNew DEF RequestEnds
<1>14. ASSUME NEW d \in hand, Settle(d) PROVE Once'
  BY <1>14, NothingNew DEF Settle
<1>15. ASSUME NEW d \in hand, Reply(d) PROVE Once'
  BY <1>15, AnsweredIsTheSame
<1> HIDE DEF Inv, subVars, flowVars
<1> QED
  BY <1>1, <1>2, <1>3, <1>4, <1>5, <1>6, <1>7, <1>8, <1>9, <1>10, <1>11, <1>12, <1>13,
     <1>14, <1>15 DEF Next, Delivering, Closing

\* A message that goes to one subscription goes to nobody else once it is taken.
LEMMA StepOnItsWay == Inv /\ [Next]_vars => OnItsWay' /\ OneTaker'
<1> SUFFICES ASSUME Inv, [Next]_vars PROVE OnItsWay' /\ OneTaker'
  OBVIOUS
<1> USE DEF Inv, subVars, flowVars
<1>0. ASSUME taken' = taken, kind' = kind, sent' = sent,
             \A x \in Senders : /\ sender'[x].rest \subseteq sender[x].rest
                                /\ sender[x].step = "idle" => sender'[x].step = "idle"
      PROVE  OnItsWay' /\ OneTaker'
  <2>1. (\A m : Begun(m)' = Begun(m)) /\ \A x \in Senders : Message(x)' = Message(x)
    BY <1>0 DEF Begun, Message
  <2>2. \A x \in Senders : sender'[x].step # "idle" \/ sender'[x].rest # {}
                             => sender[x].step # "idle" \/ sender[x].rest # {}
    BY <1>0
  <2>3. \A x \in Senders : \A s : sender[x].rest = {s} /\ sender'[x].rest # {} => sender'[x].rest = {s}
    BY <1>0
  <2> QED BY <1>0, <2>1, <2>2, <2>3 DEF OnItsWay, OneTaker
<1>1. CASE UNCHANGED vars
  BY <1>1, <1>0 DEF vars
<1>2. CASE InstallCoordinator
  BY <1>2, <1>0 DEF InstallCoordinator
<1>3. ASSUME NEW s \in Subs, Lease(s) PROVE OnItsWay' /\ OneTaker'
  BY <1>3, <1>0 DEF Lease
<1>4. ASSUME NEW s \in Subs, Register(s) PROVE OnItsWay' /\ OneTaker'
  BY <1>4, <1>0 DEF Register
<1>5. ASSUME NEW s \in Subs, DropChannel(s) PROVE OnItsWay' /\ OneTaker'
  BY <1>5, <1>0 DEF DropChannel
<1>6. ASSUME NEW s \in Subs, GiveUp(s) PROVE OnItsWay' /\ OneTaker'
  BY <1>6, <1>0 DEF GiveUp
<1>7. ASSUME NEW s \in Subs, FreeSlot(s) PROVE OnItsWay' /\ OneTaker'
  BY <1>7, <1>0 DEF FreeSlot
<1>8. ASSUME NEW s \in Subs, Handle(s) PROVE OnItsWay' /\ OneTaker'
  BY <1>8, <1>0 DEF Handle
<1>9. ASSUME NEW x \in Senders, NEW n \in Names, NEW inject \in BOOLEAN, Send(x, n, inject)
      PROVE  OnItsWay' /\ OneTaker'
  <2>1. /\ kind' = kind /\ taken' = taken /\ sent' = [sent EXCEPT ![x] = @ + 1]
        /\ sender'[x].rest = Chosen(n, inject)
        /\ \A y \in Senders \ {x} : sender'[y] = sender[y] /\ Message(y)' = Message(y)
        /\ Message(x)' = <<x, sent[x] + 1>> /\ Message(x)' \in Messages
    BY <1>9 DEF Send, TypeOK, Message, Messages
  <2>2. \A m \in Messages : Begun(m) => Begun(m)' /\ m # Message(x)'
    BY <2>1 DEF Messages, TypeOK, Begun, Message
  <2>3. \A t \in taken : t[2] \in Messages
    BY DEF TypeOK
  <2>4. \A t \in taken : Begun(t[2])' /\ t[2] # Message(x)'
    BY <2>2, <2>3 DEF OnItsWay
  <2>5. ASSUME kind # <<"fanout", "connect">>, NEW s \in Chosen(n, inject)
        PROVE  Chosen(n, inject) = {s}
    BY <2>5, PickIsOne
  <2>6. OneTaker'
    BY <2>1 DEF OneTaker
  <2>7. \A y \in Senders : sender'[y].step # "idle" \/ sender'[y].rest # {}
                             => Message(y)' \in Messages
    BY <2>1 DEF OnItsWay, Messages
  <2>8. ASSUME kind # <<"fanout", "connect">>, NEW y \in Senders, NEW s \in sender'[y].rest
        PROVE  sender'[y].rest = {s} /\ \A t \in taken : t[2] # Message(y)'
    <3>1. CASE y = x
      BY <3>1, <2>1, <2>4, <2>5, <2>8
    <3>2. CASE y # x
      BY <3>2, <2>1, <2>8 DEF OnItsWay
    <3> QED BY <3>1, <3>2
  <2> QED BY <2>1, <2>4, <2>6, <2>7, <2>8 DEF OnItsWay, Messages
<1>10. ASSUME NEW x \in Senders, Enqueued(x) PROVE OnItsWay' /\ OneTaker'
  <2>1. \A y \in Senders : sender'[y].rest = sender[y].rest
                           /\ (sender[y].step = "idle" => sender'[y].step = "idle")
    BY <1>10 DEF Enqueued, TypeOK, SendStates
  <2> QED BY <1>10, <2>1, <1>0 DEF Enqueued
<1>11. ASSUME NEW x \in Senders, HandOver(x) PROVE OnItsWay' /\ OneTaker'
  <2> PICK s \in sender[x].rest : HandOver(x)!(s)
    BY <1>11 DEF HandOver
  <2>1. /\ \A y \in Senders \ {x} : sender'[y] = sender[y]
        /\ sender'[x].rest = sender[x].rest \ {s} /\ sender[x].step # "idle"
        /\ kind' = kind /\ sent' = sent
    BY DEF TypeOK, SendStates
  <2>2. CASE life[s] = "open"
    <3>1. /\ taken' = taken \cup {<<s, Message(x)>>} /\ Message(x) \in Messages
          /\ \A y \in Senders : Message(y)' = Message(y)
          /\ \A y \in Senders : y # x => Message(y) # Message(x)
          /\ \A m : Begun(m)' = Begun(m)
      BY <2>1, <2>2, Handed DEF Message, Begun
    <3>2. Begun(Message(x))
      BY DEF Begun, Message, TypeOK
    <3>3. \A t \in taken' : Begun(t[2])'
      BY <3>1, <3>2 DEF OnItsWay
    <3>4. \A y \in Senders : sender'[y].step # "idle" \/ sender'[y].rest # {}
                               => Message(y)' \in Messages
      <4>1. \A y \in Senders : sender[y].step # "idle" \/ sender[y].rest # {}
                               => Message(y)' \in Messages
        BY <3>1 DEF OnItsWay
      <4>2. \A y \in Senders : sender'[y].step # "idle" \/ sender'[y].rest # {}
                               => sender[y].step # "idle" \/ sender[y].rest # {}
        BY <2>1
      <4> QED BY <4>1, <4>2
    <3>5. ASSUME kind # <<"fanout", "connect">>
          PROVE  /\ sender[x].rest = {s} /\ \A t \in taken : t[2] # Message(x)
      BY <3>5 DEF OnItsWay
    <3>6. ASSUME kind # <<"fanout", "connect">>, NEW y \in Senders, NEW u \in sender'[y].rest
          PROVE  sender'[y].rest = {u} /\ \A t \in taken' : t[2] # Message(y)'
      <4>1. y # x
        BY <2>1, <3>5, <3>6
      <4>2. sender[y].rest = {u} /\ \A t \in taken : t[2] # Message(y)
        BY <2>1, <3>6, <4>1 DEF OnItsWay
      <4>3. \A t \in taken' : t \in taken \/ t[2] = Message(x)
        BY <3>1
      <4>4. \A t \in taken' : t[2] # Message(y)
        BY <3>1, <4>1, <4>2, <4>3
      <4>5. sender'[y].rest = {u}
        BY <2>1, <4>1, <4>2
      <4> QED BY <3>1, <4>4, <4>5
    <3>7. OneTaker'
      BY <2>1, <3>1, <3>5 DEF OneTaker
    <3> QED BY <2>1, <3>3, <3>4, <3>6, <3>7 DEF OnItsWay
  <2>3. CASE life[s] # "open"
    <3>1. \A y \in Senders : sender'[y].rest \subseteq sender[y].rest
                             /\ (sender[y].step = "idle" => sender'[y].step = "idle")
      BY <2>1
    <3> QED BY <2>1, <2>3, <3>1, <1>0
  <2> QED BY <2>2, <2>3
<1>12. ASSUME NEW x \in Senders, SendEnds(x) PROVE OnItsWay' /\ OneTaker'
  <2>1. \A y \in Senders : sender'[y].rest \subseteq sender[y].rest
                           /\ (sender[y].step = "idle" => sender'[y].step = "idle")
    BY <1>12 DEF SendEnds, Idle, TypeOK
  <2> QED BY <1>12, <2>1, <1>0 DEF SendEnds
<1>13. ASSUME NEW x \in Senders, RequestEnds(x) PROVE OnItsWay' /\ OneTaker'
  <2>1. \A y \in Senders : sender'[y].rest \subseteq sender[y].rest
                           /\ (sender[y].step = "idle" => sender'[y].step = "idle")
    BY <1>13 DEF RequestEnds, Idle, TypeOK
  <2> QED BY <1>13, <2>1, <1>0 DEF RequestEnds
<1>14. ASSUME NEW d \in hand, Settle(d) PROVE OnItsWay' /\ OneTaker'
  BY <1>14, <1>0 DEF Settle
<1>15. ASSUME NEW d \in hand, Reply(d) PROVE OnItsWay' /\ OneTaker'
  BY <1>15, <1>0 DEF Reply
<1> HIDE DEF Inv, subVars, flowVars
<1> QED
  BY <1>1, <1>2, <1>3, <1>4, <1>5, <1>6, <1>7, <1>8, <1>9, <1>10, <1>11, <1>12, <1>13,
     <1>14, <1>15 DEF Next, Delivering, Closing

\* A foreign peer leaves with its answer; a new one comes with a message nobody holds.
LEMMA StepAskedOnce == Inv /\ [Next]_vars => AskedOnce'
<1> SUFFICES ASSUME Inv, [Next]_vars PROVE AskedOnce'
  OBVIOUS
<1> USE DEF Inv, subVars, flowVars
<1>1. CASE UNCHANGED vars
  BY <1>1 DEF vars, AskedOnce
<1>2. CASE InstallCoordinator
  BY <1>2 DEF InstallCoordinator, AskedOnce
<1>3. ASSUME NEW s \in Subs, Lease(s) PROVE AskedOnce'
  BY <1>3 DEF Lease, AskedOnce
<1>4. ASSUME NEW s \in Subs, Register(s) PROVE AskedOnce'
  BY <1>4 DEF Register, AskedOnce
<1>5. ASSUME NEW s \in Subs, DropChannel(s) PROVE AskedOnce'
  BY <1>5 DEF DropChannel, AskedOnce
<1>6. ASSUME NEW s \in Subs, GiveUp(s) PROVE AskedOnce'
  BY <1>6 DEF GiveUp, AskedOnce
<1>7. ASSUME NEW s \in Subs, FreeSlot(s) PROVE AskedOnce'
  BY <1>7 DEF FreeSlot, AskedOnce
<1>8. ASSUME NEW s \in Subs, Handle(s) PROVE AskedOnce'
  <2>1. Head(chan[s]) = chan[s][1] /\ 1 \in DOMAIN chan[s]
    BY <1>8 DEF Handle, TypeOK
  <2>2. Head(chan[s]).replies = 0
    BY <2>1 DEF Once, Known
  <2> QED BY <1>8, <2>2 DEF Handle, AskedOnce
<1>9. ASSUME NEW x \in Senders, NEW n \in Names, NEW inject \in BOOLEAN, Send(x, n, inject)
      PROVE  AskedOnce'
  <2>1. hand' = hand /\ \A m : m # <<x, sent[x] + 1>> => peers'[m] = peers[m]
    BY <1>9 DEF Send, TypeOK
  <2>2. \A d \in hand : d.msg # <<x, sent[x] + 1>>
    BY DEF TypeOK, Once, Known, Begun
  <2> QED BY <2>1, <2>2 DEF AskedOnce
<1>10. ASSUME NEW x \in Senders, Enqueued(x) PROVE AskedOnce'
  BY <1>10 DEF Enqueued, AskedOnce
<1>11. ASSUME NEW x \in Senders, HandOver(x) PROVE AskedOnce'
  BY <1>11 DEF HandOver, AskedOnce
<1>12. ASSUME NEW x \in Senders, SendEnds(x) PROVE AskedOnce'
  BY <1>12 DEF SendEnds, AskedOnce
<1>13. ASSUME NEW x \in Senders, RequestEnds(x) PROVE AskedOnce'
  <2>1. hand' = hand /\ \A m \in Messages : peers'[m] = "foreign" => peers[m] = "foreign"
    BY <1>13 DEF RequestEnds, TypeOK
  <2>2. \A d \in hand : d.msg \in Messages
    BY Answered DEF TypeOK
  <2> QED BY <2>1, <2>2 DEF AskedOnce
<1>14. ASSUME NEW d \in hand, Settle(d) PROVE AskedOnce'
  BY <1>14 DEF Settle, AskedOnce
<1>15. ASSUME NEW d \in hand, Reply(d) PROVE AskedOnce'
  <2> DEFINE e == [d EXCEPT !.replies = @ + 1]
  <2>1. e.msg = d.msg /\ d.msg \in Messages /\ hand' = (hand \ {d}) \cup {e}
    BY <1>15, Answered DEF Reply, TypeOK
  <2>2. \A m \in Messages : peers'[m] = "foreign" => peers[m] = "foreign" /\ m # d.msg
    BY <1>15, <2>1 DEF Reply, TypeOK
  <2>3. \A f \in hand : f.msg \in Messages
    BY Answered DEF TypeOK
  <2> HIDE DEF e
  <2> QED BY <2>1, <2>2, <2>3 DEF AskedOnce
<1> HIDE DEF Inv, subVars, flowVars
<1> QED
  BY <1>1, <1>2, <1>3, <1>4, <1>5, <1>6, <1>7, <1>8, <1>9, <1>10, <1>11, <1>12, <1>13,
     <1>14, <1>15 DEF Next, Delivering, Closing

------------------------------------------------------------------------------
(* The count. *)

Live == InChannels \cup hand
CountedLive == {d \in InChannels \cup hand : d.counted}

\* What the count is made of is finite.
LEMMA LiveFinite ==
  ASSUME Finite
  PROVE  IsFiniteSet(Live) /\ IsFiniteSet(CountedLive) /\ CountedLive \subseteq Live
         /\ Cardinality(CountedLive) \in Nat /\ Cardinality(CountedSenders) \in Nat
<1>1. IsFiniteSet(Live)
  BY FS_Union DEF Finite, Live
<1>2. CountedLive \subseteq Live
  BY DEF CountedLive, Live
<1>3. IsFiniteSet(CountedLive)
  BY <1>1, <1>2, FS_Subset
<1> QED BY <1>1, <1>2, <1>3, FS_CardinalityType DEF Finite

\* The count and what it counts, when neither changes.
LEMMA SameCount ==
  ASSUME Finite, CountExact, InChannels' = InChannels, hand' = hand,
         CountedSenders' = CountedSenders, inflight' = inflight
  PROVE  Finite' /\ CountExact'
BY DEF Finite, CountExact

\* Senders that are not about to hand over a counted delivery, before nor after.
LEMMA SameSenders ==
  ASSUME NEW x \in Senders,
         ~(sender[x].step = "counted" /\ sender[x].counted),
         ~(sender'[x].step = "counted" /\ sender'[x].counted),
         \A y \in Senders \ {x} : sender'[y] = sender[y]
  PROVE  CountedSenders' = CountedSenders
BY DEF CountedSenders

\* Whoever is in a channel is there for the channel's subscription.
LEMMA InChannel ==
  ASSUME TypeOK, Once, NEW d \in InChannels
  PROVE  d \in Deliveries /\ \E i \in DOMAIN chan[d.sub] : chan[d.sub][i] = d
<1>1. PICK s \in Subs : \E i \in DOMAIN chan[s] : d = chan[s][i]
  BY DEF InChannels
<1>2. d.sub = s /\ d \in Deliveries
  BY <1>1 DEF Once, Known, TypeOK
<1> QED BY <1>1, <1>2

\* A delivery is in one place: held, it is in no channel.
LEMMA HeldIsNotQueued ==
  ASSUME TypeOK, Once, NEW d \in hand, NEW e, e.sub = d.sub, e.msg = d.msg
  PROVE  e \notin InChannels
<1> SUFFICES ASSUME e \in InChannels PROVE FALSE
  OBVIOUS
<1>1. PICK i \in DOMAIN chan[e.sub] : chan[e.sub][i] = e
  BY InChannel
<1> QED BY <1>1 DEF Once, QueuedOrHeld

\* A delivery is counted as its sender takes it up, if a coordinator watches.
LEMMA EnqueuedCounts ==
  ASSUME Inv, NEW x \in Senders, Enqueued(x)
  PROVE  Finite' /\ CountExact'
<1> USE DEF Inv
<1>1. /\ InChannels' = InChannels /\ hand' = hand
      /\ x \notin CountedSenders
  BY DEF Enqueued, flowVars, InChannels, CountedSenders
<1>2. CASE watched
  <2>1. CountedSenders' = CountedSenders \cup {x}
    BY <1>2 DEF Enqueued, CountedSenders, TypeOK, SendStates
  <2>2. /\ IsFiniteSet(CountedSenders')
        /\ Cardinality(CountedSenders') = Cardinality(CountedSenders) + 1
    BY <1>1, <2>1, FS_AddElement DEF Finite
  <2>3. inflight' = inflight + 1
    BY <1>2 DEF Enqueued, One
  <2> QED BY <1>1, <2>2, <2>3, LiveFinite DEF Finite, CountExact, CountedLive
<1>3. CASE ~watched
  <2>1. CountedSenders' = CountedSenders
    BY <1>3 DEF Enqueued, CountedSenders, TypeOK, SendStates
  <2>2. inflight' = inflight
    BY <1>3 DEF Enqueued, One, TypeOK
  <2> QED BY <1>1, <2>1, <2>2, SameCount
<1> QED BY <1>2, <1>3

\* The hand-over moves a counted delivery into its channel, or drops it with its count.
LEMMA HandOverCounts ==
  ASSUME Inv, NEW x \in Senders, HandOver(x)
  PROVE  Finite' /\ CountExact'
<1> USE DEF Inv
<1> PICK s \in sender[x].rest : HandOver(x)!(s)
  BY DEF HandOver
<1> DEFINE d == DeliveryTo(s, x)
           c == sender[x].counted
<1>1. /\ s \in Subs /\ d \in Deliveries /\ d.sub = s /\ d.msg = Message(x)
      /\ d.counted = c /\ c \in BOOLEAN
  BY Handed DEF Deliveries
<1>2. hand' = hand /\ CountedSenders' = CountedSenders \ {x} /\ (x \in CountedSenders <=> c)
  BY DEF CountedSenders, TypeOK, SendStates
<1>3. /\ IsFiniteSet(CountedSenders')
      /\ Cardinality(CountedSenders') = IF c THEN Cardinality(CountedSenders) - 1
                                             ELSE Cardinality(CountedSenders)
  BY <1>2, FS_RemoveElement DEF Finite
<1>4. CASE life[s] = "open"
  <2>1. InChannels' = InChannels \cup {d} /\ inflight' = inflight
    BY <1>1, <1>4, ChannelAppend
  <2>2. d \notin Live
    <3>1. d \notin hand
      BY <1>1 DEF Once, NotYetThere
    <3>2. d \notin InChannels
      <4> SUFFICES ASSUME d \in InChannels PROVE FALSE
        OBVIOUS
      <4>1. PICK i \in DOMAIN chan[s] : chan[s][i] = d
        BY <1>1, InChannel
      <4> QED BY <1>1, <4>1 DEF Once, NotYetThere
    <3> QED BY <3>1, <3>2 DEF Live
  <2>3. IsFiniteSet(InChannels')
    BY <2>1, FS_AddElement DEF Finite
  <2>4. CountedLive' = IF c THEN CountedLive \cup {d} ELSE CountedLive
    BY <1>1, <1>2, <2>1 DEF CountedLive
  <2>5. Cardinality(CountedLive') = IF c THEN Cardinality(CountedLive) + 1
                                         ELSE Cardinality(CountedLive)
    BY <2>2, <2>4, LiveFinite, FS_AddElement
  <2> QED BY <1>1, <1>2, <1>3, <2>1, <2>3, <2>5, LiveFinite DEF Finite, CountExact, CountedLive
<1>5. CASE life[s] # "open"
  <2>1. InChannels' = InChannels /\ inflight' = inflight - One(c)
    BY <1>5 DEF InChannels
  <2> QED BY <1>1, <1>2, <1>3, <2>1, LiveFinite DEF Finite, CountExact, CountedLive, One
<1> QED BY <1>4, <1>5

\* A subscription that goes gives back the counts of the deliveries in its channel.
LEMMA DropChannelCounts ==
  ASSUME Inv, NEW s \in Subs, DropChannel(s)
  PROVE  Finite' /\ CountExact'
<1> USE DEF Inv
<1> DEFINE D == CountedIn(chan[s])
<1>1. hand' = hand /\ CountedSenders' = CountedSenders /\ inflight' = inflight - Counted(chan[s])
  BY DEF DropChannel, CountedSenders
<1>2. IsFiniteSet(D) /\ Cardinality(D) = Counted(chan[s]) /\ Counted(chan[s]) \in Nat
  <2>1. chan[s] \in Seq(Deliveries)
        /\ \A i, j \in DOMAIN chan[s] : chan[s][i].msg = chan[s][j].msg => i = j
    BY DEF Once, QueuedOnce, TypeOK
  <2> QED BY <2>1, ChannelCounted
<1>3. InChannels' = InChannels \ {chan[s][i] : i \in DOMAIN chan[s]}
  BY ChannelEmptied DEF DropChannel, Once
<1>4. \A i \in DOMAIN chan[s] : chan[s][i] \notin hand
  BY DEF Once, QueuedOrHeld, Known
<1>5. D \subseteq CountedLive
  BY DEF CountedIn, CountedLive, InChannels
<1>6. CountedLive' = CountedLive \ D
  BY <1>1, <1>3, <1>4 DEF CountedLive, CountedIn
<1>7. IsFiniteSet(InChannels')
  BY <1>3, FS_Subset DEF Finite
<1>8. Cardinality(CountedLive') = Cardinality(CountedLive) - Cardinality(D)
  <2>1. CountedLive \cap D = D
    BY <1>5
  <2> QED BY <1>6, <2>1, LiveFinite, FS_Difference
<1> QED BY <1>1, <1>2, <1>7, <1>8, LiveFinite DEF Finite, CountExact, CountedLive

\* Between its channel and its handler a delivery keeps its count.
LEMMA HandleCounts ==
  ASSUME Inv, NEW s \in Subs, Handle(s)
  PROVE  Finite' /\ CountExact'
<1> USE DEF Inv
<1>1. /\ InChannels = InChannels' \cup {Head(chan[s])} /\ hand' = hand \cup {Head(chan[s])}
      /\ CountedSenders' = CountedSenders /\ inflight' = inflight
  BY ChannelHead DEF Handle, CountedSenders, subVars
<1>2. CountedLive' = CountedLive
  BY <1>1 DEF CountedLive
<1>3. IsFiniteSet(InChannels') /\ IsFiniteSet(hand')
  BY <1>1, FS_Subset, FS_AddElement DEF Finite
<1> QED BY <1>1, <1>2, <1>3 DEF Finite, CountExact, CountedLive

\* A delivery gives its count back as it is settled, once.
LEMMA SettleCounts ==
  ASSUME Inv, NEW d \in hand, Settle(d)
  PROVE  Finite' /\ CountExact'
<1> USE DEF Inv
<1>1. /\ InChannels' = InChannels /\ hand' = hand \ {d} /\ CountedSenders' = CountedSenders
      /\ inflight' = inflight - One(d.counted)
  BY DEF Settle, InChannels, CountedSenders
<1>2. d \notin InChannels /\ d.counted \in BOOLEAN
  BY HeldIsNotQueued DEF TypeOK, Deliveries
<1>3. CountedLive' = CountedLive \ {d} /\ (d \in CountedLive <=> d.counted)
  BY <1>1, <1>2 DEF CountedLive
<1>4. IsFiniteSet(hand')
  BY <1>1, FS_Subset DEF Finite
<1>5. Cardinality(CountedLive') = IF d.counted THEN Cardinality(CountedLive) - 1
                                               ELSE Cardinality(CountedLive)
  BY <1>3, LiveFinite, FS_RemoveElement
<1> QED BY <1>1, <1>2, <1>4, <1>5, LiveFinite DEF Finite, CountExact, CountedLive, One

\* A reply leaves the count of the delivery it answers alone.
LEMMA ReplyCounts ==
  ASSUME Inv, NEW d \in hand, Reply(d)
  PROVE  Finite' /\ CountExact'
<1> USE DEF Inv
<1> DEFINE e == [d EXCEPT !.replies = @ + 1]
<1>1. /\ InChannels' = InChannels /\ hand' = (hand \ {d}) \cup {e}
      /\ CountedSenders' = CountedSenders /\ inflight' = inflight
  BY DEF Reply, InChannels, CountedSenders
<1>2. /\ d \in Deliveries /\ e.sub = d.sub /\ e.msg = d.msg /\ e.counted = d.counted
      /\ e.replies = d.replies + 1 /\ d.replies \in Nat
  BY Answered DEF TypeOK, Deliveries
<1> HIDE DEF e
<1>3. d \notin InChannels /\ e \notin InChannels
  BY <1>2, HeldIsNotQueued
<1>4. e \notin hand
  BY <1>2 DEF Once, HeldOnce
<1>5. IsFiniteSet(hand')
  BY <1>1, FS_RemoveElement, FS_AddElement DEF Finite
<1>6. Cardinality(CountedLive') = Cardinality(CountedLive)
  <2>1. CASE d.counted
    <3>1. CountedLive' = (CountedLive \ {d}) \cup {e} /\ d \in CountedLive
          /\ e \notin CountedLive \ {d}
      BY <1>1, <1>2, <1>3, <1>4, <2>1 DEF CountedLive
    <3>2. IsFiniteSet(CountedLive \ {d})
          /\ Cardinality(CountedLive \ {d}) = Cardinality(CountedLive) - 1
      BY <3>1, LiveFinite, FS_RemoveElement
    <3>3. Cardinality(CountedLive') = Cardinality(CountedLive \ {d}) + 1
      BY <3>1, <3>2, FS_AddElement
    <3> QED BY <3>2, <3>3, LiveFinite
  <2>2. CASE ~d.counted
    <3>1. CountedLive' = CountedLive
      BY <1>1, <1>2, <2>2 DEF CountedLive
    <3> QED BY <3>1
  <2> QED BY <2>1, <2>2
<1> QED BY <1>1, <1>5, <1>6 DEF Finite, CountExact, CountedLive

\* No step makes the count differ from the deliveries that are counted.
LEMMA StepCountExact == Inv /\ [Next]_vars => Finite' /\ CountExact'
<1> SUFFICES ASSUME Inv, [Next]_vars PROVE Finite' /\ CountExact'
  OBVIOUS
<1> USE DEF Inv, subVars, flowVars
<1>0. ASSUME chan' = chan, hand' = hand, inflight' = inflight, CountedSenders' = CountedSenders
      PROVE  Finite' /\ CountExact'
  <2>1. InChannels' = InChannels
    BY <1>0 DEF InChannels
  <2> QED BY <1>0, <2>1, SameCount
<1>1. CASE UNCHANGED vars
  BY <1>1, <1>0 DEF vars, CountedSenders
<1>2. CASE InstallCoordinator
  BY <1>2, <1>0 DEF InstallCoordinator, CountedSenders
<1>3. ASSUME NEW s \in Subs, Lease(s) PROVE Finite' /\ CountExact'
  BY <1>3, <1>0 DEF Lease, CountedSenders
<1>4. ASSUME NEW s \in Subs, Register(s) PROVE Finite' /\ CountExact'
  BY <1>4, <1>0 DEF Register, CountedSenders
<1>5. ASSUME NEW s \in Subs, DropChannel(s) PROVE Finite' /\ CountExact'
  BY <1>5, DropChannelCounts
<1>6. ASSUME NEW s \in Subs, GiveUp(s) PROVE Finite' /\ CountExact'
  BY <1>6, <1>0 DEF GiveUp, CountedSenders
<1>7. ASSUME NEW s \in Subs, FreeSlot(s) PROVE Finite' /\ CountExact'
  BY <1>7, <1>0 DEF FreeSlot, CountedSenders
<1>8. ASSUME NEW s \in Subs, Handle(s) PROVE Finite' /\ CountExact'
  BY <1>8, HandleCounts
<1>9. ASSUME NEW x \in Senders, NEW n \in Names, NEW inject \in BOOLEAN, Send(x, n, inject)
      PROVE  Finite' /\ CountExact'
  <2>1. /\ sender[x].step = "idle" /\ sender'[x].step = "picked"
        /\ \A y \in Senders \ {x} : sender'[y] = sender[y]
    BY <1>9 DEF Send, TypeOK
  <2>2. CountedSenders' = CountedSenders
    BY <2>1, SameSenders
  <2> QED BY <1>9, <2>2, <1>0 DEF Send
<1>10. ASSUME NEW x \in Senders, Enqueued(x) PROVE Finite' /\ CountExact'
  BY <1>10, EnqueuedCounts
<1>11. ASSUME NEW x \in Senders, HandOver(x) PROVE Finite' /\ CountExact'
  BY <1>11, HandOverCounts
<1>12. ASSUME NEW x \in Senders, SendEnds(x) PROVE Finite' /\ CountExact'
  <2>1. /\ sender[x].step = "picked" /\ sender'[x].step \in {"waiting", "idle"}
        /\ \A y \in Senders \ {x} : sender'[y] = sender[y]
    BY <1>12 DEF SendEnds, Idle, TypeOK
  <2>2. CountedSenders' = CountedSenders
    BY <2>1, SameSenders
  <2> QED BY <1>12, <2>2, <1>0 DEF SendEnds
<1>13. ASSUME NEW x \in Senders, RequestEnds(x) PROVE Finite' /\ CountExact'
  <2>1. /\ sender[x].step = "waiting" /\ sender'[x].step = "idle"
        /\ \A y \in Senders \ {x} : sender'[y] = sender[y]
    BY <1>13 DEF RequestEnds, Idle, TypeOK
  <2>2. CountedSenders' = CountedSenders
    BY <2>1, SameSenders
  <2> QED BY <1>13, <2>2, <1>0 DEF RequestEnds
<1>14. ASSUME NEW d \in hand, Settle(d) PROVE Finite' /\ CountExact'
  BY <1>14, SettleCounts
<1>15. ASSUME NEW d \in hand, Reply(d) PROVE Finite' /\ CountExact'
  BY <1>15, ReplyCounts
<1> HIDE DEF Inv, subVars, flowVars
<1> QED
  BY <1>1, <1>2, <1>3, <1>4, <1>5, <1>6, <1>7, <1>8, <1>9, <1>10, <1>11, <1>12, <1>13,
     <1>14, <1>15 DEF Next, Delivering, Closing

------------------------------------------------------------------------------
\* The invariant holds of every run: the types, the places, the one way of a delivery from its
\* sender through a channel to a handler, and the count (Bus::subscribe, send, reply and settle
\* in in_process.rs, with the subscriptions of common.rs).
THEOREM Safety == Spec => []Inv
<1>1. Inv /\ [Next]_vars => Inv'
  BY StepTypeOK, StepPlaced, StepOnce, StepOnItsWay, StepAskedOnce, StepCountExact DEF Inv
<1> QED BY InitInv, <1>1, PTL DEF Spec

\* The coordinator's count is exact whatever opens, closes, sends and settles, so it is never
\* below zero and a harness that sees zero sees no delivery in flight.
THEOREM CountIsExact == Spec => [](CountExact /\ inflight \in Nat)
<1>1. Inv => CountExact /\ inflight \in Nat
  BY LiveFinite DEF Inv, CountExact, CountedLive
<1> QED BY <1>1, Safety, PTL

\* A bound endpoint has one place on the transport: that of the subscription that holds it.
THEOREM PlaceIsHeld == Spec => []OnePlace
<1>1. Inv => OnePlace
  BY DEF Inv, Placed, OnePlace, TypeOK
<1> QED BY <1>1, Safety, PTL

\* A message for one subscription is taken by one.
THEOREM TakenByOne == Spec => []OneTaker
BY Safety, PTL DEF Inv

\* A foreign peer that is still connected has not been answered.
THEOREM ForeignAskedOnce == Spec => []AskedOnce
BY Safety, PTL DEF Inv
==============================================================================
