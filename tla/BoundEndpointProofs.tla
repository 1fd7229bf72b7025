------------------------- MODULE BoundEndpointProofs -------------------------
(***************************************************************************)
(* What BoundEndpoint guarantees for every number of subscriptions,        *)
(* publishers, callers and cancellations: the inductive invariant Inv,     *)
(* what follows from it, and that the endpoint is the lease EndpointLease  *)
(* specifies.                                                              *)
(***************************************************************************)
EXTENDS BoundEndpoint, TLAPS

------------------------------------------------------------------------------
(* Types.  Places and jobs stay folded: the lemmas say which there are.      *)

LEMMA Places ==
  /\ Nowhere \in Place /\ Here \in Place
  /\ NoListener \in [gen : Nat, sub : Subs \cup {NoOne}]
  /\ \A pl \in Place : /\ JobAt("none", pl) \in Job /\ JobAt("spawned", pl) \in Job
                       /\ JobAt("aimed", pl) \in Job /\ JobAt("done", pl) \in Job
                       /\ JobAt("failed", pl) \in Job
  /\ NoJob \in Job
BY DEF Nowhere, Here, Place, NoJob, Job, JobAt, NoListener

LEMMA Targets ==
  ASSUME listener \in [gen : Nat, sub : Subs \cup {NoOne}]
  PROVE  SendTarget \in Place
BY Places DEF SendTarget, Loopback, Place

LEMMA Dialed ==
  ASSUME NEW j \in Job, NEW g \in Nat
  PROVE  j.place \in Place /\ Loopback(j.place, g) \in Place
BY DEF Job, Place, Loopback

LEMMA TypeInit == Init => TypeOK
<1> SUFFICES ASSUME Init PROVE TypeOK
  OBVIOUS
<1> USE Places, NamesAssumption, KindAssumption DEF Init
<1>1. slot \in [Pubs -> Place] /\ job \in [Tasks -> Job]
  OBVIOUS
<1>2. callPc \in [Tasks -> {"idle", "lockSlot", "lockBinding", "checkSlot",
                            "attaching", "installing", "sending"}]
  OBVIOUS
<1>3. subPc \in [Subs -> {"idle", "queued", "yielding", "open"}]
      /\ held \in [Subs -> Nat]
  OBVIOUS
<1>4. /\ callName \in [Tasks -> Subs \cup {NoOne}]
      /\ slotLock \in [Pubs -> Tasks \cup {NoOne}]
      /\ detached \in [Tasks -> {"none", "spawned", "aimed", "bound"}]
      /\ left \in [Tasks -> Nat]
  OBVIOUS
<1> QED
  BY <1>1, <1>2, <1>3, <1>4 DEF TypeOK

(* A caller goes on, proceeds after an attach, or returns. *)
LEMMA CallerTyped ==
  ASSUME TypeOK, NEW t \in Tasks
  PROVE  /\ \A l \in {"idle", "lockSlot", "lockBinding", "checkSlot", "attaching",
                      "installing", "sending"} :
              Goto(t, l) => callPc' \in [Tasks -> {"idle", "lockSlot",
                "lockBinding", "checkSlot", "attaching", "installing", "sending"}]
         /\ Returns(t) => callName' \in [Tasks -> Subs \cup {NoOne}]
         /\ Proceeds(t) => callName' \in [Tasks -> Subs \cup {NoOne}]
         /\ Returns(t) => Goto(t, "idle")
         /\ Proceeds(t) => Goto(t, "idle") \/ Goto(t, "lockSlot")
<1>1. ASSUME NEW l \in {"idle", "lockSlot", "lockBinding", "checkSlot", "attaching",
                       "installing", "sending"}, Goto(t, l)
      PROVE  callPc' \in [Tasks -> {"idle", "lockSlot", "lockBinding", "checkSlot",
                                    "attaching", "installing", "sending"}]
  BY <1>1 DEF TypeOK, Goto
<1>2. Returns(t) => callName' \in [Tasks -> Subs \cup {NoOne}]
  BY DEF TypeOK, Returns
<1>3. Proceeds(t) => callName' \in [Tasks -> Subs \cup {NoOne}]
  BY <1>2 DEF TypeOK, Proceeds
<1>4. /\ Returns(t) => Goto(t, "idle")
      /\ Proceeds(t) => Goto(t, "idle") \/ Goto(t, "lockSlot")
  BY DEF Returns, Proceeds
<1> QED BY <1>1, <1>2, <1>3, <1>4

LEMMA TypeStep == TypeOK /\ [Next]_vars => TypeOK'
<1> SUFFICES ASSUME TypeOK, [Next]_vars PROVE TypeOK'
  OBVIOUS
<1> USE NamesAssumption, Places DEF TypeOK, subVars, callVars
<1>1. CASE Shutdown
  BY <1>1 DEF Shutdown
<1>2. ASSUME NEW s \in Subs, Subscribe(s) PROVE TypeOK'
  BY <1>2 DEF Subscribe
<1>3. ASSUME NEW s \in Subs, DropSubscription(s) PROVE TypeOK'
  BY <1>3 DEF DropSubscription
<1>4. ASSUME NEW s \in Subs, Opening(s) PROVE TypeOK'
  <2>1. CASE RefuseSubscription(s) BY <2>1 DEF RefuseSubscription
  <2>2. CASE TakeBinding(s) BY <2>2 DEF TakeBinding
  <2>3. CASE ReleaseSocket(s) BY <2>3 DEF ReleaseSocket
  <2>4. CASE BindSocket(s) BY <2>4 DEF BindSocket
  <2>5. CASE BindFails(s) BY <2>5 DEF BindFails
  <2>6. ASSUME NEW p \in Pubs, TakeSlot(s, p) PROVE TypeOK' BY <2>6 DEF TakeSlot
  <2> QED BY <1>4, <2>1, <2>2, <2>3, <2>4, <2>5, <2>6 DEF Opening
<1>5. ASSUME NEW t \in Tasks, Attaching(t) PROVE TypeOK'
  <2> DEFINE PcTyped == callPc' \in [Tasks -> {"idle", "lockSlot", "lockBinding",
                          "checkSlot", "attaching", "installing", "sending"}]
             NameTyped == callName' \in [Tasks -> Subs \cup {NoOne}]
  <2>1. CASE LockBinding(t)
    <3>1. PcTyped BY <2>1, CallerTyped DEF LockBinding
    <3> QED BY <2>1, <3>1 DEF LockBinding
  <2>2. CASE CheckSlot(t)
    <3>1. job' \in [Tasks -> Job]
      <4>1. JobAt("spawned", Nowhere) \in Job
        OBVIOUS
      <4>2. job' = job \/ job' = [job EXCEPT ![t] = JobAt("spawned", Nowhere)]
        BY <2>2 DEF CheckSlot
      <4> HIDE DEF TypeOK
      <4>3. job \in [Tasks -> Job]
        BY DEF TypeOK
      <4> QED BY <4>1, <4>2, <4>3
    <3>2. \/ Goto(t, "attaching") /\ UNCHANGED <<binding, callName>>
          \/ Proceeds(t) /\ binding' = NoOne
      BY <2>2 DEF CheckSlot
    <3>3. PcTyped /\ NameTyped
      BY <3>2, CallerTyped
    <3>4. binding' \in Subs \cup Tasks \cup {NoOne}
      BY <3>2
    <3>5. UNCHANGED <<closed, listener, listening, yielding, releasing, subPc, held,
                      opens, lastGen, sockets, slot, slotLock, left, detached,
                      lingering, cancels, arrived>>
      BY <2>2 DEF CheckSlot
    <3> QED BY <3>1, <3>3, <3>4, <3>5
  <2>3. CASE Aim(t) BY <2>3, Targets DEF Aim
  <2>4. CASE AttachListens(t) BY <2>4 DEF AttachListens
  <2>5. CASE AttachDials(t)
    <3>1. \A g \in Nat : JobAt("done", Loopback(job[t].place, g)) \in Job
      BY Dialed
    <3>2. ASSUME \E g \in Reached(job[t].place.gen) :
                   job' = [job EXCEPT ![t] = JobAt("done", Loopback(job[t].place, g))]
          PROVE  job' \in [Tasks -> Job]
      <4>1. PICK g \in Nat :
              job' = [job EXCEPT ![t] = JobAt("done", Loopback(job[t].place, g))]
        BY <3>2 DEF Reached
      <4> QED BY <4>1, <3>1
    <3>3. ASSUME job' = [job EXCEPT ![t] = JobAt("failed", Nowhere)]
          PROVE  job' \in [Tasks -> Job]
      BY <3>3
    <3>4. job' \in [Tasks -> Job]
      BY <2>5, <3>2, <3>3 DEF AttachDials
    <3> QED BY <2>5, <3>4 DEF AttachDials
  <2>6. CASE Record(t)
    <3>1. PcTyped BY <2>6, CallerTyped DEF Record
    <3>2. listening' \in SUBSET Pubs
      <4>1. PubOf[t] \in Pubs
        OBVIOUS
      <4> QED BY <2>6, <4>1 DEF Record
    <3> QED BY <2>6, <3>1, <3>2 DEF Record
  <2>7. CASE AttachFails(t)
    <3>1. PcTyped /\ NameTyped BY <2>7, CallerTyped DEF AttachFails
    <3>2. job' \in [Tasks -> Job] BY <2>7 DEF AttachFails
    <3> QED BY <2>7, <3>1, <3>2 DEF AttachFails
  <2>8. CASE Install(t)
    <3>1. PcTyped /\ NameTyped BY <2>8, CallerTyped DEF Install
    <3>2. job' \in [Tasks -> Job] BY <2>8 DEF Install
    <3>3. slot' \in [Pubs -> Place]
      <4>1. job[t].place \in Place BY DEF Job
      <4> QED BY <2>8, <4>1 DEF Install
    <3> QED BY <2>8, <3>1, <3>2, <3>3 DEF Install
  <2> QED BY <1>5, <2>1, <2>2, <2>3, <2>4, <2>5, <2>6, <2>7, <2>8 DEF Attaching
<1>6. ASSUME NEW t \in Tasks, Sending(t) PROVE TypeOK'
  <2> DEFINE PcTyped == callPc' \in [Tasks -> {"idle", "lockSlot", "lockBinding",
                          "checkSlot", "attaching", "installing", "sending"}]
             NameTyped == callName' \in [Tasks -> Subs \cup {NoOne}]
             LockTyped == slotLock' \in [Pubs -> Tasks \cup {NoOne}]
  <2>1. CASE LockSlot(t)
    <3>1. PcTyped /\ LockTyped BY <2>1, CallerTyped DEF LockSlot
    <3> QED BY <2>1, <3>1 DEF LockSlot
  <2>2. Unlock(t) => PcTyped /\ NameTyped /\ LockTyped
    BY CallerTyped DEF Unlock
  <2>3. CASE RefuseName(t) BY <2>2, <2>3 DEF RefuseName
  <2>4. CASE SendLocal(t)
    <3>1. arrived' \in SUBSET (Tasks \X (Subs \cup {NoOne}) \X Subs)
      BY <2>4 DEF SendLocal
    <3> QED BY <2>2, <2>4, <3>1 DEF SendLocal
  <2>5. CASE SendAway(t) BY <2>2, <2>5 DEF SendAway
  <2> QED BY <1>6, <2>1, <2>3, <2>4, <2>5 DEF Sending
<1>7. ASSUME NEW t \in Tasks, Pair(t) PROVE TypeOK'
  <2>1. callPc' \in [Tasks -> {"idle", "lockSlot", "lockBinding", "checkSlot",
                               "attaching", "installing", "sending"}]
    BY <1>7, CallerTyped DEF Pair
  <2>2. left' \in [Tasks -> Nat]
    BY <1>7 DEF Pair
  <2> QED BY <1>7, <2>1, <2>2 DEF Pair
<1>8. ASSUME NEW t \in Tasks, Cancel(t) PROVE TypeOK'
  <2>1. detached' \in [Tasks -> {"none", "spawned", "aimed", "bound"}]
    BY <1>8 DEF Cancel, Abandoned
  <2>2. Returns(t)
    BY <1>8 DEF Cancel
  <2>3. /\ callPc' \in [Tasks -> {"idle", "lockSlot", "lockBinding", "checkSlot",
                                  "attaching", "installing", "sending"}]
        /\ callName' \in [Tasks -> Subs \cup {NoOne}]
    BY <2>2, CallerTyped
  <2>4. slotLock' \in [Pubs -> Tasks \cup {NoOne}] /\ job' \in [Tasks -> Job]
    BY <1>8 DEF Cancel
  <2>5. cancels' \in Nat /\ binding' \in Subs \cup Tasks \cup {NoOne}
    BY <1>8 DEF Cancel
  <2> QED BY <1>8, <2>1, <2>3, <2>4, <2>5 DEF Cancel
<1>9. ASSUME NEW t \in Tasks, NEW n \in Subs, Publish(t, n) PROVE TypeOK'
  <2>1. /\ callPc' \in [Tasks -> {"idle", "lockSlot", "lockBinding", "checkSlot",
                                  "attaching", "installing", "sending"}]
        /\ callName' \in [Tasks -> Subs \cup {NoOne}]
    BY <1>9, CallerTyped DEF Publish
  <2>2. left' \in [Tasks -> Nat]
    BY <1>9 DEF Publish
  <2>3. arrived' \in SUBSET (Tasks \X (Subs \cup {NoOne}) \X Subs)
    BY <1>9 DEF Publish
  <2> QED BY <1>9, <2>1, <2>2, <2>3 DEF Publish
<1>10. ASSUME NEW p \in Pubs, DropPublisher(p) PROVE TypeOK'
  BY <1>10 DEF DropPublisher
<1>11. CASE System
  <2>1. ASSUME NEW g \in sockets, ReapSocket(g) PROVE TypeOK'
    BY <2>1 DEF ReapSocket
  <2>2. ASSUME NEW t \in Tasks, DetachedAim(t) PROVE TypeOK'
    BY <2>2 DEF DetachedAim
  <2>3. ASSUME NEW t \in Tasks, DetachedListens(t) PROVE TypeOK'
    BY <2>3 DEF DetachedListens
  <2>4. ASSUME NEW t \in Tasks, DetachedGone(t) PROVE TypeOK'
    BY <2>4 DEF DetachedGone
  <2>5. ASSUME NEW p \in Pubs, LingererGone(p) PROVE TypeOK'
    BY <2>5 DEF LingererGone
  <2> QED BY <1>11, <2>1, <2>2, <2>3, <2>4, <2>5 DEF System
<1>12. CASE UNCHANGED vars
  BY <1>12 DEF vars
<1> QED
  BY <1>1, <1>2, <1>3, <1>4, <1>5, <1>6, <1>7, <1>8, <1>9, <1>10, <1>11, <1>12
     DEF Next, Callers

------------------------------------------------------------------------------
(* The steps of an open keep the invariant (hold_listener, give_way, release). *)
LEMMA OpeningKeeps ==
  ASSUME Inv, TypeOK', NEW s \in Subs, Opening(s)
  PROVE  Inv'
<1> USE NamesAssumption DEF Inv, TypeOK, subVars, callVars
<1>1. CASE RefuseSubscription(s)
  <2> USE <1>1 DEF RefuseSubscription
  <2>1. BindingExclusion'
    BY DEF BindingExclusion
  <2>2. ListenerHeld'
    BY DEF ListenerHeld, NoListener
  <2> QED BY <2>1, <2>2 DEF ListKept, JobsKept, SlotsKept, LoopbackKeepsNames,
         ListensInSlot, TrueName
<1>2. CASE TakeBinding(s)
  <2> USE <1>2 DEF TakeBinding
  <2>1. BindingExclusion'
    BY DEF BindingExclusion
  <2>2. ListenerHeld'
    BY DEF ListenerHeld, NoListener
  <2>3. ListKept'
    BY DEF ListKept, ListensInSlot, NoListener, Nowhere, BindingExclusion
  <2>4. JobsKept'
    BY DEF JobsKept, JobAt, NoJob, Nowhere, NoListener, TrueName,
           BindingExclusion
  <2> QED BY <2>1, <2>2, <2>3, <2>4 DEF SlotsKept, LoopbackKeepsNames,
         ListensInSlot, TrueName
<1>3. CASE ReleaseSocket(s)
  <2> USE <1>3 DEF ReleaseSocket
  <2>1. ListKept'
    BY DEF ListKept, ListensInSlot, NoListener, Nowhere, BindingExclusion
  <2> QED BY <2>1 DEF BindingExclusion, ListenerHeld, JobsKept, SlotsKept,
         LoopbackKeepsNames, ListensInSlot, TrueName
<1>4. CASE BindSocket(s)
  <2> USE <1>4 DEF BindSocket, EveryoneGaveWay
  <2>1. listener = NoListener /\ \A q \in Subs : subPc[q] # "open" /\ held[q] = 0
    BY DEF EveryoneGaveWay, BindingExclusion, ListKept, ListenerHeld, NoListener
  <2>2. BindingExclusion'
    BY DEF BindingExclusion
  <2>3. ListenerHeld'
    BY <2>1 DEF ListenerHeld, NoListener
  <2>4. ListKept'
    BY DEF ListKept, ListensInSlot, NoListener, Nowhere, BindingExclusion
  <2>5. JobsKept'
    BY DEF JobsKept, JobAt, NoJob, Nowhere, NoListener, TrueName,
           BindingExclusion
  <2>6. SlotsKept'
    <3>1. \A p \in Pubs : slot[p].peer \in Nat
      BY DEF Place
    <3>2. \A q \in Subs : held'[q] = 0 \/ held'[q] = lastGen + 1
      BY <2>1
    <3>3. \A p \in Pubs : TrueName(slot[p])'
      BY <3>1, <3>2 DEF SlotsKept, TrueName
    <3>4. sockets' \subseteq 1..lastGen' /\ \A q \in Subs : held'[q] <= lastGen'
      BY <3>2 DEF SlotsKept
    <3> QED BY <3>3, <3>4 DEF SlotsKept
  <2> QED BY <2>1, <2>2, <2>3, <2>4, <2>5, <2>6 DEF LoopbackKeepsNames,
         ListensInSlot, TrueName
<1>5. CASE BindFails(s)
  <2> USE <1>5 DEF BindFails, EveryoneGaveWay
  <2>1. BindingExclusion'
    BY DEF BindingExclusion
  <2>2. ListenerHeld'
    BY DEF ListenerHeld, NoListener
  <2>3. ListKept'
    BY DEF ListKept, ListensInSlot, NoListener, Nowhere, BindingExclusion
  <2> QED BY <2>1, <2>2, <2>3 DEF JobsKept, SlotsKept, LoopbackKeepsNames,
         ListensInSlot, TrueName
<1>6. ASSUME NEW p \in Pubs, TakeSlot(s, p) PROVE Inv'
  <2> USE <1>6 DEF TakeSlot
  <2>1. ListKept'
    BY DEF ListKept, ListensInSlot, NoListener, Nowhere, BindingExclusion
  <2>2. SlotsKept'
    BY DEF SlotsKept, TrueName, Nowhere, ListenerHeld
  <2> QED BY <2>1, <2>2 DEF BindingExclusion, ListenerHeld, JobsKept,
         LoopbackKeepsNames, ListensInSlot, TrueName
<1> QED BY <1>1, <1>2, <1>3, <1>4, <1>5, <1>6 DEF Opening

(* So do those of an attach (attach_sender, OwnListener::attach), *)
LEMMA AttachingKeeps ==
  ASSUME Inv, TypeOK', NEW t \in Tasks, Attaching(t)
  PROVE  Inv'
<1> USE NamesAssumption DEF Inv, TypeOK, subVars, callVars
<1>1. CASE LockBinding(t)
  <2> USE <1>1 DEF LockBinding, Goto
  <2>1. BindingExclusion'
    BY DEF BindingExclusion
  <2>2. ListKept'
    BY DEF ListKept, ListensInSlot, NoListener, Nowhere, BindingExclusion
  <2>3. JobsKept'
    BY DEF JobsKept, JobAt, NoJob, Nowhere, NoListener, TrueName,
           BindingExclusion
  <2> QED BY <2>1, <2>2, <2>3 DEF ListenerHeld, SlotsKept, LoopbackKeepsNames,
         ListensInSlot, TrueName
<1>2. CASE CheckSlot(t)
  <2> USE <1>2 DEF CheckSlot, Goto, Proceeds, Returns
  <2>1. BindingExclusion'
    BY DEF BindingExclusion
  <2>2. ListKept'
    BY DEF ListKept, ListensInSlot, NoListener, Nowhere, BindingExclusion
  <2>3. JobsKept'
    BY DEF JobsKept, JobAt, NoJob, Nowhere, NoListener, TrueName,
           BindingExclusion
  <2> QED BY <2>1, <2>2, <2>3 DEF ListenerHeld, SlotsKept, LoopbackKeepsNames,
         ListensInSlot, TrueName
<1>3. CASE Aim(t)
  <2> USE <1>3 DEF Aim
  <2>1. JobsKept'
    <3>1. listener = [gen |-> listener.gen, sub |-> listener.sub]
      OBVIOUS
    <3>2. /\ SendTarget.at = "listen" => listener = NoListener
          /\ SendTarget.at = "local" => /\ SendTarget.gen = listener.gen
                                        /\ SendTarget.sub = listener.sub
      BY DEF SendTarget, Here, Loopback
    <3>3. callPc[t] = "attaching"
      BY DEF JobsKept
    <3> QED BY <3>1, <3>2, <3>3 DEF JobsKept, JobAt, TrueName
  <2> QED BY <2>1 DEF BindingExclusion, ListenerHeld, ListKept, SlotsKept,
         LoopbackKeepsNames, ListensInSlot, TrueName
<1>4. CASE AttachListens(t)
  <2> USE <1>4 DEF AttachListens
  <2>1. JobsKept'
    BY DEF JobsKept, JobAt, Here, TrueName
  <2> QED BY <2>1 DEF BindingExclusion, ListenerHeld, ListKept, SlotsKept,
         LoopbackKeepsNames, ListensInSlot, TrueName
<1>5. CASE AttachDials(t)
  <2> USE <1>5 DEF AttachDials
  <2>1. JobsKept'
    <3>1. callPc[t] = "attaching" /\ job[t].place.at = "local"
      BY DEF JobsKept
    <3>2. CASE \E g \in Reached(job[t].place.gen) :
                 job' = [job EXCEPT ![t] = JobAt("done", Loopback(job[t].place, g))]
      <4>0. Reached(job[t].place.gen) \subseteq sockets
        BY DEF Reached
      <4>1. PICK g \in sockets :
              job' = [job EXCEPT ![t] = JobAt("done", Loopback(job[t].place, g))]
        BY ONLY <3>2, <4>0
      <4>2. g <= lastGen
        BY DEF SlotsKept
      <4>3. ASSUME NEW q \in Subs, held[q] # 0 PROVE q = job[t].place.sub
        <5>1. listener = [gen |-> held[q], sub |-> q]
          BY <4>3 DEF ListenerHeld
        <5>2. listener = [gen |-> job[t].place.gen, sub |-> job[t].place.sub]
          BY <3>1, <4>3, <5>1 DEF JobsKept, NoListener
        <5> QED BY <5>1, <5>2
      <4>4. TrueName(Loopback(job[t].place, g))
        BY <4>2, <4>3 DEF TrueName, Loopback
      <4>5. ASSUME NEW c \in Tasks, c # t PROVE job'[c] = job[c]
        BY <4>1, <4>5
      <4>6. job'[t] = JobAt("done", Loopback(job[t].place, g))
        BY <4>1
      <4>7. /\ job'[t].step = "done" /\ job'[t].place = Loopback(job[t].place, g)
            /\ job'[t].place.at = "local" /\ job'[t].place.gen = job[t].place.gen
            /\ job'[t].place.sub = job[t].place.sub
        BY <4>6 DEF JobAt, Loopback
      <4>8. \A pl : TrueName(pl) => TrueName(pl)'
        BY DEF TrueName
      <4> QED BY <3>1, <4>4, <4>5, <4>7, <4>8 DEF JobsKept
    <3>3. CASE job' = [job EXCEPT ![t] = JobAt("failed", Nowhere)]
      BY <3>1, <3>3 DEF JobsKept, JobAt, Nowhere, TrueName
    <3> QED BY <3>2, <3>3
  <2> QED BY <2>1 DEF BindingExclusion, ListenerHeld, ListKept, SlotsKept,
         LoopbackKeepsNames, ListensInSlot, TrueName
<1>6. CASE Record(t)
  <2> USE <1>6 DEF Record, Goto
  <2>1. BindingExclusion'
    BY DEF BindingExclusion
  <2>2. ListKept'
    BY DEF ListKept, ListensInSlot, NoListener, BindingExclusion, JobsKept
  <2>3. JobsKept'
    BY DEF JobsKept, JobAt, NoJob, Nowhere, NoListener, TrueName,
           BindingExclusion
  <2> QED BY <2>1, <2>2, <2>3 DEF ListenerHeld, SlotsKept, LoopbackKeepsNames,
         ListensInSlot, TrueName
<1>7. CASE AttachFails(t)
  <2> USE <1>7 DEF AttachFails, Goto, Returns
  <2>1. BindingExclusion'
    BY DEF BindingExclusion
  <2>2. ListKept'
    BY DEF ListKept, ListensInSlot, NoListener, Nowhere, BindingExclusion
  <2>3. JobsKept'
    BY DEF JobsKept, JobAt, NoJob, Nowhere, NoListener, TrueName,
           BindingExclusion
  <2> QED BY <2>1, <2>2, <2>3 DEF ListenerHeld, SlotsKept, LoopbackKeepsNames,
         ListensInSlot, TrueName
<1>8. CASE Install(t)
  <2> USE <1>8 DEF Install, Goto, Proceeds, Returns
  <2>1. /\ job[t].step = "done" /\ TrueName(job[t].place)
        /\ job[t].place.at = "listen" => PubOf[t] \in listening
    BY DEF JobsKept
  <2>2. BindingExclusion'
    BY DEF BindingExclusion
  <2>3. ListKept'
    BY <2>1 DEF ListKept, ListensInSlot, NoListener, BindingExclusion
  <2>4. JobsKept'
    BY DEF JobsKept, JobAt, NoJob, Nowhere, NoListener, TrueName,
           BindingExclusion
  <2>5. SlotsKept'
    BY <2>1 DEF SlotsKept, TrueName
  <2> QED BY <2>1, <2>2, <2>3, <2>4, <2>5 DEF ListenerHeld,
         LoopbackKeepsNames, ListensInSlot, TrueName
<1> QED BY <1>1, <1>2, <1>3, <1>4, <1>5, <1>6, <1>7, <1>8 DEF Attaching

(* those of a publish that holds its slot, *)
LEMMA SendingKeeps ==
  ASSUME Inv, TypeOK', NEW t \in Tasks, Sending(t)
  PROVE  Inv'
<1> USE NamesAssumption DEF Inv, TypeOK, subVars, callVars
<1>1. CASE LockSlot(t)
  <2> USE <1>1 DEF LockSlot, Goto
  <2>1. BindingExclusion'
    BY DEF BindingExclusion
  <2>2. JobsKept'
    BY DEF JobsKept, JobAt, NoJob, Nowhere, NoListener, TrueName,
           BindingExclusion
  <2> QED BY <2>1, <2>2 DEF ListenerHeld, ListKept, SlotsKept,
         LoopbackKeepsNames, ListensInSlot, TrueName
<1>2. CASE RefuseName(t)
  <2> USE <1>2 DEF RefuseName, Unlock, Goto, Returns
  <2>1. BindingExclusion'
    BY DEF BindingExclusion
  <2>2. JobsKept'
    BY DEF JobsKept, JobAt, NoJob, Nowhere, NoListener, TrueName,
           BindingExclusion
  <2> QED BY <2>1, <2>2 DEF ListenerHeld, ListKept, SlotsKept,
         LoopbackKeepsNames, ListensInSlot, TrueName
<1>3. CASE SendLocal(t)
  <2> USE <1>3 DEF SendLocal, Unlock, Goto, Returns
  <2>1. BindingExclusion'
    BY DEF BindingExclusion
  <2>2. JobsKept'
    BY DEF JobsKept, JobAt, NoJob, Nowhere, NoListener, TrueName,
           BindingExclusion
  <2>3. LoopbackKeepsNames'
    <3>1. ASSUME Pattern = "queue", NEW q \in Subs, held[q] = slot[PubOf[t]].peer
          PROVE  q = callName[t]
      BY <3>1 DEF SlotsKept, TrueName, ComesBack
    <3> QED BY <3>1 DEF LoopbackKeepsNames
  <2> QED BY <2>1, <2>2, <2>3 DEF ListenerHeld, ListKept, SlotsKept,
         ListensInSlot, TrueName
<1>4. CASE SendAway(t)
  <2> USE <1>4 DEF SendAway, Unlock, Goto, Returns
  <2>1. BindingExclusion'
    BY DEF BindingExclusion
  <2>2. JobsKept'
    BY DEF JobsKept, JobAt, NoJob, Nowhere, NoListener, TrueName,
           BindingExclusion
  <2> QED BY <2>1, <2>2 DEF ListenerHeld, ListKept, SlotsKept,
         LoopbackKeepsNames, ListensInSlot, TrueName
<1> QED BY <1>1, <1>2, <1>3, <1>4 DEF Sending

(* what callers start and drop, *)
LEMMA CallersKeeps ==
  ASSUME Inv, TypeOK', Callers
  PROVE  Inv'
<1> USE NamesAssumption DEF Inv, TypeOK, subVars, callVars
<1>1. CASE Shutdown
  BY <1>1 DEF Shutdown, BindingExclusion, ListenerHeld, ListKept, JobsKept,
         SlotsKept, LoopbackKeepsNames, ListensInSlot, TrueName
<1>2. ASSUME NEW s \in Subs, Subscribe(s) PROVE Inv'
  <2> USE <1>2 DEF Subscribe
  <2>1. BindingExclusion'
    BY DEF BindingExclusion
  <2>2. ListenerHeld'
    BY DEF ListenerHeld, NoListener
  <2> QED BY <2>1, <2>2 DEF ListKept, JobsKept, SlotsKept, LoopbackKeepsNames,
         ListensInSlot, TrueName
<1>3. ASSUME NEW s \in Subs, DropSubscription(s) PROVE Inv'
  <2> USE <1>3 DEF DropSubscription
  <2>1. BindingExclusion'
    BY DEF BindingExclusion
  <2>2. ListenerHeld'
    BY DEF ListenerHeld, NoListener
  <2>3. ListKept'
    BY DEF ListKept, ListensInSlot, NoListener, Nowhere, BindingExclusion
  <2>4. JobsKept'
    BY DEF JobsKept, JobAt, NoJob, Nowhere, NoListener, TrueName,
           BindingExclusion
  <2>5. SlotsKept'
    BY DEF SlotsKept, TrueName, Nowhere, ListenerHeld
  <2> QED BY <2>1, <2>2, <2>3, <2>4, <2>5 DEF LoopbackKeepsNames,
         ListensInSlot, TrueName
<1>4. ASSUME NEW t \in Tasks, Pair(t) PROVE Inv'
  <2> USE <1>4 DEF Pair, Goto
  <2>1. BindingExclusion'
    BY DEF BindingExclusion
  <2>2. JobsKept'
    BY DEF JobsKept, JobAt, NoJob, Nowhere, NoListener, TrueName,
           BindingExclusion
  <2> QED BY <2>1, <2>2 DEF ListenerHeld, ListKept, SlotsKept,
         LoopbackKeepsNames, ListensInSlot, TrueName
<1>5. ASSUME NEW t \in Tasks, Cancel(t) PROVE Inv'
  <2> USE <1>5 DEF Cancel, Goto, Returns
  <2>1. BindingExclusion'
    BY DEF BindingExclusion
  <2>2. ListKept'
    BY DEF ListKept, ListensInSlot, NoListener, Nowhere, BindingExclusion
  <2>3. JobsKept'
    BY DEF JobsKept, JobAt, NoJob, Nowhere, NoListener, TrueName,
           BindingExclusion
  <2> QED BY <2>1, <2>2, <2>3 DEF ListenerHeld, SlotsKept, LoopbackKeepsNames,
         ListensInSlot, TrueName
<1>6. ASSUME NEW t \in Tasks, NEW n \in Subs, Publish(t, n) PROVE Inv'
  <2> USE <1>6 DEF Publish, Goto
  <2>1. BindingExclusion'
    BY DEF BindingExclusion
  <2>2. JobsKept'
    BY DEF JobsKept, JobAt, NoJob, Nowhere, NoListener, TrueName,
           BindingExclusion
  <2> QED BY <2>1, <2>2 DEF ListenerHeld, ListKept, SlotsKept,
         LoopbackKeepsNames, ListensInSlot, TrueName
<1>7. ASSUME NEW p \in Pubs, DropPublisher(p) PROVE Inv'
  <2> USE <1>7 DEF DropPublisher
  <2>1. ListKept'
    BY DEF ListKept, ListensInSlot, NoListener, Nowhere, BindingExclusion
  <2>2. JobsKept'
    BY DEF JobsKept, JobAt, NoJob, Nowhere, NoListener, TrueName,
           BindingExclusion
  <2>3. SlotsKept'
    BY DEF SlotsKept, TrueName, Nowhere, ListenerHeld
  <2> QED BY <2>1, <2>2, <2>3 DEF BindingExclusion, ListenerHeld,
         LoopbackKeepsNames, ListensInSlot, TrueName
<1> QED BY <1>1, <1>2, <1>3, <1>4, <1>5, <1>6, <1>7 DEF Callers

(* and what the runtime and the system finish for them. *)
LEMMA SystemKeeps ==
  ASSUME Inv, TypeOK', System
  PROVE  Inv'
<1> USE NamesAssumption DEF Inv, TypeOK, subVars, callVars
<1>1. ASSUME NEW g \in sockets, ReapSocket(g) PROVE Inv'
  <2> USE <1>1 DEF ReapSocket
  <2>1. SlotsKept'
    BY DEF SlotsKept, TrueName, Nowhere, ListenerHeld
  <2> QED BY <2>1 DEF BindingExclusion, ListenerHeld, ListKept, JobsKept,
         LoopbackKeepsNames, ListensInSlot, TrueName
<1>2. ASSUME NEW t \in Tasks, DetachedAim(t) PROVE Inv'
  BY <1>2 DEF DetachedAim, BindingExclusion, ListenerHeld, ListKept, JobsKept,
         SlotsKept, LoopbackKeepsNames, ListensInSlot, TrueName
<1>3. ASSUME NEW t \in Tasks, DetachedListens(t) PROVE Inv'
  BY <1>3 DEF DetachedListens, BindingExclusion, ListenerHeld, ListKept,
         JobsKept, SlotsKept, LoopbackKeepsNames, ListensInSlot, TrueName
<1>4. ASSUME NEW t \in Tasks, DetachedGone(t) PROVE Inv'
  BY <1>4 DEF DetachedGone, BindingExclusion, ListenerHeld, ListKept,
         JobsKept, SlotsKept, LoopbackKeepsNames, ListensInSlot, TrueName
<1>5. ASSUME NEW p \in Pubs, LingererGone(p) PROVE Inv'
  BY <1>5 DEF LingererGone, BindingExclusion, ListenerHeld, ListKept,
         JobsKept, SlotsKept, LoopbackKeepsNames, ListensInSlot, TrueName
<1> QED BY <1>1, <1>2, <1>3, <1>4, <1>5 DEF System
LEMMA InvInit == Init => Inv
<1> SUFFICES ASSUME Init PROVE Inv
  OBVIOUS
<1>1. TypeOK
  BY TypeInit
<1>2. BindingExclusion /\ ListenerHeld
  BY NamesAssumption DEF Init, BindingExclusion, ListenerHeld, NoListener
<1>3. ListKept /\ JobsKept
  BY DEF Init, ListKept, ListensInSlot, JobsKept, NoJob, JobAt, Nowhere
<1>4. SlotsKept /\ LoopbackKeepsNames
  BY DEF Init, SlotsKept, TrueName, Nowhere, LoopbackKeepsNames
<1> QED BY <1>1, <1>2, <1>3, <1>4 DEF Inv

LEMMA InvStep == Inv /\ [Next]_vars => Inv'
<1> SUFFICES ASSUME Inv, [Next]_vars PROVE Inv'
  OBVIOUS
<1>1. TypeOK'
  BY TypeStep DEF Inv
<1>2. ASSUME NEW s \in Subs, Opening(s) PROVE Inv'
  BY <1>1, <1>2, OpeningKeeps
<1>3. ASSUME NEW t \in Tasks, Attaching(t) PROVE Inv'
  BY <1>1, <1>3, AttachingKeeps
<1>4. ASSUME NEW t \in Tasks, Sending(t) PROVE Inv'
  BY <1>1, <1>4, SendingKeeps
<1>5. CASE Callers
  BY <1>1, <1>5, CallersKeeps
<1>6. CASE System
  BY <1>1, <1>6, SystemKeeps
<1>7. CASE UNCHANGED vars
  BY <1>1, <1>7 DEF vars, Inv, BindingExclusion, ListenerHeld, ListKept, JobsKept,
     SlotsKept, LoopbackKeepsNames, TrueName, ListensInSlot
<1> QED BY <1>2, <1>3, <1>4, <1>5, <1>6, <1>7 DEF Next

(* Every state the program reaches satisfies the inductive invariant: the     *)
(* `binding` lock orders opens and attaches as Lifecycle.binding promises.    *)
THEOREM Invariance == Spec => []Inv
BY InvInit, InvStep, PTL DEF Spec

(* Every variable keeps its type. *)
THEOREM TypeCorrect == Spec => []TypeOK
<1>1. Inv => TypeOK
  BY DEF Inv
<1> QED BY <1>1, Invariance, PTL

(* `binding` is held by whoever is in its section, whatever the number of     *)
(* subscriptions, publishers, callers and cancellations (hold_listener,       *)
(* attach).                                                                   *)
THEOREM Exclusion == Spec => []BindingExclusion
<1>1. Inv => BindingExclusion
  BY DEF Inv
<1> QED BY <1>1, Invariance, PTL

(* No two subscriptions hold the endpoint at once (hold_listener, BoundSlot). *)
THEOREM OneHolderAtATime == Spec => []OneHolder
<1>1. Inv => OneHolder
  BY DEF Inv, ListenerHeld, OneHolder
<1> QED BY <1>1, Invariance, PTL

(* No publisher listens on an endpoint a subscription holds (give_way,        *)
(* attach).                                                                   *)
THEOREM NobodyListensDeaf == Spec => []NoDeafListener
<1>1. Inv => NoDeafListener
  BY DEF Inv, ListKept, NoDeafListener, ListensInSlot, TypeOK
<1> QED BY <1>1, Invariance, PTL

(* A queue's loopback never delivers a message under another name than the    *)
(* subscription's (publish, returns_to_subscription).                         *)
THEOREM NamesAreKept == Spec => []LoopbackKeepsNames
<1>1. Inv => LoopbackKeepsNames
  BY DEF Inv
<1> QED BY <1>1, Invariance, PTL

------------------------------------------------------------------------------
(* The refinement: binding takes the lease, dropping the subscription frees   *)
(* it, and installing, taking or dropping a socket that listens are the steps *)
(* of the publishers.                                                         *)

LEMMA LeaseInitially == Init => Lease!LeaseInit
BY DEF Init, Lease!LeaseInit, NoListener, ListensInSlot, Nowhere

(* A step that leaves the listener, the binds and every slot is a stutter. *)
LEMMA Stutters ==
  ASSUME UNCHANGED <<listener, lastGen, slot>>
  PROVE  UNCHANGED Lease!leaseVars
BY DEF Lease!leaseVars, ListensInSlot

(* So is one that leaves each slot as listening as it was; one that empties a *)
(* slot gives a listening publisher up.                                       *)
LEMMA Empties ==
  ASSUME TypeOK, NEW p \in Pubs, UNCHANGED <<listener, lastGen>>,
         slot' = [slot EXCEPT ![p] = Nowhere]
  PROVE  [Lease!LeaseNext]_(Lease!leaseVars)
<1>1. /\ ~ListensInSlot(p)'
      /\ \A q \in Pubs \ {p} : ListensInSlot(q)' <=> ListensInSlot(q)
  BY DEF ListensInSlot, Nowhere, TypeOK
<1>2. CASE ListensInSlot(p)
  <2>1. Lease!GiveUp(p)
    BY <1>1, <1>2 DEF Lease!GiveUp
  <2> QED BY <2>1 DEF Lease!LeaseNext
<1>3. CASE ~ListensInSlot(p)
  BY <1>1, <1>3 DEF Lease!leaseVars
<1> QED BY <1>2, <1>3

LEMMA LeaseStep ==
  ASSUME Inv, [Next]_vars
  PROVE  [Lease!LeaseNext]_(Lease!leaseVars)
<1> USE DEF Inv, subVars, callVars
<1>1. ASSUME NEW s \in Subs, Opening(s)
      PROVE  [Lease!LeaseNext]_(Lease!leaseVars)
  <2>1. CASE BindSocket(s)
    <3>1. listener = NoListener /\ \A p \in Pubs : ~ListensInSlot(p)
      BY <2>1, <1>1 DEF BindSocket, EveryoneGaveWay, BindingExclusion, ListKept
    <3>2. Lease!Acquire
      BY <2>1, <3>1 DEF Lease!Acquire, BindSocket, NoListener, ListensInSlot, TypeOK
    <3> QED BY <3>2 DEF Lease!LeaseNext
  <2>2. ASSUME NEW p \in Pubs, TakeSlot(s, p)
        PROVE  [Lease!LeaseNext]_(Lease!leaseVars)
    BY <2>2, Empties DEF TakeSlot
  <2>3. CASE RefuseSubscription(s) \/ TakeBinding(s) \/ ReleaseSocket(s) \/ BindFails(s)
    BY <2>3, Stutters DEF RefuseSubscription, TakeBinding, ReleaseSocket, BindFails
  <2> QED BY <1>1, <2>1, <2>2, <2>3 DEF Opening
<1>2. ASSUME NEW t \in Tasks, Attaching(t)
      PROVE  [Lease!LeaseNext]_(Lease!leaseVars)
  <2>1. CASE Install(t)
    <3> DEFINE p == PubOf[t]
    <3>1. /\ p \in Pubs /\ slot' = [slot EXCEPT ![p] = job[t].place]
          /\ UNCHANGED <<listener, lastGen>>
      BY <2>1, NamesAssumption DEF Install
    <3>2. /\ ListensInSlot(p)' <=> job[t].place.at = "listen"
          /\ \A q \in Pubs \ {p} : ListensInSlot(q)' <=> ListensInSlot(q)
      BY <3>1 DEF ListensInSlot, TypeOK
    <3>3. CASE ListensInSlot(p)' /\ ~ListensInSlot(p)
      <4>1. listener = NoListener
        BY <3>2, <3>3 DEF JobsKept
      <4>2. Lease!Listen(p)
        BY <3>1, <3>2, <3>3, <4>1 DEF Lease!Listen, NoListener
      <4> QED BY <3>1, <4>2 DEF Lease!LeaseNext
    <3>4. CASE ~ListensInSlot(p)' /\ ListensInSlot(p)
      <4>1. Lease!GiveUp(p)
        BY <3>1, <3>2, <3>4 DEF Lease!GiveUp
      <4> QED BY <3>1, <4>1 DEF Lease!LeaseNext
    <3>5. CASE ListensInSlot(p)' <=> ListensInSlot(p)
      BY <3>1, <3>2, <3>5 DEF Lease!leaseVars
    <3> QED BY <3>3, <3>4, <3>5
  <2>2. CASE LockBinding(t) \/ CheckSlot(t) \/ Aim(t) \/ AttachListens(t)
    BY <2>2, Stutters DEF LockBinding, CheckSlot, Aim, AttachListens
  <2>3. CASE AttachDials(t) \/ Record(t) \/ AttachFails(t)
    BY <2>3, Stutters DEF AttachDials, Record, AttachFails
  <2> QED BY <1>2, <2>1, <2>2, <2>3 DEF Attaching
<1>3. ASSUME NEW t \in Tasks, Sending(t)
      PROVE  [Lease!LeaseNext]_(Lease!leaseVars)
  BY <1>3, Stutters DEF Sending, LockSlot, RefuseName, SendLocal, SendAway
<1>4. CASE Callers
  <2>1. ASSUME NEW s \in Subs, DropSubscription(s)
        PROVE  [Lease!LeaseNext]_(Lease!leaseVars)
    <3>1. Lease!Free
      BY <2>1 DEF Lease!Free, DropSubscription, ListenerHeld, NoListener,
         ListensInSlot, TypeOK
    <3> QED BY <3>1 DEF Lease!LeaseNext
  <2>2. ASSUME NEW p \in Pubs, DropPublisher(p)
        PROVE  [Lease!LeaseNext]_(Lease!leaseVars)
    BY <2>2, Empties DEF DropPublisher
  <2>3. CASE Shutdown \/ \E s \in Subs : Subscribe(s)
    BY <2>3, Stutters DEF Shutdown, Subscribe
  <2>4. CASE \E t \in Tasks : Pair(t) \/ Cancel(t) \/ \E n \in Subs : Publish(t, n)
    BY <2>4, Stutters DEF Pair, Cancel, Publish
  <2> QED BY <1>4, <2>1, <2>2, <2>3, <2>4 DEF Callers
<1>5. CASE System
  BY <1>5, Stutters DEF System, ReapSocket, DetachedAim, DetachedListens,
     DetachedGone, LingererGone
<1>6. CASE UNCHANGED vars
  BY <1>6, Stutters DEF vars
<1> QED BY <1>1, <1>2, <1>3, <1>4, <1>5, <1>6 DEF Next

(* The endpoint as the code shares it is the lease EndpointLease specifies:   *)
(* taken only when free and listened on by nobody, freed by its holder only,  *)
(* each time under a new term.                                                *)
THEOREM KeepsTheLease == Spec => LeaseSpec
BY LeaseInitially, LeaseStep, Invariance, PTL
   DEF Spec, LeaseSpec, Lease!LeaseSpec
==============================================================================
