--------------------------- MODULE ServicesProofs ---------------------------
(***************************************************************************)
(* What the declarations of services that run together say of every run of *)
(* them, however many messages come: which of them start, that nothing     *)
(* they publish is refused, that caps hold and copies come home, and where *)
(* dead letters end up.                                                    *)
(***************************************************************************)
EXTENDS Services, TLAPS

Phases == {"new", "running", "refused", "stopped"}
Ends == {None, "done", "dropped", "lost", "refused", "answered", "unsent", "unheard", "left"}
JobStates ==
  [at : {"peer", "socket", "waiting", "ended"}, mount : Mounts \cup {None}, entry : Mounts \cup {None},
   as : {"new", "copy", "dead"}, count : Nat, tries : Nat, end : Ends]

\* A message that a service holds is at a mount that is open.
Placed ==
  \A j \in Jobs :
    /\ job[j].at \in {"socket", "waiting"} => job[j].mount \in opened /\ job[j].entry \in Mounts
    /\ job[j].at = "waiting" => MayCopy(At(j))
    /\ job[j].at # "ended" => job[j].end = None
    /\ job[j].at = "peer" => job[j].tries = 0 /\ job[j].as = "new"

Base ==
  /\ deployment \in Deployments
  /\ phase \in [{s.name : s \in deployment} -> Phases]
  /\ opened \in SUBSET Served
  /\ job \in [Jobs -> JobStates]
  /\ Placed

------------------------------------------------------------------------------
(* What does not change, and what a mount is. *)

\* The services do not change as they run.
LEMMA Kept ==
  ASSUME UNCHANGED deployment
  PROVE  /\ Mounts' = Mounts /\ \A m : Mount(m)' = Mount(m)
         /\ \A n : Named(n)' = Named(n)
         /\ Served' = Served
<1>1. /\ Mounts' = Mounts /\ \A m : Mount(m)' = Mount(m)
      /\ \A n : Named(n)' = Named(n)
  BY DEF Mount, Mounts, Named
<1>2. \A m : Openable(m)' = Openable(m)
  BY DEF Openable, Mount, Named, Clash
<1> QED BY <1>1, <1>2 DEF Served

\* A service is found by its name.
LEMMA NamedIs ==
  ASSUME deployment \in Deployments, NEW s \in deployment
  PROVE  Named(s.name) = s
BY DeploymentsAssumption DEF Named

\* A mount is one of those its service numbers.
LEMMA MountIs ==
  ASSUME deployment \in Deployments, NEW m \in Mounts
  PROVE  /\ Named(m[1]) \in deployment /\ Named(m[1]).name = m[1]
         /\ m[2] \in DOMAIN Named(m[1]).mounts /\ m[2] \in Nat \ {0}
         /\ m = <<m[1], m[2]>>
         /\ \A k \in 1..m[2] : <<m[1], k>> \in Mounts
         /\ Mount(m).cap \in Nat
<1>1. PICK s \in deployment : \E k \in DOMAIN s.mounts : m = <<s.name, k>>
  BY DEF Mounts
<1>2. PICK k \in DOMAIN s.mounts : m = <<s.name, k>>
  BY <1>1
<1>3. Named(m[1]) = s
  BY <1>2, NamedIs
<1>4. s.mounts \in Seq({s.mounts[i] : i \in DOMAIN s.mounts}) /\ s.mounts[k].cap \in Nat
  BY DeploymentsAssumption
<1>5. DOMAIN s.mounts = 1..Len(s.mounts) /\ Len(s.mounts) \in Nat
  BY <1>4
<1>6. \A i \in 1..k : i \in DOMAIN s.mounts
  BY <1>5
<1>7. \A i \in 1..k : <<s.name, i>> \in Mounts
  BY <1>6 DEF Mounts
<1> QED BY <1>2, <1>3, <1>4, <1>5, <1>7 DEF Mount

\* A mount that opens in its turn is one that a start can come to.
LEMMA OpensNext ==
  ASSUME Base, NEW m \in Mounts, NextMount(m), ~ConnectRefused(Named(m[1])), ~OpenRefused(m)
  PROVE  m \in Served
<1>1. /\ m[2] \in Nat \ {0} /\ m = <<m[1], m[2]>>
  BY MountIs DEF Base
<1>2. \A k \in 1..m[2] : k = m[2] \/ k \in 1..(m[2] - 1)
  BY <1>1
<1>3. ASSUME NEW k \in 1..m[2]
      PROVE  /\ Mount(<<m[1], k>>).copies # {}
             /\ \A l \in 1..(k - 1) : ~Clash(<<m[1], k>>, <<m[1], l>>)
  <2>1. CASE k = m[2]
    <3>1. \A l \in 1..(k - 1) : <<m[1], l>> \in opened
      BY <2>1 DEF NextMount
    <3> QED BY <1>1, <2>1, <3>1 DEF OpenRefused
  <2>2. CASE k \in 1..(m[2] - 1)
    <3>1. <<m[1], k>> \in Served
      BY <2>2 DEF NextMount, Base
    <3>2. k \in 1..k
      BY <2>2
    <3>3. <<m[1], k>>[1] = m[1] /\ <<m[1], k>>[2] = k
      OBVIOUS
    <3> QED BY <3>1, <3>2, <3>3 DEF Served, Openable
  <2> QED BY <1>2, <2>1, <2>2
<1> QED BY <1>3 DEF Served, Openable

------------------------------------------------------------------------------
(* What a step does to one message. *)

Fields(j, at, mount, entry, kind, count, tries, end) ==
  job'[j] = [at |-> at, mount |-> mount, entry |-> entry, as |-> kind, count |-> count,
             tries |-> tries, end |-> end]

\* What a step has made of a message, field by field.
LEMMA FieldsIs ==
  ASSUME NEW j, NEW at, NEW mount, NEW entry, NEW kind, NEW count, NEW tries, NEW end,
         Fields(j, at, mount, entry, kind, count, tries, end)
  PROVE  /\ job'[j].at = at /\ job'[j].mount = mount /\ job'[j].entry = entry
         /\ job'[j].as = kind /\ job'[j].count = count /\ job'[j].tries = tries /\ job'[j].end = end
BY DEF Fields

\* It may stay as it is, be lost in a stop, or come in at an open subscription.
Stays(j) == job'[j] = job[j]

IsLost(j) ==
  LET b == job[j]
  IN  b.at \in {"socket", "waiting"} /\ Fields(j, "ended", b.mount, b.entry, b.as, b.count, b.tries, "lost")

Comes(j) ==
  LET b == job[j]
  IN  b.at = "peer" /\ \E m \in opened : Fields(j, "socket", m, m, b.as, b.count, b.tries, b.end)

\* Its delivery may end with it, be followed by a message of its own, or by a copy.
IsDone(j) ==
  LET b == job[j]
  IN  /\ b.at = "socket"
      /\ \E how \in Ends :
           /\ Fields(j, "ended", b.mount, b.entry, b.as, b.count, b.tries + 1, how)
           /\ \/ how = "done"
              \/ how = "dropped" /\ ~(At(j).outcomes \subseteq {"ack"})
              \/ how # None /\ \E out \in At(j).sends : how = "refused" => Refused(Home(j), out, FALSE, opened)

Begins(j) ==
  LET b == job[j]
  IN  b.at = "socket" /\ \E m \in opened : Fields(j, "socket", m, m, "new", 0, 0, b.end)

Waits(j) ==
  LET b == job[j]
  IN  /\ b.at = "socket" /\ MayCopy(At(j)) /\ (At(j).cap > 0 => b.count + 1 < At(j).cap)
      /\ Fields(j, "waiting", b.mount, b.entry, b.as, b.count, b.tries + 1, b.end)

\* A copy, or a dead letter, leaves through `out`, and either comes in again or ends.
Leaves(j, kind, out, tries) ==
  LET b == job[j]
  IN  \/ \E m \in Receivers(Home(j), out) \cap opened :
           /\ ~Refused(Home(j), out, TRUE, opened)
           /\ Fields(j, "socket", m, b.entry, kind, b.count + 1, tries, b.end)
      \/ \E how \in Ends :
           /\ Fields(j, "ended", b.mount, b.entry, kind, b.count + 1, tries, how)
           /\ how \notin {None, "done", "dropped"}
           /\ how = "refused" => Refused(Home(j), out, TRUE, opened)
           /\ how \in {"answered", "unsent", "left"} =>
                \/ out.name = Requester
                \/ Receivers(Home(j), out) \cap opened = {} /\ OwnMounts(Home(j), out.via) \ opened = {}

IsBuried(j) ==
  job[j].at = "socket" /\ \E out \in DeadLetters(job[j].mount) : Leaves(j, "dead", out, job[j].tries + 1)

IsCopied(j) ==
  job[j].at = "waiting" /\ \E out \in Copies(job[j].mount) : Leaves(j, "copy", out, job[j].tries)

JobStep(j) ==
  Stays(j) \/ IsLost(j) \/ Comes(j) \/ IsDone(j) \/ Begins(j) \/ Waits(j) \/ IsBuried(j) \/ IsCopied(j)

\* What has left is with a subscription, or at an end of its own.
LEMMA LeftIs ==
  ASSUME NEW j, NEW kind, NEW out, NEW tries, Leaves(j, kind, out, tries)
  PROVE  LET b == job[j]
             c == job'[j]
         IN  /\ c.entry = b.entry /\ c.as = kind /\ c.count = b.count + 1 /\ c.tries = tries
             /\ \/ /\ c.at = "socket" /\ c.mount \in Receivers(Home(j), out) \cap opened /\ c.end = b.end
                   /\ ~Refused(Home(j), out, TRUE, opened)
                \/ /\ c.at = "ended" /\ c.mount = b.mount /\ c.end \in Ends \ {None, "done", "dropped"}
                   /\ c.end = "refused" => Refused(Home(j), out, TRUE, opened)
                   /\ c.end \in {"answered", "unsent", "left"} =>
                        \/ out.name = Requester
                        \/ Receivers(Home(j), out) \cap opened = {} /\ OwnMounts(Home(j), out.via) \ opened = {}
<1> DEFINE b == job[j]
<1>1. CASE \E m \in Receivers(Home(j), out) \cap opened :
             /\ ~Refused(Home(j), out, TRUE, opened)
             /\ Fields(j, "socket", m, b.entry, kind, b.count + 1, tries, b.end)
  <2>1. PICK m \in Receivers(Home(j), out) \cap opened :
               /\ ~Refused(Home(j), out, TRUE, opened)
               /\ Fields(j, "socket", m, b.entry, kind, b.count + 1, tries, b.end)
    BY <1>1
  <2>2. /\ job'[j].at = "socket" /\ job'[j].mount = m /\ job'[j].entry = b.entry /\ job'[j].as = kind
        /\ job'[j].count = b.count + 1 /\ job'[j].tries = tries /\ job'[j].end = b.end
    BY <2>1, FieldsIs
  <2> QED BY <2>1, <2>2
<1>2. CASE \E how \in Ends :
             /\ Fields(j, "ended", b.mount, b.entry, kind, b.count + 1, tries, how)
             /\ how \notin {None, "done", "dropped"}
             /\ how = "refused" => Refused(Home(j), out, TRUE, opened)
             /\ how \in {"answered", "unsent", "left"} =>
                  \/ out.name = Requester
                  \/ Receivers(Home(j), out) \cap opened = {} /\ OwnMounts(Home(j), out.via) \ opened = {}
  <2>1. PICK how \in Ends :
               /\ Fields(j, "ended", b.mount, b.entry, kind, b.count + 1, tries, how)
               /\ how \notin {None, "done", "dropped"}
               /\ how = "refused" => Refused(Home(j), out, TRUE, opened)
               /\ how \in {"answered", "unsent", "left"} =>
                    \/ out.name = Requester
                    \/ Receivers(Home(j), out) \cap opened = {} /\ OwnMounts(Home(j), out.via) \ opened = {}
    BY <1>2
  <2>2. /\ job'[j].at = "ended" /\ job'[j].mount = b.mount /\ job'[j].entry = b.entry /\ job'[j].as = kind
        /\ job'[j].count = b.count + 1 /\ job'[j].tries = tries /\ job'[j].end = how
    BY <2>1, FieldsIs
  <2> QED BY <2>1, <2>2
<1> QED BY <1>1, <1>2 DEF Leaves

\* It follows the delivery before it, and counts it.
LEMMA LeftAs ==
  ASSUME NEW j, NEW kind, NEW out, NEW tries, Leaves(j, kind, out, tries)
  PROVE  /\ job'[j].entry = job[j].entry /\ job'[j].as = kind /\ job'[j].count = job[j].count + 1
         /\ job'[j].tries = tries /\ job'[j].at \in {"socket", "ended"}
BY LeftIs

\* With a subscription, it was not refused, and is where it could be received.
LEMMA LeftFor ==
  ASSUME NEW j, NEW kind, NEW out, NEW tries, Leaves(j, kind, out, tries), job'[j].at = "socket"
  PROVE  job'[j].mount \in Receivers(Home(j), out) \cap opened /\ ~Refused(Home(j), out, TRUE, opened)
BY LeftIs

\* At an end, that is where the publish left it.
LEMMA EndedAs ==
  ASSUME NEW j, NEW kind, NEW out, NEW tries, Leaves(j, kind, out, tries), job'[j].at = "ended"
  PROVE  /\ job'[j].end \in Ends \ {None, "done", "dropped"}
         /\ job'[j].end = "refused" => Refused(Home(j), out, TRUE, opened)
         /\ job'[j].end \in {"answered", "unsent", "left"} =>
              \/ out.name = Requester
              \/ Receivers(Home(j), out) \cap opened = {} /\ OwnMounts(Home(j), out.via) \ opened = {}
BY LeftIs

\* Where a publish may leave its message.
LEMMA PublishedIs ==
  ASSUME NEW s, NEW out, NEW headers, NEW there \in Published(s, out, headers)
  PROVE  \/ /\ there.at = "socket" /\ there.mount \in Receivers(s, out) \cap opened
            /\ ~Refused(s, out, headers, opened)
         \/ /\ there.at = "ended" /\ there = Ended(there.end)
            /\ there.end \in Ends \ {None, "done", "dropped"}
            /\ there.end = "refused" => Refused(s, out, headers, opened)
            /\ there.end \in {"answered", "unsent", "left"} =>
                 \/ out.name = Requester
                 \/ Receivers(s, out) \cap opened = {} /\ OwnMounts(s, out.via) \ opened = {}
<1> DEFINE reached == Receivers(s, out) \cap opened
<1>1. \A how : Ended(how).at = "ended" /\ Ended(how).end = how
  BY DEF Ended
<1>2. CASE Refused(s, out, headers, opened)
  <2>1. there = Ended("refused")
    BY <1>2 DEF Published, Sent
  <2> QED BY <1>1, <1>2, <2>1 DEF Ends, None
<1>3. CASE ~Refused(s, out, headers, opened) /\ out.name = Requester
  <2>1. there \in {Ended("answered"), Ended("unsent")}
    BY <1>3 DEF Published, Sent
  <2> QED BY <1>1, <1>3, <2>1 DEF Ends, None
<1>4. CASE ~Refused(s, out, headers, opened) /\ out.name # Requester /\ reached # {}
  <2>1. \E m \in reached : there = [at |-> "socket", mount |-> m]
    BY <1>4 DEF Published, Sent
  <2> QED BY <1>4, <2>1
<1>5. CASE ~Refused(s, out, headers, opened) /\ out.name # Requester /\ reached = {}
           /\ OwnMounts(s, out.via) \ opened # {}
  <2>1. there = Ended("unheard")
    BY <1>5 DEF Published, Sent
  <2> QED BY <1>1, <2>1 DEF Ends, None
<1>6. CASE ~Refused(s, out, headers, opened) /\ out.name # Requester /\ reached = {}
           /\ OwnMounts(s, out.via) \ opened = {}
  <2>1. there \in {Ended("left"), Ended("unsent")}
    BY <1>6 DEF Published, Sent
  <2> QED BY <1>1, <1>6, <2>1 DEF Ends, None
<1> QED BY <1>2, <1>3, <1>4, <1>5, <1>6

\* A message that has got there, field by field.
LEMMA ArrivedIs ==
  ASSUME NEW message \in JobStates, NEW there
  PROVE  /\ there.at = "socket" => /\ Arrived(message, there).at = "socket"
                                   /\ Arrived(message, there).mount = there.mount
                                   /\ Arrived(message, there).end = message.end
         /\ there.at # "socket" => /\ Arrived(message, there).at = "ended"
                                   /\ Arrived(message, there).mount = message.mount
                                   /\ Arrived(message, there).end = there.end
         /\ Arrived(message, there).entry = message.entry /\ Arrived(message, there).as = message.as
         /\ Arrived(message, there).count = message.count /\ Arrived(message, there).tries = message.tries
BY DEF Arrived, JobStates

\* A delivery that is handled, and what its service makes of the message.
LEMMA Moved ==
  ASSUME Base, NEW j \in Jobs, NEW message \in JobStates, Move(j, message)
  PROVE  /\ Fields(j, message.at, message.mount, message.entry, message.as, message.count,
                   message.tries + 1, message.end)
         /\ \A i \in Jobs \ {j} : job'[i] = job[i]
BY DEF Move, Fields, Base, JobStates

\* An end, read back.
LEMMA EndedIs ==
  ASSUME NEW how
  PROVE  Ended(how).at = "ended" /\ Ended(how).end = how
BY DEF Ended

\* A message in which an end, or a mount, is put is one still.
LEMMA ArrivedType ==
  ASSUME NEW message \in JobStates, NEW there,
         there.at = "socket" => there.mount \in Mounts, there.at # "socket" => there.end \in Ends
  PROVE  Arrived(message, there) \in JobStates
BY DEF Arrived, JobStates

\* A delivery that is acknowledged ends, or its reply comes in elsewhere.
LEMMA FinishStep ==
  ASSUME Base, NEW j \in Jobs, Finish(j)
  PROVE  JobStep(j) /\ (\A i \in Jobs \ {j} : job'[i] = job[i]) /\ UNCHANGED <<deployment, phase, opened>>
<1>1. job[j] \in JobStates /\ job[j].at = "socket" /\ opened \subseteq Mounts
  BY DEF Base, Finish, Handling, Served
<1>2. CASE At(j).sends = {}
  <2>1. Move(j, Arrived(job[j], Ended("done")))
    BY <1>2 DEF Finish
  <2>2. "done" \in Ends
    BY DEF Ends
  <2>3. Arrived(job[j], Ended("done")) \in JobStates
    BY <1>1, <2>2, EndedIs, ArrivedType
  <2>4. /\ Fields(j, "ended", job[j].mount, job[j].entry, job[j].as, job[j].count, job[j].tries + 1, "done")
        /\ \A i \in Jobs \ {j} : job'[i] = job[i]
    BY <1>1, <2>1, <2>3, Moved, ArrivedIs, EndedIs
  <2> QED BY <1>1, <2>1, <2>2, <2>4 DEF JobStep, IsDone, Move
<1>3. CASE At(j).sends # {}
  <2>1. PICK out \in At(j).sends : \E there \in Published(Home(j), out, FALSE) :
               IF there.at = "ended" THEN Move(j, Arrived(job[j], there)) ELSE Begin(j, there.mount)
    BY <1>3 DEF Finish
  <2>2. PICK there \in Published(Home(j), out, FALSE) :
               IF there.at = "ended" THEN Move(j, Arrived(job[j], there)) ELSE Begin(j, there.mount)
    BY <2>1
  <2>3. CASE there.at = "ended"
    <3>1. /\ there.end \in Ends \ {None, "done", "dropped"}
          /\ there.end = "refused" => Refused(Home(j), out, FALSE, opened)
      BY <2>3, PublishedIs
    <3>2. Arrived(job[j], there) \in JobStates
      BY <1>1, <2>3, <3>1, ArrivedType
    <3>3. /\ Fields(j, "ended", job[j].mount, job[j].entry, job[j].as, job[j].count, job[j].tries + 1, there.end)
          /\ \A i \in Jobs \ {j} : job'[i] = job[i]
      BY <1>1, <2>2, <2>3, <3>2, Moved, ArrivedIs
    <3>4. IsDone(j)
      BY <1>1, <3>1, <3>3 DEF IsDone
    <3> QED BY <2>2, <2>3, <3>3, <3>4 DEF JobStep, Move
  <2>4. CASE there.at # "ended"
    <3>1. there.mount \in opened
      BY <2>4, PublishedIs
    <3>2. Begin(j, there.mount)
      BY <2>2, <2>4
    <3>3. /\ Fields(j, "socket", there.mount, there.mount, "new", 0, 0, job[j].end)
          /\ \A i \in Jobs \ {j} : job'[i] = job[i]
      BY <1>1, <3>2 DEF Begin, Fields, Base, JobStates
    <3> QED BY <1>1, <3>1, <3>2, <3>3 DEF JobStep, Begins, Begin
  <2> QED BY <2>3, <2>4
<1> QED BY <1>2, <1>3

\* A delivery that is dropped ends.
LEMMA DropStep ==
  ASSUME Base, NEW j \in Jobs, Drop(j)
  PROVE  JobStep(j) /\ (\A i \in Jobs \ {j} : job'[i] = job[i]) /\ UNCHANGED <<deployment, phase, opened>>
<1>1. job[j] \in JobStates /\ job[j].at = "socket" /\ Move(j, Arrived(job[j], Ended("dropped")))
      /\ ~(At(j).outcomes \subseteq {"ack"})
  BY DEF Base, Drop, Handling
<1>2. "dropped" \in Ends
  BY DEF Ends
<1>3. Arrived(job[j], Ended("dropped")) \in JobStates
  BY <1>1, <1>2, EndedIs, ArrivedType
<1>4. /\ Fields(j, "ended", job[j].mount, job[j].entry, job[j].as, job[j].count, job[j].tries + 1, "dropped")
      /\ \A i \in Jobs \ {j} : job'[i] = job[i]
  BY <1>1, <1>3, Moved, ArrivedIs, EndedIs
<1> QED BY <1>1, <1>2, <1>4 DEF JobStep, IsDone, Move

\* A delivery whose copy is to follow waits, short of its cap.
LEMMA RetryLaterStep ==
  ASSUME Base, NEW j \in Jobs, RetryLater(j)
  PROVE  JobStep(j) /\ (\A i \in Jobs \ {j} : job'[i] = job[i]) /\ UNCHANGED <<deployment, phase, opened>>
<1> DEFINE b == job[j]  message == [b EXCEPT !.at = "waiting"]
<1>1. b \in JobStates /\ b.at = "socket" /\ Move(j, message) /\ Retries(At(j)) # {} /\ ~Spent(j)
  BY DEF Base, RetryLater, Handling
<1>2. /\ message \in JobStates /\ message.at = "waiting" /\ message.mount = b.mount
      /\ message.entry = b.entry /\ message.as = b.as /\ message.count = b.count
      /\ message.tries = b.tries /\ message.end = b.end
  BY <1>1 DEF JobStates
<1> HIDE DEF message
<1>3. /\ Fields(j, "waiting", b.mount, b.entry, b.as, b.count, b.tries + 1, b.end)
      /\ \A i \in Jobs \ {j} : job'[i] = job[i]
  BY <1>1, <1>2, Moved
<1>4. b.count \in Nat /\ At(j).cap \in Nat
  <2>1. b.mount \in Mounts
    BY <1>1 DEF Base, Placed, Served
  <2> QED BY <1>1, <2>1, MountIs DEF JobStates, Base, At
<1>5. MayCopy(At(j)) /\ (At(j).cap > 0 => b.count + 1 < At(j).cap)
  BY <1>1, <1>4 DEF Spent, MayCopy
<1> QED BY <1>1, <1>3, <1>5 DEF JobStep, Waits, Move

\* A copy, or a dead letter, counts the delivery it follows and keeps the rest.
LEMMA FollowIs ==
  ASSUME NEW j, job[j] \in JobStates, NEW kind \in {"copy", "dead"}
  PROVE  /\ Follow(j, kind) \in JobStates /\ Follow(j, kind).mount = job[j].mount
         /\ Follow(j, kind).entry = job[j].entry /\ Follow(j, kind).as = kind
         /\ Follow(j, kind).count = job[j].count + 1 /\ Follow(j, kind).tries = job[j].tries
         /\ Follow(j, kind).end = job[j].end
<1> DEFINE b == job[j]
           one == [b EXCEPT !.as = kind]
<1>1. one \in JobStates /\ one.as = kind /\ one.mount = b.mount /\ one.entry = b.entry
      /\ one.count = b.count /\ one.tries = b.tries /\ one.end = b.end
  BY DEF JobStates
<1>2. Follow(j, kind) = [one EXCEPT !.count = one.count + 1]
  BY DEF Follow, JobStates
<1> HIDE DEF one
<1>3. one.count + 1 \in Nat
  BY <1>1 DEF JobStates
<1> QED BY <1>1, <1>2, <1>3 DEF JobStates

\* What follows a delivery, where it has got to.
LEMMA FollowArrives ==
  ASSUME NEW j, job[j] \in JobStates, NEW kind \in {"copy", "dead"}, NEW there
  PROVE  LET message == Arrived(Follow(j, kind), there)
         IN  /\ there.at = "socket" =>
                  message.at = "socket" /\ message.mount = there.mount /\ message.end = job[j].end
             /\ there.at # "socket" =>
                  message.at = "ended" /\ message.mount = job[j].mount /\ message.end = there.end
             /\ message.entry = job[j].entry /\ message.as = kind /\ message.count = job[j].count + 1
<1> DEFINE follow == Follow(j, kind)  message == Arrived(follow, there)
<1>1. /\ follow \in JobStates /\ follow.mount = job[j].mount /\ follow.entry = job[j].entry
      /\ follow.as = kind /\ follow.count = job[j].count + 1 /\ follow.end = job[j].end
  BY FollowIs
<1> HIDE DEF follow
<1>2. /\ there.at = "socket" =>
           message.at = "socket" /\ message.mount = there.mount /\ message.end = follow.end
      /\ there.at # "socket" =>
           message.at = "ended" /\ message.mount = follow.mount /\ message.end = there.end
      /\ message.entry = follow.entry /\ message.as = follow.as /\ message.count = follow.count
  <2>1. follow \in JobStates
    BY <1>1
  <2> QED BY <2>1, ArrivedIs
<1> HIDE DEF message
<1> QED BY <1>1, <1>2 DEF message, follow

\* A message that follows a delivery, through one of the ways out of its mount.
LEMMA LeavesIs ==
  ASSUME Base, NEW j \in Jobs, NEW kind \in {"copy", "dead"}, NEW out, NEW tries \in Nat,
         NEW there \in Published(Home(j), out, TRUE),
         NEW message, message = Arrived(Follow(j, kind), there),
         Fields(j, message.at, message.mount, message.entry, message.as, message.count, tries, message.end)
  PROVE  Leaves(j, kind, out, tries)
<1> DEFINE b == job[j]
<1>1. b \in JobStates
  BY DEF Base
<1>2. /\ there.at = "socket" => message.at = "socket" /\ message.mount = there.mount /\ message.end = b.end
      /\ there.at # "socket" => message.at = "ended" /\ message.mount = b.mount /\ message.end = there.end
      /\ message.entry = b.entry /\ message.as = kind /\ message.count = b.count + 1
  BY <1>1, FollowArrives
<1>3. CASE there.at = "socket"
  <2>1. /\ there.mount \in Receivers(Home(j), out) \cap opened
        /\ ~Refused(Home(j), out, TRUE, opened)
    BY <1>3, PublishedIs
  <2>2. Fields(j, "socket", there.mount, b.entry, kind, b.count + 1, tries, b.end)
    BY <1>2, <1>3
  <2> QED BY <2>1, <2>2 DEF Leaves
<1>4. CASE there.at # "socket"
  <2>1. /\ there.end \in Ends /\ there.end \notin {None, "done", "dropped"}
        /\ there.end = "refused" => Refused(Home(j), out, TRUE, opened)
        /\ there.end \in {"answered", "unsent", "left"} =>
             \/ out.name = Requester
             \/ Receivers(Home(j), out) \cap opened = {} /\ OwnMounts(Home(j), out.via) \ opened = {}
    BY <1>4, PublishedIs
  <2>2. Fields(j, "ended", b.mount, b.entry, kind, b.count + 1, tries, there.end)
    BY <1>2, <1>4
  <2> QED BY <2>1, <2>2 DEF Leaves
<1> QED BY <1>3, <1>4

\* A spent delivery ends, or its dead letter leaves.
LEMMA BuryStep ==
  ASSUME Base, NEW j \in Jobs, Bury(j)
  PROVE  JobStep(j) /\ (\A i \in Jobs \ {j} : job'[i] = job[i]) /\ UNCHANGED <<deployment, phase, opened>>
<1> DEFINE b == job[j]
<1>1. b \in JobStates /\ b.at = "socket" /\ Retries(At(j)) # {} /\ b.tries + 1 \in Nat
  BY DEF Base, Bury, Handling, JobStates
<1>2. CASE At(j).dead = None
  <2>1. Move(j, Arrived(b, Ended("dropped")))
    BY <1>2 DEF Bury
  <2>2. "dropped" \in Ends
    BY DEF Ends
  <2>3. Arrived(b, Ended("dropped")) \in JobStates
    BY <1>1, <2>2, EndedIs, ArrivedType
  <2>4. /\ Fields(j, "ended", b.mount, b.entry, b.as, b.count, b.tries + 1, "dropped")
        /\ \A i \in Jobs \ {j} : job'[i] = job[i]
    BY <1>1, <2>1, <2>3, Moved, ArrivedIs, EndedIs
  <2>5. ~(At(j).outcomes \subseteq {"ack"})
    BY <1>1 DEF Retries
  <2> QED BY <1>1, <2>1, <2>2, <2>4, <2>5 DEF JobStep, IsDone, Move
<1>3. CASE At(j).dead # None
  <2>1. PICK o \in At(j).copies : \E there \in Published(Home(j), Dead(j, o), TRUE) :
               Move(j, Arrived(Follow(j, "dead"), there))
    BY <1>3 DEF Bury
  <2>2. PICK there \in Published(Home(j), Dead(j, o), TRUE) : Move(j, Arrived(Follow(j, "dead"), there))
    BY <2>1
  <2>3. Dead(j, o) \in DeadLetters(b.mount)
    BY <1>1, <1>3, <2>1 DEF Dead, DeadLetters, MayBury, At
  <2> DEFINE message == Arrived(Follow(j, "dead"), there)
  <2>4. message \in JobStates
    <3>1. Follow(j, "dead") \in JobStates
      BY <1>1, FollowIs
    <3>2. there.at = "socket" => there.mount \in Mounts
      BY PublishedIs DEF Base, Served
    <3>3. there.at # "socket" => there.end \in Ends
      BY PublishedIs
    <3> QED BY <3>1, <3>2, <3>3, ArrivedType
  <2>5. message.tries = b.tries
    <3>1. Follow(j, "dead") \in JobStates /\ Follow(j, "dead").tries = b.tries
      BY <1>1, FollowIs
    <3> QED BY <3>1, ArrivedIs
  <2>6. /\ Fields(j, message.at, message.mount, message.entry, message.as, message.count, b.tries + 1, message.end)
        /\ \A i \in Jobs \ {j} : job'[i] = job[i]
    <3> HIDE DEF message
    <3>1. Move(j, message)
      BY <2>2 DEF message
    <3> QED BY <2>4, <2>5, <3>1, Moved
  <2>7. Leaves(j, "dead", Dead(j, o), b.tries + 1)
    <3>1. message = Arrived(Follow(j, "dead"), there)
      OBVIOUS
    <3> HIDE DEF message
    <3> QED BY <1>1, <2>6, <3>1, LeavesIs
  <2> QED BY <1>1, <2>2, <2>3, <2>6, <2>7 DEF JobStep, IsBuried, Move
<1> QED BY <1>2, <1>3

\* A copy leaves through one of the ways out of its mount.
LEMMA CopyStep ==
  ASSUME Base, NEW j \in Jobs, Copy(j)
  PROVE  JobStep(j) /\ (\A i \in Jobs \ {j} : job'[i] = job[i]) /\ UNCHANGED <<deployment, phase, opened>>
<1> DEFINE b == job[j]
<1>1. b \in JobStates /\ b.at = "waiting" /\ b.tries \in Nat /\ MayCopy(At(j))
      /\ UNCHANGED <<deployment, phase, opened>>
  BY DEF Base, Copy, JobStates, Placed
<1>2. PICK out \in At(j).copies : \E there \in Published(Home(j), out, TRUE) :
             job' = [job EXCEPT ![j] = Arrived(Follow(j, "copy"), there)]
  BY DEF Copy
<1>3. PICK there \in Published(Home(j), out, TRUE) : job' = [job EXCEPT ![j] = Arrived(Follow(j, "copy"), there)]
  BY <1>2
<1>4. out \in Copies(b.mount)
  BY <1>1, <1>2 DEF Copies, At
<1> DEFINE message == Arrived(Follow(j, "copy"), there)
<1>5. message.tries = b.tries
  <2>1. Follow(j, "copy") \in JobStates /\ Follow(j, "copy").tries = b.tries
    BY <1>1, FollowIs
  <2> QED BY <2>1, ArrivedIs
<1>6. /\ Fields(j, message.at, message.mount, message.entry, message.as, message.count, b.tries, message.end)
      /\ \A i \in Jobs \ {j} : job'[i] = job[i]
  <2> HIDE DEF message
  <2>1. job' = [job EXCEPT ![j] = message]
    BY <1>3 DEF message
  <2>2. message \in JobStates
    <3>1. Follow(j, "copy") \in JobStates
      BY <1>1, FollowIs
    <3>2. there.at = "socket" => there.mount \in Mounts
      BY PublishedIs DEF Base, Served
    <3>3. there.at # "socket" => there.end \in Ends
      BY PublishedIs
    <3> QED BY <3>1, <3>2, <3>3, ArrivedType DEF message
  <2> QED BY <1>5, <2>1, <2>2 DEF Fields, Base, JobStates
<1>7. Leaves(j, "copy", out, b.tries)
  <2>1. message = Arrived(Follow(j, "copy"), there)
    OBVIOUS
  <2> HIDE DEF message
  <2> QED BY <1>1, <1>6, <2>1, LeavesIs
<1> QED BY <1>1, <1>4, <1>6, <1>7 DEF JobStep, IsCopied

\* Whatever a service does, the services stay what they are, and each message
\* makes one of the steps above.
LEMMA JobSteps ==
  ASSUME Base, [Next]_vars
  PROVE  UNCHANGED deployment /\ \A j \in Jobs : JobStep(j)
<1> USE DEF JobStep, Stays
<1>1. CASE UNCHANGED vars
  BY <1>1 DEF vars
<1>2. ASSUME NEW m \in Mounts, OpenMount(m)
      PROVE  UNCHANGED deployment /\ \A j \in Jobs : JobStep(j)
  BY <1>2 DEF OpenMount
<1>3. ASSUME NEW s \in deployment, Run(s)
      PROVE  UNCHANGED deployment /\ \A j \in Jobs : JobStep(j)
  BY <1>3 DEF Run
<1>4. ASSUME NEW n, NEW into, Close(n, into)
      PROVE  UNCHANGED deployment /\ \A j \in Jobs : JobStep(j)
  <2>1. ASSUME NEW j \in Jobs  PROVE JobStep(j)
    <3>1. job[j] \in JobStates
      BY DEF Base
    <3>2. CASE job[j].at \in {"socket", "waiting"} /\ job[j].mount[1] = n
      <4>1. job'[j] = Arrived(job[j], Ended("lost"))
        BY <1>4, <3>2 DEF Close, Lost
      <4>2. Fields(j, "ended", job[j].mount, job[j].entry, job[j].as, job[j].count, job[j].tries, "lost")
        <5>1. Arrived(job[j], Ended("lost")) \in JobStates
          BY <3>1, EndedIs, ArrivedType DEF Ends
        <5> QED BY <3>1, <4>1, <5>1, EndedIs, ArrivedIs DEF Fields, JobStates
      <4> QED BY <3>2, <4>2 DEF IsLost
    <3>3. CASE ~(job[j].at \in {"socket", "waiting"} /\ job[j].mount[1] = n)
      BY <1>4, <3>3 DEF Close, Lost
    <3> QED BY <3>2, <3>3
  <2> QED BY <1>4, <2>1 DEF Close
<1>5. ASSUME NEW j \in Jobs, NEW m \in Mounts, Push(j, m)
      PROVE  UNCHANGED deployment /\ \A i \in Jobs : JobStep(i)
  <2>1. Comes(j)
    <3>1. Fields(j, "socket", m, m, job[j].as, job[j].count, job[j].tries, job[j].end)
      BY <1>5 DEF Push, Fields, Base, JobStates
    <3> QED BY <1>5, <3>1 DEF Push, Comes
  <2>2. \A i \in Jobs \ {j} : job'[i] = job[i]
    BY <1>5 DEF Push, Base
  <2> QED BY <1>5, <2>1, <2>2 DEF Push
<1>6. ASSUME NEW j \in Jobs, Finish(j) \/ Drop(j) \/ RetryLater(j) \/ Bury(j) \/ Copy(j)
      PROVE  UNCHANGED deployment /\ \A i \in Jobs : JobStep(i)
  BY <1>6, FinishStep, DropStep, RetryLaterStep, BuryStep, CopyStep
<1> QED BY <1>1, <1>2, <1>3, <1>4, <1>5, <1>6 DEF Next, RefuseStart, Stop

------------------------------------------------------------------------------
(* Types, and the mounts that hold messages, in every run. *)

\* What a start opens is one of the mounts that can be opened, and what a stop
\* closes holds no message any more.
LEMMA OpenedStep ==
  ASSUME Base, [Next]_vars
  PROVE  /\ opened' \in SUBSET Served
         /\ phase' \in [{s.name : s \in deployment} -> Phases]
         /\ \A j \in Jobs :
              job'[j].at \in {"socket", "waiting"} /\ job'[j].mount \in opened => job'[j].mount \in opened'
<1> DEFINE Good == /\ opened' \in SUBSET Served
                   /\ phase' \in [{s.name : s \in deployment} -> Phases]
                   /\ \A j \in Jobs :
                        job'[j].at \in {"socket", "waiting"} /\ job'[j].mount \in opened
                          => job'[j].mount \in opened'
<1>0. opened \in SUBSET Served /\ phase \in [{s.name : s \in deployment} -> Phases]
  BY DEF Base
<1>1. ASSUME UNCHANGED <<phase, opened>>  PROVE Good
  BY <1>0, <1>1
<1>2. ASSUME NEW m \in Mounts, OpenMount(m)  PROVE Good
  BY <1>0, <1>2, OpensNext DEF OpenMount
<1>3. ASSUME NEW s \in deployment, Run(s)  PROVE Good
  BY <1>0, <1>3 DEF Run, Phases
<1>4. ASSUME NEW n, NEW into \in Phases, Close(n, into)  PROVE Good
  <2>1. ASSUME NEW j \in Jobs, job'[j].at \in {"socket", "waiting"}, job'[j].mount \in opened
        PROVE  job'[j].mount \in opened'
    <3>1. job[j] \in JobStates
      BY DEF Base
    <3>2. CASE job[j].at \in {"socket", "waiting"} /\ job[j].mount[1] = n
      <4>1. job'[j] = Arrived(job[j], Ended("lost"))
        BY <1>4, <3>2 DEF Close, Lost
      <4>2. job'[j].at = "ended"
        BY <3>1, <4>1, EndedIs, ArrivedIs
      <4> QED BY <2>1, <4>2
    <3>3. CASE ~(job[j].at \in {"socket", "waiting"} /\ job[j].mount[1] = n)
      <4>1. job'[j] = job[j]
        BY <1>4, <3>3 DEF Close, Lost
      <4> QED BY <1>4, <2>1, <3>3, <4>1 DEF Close
    <3> QED BY <3>2, <3>3
  <2> QED BY <1>0, <1>4, <2>1 DEF Close
<1>5. ASSUME NEW j \in Jobs, NEW m \in Mounts, Push(j, m)  PROVE Good
  BY <1>1, <1>5 DEF Push
<1>6. ASSUME NEW j \in Jobs, Finish(j) \/ Drop(j) \/ RetryLater(j) \/ Bury(j) \/ Copy(j)  PROVE Good
  <2>1. UNCHANGED <<phase, opened>>
    BY <1>6, FinishStep, DropStep, RetryLaterStep, BuryStep, CopyStep
  <2> QED BY <1>1, <2>1
<1>7. CASE UNCHANGED vars
  BY <1>1, <1>7 DEF vars
<1>8. "refused" \in Phases /\ "stopped" \in Phases
  BY DEF Phases
<1>9. ASSUME NEW s \in deployment, RefuseStart(s) \/ Stop(s)  PROVE Good
  BY <1>4, <1>8, <1>9 DEF RefuseStart, Stop
<1>10. CASE \E m \in Mounts : OpenMount(m)
  BY <1>2, <1>10
<1>11. CASE \E s \in deployment : Run(s) \/ RefuseStart(s) \/ Stop(s)
  BY <1>3, <1>9, <1>11
<1>12. CASE \E j \in Jobs : \/ \E m \in Mounts : Push(j, m)
                           \/ Finish(j) \/ Drop(j) \/ RetryLater(j) \/ Bury(j) \/ Copy(j)
  BY <1>5, <1>6, <1>12
<1>13. Good
  BY <1>7, <1>10, <1>11, <1>12 DEF Next
<1> QED BY <1>13

\* A message that makes a step is one still, at an open mount while a service has it.
LEMMA JobStepBase ==
  ASSUME Base, NEW j \in Jobs, JobStep(j)
  PROVE  LET b == job[j]
             c == job'[j]
         IN  /\ c \in JobStates
             /\ c.at \in {"socket", "waiting"} => c.mount \in opened /\ c.entry \in Mounts
             /\ c.at = "waiting" => MayCopy(Mount(c.mount))
             /\ c.at # "ended" => c.end = None
             /\ c.at = "peer" => c.tries = 0 /\ c.as = "new"
<1>1. /\ job[j] \in JobStates /\ opened \subseteq Mounts /\ None \in Ends /\ "lost" \in Ends
      /\ job[j].at \in {"socket", "waiting"} => job[j].mount \in opened /\ job[j].entry \in Mounts
      /\ job[j].at = "waiting" => MayCopy(Mount(job[j].mount))
      /\ job[j].at # "ended" => job[j].end = None
      /\ job[j].at = "peer" => job[j].tries = 0 /\ job[j].as = "new"
  BY DEF Base, Placed, Served, Ends, At
<1> USE <1>1 DEF JobStates, Fields
<1>2. CASE Stays(j)
  BY <1>2 DEF Stays
<1>3. CASE IsLost(j)
  BY <1>3 DEF IsLost
<1>4. CASE Comes(j)
  BY <1>4 DEF Comes
<1>5. CASE IsDone(j)
  BY <1>5 DEF IsDone
<1>6. CASE Begins(j)
  BY <1>6 DEF Begins
<1>7. CASE Waits(j)
  BY <1>7 DEF Waits, At
<1>8. ASSUME NEW kind \in {"copy", "dead"}, NEW out, NEW tries \in Nat, Leaves(j, kind, out, tries),
             job[j].at \in {"socket", "waiting"}
      PROVE  LET c == job'[j]
             IN  /\ c \in JobStates /\ c.at \in {"socket", "ended"} /\ c.entry \in Mounts
                 /\ c.at = "socket" => c.mount \in opened /\ c.end = None
  <2>1. job[j].mount \in Mounts /\ job[j].entry \in Mounts /\ job[j].count + 1 \in Nat /\ job[j].end = None
    BY <1>8
  <2>2. CASE \E m \in Receivers(Home(j), out) \cap opened :
               Fields(j, "socket", m, job[j].entry, kind, job[j].count + 1, tries, job[j].end)
    BY <2>1, <2>2
  <2>3. CASE \E how \in Ends :
               Fields(j, "ended", job[j].mount, job[j].entry, kind, job[j].count + 1, tries, how)
    BY <2>1, <2>3
  <2> QED BY <1>8, <2>2, <2>3 DEF Leaves
<1>9. CASE IsBuried(j)
  <2>1. PICK out \in DeadLetters(job[j].mount) : Leaves(j, "dead", out, job[j].tries + 1)
    BY <1>9 DEF IsBuried
  <2> QED BY <1>8, <1>9, <2>1 DEF IsBuried
<1>10. CASE IsCopied(j)
  <2>1. PICK out \in Copies(job[j].mount) : Leaves(j, "copy", out, job[j].tries)
    BY <1>10 DEF IsCopied
  <2> QED BY <1>8, <1>10, <2>1 DEF IsCopied
<1> QED BY <1>2, <1>3, <1>4, <1>5, <1>6, <1>7, <1>9, <1>10 DEF JobStep

\* There is always one state of each message.
LEMMA JobsIs ==
  ASSUME Base, [Next]_vars
  PROVE  job' = [j \in Jobs |-> job'[j]]
<1>1. ASSUME NEW j \in Jobs, NEW message, job' = [job EXCEPT ![j] = message]
      PROVE  job' = [i \in Jobs |-> job'[i]]
  BY <1>1 DEF Base
<1>2. ASSUME NEW j \in Jobs, NEW message, Move(j, message)
      PROVE  job' = [i \in Jobs |-> job'[i]]
  BY <1>2 DEF Move, Base
<1>3. ASSUME NEW j \in Jobs, NEW m, Begin(j, m)
      PROVE  job' = [i \in Jobs |-> job'[i]]
  BY <1>3 DEF Begin, Base
<1>4. ASSUME NEW n, NEW into, Close(n, into)
      PROVE  job' = [i \in Jobs |-> job'[i]]
  BY <1>4 DEF Close, Lost
<1>5. CASE UNCHANGED job
  BY <1>5 DEF Base
<1>6. ASSUME NEW j \in Jobs, NEW m \in Mounts, Push(j, m)
      PROVE  job' = [i \in Jobs |-> job'[i]]
  BY <1>6 DEF Push, Base
<1>7. ASSUME NEW j \in Jobs, Finish(j)
      PROVE  job' = [i \in Jobs |-> job'[i]]
  BY <1>2, <1>3, <1>7 DEF Finish
<1>8. ASSUME NEW j \in Jobs, Drop(j) \/ RetryLater(j)
      PROVE  job' = [i \in Jobs |-> job'[i]]
  BY <1>2, <1>8 DEF Drop, RetryLater
<1>9. ASSUME NEW j \in Jobs, Bury(j)
      PROVE  job' = [i \in Jobs |-> job'[i]]
  BY <1>2, <1>9 DEF Bury
<1>10. ASSUME NEW j \in Jobs, Copy(j)
       PROVE  job' = [i \in Jobs |-> job'[i]]
  BY <1>1, <1>10 DEF Copy
<1>11. ASSUME NEW s \in deployment, Run(s) \/ RefuseStart(s) \/ Stop(s)
       PROVE  job' = [i \in Jobs |-> job'[i]]
  BY <1>4, <1>5, <1>11 DEF Run, RefuseStart, Stop
<1>12. ASSUME NEW m \in Mounts, OpenMount(m)
       PROVE  job' = [i \in Jobs |-> job'[i]]
  BY <1>5, <1>12 DEF OpenMount
<1>13. CASE UNCHANGED vars
  BY <1>5, <1>13 DEF vars
<1> QED BY <1>6, <1>7, <1>8, <1>9, <1>10, <1>11, <1>12, <1>13 DEF Next

\* At the start nothing is open, and no message has come in.
LEMMA InitBase == Init => Base
<1> SUFFICES ASSUME Init PROVE Base
  OBVIOUS
<1>1. phase \in [{s.name : s \in deployment} -> Phases]
  BY DEF Init, Phases
<1>2. job \in [Jobs -> JobStates]
  BY DEF Init, JobStates, Ends
<1>3. Placed
  BY DEF Init, Placed
<1> QED BY <1>1, <1>2, <1>3 DEF Init, Base

\* The types hold, and what a service holds is at one of its open mounts.
LEMMA StepBase == Base /\ [Next]_vars => Base'
<1> SUFFICES ASSUME Base, [Next]_vars PROVE Base'
  OBVIOUS
<1>1. UNCHANGED deployment /\ \A j \in Jobs : JobStep(j)
  BY JobSteps
<1>2. Mounts' = Mounts /\ Served' = Served /\ \A m : Mount(m)' = Mount(m)
  BY <1>1, Kept
<1>3. /\ opened' \in SUBSET Served
      /\ phase' \in [{s.name : s \in deployment} -> Phases]
      /\ \A j \in Jobs :
           job'[j].at \in {"socket", "waiting"} /\ job'[j].mount \in opened => job'[j].mount \in opened'
  BY OpenedStep
<1>4. job' \in [Jobs -> JobStates]
  <2>1. job' = [j \in Jobs |-> job'[j]]
    BY JobsIs
  <2>2. ASSUME NEW j \in Jobs PROVE job'[j] \in JobStates
    BY <1>1, JobStepBase
  <2> QED BY <2>1, <2>2
<1>5. Placed'
  <2>1. ASSUME NEW j \in Jobs
        PROVE  /\ job'[j].at \in {"socket", "waiting"} => job'[j].mount \in opened' /\ job'[j].entry \in Mounts
               /\ job'[j].at = "waiting" => MayCopy(Mount(job'[j].mount))
               /\ job'[j].at # "ended" => job'[j].end = None
               /\ job'[j].at = "peer" => job'[j].tries = 0 /\ job'[j].as = "new"
    BY <1>1, <1>3, JobStepBase
  <2> QED BY <1>2, <2>1 DEF Placed, At
<1>6. deployment' \in Deployments /\ opened' \in SUBSET Served'
  BY <1>1, <1>2, <1>3 DEF Base
<1>7. JobStates' = JobStates
  BY <1>2 DEF JobStates
<1>8. phase' \in [{s.name : s \in deployment'} -> Phases]
  BY <1>1, <1>3
<1> QED BY <1>4, <1>5, <1>6, <1>7, <1>8 DEF Base

\* The types hold in every run.
THEOREM Typed == Spec => []Base
<1> QED BY InitBase, StepBase, PTL DEF Spec

\* What is declared does not change as the services run.
LEMMA DeclaredKept ==
  ASSUME UNCHANGED deployment
  PROVE  /\ \A refusing : RefusedAsSaid(refusing)' = RefusedAsSaid(refusing)
         /\ \A misaddressed : Addressed(misaddressed)' = Addressed(misaddressed)
         /\ LeadHome' = LeadHome /\ Parked' = Parked
         /\ \A s, out, headers, up : Refused(s, out, headers, up)' = Refused(s, out, headers, up)
         /\ \A s : Startable(s)' = Startable(s)
<1>1. /\ Mounts' = Mounts /\ \A m : Mount(m)' = Mount(m)
      /\ \A n : Named(n)' = Named(n)
      /\ Served' = Served
  BY Kept
<1>2. \A s, broker : OwnMounts(s, broker)' = OwnMounts(s, broker)
  BY <1>1 DEF OwnMounts
<1>3. \A s, out, headers, up : Refused(s, out, headers, up)' = Refused(s, out, headers, up)
  BY <1>1, <1>2 DEF Refused
<1>4. \A s, out : Receivers(s, out)' = Receivers(s, out)
  BY <1>1, <1>2 DEF Receivers
<1>5. \A m : Copies(m)' = Copies(m) /\ DeadLetters(m)' = DeadLetters(m)
  BY <1>1 DEF Copies, DeadLetters
<1>6. \A m, other : Alike(m, other)' = Alike(m, other)
  BY <1>1 DEF Alike
<1>7. \A m, out : Reached(m, out)' = Reached(m, out)
  BY <1>1, <1>3, <1>4 DEF Reached
<1>8. \A s : Startable(s)' = Startable(s)
  BY <1>1 DEF Startable
<1>9. \A refusing : RefusedAsSaid(refusing)' = RefusedAsSaid(refusing)
  BY <1>8 DEF RefusedAsSaid
<1>10. \A misaddressed : Addressed(misaddressed)' = Addressed(misaddressed)
  BY <1>1, <1>3, <1>5 DEF Addressed
<1>11. LeadHome' = LeadHome
  BY <1>1, <1>5, <1>6, <1>7 DEF LeadHome
<1>12. \A m, out : Keeps(m, out)' = Keeps(m, out)
  BY <1>1, <1>2, <1>3 DEF Keeps
<1>13. Parked' = Parked
  BY <1>1, <1>5, <1>12 DEF Parked
<1> QED BY <1>3, <1>8, <1>9, <1>10, <1>11, <1>13

\* A refusal does not end with more subscriptions open.
LEMMA StillRefused ==
  ASSUME NEW s, NEW out, NEW headers, NEW up, NEW more, up \subseteq more, Refused(s, out, headers, up)
  PROVE  Refused(s, out, headers, more)
BY DEF Refused

------------------------------------------------------------------------------
(* The invariants of the runs. *)

\* On its way a message is at a mount like the one where it came in, with a count
\* below the cap; a dead letter is at a mount that retries nothing.
OnItsWay(b) ==
  LET here == Mount(b.mount)
  IN  /\ b.at \in {"socket", "waiting"} /\ b.as # "dead" => Alike(b.entry, b.mount)
      /\ b.at = "peer" => b.as = "new" /\ b.count = 0 /\ b.tries = 0
      /\ b.at = "socket" /\ b.as # "dead" /\ here.cap > 0 => b.tries = b.count /\ b.count < here.cap
      /\ b.at = "socket" /\ b.as = "dead" => Retries(here) = {} /\ here.name # Mount(b.entry).name
      /\ b.at = "waiting" => b.as # "dead" /\ (here.cap > 0 => b.tries = b.count + 1 /\ b.tries < here.cap)
      /\ b.at = "ended" /\ b.as # "dead" /\ b.tries > 0 /\ Mount(b.entry).cap > 0 => b.tries <= Mount(b.entry).cap

\* A dead letter of a mount that has a parking place is there, or has ended there.
InItsPlace(b) ==
  LET parking == {m \in Mounts : Mount(m).name = Mount(b.entry).dead}
  IN  b.as = "dead" /\ parking # {} =>
        /\ b.at = "socket" => /\ b.mount \in parking
                              /\ Mount(b.mount).outcomes \subseteq {"ack"} /\ Mount(b.mount).sends = {}
        /\ b.at = "ended" => b.end \in {"done", "lost", "unheard"}

\* A refusal is the end of a message, at a mount of a service that is said to publish where nothing may.
RefusedThere(b) == b.end = "refused" => b.at = "ended" /\ Named(b.mount[1]) \in Misaddressed

\* A service that runs could start, and one that is refused could not.
AsItStarts == \A s \in deployment : /\ phase[s.name] = "running" => Startable(s)
                                    /\ phase[s.name] = "refused" => ~Startable(s)

------------------------------------------------------------------------------
(* How services start. *)

\* Where a mount is refused in its turn, no start can come to it: the endpoint that
\* it clashes with is one of an earlier mount, or that mount would not be open.
LEMMA RefusedIsNotServed ==
  ASSUME Base, NEW m \in Mounts, OpenRefused(m)
  PROVE  m \notin Served
<1>1. /\ deployment \in Deployments /\ opened \subseteq Served /\ Served \subseteq Mounts
  BY DEF Base, Served
<1>2. m = <<m[1], m[2]>> /\ m[2] \in Nat \ {0} /\ m[2] \in 1..m[2]
  BY <1>1, MountIs
<1>3. CASE Mount(m).copies = {}
  BY <1>2, <1>3 DEF Served, Openable
<1>4. CASE \E other \in opened : Clash(m, other)
  <2>1. PICK other \in opened : Clash(m, other)
    BY <1>4
  <2>2. /\ other = <<other[1], other[2]>> /\ other[2] \in Nat \ {0} /\ other[2] \in 1..other[2]
        /\ other[1] = m[1] /\ other # m /\ Openable(other) /\ Clash(other, m)
    BY <1>1, <2>1, MountIs DEF Clash, Served
  <2>3. CASE m[2] < other[2]
    <3>1. m[2] \in 1..(other[2] - 1)
      BY <1>2, <2>2, <2>3
    <3>2. ~Clash(<<other[1], other[2]>>, <<other[1], m[2]>>)
      BY <2>2, <3>1 DEF Openable
    <3> QED BY <1>2, <2>2, <3>2
  <2>4. CASE other[2] < m[2]
    <3>1. other[2] \in 1..(m[2] - 1)
      BY <1>2, <2>2, <2>4
    <3>2. Openable(m) => ~Clash(<<m[1], m[2]>>, <<m[1], other[2]>>)
      BY <1>2, <3>1 DEF Openable
    <3> QED BY <1>2, <2>1, <2>2, <3>2 DEF Served
  <2> QED BY <1>2, <2>2, <2>3, <2>4
<1> QED BY <1>3, <1>4 DEF OpenRefused

\* A service runs with all its mounts open, and none is refused that could start.
LEMMA StartStep ==
  ASSUME Base, AsItStarts, [Next]_vars
  PROVE  AsItStarts'
<1>1. UNCHANGED deployment /\ \A s : Startable(s)' = Startable(s)
  BY JobSteps, DeclaredKept
<1> SUFFICES ASSUME NEW s \in deployment
             PROVE  /\ phase'[s.name] = "running" => Startable(s)
                    /\ phase'[s.name] = "refused" => ~Startable(s)
  BY <1>1 DEF AsItStarts
<1>2. CASE phase'[s.name] = phase[s.name]
  BY <1>2 DEF AsItStarts
<1>3. deployment \in Deployments /\ phase \in [{t.name : t \in deployment} -> Phases] /\ opened \subseteq Served
  BY DEF Base
<1>4. ASSUME NEW t \in deployment, Run(t), phase'[s.name] # phase[s.name]
      PROVE  phase'[s.name] = "running" /\ Startable(s)
  <2>1. t.name = s.name /\ phase'[s.name] = "running"
    BY <1>3, <1>4 DEF Run
  <2>2. t = s
    BY <1>3, <2>1, NamedIs
  <2> QED BY <1>3, <1>4, <2>1, <2>2 DEF Run, Startable
<1>5. ASSUME NEW t \in deployment, RefuseStart(t), phase'[s.name] # phase[s.name]
      PROVE  phase'[s.name] = "refused" /\ ~Startable(s)
  <2>1. t.name = s.name /\ phase'[s.name] = "refused"
    BY <1>3, <1>5 DEF RefuseStart, Close
  <2>2. t = s
    BY <1>3, <2>1, NamedIs
  <2>3. CASE ConnectRefused(s)
    BY <2>1, <2>3 DEF Startable
  <2>4. CASE \E m \in Mounts : m[1] = s.name /\ NextMount(m) /\ OpenRefused(m)
    <3>1. PICK m \in Mounts : m[1] = s.name /\ NextMount(m) /\ OpenRefused(m)
      BY <2>4
    <3>2. m \notin Served
      BY <1>3, <3>1, RefusedIsNotServed
    <3>3. m = <<s.name, m[2]>> /\ m[2] \in DOMAIN s.mounts
      BY <1>3, <3>1, MountIs, NamedIs
    <3> QED BY <2>1, <3>2, <3>3 DEF Startable
  <2> QED BY <1>5, <2>1, <2>2, <2>3, <2>4 DEF RefuseStart
<1>6. ASSUME NEW t \in deployment, Stop(t), phase'[s.name] # phase[s.name]
      PROVE  phase'[s.name] = "stopped"
  BY <1>3, <1>6 DEF Stop, Close
<1>7. ASSUME NEW m \in Mounts, OpenMount(m)  PROVE UNCHANGED phase
  BY <1>7 DEF OpenMount
<1>8. ASSUME NEW j \in Jobs, NEW m \in Mounts, Push(j, m)  PROVE UNCHANGED phase
  BY <1>8 DEF Push
<1>9. ASSUME NEW j \in Jobs, Finish(j) \/ Drop(j) \/ RetryLater(j) \/ Bury(j) \/ Copy(j)
      PROVE  UNCHANGED phase
  BY <1>9, FinishStep, DropStep, RetryLaterStep, BuryStep, CopyStep
<1>10. CASE UNCHANGED vars
  BY <1>2, <1>10 DEF vars
<1> QED BY <1>2, <1>4, <1>5, <1>6, <1>7, <1>8, <1>9, <1>10 DEF Next

\* A service starts unless a document or a test says that it is refused, where
\* the declarations are such: every run of such services, with any messages.
THEOREM StartsSafety == Spec /\ RefusedAsSaid(Refusing) => []StartsUnlessRefusing
<1>1. Init => AsItStarts
  BY DEF Init, AsItStarts
<1>2. Base /\ AsItStarts /\ RefusedAsSaid(Refusing) /\ [Next]_vars => AsItStarts' /\ RefusedAsSaid(Refusing)'
  BY StartStep, JobSteps, DeclaredKept
<1>3. AsItStarts /\ RefusedAsSaid(Refusing) => StartsUnlessRefusing
  BY DEF AsItStarts, RefusedAsSaid, StartsUnlessRefusing
<1> QED BY <1>1, <1>2, <1>3, Typed, PTL DEF Spec

------------------------------------------------------------------------------
(* What is refused. *)

\* With all mounts open a publish of theirs is not refused, nor with fewer.
LEMMA NotRefused ==
  ASSUME Base, NEW s, NEW out, NEW headers, ~Refused(s, out, headers, Served)
  PROVE  ~Refused(s, out, headers, opened)
BY StillRefused DEF Base

\* A message that a publisher refuses came from a mount of a service that is said
\* to publish where nothing may.
LEMMA RefusedStep ==
  ASSUME Base, Addressed(Misaddressed), NEW j \in Jobs, JobStep(j), RefusedThere(job[j])
  PROVE  LET c == job'[j] IN c.end = "refused" => c.at = "ended" /\ Named(c.mount[1]) \in Misaddressed
<1> DEFINE b == job[j]
<1>1. /\ b.at \in {"socket", "waiting"} => b.mount \in Served
      /\ b.at # "ended" => b.end # "refused"
  BY DEF Base, Placed, None
<1>2. CASE Stays(j)
  BY <1>2 DEF Stays, RefusedThere
<1>3. CASE IsLost(j) \/ Comes(j) \/ Begins(j) \/ Waits(j)
  <2>1. job'[j].end = "lost" \/ (job'[j].end = b.end /\ b.at # "ended")
    BY <1>3, FieldsIs DEF IsLost, Comes, Begins, Waits
  <2> QED BY <1>1, <2>1
<1>4. CASE IsDone(j)
  <2>1. CASE job'[j].end = "refused"
    <3>0. PICK how \in Ends :
               /\ Fields(j, "ended", b.mount, b.entry, b.as, b.count, b.tries + 1, how)
               /\ \/ how = "done"
                  \/ how = "dropped" /\ ~(At(j).outcomes \subseteq {"ack"})
                  \/ how # None /\ \E out \in At(j).sends : how = "refused" => Refused(Home(j), out, FALSE, opened)
      BY <1>4 DEF IsDone
    <3>1. PICK out \in At(j).sends : Refused(Home(j), out, FALSE, opened)
      BY <2>1, <3>0, FieldsIs
    <3>2. Refused(Home(j), out, FALSE, Served)
      BY <3>1, NotRefused
    <3>3. b.mount \in Served /\ job'[j].at = "ended" /\ job'[j].mount = b.mount
      BY <1>1, <1>4, <3>0, FieldsIs DEF IsDone
    <3> QED BY <3>1, <3>2, <3>3 DEF Addressed, At, Home
  <2> QED BY <2>1
<1>5. ASSUME b.mount \in Served, NEW kind, NEW tries, NEW out \in Copies(b.mount) \cup DeadLetters(b.mount),
             Leaves(j, kind, out, tries), b.end # "refused", job'[j].end = "refused"
      PROVE  job'[j].at = "ended" /\ Named(job'[j].mount[1]) \in Misaddressed
  <2>1. Refused(Home(j), out, TRUE, opened) /\ job'[j].at = "ended" /\ job'[j].mount = b.mount
    BY <1>5, LeftIs
  <2>2. Refused(Home(j), out, TRUE, Served)
    BY <2>1, NotRefused
  <2> QED BY <1>5, <2>1, <2>2 DEF Addressed, Home
<1>6. CASE IsBuried(j)
  <2>1. PICK out \in DeadLetters(b.mount) : Leaves(j, "dead", out, b.tries + 1)
    BY <1>6 DEF IsBuried
  <2> QED BY <1>1, <1>5, <1>6, <2>1 DEF IsBuried
<1>7. CASE IsCopied(j)
  <2>1. PICK out \in Copies(b.mount) : Leaves(j, "copy", out, b.tries)
    BY <1>7 DEF IsCopied
  <2> QED BY <1>1, <1>5, <1>7, <2>1 DEF IsCopied
<1> QED BY <1>2, <1>3, <1>4, <1>6, <1>7 DEF JobStep

\* Where the services are addressed as their declarations show, none of what they
\* publish is refused by their own publishers, in any run.
THEOREM RefusedSafety == Spec /\ Addressed(Misaddressed) => []OnlyMisaddressedRefused
<1> DEFINE Inv == \A j \in Jobs : RefusedThere(job[j])
<1>1. Init => Inv
  BY DEF Init, RefusedThere, None
<1>2. Base /\ Inv /\ Addressed(Misaddressed) /\ [Next]_vars => Inv' /\ Addressed(Misaddressed)'
  <2> SUFFICES ASSUME Base, Inv, Addressed(Misaddressed), [Next]_vars PROVE Inv' /\ Addressed(Misaddressed)'
    OBVIOUS
  <2>1. UNCHANGED deployment /\ \A j \in Jobs : JobStep(j)
    BY JobSteps
  <2>2. Addressed(Misaddressed)' /\ \A n : Named(n)' = Named(n)
    BY <2>1, DeclaredKept, Kept
  <2>3. ASSUME NEW j \in Jobs
        PROVE  job'[j].end = "refused" => job'[j].at = "ended" /\ Named(job'[j].mount[1]) \in Misaddressed
    BY <2>1, RefusedStep
  <2> QED BY <2>2, <2>3 DEF RefusedThere
<1>3. Base /\ Inv /\ Addressed(Misaddressed) => OnlyMisaddressedRefused
  <2> SUFFICES ASSUME Base, Inv, Addressed(Misaddressed) PROVE OnlyMisaddressedRefused
    OBVIOUS
  <2>1. \A j \in Jobs : job[j].end = "refused" => Home(j) \in Misaddressed
    BY DEF RefusedThere, Home
  <2>2. \A s \in deployment : \A h \in s.hooks : ~Refused(s, h, FALSE, opened)
    BY NotRefused DEF Addressed
  <2> QED BY <2>1, <2>2 DEF OnlyMisaddressedRefused
<1> HIDE DEF Inv
<1> QED BY <1>1, <1>2, <1>3, Typed, PTL DEF Spec

------------------------------------------------------------------------------
(* Copies, caps and dead letters. *)

\* Where a copy, or a dead letter, comes in, it could be led by its declarations.
LEMMA ReachedIs ==
  ASSUME Base, NEW j \in Jobs, job[j].mount \in opened, NEW out,
         ~Refused(Home(j), out, TRUE, opened), NEW m \in Receivers(Home(j), out) \cap opened
  PROVE  m \in Reached(job[j].mount, out)
<1>1. ~Refused(Home(j), out, TRUE, {job[j].mount})
  BY StillRefused
<1> QED BY <1>1 DEF Reached, Home, Base

\* What is alike has the same name, outcomes, cap and dead letter.
LEMMA AlikeIs ==
  ASSUME NEW m, NEW other, Alike(m, other)
  PROVE  /\ Mount(m).name = Mount(other).name /\ Mount(m).outcomes = Mount(other).outcomes
         /\ Mount(m).cap = Mount(other).cap /\ Mount(m).dead = Mount(other).dead
BY DEF Alike

\* A dead letter is never retried, a copy counts itself, and both keep to mounts
\* like their own, whatever a service does with a message.
LEMMA OnItsWayStep ==
  ASSUME Base, LeadHome, NEW j \in Jobs, JobStep(j), OnItsWay(job[j])
  PROVE  OnItsWay(job'[j])
<1> DEFINE b == job[j]
           c == job'[j]
<1>1. /\ b \in JobStates
      /\ b.at \in {"socket", "waiting"} => b.mount \in opened /\ b.mount \in Served /\ b.entry \in Mounts
  BY DEF Base, Placed
<1>2. /\ \A m \in opened : m \in Served /\ m \in Mounts /\ Mount(m).cap \in Nat
      /\ \A m \in Mounts : Mount(m).cap \in Nat
  BY MountIs DEF Base, Served
<1>3. CASE Stays(j)
  BY <1>3 DEF Stays
<1>4. CASE IsLost(j)
  <2>1. /\ b.at \in {"socket", "waiting"} /\ c.at = "ended" /\ c.entry = b.entry /\ c.as = b.as
        /\ c.tries = b.tries
    BY <1>4, FieldsIs DEF IsLost
  <2>2. CASE b.as # "dead"
    <3>1. Mount(b.entry).cap = Mount(b.mount).cap
      BY <2>1, <2>2, AlikeIs DEF OnItsWay
    <3>2. Mount(b.mount).cap > 0 => b.tries <= Mount(b.mount).cap
      BY <1>1, <1>2, <2>1, <2>2 DEF OnItsWay, JobStates
    <3> QED BY <2>1, <3>1, <3>2 DEF OnItsWay
  <2> QED BY <2>1, <2>2 DEF OnItsWay
<1>5. CASE Comes(j)
  <2>1. PICK m \in opened : Fields(j, "socket", m, m, b.as, b.count, b.tries, b.end)
    BY <1>5 DEF Comes
  <2>2. /\ c.at = "socket" /\ c.mount = m /\ c.entry = m /\ c.as = "new" /\ c.count = 0 /\ c.tries = 0
    BY <1>5, <2>1, FieldsIs DEF Comes, OnItsWay
  <2> QED BY <1>2, <2>2 DEF OnItsWay, Alike
<1>6. CASE IsDone(j)
  <2>1. /\ b.at = "socket" /\ c.at = "ended" /\ c.entry = b.entry /\ c.as = b.as /\ c.tries = b.tries + 1
    BY <1>6, FieldsIs DEF IsDone
  <2>2. CASE b.as # "dead"
    <3>1. Mount(b.entry).cap = Mount(b.mount).cap
      BY <2>1, <2>2, AlikeIs DEF OnItsWay
    <3>2. Mount(b.mount).cap > 0 => b.tries + 1 <= Mount(b.mount).cap
      BY <1>1, <1>2, <2>1, <2>2 DEF OnItsWay, JobStates
    <3> QED BY <2>1, <3>1, <3>2 DEF OnItsWay
  <2> QED BY <2>1, <2>2 DEF OnItsWay
<1>7. CASE Begins(j)
  <2>1. PICK m \in opened : Fields(j, "socket", m, m, "new", 0, 0, b.end)
    BY <1>7 DEF Begins
  <2>2. /\ c.at = "socket" /\ c.mount = m /\ c.entry = m /\ c.as = "new" /\ c.count = 0 /\ c.tries = 0
    BY <2>1, FieldsIs
  <2> QED BY <1>2, <2>2 DEF OnItsWay, Alike
<1>8. CASE Waits(j)
  <2>1. /\ b.at = "socket" /\ MayCopy(At(j)) /\ (At(j).cap > 0 => b.count + 1 < At(j).cap)
        /\ c.at = "waiting" /\ c.mount = b.mount /\ c.entry = b.entry /\ c.as = b.as
        /\ c.count = b.count /\ c.tries = b.tries + 1
    BY <1>8, FieldsIs DEF Waits
  <2>2. b.as # "dead"
    BY <2>1 DEF OnItsWay, MayCopy, At
  <2>3. Alike(c.entry, c.mount) /\ (Mount(c.mount).cap > 0 => b.tries = b.count)
    BY <2>1, <2>2 DEF OnItsWay
  <2> QED BY <1>1, <2>1, <2>2, <2>3 DEF OnItsWay, At, JobStates
<1>9. CASE IsBuried(j)
  <2>1. PICK out \in DeadLetters(b.mount) : Leaves(j, "dead", out, b.tries + 1)
    BY <1>9 DEF IsBuried
  <2>2. b.at = "socket" /\ Retries(Mount(b.mount)) # {}
    BY <1>9, <2>1 DEF IsBuried, DeadLetters, MayBury
  <2>3. Alike(b.entry, b.mount)
    BY <2>2 DEF OnItsWay
  <2>4. c.as = "dead" /\ c.entry = b.entry /\ c.at \in {"socket", "ended"}
    BY <2>1, LeftAs
  <2>5. ASSUME c.at = "socket"
        PROVE  Retries(Mount(c.mount)) = {} /\ Mount(c.mount).name # Mount(b.mount).name
    <3>1. c.mount \in Receivers(Home(j), out) \cap opened /\ ~Refused(Home(j), out, TRUE, opened)
      BY <2>1, <2>5, LeftFor
    <3>2. c.mount \in Reached(b.mount, out)
      BY <1>1, <2>2, <3>1, ReachedIs
    <3> QED BY <1>1, <2>1, <2>2, <3>2 DEF LeadHome
  <2> QED BY <2>3, <2>4, <2>5, AlikeIs DEF OnItsWay
<1>10. CASE IsCopied(j)
  <2>1. PICK out \in Copies(b.mount) : Leaves(j, "copy", out, b.tries)
    BY <1>10 DEF IsCopied
  <2>2. b.at = "waiting" /\ b.as # "dead" /\ Alike(b.entry, b.mount)
        /\ (Mount(b.mount).cap > 0 => b.tries = b.count + 1 /\ b.tries < Mount(b.mount).cap)
    BY <1>10 DEF IsCopied, OnItsWay
  <2>3. c.as = "copy" /\ c.entry = b.entry /\ c.count = b.count + 1 /\ c.tries = b.tries
        /\ c.at \in {"socket", "ended"}
    BY <2>1, LeftAs
  <2>4. CASE c.at = "socket"
    <3>1. c.mount \in Receivers(Home(j), out) \cap opened /\ ~Refused(Home(j), out, TRUE, opened)
      BY <2>1, <2>4, LeftFor
    <3>2. c.mount \in Reached(b.mount, out)
      BY <1>1, <2>2, <3>1, ReachedIs
    <3>3. Alike(b.mount, c.mount)
      BY <1>1, <2>1, <2>2, <3>2 DEF LeadHome
    <3>4. Alike(b.entry, c.mount) /\ Mount(c.mount).cap = Mount(b.mount).cap
      BY <2>2, <3>3 DEF Alike
    <3> QED BY <2>2, <2>3, <2>4, <3>4 DEF OnItsWay
  <2>5. CASE c.at = "ended"
    <3>1. Mount(b.entry).cap = Mount(b.mount).cap
      BY <2>2, AlikeIs
    <3>2. Mount(b.mount).cap > 0 => b.tries <= Mount(b.mount).cap
      BY <1>1, <1>2, <2>2 DEF JobStates
    <3> QED BY <2>3, <2>5, <3>1, <3>2 DEF OnItsWay
  <2> QED BY <2>3, <2>4, <2>5
<1> QED BY <1>3, <1>4, <1>5, <1>6, <1>7, <1>8, <1>9, <1>10 DEF JobStep

\* A dead letter goes to the subscriptions of its name, or ends as it may.
LEMMA BuriedInPlace ==
  ASSUME Base, LeadHome, Parked, NEW j \in Jobs, IsBuried(j), OnItsWay(job[j])
  PROVE  InItsPlace(job'[j])
<1> DEFINE b == job[j]
           c == job'[j]
           parking == {m \in Mounts : Mount(m).name = Mount(b.entry).dead}
<1>1. PICK out \in DeadLetters(b.mount) : Leaves(j, "dead", out, b.tries + 1)
  BY DEF IsBuried
<1>2. /\ b.at = "socket" /\ b.mount \in Served /\ b.mount \in opened
      /\ Retries(Mount(b.mount)) # {} /\ out.name = Mount(b.mount).dead
  <2>1. b.at = "socket" /\ b.mount \in Served /\ b.mount \in opened
    BY DEF IsBuried, Base, Placed
  <2>2. MayBury(Mount(b.mount)) /\ \E o \in Mount(b.mount).copies : out = Out(o.via, Mount(b.mount).dead)
    BY <1>1 DEF DeadLetters
  <2>3. PICK o \in Mount(b.mount).copies : out = Out(o.via, Mount(b.mount).dead)
    BY <2>2
  <2>4. out.name = Mount(b.mount).dead
    BY <2>3 DEF Out
  <2> QED BY <2>1, <2>2, <2>4 DEF MayBury
<1>3. Mount(b.entry).dead = Mount(b.mount).dead
  BY <1>2, AlikeIs DEF OnItsWay
<1>4. c.entry = b.entry /\ c.at \in {"socket", "ended"}
  BY <1>1, LeftAs
<1> SUFFICES ASSUME parking # {}
             PROVE  /\ c.at = "socket" => /\ c.mount \in parking
                                          /\ Mount(c.mount).outcomes \subseteq {"ack"} /\ Mount(c.mount).sends = {}
                    /\ c.at = "ended" => c.end \in {"done", "lost", "unheard"}
  BY <1>4 DEF InItsPlace
<1>5. Keeps(b.mount, out)
  BY <1>1, <1>2, <1>3 DEF Parked
<1> DEFINE own == OwnMounts(Home(j), out.via)
<1>6. /\ out.via.side = "bind" /\ out.name # Requester /\ own # {}
      /\ ~Refused(Home(j), out, TRUE, Served)
      /\ \A other \in own : /\ Mount(other).name = out.name
                            /\ Mount(other).outcomes \subseteq {"ack"} /\ Mount(other).sends = {}
  BY <1>5 DEF Keeps, Home
<1>7. Receivers(Home(j), out) = {m \in own : Meets(out.via.pattern, Mount(m).name, out.name)}
  BY <1>6 DEF Receivers
<1>8. CASE c.at = "socket"
  <2>1. c.mount \in own
    BY <1>1, <1>7, <1>8, LeftFor
  <2>2. c.mount \in Mounts
    BY <2>1 DEF OwnMounts
  <2> QED BY <1>2, <1>3, <1>6, <1>8, <2>1, <2>2
<1>9. CASE c.at = "ended"
  <2>1. /\ c.end \in Ends \ {None, "done", "dropped"}
        /\ c.end = "refused" => Refused(Home(j), out, TRUE, opened)
        /\ c.end \in {"answered", "unsent", "left"} =>
             \/ out.name = Requester
             \/ Receivers(Home(j), out) \cap opened = {} /\ own \ opened = {}
    BY <1>1, <1>9, EndedAs
  <2>2. c.end # "refused"
    BY <1>6, <2>1, NotRefused
  <2>3. Receivers(Home(j), out) = own
    BY <1>6, <1>7 DEF Meets
  <2>4. c.end \notin {"answered", "unsent", "left"}
    BY <1>6, <2>1, <2>3
  <2> QED BY <1>9, <2>1, <2>2, <2>4 DEF Ends
<1> QED BY <1>4, <1>8, <1>9

\* What has a place stays there, and ends there.
LEMMA InItsPlaceStep ==
  ASSUME Base, LeadHome, Parked, NEW j \in Jobs, JobStep(j), OnItsWay(job[j]), InItsPlace(job[j])
  PROVE  InItsPlace(job'[j])
<1> DEFINE b == job[j]
           c == job'[j]
<1>1. CASE c.as # "dead"
  BY <1>1 DEF InItsPlace
<1>2. CASE Stays(j)
  BY <1>2 DEF Stays
<1>3. CASE IsLost(j)
  <2>1. c.at = "ended" /\ c.end = "lost"
    BY <1>3, FieldsIs DEF IsLost
  <2> QED BY <2>1 DEF InItsPlace
<1>4. CASE Comes(j) \/ Begins(j) \/ Waits(j)
  <2>1. CASE Comes(j)
    <3>1. c.as = b.as /\ b.as = "new"
      BY <2>1, FieldsIs DEF Comes, OnItsWay
    <3> QED BY <1>1, <3>1
  <2>2. CASE Begins(j)
    <3>1. c.as = "new"
      BY <2>2, FieldsIs DEF Begins
    <3> QED BY <1>1, <3>1
  <2>3. CASE Waits(j)
    <3>1. c.at = "waiting"
      BY <2>3, FieldsIs DEF Waits
    <3> QED BY <3>1 DEF InItsPlace
  <2> QED BY <1>4, <2>1, <2>2, <2>3
<1>5. CASE IsDone(j)
  <2>1. PICK how \in Ends :
           /\ Fields(j, "ended", b.mount, b.entry, b.as, b.count, b.tries + 1, how)
           /\ \/ how = "done"
              \/ how = "dropped" /\ ~(At(j).outcomes \subseteq {"ack"})
              \/ how # None /\ \E out \in At(j).sends : how = "refused" => Refused(Home(j), out, FALSE, opened)
    BY <1>5 DEF IsDone
  <2>2. b.at = "socket" /\ c.at = "ended" /\ c.entry = b.entry /\ c.as = b.as /\ c.end = how
    BY <1>5, <2>1, FieldsIs DEF IsDone
  <2>3. CASE b.as = "dead" /\ {m \in Mounts : Mount(m).name = Mount(b.entry).dead} # {}
    <3>1. At(j).outcomes \subseteq {"ack"} /\ At(j).sends = {}
      BY <2>2, <2>3 DEF InItsPlace, At
    <3>2. how = "done"
      BY <2>1, <3>1
    <3> QED BY <2>2, <3>2 DEF InItsPlace
  <2>4. CASE b.as # "dead" \/ {m \in Mounts : Mount(m).name = Mount(b.entry).dead} = {}
    BY <2>2, <2>4 DEF InItsPlace
  <2> QED BY <2>3, <2>4
<1>6. CASE IsBuried(j)
  BY <1>6, BuriedInPlace
<1>7. CASE IsCopied(j)
  <2>1. c.as = "copy"
    BY <1>7, LeftAs DEF IsCopied
  <2> QED BY <1>1, <2>1
<1> QED BY <1>2, <1>3, <1>4, <1>5, <1>6, <1>7 DEF JobStep

\* The way of a message is one of its services, which do not change.
LEMMA WayKept ==
  ASSUME UNCHANGED deployment, NEW j \in Jobs
  PROVE  /\ OnItsWay(job[j])' <=> OnItsWay(job'[j])
         /\ InItsPlace(job[j])' <=> InItsPlace(job'[j])
<1>1. Mounts' = Mounts /\ \A m : Mount(m)' = Mount(m)
  BY Kept
<1>2. \A m, other : Alike(m, other)' = Alike(m, other)
  BY <1>1 DEF Alike
<1>3. OnItsWay(job[j])' <=> OnItsWay(job'[j])
  BY <1>1, <1>2 DEF OnItsWay
<1>4. InItsPlace(job[j])' <=> InItsPlace(job'[j])
  BY <1>1 DEF InItsPlace
<1> QED BY <1>3, <1>4

\* Every message keeps to its way, in every run of services that lead copies home.
LEMMA WayInv == Spec /\ LeadHome => [](LeadHome /\ \A j \in Jobs : OnItsWay(job[j]))
<1> DEFINE Inv == \A j \in Jobs : OnItsWay(job[j])
<1>1. Init => Inv
  BY DEF Init, OnItsWay
<1>2. Base /\ Inv /\ LeadHome /\ [Next]_vars => Inv' /\ LeadHome'
  BY JobSteps, DeclaredKept, WayKept, OnItsWayStep
<1> QED BY <1>1, <1>2, Typed, PTL DEF Spec

\* No message is delivered more often than the mount where it came in allows.
THEOREM CapSafety == Spec /\ LeadHome => []CapHolds
<1>1. Base /\ (\A j \in Jobs : OnItsWay(job[j])) => CapHolds
  <2> SUFFICES ASSUME Base, NEW j \in Jobs, OnItsWay(job[j]), job[j].as # "dead", job[j].tries > 0,
                      Mount(job[j].entry).cap > 0
               PROVE  job[j].tries <= Mount(job[j].entry).cap
    BY DEF CapHolds
  <2>1. job[j] \in JobStates
    BY DEF Base
  <2>2. CASE job[j].at \in {"socket", "waiting"}
    <3>1. Mount(job[j].entry).cap = Mount(job[j].mount).cap
      BY <2>2, AlikeIs DEF OnItsWay
    <3>2. job[j].mount \in Mounts
      BY <2>2 DEF Base, Placed, Served
    <3>3. Mount(job[j].mount).cap \in Nat
      BY <3>2, MountIs DEF Base
    <3> QED BY <2>1, <2>2, <3>1, <3>3 DEF OnItsWay, JobStates
  <2>3. CASE job[j].at \in {"peer", "ended"}
    BY <2>3 DEF OnItsWay
  <2> QED BY <2>1, <2>2, <2>3 DEF JobStates
<1> QED BY <1>1, WayInv, Typed, PTL

\* A copy is handled by a mount like the one where its message came in.
THEOREM CopiesSafety == Spec /\ LeadHome => []CopiesComeHome
<1>1. (\A j \in Jobs : OnItsWay(job[j])) => CopiesComeHome
  BY AlikeIs DEF OnItsWay, CopiesComeHome
<1> QED BY <1>1, WayInv, PTL

\* A dead letter is in the hands of the subscriptions of its name, where there are
\* such, and stays there; it never comes back to the handler that failed.
THEOREM DeadSafety == Spec /\ LeadHome /\ Parked => []DeadAreParked
<1> DEFINE Way == \A j \in Jobs : OnItsWay(job[j])
           Place == \A j \in Jobs : InItsPlace(job[j])
<1>1. Init => Place
  BY DEF Init, InItsPlace
<1>2. Base /\ LeadHome /\ Way /\ Place /\ Parked /\ [Next]_vars => Place' /\ Parked'
  BY JobSteps, DeclaredKept, WayKept, InItsPlaceStep
<1>3. Way /\ Place => DeadAreParked
  BY DEF OnItsWay, InItsPlace, DeadAreParked
<1>4. Spec /\ LeadHome => [](LeadHome /\ Way)
  BY WayInv
<1> QED BY <1>1, <1>2, <1>3, <1>4, Typed, PTL DEF Spec

=============================================================================
