------------------------------ MODULE Services ------------------------------
(***************************************************************************)
(* Services at work: how they start, and the way of a message through      *)
(* them: pushed by a peer, handled, retried as a copy after a delay, sent  *)
(* to a dead letter, answered, or lost when the process stops.  What they  *)
(* mount, and whom a publish can reach, is in Deployment; the endpoint,    *)
(* the outbox and the driver behind each step have modules of their own,   *)
(* and here a publish ends at once: refused, with a subscription, or       *)
(* outside.                                                                *)
(***************************************************************************)
EXTENDS Naturals, Sequences, TLC

CONSTANTS
  Deployments, \* sets of services, of different names, that run together
  Refusing,    \* the services that a document or a test says do not start
  Misaddressed,\* those that it says publish where nothing may
  Jobs,        \* the messages that peers push
  Patience     \* the retries of a message under no cap (bound)

\* Services that run together differ in their names, and number their mounts.
ASSUME DeploymentsAssumption ==
  \A d \in Deployments :
    /\ \A s, t \in d : s.name = t.name => s = t
    /\ \A s \in d : /\ s.mounts \in Seq({s.mounts[k] : k \in DOMAIN s.mounts})
                    /\ \A k \in DOMAIN s.mounts : s.mounts[k].cap \in Nat

-----------------------------------------------------------------------------
VARIABLES
  deployment,  \* the services of this run
  phase,       \* of each of their names: "new", "running", "refused", "stopped"
  opened,      \* the mounts whose subscription is open
  job          \* where each message is, and how it got there

vars == <<deployment, phase, opened, job>>

INSTANCE Deployment

-----------------------------------------------------------------------------
(* Steps: opening a subscription, and where a publish goes *)

\* A faulty form: an endpoint is bound once more.
OpenRefusedAlone(m) == Mount(m).copies = {}

\* No place for its copies, or an endpoint that another mount of the service has bound.
OpenRefused(m) ==
  \/ Mount(m).copies = {}
  \/ \E other \in opened : Clash(m, other)

NextMount(m) == m \notin opened /\ \A k \in 1..(m[2] - 1) : <<m[1], k>> \in opened

\* Where a publish leaves its message, once it is let through.  A socket that listens
\* in the place of a subscription that is not open yet is heard by nobody.
Ended(how) == [at |-> "ended", end |-> how]
Sent(s, out) ==
  LET reached == Receivers(s, out) \cap opened
  IN  IF out.name = Requester THEN {Ended("answered"), Ended("unsent")}
      ELSE IF reached # {} THEN {[at |-> "socket", mount |-> m] : m \in reached}
      ELSE IF OwnMounts(s, out.via) \ opened # {} THEN {Ended("unheard")}
      ELSE {Ended("left"), Ended("unsent")}

\* A faulty form: everything is let through.
PublishedUnchecked(s, out, headers) == Sent(s, out)

Published(s, out, headers) ==
  IF Refused(s, out, headers, opened) THEN {Ended("refused")} ELSE Sent(s, out)

\* A message that has got there: to a mount, or to its end.
Arrived(message, there) ==
  IF there.at = "socket" THEN [message EXCEPT !.at = "socket", !.mount = there.mount]
                         ELSE [message EXCEPT !.at = "ended", !.end = there.end]

-----------------------------------------------------------------------------
(* The process *)

Init ==
  /\ deployment \in Deployments
  /\ phase = [n \in {s.name : s \in deployment} |-> "new"]
  /\ opened = {}
  /\ job = [j \in Jobs |-> [at |-> "peer", mount |-> None, entry |-> None, as |-> "new",
                            count |-> 0, tries |-> 0, end |-> None]]

\* The brokers connect, then each subscription opens, in the order of the mounts.
OpenMount(m) ==
  /\ phase[m[1]] = "new" /\ NextMount(m)
  /\ ~ConnectRefused(Named(m[1])) /\ ~OpenRefused(m)
  /\ opened' = opened \cup {m}
  /\ UNCHANGED <<deployment, phase, job>>

\* The service is up once all of them are open.
Run(s) ==
  /\ phase[s.name] = "new" /\ ~ConnectRefused(s)
  /\ \A k \in DOMAIN s.mounts : <<s.name, k>> \in opened
  /\ phase' = [phase EXCEPT ![s.name] = "running"]
  /\ UNCHANGED <<deployment, opened, job>>

\* What a stop takes with it: read and not handled, or waiting out a delay.
Lost(n) == [j \in Jobs |-> IF job[j].at \in {"socket", "waiting"} /\ job[j].mount[1] = n
                           THEN Arrived(job[j], Ended("lost")) ELSE job[j]]
Close(n, into) ==
  /\ phase' = [phase EXCEPT ![n] = into]
  /\ opened' = {m \in opened : m[1] # n}
  /\ job' = Lost(n)
  /\ UNCHANGED deployment

RefuseStart(s) ==
  /\ phase[s.name] = "new"
  /\ \/ ConnectRefused(s)
     \/ \E m \in Mounts : m[1] = s.name /\ NextMount(m) /\ OpenRefused(m)
  /\ Close(s.name, "refused")

Stop(s) ==
  /\ phase[s.name] = "running"
  /\ Close(s.name, "stopped")

\* A peer sends a message to an open subscription.
Push(j, m) ==
  /\ job[j].at = "peer" /\ m \in opened
  /\ job' = [job EXCEPT ![j] = [@ EXCEPT !.at = "socket", !.mount = m, !.entry = m]]
  /\ UNCHANGED <<deployment, phase, opened>>

-----------------------------------------------------------------------------
(* A delivery *)

Handling(j) == job[j].at = "socket"
At(j) == Mount(job[j].mount)
Home(j) == Named(job[j].mount[1])
\* One delivery more, and what it has made of the message.
Move(j, message) ==
  /\ job' = [job EXCEPT ![j] = [message EXCEPT !.tries = @ + 1]]
  /\ UNCHANGED <<deployment, phase, opened>>

\* A reply, or the message of a slot, is a message of its own where it comes in.
Begin(j, m) ==
  /\ job' = [job EXCEPT ![j] = [@ EXCEPT !.at = "socket", !.mount = m, !.entry = m,
                                        !.as = "new", !.count = 0, !.tries = 0]]
  /\ UNCHANGED <<deployment, phase, opened>>

\* A faulty form: the delivery at hand is not counted.
SpentLate(j) == IF At(j).cap > 0 THEN job[j].count >= At(j).cap ELSE At(j).dead # None

\* Whether the delivery at hand is the last: the count of its copies reached the
\* cap, or there is no cap and a dead letter takes a failure at once.
Spent(j) == IF At(j).cap > 0 THEN job[j].count + 1 >= At(j).cap ELSE At(j).dead # None

\* ack: the delivery ends, with the reply or the message of its slot on its way,
\* and after an answer where the handler asks for one.  A handler whose slot could
\* not send does not acknowledge: it has an outcome for that.
Finish(j) ==
  /\ Handling(j) /\ "ack" \in At(j).outcomes /\ At(j).asks \subseteq Home(j).brokers
  /\ IF At(j).sends = {} THEN Move(j, Arrived(job[j], Ended("done")))
     ELSE \E out \in At(j).sends : \E there \in Published(Home(j), out, FALSE) :
            /\ ~(out.slot /\ there = Ended("unsent"))
            /\ IF there.at = "ended" THEN Move(j, Arrived(job[j], there)) ELSE Begin(j, there.mount)

\* drop, and a plain retry that nothing answers.
Drop(j) ==
  /\ Handling(j) /\ At(j).outcomes \ (Retries(At(j)) \cup {"ack"}) # {}
  /\ Move(j, Arrived(job[j], Ended("dropped")))

\* A copy is to follow: it waits in the memory of the process.
RetryLater(j) ==
  /\ Handling(j) /\ Retries(At(j)) # {} /\ ~Spent(j)
  /\ At(j).cap = 0 => job[j].tries < Patience
  /\ Move(j, [job[j] EXCEPT !.at = "waiting"])

\* A copy, or a dead letter, counts the delivery it follows.
Follow(j, kind) == [job[j] EXCEPT !.as = kind, !.count = @ + 1]

\* The dead letter of a mount leaves through its retry publisher.
Dead(j, out) == Out(out.via, At(j).dead)

\* A faulty form: the dead letter goes out like a reply.
BuryAtHome(j) ==
  /\ Handling(j) /\ Retries(At(j)) # {} /\ Spent(j)
  /\ IF At(j).dead = None THEN Move(j, Arrived(job[j], Ended("dropped")))
     ELSE \E there \in Published(Home(j), Out(At(j).on, At(j).dead), TRUE) :
            Move(j, Arrived(Follow(j, "dead"), there))

\* A faulty form: without a dead letter nothing is done about a spent delivery.
BuryParked(j) ==
  /\ Handling(j) /\ Retries(At(j)) # {} /\ Spent(j) /\ At(j).dead # None
  /\ \E out \in At(j).copies : \E there \in Published(Home(j), Dead(j, out), TRUE) :
       Move(j, Arrived(Follow(j, "dead"), there))

\* A spent delivery goes to the dead letter through the retry publisher, or nowhere.
Bury(j) ==
  /\ Handling(j) /\ Retries(At(j)) # {} /\ Spent(j)
  /\ IF At(j).dead = None THEN Move(j, Arrived(job[j], Ended("dropped")))
     ELSE \E out \in At(j).copies : \E there \in Published(Home(j), Dead(j, out), TRUE) :
            Move(j, Arrived(Follow(j, "dead"), there))

\* A faulty form: the retry publishers of a service serve all of its mounts.
CopyThroughAny(j) ==
  /\ job[j].at = "waiting"
  /\ \E m \in Mounts : \E out \in Mount(m).copies :
       /\ m[1] = job[j].mount[1]
       /\ \E there \in Published(Home(j), out, TRUE) :
            job' = [job EXCEPT ![j] = Arrived(Follow(j, "copy"), there)]
  /\ UNCHANGED <<deployment, phase, opened>>

\* The delay is over: the copy leaves with its count.
Copy(j) ==
  /\ job[j].at = "waiting"
  /\ \E out \in At(j).copies : \E there \in Published(Home(j), out, TRUE) :
       job' = [job EXCEPT ![j] = Arrived(Follow(j, "copy"), there)]
  /\ UNCHANGED <<deployment, phase, opened>>

Next ==
  \/ \E m \in Mounts : OpenMount(m)
  \/ \E s \in deployment : Run(s) \/ RefuseStart(s) \/ Stop(s)
  \/ \E j \in Jobs : \/ \E m \in Mounts : Push(j, m)
                     \/ Finish(j) \/ Drop(j) \/ RetryLater(j) \/ Bury(j) \/ Copy(j)

\* Handlers return and delays end.  Nobody has to push, to fail, or to stop.
Settle(j) == Finish(j) \/ Drop(j) \/ RetryLater(j) \/ Bury(j)
Fairness == \A j \in Jobs : WF_vars(Settle(j)) /\ WF_vars(Copy(j))

Spec == Init /\ [][Next]_vars
FairSpec == Spec /\ Fairness

-----------------------------------------------------------------------------
(* Properties *)

\* A service starts, with the brokers it has and the subscriptions it declares in
\* the order it declares them, unless a document or a test says that it is refused,
\* and then it never runs: an address the crate serves, one subscription on each
\* endpoint it binds, a place for its copies (validate, bound_endpoint, Copies).
StartsUnlessRefusing ==
  \A s \in deployment : /\ phase[s.name] = "refused" => s \in Refusing
                        /\ phase[s.name] = "running" => s \notin Refusing

\* Nothing that a service publishes is refused by its own publisher: neither a
\* copy, nor a dead letter, nor a reply, nor what it says at its start (the checks
\* of the three publish, which no type sees), but where a test expects it.
OnlyMisaddressedRefused ==
  /\ \A j \in Jobs : job[j].end = "refused" => Home(j) \in Misaddressed
  /\ \A s \in deployment : phase[s.name] = "running" => \A h \in s.hooks : ~Refused(s, h, FALSE, opened)

\* A message is delivered no more often than the mount where it came in allows,
\* through whichever subscriptions its copies travel.
CapHolds ==
  \A j \in Jobs :
    job[j].as # "dead" /\ job[j].tries > 0 /\ Mount(job[j].entry).cap > 0
      => job[j].tries <= Mount(job[j].entry).cap

\* A copy is handled the way its message was: by a handler of the same name, the
\* same outcomes and the same cap, behind whichever broker it went out through.
CopiesComeHome ==
  \A j \in Jobs :
    job[j].as = "copy" /\ job[j].at = "socket"
      => LET first == Mount(job[j].entry)
             now == Mount(job[j].mount)
         IN  <<now.name, now.outcomes, now.cap>> = <<first.name, first.outcomes, first.cap>>

\* A dead letter is in the hands of the subscriptions of its name, and stays there:
\* it is not refused, not sent away, and never handed back to the handler that
\* failed.  A stop loses it, and so does a start that has not opened them yet.
\* Where no subscription has its name it may leave, but not come back either.
DeadAreParked ==
  \A j \in Jobs :
    job[j].as = "dead" =>
      LET first == Mount(job[j].entry)
          parking == {m \in Mounts : Mount(m).name = first.dead}
      IN  /\ job[j].at = "socket" => /\ Mount(job[j].mount).name # first.name
                                     /\ parking # {} => job[j].mount \in parking
          /\ job[j].at = "ended" /\ parking # {} => job[j].end \in {"done", "lost", "unheard"}

\* Every message that comes in is settled: it is done with, dropped, sent on to
\* whoever is outside, or lost with the process.  No retry goes on for ever but
\* for want of a cap.
EveryJobSettles == \A j \in Jobs : Handling(j) ~> job[j].at = "ended"

-----------------------------------------------------------------------------
=============================================================================
