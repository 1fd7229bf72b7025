----------------------------- MODULE Deployment -----------------------------
(***************************************************************************)
(* The services that run together, as they are declared: what each mounts  *)
(* on its brokers, which mounts a start can come to, whether a publish is  *)
(* refused and whom it can reach.  Nothing here changes as they run; that  *)
(* is Services.                                                            *)
(*                                                                         *)
(* The framework above the brokers (mounts, retries, dead letters) is not  *)
(* part of the repository; it is modelled from how the brokers, the tests  *)
(* and the examples use it.                                                *)
(***************************************************************************)
EXTENDS Naturals, Sequences

CONSTANT deployment \* the services

-----------------------------------------------------------------------------
(* The builder: a broker, a way out, a mount with what is declared on it   *)

None == "none"
Requester == "the requester"      \* the name a reply-to header holds

Bind(pattern, port) ==
  [pattern |-> pattern, side |-> "bind", host |-> "any", port |-> port,
   transport |-> "tcp", carries |-> TRUE]

Connect(pattern, host, port) ==
  [Bind(pattern, port) EXCEPT !.side = "connect", !.host = host]

\* A publish policy of a broker, and the name a message leaves under.
Out(broker, name) ==
  [via |-> broker, name |-> name, carries |-> broker.carries, slot |-> FALSE]

\* Only a bound queue or fan-out takes its own copies back (AddressedCopies).
OwnCopies(broker, name) ==
  IF broker.side = "bind" /\ broker.pattern # "rpc" THEN {Out(broker, name)} ELSE {}

\* A handler under a name, with the outcomes it may have.
Include(broker, name, outcomes) ==
  [on |-> broker, name |-> name, outcomes |-> outcomes, cap |-> 0, dead |-> None,
   copies |-> OwnCopies(broker, name), sends |-> {}, asks |-> {}]

MaxAttempts(n)            == [cap |-> n]
DeadLetter(name)          == [dead |-> name]
OutRetry(broker, name)    == [copies |-> {Out(broker, name)}]
OutReply(broker, name)    == [sends |-> {Out(broker, name)}]
OutSlot(broker, name)     == [sends |-> {[Out(broker, name) EXCEPT !.slot = TRUE]}]
OutRequest(broker)        == [asks |-> {broker}]

\* `hooks` is what the service publishes once it has started.
Service(name, brokers, mounts) ==
  [name |-> name, brokers |-> brokers, mounts |-> mounts, hooks |-> {}]

-----------------------------------------------------------------------------
(* Mounts, and what a start checks of them *)

Named(n) == CHOOSE s \in deployment : s.name = n
Mounts == UNION {{<<s.name, k>> : k \in DOMAIN s.mounts} : s \in deployment}
Mount(m) == Named(m[1]).mounts[m[2]]
OwnMounts(s, broker) == {m \in Mounts : m[1] = s.name /\ Mount(m).on = broker}

\* Starting: ZmqEndpoint::validate, the address, the place on it, the copies.
ConnectRefused(s) == \E b \in s.brokers : b.transport \notin {"tcp", "ipc"}

Clash(m, other) ==
  LET here == Mount(m).on
      there == Mount(other).on
  IN  /\ other # m /\ other[1] = m[1]
      /\ here.side = "bind" /\ there.side = "bind" /\ there.port = here.port

-----------------------------------------------------------------------------
(* Publishing *)

\* A name on the wire meets a subscription: any name in a queue, a prefix on a
\* fan-out (the prefixes among the names that occur).
Meets(pattern, subscription, name) ==
  \/ pattern = "queue"
  \/ subscription = name
  \/ <<subscription, name>> \in {<<"jobs.", "jobs.done">>, <<"orders.", "orders.shipped">>}

\* The refusals of the three publish while the subscriptions `up` are open: not
\* connected, a reply address on a responder and nothing else, the endpoint a
\* subscription dials, the queue another name holds, an envelope without headers.
Refused(s, out, headers, up) ==
  LET own == OwnMounts(s, out.via) \cap up
  IN  \/ out.via \notin s.brokers
      \/ out.via.pattern = "rpc" /\ out.name # Requester
      \/ out.via.side = "connect" /\ out.via.pattern # "rpc" /\ own # {}
      \/ out.via.side = "bind" /\ out.via.pattern = "queue" /\ \E m \in own : Mount(m).name # out.name
      \/ headers /\ ~out.carries

\* The subscriptions a publish can reach, if open: on the endpoint a subscription
\* of its service bound that one alone, else those of the services at the other end.
Receivers(s, out) ==
  LET b == out.via
      own == OwnMounts(s, b)
      far == {m \in Mounts :
                LET there == Mount(m).on
                IN  /\ there.pattern = b.pattern /\ there.port = b.port /\ there.side # b.side
                    /\ IF b.side = "connect" THEN m[1] = b.host ELSE there.host = s.name}
  IN  {m \in (IF b.side = "bind" /\ own # {} THEN own ELSE far) :
         Meets(b.pattern, Mount(m).name, out.name)}

-----------------------------------------------------------------------------
(* Retries *)

\* The outcomes that fail, and those a copy answers: retry_after always, a
\* plain retry only under a cap or with a dead letter.
Retries(m) ==
  m.outcomes \cap ({"retry_after"} \cup IF m.cap > 0 \/ m.dead # None THEN {"retry"} ELSE {})

-----------------------------------------------------------------------------
(* Services that are well made: what their declarations show before they run.  *)
(* ServicesProofs has what follows for every run of them.                      *)

\* The mounts that a start can come to: they and those before them have a place
\* for their copies, and endpoints that do not clash.
Openable(m) ==
  /\ ~ConnectRefused(Named(m[1]))
  /\ \A k \in 1..m[2] : /\ Mount(<<m[1], k>>).copies # {}
                        /\ \A l \in 1..(k - 1) : ~Clash(<<m[1], k>>, <<m[1], l>>)

Served == {m \in Mounts : Openable(m)}

Startable(s) == ~ConnectRefused(s) /\ \A k \in DOMAIN s.mounts : <<s.name, k>> \in Served

\* Those that do not start are those that are said not to.
RefusedAsSaid(refusing) == \A s \in deployment : s \in refusing <=> ~Startable(s)

\* Whether a delivery of this mount may be copied, or go to a dead letter.
MayCopy(m) == Retries(m) # {} /\ (m.cap > 1 \/ (m.cap = 0 /\ m.dead = None))
MayBury(m) == Retries(m) # {} /\ m.dead # None

Copies(m)      == IF MayCopy(Mount(m)) THEN Mount(m).copies ELSE {}
DeadLetters(m) ==
  IF MayBury(Mount(m)) THEN {Out(out.via, Mount(m).dead) : out \in Mount(m).copies} ELSE {}

\* With every subscription open, a publisher refuses nothing, but where it is said to.
Addressed(misaddressed) ==
  /\ \A s \in deployment : \A h \in s.hooks : ~Refused(s, h, FALSE, Served)
  /\ \A m \in Served :
       LET s == Named(m[1])
       IN  s \notin misaddressed =>
             /\ \A out \in Mount(m).sends : ~Refused(s, out, FALSE, Served)
             /\ \A out \in Copies(m) \cup DeadLetters(m) : ~Refused(s, out, TRUE, Served)

\* Copies reach handlers that are alike, and dead letters none that retries.
Alike(m, other) ==
  LET here == Mount(m)
      there == Mount(other)
  IN  <<here.name, here.outcomes, here.cap, here.dead>> = <<there.name, there.outcomes, there.cap, there.dead>>

\* What a copy or a dead letter of a mount can come to: the mount itself is open
\* as it leaves, and that alone may refuse it.
Reached(m, out) ==
  IF Refused(Named(m[1]), out, TRUE, {m}) THEN {} ELSE Receivers(Named(m[1]), out) \cap Served

LeadHome ==
  \A m \in Served :
    /\ \A out \in Copies(m) : \A other \in Reached(m, out) : Alike(m, other)
    /\ \A out \in DeadLetters(m) : \A other \in Reached(m, out) :
         Retries(Mount(other)) = {} /\ Mount(other).name # Mount(m).name

\* The letter goes out on the endpoint that mounts of its name bind, and they do
\* with it as a parking place does.
Keeps(m, out) ==
  LET s == Named(m[1])
  IN  /\ out.via.side = "bind" /\ out.name # Requester /\ OwnMounts(s, out.via) # {}
      /\ ~Refused(s, out, TRUE, Served)
      /\ \A other \in OwnMounts(s, out.via) :
           /\ Mount(other).name = out.name
           /\ Mount(other).outcomes \subseteq {"ack"} /\ Mount(other).sends = {}

\* Where a mount has the name of a dead letter, it is kept there.
Parked ==
  \A m \in Served : \A out \in DeadLetters(m) :
    (\E other \in Mounts : Mount(other).name = out.name) => Keeps(m, out)
=============================================================================
