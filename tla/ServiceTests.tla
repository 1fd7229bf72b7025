---------------------------- MODULE ServiceTests ----------------------------
(***************************************************************************)
(* The services that the integration tests start, or see refused: where    *)
(* the copies of a mount may go, where its dead letters may not, and what  *)
(* a start takes.  A definition has the name its test gives the service.   *)
(* Port 0 takes a free port, here a number of its own.  The reports by     *)
(* which a test follows a run are left out.                                *)
(***************************************************************************)
EXTENDS ManualExamples

Own      == Bind("queue", 1)
Apart    == Bind("queue", 2)
Greeter  == Bind("rpc", 3)
Dialed   == Connect("queue", "ventilator", 5555)
Egress   == Connect("queue", "sink", 4)

\* The queue at the other end of Egress, which the live tests read.
live_sink == Alone("sink", Bind("queue", 4), "sink", Acks)

\* What a test publishes once its service is up.
AfterStartup(service, broker, name) == [service EXCEPT !.hooks = {Out(broker, name)}]

-----------------------------------------------------------------------------
(* Where copies go *)

zmq_retry ==
  Service("zmq-retry", {Own}, << OutRetry(Own, "jobs") @@ Include(Own, "jobs", Acks) >>)

zmq_retry_rpc == Alone("zmq-retry-rpc", Greeter, "greeter", Acks)

zmq_retry_named ==
  Service("zmq-retry-named", {Greeter},
          << OutRetry(Greeter, "greeter.retry") @@ Include(Greeter, "greeter", Acks) >>)

zmq_retry_crossed ==
  Service("zmq-retry-crossed", {Greeter, Apart},
          << OutRetry(Apart, "greeter.retry") @@ Include(Greeter, "greeter", Acks) >>)

\* A retry publisher without a name adds no destination to a mount that has none.
dialing_worker_without_a_destination == Alone("zmq-retry-worker", Dialed, "jobs", Acks)

dialing_worker_with_a_destination ==
  Service("zmq-retry-worker", {Dialed, Apart},
          << OutRetry(Apart, "jobs") @@ Include(Dialed, "jobs", Acks) >>)

zmq_live_retry ==
  AfterStartup(
    Service("zmq-live-retry", {Own, Egress},
            << OutRetry(Own, "jobs") @@ Include(Own, "jobs", MayWait) >>),
    Own, "jobs")

zmq_live_worker_retry ==
  Service("zmq-live-worker-retry", {Dialed, Apart, Egress},
          << OutRetry(Apart, "jobs") @@ Include(Dialed, "jobs", MayWait),
             Include(Apart, "jobs", MayWait) >>)

-----------------------------------------------------------------------------
(* Caps and dead letters, under a handler that never succeeds *)

Fails == {"retry"}

zmq_live_cap ==
  AfterStartup(
    Service("zmq-live-cap", {Own, Egress},
            << MaxAttempts(3) @@ OutRetry(Own, "capped") @@ Include(Own, "capped", Fails) >>),
    Own, "capped")

zmq_retry_cap ==
  Service("zmq-retry-cap", {Own},
          << MaxAttempts(3) @@ DeadLetter("capped.dead") @@ OutRetry(Own, "capped")
               @@ Include(Own, "capped", Fails) >>)

zmq_live_own_dead_letter ==
  AfterStartup([zmq_retry_cap EXCEPT !.name = "zmq-live-own-dead-letter", !.brokers = {Own, Egress}],
               Own, "capped")

zmq_retry_dead_letter ==
  Service("zmq-retry-dead-letter", {Own, Apart},
          << DeadLetter("capped.dead") @@ OutRetry(Apart, "capped") @@ Include(Own, "capped", Fails) >>)

zmq_live_dead_letter ==
  AfterStartup(
    Service("zmq-live-dead-letter", {Own, Egress},
            << DeadLetter("capped.dead") @@ OutRetry(Egress, "capped")
                 @@ Include(Own, "capped", Fails) >>),
    Own, "capped")

-----------------------------------------------------------------------------
(* Replies, and what a start refuses *)

zmq_looping_reply ==
  Service("zmq-looping-reply", {Own}, << OutReply(Own, "results") @@ Include(Own, "jobs", Acks) >>)

zmq_live_reply == Responder("zmq-live-reply", Greeter, "greeter", "greeter.retry", Acks)

two_on_one_endpoint ==
  Service("worker", {Own}, << Include(Own, "results", Acks), Include(Own, "reports", Acks) >>)

unsupported_transport ==
  Alone("worker", [Own EXCEPT !.transport = "inproc"], "jobs", Acks)
=============================================================================
