------------------------------ MODULE Examples ------------------------------
(***************************************************************************)
(* The services of the repository's examples, as `#[subscriber]` and       *)
(* `#[ruststream::app]` build them: the brokers a service has, the mounts  *)
(* on them in order, what each handler may answer, and where its copies,   *)
(* dead letters and replies go.  A definition has the name of its file.    *)
(* What a handler answers is up to its message and its peers, so its       *)
(* outcomes are a set; types, payloads, delays and batch sizes are left    *)
(* out.                                                                    *)
(***************************************************************************)
EXTENDS Services

Acks    == {"ack"}
MayDrop == {"ack", "drop"}
MayWait == {"ack", "retry_after"}
MayFail == {"ack", "retry"}

\* The shapes most of them have: one broker with one mount, and a worker whose
\* results leave through a second broker.
Alone(name, broker, subscription, outcomes) ==
  Service(name, {broker}, << Include(broker, subscription, outcomes) >>)

Replying(name, broker, subscription, to, reply) ==
  Service(name, {broker, to},
          << OutReply(to, reply) @@ Include(broker, subscription, Acks) >>)

\* A responder answers whoever asked, and names a destination for its copies.
Respond(broker, name, retry, outcomes) ==
  OutReply(broker, Requester) @@ OutRetry(broker, retry) @@ Include(broker, name, outcomes)

Responder(name, broker, subscription, retry, outcomes) ==
  Service(name, {broker}, << Respond(broker, subscription, retry, outcomes) >>)

Jobs5555   == Bind("queue", 5555)
Fanout5556 == Bind("fanout", 5556)
Rpc5557    == Bind("rpc", 5557)
Sink       == Connect("queue", "sink", 5556)

-----------------------------------------------------------------------------
(* The guides *)

guide_broadcast == Replying("worker", Jobs5555, "jobs", Fanout5556, "jobs.done")

guide_broadcast_watcher ==
  LET retries == Bind("queue", 5560)
      events  == Connect("fanout", "worker", 5556)
  IN  Service("watcher", {events, retries},
        << OutRetry(retries, "jobs.") @@ Include(events, "jobs.", Acks),
           Include(retries, "jobs.", Acks) >>)

guide_getting_started == Alone("worker", Jobs5555, "jobs", MayDrop)

guide_interop ==
  Service("worker", {Jobs5555, Fanout5556, Rpc5557},
    << OutReply(Fanout5556, "jobs.done") @@ Include(Jobs5555, "jobs", Acks),
       Respond(Rpc5557, "score", "score.retry", Acks) >>)

guide_pipeline_sink == Alone("sink", Bind("queue", 5558), "results", Acks)

guide_pipelines ==
  LET ventilator == Connect("queue", "ventilator", 5557)
      sink       == Connect("queue", "sink", 5558)
      retries    == Bind("queue", 5559)
  IN  Service("worker", {ventilator, retries, sink},
        << OutReply(sink, "results") @@ OutRetry(retries, "jobs") @@ Include(ventilator, "jobs", Acks),
           OutReply(sink, "results") @@ Include(retries, "jobs", Acks) >>)

guide_production ==
  Replying("worker", Jobs5555, "jobs", Connect("queue", "sink", 5558), "results")

guide_request_reply == Responder("scoring", Rpc5557, "score", "score.retry", MayDrop)

guide_request_reply_client ==
  LET scoring == Connect("rpc", "scoring", 5557)
  IN  Service("checkout", {Jobs5555, scoring},
        << MaxAttempts(3) @@ OutRequest(scoring)
             @@ Include(Jobs5555, "orders", {"ack", "drop", "retry_after"}) >>)

guide_retries ==
  LET invoices == Bind("queue", 5556)
      dead     == Bind("queue", 5561)
  IN  Service("billing", {Jobs5555, invoices, dead},
        << MaxAttempts(5) @@ OutRetry(Jobs5555, "jobs") @@ Include(Jobs5555, "jobs", MayWait),
           DeadLetter("invoices.dead") @@ OutRetry(dead, "invoices")
             @@ Include(invoices, "invoices", MayFail),
           Include(dead, "invoices.dead", Acks) >>)

guide_testing ==
  Service("worker", {Jobs5555, Fanout5556},
    << MaxAttempts(3) @@ OutReply(Fanout5556, "jobs.done") @@ Include(Jobs5555, "jobs", MayWait) >>)

-----------------------------------------------------------------------------
(* The component pages *)

zmq_asyncapi ==
  LET jobs == Connect("queue", "worker", 5555)
  IN  Service("worker", {jobs, Rpc5557},
        << OutReply(jobs, "results") @@ Include(jobs, "jobs", Acks),
           Respond(Rpc5557, "greeter", "greeter.retry", Acks) >>)

zmq_batches == Alone("worker", Jobs5555, "jobs", Acks)

zmq_broker_bind ==
  LET reports == Bind("queue", 5556)
  IN  Service("worker", {Jobs5555, reports},
        << Include(Jobs5555, "jobs", Acks), Include(reports, "reports", Acks) >>)

zmq_broker_connect ==
  LET ventilator == Connect("queue", "ventilator", 5555)
  IN  Service("worker", {ventilator, Sink},
        << OutReply(Sink, "results") @@ OutRetry(Sink, "jobs.failed")
             @@ Include(ventilator, "jobs", Acks) >>)

zmq_broker_endpoint ==
  Replying("worker", [Bind("queue", 0) EXCEPT !.transport = "ipc"], "jobs",
           Connect("queue", "collector", 5560), "results")

zmq_broker_errors ==
  Service("worker", {Jobs5555, Sink},
    << OutSlot(Sink, "results") @@ Include(Jobs5555, "jobs", MayWait) >>)

zmq_broker_fanout == Alone("auditor", Fanout5556, "orders", Acks)

zmq_broker_prelude == Replying("worker", Jobs5555, "jobs", Fanout5556, "jobs.done")

zmq_broker_queue ==
  LET ventilator == Connect("queue", "ventilator", 5555)
      retries    == Bind("queue", 5560)
      worker     == OutRetry(retries, "jobs") @@ Include(ventilator, "jobs", Acks)
  IN  Service("workers", {ventilator, retries},
        << worker, worker, Include(retries, "jobs", Acks) >>)

zmq_broker_role ==
  LET ventilator == Connect("queue", "ventilator", 5555)
      retries    == Bind("queue", 5560)
  IN  Service("worker", {ventilator, retries},
        << MaxAttempts(3) @@ OutRetry(retries, "jobs") @@ Include(ventilator, "jobs", MayWait),
           MaxAttempts(3) @@ Include(retries, "jobs", MayWait) >>)

zmq_broker_rpc == Responder("greeter", Rpc5557, "greeter", "greeter.retry", Acks)

zmq_broker_shutdown ==
  LET fanout == Bind("fanout", 5557)
  IN  [Service("worker", {fanout}, <<>>) EXCEPT !.hooks = {Out(fanout, "workers.started")}]

zmq_broker_startup == Alone("worker", Jobs5555, "jobs", Acks)

zmq_pipeline == Alone("worker", Jobs5555, "jobs", Acks)

zmq_publishing_cancellation ==
  LET pricing == Connect("rpc", "pricing", 5557)
  IN  Service("orders", {Jobs5555, pricing},
        << OutRequest(pricing) @@ Include(Jobs5555, "orders", {"ack", "drop", "retry_after"}) >>)

zmq_publishing_publish ==
  Service("shipping", {Jobs5555, Fanout5556},
    << OutSlot(Fanout5556, "orders.shipped") @@ Include(Jobs5555, "orders", MayFail) >>)

zmq_publishing_replies == Replying("worker", Jobs5555, "jobs", Sink, "results")

zmq_request_reply ==
  Service("greeter", {Rpc5557, Jobs5555},
    << Respond(Rpc5557, "greeter", "greeter.retry", Acks),
       OutRequest(Rpc5557) @@ Include(Jobs5555, "names", {"ack", "drop", "retry_after"}) >>)

zmq_retries ==
  Service("worker", {Jobs5555},
    << MaxAttempts(5) @@ OutRetry(Jobs5555, "jobs") @@ Include(Jobs5555, "jobs", MayWait) >>)

zmq_settlement_at_most_once ==
  Alone("payments", Jobs5555, "payments", {"ack", "drop", "retry_after"})

zmq_settlement_dead_letters ==
  LET dead == Bind("queue", 5561)
  IN  Service("worker", {Jobs5555, dead},
        << DeadLetter("jobs.dead") @@ OutRetry(dead, "jobs") @@ Include(Jobs5555, "jobs", MayFail),
           Include(dead, "jobs.dead", Acks) >>)

zmq_settlement_out_retry ==
  LET ventilator == Connect("queue", "ventilator", 5555)
      retries    == Bind("queue", 5560)
  IN  Service("worker", {ventilator, retries},
        << MaxAttempts(3) @@ OutRetry(retries, "jobs") @@ Include(ventilator, "jobs", MayWait),
           MaxAttempts(3) @@ Include(retries, "jobs", MayWait) >>)

zmq_subscriptions_name == Alone("worker", Jobs5555, "jobs", Acks)

zmq_subscriptions_prefixes == Alone("auditor", Fanout5556, "orders.", Acks)

zmq_subscriptions_read_ahead == Alone("renderer", Jobs5555, "frames", Acks)

zmq_testing == Replying("worker", Jobs5555, "jobs", Sink, "results")

zmq_testing_live == Alone("worker", Jobs5555, "jobs", MayDrop)

zmq_wire == Replying("worker", Jobs5555, "jobs", Sink, "results")

\* Its feed has an envelope of its own, with no place for a header, so that a
\* copy could not leave through it; what reaches the sink goes without one too.
zmq_wire_envelopes ==
  LET feed   == [Fanout5556 EXCEPT !.carries = FALSE]
      prices == Bind("fanout", 5557)
      sink   == Connect("queue", "sink", 5558)
  IN  Service("bridge", {feed, prices, Jobs5555, sink},
        << OutReply(prices, "prices") @@ Include(feed, "ticks", Acks),
           [sends |-> {[Out(sink, "audit") EXCEPT !.carries = FALSE]}]
             @@ Include(Jobs5555, "orders", Acks) >>)

zmq_wire_headers ==
  Service("worker", {Jobs5555, Sink},
    << OutSlot(Sink, "results") @@ Include(Jobs5555, "jobs", {"ack", "drop", "retry"}) >>)

zmq_wire_identity == Responder("greeter", Rpc5557, "greeter", "greeter.retry", Acks)

=============================================================================
