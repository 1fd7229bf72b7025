--------------------------- MODULE ManualExamples ---------------------------
(***************************************************************************)
(* The same services by hand, as the files under examples/manual write     *)
(* them: a type with an `impl Handle`, mounts built one by one, brokers    *)
(* added to the app in order, and a `main` that hands it to the runner.    *)
(* Written from those files alone; FormsAgree then says that the two forms *)
(* of an example are one service.                                          *)
(***************************************************************************)
EXTENDS Examples

LOCAL INSTANCE SequencesExt

-----------------------------------------------------------------------------
(* The app builder *)

\* What a handler returns: Ok acknowledges, Err holds the outcome.
Ok == "ok"
Err(outcome) == outcome
Outcomes(results) == {IF r = Ok THEN "ack" ELSE r : r \in results}

\* subscriber(name, handler), to be declared more on with @@.
Subscriber(name, results) == [name |-> name, outcomes |-> Outcomes(results)]

\* with_broker: the closure mounts on that broker.  register_broker mounts nothing.
WithBroker(broker, mounts) ==
  [broker |-> broker,
   mounts |-> [k \in DOMAIN mounts |-> mounts[k] @@ Include(broker, mounts[k].name, {})]]
RegisterBroker(broker) == WithBroker(broker, <<>>)

App(name, parts) ==
  Service(name, {parts[k].broker : k \in DOMAIN parts},
          FlattenSeq([k \in DOMAIN parts |-> parts[k].mounts]))

\* The transform of an answer: the reply address of the request is its name.
ReplyToRequester(broker) == OutReply(broker, Requester)

-----------------------------------------------------------------------------
(* The guides *)

manual_guide_broadcast ==
  LET events == Bind("fanout", 5556)
  IN  App("worker",
        << WithBroker(Bind("queue", 5555),
             << OutReply(events, "jobs.done") @@ Subscriber("jobs", {Ok}) >>),
           RegisterBroker(events) >>)

manual_guide_broadcast_watcher ==
  LET retries == Bind("queue", 5560)
      Watch   == Subscriber("jobs.", {Ok})
  IN  App("watcher",
        << WithBroker(Connect("fanout", "worker", 5556), << OutRetry(retries, "jobs.") @@ Watch >>),
           WithBroker(retries, << Watch >>) >>)

manual_guide_getting_started ==
  App("worker",
    << WithBroker(Bind("queue", 5555), << Subscriber("jobs", {Ok, Err("drop")}) >>) >>)

manual_guide_interop ==
  LET events  == Bind("fanout", 5556)
      scoring == Bind("rpc", 5557)
  IN  App("worker",
        << WithBroker(Bind("queue", 5555),
             << OutReply(events, "jobs.done") @@ Subscriber("jobs", {Ok}) >>),
           RegisterBroker(events),
           WithBroker(scoring,
             << ReplyToRequester(scoring) @@ OutRetry(scoring, "score.retry")
                  @@ Subscriber("score", {Ok}) >>) >>)

manual_guide_pipeline_sink ==
  App("sink", << WithBroker(Bind("queue", 5558), << Subscriber("results", {Ok}) >>) >>)

manual_guide_pipelines ==
  LET sink    == Connect("queue", "sink", 5558)
      retries == Bind("queue", 5559)
      Work    == OutReply(sink, "results") @@ Subscriber("jobs", {Ok})
  IN  App("worker",
        << WithBroker(Connect("queue", "ventilator", 5557), << OutRetry(retries, "jobs") @@ Work >>),
           WithBroker(retries, << Work >>),
           RegisterBroker(sink) >>)

manual_guide_production ==
  LET sink == Connect("queue", "sink", 5558)
  IN  App("worker",
        << WithBroker(Bind("queue", 5555),
             << OutReply(sink, "results") @@ Subscriber("jobs", {Ok}) >>),
           RegisterBroker(sink) >>)

manual_guide_request_reply ==
  LET rpc == Bind("rpc", 5557)
  IN  App("scoring",
        << WithBroker(rpc,
             << ReplyToRequester(rpc) @@ OutRetry(rpc, "score.retry")
                  @@ Subscriber("score", {Ok, Err("drop")}) >>) >>)

manual_guide_request_reply_client ==
  LET scoring == Connect("rpc", "scoring", 5557)
  IN  App("checkout",
        << WithBroker(Bind("queue", 5555),
             << MaxAttempts(3) @@ OutRequest(scoring)
                  @@ Subscriber("orders", {Ok, Err("drop"), Err("retry_after")}) >>),
           RegisterBroker(scoring) >>)

manual_guide_retries ==
  LET jobs     == Bind("queue", 5555)
      dead     == Bind("queue", 5561)
  IN  App("billing",
        << WithBroker(jobs,
             << MaxAttempts(5) @@ OutRetry(jobs, "jobs")
                  @@ Subscriber("jobs", {Ok, Err("retry_after")}) >>),
           WithBroker(Bind("queue", 5556),
             << DeadLetter("invoices.dead") @@ OutRetry(dead, "invoices")
                  @@ Subscriber("invoices", {Ok, Err("retry")}) >>),
           WithBroker(dead, << Subscriber("invoices.dead", {Ok}) >>) >>)

manual_guide_testing ==
  LET events == Bind("fanout", 5556)
  IN  App("worker",
        << WithBroker(Bind("queue", 5555),
             << MaxAttempts(3) @@ OutReply(events, "jobs.done")
                  @@ Subscriber("jobs", {Ok, Err("retry_after")}) >>),
           RegisterBroker(events) >>)

-----------------------------------------------------------------------------
(* The component pages *)

manual_zmq_asyncapi ==
  LET jobs    == Connect("queue", "worker", 5555)
      greeter == Bind("rpc", 5557)
  IN  App("worker",
        << WithBroker(jobs, << OutReply(jobs, "results") @@ Subscriber("jobs", {Ok}) >>),
           WithBroker(greeter,
             << ReplyToRequester(greeter) @@ OutRetry(greeter, "greeter.retry")
                  @@ Subscriber("greeter", {Ok}) >>) >>)

manual_zmq_batches ==
  App("worker", << WithBroker(Bind("queue", 5555), << Subscriber("jobs", {Ok}) >>) >>)

manual_zmq_broker_bind ==
  App("worker",
    << WithBroker(Bind("queue", 5555), << Subscriber("jobs", {Ok}) >>),
       WithBroker(Bind("queue", 5556), << Subscriber("reports", {Ok}) >>) >>)

manual_zmq_broker_connect ==
  LET sink == Connect("queue", "sink", 5556)
  IN  App("worker",
        << WithBroker(Connect("queue", "ventilator", 5555),
             << OutReply(sink, "results") @@ OutRetry(sink, "jobs.failed")
                  @@ Subscriber("jobs", {Ok}) >>),
           RegisterBroker(sink) >>)

manual_zmq_broker_endpoint ==
  LET collector == Connect("queue", "collector", 5560)
      file      == [Bind("queue", 0) EXCEPT !.transport = "ipc"]
  IN  App("worker",
        << WithBroker(file, << OutReply(collector, "results") @@ Subscriber("jobs", {Ok}) >>),
           RegisterBroker(collector) >>)

manual_zmq_broker_errors ==
  LET sink == Connect("queue", "sink", 5556)
  IN  App("worker",
        << WithBroker(Bind("queue", 5555),
             << OutSlot(sink, "results") @@ Subscriber("jobs", {Ok, Err("retry_after")}) >>),
           RegisterBroker(sink) >>)

manual_zmq_broker_fanout ==
  App("auditor", << WithBroker(Bind("fanout", 5556), << Subscriber("orders", {Ok}) >>) >>)

manual_zmq_broker_prelude ==
  LET events == Bind("fanout", 5556)
  IN  App("worker",
        << WithBroker(Bind("queue", 5555),
             << OutReply(events, "jobs.done") @@ Subscriber("jobs", {Ok}) >>),
           RegisterBroker(events) >>)

manual_zmq_broker_queue ==
  LET retries == Bind("queue", 5560)
      Work    == Subscriber("jobs", {Ok})
  IN  App("workers",
        << WithBroker(Connect("queue", "ventilator", 5555),
             << OutRetry(retries, "jobs") @@ Work, OutRetry(retries, "jobs") @@ Work >>),
           WithBroker(retries, << Work >>) >>)

manual_zmq_broker_role ==
  LET retries == Bind("queue", 5560)
      Work    == MaxAttempts(3) @@ Subscriber("jobs", {Ok, Err("retry_after")})
  IN  App("worker",
        << WithBroker(Connect("queue", "ventilator", 5555), << OutRetry(retries, "jobs") @@ Work >>),
           WithBroker(retries, << Work >>) >>)

manual_zmq_broker_rpc ==
  LET rpc == Bind("rpc", 5557)
  IN  App("greeter",
        << WithBroker(rpc,
             << ReplyToRequester(rpc) @@ OutRetry(rpc, "greeter.retry")
                  @@ Subscriber("greeter", {Ok}) >>) >>)

\* after_startup publishes through the broker of the closure.
manual_zmq_broker_shutdown ==
  LET fanout == Bind("fanout", 5557)
  IN  [App("worker", << RegisterBroker(fanout) >>)
         EXCEPT !.hooks = {Out(fanout, "workers.started")}]

manual_zmq_broker_startup ==
  App("worker", << WithBroker(Bind("queue", 5555), << Subscriber("jobs", {Ok}) >>) >>)

manual_zmq_pipeline ==
  App("worker", << WithBroker(Bind("queue", 5555), << Subscriber("jobs", {Ok}) >>) >>)

manual_zmq_publishing_cancellation ==
  LET pricing == Connect("rpc", "pricing", 5557)
  IN  App("orders",
        << WithBroker(Bind("queue", 5555),
             << OutRequest(pricing)
                  @@ Subscriber("orders", {Ok, Err("drop"), Err("retry_after")}) >>),
           RegisterBroker(pricing) >>)

manual_zmq_publishing_publish ==
  LET events == Bind("fanout", 5556)
  IN  App("shipping",
        << WithBroker(Bind("queue", 5555),
             << OutSlot(events, "orders.shipped") @@ Subscriber("orders", {Ok, Err("retry")}) >>),
           RegisterBroker(events) >>)

manual_zmq_publishing_replies ==
  LET results == Connect("queue", "sink", 5556)
  IN  App("worker",
        << WithBroker(Bind("queue", 5555),
             << OutReply(results, "results") @@ Subscriber("jobs", {Ok}) >>),
           RegisterBroker(results) >>)

manual_zmq_request_reply ==
  LET rpc == Bind("rpc", 5557)
  IN  App("greeter",
        << WithBroker(rpc,
             << ReplyToRequester(rpc) @@ OutRetry(rpc, "greeter.retry")
                  @@ Subscriber("greeter", {Ok}) >>),
           WithBroker(Bind("queue", 5555),
             << OutRequest(rpc)
                  @@ Subscriber("names", {Ok, Err("drop"), Err("retry_after")}) >>) >>)

manual_zmq_retries ==
  LET jobs == Bind("queue", 5555)
  IN  App("worker",
        << WithBroker(jobs,
             << MaxAttempts(5) @@ OutRetry(jobs, "jobs")
                  @@ Subscriber("jobs", {Ok, Err("retry_after")}) >>) >>)

manual_zmq_settlement_at_most_once ==
  App("payments",
    << WithBroker(Bind("queue", 5555),
         << Subscriber("payments", {Ok, Err("drop"), Err("retry_after")}) >>) >>)

manual_zmq_settlement_dead_letters ==
  LET dead == Bind("queue", 5561)
  IN  App("worker",
        << WithBroker(Bind("queue", 5555),
             << DeadLetter("jobs.dead") @@ OutRetry(dead, "jobs")
                  @@ Subscriber("jobs", {Ok, Err("retry")}) >>),
           WithBroker(dead, << Subscriber("jobs.dead", {Ok}) >>) >>)

manual_zmq_settlement_out_retry ==
  LET retries == Bind("queue", 5560)
      Work    == MaxAttempts(3) @@ Subscriber("jobs", {Ok, Err("retry_after")})
  IN  App("worker",
        << WithBroker(Connect("queue", "ventilator", 5555), << OutRetry(retries, "jobs") @@ Work >>),
           WithBroker(retries, << Work >>) >>)

manual_zmq_subscriptions_name ==
  App("worker", << WithBroker(Bind("queue", 5555), << Subscriber("jobs", {Ok}) >>) >>)

manual_zmq_subscriptions_prefixes ==
  App("auditor", << WithBroker(Bind("fanout", 5556), << Subscriber("orders.", {Ok}) >>) >>)

manual_zmq_subscriptions_read_ahead ==
  App("renderer", << WithBroker(Bind("queue", 5555), << Subscriber("frames", {Ok}) >>) >>)

manual_zmq_testing ==
  LET results == Connect("queue", "sink", 5556)
  IN  App("worker",
        << WithBroker(Bind("queue", 5555),
             << OutReply(results, "results") @@ Subscriber("jobs", {Ok}) >>),
           RegisterBroker(results) >>)

manual_zmq_testing_live ==
  App("worker",
    << WithBroker(Bind("queue", 5555), << Subscriber("jobs", {Ok, Err("drop")}) >>) >>)

manual_zmq_wire ==
  LET results == Connect("queue", "sink", 5556)
  IN  App("worker",
        << WithBroker(Bind("queue", 5555),
             << OutReply(results, "results") @@ Subscriber("jobs", {Ok}) >>),
           RegisterBroker(results) >>)

\* The feed is read through an envelope without headers, and NoOp writes none.
manual_zmq_wire_envelopes ==
  LET feed   == [Bind("fanout", 5556) EXCEPT !.carries = FALSE]
      prices == Bind("fanout", 5557)
      sink   == Connect("queue", "sink", 5558)
  IN  App("bridge",
        << WithBroker(feed, << OutReply(prices, "prices") @@ Subscriber("ticks", {Ok}) >>),
           RegisterBroker(prices),
           WithBroker(Bind("queue", 5555),
             << [sends |-> {[Out(sink, "audit") EXCEPT !.carries = FALSE]}]
                  @@ Subscriber("orders", {Ok}) >>),
           RegisterBroker(sink) >>)

manual_zmq_wire_headers ==
  LET sink == Connect("queue", "sink", 5556)
  IN  App("worker",
        << WithBroker(Bind("queue", 5555),
             << OutSlot(sink, "results") @@ Subscriber("jobs", {Ok, Err("drop"), Err("retry")}) >>),
           RegisterBroker(sink) >>)

manual_zmq_wire_identity ==
  LET rpc == Bind("rpc", 5557)
  IN  App("greeter",
        << WithBroker(rpc,
             << ReplyToRequester(rpc) @@ OutRetry(rpc, "greeter.retry")
                  @@ Subscriber("greeter", {Ok}) >>) >>)
=============================================================================
