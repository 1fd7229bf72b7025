----------------------------- MODULE MCServices -----------------------------
(***************************************************************************)
(* Every example on its own, in both forms, the guides whose services talk *)
(* to each other together, and the services of the tests.                  *)
(***************************************************************************)
EXTENDS ServiceTests

\* Each example by the macros and by hand.
Forms == <<
  <<guide_broadcast, manual_guide_broadcast>>,
  <<guide_broadcast_watcher, manual_guide_broadcast_watcher>>,
  <<guide_getting_started, manual_guide_getting_started>>,
  <<guide_interop, manual_guide_interop>>,
  <<guide_pipeline_sink, manual_guide_pipeline_sink>>,
  <<guide_pipelines, manual_guide_pipelines>>,
  <<guide_production, manual_guide_production>>,
  <<guide_request_reply, manual_guide_request_reply>>,
  <<guide_request_reply_client, manual_guide_request_reply_client>>,
  <<guide_retries, manual_guide_retries>>,
  <<guide_testing, manual_guide_testing>>,
  <<zmq_asyncapi, manual_zmq_asyncapi>>,
  <<zmq_batches, manual_zmq_batches>>,
  <<zmq_broker_bind, manual_zmq_broker_bind>>,
  <<zmq_broker_connect, manual_zmq_broker_connect>>,
  <<zmq_broker_endpoint, manual_zmq_broker_endpoint>>,
  <<zmq_broker_errors, manual_zmq_broker_errors>>,
  <<zmq_broker_fanout, manual_zmq_broker_fanout>>,
  <<zmq_broker_prelude, manual_zmq_broker_prelude>>,
  <<zmq_broker_queue, manual_zmq_broker_queue>>,
  <<zmq_broker_role, manual_zmq_broker_role>>,
  <<zmq_broker_rpc, manual_zmq_broker_rpc>>,
  <<zmq_broker_shutdown, manual_zmq_broker_shutdown>>,
  <<zmq_broker_startup, manual_zmq_broker_startup>>,
  <<zmq_pipeline, manual_zmq_pipeline>>,
  <<zmq_publishing_cancellation, manual_zmq_publishing_cancellation>>,
  <<zmq_publishing_publish, manual_zmq_publishing_publish>>,
  <<zmq_publishing_replies, manual_zmq_publishing_replies>>,
  <<zmq_request_reply, manual_zmq_request_reply>>,
  <<zmq_retries, manual_zmq_retries>>,
  <<zmq_settlement_at_most_once, manual_zmq_settlement_at_most_once>>,
  <<zmq_settlement_dead_letters, manual_zmq_settlement_dead_letters>>,
  <<zmq_settlement_out_retry, manual_zmq_settlement_out_retry>>,
  <<zmq_subscriptions_name, manual_zmq_subscriptions_name>>,
  <<zmq_subscriptions_prefixes, manual_zmq_subscriptions_prefixes>>,
  <<zmq_subscriptions_read_ahead, manual_zmq_subscriptions_read_ahead>>,
  <<zmq_testing, manual_zmq_testing>>,
  <<zmq_testing_live, manual_zmq_testing_live>>,
  <<zmq_wire, manual_zmq_wire>>,
  <<zmq_wire_envelopes, manual_zmq_wire_envelopes>>,
  <<zmq_wire_headers, manual_zmq_wire_headers>>,
  <<zmq_wire_identity, manual_zmq_wire_identity>> >>

\* What examples/ and examples/manual/ build under one name is one service.
ASSUME FormsAgree == \A k \in DOMAIN Forms : Forms[k][1] = Forms[k][2]

\* The services of a guide that are to run together, and every example alone.
Together ==
  {{guide_broadcast, guide_broadcast_watcher}, {guide_pipelines, guide_pipeline_sink},
   {guide_production, guide_pipeline_sink}, {guide_request_reply, guide_request_reply_client}}
Tested ==
  {{zmq_retry}, {zmq_retry_rpc}, {zmq_retry_named}, {zmq_retry_crossed},
   {dialing_worker_without_a_destination}, {dialing_worker_with_a_destination},
   {zmq_live_retry, live_sink}, {zmq_live_worker_retry, live_sink}, {zmq_live_cap, live_sink},
   {zmq_retry_cap}, {zmq_live_own_dead_letter, live_sink}, {zmq_retry_dead_letter},
   {zmq_live_dead_letter, live_sink}, {zmq_looping_reply}, {zmq_live_reply},
   {two_on_one_endpoint}, {unsupported_transport}}
MCDeployments == Together \cup Tested \cup {{Forms[k][1]} : k \in DOMAIN Forms}

\* zmq_asyncapi is there for the document it prints; the others are tests of a refusal.
MCRefusing ==
  {zmq_asyncapi, zmq_retry_rpc, dialing_worker_without_a_destination,
   two_on_one_endpoint, unsupported_transport}
MCMisaddressed == {zmq_retry_cap, zmq_live_own_dead_letter, zmq_looping_reply}

\* All of them are as the theorems of ServicesProofs ask, whatever runs.
Of(d) == INSTANCE Deployment WITH deployment <- d
ASSUME WellMade ==
  \A d \in MCDeployments :
    Of(d)!RefusedAsSaid(MCRefusing) /\ Of(d)!Addressed(MCMisaddressed) /\ Of(d)!LeadHome /\ Of(d)!Parked
=============================================================================
