----------------------------- MODULE RpcProofs -----------------------------
(***************************************************************************)
(* Proofs about Rpc, for any number of requesters, handlers, responders,   *)
(* requests and answers, on both sides, with and without headers.          *)
(***************************************************************************)
EXTENDS Rpc, TLAPS

USE RpcAssumption

\* Nobody has asked, and no responder is there.
LEMMA InitInv == Init => Inv
<1> SUFFICES ASSUME Init PROVE Inv
  OBVIOUS
<1>1. ResponderTypes
  <2>1. pending \in [Gens -> SUBSET Request]
    BY DEF Init
  <2>2. closed \in BOOLEAN
    BY DEF Init
  <2>3. life \in [Gens -> {"none", "attached", "open", "closed"}]
    BY DEF Init
  <2> QED BY <2>1, <2>2, <2>3 DEF Init, ResponderTypes
<1>2. RequesterTypes
  <2>1. Len(<<>>) = 0
    OBVIOUS
  <2>2. inbox \in [Requesters -> Seq(Answer)] /\ \A r \in Requesters : inbox[r] = <<>>
    BY DEF Init
  <2>3. corr \in [Requesters -> CorrIds] /\ heard \subseteq Calls \X Answer
    BY DEF Init, CorrIds, Stray
  <2>4. /\ pc \in [Requesters -> {"idle", "connecting", "sending", "waiting"}]
        /\ num \in [Requesters -> 0..MaxCalls] /\ conn \in [Requesters -> 0..MaxOpens]
    BY DEF Init
  <2> QED BY <2>1, <2>2, <2>3, <2>4 DEF RequesterTypes
<1>3. job \in [Handlers -> Job]
  <2>1. NoJob \in Job
    BY DEF NoJob, Job, Request, Stray, CorrIds
  <2> QED BY <2>1 DEF Init
<1>4. OwnDealer /\ RequestsMade /\ HeardIsOver /\ OneSender /\ BoundRoute /\ AnswersItsCall
  BY DEF Init, OwnDealer, OwnDealerOf, RequestsMade, HeardIsOver, OneSender, BoundRoute,
         AnswersItsCall, NoJob, Gens
<1> QED BY <1>1, <1>2, <1>3, <1>4 DEF Inv, TypeOK

\* What is said of the requesters alone holds as long as they do nothing.
LEMMA RequestersKept ==
  ASSUME Inv, UNCHANGED requesterVars
  PROVE  RequesterTypes' /\ OwnDealer' /\ HeardIsOver' /\ AnswersItsCall'
<1>1. RequesterTypes /\ OwnDealer /\ HeardIsOver /\ AnswersItsCall
  BY DEF Inv, TypeOK
<1>2. RequesterTypes'
  BY <1>1 DEF RequesterTypes, requesterVars
<1>3. OwnDealer' /\ HeardIsOver' /\ AnswersItsCall'
  BY <1>1 DEF OwnDealer, OwnDealerOf, HeardIsOver, AnswersItsCall, Call, requesterVars
<1> QED BY <1>2, <1>3

\* A step on a handler's job, and what it leaves of it.
LEMMA JobStep ==
  ASSUME job \in [Handlers -> Job], NEW h \in Handlers,
         NEW s \in {"idle", "handling", "locking", "sending"},
         job' = [job EXCEPT ![h].step = s]
  PROVE  /\ job' \in [Handlers -> Job]
         /\ job'[h].step = s /\ job'[h].gen = job[h].gen /\ job'[h].request = job[h].request
         /\ \A k \in Handlers \ {h} : job'[k] = job[k]
<1> DEFINE j == [job[h] EXCEPT !.step = s]
<1>1. job[h] \in Job /\ job' = [job EXCEPT ![h] = j]
  OBVIOUS
<1>2. j \in Job /\ j.step = s /\ j.gen = job[h].gen /\ j.request = job[h].request
  BY <1>1 DEF Job
<1> HIDE DEF j
<1>3. job'[h] = j /\ \A k \in Handlers \ {h} : job'[k] = job[k]
  BY <1>1
<1>4. job' \in [Handlers -> Job]
  BY <1>1, <1>2
<1> QED BY <1>2, <1>3, <1>4

\* Steps of responders that leave handlers alone, and what responders have read.
LEMMA ResponderStep ==
  ASSUME Inv, Shutdown \/ \E g \in Gens : Attach(g) \/ SetRoute(g)
  PROVE  Inv'
<1>1. UNCHANGED pending /\ UNCHANGED <<replyLock, job, cancels>> /\ UNCHANGED requesterVars
  BY DEF Shutdown, Attach, SetRoute, responderVars
<1>2. ResponderTypes'
  <2>1. \A g \in Gens : g \in 0..MaxOpens
    BY DEF Gens
  <2>2. ResponderTypes
    BY DEF Inv, TypeOK
  <2>3. CASE Shutdown
    BY <1>1, <2>2, <2>3 DEF ResponderTypes, Shutdown, responderVars
  <2>4. ASSUME NEW g \in Gens, Attach(g) \/ SetRoute(g) PROVE ResponderTypes'
    BY <1>1, <2>1, <2>2, <2>4 DEF ResponderTypes, Attach, SetRoute
  <2> QED BY <2>3, <2>4
<1>3. RequestsMade' /\ OneSender'
  BY <1>1 DEF Inv, RequestsMade, Made, Call, OneSender, requesterVars
<1>4. BoundRoute'
  BY DEF Inv, TypeOK, ResponderTypes, BoundRoute, Shutdown, Attach, SetRoute, Gens,
         responderVars
<1>5. job' \in [Handlers -> Job]
  BY <1>1 DEF Inv, TypeOK
<1> QED BY <1>1, <1>2, <1>3, <1>4, <1>5, RequestersKept DEF Inv, TypeOK

LEMMA DropStep ==
  ASSUME Inv, NEW g \in Gens, Drop(g)
  PROVE  Inv'
<1>1. UNCHANGED requesterVars /\ UNCHANGED <<closed, route, replyLock, job>>
  BY DEF Drop
<1>2. ResponderTypes'
  BY <1>1 DEF Inv, TypeOK, ResponderTypes, Drop
<1>3. RequestsMade' /\ OneSender'
  BY <1>1 DEF Inv, TypeOK, ResponderTypes, RequestsMade, Made, Call, OneSender, Drop,
              requesterVars
<1>4. BoundRoute'
  BY <1>1 DEF Inv, TypeOK, ResponderTypes, BoundRoute, Drop, Gens
<1>5. job' \in [Handlers -> Job]
  BY <1>1 DEF Inv, TypeOK
<1> QED BY <1>1, <1>2, <1>3, <1>4, <1>5, RequestersKept DEF Inv, TypeOK

\* A handler's steps before and after it sends an answer.
LEMMA HandlerStep ==
  ASSUME Inv, NEW h \in Handlers,
         \/ \E g \in Gens : \E q \in pending[g] : Take(h, g, q)
         \/ \E c \in CorrIds : Publish(h, c)
         \/ Settle(h) \/ LockRoute(h) \/ Refuse(h) \/ CancelPublish(h)
  PROVE  Inv'
<1> USE DEF Inv, TypeOK
<1>1. UNCHANGED requesterVars /\ UNCHANGED <<closed, life, route>>
  BY DEF Take, Publish, Settle, LockRoute, Refuse, CancelPublish, responderVars
<1>2. BoundRoute'
  BY <1>1 DEF BoundRoute
<1>3. UNCHANGED <<num, conn, pc>>
  BY <1>1 DEF requesterVars
<1>4. ASSUME NEW g \in Gens, NEW q \in pending[g], Take(h, g, q) PROVE Inv'
  <2> DEFINE j == [step |-> "handling", gen |-> g, request |-> q, answer |-> Stray, sent |-> 0]
  <2>1. q \in Request /\ job[h] \in Job /\ job[h].step = "idle"
    BY <1>4 DEF Take, ResponderTypes
  <2>2. j \in Job /\ j.step = "handling" /\ j.gen = g /\ j.request = q
    <3>1. g \in 0..MaxOpens /\ 0 \in 0..MaxAnswers /\ Stray \in CorrIds
      BY DEF Gens, CorrIds
    <3> QED BY <2>1, <3>1 DEF Job
  <2>3. job' = [job EXCEPT ![h] = j] /\ pending' = [pending EXCEPT ![g] = @ \ {q}]
        /\ UNCHANGED <<replyLock, cancels>>
    BY <1>4 DEF Take
  <2> HIDE DEF j
  <2>4. job'[h] = j /\ (\A k \in Handlers \ {h} : job'[k] = job[k]) /\ job' \in [Handlers -> Job]
    BY <2>2, <2>3
  <2>5. ResponderTypes'
    BY <1>1, <2>3 DEF ResponderTypes
  <2>6. Made(q, g)' <=> Made(q, g)
    BY <1>3 DEF Made, Call
  <2>7. RequestsMade'
    BY <1>3, <2>2, <2>3, <2>4 DEF RequestsMade, Made, Call, ResponderTypes
  <2>8. OneSender'
    BY <2>1, <2>2, <2>3, <2>4 DEF OneSender
  <2> QED BY <1>1, <1>2, <2>4, <2>5, <2>7, <2>8, RequestersKept
<1>5. ASSUME NEW c \in CorrIds, Publish(h, c) PROVE Inv'
  <2> DEFINE j == [step |-> "locking", gen |-> job[h].gen, request |-> job[h].request,
                  answer |-> c, sent |-> job[h].sent + 1]
  <2>1. job[h] \in Job /\ job[h].step = "handling" /\ job[h].sent < MaxAnswers
    BY <1>5 DEF Publish
  <2>2. j \in Job /\ j.step = "locking" /\ j.gen = job[h].gen /\ j.request = job[h].request
    <3>1. job[h].sent + 1 \in 0..MaxAnswers /\ job[h].gen \in 0..MaxOpens
          /\ job[h].request \in Request
      BY <2>1 DEF Job
    <3> QED BY <3>1 DEF Job
  <2>3. job' = [job EXCEPT ![h] = j] /\ UNCHANGED <<pending, replyLock, cancels>>
    BY <1>5 DEF Publish, responderVars
  <2> HIDE DEF j
  <2>4. job'[h] = j /\ (\A k \in Handlers \ {h} : job'[k] = job[k]) /\ job' \in [Handlers -> Job]
    BY <2>2, <2>3
  <2>5. ResponderTypes'
    BY <1>1, <2>3 DEF ResponderTypes
  <2>6. RequestsMade' /\ OneSender'
    BY <1>3, <2>1, <2>2, <2>3, <2>4 DEF RequestsMade, Made, Call, OneSender
  <2> QED BY <1>1, <1>2, <2>4, <2>5, <2>6, RequestersKept
<1>6. ASSUME Settle(h) \/ CancelPublish(h) PROVE Inv'
  <2>1. NoJob \in Job /\ NoJob.step = "idle"
    BY DEF NoJob, Job, Request, Stray, CorrIds
  <2>2. job' = [job EXCEPT ![h] = NoJob] /\ UNCHANGED pending
    BY <1>6 DEF Settle, CancelPublish, responderVars
  <2>3. job'[h] = NoJob /\ (\A k \in Handlers \ {h} : job'[k] = job[k])
        /\ job' \in [Handlers -> Job]
    BY <2>1, <2>2
  <2>4. ResponderTypes'
    BY <1>1, <1>6, <2>2 DEF ResponderTypes, Settle, CancelPublish
  <2>5. RequestsMade'
    BY <1>3, <2>1, <2>2, <2>3 DEF RequestsMade, Made, Call
  <2>6. OneSender'
    BY <1>6, <2>1, <2>3 DEF OneSender, Settle, CancelPublish
  <2> QED BY <1>1, <1>2, <2>3, <2>4, <2>5, <2>6, RequestersKept
<1>7. ASSUME LockRoute(h) \/ Refuse(h) PROVE Inv'
  <2>1. PICK s \in {"handling", "sending"} :
          /\ job' = [job EXCEPT ![h].step = s]
          /\ \/ job[h].step = "locking" /\ replyLock = NoOne /\ replyLock' = h /\ s = "sending"
             \/ job[h].step = "sending" /\ replyLock' = NoOne /\ s = "handling"
    BY <1>7 DEF LockRoute, Refuse, Release
  <2>2. /\ job' \in [Handlers -> Job]
        /\ job'[h].step = s /\ job'[h].gen = job[h].gen /\ job'[h].request = job[h].request
        /\ \A k \in Handlers \ {h} : job'[k] = job[k]
    BY <2>1, JobStep
  <2>3. UNCHANGED <<pending, cancels>>
    BY <1>7 DEF LockRoute, Refuse, responderVars
  <2>4. ResponderTypes'
    BY <1>1, <2>1, <2>3 DEF ResponderTypes
  <2>5. RequestsMade' /\ OneSender'
    BY <1>3, <2>1, <2>2, <2>3 DEF RequestsMade, Made, Call, OneSender
  <2> QED BY <1>1, <1>2, <2>2, <2>4, <2>5, RequestersKept
<1> QED BY <1>4, <1>5, <1>6, <1>7

\* An answer goes into the pipe of the DEALER its request came from, and that request waits.
LEMMA SendStep ==
  ASSUME Inv, NEW h \in Handlers, SendReply(h)
  PROVE  Inv'
<1> USE DEF Inv, TypeOK
<1> DEFINE r == Asker(h)
           a == [of |-> job[h].request.call, corr |-> job[h].answer]
<1>1. job[h] \in Job /\ Made(job[h].request.call, job[h].gen) /\ job[h].step = "sending"
  BY DEF SendReply, RequestsMade
<1>2. r \in Requesters /\ a \in Answer
  BY <1>1 DEF Made, Calls, Asker, Job, Answer
<1>3. a.of = Call(r) /\ conn[r] # 0 /\ pc[r] \in {"idle", "waiting"}
  BY <1>1, <1>2 DEF SendReply, PeerKnown, Made, Asker
<1>4. inbox' = [inbox EXCEPT ![r] = Append(@, a)] /\ Len(inbox[r]) < Room
  BY DEF SendReply
<1>5. /\ UNCHANGED <<closed, pc, num, corr, conn, heard, cancels>>
      /\ UNCHANGED <<life, route, pending>>
  BY DEF SendReply, responderVars
<1>6. replyLock' = NoOne /\ job' = [job EXCEPT ![h].step = "handling"]
  BY DEF SendReply, Release
<1>7. /\ job' \in [Handlers -> Job]
      /\ job'[h].step = "handling" /\ job'[h].gen = job[h].gen
      /\ job'[h].request = job[h].request
      /\ \A k \in Handlers \ {h} : job'[k] = job[k]
  BY <1>6, JobStep
<1> HIDE DEF r, a
<1>8. pc[r] = "waiting"
  BY <1>2, <1>3 DEF OwnDealer, OwnDealerOf
<1>9. inbox[r] \in Seq(Answer) /\ Append(inbox[r], a) \in Seq(Answer)
      /\ Len(Append(inbox[r], a)) = Len(inbox[r]) + 1
  BY <1>2 DEF RequesterTypes
<1>10. RequesterTypes'
  BY <1>2, <1>4, <1>5, <1>9 DEF RequesterTypes
<1>11. ResponderTypes' /\ BoundRoute'
  BY <1>5, <1>6 DEF ResponderTypes, BoundRoute
<1>12. OwnDealer'
  <2>1. \A k \in 1..Len(inbox'[r]) : inbox'[r][k].of = Call(r)
    BY <1>2, <1>3, <1>4, <1>9 DEF OwnDealer, OwnDealerOf, RequesterTypes
  <2>2. \A s \in Requesters \ {r} : inbox'[s] = inbox[s]
    BY <1>4 DEF RequesterTypes
  <2> QED BY <1>5, <1>8, <2>1, <2>2 DEF OwnDealer, OwnDealerOf, Call
<1>13. RequestsMade' /\ OneSender'
  BY <1>1, <1>5, <1>6, <1>7 DEF RequestsMade, Made, Call, OneSender
<1>14. HeardIsOver' /\ AnswersItsCall'
  BY <1>5 DEF HeardIsOver, AnswersItsCall, Call
<1> QED BY <1>7, <1>10, <1>11, <1>12, <1>13, <1>14

\* A requester leaves responders and handlers alone, but for the request it sends.
LEMMA OthersKept ==
  ASSUME Inv, UNCHANGED <<closed, life, route>>, UNCHANGED <<replyLock, job>>,
         pending' \in [Gens -> SUBSET Request], cancels' \in Nat
  PROVE  ResponderTypes' /\ OneSender' /\ BoundRoute' /\ job' \in [Handlers -> Job]
BY DEF Inv, TypeOK, ResponderTypes, OneSender, BoundRoute

\* What a request that is over leaves behind: no connection, and no answer.
LEMMA HungUp ==
  ASSUME Inv, NEW r \in Requesters, Hangup(r), UNCHANGED <<num, corr>>,
         UNCHANGED <<pending, job>>, heard' \subseteq Calls \X Answer
  PROVE  RequesterTypes' /\ OwnDealer' /\ RequestsMade'
<1> USE DEF Inv, TypeOK, Hangup, Goto
<1>1. /\ pc' \in [Requesters -> {"idle", "connecting", "sending", "waiting"}]
      /\ pc'[r] = "idle" /\ \A s \in Requesters \ {r} : pc'[s] = pc[s]
  BY DEF RequesterTypes
<1>2. /\ conn' \in [Requesters -> 0..MaxOpens]
      /\ conn'[r] = 0 /\ \A s \in Requesters \ {r} : conn'[s] = conn[s]
  BY DEF RequesterTypes
<1>3. /\ inbox' \in [Requesters -> Seq(Answer)]
      /\ inbox'[r] = <<>> /\ \A s \in Requesters \ {r} : inbox'[s] = inbox[s]
  BY DEF RequesterTypes
<1>4. Len(<<>>) = 0
  OBVIOUS
<1> HIDE DEF Hangup
<1>5. RequesterTypes'
  <2>1. \A s \in Requesters : Len(inbox'[s]) <= Room
    BY <1>3, <1>4 DEF RequesterTypes
  <2>2. num' \in [Requesters -> 0..MaxCalls] /\ corr' \in [Requesters -> CorrIds]
    BY DEF RequesterTypes
  <2> QED BY <1>1, <1>2, <1>3, <2>1, <2>2 DEF RequesterTypes
<1>6. OwnDealer'
  <2> SUFFICES ASSUME NEW s \in Requesters PROVE OwnDealerOf(s)'
    BY DEF OwnDealer
  <2>1. CASE s = r
    <3>1. 1..Len(inbox'[r]) = {}
      BY <1>3, <1>4
    <3> QED BY <1>1, <1>2, <1>3, <2>1, <3>1 DEF OwnDealerOf
  <2>2. CASE s # r
    <3>1. pc'[s] = pc[s] /\ conn'[s] = conn[s] /\ inbox'[s] = inbox[s]
      BY <1>1, <1>2, <1>3, <2>2
    <3>2. OwnDealerOf(s) /\ num'[s] = num[s] /\ corr'[s] = corr[s]
      BY DEF OwnDealer
    <3> QED BY <3>1, <3>2 DEF OwnDealerOf, Call
  <2> QED BY <2>1, <2>2
<1>7. RequestsMade'
  BY <1>1, <1>2 DEF RequestsMade, Made, Call, Calls
<1> QED BY <1>5, <1>6, <1>7

LEMMA RequestBegins ==
  ASSUME Inv, NEW r \in Requesters, NEW c \in CorrIds, Ask(r, c)
  PROVE  Inv'
<1> USE DEF Inv, TypeOK
<1>1. /\ UNCHANGED <<closed, conn, inbox>> /\ UNCHANGED <<life, route, pending>>
      /\ UNCHANGED <<replyLock, job, heard, cancels>>
  BY DEF Ask, responderVars
<1>2. pc[r] = "idle" /\ num[r] \in 0..MaxCalls /\ num[r] < MaxCalls
  BY DEF Ask, RequesterTypes
<1>3. /\ num' \in [Requesters -> 0..MaxCalls]
      /\ num'[r] = num[r] + 1 /\ \A s \in Requesters \ {r} : num'[s] = num[s]
  BY <1>2 DEF Ask, RequesterTypes
<1>4. /\ pc' \in [Requesters -> {"idle", "connecting", "sending", "waiting"}]
      /\ pc'[r] = "connecting" /\ \A s \in Requesters \ {r} : pc'[s] = pc[s]
  BY DEF Ask, Goto, RequesterTypes
<1>5. /\ corr' \in [Requesters -> CorrIds]
      /\ corr'[r] = c /\ \A s \in Requesters \ {r} : corr'[s] = corr[s]
  BY DEF Ask, RequesterTypes
<1>6. c \in {<<r, 0>>, <<r, num'[r]>>}
  BY <1>3 DEF Ask
<1>7. RequesterTypes'
  BY <1>1, <1>3, <1>4, <1>5 DEF RequesterTypes
<1>8. OwnDealer'
  BY <1>1, <1>2, <1>3, <1>4, <1>5, <1>6 DEF OwnDealer, OwnDealerOf, Call, RequesterTypes
<1>9. \A d \in Calls, g \in Gens : Made(d, g) => Made(d, g)'
  BY <1>1, <1>2, <1>3, <1>4 DEF Made, Call, Calls, RequesterTypes
<1>10. RequestsMade'
  BY <1>1, <1>9 DEF RequestsMade, Made
<1>11. HeardIsOver'
  <2> SUFFICES ASSUME NEW e \in heard
               PROVE  /\ e[1][2] <= num'[e[1][1]]
                      /\ e[1] = <<e[1][1], num'[e[1][1]]>> => pc'[e[1][1]] = "idle"
    BY <1>1 DEF HeardIsOver, Call
  <2>1. e[1] \in Calls
    BY DEF RequesterTypes
  <2>2. e[1][1] \in Requesters /\ e[1][2] \in Nat
    BY <2>1 DEF Calls
  <2>3. /\ e[1][2] <= num[e[1][1]]
        /\ e[1] = <<e[1][1], num[e[1][1]]>> => pc[e[1][1]] = "idle"
    BY DEF HeardIsOver, Call
  <2>4. CASE e[1][1] = r
    <3>1. e[1][2] # num'[r]
      BY <1>2, <1>3, <2>2, <2>3, <2>4
    <3> QED BY <1>2, <1>3, <2>1, <2>2, <2>3, <2>4, <3>1
  <2>5. CASE e[1][1] # r
    BY <1>3, <1>4, <2>2, <2>3, <2>5
  <2> QED BY <2>4, <2>5
<1>12. AnswersItsCall'
  BY <1>1 DEF AnswersItsCall
<1>13. pending' \in [Gens -> SUBSET Request] /\ cancels' \in Nat
  BY <1>1 DEF ResponderTypes
<1> QED BY <1>1, <1>7, <1>8, <1>10, <1>11, <1>12, <1>13, OthersKept

LEMMA RequestLeaves ==
  ASSUME Inv, NEW r \in Requesters, (\E g \in Gens : Dial(r, g)) \/ SendRequest(r)
  PROVE  Inv'
<1> USE DEF Inv, TypeOK
<1>1. /\ UNCHANGED <<closed, life, route>> /\ UNCHANGED <<replyLock, job>>
      /\ UNCHANGED <<num, corr, inbox>> /\ UNCHANGED <<heard, cancels>>
  BY DEF Dial, SendRequest, responderVars
<1>2. PICK l \in {"sending", "waiting"} :
        /\ pc' = [pc EXCEPT ![r] = l] /\ pc[r] \in {"connecting", "sending"}
        /\ l = "waiting" => pc[r] = "sending" /\ conn' = conn
        /\ l = "sending" => pc[r] = "connecting" /\ pending' = pending
  BY DEF Dial, SendRequest, Goto, responderVars
<1>3. /\ pc' \in [Requesters -> {"idle", "connecting", "sending", "waiting"}]
      /\ pc'[r] = l /\ \A s \in Requesters \ {r} : pc'[s] = pc[s]
  BY <1>2 DEF RequesterTypes
<1>4. /\ conn' \in [Requesters -> 0..MaxOpens]
      /\ \A s \in Requesters \ {r} : conn'[s] = conn[s]
  <2>1. CASE SendRequest(r)
    BY <2>1 DEF SendRequest, RequesterTypes
  <2>2. ASSUME NEW g \in Gens, Dial(r, g)
        PROVE  /\ conn' \in [Requesters -> 0..MaxOpens]
               /\ \A s \in Requesters \ {r} : conn'[s] = conn[s]
    <3>1. g \in 0..MaxOpens
      BY DEF Gens
    <3> QED BY <2>2, <3>1 DEF Dial, RequesterTypes
  <2> QED BY <2>1, <2>2
<1>5. RequesterTypes'
  BY <1>1, <1>3, <1>4 DEF RequesterTypes
<1>6. OwnDealer'
  <2> SUFFICES ASSUME NEW s \in Requesters PROVE OwnDealerOf(s)'
    BY DEF OwnDealer
  <2>1. OwnDealerOf(s) /\ UNCHANGED <<num, corr>> /\ UNCHANGED inbox
    BY <1>1 DEF OwnDealer
  <2> QED BY <1>2, <1>3, <1>4, <2>1 DEF OwnDealerOf, Call
<1>7. Call(r) \in Calls /\ corr[r] \in CorrIds /\ [call |-> Call(r), corr |-> corr[r]] \in Request
  <2>1. num[r] \in 0..MaxCalls /\ num[r] > 0 /\ corr[r] \in CorrIds
    BY <1>2 DEF RequesterTypes, OwnDealer, OwnDealerOf
  <2>2. Call(r) \in Calls
    BY <2>1 DEF Call, Calls
  <2> QED BY <2>1, <2>2 DEF Request
<1>8. /\ pending' \in [Gens -> SUBSET Request]
      /\ \A g \in Gens : \A q \in pending'[g] :
           \/ q \in pending[g]
           \/ q.call = Call(r) /\ l = "waiting" /\ g = conn[r]
  <2> DEFINE q == [call |-> Call(r), corr |-> corr[r]]
  <2>1. CASE pending' = pending
    BY <2>1 DEF ResponderTypes
  <2>2. CASE pending' = [pending EXCEPT ![conn[r]] = @ \cup {q}] /\ l = "waiting"
    <3>1. q \in Request /\ q.call = Call(r)
      BY <1>7
    <3> HIDE DEF q
    <3> QED BY <2>2, <3>1 DEF ResponderTypes
  <2>3. CASE SendRequest(r)
    <3>1. l = "waiting"
      BY <1>2, <2>3 DEF SendRequest, Goto, RequesterTypes
    <3> QED BY <2>1, <2>2, <2>3, <3>1 DEF SendRequest
  <2> QED BY <2>1, <2>3 DEF Dial, responderVars
<1>9. \A g \in Gens : ~Made(Call(r), g)
  BY <1>2, <1>7 DEF Made, Call
<1>10. \A d \in Calls, g \in Gens : Made(d, g) => Made(d, g)'
  BY <1>1, <1>3, <1>4, <1>7, <1>9 DEF Made, Call, Calls
<1>11. \A d \in Calls, g \in Gens : l = "waiting" /\ d = Call(r) /\ g = conn[r] => Made(d, g)'
  BY <1>1, <1>2, <1>3, <1>7 DEF Made, Call, RequesterTypes
<1>12. RequestsMade'
  <2>1. ASSUME NEW g \in Gens, NEW q \in pending'[g] PROVE Made(q.call, g)'
    <3>1. CASE q \in pending[g]
      <4>1. Made(q.call, g) /\ q.call \in Calls
        BY <3>1 DEF RequestsMade, Made
      <4> QED BY <1>10, <4>1
    <3> QED BY <1>7, <1>8, <1>11, <3>1
  <2>2. ASSUME NEW h \in Handlers, job'[h].step # "idle"
        PROVE  job'[h].gen \in Gens /\ Made(job[h].request.call, job[h].gen)'
    <3>1. job'[h] = job[h] /\ job[h].gen \in Gens /\ Made(job[h].request.call, job[h].gen)
      BY <1>1, <2>2 DEF RequestsMade
    <3> QED BY <1>10, <3>1 DEF Made
  <2> QED BY <2>1, <2>2 DEF RequestsMade
<1>13. HeardIsOver' /\ AnswersItsCall'
  BY <1>1, <1>2, <1>3 DEF HeardIsOver, AnswersItsCall, Call, RequesterTypes, Calls
<1>14. cancels' \in Nat
  BY <1>1 DEF ResponderTypes
<1> QED BY <1>1, <1>5, <1>6, <1>8, <1>12, <1>13, <1>14, OthersKept

\* The broken connection of a DEALER is gone for its answers too.
LEMMA DisconnectStep ==
  ASSUME Inv, NEW r \in Requesters, Disconnect(r)
  PROVE  Inv'
<1> USE DEF Inv, TypeOK
<1>1. /\ UNCHANGED <<closed, life, route>> /\ UNCHANGED <<replyLock, job>>
      /\ UNCHANGED <<pc, num, corr, inbox>> /\ UNCHANGED <<heard, cancels, pending>>
  BY DEF Disconnect, responderVars
<1>2. /\ conn' \in [Requesters -> 0..MaxOpens]
      /\ conn'[r] = 0 /\ \A s \in Requesters \ {r} : conn'[s] = conn[s]
  BY DEF Disconnect, RequesterTypes
<1>3. RequesterTypes'
  BY <1>1, <1>2 DEF RequesterTypes
<1>4. OwnDealer'
  <2> SUFFICES ASSUME NEW s \in Requesters PROVE OwnDealerOf(s)'
    BY DEF OwnDealer
  <2>1. OwnDealerOf(s) /\ conn'[s] \in {0, conn[s]}
    BY <1>2 DEF OwnDealer
  <2> QED BY <1>1, <2>1 DEF OwnDealerOf, Call
<1>5. RequestsMade'
  BY <1>1, <1>2 DEF RequestsMade, Made, Call, Calls
<1>6. HeardIsOver' /\ AnswersItsCall'
  BY <1>1 DEF HeardIsOver, AnswersItsCall, Call
<1>7. pending' \in [Gens -> SUBSET Request] /\ cancels' \in Nat
  BY <1>1 DEF ResponderTypes
<1> QED BY <1>1, <1>3, <1>4, <1>5, <1>6, <1>7, OthersKept

\* A request that ends without an answer.
LEMMA EndStep ==
  ASSUME Inv, NEW r \in Requesters, GiveUp(r) \/ TimeOut(r) \/ CancelRequest(r)
  PROVE  Inv'
<1>1. /\ UNCHANGED <<closed, life, route>> /\ UNCHANGED <<replyLock, job>>
      /\ UNCHANGED <<num, corr>> /\ UNCHANGED <<pending, job>> /\ UNCHANGED heard
  BY DEF GiveUp, TimeOut, CancelRequest, responderVars
<1>2. Hangup(r)
  BY DEF GiveUp, TimeOut, CancelRequest
<1>3. heard' \subseteq Calls \X Answer /\ pending' \in [Gens -> SUBSET Request]
  BY <1>1 DEF Inv, TypeOK, RequesterTypes, ResponderTypes
<1>4. cancels' \in Nat
  BY DEF GiveUp, TimeOut, CancelRequest, Inv, TypeOK, ResponderTypes
<1>5. RequesterTypes' /\ OwnDealer' /\ RequestsMade'
  BY <1>1, <1>2, <1>3, HungUp
<1>6. HeardIsOver' /\ AnswersItsCall'
  BY <1>1, <1>2 DEF Inv, TypeOK, RequesterTypes, HeardIsOver, AnswersItsCall, Call, Hangup,
                    Goto, Calls
<1> QED BY <1>1, <1>3, <1>4, <1>5, <1>6, OthersKept DEF Inv, TypeOK

\* What a waiting request may return: an answer to itself, under its own correlation id.
LEMMA AnswerIsOwn ==
  ASSUME Inv, NEW r \in Requesters, pc[r] = "waiting", inbox[r] # <<>>
  PROVE  /\ Head(inbox[r]) \in Answer /\ Head(inbox[r]).of = Call(r) /\ Call(r) \in Calls
         /\ Answers(r, Head(inbox[r])) /\ CarriesHeaders =>
              Head(inbox[r]).corr \in {<<r, 0>>, Call(r)}
         /\ Tail(inbox[r]) \in Seq(Answer) /\ Len(Tail(inbox[r])) <= Room
         /\ \A k \in 1..Len(Tail(inbox[r])) : Tail(inbox[r])[k].of = Call(r)
<1>1. inbox[r] \in Seq(Answer) /\ Len(inbox[r]) <= Room /\ OwnDealerOf(r)
  BY DEF Inv, TypeOK, RequesterTypes, OwnDealer
<1>2. Len(inbox[r]) \in Nat \ {0} /\ Head(inbox[r]) = inbox[r][1] /\ inbox[r][1] \in Answer
  BY <1>1
<1>3. /\ Tail(inbox[r]) \in Seq(Answer) /\ Len(Tail(inbox[r])) = Len(inbox[r]) - 1
      /\ \A k \in 1..Len(Tail(inbox[r])) : Tail(inbox[r])[k] = inbox[r][k + 1]
  BY <1>1, <1>2
<1>4. num[r] \in 0..MaxCalls /\ num[r] > 0 /\ corr[r] \in {<<r, 0>>, Call(r)}
  BY <1>1 DEF Inv, TypeOK, RequesterTypes, OwnDealerOf
<1>5. Call(r) \in Calls
  BY <1>4 DEF Call, Calls
<1>6. \A k \in 1..Len(inbox[r]) : inbox[r][k].of = Call(r)
  BY <1>1 DEF OwnDealerOf
<1>7. Answers(r, Head(inbox[r])) /\ CarriesHeaders => Head(inbox[r]).corr = corr[r]
  BY DEF Answers
<1>8. \A k \in 1..Len(Tail(inbox[r])) : k + 1 \in 1..Len(inbox[r])
  BY <1>2, <1>3
<1>9. Len(Tail(inbox[r])) <= Room
  BY <1>1, <1>2, <1>3
<1> QED BY <1>2, <1>3, <1>4, <1>5, <1>6, <1>7, <1>8, <1>9

\* A waiting request reads its pipe: it returns the answer, or drops it and waits on.
LEMMA ReceiveStep ==
  ASSUME Inv, NEW r \in Requesters, Receive(r)
  PROVE  Inv'
<1> DEFINE a == Head(inbox[r])
<1>1. pc[r] = "waiting" /\ inbox[r] # <<>>
  BY DEF Receive
<1>2. /\ UNCHANGED <<closed, life, route>> /\ UNCHANGED <<replyLock, job>>
      /\ UNCHANGED <<num, corr>> /\ UNCHANGED <<pending, job>> /\ UNCHANGED cancels
  BY DEF Receive, responderVars
<1>3. a \in Answer /\ a.of = Call(r) /\ Call(r) \in Calls
  BY <1>1, AnswerIsOwn
<1>4. ResponderTypes' /\ OneSender' /\ BoundRoute' /\ job' \in [Handlers -> Job]
  <2>1. pending' \in [Gens -> SUBSET Request] /\ cancels' \in Nat
    BY <1>2 DEF Inv, TypeOK, ResponderTypes
  <2> QED BY <1>2, <2>1, OthersKept
<1>5. CASE Answers(r, a)
  <2>1. heard' = heard \cup {<<Call(r), a>>} /\ Hangup(r)
    BY <1>5 DEF Receive
  <2>2. CarriesHeaders => a.corr \in {<<r, 0>>, Call(r)}
    BY <1>1, <1>5, AnswerIsOwn
  <2> HIDE DEF a
  <2>3. heard' \subseteq Calls \X Answer
    BY <1>3, <2>1 DEF Inv, TypeOK, RequesterTypes
  <2>4. RequesterTypes' /\ OwnDealer' /\ RequestsMade'
    BY <1>2, <2>1, <2>3, HungUp
  <2>5. pc'[r] = "idle" /\ \A s \in Requesters \ {r} : pc'[s] = pc[s]
    BY <2>1 DEF Hangup, Goto, Inv, TypeOK, RequesterTypes
  <2>6. HeardIsOver'
    <3> SUFFICES ASSUME NEW e \in heard'
                 PROVE  /\ e[1][2] <= num[e[1][1]]
                        /\ e[1] = <<e[1][1], num[e[1][1]]>> => pc'[e[1][1]] = "idle"
      BY <1>2 DEF HeardIsOver, Call
    <3>1. CASE e \in heard
      BY <2>3, <2>5, <3>1 DEF Inv, HeardIsOver, Call, Calls
    <3>2. CASE e[1] = Call(r)
      BY <1>3, <2>5, <3>2 DEF Call, Calls
    <3> QED BY <2>1, <3>1, <3>2
  <2>7. AnswersItsCall'
    BY <1>3, <2>1, <2>2 DEF Inv, AnswersItsCall, Call
  <2> QED BY <1>4, <2>4, <2>6, <2>7 DEF Inv, TypeOK
<1>6. CASE ~Answers(r, a)
  <2>1. inbox' = [inbox EXCEPT ![r] = Tail(inbox[r])] /\ UNCHANGED <<heard, pc, conn>>
    BY <1>6 DEF Receive
  <2>2. /\ Tail(inbox[r]) \in Seq(Answer) /\ Len(Tail(inbox[r])) <= Room
        /\ \A k \in 1..Len(Tail(inbox[r])) : Tail(inbox[r])[k].of = Call(r)
    BY <1>1, AnswerIsOwn
  <2> HIDE DEF a
  <2>3. /\ inbox' \in [Requesters -> Seq(Answer)] /\ inbox'[r] = Tail(inbox[r])
        /\ \A s \in Requesters \ {r} : inbox'[s] = inbox[s]
    BY <2>1, <2>2 DEF Inv, TypeOK, RequesterTypes
  <2>4. \A s \in Requesters : Len(inbox'[s]) <= Room
    BY <2>2, <2>3 DEF Inv, TypeOK, RequesterTypes
  <2>5. RequesterTypes'
    BY <1>2, <2>1, <2>3, <2>4 DEF Inv, TypeOK, RequesterTypes
  <2>6. OwnDealer'
    <3> SUFFICES ASSUME NEW s \in Requesters PROVE OwnDealerOf(s)'
      BY DEF OwnDealer
    <3>1. OwnDealerOf(s)
      BY DEF Inv, OwnDealer
    <3>2. CASE s = r
      BY <1>1, <1>2, <2>1, <2>2, <2>3, <3>1, <3>2 DEF OwnDealerOf, Call
    <3>3. CASE s # r
      BY <1>2, <2>1, <2>3, <3>1, <3>3 DEF OwnDealerOf, Call
    <3> QED BY <3>2, <3>3
  <2>7. RequestsMade' /\ HeardIsOver' /\ AnswersItsCall'
    BY <1>2, <2>1 DEF Inv, RequestsMade, Made, HeardIsOver, AnswersItsCall, Call
  <2> QED BY <1>4, <2>5, <2>6, <2>7 DEF Inv, TypeOK
<1> QED BY <1>5, <1>6

\* Every step keeps the invariant: an answer goes to the DEALER its request came from, and a
\* DEALER does not outlive its request.
LEMMA StepInv == Inv /\ [Next]_vars => Inv'
<1> SUFFICES ASSUME Inv, [Next]_vars PROVE Inv'
  OBVIOUS
<1>1. CASE UNCHANGED vars
  <2>1. /\ UNCHANGED requesterVars
        /\ UNCHANGED <<closed, replyLock, job, cancels>> /\ UNCHANGED <<life, route, pending>>
    BY <1>1 DEF vars, responderVars
  <2>2. ResponderTypes' /\ job' \in [Handlers -> Job] /\ BoundRoute' /\ OneSender'
    BY <2>1 DEF Inv, TypeOK, ResponderTypes, BoundRoute, OneSender
  <2>3. RequestsMade'
    BY <2>1 DEF Inv, RequestsMade, Made, Call, requesterVars
  <2> QED BY <2>1, <2>2, <2>3, RequestersKept DEF Inv, TypeOK
<1>2. CASE Shutdown
  BY <1>2, ResponderStep
<1>3. ASSUME NEW g \in Gens, Attach(g) \/ SetRoute(g) PROVE Inv'
  BY <1>3, ResponderStep
<1>4. ASSUME NEW g \in Gens, Drop(g) PROVE Inv'
  BY <1>4, DropStep
<1>5. ASSUME NEW h \in Handlers, Handling(h) PROVE Inv'
  BY <1>5, HandlerStep, SendStep DEF Handling, Answering
<1>6. ASSUME NEW r \in Requesters, Asking(r) PROVE Inv'
  BY <1>6, RequestBegins, RequestLeaves, EndStep, ReceiveStep, DisconnectStep DEF Asking
<1> QED BY <1>1, <1>2, <1>3, <1>4, <1>5, <1>6 DEF Next
-----------------------------------------------------------------------------
\* The inductive invariant holds in every reachable state.
THEOREM Invariance == Spec => []Inv
BY InitInv, StepInv, PTL DEF Spec

\* request and answers: what a request returns was made for that request, though an earlier
\* one of the same caller had the same correlation id and its answer comes late.
THEOREM HearsItsOwn == Spec => []AnswersItsCall
<1>1. Inv => AnswersItsCall
  BY DEF Inv
<1> QED BY Invariance, <1>1, PTL

\* What a request step is for the caller: the beginning, the answer, the end, or nothing.
LEMMA PromiseKept == Inv /\ [Next]_vars => [Promise!Next]_(Promise!vars)
<1> DEFINE busy == {r \in Requesters : pc[r] # "idle"}
           told == {<<e[1], e[2].of>> : e \in heard}
<1> SUFFICES ASSUME Inv, [Next]_vars
             PROVE  Promise!Next \/ UNCHANGED <<num, busy, told>>
  BY DEF Promise!vars
<1> USE DEF Inv, TypeOK
<1>1. CASE UNCHANGED vars \/ Shutdown \/ (\E g \in Gens : Attach(g) \/ SetRoute(g) \/ Drop(g))
           \/ (\E h \in Handlers : Handling(h))
  <2>1. pc' = pc /\ num' = num /\ heard' = heard
    BY <1>1 DEF vars, requesterVars, Shutdown, Attach, SetRoute, Drop, Handling, Take, Publish,
                Settle, Answering, LockRoute, SendReply, Refuse, CancelPublish
  <2> QED BY <2>1
<1>2. ASSUME NEW r \in Requesters, Asking(r)
      PROVE  Promise!Next \/ UNCHANGED <<num, busy, told>>
  <2>1. ASSUME NEW c \in CorrIds, Ask(r, c) PROVE Promise!Ask(r)
    <3>1. pc[r] = "idle" /\ num[r] < MaxCalls /\ num' = [num EXCEPT ![r] = @ + 1]
          /\ pc' = [pc EXCEPT ![r] = "connecting"] /\ heard' = heard
      BY <2>1 DEF Ask, Goto
    <3>2. r \notin busy /\ busy' = busy \cup {r}
      BY <3>1 DEF RequesterTypes
    <3> QED BY <3>1, <3>2 DEF Promise!Ask
  <2>2. CASE (\E g \in Gens : Dial(r, g)) \/ SendRequest(r) \/ Disconnect(r)
    <3>1. num' = num /\ heard' = heard /\ busy' = busy
      BY <2>2 DEF Dial, SendRequest, Disconnect, Goto, RequesterTypes
    <3> QED BY <3>1
  <2>3. CASE GiveUp(r) \/ TimeOut(r) \/ CancelRequest(r)
    <3>1. pc[r] # "idle" /\ num' = num /\ heard' = heard /\ pc' = [pc EXCEPT ![r] = "idle"]
      BY <2>3 DEF GiveUp, TimeOut, CancelRequest, Hangup, Goto
    <3>2. r \in busy /\ busy' = busy \ {r}
      BY <3>1 DEF RequesterTypes
    <3> QED BY <3>1, <3>2 DEF Promise!Next, Promise!EndUnheard
  <2>4. CASE Receive(r) /\ ~Answers(r, Head(inbox[r]))
    BY <2>4 DEF Receive
  <2>5. CASE Receive(r) /\ Answers(r, Head(inbox[r]))
    <3> DEFINE a == Head(inbox[r])
    <3>1. /\ pc[r] = "waiting" /\ num' = num /\ heard' = heard \cup {<<Call(r), a>>}
          /\ pc' = [pc EXCEPT ![r] = "idle"]
      BY <2>5 DEF Receive, Hangup, Goto
    <3>2. a.of = Call(r)
      BY <2>5, AnswerIsOwn DEF Receive
    <3> HIDE DEF a
    <3>3. told' = told \cup {<<Call(r), Call(r)>>}
      <4> DEFINE p == <<Call(r), a>>
      <4>1. heard' = heard \cup {p} /\ <<p[1], p[2].of>> = <<Call(r), Call(r)>>
        BY <3>1, <3>2
      <4> HIDE DEF p
      <4>2. told' = told \cup {<<p[1], p[2].of>>}
        BY <4>1
      <4> QED BY <4>1, <4>2
    <3>4. \A e \in told : e[1] # Call(r)
      BY <3>1 DEF HeardIsOver, Call
    <3>5. r \in busy /\ busy' = busy \ {r}
      BY <3>1 DEF RequesterTypes
    <3> QED BY <3>1, <3>3, <3>4, <3>5 DEF Promise!Next, Promise!Hear, Promise!Call, Call
  <2> QED BY <1>2, <2>1, <2>2, <2>3, <2>4, <2>5 DEF Asking, Promise!Next
<1> QED BY <1>1, <1>2 DEF Next

\* The exchange as the caller sees it: Rpc implements Exchange.  A request ends once, and an
\* answer that comes after its end is never heard.
THEOREM ImplementsExchange == Spec => ExchangeSpec
<1>1. Init => Promise!Init
  BY DEF Init, Promise!Init
<1> QED BY Invariance, <1>1, PromiseKept, PTL DEF Spec, ExchangeSpec, Promise!ExchangeSpec

\* No answer is refused for want of a peer that is there and waits on the same ROUTER.
ReachesAsker ==
  \A h \in Handlers :
    /\ Refuse(h) /\ life[job[h].gen] = "open"
    /\ pc[Asker(h)] = "waiting" /\ Call(Asker(h)) = job[h].request.call
    => conn[Asker(h)] = 0

\* subscribe and publish: on the bind side an answer always finds the ROUTER its request came
\* in on, because the endpoint has one responder at a time and it is the one in the route.
THEOREM AnswersReach == ASSUME Side = "bind" PROVE Spec => AnswerReaches
<1>1. Inv => ReachesAsker
  <2> SUFFICES ASSUME Inv, NEW h \in Handlers, Refuse(h), life[job[h].gen] = "open",
                      Call(Asker(h)) = job[h].request.call
               PROVE  conn[Asker(h)] = 0
    BY DEF ReachesAsker
  <2>1. job[h].gen \in Gens /\ Made(job[h].request.call, job[h].gen)
    BY DEF Inv, RequestsMade, Refuse
  <2>2. route = job[h].gen /\ route # 0
    BY <2>1 DEF Inv, BoundRoute, Gens
  <2>3. conn[Asker(h)] \in {0, job[h].gen}
    BY <2>1 DEF Made, Asker
  <2>4. conn[Asker(h)] # route
    BY <2>2 DEF Refuse, PeerKnown
  <2> QED BY <2>2, <2>3, <2>4
<1>2. Spec => [][ReachesAsker]_vars
  BY Invariance, <1>1, PTL DEF Spec
<1> QED BY <1>2, PTL DEF AnswerReaches, ReachesAsker
=============================================================================
