-------------------------------- MODULE Rpc --------------------------------
(***************************************************************************)
(* Requests and their answers (rpc.rs).  Each request dials with a DEALER  *)
(* of its own, under an identity no other socket has, and waits for an     *)
(* answer until its timeout.  A responder is a ROUTER split in two: its    *)
(* receiving half feeds the subscription, its sending half goes into the   *)
(* reply route all publishers of the broker share, replacing what was      *)
(* there.  An answer locks the route and is sent to the identity its       *)
(* request came from, through the ROUTER that is in the route then.        *)
(*                                                                         *)
(* A responder may bind, and the requesters dial it, or dial: then they    *)
(* stand for peers that bind, and Dial for a connection it made to one.  A *)
(* ROUTER knows a peer by the identity of that one connection.             *)
(***************************************************************************)
EXTENDS Naturals, Sequences

CONSTANTS
  Requesters,    \* callers of request, one request at a time each
  Handlers,      \* tasks that handle requests and publish answers
  NoOne,         \* nobody
  Side,          \* "bind" or "connect": the responder's side
  CarriesHeaders,\* Envelope::CARRIES_HEADERS
  Room,          \* answers a DEALER's pipe holds
  MaxOpens,      \* bound: responders opened over a behaviour
  MaxCalls,      \* bound: requests of each requester
  MaxAnswers,    \* bound: answers a handler sends to one request
  MaxCancels     \* bound: futures dropped over a behaviour

ASSUME RpcAssumption ==
  /\ NoOne \notin Requesters \cup Handlers
  /\ Side \in {"bind", "connect"} /\ CarriesHeaders \in BOOLEAN
  /\ Room \in Nat \ {0}
  /\ MaxOpens \in Nat /\ MaxCalls \in Nat /\ MaxAnswers \in Nat /\ MaxCancels \in Nat

VARIABLES
  closed,     \* Lifecycle.closed
  life,       \* each responder: none, attached, open or closed
  route,      \* router_tx: the responder replies go through, 0 before any
  replyLock,  \* the handler that holds the route's mutex
  pending,    \* requests a responder has received and not handed out
  job,        \* what each handler is doing
  pc,         \* where each requester is
  num,        \* requests each requester has made
  corr,       \* the correlation id of its current request
  conn,       \* the responder its DEALER is connected to, 0 when to none
  inbox,      \* answers in its DEALER's pipe
  heard,      \* <<call, answer>> of the requests that returned an answer
  cancels     \* futures that may still be dropped (bound)

responderVars == <<life, route, pending>>
requesterVars == <<pc, num, corr, conn, inbox, heard>>
vars == <<closed, responderVars, replyLock, job, requesterVars, cancels>>

Gens  == 1..MaxOpens
Calls == Requesters \X (1..MaxCalls)
Call(r) == <<r, num[r]>>

(* A correlation id: the caller's own, the same for every request it makes,   *)
(* one minted for the request, or one an answer carries that is neither.      *)
Stray == <<NoOne, 0>>
CorrIds == (Requesters \X (0..MaxCalls)) \cup {Stray}

Request == [call : Calls \cup {Stray}, corr : CorrIds]
Answer  == [of : Calls, corr : CorrIds]

Job == [step : {"idle", "handling", "locking", "sending"}, gen : 0..MaxOpens,
        request : Request, answer : CorrIds, sent : 0..MaxAnswers]
NoJob == [step |-> "idle", gen |-> 0, request |-> [call |-> Stray, corr |-> Stray],
          answer |-> Stray, sent |-> 0]

Init ==
  /\ closed = FALSE
  /\ life = [g \in Gens |-> "none"] /\ route = 0 /\ replyLock = NoOne
  /\ pending = [g \in Gens |-> {}]
  /\ job = [h \in Handlers |-> NoJob]
  /\ pc = [r \in Requesters |-> "idle"] /\ num = [r \in Requesters |-> 0]
  /\ corr = [r \in Requesters |-> Stray]
  /\ conn = [r \in Requesters |-> 0] /\ inbox = [r \in Requesters |-> <<>>]
  /\ heard = {} /\ cancels = MaxCancels

Shutdown ==
  /\ ~closed /\ closed' = TRUE
  /\ UNCHANGED <<responderVars, replyLock, job, requesterVars, cancels>>

------------------------------------------------------------------------------
(* Responders. *)

(* The sockets the process still has: a responder's while it is open, and     *)
(* after that for as long as its sending half is in the route.                *)
Alive(g) == life[g] \in {"attached", "open"} \/ (life[g] = "closed" /\ route = g)

(* The ROUTER attaches.  A bound endpoint has one subscription at a time (the *)
(* lease of EndpointLease); one that dials may have several.                  *)
Attach(g) ==
  /\ ~closed /\ life[g] = "none" /\ \A f \in 1..(g - 1) : life[f] # "none"
  /\ Side = "bind" => \A f \in Gens : life[f] \notin {"attached", "open"}
  /\ life' = [life EXCEPT ![g] = "attached"]
  /\ UNCHANGED <<closed, route, replyLock, pending, job, requesterVars, cancels>>

(* Mutant: the first responder's half stays for good. *)
SetRouteOnce(g) ==
  /\ life[g] = "attached" /\ replyLock = NoOne
  /\ route' = IF route = 0 THEN g ELSE route
  /\ life' = [life EXCEPT ![g] = "open"]
  /\ UNCHANGED <<closed, replyLock, pending, job, requesterVars, cancels>>

(* Its sending half replaces the one in the route, once no answer is sending, *)
(* and the subscription starts to read.  Nothing ever empties the route.      *)
SetRoute(g) ==
  /\ life[g] = "attached" /\ replyLock = NoOne
  /\ route' = g
  /\ life' = [life EXCEPT ![g] = "open"]
  /\ UNCHANGED <<closed, replyLock, pending, job, requesterVars, cancels>>

(* The subscription is dropped with what it had read, or the subscribe future *)
(* is dropped before the route is set.                                        *)
Drop(g) ==
  /\ life[g] = "open" \/ (life[g] = "attached" /\ cancels > 0)
  /\ cancels' = IF life[g] = "attached" THEN cancels - 1 ELSE cancels
  /\ life' = [life EXCEPT ![g] = "closed"]
  /\ pending' = [pending EXCEPT ![g] = {}]
  /\ UNCHANGED <<closed, route, replyLock, job, requesterVars>>

------------------------------------------------------------------------------
(* Handlers and their answers. *)

(* A handler takes a request off the subscription. *)
Take(h, g, q) ==
  /\ job[h].step = "idle" /\ life[g] = "open" /\ q \in pending[g]
  /\ pending' = [pending EXCEPT ![g] = @ \ {q}]
  /\ job' = [job EXCEPT ![h] = [step |-> "handling", gen |-> g, request |-> q,
                                answer |-> Stray, sent |-> 0]]
  /\ UNCHANGED <<closed, life, route, replyLock, requesterVars, cancels>>

(* publish: the answer goes to the request's reply-to address, under the      *)
(* correlation id the transform copies, or under none of the requester's.     *)
Publish(h, c) ==
  /\ job[h].step = "handling" /\ job[h].sent < MaxAnswers /\ ~closed
  /\ c \in {job[h].request.corr, Stray}
  /\ job' = [job EXCEPT ![h] = [step |-> "locking", gen |-> @.gen, request |-> @.request,
                                answer |-> c, sent |-> @.sent + 1]]
  /\ UNCHANGED <<closed, responderVars, replyLock, requesterVars, cancels>>

Settle(h) ==
  /\ job[h].step = "handling"
  /\ job' = [job EXCEPT ![h] = NoJob]
  /\ UNCHANGED <<closed, responderVars, replyLock, requesterVars, cancels>>

LockRoute(h) ==
  /\ job[h].step = "locking" /\ replyLock = NoOne
  /\ replyLock' = h
  /\ job' = [job EXCEPT ![h].step = "sending"]
  /\ UNCHANGED <<closed, responderVars, requesterVars, cancels>>

(* Whether the DEALER that asked is connected to the ROUTER in the route. *)
Asker(h) == job[h].request.call[1]
PeerKnown(h) ==
  /\ Call(Asker(h)) = job[h].request.call
  /\ conn[Asker(h)] = route /\ route # 0

Release(h) == /\ replyLock' = NoOne
              /\ job' = [job EXCEPT ![h].step = "handling"]

(* Mutant: the pipe of a peer takes any number of answers. *)
SendReplyUnbounded(h) ==
  LET r == Asker(h) IN
  /\ job[h].step = "sending" /\ PeerKnown(h)
  /\ inbox' = [inbox EXCEPT ![r] =
                 Append(@, [of |-> job[h].request.call, corr |-> job[h].answer])]
  /\ Release(h)
  /\ UNCHANGED <<closed, responderVars, pc, num, corr, conn, heard, cancels>>

(* The send to a known peer waits for room in its pipe. *)
SendReply(h) ==
  LET r == Asker(h) IN
  /\ job[h].step = "sending" /\ PeerKnown(h) /\ Len(inbox[r]) < Room
  /\ inbox' = [inbox EXCEPT ![r] =
                 Append(@, [of |-> job[h].request.call, corr |-> job[h].answer])]
  /\ Release(h)
  /\ UNCHANGED <<closed, responderVars, pc, num, corr, conn, heard, cancels>>

(* Mutant: a refused answer keeps the route locked. *)
RefuseHolding(h) ==
  /\ job[h].step = "sending" /\ ~PeerKnown(h)
  /\ job' = [job EXCEPT ![h].step = "handling"]
  /\ UNCHANGED <<closed, responderVars, replyLock, requesterVars, cancels>>

(* No peer under the identity: refused, or lost when the ROUTER has not       *)
(* noticed that it has gone.                                                  *)
Refuse(h) ==
  /\ job[h].step = "sending" /\ ~PeerKnown(h)
  /\ Release(h)
  /\ UNCHANGED <<closed, responderVars, requesterVars, cancels>>

(* A reply publish that is dropped loses its answer, and the lock is free.    *)
CancelPublish(h) ==
  /\ job[h].step \in {"locking", "sending"} /\ cancels > 0
  /\ cancels' = cancels - 1
  /\ replyLock' = IF replyLock = h THEN NoOne ELSE replyLock
  /\ job' = [job EXCEPT ![h] = NoJob]
  /\ UNCHANGED <<closed, responderVars, requesterVars>>

------------------------------------------------------------------------------
(* Requests. *)

Goto(r, l) == pc' = [pc EXCEPT ![r] = l]

Ask(r, c) ==
  /\ pc[r] = "idle" /\ num[r] < MaxCalls /\ ~closed
  /\ num' = [num EXCEPT ![r] = @ + 1]
  /\ c \in {<<r, 0>>, <<r, num[r] + 1>>}
  /\ corr' = [corr EXCEPT ![r] = c]
  /\ Goto(r, "connecting")
  /\ UNCHANGED <<closed, responderVars, replyLock, job, conn, inbox, heard, cancels>>

Dial(r, g) ==
  /\ pc[r] = "connecting" /\ life[g] \in {"attached", "open"}
  /\ conn' = [conn EXCEPT ![r] = g]
  /\ Goto(r, "sending")
  /\ UNCHANGED <<closed, responderVars, replyLock, job, num, corr, inbox, heard, cancels>>

(* The request leaves on the connection, for the responder to read.  The      *)
(* timeout has not begun, and a connection whose buffers are full lets the    *)
(* send wait without bound: the step may happen, and need not.                *)
SendRequest(r) ==
  LET g == conn[r] IN
  /\ pc[r] = "sending" /\ g # 0
  /\ pending' = IF life[g] \in {"attached", "open"}
                THEN [pending EXCEPT ![g] = @ \cup {[call |-> Call(r), corr |-> corr[r]]}]
                ELSE pending
  /\ Goto(r, "waiting")
  /\ UNCHANGED <<closed, life, route, replyLock, job, num, corr, conn, inbox, heard,
                 cancels>>

(* The request is over and its DEALER is dropped. *)
Hangup(r) ==
  /\ Goto(r, "idle")
  /\ conn' = [conn EXCEPT ![r] = 0]
  /\ inbox' = [inbox EXCEPT ![r] = <<>>]

(* No connection, or none any more while the send retries. *)
GiveUp(r) ==
  /\ pc[r] = "connecting" \/ (pc[r] = "sending" /\ conn[r] = 0)
  /\ Hangup(r)
  /\ UNCHANGED <<closed, responderVars, replyLock, job, num, corr, heard, cancels>>

(* answers: with headers, the one under the request's correlation id. *)
Answers(r, a) == CarriesHeaders => a.corr = corr[r]

(* Mutant: an answer is taken, and the loop goes on to the next. *)
ReceiveOn(r) ==
  /\ pc[r] = "waiting" /\ inbox[r] # <<>>
  /\ inbox' = [inbox EXCEPT ![r] = Tail(@)]
  /\ heard' = IF Answers(r, Head(inbox[r])) THEN heard \cup {<<Call(r), Head(inbox[r])>>}
              ELSE heard
  /\ UNCHANGED <<closed, responderVars, replyLock, job, pc, num, corr, conn, cancels>>

Receive(r) ==
  /\ pc[r] = "waiting" /\ inbox[r] # <<>>
  /\ IF Answers(r, Head(inbox[r]))
     THEN heard' = heard \cup {<<Call(r), Head(inbox[r])>>} /\ Hangup(r)
     ELSE inbox' = [inbox EXCEPT ![r] = Tail(@)] /\ UNCHANGED <<heard, pc, conn>>
  /\ UNCHANGED <<closed, responderVars, replyLock, job, num, corr, cancels>>

(* Mutant: the DEALER outlives the request that timed out. *)
TimeOutKeeping(r) ==
  /\ pc[r] = "waiting"
  /\ Goto(r, "idle")
  /\ UNCHANGED <<closed, responderVars, replyLock, job, num, corr, conn, inbox, heard,
                 cancels>>

(* Mutant: the timeout starts anew when it is over. *)
TimeOutAnew(r) ==
  /\ pc[r] = "waiting" /\ inbox[r] # <<>>
  /\ Hangup(r)
  /\ UNCHANGED <<closed, responderVars, replyLock, job, num, corr, heard, cancels>>

TimeOut(r) ==
  /\ pc[r] = "waiting"
  /\ Hangup(r)
  /\ UNCHANGED <<closed, responderVars, replyLock, job, num, corr, heard, cancels>>

CancelRequest(r) ==
  /\ pc[r] # "idle" /\ cancels > 0
  /\ cancels' = cancels - 1
  /\ Hangup(r)
  /\ UNCHANGED <<closed, responderVars, replyLock, job, num, corr, heard>>

(* The connection of a DEALER to a socket that is gone breaks. *)
Disconnect(r) ==
  /\ conn[r] # 0 /\ ~Alive(conn[r])
  /\ conn' = [conn EXCEPT ![r] = 0]
  /\ UNCHANGED <<closed, responderVars, replyLock, job, pc, num, corr, inbox, heard,
                 cancels>>

------------------------------------------------------------------------------
Answering(h) == LockRoute(h) \/ SendReply(h) \/ Refuse(h)

Handling(h) ==
  \/ \E g \in Gens : \E q \in pending[g] : Take(h, g, q)
  \/ \E c \in CorrIds : Publish(h, c)
  \/ Settle(h) \/ Answering(h) \/ CancelPublish(h)

Asking(r) ==
  \/ \E c \in CorrIds : Ask(r, c)
  \/ \E g \in Gens : Dial(r, g)
  \/ SendRequest(r) \/ GiveUp(r) \/ Receive(r) \/ TimeOut(r) \/ CancelRequest(r)
  \/ Disconnect(r)

Next ==
  \/ Shutdown
  \/ \E g \in Gens : Attach(g) \/ SetRoute(g) \/ Drop(g)
  \/ \E h \in Handlers : Handling(h)
  \/ \E r \in Requesters : Asking(r)

Spec == Init /\ [][Next]_vars

(* Tasks are polled, a route that stays free is locked by who waits for it,   *)
(* and time passes.  A broken connection need not be noticed, and a requester *)
(* need not take what it is sent, nor its connection what it sends.           *)
Fairness ==
  /\ \A h \in Handlers : WF_vars(LockRoute(h)) /\ WF_vars(SendReply(h) \/ Refuse(h))
  /\ \A g \in Gens : WF_vars(SetRoute(g))
  /\ \A r \in Requesters :
       WF_vars(GiveUp(r)) /\ WF_vars(TimeOut(r))

FairSpec == Spec /\ Fairness

------------------------------------------------------------------------------
ResponderTypes ==
  /\ closed \in BOOLEAN
  /\ life \in [Gens -> {"none", "attached", "open", "closed"}]
  /\ route \in 0..MaxOpens /\ replyLock \in Handlers \cup {NoOne}
  /\ pending \in [Gens -> SUBSET Request]
  /\ cancels \in Nat

RequesterTypes ==
  /\ pc \in [Requesters -> {"idle", "connecting", "sending", "waiting"}]
  /\ num \in [Requesters -> 0..MaxCalls]
  /\ corr \in [Requesters -> CorrIds]
  /\ conn \in [Requesters -> 0..MaxOpens]
  /\ inbox \in [Requesters -> Seq(Answer)] /\ \A r \in Requesters : Len(inbox[r]) <= Room
  /\ heard \subseteq Calls \X Answer

TypeOK == ResponderTypes /\ RequesterTypes /\ job \in [Handlers -> Job]

(* A DEALER is there while its request is under way, and holds answers to     *)
(* that request alone.                                                        *)
OwnDealerOf(r) ==
  /\ pc[r] \in {"idle", "connecting"} => conn[r] = 0 /\ inbox[r] = <<>>
  /\ \A k \in 1..Len(inbox[r]) : inbox[r][k].of = Call(r)
  /\ pc[r] # "idle" => corr[r] \in {<<r, 0>>, Call(r)} /\ num[r] > 0
OwnDealer == \A r \in Requesters : OwnDealerOf(r)

(* Responders and handlers have requests that were made, and a request that   *)
(* is still under way came in on the connection it has.                       *)
Made(c, g) ==
  /\ c \in Calls /\ c[2] <= num[c[1]]
  /\ c = Call(c[1]) => conn[c[1]] \in {0, g} /\ pc[c[1]] \in {"idle", "waiting"}

RequestsMade ==
  /\ \A g \in Gens : \A q \in pending[g] : Made(q.call, g)
  /\ \A h \in Handlers : job[h].step # "idle" =>
       job[h].gen \in Gens /\ Made(job[h].request.call, job[h].gen)

(* A request whose answer was heard is over. *)
HeardIsOver ==
  \A e \in heard : LET r == e[1][1]
                   IN  e[1][2] <= num[r] /\ (e[1] = Call(r) => pc[r] = "idle")

(* The handler that sends holds the route, and nobody else does. *)
OneSender == \A h \in Handlers : job[h].step = "sending" <=> replyLock = h

(* A bound endpoint has one responder, and it is in the route once it is open.*)
BoundRoute ==
  Side = "bind" =>
    /\ \A f, g \in Gens : {life[f], life[g]} \subseteq {"attached", "open"} => f = g
    /\ \A g \in Gens : life[g] = "open" => route = g

(* An answer that a request returns was made for that very request: not for   *)
(* an earlier one that timed out and had the same correlation id, nor under   *)
(* the id of another (request, answers).                                      *)
AnswersItsCall ==
  \A e \in heard :
    /\ e[2].of = e[1]
    /\ CarriesHeaders => e[2].corr \in {<<e[1][1], 0>>, e[1]}

Inv ==
  /\ TypeOK /\ OwnDealer /\ RequestsMade /\ HeardIsOver /\ OneSender /\ BoundRoute
  /\ AnswersItsCall

(* What request promises its caller. *)
Promise == INSTANCE Exchange WITH
             busy <- {r \in Requesters : pc[r] # "idle"},
             heard <- {<<e[1], e[2].of>> : e \in heard}
ExchangeSpec == Promise!ExchangeSpec

(* While the subscription it took a request from is open, a handler finds     *)
(* that subscription's ROUTER in the route: its answer is not refused for     *)
(* want of a peer that is there and waiting (subscribe, publish).             *)
AnswerReaches ==
  [][\A h \in Handlers :
       /\ Refuse(h) /\ life[job[h].gen] = "open"
       /\ pc[Asker(h)] = "waiting" /\ Call(Asker(h)) = job[h].request.call
       => conn[Asker(h)] = 0]_vars

(* Whoever waits for the route gets it.  An answer is sent or refused, also   *)
(* one behind a peer with a full pipe, once that peer has read, gone or given *)
(* up; and a responder that has attached opens, although answers hold it.     *)
RouteIsFreed ==
  /\ \A h \in Handlers :
       job[h].step \in {"locking", "sending"} ~> job[h].step \notin {"locking", "sending"}
  /\ \A g \in Gens : life[g] = "attached" ~> life[g] # "attached"

(* A request returns: an answer, an error or the timeout, which starts once   *)
(* it is sent.  Only one whose connection does not take it waits on.          *)
Unsent(r) == pc[r] = "sending" /\ conn[r] # 0
RequestsEnd == \A r \in Requesters : pc[r] # "idle" ~> (pc[r] = "idle" \/ Unsent(r))
==============================================================================
