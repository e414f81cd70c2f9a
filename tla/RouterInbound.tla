----------------------------- MODULE RouterInbound -----------------------------
(***************************************************************************)
(* The inbound half of mcp::jsonrpc::Router: requests the peer sends, the  *)
(* handlers that answer them, the completion pool that waits for the       *)
(* handlers, cancellation, progress emission and the destructor.           *)
(*                                                                         *)
(* A lock region of the code is one step; calling the handler, posting the *)
(* completion and setting a promise are steps of their own.  dispatchRequest*)
(* may be running while ~Router does (it tests for it twice); the object's *)
(* memory outlives both, so the last step of ~Router waits for it.         *)
(***************************************************************************)
EXTENDS Naturals, Sequences, FiniteSets

CONSTANTS
  Requests,     \* calls of dispatchRequest
  Senders,      \* sender keys of the request contexts
  Ids,          \* JSON-RPC request ids
  Tokens,       \* progress tokens
  Workers,      \* threads of the completion pool
  Emitters,     \* threads that call emitProgress
  MaxProgress,  \* largest progress value emitted (bounds the model)
  Descriptors,  \* the requests the peers may send
  MaxConcurrentInFlightRequests,
  NoRequest, NoId, NoToken

\* What the router reads of a request and of its context.
Descriptor ==
  [ sender : Senders, id : Ids, token : Tokens \cup {NoToken},
    kind : {"plain", "task", "initialize"} ]

ASSUME InboundAssumption ==
  /\ Descriptors \subseteq Descriptor
  /\ NoRequest \notin Requests /\ NoId \notin Ids /\ NoToken \notin Tokens
  /\ MaxProgress \in Nat
  /\ MaxConcurrentInFlightRequests \in Nat
  /\ IsFiniteSet(Senders) /\ IsFiniteSet(Ids)

VARIABLES
  req,            \* arguments of each call
  pc,             \* where each call is in dispatchRequest and its caller
  answer,         \* what the response future was resolved with
  handlerFuture,  \* the future the handler returned
  registered,     \* a handler is registered for the method
  seenRequestIds, \* seenRequestIdsBySender_
  inboundRequests,          \* <<sender, id>> -> call
  inboundRequestIdsByToken, \* <<sender, token>> -> id
  inboundResponsePromises,  \* <<sender, id>> -> call
  cancelled, lastEmitted,   \* fields of InboundRequestState
  shuttingDown,
  completionPool, \* "set", "null" or, once the last owner let go, "deleted"
  queue,          \* completions posted to the pool
  worker,         \* what each pool thread is doing
  emitter,        \* what each emitting thread is doing
  dtor,           \* progress of ~Router
  taken,          \* calls whose promise ~Router took and has not resolved yet
  late            \* history: calls whose progress each emitting thread sent when they were over

tables == << inboundRequests, inboundRequestIdsByToken, inboundResponsePromises >>
calls == << req, pc, answer, handlerFuture >>
progress == << cancelled, lastEmitted, emitter, late >>
pool == << completionPool, queue, worker >>
vars == << calls, registered, seenRequestIds, tables, progress, shuttingDown, pool, dtor, taken >>

Keys == Senders \X Ids
TokenKeys == Senders \X Tokens
KeyOf(d) == << req[d].sender, req[d].id >>
TokenKeyOf(d) == << req[d].sender, req[d].token >>

CallPoints == {"idle", "mark", "handler", "pool", "post", "complete", "fail", "waiting", "delivered"}
Answers == {"none", "duplicate", "unknown", "refused", "response", "error", "shutdown"}
WorkerStates == [ at : {"idle", "get", "set"}, call : Requests \cup {NoRequest} ]
IdleWorker == [ at |-> "idle", call |-> NoRequest ]
EmitterStates ==
  [ at : {"idle", "send"}, call : Requests \cup {NoRequest}, value : 0..MaxProgress ]
IdleEmitter == [ at |-> "idle", call |-> NoRequest, value |-> 0 ]

Init ==
  /\ req \in [Requests -> Descriptors]
  /\ pc = [d \in Requests |-> "idle"]
  /\ answer = [d \in Requests |-> "none"]
  /\ handlerFuture = [d \in Requests |-> "none"]
  /\ registered = FALSE
  /\ seenRequestIds = {}
  /\ inboundRequests = [k \in Keys |-> NoRequest]
  /\ inboundRequestIdsByToken = [k \in TokenKeys |-> NoId]
  /\ inboundResponsePromises = [k \in Keys |-> NoRequest]
  /\ cancelled = [d \in Requests |-> FALSE]
  /\ lastEmitted = [d \in Requests |-> 0]
  /\ shuttingDown = FALSE
  /\ completionPool = "set"
  /\ queue = << >>
  /\ worker = [w \in Workers |-> IdleWorker]
  /\ emitter = [e \in Emitters |-> IdleEmitter]
  /\ dtor = "live"
  /\ taken = {}
  /\ late = [e \in Emitters |-> {}]

Goto(d, label) == pc' = [pc EXCEPT ![d] = label]
Resolve(d, value) ==          \* setPromiseValueNoThrow: the first value stays
  answer' = [answer EXCEPT ![d] = IF @ = "none" THEN value ELSE @]

-----------------------------------------------------------------------------
(* The tables under inboundState_->mutex.                                  *)

ActiveKeys == { k \in Keys : inboundRequests[k] # NoRequest }

\* Mutant of CompleteInboundRequest: only the promise is taken out.
CompletePromiseOnly(d) ==
  /\ inboundResponsePromises' = [inboundResponsePromises EXCEPT ![KeyOf(d)] = NoRequest]
  /\ UNCHANGED << inboundRequests, inboundRequestIdsByToken >>

\* completeInboundRequest: the promise, then the token and the request if still there
CompleteInboundRequest(d) ==
  LET k == KeyOf(d) IN
  /\ inboundResponsePromises' = [inboundResponsePromises EXCEPT ![k] = NoRequest]
  /\ inboundRequests' = [inboundRequests EXCEPT ![k] = NoRequest]
  /\ inboundRequestIdsByToken' =
       [t \in TokenKeys |->
          IF /\ inboundRequests[k] # NoRequest
             /\ t = TokenKeyOf(inboundRequests[k])
          THEN NoId ELSE inboundRequestIdsByToken[t]]

-----------------------------------------------------------------------------
(* Registration and dispatchRequest.                                       *)

RegisterRequestHandler ==
  /\ dtor = "live" /\ ~registered
  /\ registered' = TRUE
  /\ UNCHANGED << calls, seenRequestIds, tables, progress, shuttingDown, pool, dtor, taken >>

UnregisterHandler ==
  /\ dtor = "live" /\ registered
  /\ registered' = FALSE
  /\ UNCHANGED << calls, seenRequestIds, tables, progress, shuttingDown, pool, dtor, taken >>

\* Mutant of DispatchRequest: the id is not remembered.
DispatchForgetsId(d) ==
  /\ pc[d] = "idle" /\ dtor # "gone"
  /\ \/ /\ KeyOf(d) \in seenRequestIds
        /\ Resolve(d, "duplicate") /\ Goto(d, "waiting")
     \/ /\ KeyOf(d) \notin seenRequestIds /\ ~registered
        /\ Resolve(d, "unknown") /\ Goto(d, "waiting")
     \/ /\ KeyOf(d) \notin seenRequestIds /\ registered
        /\ Goto(d, "mark") /\ UNCHANGED answer
  /\ UNCHANGED << req, handlerFuture, registered, seenRequestIds, tables, progress,
                  shuttingDown, pool, dtor, taken >>

\* the lock region under mutex_: a refused id stays seen
DispatchRequest(d) ==
  /\ pc[d] = "idle" /\ dtor # "gone"
  /\ seenRequestIds' = seenRequestIds \cup {KeyOf(d)}
  /\ \/ /\ KeyOf(d) \in seenRequestIds
        /\ Resolve(d, "duplicate") /\ Goto(d, "waiting")
     \/ /\ KeyOf(d) \notin seenRequestIds /\ ~registered
        /\ Resolve(d, "unknown") /\ Goto(d, "waiting")
     \/ /\ KeyOf(d) \notin seenRequestIds /\ registered
        /\ Goto(d, "mark") /\ UNCHANGED answer
  /\ UNCHANGED << req, handlerFuture, registered, tables, progress,
                  shuttingDown, pool, dtor, taken >>

\* Mutant of ActivationRefused: no test for a router that is shutting down.
RefusedUnlessShutdown(d) ==
  \/ Cardinality(ActiveKeys) >= MaxConcurrentInFlightRequests
  \/ req[d].token # NoToken /\ inboundRequestIdsByToken[TokenKeyOf(d)] # NoId

\* shutting down, over the limit of all senders together, or the token is taken
ActivationRefused(d) ==
  \/ shuttingDown \/ completionPool # "set"
  \/ Cardinality(ActiveKeys) >= MaxConcurrentInFlightRequests
  \/ req[d].token # NoToken /\ inboundRequestIdsByToken[TokenKeyOf(d)] # NoId

RefuseInboundRequest(d) ==
  /\ pc[d] = "mark" /\ ActivationRefused(d)
  /\ Resolve(d, "refused") /\ Goto(d, "waiting")
  /\ UNCHANGED << req, handlerFuture, registered, seenRequestIds, tables, progress,
                  shuttingDown, pool, dtor, taken >>

MarkInboundRequestActive(d) ==
  /\ pc[d] = "mark" /\ ~ActivationRefused(d)
  /\ inboundRequests' = [inboundRequests EXCEPT ![KeyOf(d)] = d]
  /\ inboundRequestIdsByToken' =
       [t \in TokenKeys |->
          IF t = TokenKeyOf(d) THEN req[d].id ELSE inboundRequestIdsByToken[t]]
  /\ inboundResponsePromises' = [inboundResponsePromises EXCEPT ![KeyOf(d)] = d]
  /\ Goto(d, "handler")
  /\ UNCHANGED << req, answer, handlerFuture, registered, seenRequestIds, progress,
                  shuttingDown, pool, dtor, taken >>

\* the handler returns its future, or throws and the catch clause completes the request
CallHandler(d) ==
  /\ pc[d] = "handler"
  /\ \/ /\ handlerFuture' = [handlerFuture EXCEPT ![d] = "pending"]
        /\ Goto(d, "pool")
     \/ /\ Goto(d, "complete") /\ UNCHANGED handlerFuture
  /\ UNCHANGED << req, answer, registered, seenRequestIds, tables, progress,
                  shuttingDown, pool, dtor, taken >>

\* the second lock region: ~Router may have dropped the pool meanwhile
ReadCompletionPool(d) ==
  /\ pc[d] = "pool"
  /\ Goto(d, IF completionPool = "set" THEN "post" ELSE "complete")
  /\ UNCHANGED << req, answer, handlerFuture, registered, seenRequestIds, tables, progress,
                  shuttingDown, pool, dtor, taken >>

\* boost::asio::post, or its failure
PostCompletion(d) ==
  /\ pc[d] = "post"
  /\ \/ Goto(d, "waiting") /\ queue' = Append(queue, d)
     \/ Goto(d, "complete") /\ UNCHANGED queue
  /\ UNCHANGED << req, answer, handlerFuture, registered, seenRequestIds, tables, progress,
                  shuttingDown, completionPool, worker, dtor, taken >>

\* the failure paths: complete the request, then set an error
CompleteFailedRequest(d) ==
  /\ pc[d] = "complete"
  /\ CompleteInboundRequest(d)
  /\ Goto(d, "fail")
  /\ UNCHANGED << req, answer, handlerFuture, registered, seenRequestIds, progress,
                  shuttingDown, pool, dtor, taken >>

ResolveFailedRequest(d) ==
  /\ pc[d] = "fail"
  /\ Resolve(d, "error") /\ Goto(d, "waiting")
  /\ UNCHANGED << req, handlerFuture, registered, seenRequestIds, tables, progress,
                  shuttingDown, pool, dtor, taken >>

\* the runner that called dispatchRequest gets the response and writes it
DeliverResponse(d) ==
  /\ pc[d] = "waiting" /\ answer[d] # "none"
  /\ Goto(d, "delivered")
  /\ UNCHANGED << req, answer, handlerFuture, registered, seenRequestIds, tables, progress,
                  shuttingDown, pool, dtor, taken >>

-----------------------------------------------------------------------------
(* Handlers and the completion pool.  The completion holds what it needs   *)
(* by shared_ptr and may run after ~Router.                                *)

\* user code sets the promise behind the future, with a response or an exception
HandlerFinishes(d) ==
  /\ handlerFuture[d] = "pending"
  /\ \E outcome \in {"ready", "failed"} :
       handlerFuture' = [handlerFuture EXCEPT ![d] = outcome]
  /\ UNCHANGED << req, pc, answer, registered, seenRequestIds, tables, progress,
                  shuttingDown, pool, dtor, taken >>

TakeCompletion(w) ==
  /\ worker[w].at = "idle" /\ queue # << >> /\ completionPool # "deleted"
  /\ worker' = [worker EXCEPT ![w] = [at |-> "get", call |-> Head(queue)]]
  /\ queue' = Tail(queue)
  /\ UNCHANGED << calls, registered, seenRequestIds, tables, progress,
                  shuttingDown, completionPool, dtor, taken >>

\* handlerFuture.get() blocks the pool thread; then completeInboundRequest
CompletionGet(w) ==
  LET d == worker[w].call IN
  /\ worker[w].at = "get" /\ handlerFuture[d] \in {"ready", "failed"}
  /\ CompleteInboundRequest(d)
  /\ worker' = [worker EXCEPT ![w].at = "set"]
  /\ UNCHANGED << calls, registered, seenRequestIds, progress,
                  shuttingDown, completionPool, queue, dtor, taken >>

CompletionSet(w) ==
  LET d == worker[w].call IN
  /\ worker[w].at = "set"
  /\ Resolve(d, IF handlerFuture[d] = "ready" THEN "response" ELSE "error")
  /\ worker' = [worker EXCEPT ![w] = IdleWorker]
  /\ UNCHANGED << req, pc, handlerFuture, registered, seenRequestIds, tables, progress,
                  shuttingDown, completionPool, queue, dtor, taken >>

\* the last shared_ptr is gone: a detached thread stops the pool, queued completions drop
DeleteCompletionPool ==
  /\ completionPool = "null" /\ \A d \in Requests : pc[d] # "post"
  /\ completionPool' = "deleted"
  /\ queue' = << >>
  /\ UNCHANGED << calls, registered, seenRequestIds, tables, progress,
                  shuttingDown, worker, dtor, taken >>

-----------------------------------------------------------------------------
(* Cancellation and progress.                                              *)

\* dispatchNotification, notifications/cancelled: scoped by sender
DispatchCancelled(k) ==
  LET d == inboundRequests[k] IN
  /\ dtor # "gone"
  /\ d # NoRequest /\ req[d].kind = "plain"
  /\ cancelled' = [cancelled EXCEPT ![d] = TRUE]
  /\ UNCHANGED << calls, registered, seenRequestIds, tables, lastEmitted, emitter, late,
                  shuttingDown, pool, dtor, taken >>

\* emitProgress, its lock region
EmitProgress(e, tk, value) ==
  LET d == inboundRequests[<< tk[1], inboundRequestIdsByToken[tk] >>] IN
  /\ emitter[e].at = "idle" /\ dtor # "gone"
  /\ inboundRequestIdsByToken[tk] # NoId /\ d # NoRequest
  /\ ~cancelled[d] /\ value > lastEmitted[d]
  /\ lastEmitted' = [lastEmitted EXCEPT ![d] = value]
  /\ emitter' = [emitter EXCEPT ![e] = [at |-> "send", call |-> d, value |-> value]]
  /\ UNCHANGED << calls, registered, seenRequestIds, tables, cancelled, late,
                  shuttingDown, pool, dtor, taken >>

\* a request that is over: its cancellation recorded, its response set, or ~Router took its promise
Over(d) == cancelled[d] \/ answer[d] # "none" \/ d \in taken

\* dispatchOutboundMessage, outside the inbound lock: the request may be over by now
SendProgress(e) ==
  LET d == emitter[e].call IN
  /\ emitter[e].at = "send"
  /\ emitter' = [emitter EXCEPT ![e] = IdleEmitter]
  /\ late' = IF Over(d) THEN [late EXCEPT ![e] = @ \cup {d}] ELSE late
  /\ UNCHANGED << calls, registered, seenRequestIds, tables, cancelled, lastEmitted,
                  shuttingDown, pool, dtor, taken >>

-----------------------------------------------------------------------------
(* ~Router.                                                                *)

DestroyTakeInbound ==
  /\ dtor = "live" /\ dtor' = "resolving"
  /\ shuttingDown' = TRUE
  /\ taken' = { inboundResponsePromises[k] : k \in Keys } \ {NoRequest}
  /\ inboundRequests' = [k \in Keys |-> NoRequest]
  /\ inboundRequestIdsByToken' = [k \in TokenKeys |-> NoId]
  /\ inboundResponsePromises' = [k \in Keys |-> NoRequest]
  /\ UNCHANGED << calls, registered, seenRequestIds, progress, pool >>

DestroyResolveInbound(d) ==
  /\ dtor = "resolving" /\ d \in taken
  /\ taken' = taken \ {d}
  /\ Resolve(d, "shutdown")
  /\ UNCHANGED << req, pc, handlerFuture, registered, seenRequestIds, tables, progress,
                  shuttingDown, pool, dtor >>

DestroyDropPool ==
  /\ dtor = "resolving" /\ taken = {}
  /\ dtor' = "dropped"
  /\ completionPool' = "null"
  /\ UNCHANGED << calls, registered, seenRequestIds, tables, progress,
                  shuttingDown, queue, worker, taken >>

\* the members are destroyed: C++ wants no other member function running
DestroyMembers ==
  /\ dtor = "dropped"
  /\ \A d \in Requests : pc[d] \in {"idle", "waiting", "delivered"}
  /\ \A e \in Emitters : emitter[e].at = "idle"
  /\ dtor' = "gone"
  /\ UNCHANGED << calls, registered, seenRequestIds, tables, progress,
                  shuttingDown, pool, taken >>

-----------------------------------------------------------------------------
DispatcherInside(d) ==
  \/ RefuseInboundRequest(d) \/ MarkInboundRequestActive(d) \/ CallHandler(d)
  \/ ReadCompletionPool(d) \/ PostCompletion(d) \/ CompleteFailedRequest(d)
  \/ ResolveFailedRequest(d)

DispatcherStep(d) == DispatchRequest(d) \/ DispatcherInside(d) \/ DeliverResponse(d)

PoolStep ==
  \/ \E w \in Workers : TakeCompletion(w) \/ CompletionGet(w) \/ CompletionSet(w)
  \/ DeleteCompletionPool

PeerStep == \E k \in Keys : DispatchCancelled(k)

EmitterStep(e) ==
  \/ \E tk \in TokenKeys, value \in 1..MaxProgress : EmitProgress(e, tk, value)
  \/ SendProgress(e)

DestroyStep ==
  \/ DestroyTakeInbound \/ DestroyDropPool \/ DestroyMembers
  \/ \E d \in Requests : DestroyResolveInbound(d)

Next ==
  \/ RegisterRequestHandler \/ UnregisterHandler
  \/ \E d \in Requests : DispatcherStep(d) \/ HandlerFinishes(d)
  \/ PoolStep
  \/ PeerStep
  \/ \E e \in Emitters : EmitterStep(e)
  \/ DestroyStep

Spec == Init /\ [][Next]_vars

-----------------------------------------------------------------------------
(* Type invariant.                                                         *)

\* Every variable has its type, a busy pool thread and a busy emitter have a call.
TypeOK ==
  /\ req \in [Requests -> Descriptors]
  /\ pc \in [Requests -> CallPoints]
  /\ answer \in [Requests -> Answers]
  /\ handlerFuture \in [Requests -> {"none", "pending", "ready", "failed"}]
  /\ registered \in BOOLEAN
  /\ seenRequestIds \subseteq Keys
  /\ inboundRequests \in [Keys -> Requests \cup {NoRequest}]
  /\ inboundRequestIdsByToken \in [TokenKeys -> Ids \cup {NoId}]
  /\ inboundResponsePromises \in [Keys -> Requests \cup {NoRequest}]
  /\ cancelled \in [Requests -> BOOLEAN]
  /\ lastEmitted \in [Requests -> 0..MaxProgress]
  /\ shuttingDown \in BOOLEAN
  /\ completionPool \in {"set", "null", "deleted"}
  /\ queue \in Seq(Requests)
  /\ worker \in [Workers -> WorkerStates]
  /\ emitter \in [Emitters -> EmitterStates]
  /\ dtor \in {"live", "resolving", "dropped", "gone"}
  /\ taken \subseteq Requests
  /\ late \in [Emitters -> SUBSET Requests]
  /\ \A w \in Workers : worker[w].at # "idle" => worker[w].call \in Requests
  /\ \A e \in Emitters : emitter[e].at # "idle" => emitter[e].call \in Requests

-----------------------------------------------------------------------------
(* Safety.                                                                 *)

\* The three tables under inboundState_->mutex agree: a request that is active has its
\* promise in the table and conversely, under its own sender and id, and a progress token
\* leads to the active request that carries it (markInboundRequestActive inserts into the
\* first table before it may refuse a duplicate token).
InboundTablesAgree ==
  /\ \A k \in Keys :
       /\ inboundRequests[k] = inboundResponsePromises[k]
       /\ inboundRequests[k] # NoRequest => KeyOf(inboundRequests[k]) = k
       /\ inboundRequests[k] # NoRequest /\ req[inboundRequests[k]].token # NoToken =>
            inboundRequestIdsByToken[TokenKeyOf(inboundRequests[k])] = k[2]
  /\ \A tk \in TokenKeys : inboundRequestIdsByToken[tk] # NoId =>
       LET d == inboundRequests[<< tk[1], inboundRequestIdsByToken[tk] >>] IN
       d # NoRequest /\ req[d].token = tk[2]

\* options_.maxConcurrentInFlightRequests bounds the active requests of all senders together.
ActiveWithinLimit == Cardinality(ActiveKeys) <= MaxConcurrentInFlightRequests

Handled(d) == pc[d] \notin {"idle", "mark"} /\ answer[d] \notin {"duplicate", "unknown", "refused"}

\* "Router enforces unique request ids per sender": no handler ever gets two requests of one
\* sender with the same id, whatever became of the first.
IdHandledOnce ==
  \A c, d \in Requests : Handled(c) /\ Handled(d) /\ KeyOf(c) = KeyOf(d) => c = d

\* A response future becomes ready only after its request left the tables, so the peer that
\* reads the answer can use the progress token and the in-flight slot again (completeInboundRequest
\* before the promise is set, in four places, and the clear in ~Router).
AnsweredMeansInactive ==
  \A d \in Requests : answer[d] # "none" => \A k \in Keys : inboundRequests[k] # d

\* A runner that waits for a response is owed one: a pool thread is about to set the promise or
\* ~Router has taken it, and until ~Router has returned the completion may also wait in the queue
\* or for the handler (posts fail, handlers hang, ~Router drops the queue; router.hpp: "All pending
\* inbound request handlers have their promises completed with an error").
WaitingIsOwed ==
  \A d \in Requests : pc[d] = "waiting" /\ answer[d] = "none" =>
    \/ \E w \in Workers : worker[w] = [at |-> "set", call |-> d]
    \/ d \in taken
    \/ /\ dtor # "gone"
       /\ \/ \E w \in Workers : worker[w] = [at |-> "get", call |-> d]
          \/ \E i \in 1..Len(queue) : queue[i] = d

\* A request that was cancelled, answered or taken by ~Router falls silent: emitProgress sends after
\* it let go of the lock, so the last notification of a thread may come late, but no thread sends
\* two when the request is over, however cancellation, completion, shutdown and emission interleave.
LateProgressOnce ==
  \A e \in Emitters : emitter[e].at = "send" => emitter[e].call \notin late[e]

=============================================================================
