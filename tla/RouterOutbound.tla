---------------------------- MODULE RouterOutbound ----------------------------
(***************************************************************************)
(* The outbound half of mcp::jsonrpc::Router: requests this side sends,    *)
(* the responses and progress notifications that answer them, the timeout  *)
(* thread, and the destructor.                                             *)
(*                                                                         *)
(* Every lock region of the code is one step.  Work done between two lock  *)
(* regions (setting a promise, calling the message sender, invoking a      *)
(* progress callback) is a step of its own, so that every interleaving the *)
(* mutex allows is explored.  Four kinds of threads act:                   *)
(*   - a caller thread per call of sendRequest (Calls),                    *)
(*   - transport threads that dispatch responses and progress (Readers),   *)
(*   - the single worker of timeoutPool_,                                  *)
(*   - the thread that destroys the Router.                                *)
(***************************************************************************)
EXTENDS Naturals, FiniteSets

CONSTANTS
  Calls,        \* calls of sendRequest
  Ids,          \* JSON-RPC request ids
  Tokens,       \* progress tokens
  Readers,      \* threads that call dispatchResponse / dispatchNotification
  MaxProgress,  \* largest progress value the peer reports (bounds the model)
  Descriptors,  \* the requests and options callers may pass
  MaxConcurrentInFlightRequests,
  SolicitedOnly, \* TRUE: the peer only names ids of requests it was sent
  NoCall, NoId, NoToken

(***************************************************************************)
(* What the router reads of a request and of its options: the id, the      *)
(* _meta.progressToken, whether it is `initialize`, task-augmented or      *)
(* neither, whether options.timeout is positive, options.cancelOnTimeout.  *)
(***************************************************************************)
Descriptor ==
  [ id : Ids, token : Tokens \cup {NoToken},
    kind : {"plain", "task", "initialize"},
    timed : BOOLEAN, cancelOnTimeout : BOOLEAN ]

ASSUME OutboundAssumption ==
  /\ Descriptors \subseteq Descriptor
  /\ NoCall \notin Calls /\ NoId \notin Ids /\ NoToken \notin Tokens
  /\ MaxProgress \in Nat
  /\ MaxConcurrentInFlightRequests \in Nat
  /\ IsFiniteSet(Ids)
  /\ SolicitedOnly \in BOOLEAN

VARIABLES
  req,          \* arguments of each call, fixed before the call
  pc,           \* where each caller is in sendRequest
  promise,      \* what each call's future was resolved with
  timer,        \* the steady_timer of each call
  senderSet,    \* outboundMessageSender_ is non-empty
  seenOutboundRequestIds,
  inFlightRequests,           \* id -> call
  requestIdsByProgressToken,  \* token -> id
  ignoredResponseIds,
  pendingTaskCancellation,    \* keys of pendingTaskCancellationByRequestId_
  lastObservedProgress,
  reader,       \* what each transport thread is doing
  worker,       \* what the timeout worker is doing
  dtor,         \* progress of ~Router
  drained,      \* calls ~Router took out of the map and has not resolved yet
  \* history, read by properties only
  cancelledSent,     \* ids named in a notifications/cancelled
  tasksCancelSent,   \* ids for which tasks/cancel was sent
  lateTasks,         \* ids whose ignored late response carried a task id
  shownProgress      \* values a call's progress callback was given

tables == << seenOutboundRequestIds, inFlightRequests, requestIdsByProgressToken,
             ignoredResponseIds, pendingTaskCancellation >>
history == << cancelledSent, tasksCancelSent, lateTasks, shownProgress >>
vars == << req, pc, promise, timer, senderSet, tables, lastObservedProgress,
           reader, worker, dtor, drained, history >>

CallPoints == {"idle", "arm", "startTimer", "send", "sending", "failed", "failing", "done"}
Outcomes == {"none", "rejected", "response", "timeout", "sendFailed", "shutdown"}
Timers == {"none", "set", "waiting", "expired", "over"}

ReaderStates ==
  [ at : {"idle", "resolve", "late", "cancelTask", "callback", "inCallback"},
    call : Calls \cup {NoCall}, id : Ids \cup {NoId},
    task : BOOLEAN, value : 0..MaxProgress ]
ReaderState(at, call, id, task, value) ==
  [ at |-> at, call |-> call, id |-> id, task |-> task, value |-> value ]
IdleReader == ReaderState("idle", NoCall, NoId, FALSE, 0)

WorkerStates == [ at : {"idle", "resolve", "cancel"}, call : Calls \cup {NoCall} ]
IdleWorker == [ at |-> "idle", call |-> NoCall ]

Init ==
  /\ req \in [Calls -> Descriptors]
  /\ pc = [c \in Calls |-> "idle"]
  /\ promise = [c \in Calls |-> "none"]
  /\ timer = [c \in Calls |-> "none"]
  /\ senderSet = FALSE
  /\ seenOutboundRequestIds = {}
  /\ inFlightRequests = [i \in Ids |-> NoCall]
  /\ requestIdsByProgressToken = [t \in Tokens |-> NoId]
  /\ ignoredResponseIds = {}
  /\ pendingTaskCancellation = {}
  /\ lastObservedProgress = [c \in Calls |-> 0]
  /\ reader = [r \in Readers |-> IdleReader]
  /\ worker = IdleWorker
  /\ dtor = "live"
  /\ drained = {}
  /\ cancelledSent = {} /\ tasksCancelSent = {} /\ lateTasks = {}
  /\ shownProgress = [c \in Calls |-> {}]

-----------------------------------------------------------------------------
(* Tables shared under mutex_.                                             *)

InFlight(i) == inFlightRequests[i] # NoCall
InFlightIds == { i \in Ids : InFlight(i) }

Goto(c, label) == pc' = [pc EXCEPT ![c] = label]
Resolve(c, outcome) ==          \* setPromiseValueNoThrow: the first value stays
  promise' = [promise EXCEPT ![c] = IF @ = "none" THEN outcome ELSE @]
CancelTimer(c) ==               \* steady_timer::cancel only stops a pending wait
  timer' = [timer EXCEPT ![c] = IF @ = "waiting" THEN "over" ELSE @]

\* Mutant of PopInFlightRequest: the token goes on leading to the id.
PopKeepsToken(i, markIgnored) ==
  /\ inFlightRequests' = [inFlightRequests EXCEPT ![i] = NoCall]
  /\ ignoredResponseIds' = IF markIgnored THEN ignoredResponseIds \cup {i}
                                          ELSE ignoredResponseIds
  /\ UNCHANGED << requestIdsByProgressToken, seenOutboundRequestIds, pendingTaskCancellation >>

\* popInFlightRequest, on an id that is in flight
PopInFlightRequest(i, markIgnored) ==
  LET token == req[inFlightRequests[i]].token IN
  /\ inFlightRequests' = [inFlightRequests EXCEPT ![i] = NoCall]
  /\ ignoredResponseIds' = IF markIgnored THEN ignoredResponseIds \cup {i}
                                          ELSE ignoredResponseIds
  /\ requestIdsByProgressToken' =
       [t \in Tokens |-> IF t = token THEN NoId ELSE requestIdsByProgressToken[t]]
  /\ UNCHANGED << seenOutboundRequestIds, pendingTaskCancellation >>

-----------------------------------------------------------------------------
(* Caller threads: setOutboundMessageSender and sendRequest.               *)

SetOutboundMessageSender ==
  /\ dtor = "live"
  /\ senderSet' = TRUE
  /\ UNCHANGED << req, pc, promise, timer, tables, lastObservedProgress,
                  reader, worker, dtor, drained, history >>

Refused(c) ==
  \/ Cardinality(InFlightIds) >= MaxConcurrentInFlightRequests
  \/ req[c].id \in seenOutboundRequestIds
  \/ req[c].token # NoToken /\ requestIdsByProgressToken[req[c].token] # NoId

\* addInFlightRequest refused the call: its future is ready with an error
RefuseRequest(c) ==
  /\ pc[c] = "idle" /\ dtor = "live"
  /\ Refused(c)
  /\ Resolve(c, "rejected")
  /\ Goto(c, "done")
  /\ UNCHANGED << req, timer, senderSet, tables, lastObservedProgress,
                  reader, worker, dtor, drained, history >>

AddInFlightRequest(c) ==
  /\ pc[c] = "idle" /\ dtor = "live"
  /\ ~Refused(c)
  /\ seenOutboundRequestIds' = seenOutboundRequestIds \cup {req[c].id}
  /\ inFlightRequests' = [inFlightRequests EXCEPT ![req[c].id] = c]
  /\ requestIdsByProgressToken' =
       [t \in Tokens |-> IF t = req[c].token THEN req[c].id ELSE requestIdsByProgressToken[t]]
  /\ Goto(c, IF req[c].timed THEN "arm" ELSE "send")
  /\ UNCHANGED << req, promise, timer, senderSet, ignoredResponseIds, pendingTaskCancellation,
                  lastObservedProgress, reader, worker, dtor, drained, history >>

\* armRequestTimeout, its lock region: no timer when the request is already gone
ArmRequestTimeout(c) ==
  /\ pc[c] = "arm"
  /\ IF InFlight(req[c].id)
     THEN /\ timer' = [timer EXCEPT ![c] = "set"]
          /\ Goto(c, "startTimer")
     ELSE /\ UNCHANGED timer
          /\ Goto(c, "send")
  /\ UNCHANGED << req, promise, senderSet, tables, lastObservedProgress,
                  reader, worker, dtor, drained, history >>

\* Mutant of StartTimer: the wait is never started.
StartTimerForgotten(c) ==
  /\ pc[c] = "startTimer"
  /\ Goto(c, "send")
  /\ UNCHANGED << req, promise, timer, senderSet, tables, lastObservedProgress,
                  reader, worker, dtor, drained, history >>

\* async_wait, outside the lock; a cancel() before it cancels nothing
StartTimer(c) ==
  /\ pc[c] = "startTimer"
  /\ timer' = [timer EXCEPT ![c] = "waiting"]
  /\ Goto(c, "send")
  /\ UNCHANGED << req, promise, senderSet, tables, lastObservedProgress,
                  reader, worker, dtor, drained, history >>

\* dispatchOutboundMessage: the sender is copied under the lock and called outside
DispatchRequest(c) ==
  /\ pc[c] = "send"
  /\ Goto(c, IF senderSet THEN "sending" ELSE "failed")
  /\ UNCHANGED << req, promise, timer, senderSet, tables, lastObservedProgress,
                  reader, worker, dtor, drained, history >>

\* the sender returns, or throws (even after the message left)
SenderReturns(c) ==
  /\ pc[c] = "sending"
  /\ \E label \in {"done", "failed"} : Goto(c, label)
  /\ UNCHANGED << req, promise, timer, senderSet, tables, lastObservedProgress,
                  reader, worker, dtor, drained, history >>

\* popInFlightRequest after a failed send
PopFailedRequest(c) ==
  /\ pc[c] = "failed"
  /\ \/ /\ InFlight(req[c].id)
        /\ PopInFlightRequest(req[c].id, FALSE)
        /\ Goto(c, "failing")
     \/ /\ ~InFlight(req[c].id)
        /\ Goto(c, "done")
        /\ UNCHANGED tables
  /\ UNCHANGED << req, promise, timer, senderSet, lastObservedProgress,
                  reader, worker, dtor, drained, history >>

ResolveFailedRequest(c) ==
  /\ pc[c] = "failing"
  /\ CancelTimer(c)
  /\ Resolve(c, "sendFailed")
  /\ Goto(c, "done")
  /\ UNCHANGED << req, senderSet, tables, lastObservedProgress,
                  reader, worker, dtor, drained, history >>

-----------------------------------------------------------------------------
(* The timeout thread: steady_timer expiry and handleRequestTimeout.       *)

TimerExpires(c) ==
  /\ timer[c] = "waiting"
  /\ dtor \notin {"stopped", "gone"}
  /\ timer' = [timer EXCEPT ![c] = "expired"]
  /\ UNCHANGED << req, pc, promise, senderSet, tables, lastObservedProgress,
                  reader, worker, dtor, drained, history >>

\* handleRequestTimeout up to the pop: an answered request is left alone
HandleRequestTimeout(c) ==
  /\ timer[c] = "expired" /\ worker.at = "idle"
  /\ dtor \notin {"stopped", "gone"}
  /\ timer' = [timer EXCEPT ![c] = "over"]
  /\ \/ /\ InFlight(req[c].id)
        /\ worker' = [at |-> "resolve", call |-> inFlightRequests[req[c].id]]
        /\ PopInFlightRequest(req[c].id, TRUE)
     \/ /\ ~InFlight(req[c].id)
        /\ UNCHANGED << worker, tables >>
  /\ UNCHANGED << req, pc, promise, senderSet, lastObservedProgress,
                  reader, dtor, drained, history >>

ResolveTimedOut ==
  /\ worker.at = "resolve"
  /\ Resolve(worker.call, "timeout")
  /\ worker' = IF req[worker.call].cancelOnTimeout /\ req[worker.call].kind # "initialize"
               THEN [worker EXCEPT !.at = "cancel"]
               ELSE IdleWorker
  /\ UNCHANGED << req, pc, timer, senderSet, tables, lastObservedProgress,
                  reader, dtor, drained, history >>

\* a task-augmented request waits for its task id; taskId is never known here
DeferTaskCancellation ==
  /\ worker.at = "cancel" /\ req[worker.call].kind = "task"
  /\ pendingTaskCancellation' = pendingTaskCancellation \cup {req[worker.call].id}
  /\ worker' = IdleWorker
  /\ UNCHANGED << req, pc, promise, timer, senderSet, seenOutboundRequestIds, inFlightRequests,
                  requestIdsByProgressToken, ignoredResponseIds, lastObservedProgress,
                  reader, dtor, drained, history >>

SendCancelled ==
  /\ worker.at = "cancel" /\ req[worker.call].kind # "task"
  /\ cancelledSent' = IF senderSet THEN cancelledSent \cup {req[worker.call].id} ELSE cancelledSent
  /\ worker' = IdleWorker
  /\ UNCHANGED << req, pc, promise, timer, senderSet, tables, lastObservedProgress,
                  reader, dtor, drained, tasksCancelSent, lateTasks, shownProgress >>

-----------------------------------------------------------------------------
(* Transport threads: dispatchResponse, and the progress part of           *)
(* dispatchNotification.  The peer is arbitrary: any id, any number of     *)
(* times, and unless SolicitedOnly also before the request left.           *)

PeerMayAddress(i) ==
  SolicitedOnly => \E c \in Calls : req[c].id = i /\ pc[c] \in {"sending", "failed", "failing", "done"}

\* Mutant of DispatchResponse: answers some request in flight, as if answers came in order.
DispatchResponseInOrder(r, i, task) ==
  /\ reader[r].at = "idle" /\ dtor = "live"
  /\ PeerMayAddress(i)
  /\ \E j \in InFlightIds :
       /\ reader' = [reader EXCEPT ![r] = ReaderState("resolve", inFlightRequests[j], i, FALSE, 0)]
       /\ PopInFlightRequest(j, FALSE)
  /\ UNCHANGED << req, pc, promise, timer, senderSet, lastObservedProgress,
                  worker, dtor, drained, history >>

\* dispatchResponse up to the pop
DispatchResponse(r, i, task) ==
  /\ reader[r].at = "idle" /\ dtor = "live"
  /\ PeerMayAddress(i)
  /\ \/ /\ InFlight(i)
        /\ reader' = [reader EXCEPT ![r] = ReaderState("resolve", inFlightRequests[i], i, FALSE, 0)]
        /\ PopInFlightRequest(i, FALSE)
     \/ /\ ~InFlight(i)
        /\ reader' = [reader EXCEPT ![r] = ReaderState("late", NoCall, i, task, 0)]
        /\ UNCHANGED tables
  /\ UNCHANGED << req, pc, promise, timer, senderSet, lastObservedProgress,
                  worker, dtor, drained, history >>

ResolveResponse(r) ==
  /\ reader[r].at = "resolve"
  /\ CancelTimer(reader[r].call)
  /\ Resolve(reader[r].call, "response")
  /\ reader' = [reader EXCEPT ![r] = IdleReader]
  /\ UNCHANGED << req, pc, senderSet, tables, lastObservedProgress,
                  worker, dtor, drained, history >>

\* the second lock region of dispatchResponse, for an id that was not in flight
TakeLateResponse(r) ==
  LET i == reader[r].id
      ignored == i \in ignoredResponseIds
      pending == ignored /\ i \in pendingTaskCancellation
  IN
  /\ reader[r].at = "late"
  /\ ignoredResponseIds' = ignoredResponseIds \ {i}
  /\ pendingTaskCancellation' = IF pending THEN pendingTaskCancellation \ {i}
                                           ELSE pendingTaskCancellation
  /\ reader' = [reader EXCEPT ![r] = IF pending /\ reader[r].task
                                     THEN [reader[r] EXCEPT !.at = "cancelTask"]
                                     ELSE IdleReader]
  /\ lateTasks' = IF ignored /\ reader[r].task THEN lateTasks \cup {i} ELSE lateTasks
  /\ UNCHANGED << req, pc, promise, timer, senderSet, seenOutboundRequestIds, inFlightRequests,
                  requestIdsByProgressToken, lastObservedProgress,
                  worker, dtor, drained, cancelledSent, tasksCancelSent, shownProgress >>

SendTasksCancel(r) ==
  /\ reader[r].at = "cancelTask"
  /\ tasksCancelSent' = IF senderSet THEN tasksCancelSent \cup {reader[r].id} ELSE tasksCancelSent
  /\ reader' = [reader EXCEPT ![r] = IdleReader]
  /\ UNCHANGED << req, pc, promise, timer, senderSet, tables, lastObservedProgress,
                  worker, dtor, drained, cancelledSent, lateTasks, shownProgress >>

\* dispatchNotification, its lock region for notifications/progress: a token that
\* is not indexed and a value that is not above the last one change nothing
DispatchProgress(r, t, value) ==
  LET i == requestIdsByProgressToken[t] IN
  /\ reader[r].at = "idle" /\ dtor = "live"
  /\ i # NoId /\ InFlight(i)
  /\ PeerMayAddress(i)
  /\ value > lastObservedProgress[inFlightRequests[i]]
  /\ lastObservedProgress' = [lastObservedProgress EXCEPT ![inFlightRequests[i]] = value]
  /\ reader' = [reader EXCEPT ![r] = ReaderState("callback", inFlightRequests[i], NoId, FALSE, value)]
  /\ UNCHANGED << req, pc, promise, timer, senderSet, tables,
                  worker, dtor, drained, history >>

\* invokeProgressCallback, outside every lock
EnterProgressCallback(r) ==
  /\ reader[r].at = "callback"
  /\ shownProgress' = [shownProgress EXCEPT ![reader[r].call] = @ \cup {reader[r].value}]
  /\ reader' = [reader EXCEPT ![r].at = "inCallback"]
  /\ UNCHANGED << req, pc, promise, timer, senderSet, tables, lastObservedProgress,
                  worker, dtor, drained, cancelledSent, tasksCancelSent, lateTasks >>

LeaveProgressCallback(r) ==
  /\ reader[r].at = "inCallback"
  /\ reader' = [reader EXCEPT ![r] = IdleReader]
  /\ UNCHANGED << req, pc, promise, timer, senderSet, tables, lastObservedProgress,
                  worker, dtor, drained, history >>

-----------------------------------------------------------------------------
(* ~Router.  C++ forbids destroying the object while a member function     *)
(* runs on another thread, so no caller and no transport thread is inside; *)
(* the timeout worker may be.                                              *)

\* Mutant of DestroyTakeInFlight: clears the map without keeping the requests.
DestroyForgetsInFlight ==
  /\ dtor = "live"
  /\ \A c \in Calls : pc[c] \in {"idle", "done"}
  /\ \A r \in Readers : reader[r].at = "idle"
  /\ dtor' = "draining"
  /\ inFlightRequests' = [i \in Ids |-> NoCall]
  /\ requestIdsByProgressToken' = [t \in Tokens |-> NoId]
  /\ pendingTaskCancellation' = {}
  /\ UNCHANGED << req, pc, promise, timer, senderSet, seenOutboundRequestIds,
                  ignoredResponseIds, lastObservedProgress, reader, worker, drained, history >>

DestroyTakeInFlight ==
  /\ dtor = "live"
  /\ \A c \in Calls : pc[c] \in {"idle", "done"}
  /\ \A r \in Readers : reader[r].at = "idle"
  /\ dtor' = "draining"
  /\ drained' = { inFlightRequests[i] : i \in InFlightIds }
  /\ inFlightRequests' = [i \in Ids |-> NoCall]
  /\ requestIdsByProgressToken' = [t \in Tokens |-> NoId]
  /\ pendingTaskCancellation' = {}
  /\ UNCHANGED << req, pc, promise, timer, senderSet, seenOutboundRequestIds,
                  ignoredResponseIds, lastObservedProgress, reader, worker, history >>

DestroyResolve(c) ==
  /\ dtor = "draining" /\ c \in drained
  /\ drained' = drained \ {c}
  /\ CancelTimer(c)
  /\ Resolve(c, "shutdown")
  /\ UNCHANGED << req, pc, senderSet, tables, lastObservedProgress,
                  reader, worker, dtor, history >>

\* timeoutPool_->stop(): queued timer handlers are dropped
DestroyStopTimeoutPool ==
  /\ dtor = "draining" /\ drained = {}
  /\ dtor' = "stopped"
  /\ UNCHANGED << req, pc, promise, timer, senderSet, tables, lastObservedProgress,
                  reader, worker, drained, history >>

\* Mutant of DestroyJoinTimeoutPool: waits for handlers that stop() has dropped.
DestroyJoinQueued ==
  /\ dtor = "stopped" /\ worker.at = "idle"
  /\ \A c \in Calls : timer[c] # "expired"
  /\ dtor' = "gone"
  /\ UNCHANGED << req, pc, promise, timer, senderSet, tables, lastObservedProgress,
                  reader, worker, drained, history >>

\* timeoutPool_.reset(): thread_pool's destructor joins the worker
DestroyJoinTimeoutPool ==
  /\ dtor = "stopped" /\ worker.at = "idle"
  /\ dtor' = "gone"
  /\ UNCHANGED << req, pc, promise, timer, senderSet, tables, lastObservedProgress,
                  reader, worker, drained, history >>

-----------------------------------------------------------------------------
CallerStep(c) ==
  \/ RefuseRequest(c) \/ AddInFlightRequest(c) \/ ArmRequestTimeout(c) \/ StartTimer(c)
  \/ DispatchRequest(c) \/ SenderReturns(c) \/ PopFailedRequest(c) \/ ResolveFailedRequest(c)

ReaderStep(r) ==
  \/ \E i \in Ids, task \in BOOLEAN : DispatchResponse(r, i, task)
  \/ \E t \in Tokens, value \in 1..MaxProgress : DispatchProgress(r, t, value)
  \/ ResolveResponse(r) \/ TakeLateResponse(r) \/ SendTasksCancel(r)
  \/ EnterProgressCallback(r) \/ LeaveProgressCallback(r)

TimeoutStep ==
  \/ \E c \in Calls : TimerExpires(c) \/ HandleRequestTimeout(c)
  \/ ResolveTimedOut \/ DeferTaskCancellation \/ SendCancelled

DestroyStep ==
  \/ DestroyTakeInFlight \/ DestroyStopTimeoutPool \/ DestroyJoinTimeoutPool
  \/ \E c \in Calls : DestroyResolve(c)

Next ==
  \/ SetOutboundMessageSender
  \/ \E c \in Calls : CallerStep(c)
  \/ \E r \in Readers : ReaderStep(r)
  \/ TimeoutStep
  \/ DestroyStep

Spec == Init /\ [][Next]_vars

(***************************************************************************)
(* Fairness: threads that are inside the router keep running (its lock     *)
(* regions are short and the sender and the callbacks return), the timer   *)
(* service delivers expiries and ~Router, once entered, runs on.  Nothing  *)
(* is assumed of the peer, of callers that have not called yet, or of      *)
(* anybody ever destroying the router.                                     *)
(***************************************************************************)
CallerInside(c) ==
  \/ ArmRequestTimeout(c) \/ StartTimer(c) \/ DispatchRequest(c)
  \/ SenderReturns(c) \/ PopFailedRequest(c) \/ ResolveFailedRequest(c)
ReaderInside(r) ==
  \/ ResolveResponse(r) \/ TakeLateResponse(r) \/ SendTasksCancel(r)
  \/ EnterProgressCallback(r) \/ LeaveProgressCallback(r)

Fairness ==
  /\ \A c \in Calls : /\ WF_vars(CallerInside(c))
                      /\ WF_vars(TimerExpires(c))
                      /\ WF_vars(HandleRequestTimeout(c))
                      /\ WF_vars(DestroyResolve(c))
  /\ \A r \in Readers : WF_vars(ReaderInside(r))
  /\ WF_vars(ResolveTimedOut \/ DeferTaskCancellation \/ SendCancelled)
  /\ WF_vars(DestroyStopTimeoutPool) /\ WF_vars(DestroyJoinTimeoutPool)

FairSpec == Spec /\ Fairness

-----------------------------------------------------------------------------
(* Refinement: what the router promises, PendingReplies, is what it does.  *)

statusOf ==
  [c \in Calls |-> IF pc[c] = "idle" THEN "idle"
                   ELSE IF promise[c] = "none" THEN "pending" ELSE promise[c]]
phaseOf == IF dtor = "live" THEN "open" ELSE IF dtor = "gone" THEN "closed" ELSE "closing"

Replies == INSTANCE PendingReplies WITH
  idOf <- [c \in Calls |-> req[c].id], status <- statusOf, phase <- phaseOf

\* Router implements PendingReplies: refused, or accepted under a fresh id and resolved
\* exactly once with one outcome, before the destructor completes.
ImplementsPendingReplies == Replies!Spec

-----------------------------------------------------------------------------
(* Type invariant.                                                         *)

\* Every variable has its type, and a thread that works on a call has one.
TypeOK ==
  /\ req \in [Calls -> Descriptors]
  /\ pc \in [Calls -> CallPoints]
  /\ promise \in [Calls -> Outcomes]
  /\ timer \in [Calls -> Timers]
  /\ senderSet \in BOOLEAN
  /\ seenOutboundRequestIds \subseteq Ids
  /\ inFlightRequests \in [Ids -> Calls \cup {NoCall}]
  /\ requestIdsByProgressToken \in [Tokens -> Ids \cup {NoId}]
  /\ ignoredResponseIds \subseteq Ids
  /\ pendingTaskCancellation \subseteq Ids
  /\ lastObservedProgress \in [Calls -> 0..MaxProgress]
  /\ reader \in [Readers -> ReaderStates]
  /\ worker \in WorkerStates
  /\ dtor \in {"live", "draining", "stopped", "gone"}
  /\ drained \subseteq Calls
  /\ cancelledSent \subseteq Ids
  /\ tasksCancelSent \subseteq Ids
  /\ lateTasks \subseteq Ids
  /\ shownProgress \in [Calls -> SUBSET (0..MaxProgress)]
  /\ worker.at # "idle" => worker.call \in Calls
  /\ \A r \in Readers :
       /\ reader[r].at \in {"resolve", "callback", "inCallback"} => reader[r].call \in Calls
       /\ reader[r].at \in {"resolve", "late", "cancelTask"} => reader[r].id \in Ids

-----------------------------------------------------------------------------
(* Safety.                                                                 *)

Accepted(c) == pc[c] # "idle" /\ promise[c] # "rejected"
InMap(c) == \E i \in Ids : inFlightRequests[i] = c
HeldByCaller(c) == pc[c] = "failing"
HeldByWorker(c) == worker.at = "resolve" /\ worker.call = c
HeldByReader(r, c) == reader[r].at = "resolve" /\ reader[r].call = c
HeldByDestructor(c) == c \in drained
Settled(c) == promise[c] # "none"

OneHolderOf(c) ==
  /\ Accepted(c) =>
       \/ InMap(c) \/ HeldByCaller(c) \/ HeldByWorker(c)
       \/ (\E r \in Readers : HeldByReader(r, c)) \/ HeldByDestructor(c) \/ Settled(c)
  /\ Settled(c) \/ pc[c] = "idle" =>
       /\ ~InMap(c) /\ ~HeldByCaller(c) /\ ~HeldByWorker(c) /\ ~HeldByDestructor(c)
       /\ \A r \in Readers : ~HeldByReader(r, c)
  /\ InMap(c) => /\ ~HeldByCaller(c) /\ ~HeldByWorker(c) /\ ~HeldByDestructor(c)
                 /\ \A r \in Readers : ~HeldByReader(r, c)
  /\ HeldByCaller(c) => /\ ~HeldByWorker(c) /\ ~HeldByDestructor(c)
                        /\ \A r \in Readers : ~HeldByReader(r, c)
  /\ HeldByWorker(c) => /\ ~HeldByDestructor(c)
                        /\ \A r \in Readers : ~HeldByReader(r, c)
  /\ HeldByDestructor(c) => \A r \in Readers : ~HeldByReader(r, c)
  /\ \A r, s \in Readers : HeldByReader(r, c) /\ HeldByReader(s, c) => r = s

\* Whoever pops a request resolves its future and nobody else does: an accepted call
\* is always in the in-flight map, or held by exactly one of the sending thread, the
\* timeout worker, a transport thread and the destructor, or resolved (popInFlightRequest
\* hands the state to one thread; the four pops race).
OneHolder == \A c \in Calls : OneHolderOf(c)

\* The map and the index by progress token never disagree (router.cpp updates the two in
\* one lock region, in four places): a token leads to an in-flight request that carries
\* it, and every in-flight request with a token is found by it.
TokenIndexExact ==
  /\ \A t \in Tokens : requestIdsByProgressToken[t] # NoId =>
       /\ InFlight(requestIdsByProgressToken[t])
       /\ req[inFlightRequests[requestIdsByProgressToken[t]]].token = t
  /\ \A i \in Ids : InFlight(i) /\ req[inFlightRequests[i]].token # NoToken =>
       requestIdsByProgressToken[req[inFlightRequests[i]].token] = i

\* options_.maxConcurrentInFlightRequests bounds the in-flight map at every instant.
InFlightWithinLimit == Cardinality(InFlightIds) <= MaxConcurrentInFlightRequests

\* "responses are correctly routed to their respective futures regardless of completion
\* order" (router.hpp): the call a response resolves is one that sent the response's id.
ResponseReachesItsRequest ==
  \A r \in Readers : reader[r].at = "resolve" => req[reader[r].call].id = reader[r].id

\* An id is put in ignoredResponseIds_ only for the call that used it, and that call's
\* future is resolved by the timeout: no answer is ever ignored that a caller still waits for.
IgnoredMeansTimedOut ==
  \A c \in Calls : Accepted(c) /\ req[c].id \in ignoredResponseIds =>
    promise[c] = "timeout" \/ HeldByWorker(c)

\* notifications/cancelled is sent only for a request whose caller was told it timed out,
\* never for one that was answered, was refused, or is an initialize.
CancelledMeansTimedOut ==
  \A i \in cancelledSent : \E c \in Calls :
    /\ Accepted(c) /\ req[c].id = i
    /\ promise[c] = "timeout" /\ req[c].kind = "plain" /\ req[c].cancelOnTimeout

\* "All futures associated with in-flight requests will be resolved ... before destruction
\* completes" (router.hpp), those the timeout worker had popped when ~Router started included.
DestroyedMeansResolved ==
  dtor = "gone" => \A c \in Calls : pc[c] # "idle" => Settled(c)

\* A call's progress callback is never given the same value twice, whatever the number of threads
\* that dispatch notifications: the test against the last value and its replacement are one lock
\* region, the callback runs after it (dispatchNotification).  It is all the test gives: two threads
\* may be inside the callback at once, and show their values in either order.
ProgressShownOnce ==
  [][\A r \in Readers : reader[r].at = "callback" /\ reader'[r].at = "inCallback" =>
       reader[r].value \notin shownProgress[reader[r].call]]_vars

\* A request id is accepted at most once in the router's life, whatever became of it.
IdAcceptedOnce ==
  \A c, d \in Calls : Accepted(c) /\ Accepted(d) /\ req[c].id = req[d].id => c = d

\* The test "Router timeout sends protocol-valid tasks/cancel after late CreateTaskResult":
\* when a task-augmented request has timed out with cancelOnTimeout, and the late response
\* that names its task has been processed, tasks/cancel has been sent for it.
LateTaskIsCancelled ==
  worker.at = "idle" /\ (\A r \in Readers : reader[r].at = "idle") /\ dtor = "live" =>
    \A c \in Calls :
      /\ promise[c] = "timeout" /\ req[c].kind = "task" /\ req[c].cancelOnTimeout
      /\ req[c].id \in lateTasks /\ senderSet
      => req[c].id \in tasksCancelSent

-----------------------------------------------------------------------------
(* Liveness.                                                               *)

\* A request sent with a positive timeout is resolved even if the peer never answers.
TimedRequestResolves ==
  \A c \in Calls : (pc[c] = "arm") ~> Settled(c)

\* ~Router, once entered, finishes: the join waits for one running timeout handler only.
DestructionCompletes == (dtor = "draining") ~> (dtor = "gone")
=============================================================================
