# A verification of the C++ MCP SDK

TLA+ models of `itcv-GmbH/cpp-mcp-sdk`, the TLC runs that check them on small
instances, and TLAPS proofs of what matters most for every instance. Paths such
as `router.cpp:646` are relative to the directories of `src/src/`;
`spec/...` stands for `src/.docs/requirements/mcp-spec-2025-11-25/spec/...`.

## The system

The SDK implements the Model Context Protocol: JSON-RPC messages between a
client and a server over stdio or streamable HTTP. Its parts, the state each
keeps and what makes each correct:

| part | source | state | hard behaviour | what makes it correct |
|---|---|---|---|---|
| Router, outbound | `jsonrpc/router.cpp` | in-flight map, token index, ignored ids, pending task cancels, timer per request | response, timeout, failed send and destructor race for one request | every future is resolved once, by the right message; nothing outlives the router |
| Router, inbound | same | active requests by (sender, id), by (sender, token), promises, seen ids, completion pool | handlers finish on a pool while cancellation, progress and the destructor run | no id handled twice, the tables agree, a request that waits is owed an answer |
| Task store and receiver | `util/tasks.cpp` | tasks with status, payload, owner and expiry, waiters on a condition variable | cancellation against completion, expiry under a sleeping waiter, paging over a changing list | outcomes are final, waiters wake and agree |
| Session | `lifecycle/session.cpp` | lifecycle state, role, negotiated version | state change under the lock, send outside it | only legal messages in each state |
| Server | `server/server.cpp`, `server/detail/` | registries of tools, resources, prompts; subscriptions; log level; tool tasks | registries edited during a page walk, tools on detached threads, tasks/result blocks the dispatching thread | a stale listing is announced, subscriptions follow the registry |
| Client | `client/client.cpp` | pending initialize, two worker pools, managed tasks, completion notifications that came early | initialize timeout against its answer, stop from a callback, handlers that ask the peer | each answer is called back, threads joined, no callback after stop |
| HTTP server transport | `transport/http/server.cpp` | sessions, streams, event buffers, pending messages | handlers run with the lock released, DELETE meanwhile, resumption by cursor into a trimmed buffer | a stream replays what it missed, in order, once, to its own session |
| HTTP runner | `server/streamable_http_runner.cpp`, `transport/http/runtime.cpp`, `server/combined_runner.cpp` | one server per session, accept thread | creation and removal of sessions around a request, stop during accept | no session without its server, stop returns |
| HTTP client | `transport/http/client.cpp`, `transport/streamable_http_client_transport.cpp` | session id, last event id, retry time, listen thread | resumption, a dead session, legacy fallback, stop during a poll | events handed over once and in order, stop ends |
| Stdio | `transport/stdio.cpp`, `server/stdio_runner.cpp`, `detail/inbound_loop.cpp` | child process, reader thread, output | one thread reads and answers while others write | shutdown ladder ends, the loop comes back to its input |
| Authorization | `auth/*.cpp` | discovered metadata, registration, token storage, loopback receiver | redirects, step-up on several threads, waits that time out | credentials stay at their server, every call ends |

They interact by direct calls and callbacks. A runner reads a message from a
transport and calls `Server::handleRequest`, which asks the session whether the
method is legal now and calls `Router::dispatchRequest`; handlers call
`TaskReceiver` and, through `Router::sendRequest`, the transport's sender. On
the client side `Client::sendRequest` asks its session, records a pending
initialize and calls its router; a transport thread brings each answer to
`Client::handleResponse`. The destructor of a router ends what is still pending.
Shared state is guarded by one mutex per object, and nearly all of it is
touched from several threads: the hard questions are what happens between two
lock regions of one operation. `PROJECT.json` lists those places as hazards,
each at its line with the properties that watch it.

## Modules

| module | models | state and actions |
|---|---|---|
| `PendingReplies` | abstract: what `Router::sendRequest` promises | per call: refused, or accepted under a fresh id and resolved once |
| `RouterOutbound` | `sendRequest`, `dispatchResponse`, progress, `handleRequestTimeout`, `~Router` | the tables under `mutex_`, one timer and one promise per call, a program counter per caller, transport thread, timeout worker and destructor; one action per lock region or per call made between two of them |
| `RouterInbound` | `dispatchRequest`, the completion pool, `notifications/cancelled`, `emitProgress`, `~Router` | the tables of `inboundState_`, the queue and threads of the pool, each handler's future |
| `TaskStore` | `InMemoryTaskStore` and the `TaskReceiver` that calls it | tasks, the clock; one action per store operation (each is one lock region, which first drops expired tasks), the observer call and the sleep on the condition variable outside it |
| `Handshake` | `session.cpp`, the handshake part of `client.cpp`, `server.cpp`, `stdio_runner.cpp` | both sessions' state and version, the pending initialize id, a future per call, the client's reader thread, the two pipes |
| `ServerRequests` | the answers of `Server`'s handlers: pages and cursors, tool calls, reads, prompts, completion, log level | pure operators over a request record and the registry |
| `StdioServer` | a server with features behind `StdioServerRunner`: registries, subscriptions, tools with and without tasks, tasks/result, and a client that lists | the runner's loop, the application and the detached thread of a task, each writing a message as text and then newline; the lines the client has not read |
| `ClientRequests` | what the client's handlers of sampling, elicitation, roots and task requests check | pure operators over a request record |
| `StdioClient` | `Client` over a child process: reader, asynchronous pool, callback worker, `stop`, the shutdown ladder of `stdio.cpp` | one program counter per thread, both pools' queues, the child's life, the tasks of the server's requests, the holder of the transport's mutex while a write waits for the child (`writer`); a worker runs a task in the code's five steps: handler, remember, complete, notify, write |
| `HttpRequests` | what the HTTP server reads of a request before it touches state | the first refusal in the order of the checks |
| `EventLog` | abstract: what SSE streams promise a client | logs with one owner that only grow, answers that show what follows a cursor |
| `HttpServer` | `transport/http/server.cpp` | the tables under its mutex; a request that reaches a handler is two steps because the mutex is released around it, everything else is one |
| `HttpRunner` | runner, accept loop of the runtime, combined runner | one server thread, a controlling thread, the listen queue, server instances, the transport reduced to session states |
| `HttpClient` | both client files | threads that send, the listen loop, a controlling thread; an exchange is one step, since a mutex serialises them |
| `OAuthUrls` | URL, address, scope and challenge functions of `auth/` | pure operators; a URL is a record of scheme, host, port and path segments |
| `AuthorizationDiscovery` | `discoverAuthorizationMetadata` | candidates left to probe, the hops of the current GET, both documents |
| `LoopbackReceiver` | `auth/loopback_receiver.cpp` | the expected state, the promise, callbacks |
| `Authorization` | registration, step-up, token exchange and storage, on top of the previous two | a program counter per thread, credentials store, token storage |
| `MC...` | instances for TLC | requests, options, versions, symmetry; `MCStdioClient` and others also compare operators with reference definitions as assumptions |
| `RouterOutboundProofs`, `RouterInboundProofs`, `TaskStoreProofs`, `HandshakeProofs`, `HttpServerProofs`, `AuthorizationProofs` | TLAPS proofs about the module of that name | |
| `RunnerProofs` | TLAPS proofs about the two runners, `HttpRunner` and `StdioServer` | extends both; their formulas have names of their own (`RunnerSpec` and `Spec`) |
| `ClientProofs` | TLAPS proofs about the two client transports, `HttpClient` and `StdioClient` | extends both (`ClientSpec` and `Spec`) |

Composition. `Handshake` sees a router only as the future of each call, which a
response, a timeout or a failed send resolves once: what `PendingReplies`
states and `RouterOutbound` is proved to implement. `StdioServer` and
`StdioClient` use the task store the same way, as outcomes that are set once.
`HttpRunner` uses `HttpServer` reduced to the state of each session.
`Authorization` extends discovery and receiver. `RouterInbound` and
`RouterOutbound` share no state: the code keeps them under different mutexes.

Data is abstracted to what the code compares: an id, a token, a method class,
the presence of a timeout, the order of versions, the outcome of a header
check. Payloads, wording and timestamps are left out.

## Runs

Every run but `http_server` and `authorization` says `CHECK_DEADLOCK FALSE`:
there all calls may have been made and all threads may be idle, which is where
these programs rest.

| run | question | instance and why it is enough |
|---|---|---|
| `router_outbound` | is every future resolved once, with the right message, as `PendingReplies` promises; does no progress token outlive its request in the index; does `~Router` end | 2 calls over 2 ids (so that they may collide), one with a token and a call that becomes a task, one transport thread, 2 progress values, every kind of timeout |
| `router_task_cancel` | violation, see findings | 1 task-augmented call |
| `router_inbound` | is an id handled once, is a waiting caller always owed an answer by somebody who can act, does a request that is over hear at most one late progress notification of each thread that emits | 2 requests of one sender over 2 ids and 1 token, in-flight limit 2, 2 pool threads, an emitter |
| `task_store` | do page walks return what stayed, is an end announced once although the observer is called outside the lock | 2 tasks, 2 workers (so that two mutations race to the observer) and 1 lister, the owner and a caller without context, no ttl, a negative one, zero and the largest, page size 1 so that a walk has several pages |
| `task_live` | is tasks/result answered, with the final outcome | 2 tasks, 1 worker, 1 waiter; spurious wake-ups happen but are not relied on |
| `handshake` | do both ends agree, does the client wait for what it adopts, does the handshake end | 2 initialize calls (the smallest number that mistakes one for the other), the first may time out, 1 ping, 1 feature request, 3 versions of which each end supports 2, 1 server notification, `Client::stop` at any time |
| `http_server` | is an accepted message in one place and in order; do answers stay in their session, replays skip nothing silently; does what a session was sent before DELETE stay deleted, in its queue, its legacy buffer and its streams; do streams refine `EventLog` | 1 session beside requests without one, 2 threads, at most 2 streams and handlers together (`MaxWork`), 2 messages, buffers of 1 and 2 (so that they overflow), 2 option sets, cursors modulo 8 for the wrap of `cursor + 1`, one stream that may age, an application that expires sessions and makes them active again, one request for every refusal |
| `http_runner` | do only running servers handle messages, do servers match sessions, does `stop` return | 2 sessions, 3 server instances, 2 connections in the queue, 2 starts |
| `http_client` | are events handed over once and in order across polls, reopened streams, restarts and sessions; does `stop` leave nothing behind and end | 1 sender with 3 sends, 2 sessions, 2 messages in each, 1 retry, 2 starts |
| `authorization` | do the discovered documents belong together, do credentials stay at the server they are for, does a step-up keep the scopes granted before, does every call end | 2 threads, one interactive, 2 waits, 2 browser callbacks, 2 step-up attempts, 3 scopes, grants of two and of all three of them |
| `stdio_server` | do subscriptions follow the registry, is a stale listing announced, does the loop come back to its input | pages of 2 over 3 items, 1 unread line, 2 client calls, 1 edit of the application, tools that ask with a timeout |
| `stdio_client` | does a completion reach its handler, whether the reader or a worker tells the server of the acceptance; is nothing called back after `stop`; does `stop` return but for two named reservations; is a call with a timeout called back | behaviours with timeouts and behaviours without; 1 call, 1 pool worker, two conversations of the server (a URL elicitation as a task with its tasks/result; a direct URL elicitation), 1 completion for each, writes that block while the child does not read, a child that needs SIGKILL, a callback that may call `stop` and a handler that may ask |

Bounds that do not come from the code are named in the modules with the words
"bounds the model" or "bound". Calls, requests, starts and waits are counted,
so all state spaces are finite without constraints. `task_store` and
`http_server` use symmetry over tasks and threads; both check safety only.

### Fairness

* `RouterOutbound`: threads inside the router go on, timers that have been
  started expire, handlers of the timer run, and `~Router`, once entered, goes
  on. Lock regions are short and one worker serves the timers. It assumes that
  senders and progress callbacks return. Nothing is assumed of peers.
* `RouterInbound`: none. `WaitingIsOwed` says instead, state by state, who is
  to answer; a handler that hangs for ever is one of its cases.
* `TaskStore`: time passes and a waiter that is awake or past its deadline gets
  the mutex. No worker has to act, and no wake-up is spurious by obligation.
* `Handshake`: callers inside `sendRequest`, the reader, the runner, and a
  `stop` that has begun go on. Nothing has to time out, be called or stop.
* `HttpRunner`: the server thread, a start or stop that has begun, and
  connections that were accepted send their request or go away. The last is an
  assumption on clients that the code needs: it has no read timeout.
* `HttpClient`: exchanges end (the executor has timeouts) and threads go on.
* `Authorization`: exchanges, waits and flows that have begun end. Nothing is
  assumed of the browser.
* `StdioServer`: threads that can run do, and the client reads its pipe.
* `StdioClient`: one condition for each thread: threads that can run do, handlers
  and callbacks return. Timeouts pass in the behaviours that have them, a process exits
  at a signal it does not ignore, and its end fails the writes to it (the application
  has to ignore SIGPIPE, which nothing in `src/` handles). The child need not read,
  answer or ask; the two liveness properties say in their premise, `WritesEnd`, that no
  write waits for it for good.

## Proofs

TLAPS proves for all values of the constants (any number of calls, threads, ids,
tasks, versions; any limit):

* `RouterOutboundProofs`: type correctness; the invariant `Inv`, whose parts
  say that the map holds a call only under its own id and only while its future
  is open (`MapInv`), that ids in use have been seen (`SeenInv`), that an
  accepted call is in the map, or held by one thread, or resolved (`OneHolder`),
  and where the destructor stands (`DestructorInv`). None of `OneHolder`,
  `IdAcceptedOnce`, `ResponseReachesItsRequest` is inductive alone: a response
  finds the right call only because the map is right, and the map is right only
  because a popped call is held by nobody else. From `Inv` follow that no future
  outlives the router, that the token index is exact, that the in-flight limit
  holds, and that every step of the router is a step of `PendingReplies` or a
  stutter. `TimeoutInv` adds what a timeout worker has done so far: an id is
  ignored, and a cancellation sent, only for a call that timed out.
  For any number of transport threads, `ProgressInv` says that the values in their hands
  are recorded, not yet shown and all different, so a callback never gets one value
  twice (`ProgressShownOnce`). That values increase, or that calls are serial as
  `router.hpp:68` promises, does not follow with two threads, see the findings.
* `RouterInboundProofs`: type correctness; `Inv` joins the agreement of the
  three tables with who has claimed an id, who holds a promise and which
  requests are active. From it: an id is handled once, an answered request
  is in no table, the active limit holds. The counting argument uses that a
  request enters only by an insertion tested in the same lock region. `PoolInv`
  (each pool thread and the queue hold a request once) and `DebtInv` (for each
  promise not yet kept there is somebody who will answer or a handler that may)
  carry `WaitingIsOwed`. `LateInv` carries `LateProgressOnce`: `emitProgress` tests under
  the lock and sends after it (`router.cpp:819`, `833`), so a thread that tested before
  the request was over may send after; what bounds it is that a request once cancelled,
  answered or taken by `~Router` stays so (`OverStays`), and the next test fails.
* `TaskStoreProofs`: type correctness; terminal tasks are final; the active
  limit per context; the end of a task is announced once (`EndInv`: the worker
  about to announce is the only one that ended the task, since the store refuses
  the second); tasks/result hands out the final outcome (`ResultInv`); a walk
  over the pages of tasks/list misses no task that stayed (`ListingInv`: tasks
  created during the walk stand behind those it began with, `PrefixInv`, so as
  long as none of those is gone the cursor counts exactly the ones already
  shown, `SeenInv`).
* `HandshakeProofs`: type correctness; one announcement (`Announcements`: the
  states from which it may be written are left for good before anybody writes);
  agreement on the version (`Negotiation`: the server negotiates once, so every
  success that is in a pipe, in the reader's hands or in a future names the
  version of the server's session, however late it is); the server's silence
  before the announcement (`Waits`). `NegotiatesOnce` ties
  `pendingInitializeRequestId_` to the one call the server negotiates with: the
  session waits for that call, or its caller has given up. From it follow that a
  caller which adopts another call's answer adopts a refusal, and that a ready
  success means an operating session. The module also holds the statement about
  `ClientRequests`: for a conversation of any length, the client's loop over tool
  uses and results accepts exactly those that pair up, although it compares ids
  only when it looks back (`client.cpp:880`).
* `RunnerProofs`, on `HttpRunner`: for any number of sessions, instances and starts, a server
  instance handles messages only while it is live, and the runner's maps match
  the transport's sessions. `RunnerThreadInv` says that the server thread is gone when
  the instances are stopped and when the next thread starts; `MapsInv`,
  `HandlingInv` and `NoneForgotten` say that every running instance is in a map
  or in the hands of the one message being handled, which is why the failure
  paths between creating an instance and storing it leave none behind.
* `ClientProofs`, on `HttpClient`: for any number of senders, sessions, messages and
  restarts, the listen loop hands each message of a session over once and in
  order, and a stopped transport has no loop. `CursorInv` follows the last event
  id through the two places where the client gives its mutex back: the cursor is
  that of the last message written to the stream, except between the exchange of
  a poll and the write of its cursor, and what is remembered meanwhile is of the
  same session or forgotten. `HandedInv` then says that what was handed over
  ends where the messages in the loop's hands begin.
* `RunnerProofs`, on `StdioServer`: for any registry, page size, capabilities,
  edits and calls (the client has one request under way at a time),
  `StdioServerInv`. Its first half is about the wire: `Single` says that at most one
  answer is on its way and only the loop sends it, `RequestInv` that the client's one
  request is in the pipe, with the loop, or answered, `ServingInv` that only a tool or a
  tasks/result holds the loop. So an answer the client reads is the one to its call, and
  nothing of the session happened before `initialized`. `SubscriptionInv` then gives
  `SubscriptionsAgree`: a success on its way to a subscription names a URI that
  is in the table or was dropped with its resource, and a client that unsubscribes has
  given up its claim before the server acts. `ListingInv` gives
  `StaleListingIsAnnounced`: while nothing has been announced or is to be, the
  registry is what it was when the listing began, and what the client has seen is the
  first part of it, as far as the cursor it will send (`PageFollows`, by the
  arithmetic of pages). An edit cannot break this silently: its thread holds it until the
  notification is queued, and the queue, the half-written line and the unread
  lines keep it until the client hears it; only a torn line loses it, and a server
  without the `listChanged` capability never sends it (`server.cpp:412`).
* `ClientProofs`, on `StdioClient`: for any number of calls, requests and pool workers.
  `ToldInv` says that an accepted URL elicitation is remembered from before the server can
  know of it until its completion is handed over: the reader remembers before it answers,
  a worker before it completes the task that a tasks/result of another thread reports. What
  the server was told (`told`) is read off the answers and the task's outcome, not off the
  set that remembers. A completion in the pipe follows such an acceptance; so
  `CompletionReachesHandler`. `StopInv` has one part for each phase of `stop`: the
  pool closed, its queue empty, its workers idle, the callbacks' queue empty, the
  callback returned. Each phase keeps what the earlier ones reached because nothing can be
  posted to a pool that is closed and no phase begins before the threads of the one before
  were joined; the last gives `NoCallbackAfterStop`.
* `HttpServerProofs`: for any sessions, threads, handlers, buffer limits above
  zero and any number of streams, the invariant `KnownInv`. `StreamsInv` says that
  a stream's buffer is the last part of what was ever put on it, under the cursors
  that count it, and that all of it is of the stream's session; `QueuesInv` and
  `BuffersInv` say the like of the queues and the legacy buffers, `PlacesInv` that
  a message is in one place and a queued one is not lost, `ErasedInv` what DELETE
  may take, `AnswerInv` that an answer shows what its stream or buffer holds. None
  of the four invariants of the run is inductive alone: an answer stays in its
  session because the stream it reads does, and that needs the queue that was
  emptied into the stream to have held messages of the same session. From the
  invariant follow the four, `DeletedStaysDeleted` with two parts of its own:
  `ForgottenInv` (what a deleted session had been sent is in no queue or buffer, and the
  streams that have it are closed, which they stay) and `ReopenedInv` (an answer shows it
  only when the application made the session active again); so does the refinement of
  `EventLog`: a step opens one log (`StreamOpened`), or adds at the end of open ones (`LogsGoOn`), and the
  answer to a resumption is what follows the cursor in the untrimmed log
  (`ReplayIsExact`), since a cursor before the window is refused. That the loops
  with a test (`Kept`) return the right elements is proved by induction on a set
  of numbers.
* `AuthorizationProofs`: for any documents, answers of servers, threads, waits and
  callbacks, what discovery found belongs together (`DiscoveryInv`); with
  `requireSameOriginRedirects` (the default, `oauth_http_security_policy.hpp:11`) the token
  request stays at the origin of the discovered endpoint; a step-up that got what it asked
  for loses no scope of the stored token unless another call has saved meanwhile
  (`StepUpKeepsScopes`; `KeptInv` says that a call nobody has overtaken holds the stored
  token and asks for at least its scopes, through every round and from call to call);
  the loopback receiver hands out one code per start (`ReceiverInv`).

Some proved statements are in no run: `TypeOK`, `OneHolder`, `TokenIndexExact`,
`DestroyedMeansResolved`, `IdAcceptedOnce`, `InFlightWithinLimit`,
`IgnoredMeansTimedOut`, `CancelledMeansTimedOut`, `InboundTablesAgree`,
`AnsweredMeansInactive`, `ActiveWithinLimit`, `TerminalIsFinal`,
`AnnouncedOnce`, `ServerWaitsForClient`, `NegotiatesOnce`, `ProgressShownOnce`, `KnownInv`. A proof for
every instance makes a run of them superfluous.

The assumptions are the named `ASSUME`s of the modules: the "none" values are
not among the values they stand beside, limits are natural numbers, the sets
whose members are counted are finite, a non-empty list of server versions has
a latest one, each request of the stdio server to its client has an id of its own
(`spec/basic/index.md:52`), each registry is a sequence of its entries, and the calls of the
stdio client other than its page walks ask for no list. TLC evaluates them on every run.

Only model-checked: all liveness properties, since fairness and `ENABLED` are
outside the prover's reach (`TimedRequestResolves`, `DestructionCompletes`,
`EndedTaskAnswersWaiters`, `TtlEndsWait`, `InitializingEnds`, `StopReturns`,
`StopEnds`, `EveryCallEnds`, `LoopReadsOn`, `AnswersAreCalledBack`). Every
invariant, every action property and both refinements that the runs check are proved. The
library's theorems about recursive definitions take an operator as a
parameter, which the provers cannot instantiate; the one recursive function a
proof needs, `Kept`, is handled with the well-foundedness of the numbers and sets.

## Findings

`router_task_cancel` shows the code do something else than the repository says;
`PROJECT.json` quotes the lines. A timed-out task-augmented request resolves its
future before it records the pending `tasks/cancel` (`router.cpp:661`-`672`); a
task id that arrives in between is dropped and the task is never cancelled.

Observed while reading or modelling, and not claimed by a run. Where a model
contains the behaviour, its properties are stated so that they hold with it.

Router, tasks, handshake:

* The progress token of a task-augmented request is erased with its
  `CreateTaskResult` (`router.cpp:920`), although
  `spec/basic/utilities/progress.md:73` keeps it for the life of the task.
* The session operates before `notifications/initialized` is written
  (`session.cpp:450`); a feature request of another thread may overtake it, and
  the server refuses it.
* Two threads that dispatch run one progress callback at once and may show its values in
  either order, though `router.hpp:68` promises serial calls per token. A client over HTTP has
  two such threads, the one that sends and the listen loop
  (`streamable_http_client_transport.cpp:148`); a client over stdio has one.
  `ProgressShownOnce` is what remains true.
* `emitProgress` sends after it let go of the lock (`router.cpp:832`): its sends are not
  ordered, and one progress notification of each thread may follow the cancellation or
  the answer of its request.
* As many hanging handlers as the pool has threads stop every other answer of
  the router (`router.cpp:443`).
* The cursor of `tasks/list` is an index into a list computed anew. When earlier
  tasks expire between two pages, a walk may skip others; `ListingComplete` says
  what remains true.
* The status observer runs after the store's mutex is released: notifications of
  earlier statuses may follow the one of the end.
* `Client::sendRequest` takes any pending initialize for its own when its future
  is ready (`client.cpp:2380`) and may adopt the refused answer of the first
  while the second is pending. It never adopts one the session would accept.
* A server that has answered initialize never returns to its first state: a
  retry on the same connection is always refused.
* If the write of `notifications/initialized` fails, the exception leaves
  `handleResponse` before `dispatchResponse`, and the future of `initialize` is
  resolved only by its timeout, if it has one.
* An error answer to `initialize` resolves the future before the session returns
  to its first state (`client.cpp:2516`): an immediate retry may be refused.

Server and client over stdio:

* A stale or malformed cursor of a list is refused with an unknown id, and so is
  a request that fails its schema (`list_handler_helpers.cpp:78`); the caller's
  request is answered only by its timeout (`spec/basic/index.md:93`).
* Two threads' texts may share a line of standard output (no mutex;
  `spec/basic/transports.md:32`). The model has such lines (`torn`), and
  `StaleListingIsAnnounced` excepts them.
* `stop()` of the runner takes effect only after the next line. tasks/result and
  tools called without a task block the loop; a request such a tool sends without a
  timeout (the default) is then never answered.
* Registrations before `initialized` are not announced. `Server::paginateList`
  duplicates `applyPagination`.
* Sampling and elicitation handlers run on a pool worker and on the reader at
  once, though `client.hpp:94`-`105` says serially (`client.cpp:1493`).
* `client.hpp:82` documents `stop()` without reservation; it has two, which
  `StopReturns` names. Without a ttl, `stop()` drops the queued work of a task
  (`client.cpp:2312`), the tasks/result about it holds the reader for ever and `stop()` joins
  the reader; so does a handler on the reader that asks the server without a timeout. And when a write
  waits, under the transport's mutex, for a child that does not read, `stop()` waits for it
  before it has closed the input, waited or signalled (`stdio.cpp:487`).
* A request without a timeout that is never answered occupies its worker of the
  asynchronous pool for ever; requests pending at the end of the child's output are
  resolved only by their timeout.
* A child that exited is reaped only when the client is destroyed, and
  `start()` afterwards assigns an object whose thread is still joinable. A
  restart after `stop()` has no pools, and `sendRequestAsync` after it never
  calls back. A second `stop()` returns before the first is done. `stop()` on an
  asynchronous worker throws; on the reader it cannot join itself.
* Oversize lines are dropped without an error.

HTTP:

* With `maxSseBufferedMessages` 0 a resumption is never refused and events are
  lost; the models assume a positive limit.
* A message too large for a stream is accepted into the queue and dropped when a
  stream empties it (`transport/http/server.cpp:1061`); a POST's own
  answer loses what exceeds the buffer.
* A response the application enqueues goes to the oldest open POST stream of the
  session, whatever request that serves, and closes it (`1609`-`1625`); without
  one it stays queued though a GET stream is open.
* An initialize answered with SSE creates its stream under the session of the
  header, not the generated one (`1316`). A message enqueued after DELETE
  recreates the queue (`1627`), and a POST that is in its handler across DELETE still
  shows and stores what its handler returns; `DeletedStaysDeleted` is about what was
  sent before. A legacy initialize may be refused as too large after its session was created (`1388`). Streams are never erased.
* The runner drops the server of an active session after a 404 for an unknown
  stream or a refused DELETE (`docs/api_overview.md:64`). A thread that ended by
  an exception leaves the runner "running". An idle client, or an address that
  loopback does not reach, blocks `stop`. `getOrCreateServer` is never called.
* The client forgets a live session on a stale 404 (`transport/http/client.cpp:1066`).
  The listen loop is not restarted after a second initialize on one transport.
  Messages collected before a failed resumption are lost. Requests of the server
  inside a POST's stream are handed over only after its response. The
  error reporter was moved from when the listen loop needs it. `stop()`
  terminates a session only when a listen stream is active.

Authorization:

* A wait after one that timed out may return the code that belongs to the earlier
  state (`loopback_receiver.cpp:335`); `OneExpectedCodePerStart` says what
  holds. A malformed callback before any wait ends the flow. `stop()` wakes
  nobody.
* A path-based metadata URL that answers 401 or 500 ends discovery instead of
  moving on to the root; only the first https issuer is tried; one candidate
  that breaks the redirect policy ends all. A written default port is another
  origin.
* Two dynamic registrations at once both POST and the last save wins
  (`client_registration.cpp:490`); so do two step-ups, which may leave the token
  with fewer scopes in the storage (`oauth_client.cpp:902`). `StepUpKeepsScopes` excepts a
  call that was overtaken so. One call may ask twice for the same scopes, when the
  challenges name different metadata (`963`).

## Plan

Written: everything in the table of modules. What could come next:

1. A client of `StdioServer` with several requests under way; the wire part of
   `StdioServerInv` (one answer at a time) would become one answer for each id.
2. `stdio_client` with `tasks/cancel` and form elicitations, which
   `ClientRequests` already defines, and with a second pool worker.
3. `HttpServer` and `HttpClient` composed, so that a cursor the client
   remembers is one the server wrote.

## Not modelled

* Text: JSON parsing and serialization, schema validation, SSE framing,
  percent-encoding, PKCE digests, client id metadata documents, logging.
* Capability records beyond the flags a handler asks for; `logging/setLevel` and
  `notifications/message` before `initialized`; custom request handlers; a
  `createTask` that fails inside tools/call.
* TLS, sockets and process calls below the outcomes the code tells apart;
  the HTTP client runtime; random id generation (a fresh value in the models).
* The deprecated instance methods of `StdioTransport` and the client's parsing
  of list results.
