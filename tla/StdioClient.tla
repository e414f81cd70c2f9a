------------------------------ MODULE StdioClient ------------------------------
(***************************************************************************)
(* mcp::client::Client over a server it runs as a child process             *)
(* (client/client.cpp, transport/stdio.cpp, detail/inbound_loop.cpp).       *)
(* Four kinds of threads share the client: the application's, the reader of *)
(* the child's standard output, which runs the handlers of the server's     *)
(* requests, the workers of the asynchronous pool, which poll the futures   *)
(* of asynchronous calls and run task-augmented handlers, and the one       *)
(* worker that calls back the application.  The child answers, asks,        *)
(* crashes, leaves its input unread, and exits at the end of its input, at  *)
(* SIGTERM or at SIGKILL.                                                   *)
(***************************************************************************)
EXTENDS ClientRequests, FiniteSets

CONSTANTS
    Calls,            \* asynchronous calls of the application
    Requests,         \* requests of the server, each with an id of its own
    FormResults,      \* [action, content] that the form handler may return
    Workers,          \* threads of the asynchronous pool
    Timeouts,         \* whether requests may have a timeout and tasks a time to live
    CallbackMayStop,  \* whether a callback may call stop()
    HandlerMayAsk,    \* whether a handler may send a request and wait for the answer
    Manners,          \* what ends a child: "eof", "term" or "kill"
    PipeLines,        \* lines of standard output the reader may be behind
    Conversations,    \* sets of ids: what the server may ask of one client
    MaxCompletions    \* completions of elicitations it sends

ASSUME StdioClientAssumption ==
    /\ "none" \notin Calls /\ IsFiniteSet(Workers) /\ Workers # {} /\ {"none", "app", "reader"} \cap Workers = {}
    /\ \A r, s \in Requests : r.id = s.id => r = s
    /\ Timeouts \subseteq BOOLEAN /\ Manners \subseteq {"eof", "term", "kill"} /\ PipeLines \in Nat /\ MaxCompletions \in Nat

VARIABLES
    child,            \* "unborn", "alive" or "dead"
    manners,          \* the least that makes it exit
    timeouts,         \* whether this application and this server give times
    signal,           \* the last signal sent to it
    stdinClosed,      \* the client has closed its standard input
    pipe,             \* lines of its standard output
    asked,            \* requests it has sent
    completions       \* completions it has sent

VARIABLES
    running,          \* running_ of the transport
    writer,           \* who holds its mutex in a write that the child has yet to read
    reader,           \* the thread of readerLoop_
    session,          \* "operating" or "stopped"
    pending,          \* pendingUrlElicitationIds_
    told,             \* elicitations the server was told are accepted
    completed,        \* completions handed to the application, per elicitation
    ignored           \* completions that came after the acceptance and were dropped

VARIABLES
    asyncPool,        \* "open", "taken", "stopped" or "joined"
    jobs,             \* work posted to it
    worker,           \* what each of its threads runs
    task,             \* status of the task of each request that made one
    callbackPool,     \* the same of the callback pool, or "returned"
    callbacks,        \* calls to call back
    callback,         \* the call whose callback runs
    calls,            \* state of each asynchronous call
    posting,          \* the call the application has sent and not yet posted
    stop              \* where the stop() of each thread is

habits == << manners, timeouts >>
childVars == << child, habits, signal, stdinClosed >>
wireVars == << pipe, asked, completions >>
handlerVars == << pending, told, completed, ignored >>
asyncVars == << asyncPool, jobs, worker >>
callbackVars == << callbackPool, callbacks, callback >>
appVars == << calls, posting >>
vars == << childVars, wireVars, running, writer, reader, session, handlerVars, asyncVars, task, callbackVars, appVars, stop >>

Ids == {r.id : r \in Requests}
RequestOf(id) == CHOOSE r \in Requests : r.id = id
Unset == "none"
Ended == {"completed", "accepted", "cancelled"}
Line(kind, of, late) == [kind |-> kind, of |-> of, late |-> late]
Reader(at, of, answer) == [at |-> at, of |-> of, answer |-> answer]
Job(kind, of) == [kind |-> kind, of |-> of]
NoJob == Job("none", Unset)

Init ==
    /\ child = "unborn" /\ manners \in Manners /\ timeouts \in Timeouts /\ signal = "none" /\ stdinClosed = FALSE
    /\ pipe = << >> /\ asked = {} /\ completions = 0
    /\ running = FALSE /\ writer = "none" /\ reader = Reader("none", Unset, Unset) /\ session = "operating"
    /\ pending = {} /\ told = {} /\ completed = [i \in Ids |-> 0] /\ ignored = {}
    /\ asyncPool = "open" /\ jobs = << >> /\ worker = [w \in Workers |-> NoJob]
    /\ task = [i \in Ids |-> "none"]
    /\ callbackPool = "open" /\ callbacks = << >> /\ callback = Unset
    /\ calls = [c \in Calls |-> "new"] /\ posting = Unset
    /\ stop = [t \in {"app", "callback"} |-> "none"]

-----------------------------------------------------------------------------
(* The child process. *)

WritesLine(line) ==
    /\ child = "alive" /\ Len(pipe) < PipeLines
    /\ pipe' = Append(pipe, line)
    /\ UNCHANGED << childVars, running, writer, reader, session, handlerVars, asyncVars, task, callbackVars, appVars, stop >>

\* It answers what it has read.
ServerAnswers(c) ==
    /\ calls[c] = "waiting" /\ ~(writer = "app" /\ posting = c) /\ WritesLine(Line("answer", c, FALSE))
    /\ \A i \in DOMAIN pipe : pipe[i].of # c
    /\ UNCHANGED << asked, completions >>

ServerWritesJunk ==
    /\ WritesLine(Line("junk", Unset, FALSE))
    /\ UNCHANGED << asked, completions >>

\* No two requests of a session have the same id, and a task is asked about once it exists.
ServerAsks(r) ==
    /\ r.id \notin asked /\ (\E ids \in Conversations : asked \cup {r.id} \subseteq ids) /\ WritesLine(Line("request", r.id, FALSE))
    /\ r.method \in {"tasks/result", "tasks/cancel"} => task[r.about] # "none"
    /\ asked' = asked \cup {r.id} /\ UNCHANGED completions

\* Only the elicitation of a URL has an id that a completion can name.
ServerCompletes(r) ==
    /\ r.method = "elicitation/create" /\ r.mode = "url" /\ r.id \in asked
    /\ completions < MaxCompletions /\ WritesLine(Line("complete", r.id, r.id \in told))
    /\ completions' = completions + 1 /\ UNCHANGED asked

\* A child that is told to exit may take any time; one that is not may crash.
ChildExits ==
    /\ child = "alive"
    /\ child' = "dead"
    /\ UNCHANGED << habits, signal, stdinClosed, wireVars, running, writer, reader, session, handlerVars, asyncVars, task, callbackVars, appVars, stop >>

MustExit ==
    \/ signal = "kill" \/ (signal = "term" /\ manners # "kill") \/ (stdinClosed /\ manners = "eof")

-----------------------------------------------------------------------------
(* The reader. *)

ReaderStep == UNCHANGED << childVars, writer, session, callbackVars, posting, stop >>

\* The top of the loop looks at the flag that stop() and the end of input clear.
ReaderChecks ==
    /\ reader.at = "top"
    /\ reader' = Reader(IF running THEN "reading" ELSE "ended", Unset, Unset)
    /\ UNCHANGED << wireVars, running, handlerVars, asyncVars, task, calls >> /\ ReaderStep

ReaderSeesEnd ==
    /\ reader.at = "reading" /\ pipe = << >> /\ child = "dead"
    /\ running' = FALSE
    /\ reader' = Reader("ended", Unset, Unset)
    /\ UNCHANGED << wireVars, handlerVars, asyncVars, task, calls >> /\ ReaderStep

Takes(kind) ==
    /\ reader.at = "reading" /\ pipe # << >> /\ Head(pipe).kind = kind
    /\ pipe' = Tail(pipe)
    /\ UNCHANGED << asked, completions, running >> /\ ReaderStep
BackToTop == reader' = Reader("top", Unset, Unset)

\* Empty, oversize and unparsable lines are dropped, the last two without an answer.
ReaderDropsJunk ==
    /\ Takes("junk") /\ BackToTop
    /\ UNCHANGED << handlerVars, asyncVars, task, calls >>

\* handleResponse: a call that has ended already is unknown.
ReaderTakesAnswer ==
    /\ Takes("answer") /\ BackToTop
    /\ LET c == Head(pipe).of IN
         calls' = [calls EXCEPT ![c] = IF @ = "waiting" THEN "resolved" ELSE @]
    /\ UNCHANGED << handlerVars, asyncVars, task >>

\* The id leaves the set under the lock, then the handler is called.
ReaderTakesCompletion ==
    /\ Takes("complete") /\ BackToTop
    /\ LET id == Head(pipe).of IN
         /\ pending' = pending \ {id}
         /\ IF id \in pending
            THEN completed' = [completed EXCEPT ![id] = @ + 1] /\ UNCHANGED ignored
            ELSE /\ UNCHANGED completed
                 /\ ignored' = IF Head(pipe).late /\ completed[id] = 0 THEN ignored \cup {id} ELSE ignored
    /\ UNCHANGED << told, asyncVars, task, calls >>

\* postManagedTask.
Posts(job) == jobs' = IF asyncPool = "open" THEN Append(jobs, job) ELSE jobs

\* createTask, and cancelTask when the client is stopping and no worker can have it.
StartsTask(id) ==
    /\ Posts(Job("task", id))
    /\ task' = [task EXCEPT ![id] = IF asyncPool = "open" THEN "working" ELSE "cancelled"]

\* The router calls the handler: it refuses, hands the work to a worker and answers with
\* the task, waits for a task, or runs the application's handler on this thread.
ReaderTakesRequest ==
    /\ Takes("request")
    /\ LET r == RequestOf(Head(pipe).of)
           does == Disposition(r)
       IN CASE does = "handler" ->
                 reader' = Reader("handling", r.id, Unset) /\ UNCHANGED << jobs, task >>
            [] does = "task" -> StartsTask(r.id) /\ reader' = Reader("answering", r.id, "task")
            [] does = "tasks/cancel" ->
                 /\ task' = [task EXCEPT ![r.about] = IF @ = "working" THEN "cancelled" ELSE @]
                 /\ reader' = Reader("answering", r.id, does) /\ UNCHANGED jobs
            [] does = "tasks/result" ->
                 reader' = Reader("awaiting", r.id, Unset) /\ UNCHANGED << jobs, task >>
            [] OTHER ->
                 reader' = Reader("answering", r.id, does) /\ UNCHANGED << jobs, task >>
    /\ UNCHANGED << handlerVars, asyncPool, worker, calls >>

\* A handler that waits for the answer to a request of its own on the thread that reads
\* the answers: only its timeout ends the wait.
HandlerAsks ==
    /\ HandlerMayAsk /\ reader.at = "handling" /\ running
    /\ reader' = [reader EXCEPT !.at = "asking"]
    /\ UNCHANGED << wireVars, running, handlerVars, asyncVars, task, calls >> /\ ReaderStep

HandlerAskEnds ==
    /\ reader.at = "asking" /\ timeouts
    /\ reader' = Reader("answering", reader.of, "internalError")
    /\ UNCHANGED << wireVars, running, handlerVars, asyncVars, task, calls >> /\ ReaderStep

\* What the application's handler returns, or "throws", and what becomes of it.
Outcomes(r) ==
    CASE r.method = "sampling/createMessage" -> {"result", "internalError"}
      [] r.mode = "url" -> {"accept", "decline", "internalError"}
      [] OTHER -> {IF ValidFormResult(f.action, f.content) THEN f.action ELSE "internalError" : f \in FormResults}

\* An accepted URL is remembered before its answer is on its way.
Remembers(id, outcome) ==
    pending' = IF outcome = "accept" /\ RequestOf(id).mode = "url" THEN pending \cup {id} ELSE pending

HandlerReturns ==
    /\ reader.at = "handling"
    /\ \E outcome \in Outcomes(RequestOf(reader.of)) :
        /\ Remembers(reader.of, outcome)
        /\ reader' = Reader("answering", reader.of, outcome)
    /\ UNCHANGED << wireVars, running, told, completed, ignored, asyncVars, task, calls >> /\ ReaderStep

\* tasks/result holds the reader until the task has ended or outlived its time to live.
\* A task that a worker completed answers with the response of its handler.
AwaitEnds ==
    /\ reader.at = "awaiting"
    /\ LET about == RequestOf(reader.of).about IN
         \/ task[about] \in Ended /\ reader' = [reader EXCEPT !.at = "answering"]
         \/ timeouts /\ task[about] = "working" /\ reader' = Reader("answering", reader.of, "invalidParams")
    /\ UNCHANGED << wireVars, running, handlerVars, asyncVars, task, calls >> /\ ReaderStep

\* The elicitation whose acceptance the answer of the reader tells, if any: its own, or
\* the one that the task it reports has ended with.
Tells(id, answer) ==
    CASE answer = "accept" -> {id}
      [] answer = Unset -> {of \in Ids : of = RequestOf(id).about /\ task[of] = "accepted"}
      [] OTHER -> {}

\* dispatchOutboundMessage throws unless the transport runs, and the loop goes on.  send()
\* holds the transport's mutex while it writes, for as long as the child leaves a full
\* pipe unread.
ReaderAnswers ==
    /\ reader.at = "answering" /\ (running => writer = "none")
    /\ \/ /\ told' = IF running /\ child = "alive" THEN told \cup Tells(reader.of, reader.answer) ELSE told
          /\ BackToTop /\ UNCHANGED writer
       \/ /\ running /\ child = "alive"
          /\ writer' = "reader" /\ reader' = [reader EXCEPT !.at = "writing"] /\ UNCHANGED told
    /\ UNCHANGED << childVars, session, callbackVars, posting, stop >>
    /\ UNCHANGED << wireVars, running, pending, completed, ignored, asyncVars, task, calls >>

\* The child reads, or its end fails the write.
ReaderWrites ==
    /\ reader.at = "writing"
    /\ writer' = "none" /\ BackToTop
    /\ told' = IF child = "alive" THEN told \cup Tells(reader.of, reader.answer) ELSE told
    /\ UNCHANGED << childVars, session, callbackVars, posting, stop >>
    /\ UNCHANGED << wireVars, running, pending, completed, ignored, asyncVars, task, calls >>

-----------------------------------------------------------------------------
(* The asynchronous pool. *)

WorkerKeeps == UNCHANGED << childVars, wireVars, running, reader, session, told, completed, ignored, asyncPool, callbackPool, callback, posting, stop >>
WorkerStep == UNCHANGED writer /\ WorkerKeeps

WorkerTakes(w) ==
    /\ worker[w] = NoJob /\ jobs # << >> /\ asyncPool \in {"open", "taken"}
    /\ worker' = [worker EXCEPT ![w] = Head(jobs)]
    /\ jobs' = Tail(jobs)
    /\ UNCHANGED << task, pending, callbacks, calls >> /\ WorkerStep

\* Mutant of PollFindsAnswer: a poll looks only while the transport runs.
PollNeedsAnswer(w) ==
    /\ worker[w].kind = "poll" /\ asyncPool = "open" /\ calls[worker[w].of] = "resolved" /\ running
    /\ callbacks' = IF callbackPool = "open" THEN Append(callbacks, worker[w].of) ELSE callbacks
    /\ worker' = [worker EXCEPT ![w] = NoJob]
    /\ UNCHANGED << jobs, task, pending, calls >> /\ WorkerStep

\* The poll of sendRequestAsync: every 10 ms, while the flag is set.
PollFindsAnswer(w) ==
    /\ worker[w].kind = "poll" /\ asyncPool = "open" /\ calls[worker[w].of] = "resolved"
    /\ callbacks' = IF callbackPool = "open" THEN Append(callbacks, worker[w].of) ELSE callbacks
    /\ worker' = [worker EXCEPT ![w] = NoJob]
    /\ UNCHANGED << jobs, task, pending, calls >> /\ WorkerStep

PollGivesUp(w) ==
    /\ worker[w].kind = "poll" /\ asyncPool # "open"
    /\ worker' = [worker EXCEPT ![w] = NoJob]
    /\ UNCHANGED << jobs, task, pending, callbacks, calls >> /\ WorkerStep

\* The handler of a task.  An elicitation is checked only here.
TaskHandlerReturns(w) ==
    /\ worker[w].kind = "task"
    /\ LET r == RequestOf(worker[w].of) IN
        \E outcome \in (IF r.method = "elicitation/create" /\ ElicitationCheck(r) # "handler"
                        THEN {ElicitationCheck(r)} ELSE Outcomes(r)) :
          worker' = [worker EXCEPT ![w] = Job(IF outcome = "accept" THEN "accepted" ELSE "answered", r.id)]
    /\ UNCHANGED << jobs, task, pending, callbacks, calls >> /\ WorkerStep

\* The handler of the request remembers before it returns to the worker.
TaskRemembers(w) ==
    /\ worker[w].kind = "accepted"
    /\ Remembers(worker[w].of, "accept")
    /\ worker' = [worker EXCEPT ![w] = Job("remembered", worker[w].of)]
    /\ UNCHANGED << jobs, task, callbacks, calls >> /\ WorkerStep

\* Mutant of TaskCompletes: an acceptance completes the task before it is remembered.
TaskCompletesFirst(w) ==
    /\ worker[w].kind \in {"accepted", "remembered", "answered"}
    /\ LET id == worker[w].of IN
        /\ worker[w].kind = "accepted" => task[id] = "working"
        /\ task' = [task EXCEPT ![id] =
             IF @ # "working" THEN @ ELSE IF worker[w].kind = "answered" THEN "completed" ELSE "accepted"]
    /\ worker' = IF worker[w].kind = "accepted" THEN worker ELSE [worker EXCEPT ![w] = NoJob]
    /\ UNCHANGED << jobs, pending, callbacks, calls >> /\ WorkerStep

\* completeTaskWithResponse.  A task that was cancelled refuses, and nobody is told.
TaskCompletes(w) ==
    /\ worker[w].kind \in {"remembered", "answered"}
    /\ LET id == worker[w].of IN
        /\ task' = [task EXCEPT ![id] =
             IF @ # "working" THEN @ ELSE IF worker[w].kind = "remembered" THEN "accepted" ELSE "completed"]
        /\ worker' = [worker EXCEPT ![w] = IF task[id] = "working" THEN Job("notifying", id) ELSE NoJob]
    /\ UNCHANGED << jobs, pending, callbacks, calls >> /\ WorkerStep

\* The status observer sends the new status from this thread, through the same send().
TaskNotifies(w) ==
    /\ worker[w].kind = "notifying" /\ (running => writer = "none")
    /\ \/ worker' = [worker EXCEPT ![w] = NoJob] /\ UNCHANGED writer
       \/ /\ running /\ child = "alive"
          /\ writer' = w /\ worker' = [worker EXCEPT ![w] = Job("writing", worker[w].of)]
    /\ UNCHANGED << jobs, task, pending, callbacks, calls >> /\ WorkerKeeps

WorkerWrites(w) ==
    /\ writer = w
    /\ writer' = "none" /\ worker' = [worker EXCEPT ![w] = NoJob]
    /\ UNCHANGED << jobs, task, pending, callbacks, calls >> /\ WorkerKeeps

-----------------------------------------------------------------------------
(* The callback worker. *)

CallbackStep == UNCHANGED << childVars, wireVars, running, writer, reader, session, handlerVars, asyncVars, task, callbackPool, posting, stop >>

CallbackRuns ==
    /\ callback = Unset /\ callbacks # << >> /\ callbackPool \in {"open", "taken"}
    /\ callback' = Head(callbacks)
    /\ callbacks' = Tail(callbacks)
    /\ calls' = [calls EXCEPT ![Head(callbacks)] = "calledBack"]
    /\ CallbackStep

CallbackReturns ==
    /\ callback # Unset /\ stop["callback"] \in {"none", "returned"}
    /\ callback' = Unset
    /\ UNCHANGED << callbacks, calls >> /\ CallbackStep

-----------------------------------------------------------------------------
(* The application. *)

AppStep == UNCHANGED << childVars, wireVars, handlerVars, asyncPool, worker, task, callbackVars, stop >>
AppIsFree == posting = Unset /\ stop["app"] \in {"none", "returned"}

AppStarts ==
    /\ child = "unborn" /\ AppIsFree /\ stop["app"] = "none"
    /\ child' = "alive" /\ running' = TRUE /\ reader' = Reader("top", Unset, Unset)
    /\ UNCHANGED << habits, signal, stdinClosed, wireVars, writer, session, handlerVars, asyncVars, task, callbackVars, appVars, stop >>

\* sendRequest: the session refuses once it has stopped; a send that fails resolves the
\* future with an error.
AppCalls(c) ==
    /\ child # "unborn" /\ AppIsFree /\ calls[c] = "new" /\ session = "operating" /\ (running => writer = "none")
    /\ calls' = [calls EXCEPT ![c] = IF running /\ child = "alive" THEN "waiting" ELSE "resolved"]
    /\ posting' = c
    /\ writer' \in (IF running /\ child = "alive" THEN {"none", "app"} ELSE {writer})
    /\ UNCHANGED << running, reader, session, jobs >> /\ AppStep

AppWrites ==
    /\ writer = "app"
    /\ writer' = "none"
    /\ calls' = [calls EXCEPT ![posting] = IF child = "dead" THEN "resolved" ELSE @]
    /\ UNCHANGED << posting, running, reader, session, jobs >> /\ AppStep

\* What postManagedTask says is not looked at: the callback is dropped in silence.
AppPosts ==
    /\ posting # Unset /\ writer # "app"
    /\ Posts(Job("poll", posting))
    /\ posting' = Unset
    /\ UNCHANGED << running, writer, reader, session, calls >> /\ AppStep

\* The timer was armed before the request was written.
CallTimesOut(c) ==
    /\ timeouts /\ calls[c] = "waiting"
    /\ calls' = [calls EXCEPT ![c] = "resolved"]
    /\ UNCHANGED << posting, running, writer, reader, session, jobs >> /\ AppStep

-----------------------------------------------------------------------------
(* stop(), on the application's thread or from a callback. *)

StopStep == UNCHANGED << child, habits, wireVars, writer, reader, handlerVars, worker, task, callback, appVars >>
Goes(t, from, to) == stop[t] = from /\ stop' = [stop EXCEPT ![t] = to]

\* Both pools leave the client under the lock, with their flags cleared; a second stop()
\* finds none.
StopTakesPools(t) ==
    /\ Goes(t, "none", IF asyncPool = "open" THEN "asyncStop" ELSE IF callbackPool = "returned" THEN "callbackStop" ELSE "transport")
    /\ IF t = "app" THEN posting = Unset /\ child # "unborn" ELSE CallbackMayStop /\ callback # Unset
    /\ asyncPool' = IF asyncPool = "open" THEN "taken" ELSE asyncPool
    /\ callbackPool' = CASE callbackPool = "open" -> "taken" [] callbackPool = "returned" -> "stopped" [] OTHER -> callbackPool
    /\ UNCHANGED << signal, stdinClosed, running, session, jobs, callbacks >> /\ StopStep

StopStopsAsync(t) ==
    /\ Goes(t, "asyncStop", "asyncJoin")
    /\ asyncPool' = "stopped" /\ jobs' = << >>
    /\ UNCHANGED << signal, stdinClosed, running, session, callbackPool, callbacks >> /\ StopStep

StopJoinsAsync(t) ==
    /\ Goes(t, "asyncJoin", "callbackStop") /\ \A w \in Workers : worker[w] = NoJob
    /\ asyncPool' = "joined"
    /\ UNCHANGED << signal, stdinClosed, running, session, jobs, callbackPool, callbacks >> /\ StopStep

\* On the callback worker itself the pool goes back to the client, for a later stop().
StopStopsCallbacks(t) ==
    /\ Goes(t, "callbackStop", IF t = "callback" THEN "transport" ELSE "callbackJoin")
    /\ callbackPool' = IF t = "callback" THEN "returned" ELSE "stopped"
    /\ callbacks' = << >>
    /\ UNCHANGED << signal, stdinClosed, running, session, asyncPool, jobs >> /\ StopStep

\* Mutant of StopJoinsCallbacks: the join is forgotten.
StopForgetsCallbacks(t) ==
    /\ Goes(t, "callbackJoin", "transport")
    /\ callbackPool' = "joined"
    /\ UNCHANGED << signal, stdinClosed, running, session, asyncPool, jobs, callbacks >> /\ StopStep

StopJoinsCallbacks(t) ==
    /\ Goes(t, "callbackJoin", "transport") /\ callback = Unset
    /\ callbackPool' = "joined"
    /\ UNCHANGED << signal, stdinClosed, running, session, asyncPool, jobs, callbacks >> /\ StopStep

\* A transport that has stopped already, or whose reader met the end of input, is left
\* alone, and nobody waits for the child.
StopStopsTransport(t) ==
    /\ Goes(t, "transport", IF running THEN "closing" ELSE "session")
    /\ running' = FALSE
    /\ UNCHANGED << signal, stdinClosed, session, asyncPool, jobs, callbackPool, callbacks >> /\ StopStep

\* shutdown() begins with the child's input.  It takes no mutex, but flushes the stream
\* first: the line of a write that is under way, once more.
StopClosesInput(t) ==
    /\ Goes(t, "closing", "waitExit") /\ writer = "none"
    /\ stdinClosed' = TRUE
    /\ UNCHANGED << signal, running, session, asyncPool, jobs, callbackPool, callbacks >> /\ StopStep

ChildGone(t) ==
    /\ child = "dead"
    /\ \E from \in {"waitExit", "waitTerm", "waitKill"} : Goes(t, from, "join")
    /\ UNCHANGED << signal, stdinClosed, running, session, asyncPool, jobs, callbackPool, callbacks >> /\ StopStep

\* The two bounded waits of shutdown() and the signals that follow them; the wait after
\* SIGKILL has no bound.
Signals(t, from, to, sent) ==
    /\ child = "alive" /\ Goes(t, from, to)
    /\ signal' = sent
    /\ UNCHANGED << stdinClosed, running, session, asyncPool, jobs, callbackPool, callbacks >> /\ StopStep

StopTerminates(t) == Signals(t, "waitExit", "waitTerm", "term")

\* Mutant of StopKills: SIGTERM is sent again.
StopTerminatesAgain(t) == Signals(t, "waitTerm", "waitKill", "term")

StopKills(t) == Signals(t, "waitTerm", "waitKill", "kill")

StopJoinsReader(t) ==
    /\ Goes(t, "join", "session") /\ reader.at \in {"none", "ended"}
    /\ UNCHANGED << signal, stdinClosed, running, session, asyncPool, jobs, callbackPool, callbacks >> /\ StopStep

StopStopsSession(t) ==
    /\ Goes(t, "session", "returned")
    /\ session' = "stopped"
    /\ UNCHANGED << signal, stdinClosed, running, asyncPool, jobs, callbackPool, callbacks >> /\ StopStep

-----------------------------------------------------------------------------
ReaderNext ==
    \/ ReaderChecks \/ ReaderSeesEnd \/ ReaderDropsJunk \/ ReaderTakesAnswer \/ ReaderTakesCompletion
    \/ ReaderTakesRequest \/ HandlerReturns \/ HandlerAskEnds \/ AwaitEnds \/ ReaderAnswers
WorkerNext(w) == WorkerTakes(w) \/ PollFindsAnswer(w) \/ PollGivesUp(w)
                 \/ TaskHandlerReturns(w) \/ TaskRemembers(w) \/ TaskCompletes(w) \/ TaskNotifies(w)
CallbackNext == CallbackRuns \/ CallbackReturns
Stops(t) ==
    \/ StopStopsAsync(t) \/ StopJoinsAsync(t) \/ StopStopsCallbacks(t) \/ StopJoinsCallbacks(t)
    \/ StopStopsTransport(t) \/ StopClosesInput(t) \/ ChildGone(t) \/ StopTerminates(t) \/ StopKills(t)
    \/ StopJoinsReader(t) \/ StopStopsSession(t)

Next ==
    \/ \E c \in Calls : ServerAnswers(c) \/ AppCalls(c) \/ CallTimesOut(c)
    \/ \E r \in Requests : ServerAsks(r) \/ ServerCompletes(r)
    \/ ServerWritesJunk \/ ChildExits
    \/ ReaderNext \/ HandlerAsks \/ ReaderWrites \/ AppWrites
    \/ \E w \in Workers : WorkerNext(w) \/ WorkerWrites(w)
    \/ CallbackNext \/ AppStarts \/ AppPosts
    \/ \E t \in {"app", "callback"} : StopTakesPools(t) \/ Stops(t)

Spec == Init /\ [][Next]_vars

\* A thread that can run does, handlers and callbacks return, timeouts pass, a process
\* exits at a signal it does not ignore, and its end fails the writes to it.  Nobody need
\* call, stop, ask, answer or read.
Fairness ==
    /\ WF_vars(ReaderNext \/ (child = "dead" /\ ReaderWrites))
    /\ WF_vars(AppPosts \/ (child = "dead" /\ AppWrites) \/ Stops("app"))
    /\ WF_vars(CallbackNext \/ Stops("callback"))
    /\ \A w \in Workers : WF_vars(WorkerNext(w) \/ (child = "dead" /\ WorkerWrites(w)))
    /\ \A c \in Calls : WF_vars(CallTimesOut(c))
    /\ WF_vars(MustExit /\ ChildExits)
FairSpec == Spec /\ Fairness

-----------------------------------------------------------------------------
StopCalled == \E t \in {"app", "callback"} : stop[t] # "none"

\* No write to the child waits for good for the child to read it.
WritesEnd == []<>(writer = "none")

\* Without times, the reader may wait for good for what no thread will bring: the answer to
\* a request of its handler, which the reader alone can take, or the end of a task whose
\* work stop() dropped with the pool.
ReaderHangs ==
    /\ ~timeouts
    /\ \/ reader.at = "asking"
       \/ /\ reader.at = "awaiting" /\ task[RequestOf(reader.of).about] = "working"
          /\ \A i \in DOMAIN jobs : jobs[i].of # RequestOf(reader.of).about
          /\ \A w \in Workers : worker[w].of # RequestOf(reader.of).about

\* No completion is dropped that the server sent after it was told that the application
\* had accepted the URL: the id enters the set before the answer leaves, whether the reader
\* sends it or a worker completes the task that tasks/result reports, and leaves the set
\* only for a completion.
CompletionReachesHandler == ignored = {}

\* When the application's stop() has returned, and no callback had called stop() itself,
\* none of the pools' threads runs or will run anything of the application.
NoCallbackAfterStop ==
    stop["app"] = "returned" /\ stop["callback"] = "none"
        => /\ callback = Unset /\ callbacks = << >> /\ jobs = << >>
           /\ \A w \in Workers : worker[w] = NoJob

\* stop() returns, from the application's thread and from a callback, whatever a worker or
\* a callback is in the middle of and however the child ends, with two reservations that
\* the header (client.hpp:82) does not make: it waits for a write that is under way until
\* the child reads or exits, and it waits at the join for a reader that hangs.
StopReturns ==
    WritesEnd =>
        (\E t \in DOMAIN stop : stop[t] \notin {"none", "returned"})
            ~> \/ \A t \in DOMAIN stop : stop[t] \in {"none", "returned"}
               \/ ReaderHangs /\ \E t \in DOMAIN stop : stop[t] = "join"

\* An asynchronous call that has a timeout is called back, with an answer, an error or the
\* timeout, unless somebody stops the client or a write waits for good.
AnswersAreCalledBack ==
    WritesEnd => \A c \in Calls :
        (timeouts /\ calls[c] \in {"waiting", "resolved"}) ~> (calls[c] = "calledBack" \/ StopCalled)

=============================================================================
