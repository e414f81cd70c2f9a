------------------------------ MODULE StdioServer ------------------------------
(***************************************************************************)
(* A server with features behind StdioServerRunner (server/stdio_runner.cpp,*)
(* server/server.cpp), and a client that lists, calls and subscribes.       *)
(* Three server threads write to standard output: the runner's loop, which  *)
(* reads a line, handles it to the end and writes the answer; the host      *)
(* application, which edits the registries and emits notifications; and the *)
(* detached thread of a task-augmented tool call.  A message is written as  *)
(* its text and then its newline, with nothing that keeps another thread's  *)
(* text from coming in between.                                             *)
(***************************************************************************)
EXTENDS ServerRequests, FiniteSets

CONSTANTS
    InitialRegistry,   \* endpoint -> sequence of the items registered at start
    Edits,             \* endpoint -> the items that are registered and unregistered
    Calls,             \* feature requests the client may make, lists apart
    Levels,            \* levels the application logs at
    EmitTaskStatusNotifications,
    AskTimeouts,       \* whether the requests that tools send have a timeout
    PipeLines,         \* lines of standard output the client may be behind
    MaxCalls,          \* listings, calls and junk lines of the client
    MaxHostCalls       \* edits, notifications and stops of the application

ASSUME StdioServerAssumption ==
    /\ PageSize \in Nat
    /\ DOMAIN InitialRegistry = Endpoints
    /\ \A e \in Endpoints : InitialRegistry[e] \in Seq(ToSet(InitialRegistry[e]))
    /\ \A r \in Calls : r.method \notin DOMAIN ListMethods

VARIABLES
    registry,        \* tools_, resources_, resourceTemplates_, prompts_
    subscriptions,   \* resourceSubscriptions_ of the one session
    logLevel,        \* logLevel_
    operating,       \* the session is kOperating
    stopRequested,   \* stopRequested of the runner
    loop,            \* where StdioServerRunner::run is
    serving,         \* the request the loop holds
    run,             \* the tool each of the threads loop and job runs
    task,            \* the status of the task, once a tool call has created one
    edited           \* the endpoint whose change each thread has still to announce

VARIABLES
    out,             \* what each server thread has still to write
    mid,             \* whether its first message lacks only the newline
    partial,         \* texts on standard output since its last newline
    stdout,          \* whole lines
    stdin,           \* lines the server has not read
    torn             \* whether a line ever held two messages

VARIABLES
    call,            \* the client's request in flight
    listing,         \* the client's current listing and what it has seen
    heard,           \* endpoints whose list_changed came since the listing began
    held,            \* subscriptions the client believes to hold
    dropped,         \* resources unregistered since they were subscribed to
    spent            \* how much of each bound is used

loopVars == << stopRequested, loop, serving >>
serverVars == << registry, subscriptions, logLevel, operating >>
toolVars == << run, task >>
wireVars == << out, mid, partial, stdout, torn >>
clientVars == << call, listing, heard, held >>
vars == << loopVars, serverVars, toolVars, edited, wireVars, stdin, clientVars, dropped, spent >>

Writers == {"loop", "app", "job"}
Idle == [tool |-> "none", stage |-> "none", arguments |-> "none"]
NoCall == [id |-> 0, request |-> [method |-> "none"]]
NoListing == [endpoint |-> "none", state |-> "none", seen |-> << >>, next |-> NoCursor]

Frame(kind, id, about, answer) == [kind |-> kind, id |-> id, about |-> about, answer |-> answer]
Note(kind, about) == Frame(kind, 0, about, Result)
ParseErrorFrame == Frame("unknownIdError", 0, "none", Failed("parseError"))
Line(kind, id, request) == [kind |-> kind, id |-> id, request |-> request]
Send(thread, frames) == out' = [out EXCEPT ![thread] = @ \o frames]
Bound == [client |-> MaxCalls, host |-> MaxHostCalls]
Spend(bound) == spent[bound] < Bound[bound] /\ spent' = [spent EXCEPT ![bound] = @ + 1]

Init ==
    /\ registry = InitialRegistry
    /\ subscriptions = {} /\ logLevel = "debug" /\ operating = FALSE
    /\ stopRequested = FALSE /\ loop = "checking" /\ serving = NoCall
    /\ run = [t \in {"loop", "job"} |-> Idle] /\ task = "none"
    /\ edited = [t \in Writers |-> "none"]
    /\ out = [t \in Writers |-> << >>] /\ mid = [t \in Writers |-> FALSE]
    /\ partial = << >> /\ stdout = << >> /\ torn = FALSE
    /\ stdin = << Line("initialized", 0, NoCall.request) >>
    /\ call = NoCall /\ listing = NoListing /\ heard = {} /\ held = {} /\ dropped = {}
    /\ spent = [b \in {"client", "host"} |-> 0]

-----------------------------------------------------------------------------
(* Standard output: writeMessage streams the text, then the newline. *)

WriteText(t) ==
    /\ out[t] # << >> /\ ~mid[t] /\ Len(stdout) < PipeLines
    /\ partial' = Append(partial, Head(out[t]))
    /\ mid' = [mid EXCEPT ![t] = TRUE]
    /\ UNCHANGED << loopVars, serverVars, toolVars, edited, out, stdout, torn, stdin, clientVars, dropped, spent >>

WriteNewline(t) ==
    /\ mid[t]
    /\ stdout' = IF partial = << >> THEN stdout ELSE Append(stdout, partial)
    /\ torn' = (torn \/ Len(partial) > 1)
    /\ partial' = << >>
    /\ out' = [out EXCEPT ![t] = Tail(@)]
    /\ mid' = [mid EXCEPT ![t] = FALSE]
    /\ UNCHANGED << loopVars, serverVars, toolVars, edited, stdin, clientVars, dropped, spent >>

\* A thread goes on when what it has to write is written.
Free(t) == out[t] = << >>

-----------------------------------------------------------------------------
(* The runner's loop. *)

\* The condition of the loop: the flag of stop(), then a line or the end of input.
LoopChecks ==
    /\ loop = "checking" /\ Free("loop")
    /\ loop' = IF stopRequested THEN "ended" ELSE "getline"
    /\ operating' = (operating /\ ~stopRequested)
    /\ serving' = NoCall
    /\ UNCHANGED << stopRequested, registry, subscriptions, logLevel, toolVars, edited, wireVars, stdin, clientVars, dropped, spent >>

RunnerStops ==
    /\ ~stopRequested /\ Spend("host")
    /\ stopRequested' = TRUE
    /\ UNCHANGED << loop, serving, serverVars, toolVars, edited, wireVars, stdin, clientVars, dropped >>

\* The line the loop takes next, if it is of this kind.
Reads(kind) ==
    /\ loop = "getline" /\ stdin # << >> /\ Head(stdin).kind = kind
    /\ stdin' = Tail(stdin)
    /\ UNCHANGED << stopRequested, edited, mid, partial, stdout, torn, clientVars, spent >>

\* An oversize line and one that parseMessage refuses get an error without an id; an
\* unterminated line at the end of input gets one too and ends the loop.
LoopReadsJunk ==
    /\ Reads("junk")
    /\ Send("loop", << ParseErrorFrame >>)
    /\ loop' = "checking"
    /\ UNCHANGED << serving, serverVars, toolVars, dropped >>

LoopReadsEnd ==
    \E kind \in {"unterminated", "eof"} :
        /\ Reads(kind)
        /\ IF kind = "unterminated" THEN Send("loop", << ParseErrorFrame >>) ELSE UNCHANGED out
    /\ loop' = "ended" /\ operating' = FALSE
    /\ UNCHANGED << serving, registry, subscriptions, logLevel, toolVars, dropped >>

LoopReadsInitialized ==
    /\ Reads("initialized")
    /\ operating' = TRUE /\ loop' = "checking"
    /\ UNCHANGED << serving, registry, subscriptions, logLevel, toolVars, out, dropped >>

\* The answer to a request of a tool resolves its future, if it still waits.
LoopReadsResponse ==
    /\ Reads("response")
    /\ LET t == Head(stdin).request.thread IN
         run' = IF run[t].stage = "asking" THEN [run EXCEPT ![t].stage = "asked"] ELSE run
    /\ loop' = "checking"
    /\ UNCHANGED << serving, serverVars, task, out, dropped >>

Methods == DOMAIN ListMethods \cup {r.method : r \in Calls}

\* processMessage of a request: the answer is written before the next line is read.
ReadsRequest(methods) ==
    /\ Reads("request") /\ Head(stdin).request.method \in methods
    /\ serving' = [id |-> Head(stdin).id, request |-> Head(stdin).request]

Admitted(method) == CanHandleRequest(operating, method) /\ IsMethodEnabledByCapability(method)

Answers(id, answer) ==
    /\ Send("loop", << Frame("answer", id, "none", answer) >>)
    /\ loop' = "checking"

LoopRefuses ==
    /\ ReadsRequest(Methods)
    /\ LET method == serving'.request.method IN
         /\ ~Admitted(method)
         /\ Answers(serving'.id, Failed(IF CanHandleRequest(operating, method) THEN "methodNotFound" ELSE "invalidRequest"))
    /\ UNCHANGED << serverVars, toolVars, dropped >>

\* The four list handlers: a copy of the registry under its lock, then one page of it.
HandleList(method) ==
    /\ ReadsRequest({method}) /\ Admitted(method)
    /\ LET endpoint == ListMethods[method]
           answer == ListAnswer(endpoint, registry[endpoint], serving'.request.cursor)
       IN Answers(ListAnswerId(serving'.id, answer), answer)
    /\ UNCHANGED << serverVars, toolVars, dropped >>

HandleToolsList == HandleList("tools/list")
HandleResourcesList == HandleList("resources/list")
HandleResourceTemplatesList == HandleList("resources/templates/list")
HandlePromptsList == HandleList("prompts/list")

\* The handlers that only look something up and answer.
PlainAnswer(r) ==
    CASE r.method = "resources/read" -> ResourcesRead(registry["resources"], r.name)
      [] r.method = "prompts/get" -> PromptsGet(registry["prompts"], r)
      [] r.method = "completion/complete" -> CompletionComplete(r.name)
      [] r.method = "tasks/get" -> IF task = "none" THEN Failed("invalidParams") ELSE Answer(task)
      [] r.method = "tasks/list" -> Result
      [] OTHER -> Result                                          \* ping

HandlePlain ==
    /\ ReadsRequest({"resources/read", "prompts/get", "completion/complete", "tasks/get", "tasks/list", "ping"})
    /\ Admitted(serving'.request.method)
    /\ Answers(serving'.id, PlainAnswer(serving'.request))
    /\ UNCHANGED << serverVars, toolVars, dropped >>

HandleSetLevel ==
    /\ ReadsRequest({"logging/setLevel"}) /\ Admitted("logging/setLevel")
    /\ logLevel' = serving'.request.name
    /\ Answers(serving'.id, Result)
    /\ UNCHANGED << registry, subscriptions, operating, toolVars, dropped >>

HandleSubscribe ==
    /\ ReadsRequest({"resources/subscribe"}) /\ Admitted("resources/subscribe")
    /\ LET uri == serving'.request.name IN
         IF Contains(registry["resources"], uri)
         THEN /\ subscriptions' = subscriptions \cup {uri} /\ dropped' = dropped \ {uri}
              /\ Answers(serving'.id, Result)
         ELSE /\ Answers(serving'.id, Failed("resourceNotFound"))
              /\ UNCHANGED << subscriptions, dropped >>
    /\ UNCHANGED << registry, logLevel, operating, toolVars >>

HandleUnsubscribe ==
    /\ ReadsRequest({"resources/unsubscribe"}) /\ Admitted("resources/unsubscribe")
    /\ subscriptions' = subscriptions \ {serving'.request.name}
    /\ Answers(serving'.id, Result)
    /\ UNCHANGED << registry, logLevel, operating, toolVars, dropped >>

-----------------------------------------------------------------------------
(* Tools and tasks. *)

Ended == {"completed", "failed", "cancelled"}

\* Arguments that the input schema refuses never reach the tool's handler.
Running(r) == [tool |-> r.name, arguments |-> r.arguments,
               stage |-> IF r.arguments = "invalid" THEN "ready" ELSE "running"]

\* tools/call: refused, run by the loop, or a task whose thread is started before the
\* answer is returned.
HandleToolsCall ==
    /\ ReadsRequest({"tools/call"}) /\ Admitted("tools/call")
    /\ LET r == serving'.request
           refusal == ToolsCallRefusal(registry["tools"], r)
       IN CASE refusal # "none" -> Answers(serving'.id, Failed(refusal)) /\ UNCHANGED toolVars
            [] refusal = "none" /\ RunsAsTask(r) ->
                 /\ task' = "working" /\ run' = [run EXCEPT !["job"] = Running(r)]
                 /\ Answers(serving'.id, Answer("working"))
            [] OTHER ->
                 /\ run' = [run EXCEPT !["loop"] = Running(r)]
                 /\ loop' = "tool"
                 /\ UNCHANGED << task, out >>
    /\ UNCHANGED << serverVars, dropped >>

ToolStep == UNCHANGED << loopVars, subscriptions, logLevel, operating, stdin, mid, partial, stdout, torn, clientVars, spent >>
Becomes(t, stage) == run' = [run EXCEPT ![t].stage = stage]
Handler(t, kind) == run[t].stage = "running" /\ Tools[run[t].tool].handler = kind

\* A handler that sends the client a request and waits for its answer.
ToolAsks(t) ==
    /\ Handler(t, "asks")
    /\ IF operating THEN Send(t, << Note("ask", t) >>) /\ Becomes(t, "asking")
       ELSE UNCHANGED out /\ Becomes(t, "failed")
    /\ ToolStep /\ UNCHANGED << registry, task, edited, dropped >>

AskTimesOut(t) ==
    /\ AskTimeouts /\ run[t].stage = "asking"
    /\ Becomes(t, "failed")
    /\ ToolStep /\ UNCHANGED << registry, task, edited, out, dropped >>

\* register* and unregister*: the registry changes under its lock, and the thread
\* announces the change afterwards.  A duplicate is refused, a missing item no change.
Registers(t, endpoint, item) ==
    /\ ~Contains(registry[endpoint], item)
    /\ registry' = [registry EXCEPT ![endpoint] = Append(@, item)]
    /\ edited' = [edited EXCEPT ![t] = endpoint]
    /\ UNCHANGED << subscriptions, dropped >>

\* find_if and erase: the one entry that it finds.
Erases(t, endpoint, item) ==
    /\ \E i \in DOMAIN registry[endpoint] :
        /\ registry[endpoint][i] = item
        /\ registry' = [registry EXCEPT ![endpoint] = RemoveAt(@, i)]
    /\ edited' = [edited EXCEPT ![t] = endpoint]

Unregisters(t, endpoint, item) == Erases(t, endpoint, item) /\ UNCHANGED << subscriptions, dropped >>

RegisterTool(t, name) == Registers(t, "tools", name)
UnregisterTool(t, name) == Unregisters(t, "tools", name)
RegisterResource(t, uri) == Registers(t, "resources", uri)

\* Mutant of UnregisterResource: the subscriptions of the resource stay.
UnregisterResourceOnly(t, uri) == Unregisters(t, "resources", uri)

\* With a resource go its subscriptions.
UnregisterResource(t, uri) ==
    /\ Erases(t, "resources", uri)
    /\ subscriptions' = subscriptions \ {uri}
    /\ dropped' = dropped \cup {uri}

RegisterResourceTemplate(t, uri) == Registers(t, "resource_templates", uri)
UnregisterResourceTemplate(t, uri) == Unregisters(t, "resource_templates", uri)
RegisterPrompt(t, name) == Registers(t, "prompts", name)
UnregisterPrompt(t, name) == Unregisters(t, "prompts", name)

Edit(t) ==
    \/ \E name \in Edits["tools"] : RegisterTool(t, name) \/ UnregisterTool(t, name)
    \/ \E uri \in Edits["resources"] : RegisterResource(t, uri) \/ UnregisterResource(t, uri)
    \/ \E uri \in Edits["resource_templates"] :
            RegisterResourceTemplate(t, uri) \/ UnregisterResourceTemplate(t, uri)
    \/ \E name \in Edits["prompts"] : RegisterPrompt(t, name) \/ UnregisterPrompt(t, name)

ToolEdits(t) ==
    /\ Handler(t, "edits")
    /\ Edit(t)
    /\ Becomes(t, "ready")
    /\ UNCHANGED << loopVars, logLevel, operating, task, stdin, wireVars, clientVars, spent >>

ListChangedOf(endpoint) == IF endpoint = "resource_templates" THEN "resources" ELSE endpoint

\* Nothing is sent unless the capability was declared and the session operates.
NotifyListChanged(t, endpoints) ==
    /\ edited[t] \in endpoints /\ Free(t)
    /\ edited' = [edited EXCEPT ![t] = "none"]
    /\ IF operating /\ ListChangedCapability(edited[t]) \in Capabilities
       THEN Send(t, << Note("listChanged", ListChangedOf(edited[t])) >>) ELSE UNCHANGED out
    /\ UNCHANGED << loopVars, serverVars, toolVars, mid, partial, stdout, torn, stdin, clientVars, dropped, spent >>

NotifyToolsListChanged(t) == NotifyListChanged(t, {"tools"})

\* Mutant of NotifyResourcesListChanged: a change of the templates is not announced.
NotifyResourcesAlone(t) ==
    IF edited[t] = "resource_templates"
    THEN /\ Free(t)
         /\ edited' = [edited EXCEPT ![t] = "none"]
         /\ UNCHANGED << loopVars, serverVars, toolVars, wireVars, stdin, clientVars, dropped, spent >>
    ELSE NotifyListChanged(t, {"resources"})

NotifyResourcesListChanged(t) == NotifyListChanged(t, {"resources", "resource_templates"})
NotifyPromptsListChanged(t) == NotifyListChanged(t, {"prompts"})

ToolDone(t) ==
    /\ Free(t) /\ edited[t] = "none"
    /\ \/ run[t].stage \in {"ready", "asked", "failed"}
       \/ run[t].stage = "running" /\ Tools[run[t].tool].handler \notin {"asks", "edits"}

ToolOutcome(t) ==
    IF run[t].stage = "failed" THEN Answer("isError") ELSE ExecuteToolCall(run[t].tool, run[t].arguments)

ToolReturns ==
    /\ loop = "tool" /\ ToolDone("loop")
    /\ run' = [run EXCEPT !["loop"] = Idle]
    /\ Answers(serving.id, ToolOutcome("loop"))
    /\ UNCHANGED << stopRequested, serving, serverVars, task, edited, mid, partial, stdout, torn, stdin, clientVars, dropped, spent >>

\* The status observer of the task receiver, on the thread that ends the task.
StatusFrames == IF operating /\ EmitTaskStatusNotifications THEN << Note("taskStatus", "none") >> ELSE << >>

\* Mutant of TaskReturns: only a tool that answers without an error completes its task.
TaskReturnsOnlyResults ==
    /\ run["job"] # Idle /\ ToolDone("job")
    /\ run' = [run EXCEPT !["job"] = Idle]
    /\ IF task = "working" /\ ToolOutcome("job") = Result
       THEN task' = "completed" /\ Send("job", StatusFrames)
       ELSE UNCHANGED << task, out >>
    /\ UNCHANGED << loopVars, serverVars, edited, mid, partial, stdout, torn, stdin, clientVars, dropped, spent >>

\* completeTaskWithResponse, which a task that has ended refuses.
TaskReturns ==
    /\ run["job"] # Idle /\ ToolDone("job")
    /\ run' = [run EXCEPT !["job"] = Idle]
    /\ IF task = "working"
       THEN /\ task' = IF ToolOutcome("job") = Result THEN "completed" ELSE "failed"
            /\ Send("job", StatusFrames)
       ELSE UNCHANGED << task, out >>
    /\ UNCHANGED << loopVars, serverVars, edited, mid, partial, stdout, torn, stdin, clientVars, dropped, spent >>

HandleTasksCancel ==
    /\ ReadsRequest({"tasks/cancel"}) /\ Admitted("tasks/cancel")
    /\ LET cancels == task = "working" IN
         /\ task' = IF cancels THEN "cancelled" ELSE task
         /\ Send("loop", (IF cancels THEN StatusFrames ELSE << >>) \o
                << Frame("answer", serving'.id, "none", IF cancels THEN Answer("cancelled") ELSE Failed("invalidParams")) >>)
    /\ loop' = "checking"
    /\ UNCHANGED << serverVars, run, dropped >>

\* tasks/result holds the loop until the task has ended.
HandleTasksResult ==
    /\ ReadsRequest({"tasks/result"}) /\ Admitted("tasks/result")
    /\ IF task = "none" THEN Answers(serving'.id, Failed("invalidParams"))
       ELSE loop' = "awaiting" /\ UNCHANGED out
    /\ UNCHANGED << serverVars, toolVars, dropped >>

TaskResultReady ==
    /\ loop = "awaiting" /\ task \in Ended
    /\ Answers(serving.id, Answer(task))
    /\ UNCHANGED << stopRequested, serving, serverVars, toolVars, edited, mid, partial, stdout, torn, stdin, clientVars, dropped, spent >>

-----------------------------------------------------------------------------
(* The host application's thread. *)

AppStep == Free("app") /\ edited["app"] = "none" /\ Spend("host")

AppEdits ==
    /\ AppStep
    /\ Edit("app")
    /\ UNCHANGED << loopVars, logLevel, operating, toolVars, wireVars, stdin, clientVars >>

\* notifyResourceUpdated: only for a resource the session has subscribed to.
AppUpdates ==
    /\ AppStep
    /\ \E uri \in DOMAIN Resources :
        /\ operating /\ "resources.subscribe" \in Capabilities /\ uri \in subscriptions
        /\ Send("app", << Note("updated", uri) >>)
    /\ UNCHANGED << loopVars, serverVars, toolVars, edited, mid, partial, stdout, torn, stdin, clientVars, dropped >>

\* emitLogMessage does not ask the session.
AppLogs ==
    /\ AppStep
    /\ \E level \in Levels :
        /\ "logging" \in Capabilities /\ LogLevelWeight(level) >= LogLevelWeight(logLevel)
        /\ Send("app", << Note("log", level) >>)
    /\ UNCHANGED << loopVars, serverVars, toolVars, edited, mid, partial, stdout, torn, stdin, clientVars, dropped >>

-----------------------------------------------------------------------------
(* The client: one request at a time, and a thread that reads standard output. *)

ClientStep == UNCHANGED << loopVars, serverVars, toolVars, edited, wireVars, dropped >>
Open == loop # "ended" /\ \A i \in DOMAIN stdin : stdin[i].kind \notin {"unterminated", "eof"}
Requests(r) ==
    /\ Open /\ call = NoCall
    /\ call' = [id |-> 1, request |-> r]
    /\ stdin' = Append(stdin, Line("request", 1, r))

ClientLists ==
    /\ call = NoCall /\ listing.state # "running" /\ Open
    /\ Spend("client")
    /\ \E endpoint \in Endpoints :
        listing' = [endpoint |-> endpoint, state |-> "running", seen |-> << >>, next |-> NoCursor]
    /\ heard' = {}
    /\ UNCHANGED << stdin, call, held >> /\ ClientStep

\* One page of a list: a call whose capability the server has not declared throws, any
\* other is a request that carries the cursor of the page before.
AsksPage(method) ==
    /\ listing.state = "running" /\ listing.endpoint = ListMethods[method]
    /\ IF CapabilityForMethod(method) \in Capabilities
       THEN Requests([method |-> method, cursor |-> listing.next]) /\ UNCHANGED listing
       ELSE listing' = [listing EXCEPT !.state = "failed"] /\ UNCHANGED << call, stdin >>
    /\ UNCHANGED << heard, held, spent >> /\ ClientStep

ListTools == AsksPage("tools/list")
ListResources == AsksPage("resources/list")
ListResourceTemplates == AsksPage("resources/templates/list")
ListPrompts == AsksPage("prompts/list")

ClientCalls ==
    /\ listing.state # "running" /\ Spend("client")
    /\ \E r \in Calls :
        /\ (r.method = "tools/call" /\ r.task) => task = "none"
        /\ Requests(r)
        /\ held' = IF r.method = "resources/unsubscribe" THEN held \ {r.name} ELSE held
    /\ UNCHANGED << listing, heard >> /\ ClientStep

ClientWritesJunk ==
    /\ Open /\ Spend("client")
    /\ \E kind \in {"junk", "unterminated", "eof"} : stdin' = Append(stdin, Line(kind, 0, NoCall.request))
    /\ UNCHANGED clientVars /\ ClientStep

\* What the client does with a message.
ReceivesAnswer(frame) ==
    LET r == call.request
        fresh == call # NoCall /\ frame.id = call.id
        lists == fresh /\ r.method \in DOMAIN ListMethods
        answer == frame.answer
    IN /\ call' = IF fresh THEN NoCall ELSE call
       /\ listing' = CASE lists /\ answer.class = "result" ->
                              [listing EXCEPT !.seen = @ \o answer.items, !.next = answer.next,
                                              !.state = IF answer.next = NoCursor THEN "done" ELSE "running"]
                        [] lists /\ answer.class # "result" -> [listing EXCEPT !.state = "failed"]
                        [] OTHER -> listing
       /\ held' = IF fresh /\ r.method = "resources/subscribe" /\ answer = Result
                  THEN held \cup {r.name} ELSE held
       /\ UNCHANGED << heard, stdin >>

Receives(frame) ==
    CASE frame.kind = "answer" -> ReceivesAnswer(frame)
      [] frame.kind = "listChanged" ->
           heard' = heard \cup {frame.about} /\ UNCHANGED << call, listing, held, stdin >>
      [] frame.kind = "ask" /\ Open ->
           stdin' = Append(stdin, Line("response", 0, [thread |-> frame.about])) /\ UNCHANGED clientVars
      [] OTHER -> UNCHANGED << clientVars, stdin >>

\* A line that holds two messages does not parse and is dropped.
ClientReads ==
    /\ stdout # << >>
    /\ stdout' = Tail(stdout)
    /\ IF Len(Head(stdout)) = 1 THEN Receives(Head(stdout)[1]) ELSE UNCHANGED << clientVars, stdin >>
    /\ UNCHANGED << loopVars, serverVars, toolVars, edited, out, mid, partial, torn, dropped, spent >>

-----------------------------------------------------------------------------
LoopNext ==
    \/ LoopChecks \/ LoopReadsJunk \/ LoopReadsEnd \/ LoopReadsInitialized \/ LoopReadsResponse
    \/ LoopRefuses \/ HandleToolsList \/ HandleResourcesList \/ HandleResourceTemplatesList \/ HandlePromptsList
    \/ HandlePlain \/ HandleSetLevel \/ HandleSubscribe \/ HandleUnsubscribe
    \/ HandleToolsCall \/ HandleTasksCancel \/ HandleTasksResult \/ ToolReturns \/ TaskResultReady

ToolNext(t) == ToolAsks(t) \/ AskTimesOut(t) \/ ToolEdits(t)
WriterNext(t) ==
    \/ WriteText(t) \/ WriteNewline(t)
    \/ NotifyToolsListChanged(t) \/ NotifyResourcesListChanged(t) \/ NotifyPromptsListChanged(t)
Next ==
    \/ LoopNext \/ TaskReturns \/ RunnerStops \/ AppEdits \/ AppUpdates \/ AppLogs
    \/ \E t \in {"loop", "job"} : ToolNext(t)
    \/ \E t \in Writers : WriterNext(t)
    \/ ClientReads \/ ListTools \/ ListResources \/ ListResourceTemplates \/ ListPrompts
    \/ ClientLists \/ ClientCalls \/ ClientWritesJunk

Spec == Init /\ [][Next]_vars

\* Threads that can run do, and the client reads; nobody need call anything.
Fairness ==
    /\ WF_vars(LoopNext \/ ToolNext("loop") \/ WriterNext("loop"))
    /\ WF_vars(TaskReturns \/ ToolNext("job") \/ WriterNext("job"))
    /\ WF_vars(WriterNext("app")) /\ WF_vars(ClientReads)
FairSpec == Spec /\ Fairness

-----------------------------------------------------------------------------
\* A subscription the client was told of is in the server's table unless its resource
\* was unregistered since, and the table names registered resources only
\* (handleResourcesSubscribeRequest and unregisterResource share one lock).
SubscriptionsAgree ==
    /\ held \subseteq subscriptions \cup dropped
    /\ \A uri \in subscriptions : Contains(registry["resources"], uri)

Stale == listing.state = "done" /\ listing.seen # registry[listing.endpoint]

IsChangeOf(endpoint, frames) ==
    \E i \in DOMAIN frames : frames[i].kind = "listChanged" /\ frames[i].about = ListChangedOf(endpoint)

\* A change of the endpoint's list that the client has still to hear of.
ChangeIsComing(endpoint) ==
    \/ \E t \in Writers : \/ edited[t] # "none" /\ ListChangedOf(edited[t]) = ListChangedOf(endpoint)
                          \/ IsChangeOf(endpoint, out[t])
    \/ IsChangeOf(endpoint, partial) \/ \E i \in DOMAIN stdout : IsChangeOf(endpoint, stdout[i])

\* A client whose finished listing differs from the registry has heard a list_changed
\* since the listing began or will hear one, unless the server does not declare that it
\* announces, the session has ended or two threads' texts shared a line (the registry
\* changes before it is announced, and the pages of one listing are copied at different
\* times).
StaleListingIsAnnounced ==
    Stale => \/ ListChangedOf(listing.endpoint) \in heard \/ ChangeIsComing(listing.endpoint)
             \/ torn \/ ~operating \/ ListChangedCapability(listing.endpoint) \notin Capabilities

\* The loop comes back to its next line whatever a tool or a task waits for: a request
\* that a tool sends to the client while the loop is held ends with its timeout, and
\* tasks/result holds the loop no longer than the task runs.
LoopReadsOn == (loop \notin {"getline", "ended"}) ~> (loop \in {"getline", "ended"})
=============================================================================
