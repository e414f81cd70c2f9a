---------------------------- MODULE ServerRequests ----------------------------
(***************************************************************************)
(* What the handlers of mcp::server::Server answer (server/server.cpp and   *)
(* server/detail/), as functions of a request and of the registry.          *)
(* A request is a record whose fields say what the handler tells apart: a   *)
(* cursor is an endpoint and an index, arguments are valid or not for the   *)
(* schema of the tool, a handler answers, throws or returns something       *)
(* unusable.  Malformed params never reach a handler over stdio, because    *)
(* parseMessage checks the method's schema first.                           *)
(***************************************************************************)
EXTENDS Naturals, Sequences, SequencesExt

CONSTANTS
    Capabilities,   \* what the server declares: "tools", "tools.listChanged", ...
    PageSize,       \* kToolsPageSize and its siblings
    Tools,          \* name -> [handler, outputSchema, taskSupport]
    Resources,      \* uri -> what its read handler does
    Prompts,        \* name -> [handler, arguments, required]
    Completion,     \* what the completion handler does: "none", "throws", or a value count
    MaxValues       \* kCompletionMaxValues

Endpoints == {"tools", "resources", "resource_templates", "prompts"}

NoCursor == [endpoint |-> "none", index |-> 0]
Answer(class) == [class |-> class, items |-> << >>, next |-> NoCursor]
Failed(class) == Answer(class)
Result == Answer("result")

-----------------------------------------------------------------------------
(* Dispatch: the session's lifecycle, then the negotiated capabilities. *)

ListMethods == [m \in {"tools/list", "resources/list", "resources/templates/list", "prompts/list"} |->
    CASE m = "tools/list" -> "tools" [] m = "resources/list" -> "resources"
      [] m = "prompts/list" -> "prompts" [] OTHER -> "resource_templates"]

CapabilityForMethod(method) ==
    CASE method \in {"tools/list", "tools/call"} -> "tools"
      [] method \in {"resources/list", "resources/read", "resources/templates/list"} -> "resources"
      [] method \in {"prompts/list", "prompts/get"} -> "prompts"
      [] method = "completion/complete" -> "completions"
      [] method = "logging/setLevel" -> "logging"
      [] OTHER -> "none"

IsMethodEnabledByCapability(method) ==
    LET needed == CASE method \in {"resources/subscribe", "resources/unsubscribe"} -> "resources.subscribe"
                    [] method = "tasks/list" -> "tasks.list"
                    [] method = "tasks/cancel" -> "tasks.cancel"
                    [] method \in {"tasks/get", "tasks/result"} -> "tasks"
                    [] OTHER -> CapabilityForMethod(method)
    IN needed \in Capabilities \cup {"none"}

\* A server that is not operating answers only ping and, once it has answered
\* initialize, logging/setLevel.
CanHandleRequest(operating, method) == operating \/ method \in {"ping", "logging/setLevel"}

ListChangedCapability(endpoint) ==
    CASE endpoint = "tools" -> "tools.listChanged" [] endpoint = "prompts" -> "prompts.listChanged"
      [] OTHER -> "resources.listChanged"

-----------------------------------------------------------------------------
(* Lists, page by page.  A cursor is the index of the first item of the next page. *)

MakePaginationCursor(endpoint, index) == [endpoint |-> endpoint, index |-> index]

ParsesAsCursor(endpoint, cursor) == cursor.endpoint = endpoint

\* The window of applyPagination and of paginateList: none for a cursor that does
\* not parse or lies past the end.
ApplyPagination(endpoint, cursor, total) ==
    LET first == IF cursor = NoCursor THEN 0 ELSE cursor.index
        last == IF first + PageSize < total THEN first + PageSize ELSE total
    IN IF cursor # NoCursor /\ (~ParsesAsCursor(endpoint, cursor) \/ cursor.index > total)
       THEN << >>
       ELSE << [first |-> first, last |-> last,
                next |-> IF last < total THEN MakePaginationCursor(endpoint, last) ELSE NoCursor] >>

\* The handlers of the four list methods: a copy of the registry, then the window.
ListAnswer(endpoint, items, cursor) ==
    LET window == ApplyPagination(endpoint, cursor, Len(items))
    IN IF window = << >> THEN Failed("invalidParams")
       ELSE [class |-> "result", next |-> window[1].next,
             items |-> SubSeq(items, window[1].first + 1, window[1].last)]

\* applyPagination builds its error response with a default RequestId, which is the
\* integer 0, and the list handlers return it as it is.
ListAnswerId(id, answer) == IF answer.class = "invalidParams" THEN 0 ELSE id

-----------------------------------------------------------------------------
(* The handlers of the other feature methods. *)

\* executeToolCall: whatever the tool does, the answer is a result, which says
\* isError when the input, the handler or its output failed.
ExecuteToolCall(tool, arguments) ==
    IF \/ arguments = "invalid"
       \/ Tools[tool].handler \in {"throws", "reports", "badContent"}
       \/ Tools[tool].outputSchema /\ Tools[tool].handler = "badOutput"
    THEN Answer("isError") ELSE Result

\* The checks of tools/call that precede the handler, in their order.
ToolsCallRefusal(registered, r) ==
    CASE ~Contains(registered, r.name) -> "invalidParams"
      [] ~r.task /\ "tasks.toolsCall" \in Capabilities /\ Tools[r.name].taskSupport = "required" -> "methodNotFound"
      [] r.task /\ "tasks.toolsCall" \in Capabilities /\ Tools[r.name].taskSupport = "forbidden" -> "methodNotFound"
      [] OTHER -> "none"

\* Without the capability the task parameter is not even looked at.
RunsAsTask(r) == r.task /\ "tasks.toolsCall" \in Capabilities

ResourcesRead(registered, uri) ==
    CASE ~Contains(registered, uri) -> Failed("resourceNotFound")
      [] Resources[uri] = "throws" -> Failed("internalError")
      [] OTHER -> Result

PromptsGet(registered, r) ==
    CASE ~Contains(registered, r.name) -> Failed("invalidParams")
      [] ~(r.arguments \subseteq Prompts[r.name].arguments) -> Failed("invalidParams")
      [] ~(Prompts[r.name].required \subseteq r.arguments) -> Failed("invalidParams")
      [] Prompts[r.name].handler \in {"throws", "badMessages"} -> Failed("internalError")
      [] OTHER -> Result

\* A completion has at most MaxValues values and then says that there are more.
CompletionComplete(reference) ==
    CASE reference \notin {"ref/prompt", "ref/resource"} -> Failed("invalidParams")
      [] Completion = "throws" -> Failed("internalError")
      [] Completion = "tooMany" -> [Result EXCEPT !.items = << MaxValues, "hasMore" >>]
      [] OTHER -> Result

LogLevels == << "debug", "info", "notice", "warning", "error", "critical", "alert", "emergency" >>
LogLevelWeight(level) == CHOOSE w \in DOMAIN LogLevels : LogLevels[w] = level
=============================================================================
