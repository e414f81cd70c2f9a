---------------------------- MODULE ClientRequests ----------------------------
(***************************************************************************)
(* What the handlers that mcp::client::Client registers for the requests of *)
(* a server do before they call the application's handler (client.cpp), as  *)
(* functions of the request.  A message of a sampling request is its role   *)
(* and the sequence of its content blocks, of which only the type and the   *)
(* tool-use id are told apart; content that is no block and no array of     *)
(* blocks is the empty sequence, an id that is missing the empty string.    *)
(* The URL of an elicitation is the record of the parts the code looks at.  *)
(***************************************************************************)
EXTENDS Naturals, Sequences, SequencesExt

CONSTANTS
    Negotiated,     \* capabilities of the client the session negotiated
    Registered      \* "roots", "sampling", "form", "url": handlers the application set

-----------------------------------------------------------------------------
(* Tool use in the messages of a sampling request. *)

ContainsOnlyToolResults(message) ==
    /\ message.content # << >>
    /\ \A i \in DOMAIN message.content : message.content[i].type = "tool_result"

ToolUseIds(message) ==
    LET uses == SelectSeq(message.content, LAMBDA block : block.type = "tool_use")
    IN [i \in DOMAIN uses |-> uses[i].id]

\* Empty unless the message holds nothing but results.
ToolResultIds(message) ==
    IF ContainsOnlyToolResults(message) THEN [i \in DOMAIN message.content |-> message.content[i].id] ELSE << >>

\* The code compares the sorted lists.
SameIds(s, t) == ToBag(s) = ToBag(t)

\* hasBalancedToolUseSequence: one pass that looks back from results and forward from uses.
HasBalancedToolUseSequence(messages) ==
    \A i \in DOMAIN messages :
        /\ messages[i].role = "user" /\ ContainsOnlyToolResults(messages[i])
             => /\ i # 1
                /\ messages[i - 1].role = "assistant"
                /\ ToolUseIds(messages[i - 1]) # << >>
                /\ SameIds(ToolResultIds(messages[i]), ToolUseIds(messages[i - 1]))
        /\ messages[i].role = "assistant" /\ ToolUseIds(messages[i]) # << >>
             => /\ i + 1 \in DOMAIN messages
                /\ messages[i + 1].role = "user"
                /\ ContainsOnlyToolResults(messages[i + 1])

ValidSampling(r) ==
    /\ r.tools => "sampling.tools" \in Negotiated
    /\ \A i \in DOMAIN r.messages :
        LET m == r.messages[i] IN
          /\ m.role \in {"user", "assistant"}
          /\ m.role = "user" /\ ~ContainsOnlyToolResults(m)
               => \A j \in DOMAIN m.content : m.content[j].type # "tool_result"
    /\ HasBalancedToolUseSequence(r.messages)

-----------------------------------------------------------------------------
(* Forms, URLs and roots. *)

\* validateFormRequestedSchema: an object whose properties are all flat and primitive.
ValidFormSchema(schema) ==
    /\ schema.type = "object"
    /\ \A p \in schema.properties :
        p.type \in {"string", "integer", "number", "boolean"} /\ ~p.nested

\* validateFormResultContent.
FlatContent(content) == \A value \in content : value # "nested"

\* An accepted form needs flat content, any other answer must have none.
ValidFormResult(action, content) ==
    IF action = "accept" THEN content # << >> /\ FlatContent(content[1]) ELSE content = << >>

\* No digits is an empty text or one with another character; 0 is a valid port.
IsValidPort(port) == port.digits /\ port.value <= 65535

\* What follows the host, in brackets or not, is nothing, a port, or something else: a
\* second colon, a stray bracket.
IsValidAbsoluteUrlForElicitation(url) ==
    /\ ~url.blank /\ url.scheme = "valid" /\ url.host # "" /\ ~url.userinfo
    /\ url.after = "none" \/ (url.after = "port" /\ IsValidPort(url.port))

IsFileUri(uri) == uri.scheme = "file"

RootsAnswer(provided) ==
    CASE ~({"roots"} \subseteq Negotiated /\ "roots" \in Registered) -> "methodNotFound"
      [] provided = "throws" -> "internalError"
      [] OTHER -> IF \A uri \in provided : IsFileUri(uri) THEN "result" ELSE "internalError"

-----------------------------------------------------------------------------
(* What becomes of a request: it is refused, runs as a task, or goes to the handler on *)
(* the thread that dispatched it.                                                       *)

SamplingDisposition(r) ==
    CASE ~("sampling" \in Negotiated /\ "sampling" \in Registered) -> "methodNotFound"
      [] ~ValidSampling(r) -> "invalidParams"
      [] r.task /\ "tasks.samplingCreateMessage" \in Negotiated -> "task"
      [] OTHER -> "handler"

\* The part of the elicitation handler that follows the task, which the worker of a task
\* runs again without the task parameter.
ElicitationCheck(r) ==
    CASE r.mode = "form" /\ "elicitation.form" \notin Negotiated -> "invalidParams"
      [] r.mode = "form" /\ "form" \notin Registered -> "methodNotFound"
      [] r.mode = "form" /\ ~ValidFormSchema(r.schema) -> "invalidParams"
      [] r.mode = "url" /\ "elicitation.url" \notin Negotiated -> "invalidParams"
      [] r.mode = "url" /\ "url" \notin Registered -> "methodNotFound"
      [] r.mode = "url" /\ ~IsValidAbsoluteUrlForElicitation(r.url) -> "invalidParams"
      [] r.mode \notin {"form", "url"} -> "invalidParams"
      [] OTHER -> "handler"

\* A task is created before anything else of the request is looked at.
ElicitationDisposition(r) ==
    CASE "elicitation" \notin Negotiated -> "methodNotFound"
      [] r.task /\ "tasks.elicitationCreate" \in Negotiated -> "task"
      [] OTHER -> ElicitationCheck(r)

TasksDisposition(r) ==
    LET needed == CASE r.method = "tasks/list" -> "tasks.list" [] r.method = "tasks/cancel" -> "tasks.cancel"
                    [] OTHER -> "tasks"
    IN IF {"tasks", needed} \subseteq Negotiated THEN r.method ELSE "methodNotFound"

Disposition(r) ==
    CASE r.method = "ping" -> "result"
      [] r.method = "roots/list" -> RootsAnswer(r.provided)
      [] r.method = "sampling/createMessage" -> SamplingDisposition(r)
      [] r.method = "elicitation/create" -> ElicitationDisposition(r)
      [] r.method \in {"tasks/get", "tasks/result", "tasks/list", "tasks/cancel"} -> TasksDisposition(r)
      [] OTHER -> "methodNotFound"
=============================================================================
