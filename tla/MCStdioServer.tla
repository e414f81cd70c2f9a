---------------------------- MODULE MCStdioServer ----------------------------
(* The client, the runner's loop, the application and one tool task over a small registry. *)
EXTENDS StdioServer

Tool(handler, outputSchema, taskSupport) ==
    [handler |-> handler, outputSchema |-> outputSchema, taskSupport |-> taskSupport]
MCTools == [t \in {"asks", "edits", "throws"} |->
    CASE t = "asks" -> Tool("asks", FALSE, "optional")
      [] t = "edits" -> Tool("edits", FALSE, "forbidden")
      [] OTHER -> Tool("throws", TRUE, "required")]
MCResources == [r \in {"r1"} |-> "answers"]
MCPrompts == [p \in {"p1"} |-> [handler |-> "answers", arguments |-> {"a", "b"}, required |-> {"a"}]]

MCInitialRegistry == [e \in Endpoints |->
    CASE e = "tools" -> << "asks", "edits", "throws" >>
      [] e = "resources" -> << "r1" >>
      [] e = "resource_templates" -> << "t1" >> [] OTHER -> << "p1" >>]

MCEdits == [e \in Endpoints |->
    CASE e = "tools" -> {"throws"} [] e = "resources" -> {"r1"}
      [] e = "resource_templates" -> {"t1"} [] OTHER -> {"p1"}]

MCCapabilities == {"tools", "tools.listChanged", "resources", "resources.subscribe", "resources.listChanged",
                   "tasks", "tasks.toolsCall", "tasks.cancel", "logging",
                   "completions", "prompts", "prompts.listChanged"}

ToolCall(name, arguments, asTask) ==
    [method |-> "tools/call", name |-> name, arguments |-> arguments, task |-> asTask]
On(method, name) == [method |-> method, name |-> name]
MCCalls ==
    { ToolCall("asks", "valid", FALSE), ToolCall("asks", "valid", TRUE), ToolCall("edits", "valid", FALSE),
      ToolCall("throws", "valid", TRUE),
      On("completion/complete", "ref/prompt"), [method |-> "prompts/get", name |-> "p1", arguments |-> {"a"}],
      On("resources/subscribe", "r1"), On("resources/unsubscribe", "r1"), On("resources/read", "r1"),
      On("tasks/list", "all"), On("tasks/cancel", "task"), On("tasks/result", "task"),
      On("logging/setLevel", "error") }
=============================================================================
