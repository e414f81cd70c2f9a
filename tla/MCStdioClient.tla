---------------------------- MODULE MCStdioClient ----------------------------
(* One application, one worker, and a server that samples, elicits and asks for tasks. *)
EXTENDS StdioClient

MCNegotiated == {"roots", "sampling", "elicitation", "elicitation.form", "elicitation.url",
                 "tasks", "tasks.cancel", "tasks.samplingCreateMessage", "tasks.elicitationCreate"}
MCRegistered == {"roots", "sampling", "form", "url"}

Message(role, content) == [role |-> role, content |-> content]
Use(id) == [type |-> "tool_use", id |-> id]
Result(id) == [type |-> "tool_result", id |-> id]
Text == [type |-> "text", id |-> ""]

\* Turns of a sampling conversation, and the conversations the protocol allows: turns that
\* neither use tools nor give results, and exchanges of uses and their results.
Turns == {Message(role, content) : role \in {"assistant", "user"},
             content \in { << >>, << Text >>, << Use("a") >>, << Use("a"), Use("b") >>, << Result("a") >>,
                          << Result("b"), Result("a") >>, << Result("a"), Result("a") >>, << Result("a"), Text >> }}
Exchanges == {<< Message("assistant", << Use("a") >>), Message("user", << Result("a") >>) >>,
              << Message("assistant", << Use("a"), Use("b") >>), Message("user", << Result("b"), Result("a") >>) >>}
Neutral == {turn \in Turns :
              IF turn.role = "assistant" THEN \A i \in DOMAIN turn.content : turn.content[i].type # "tool_use"
              ELSE turn.content = << >> \/ \E i \in DOMAIN turn.content : turn.content[i].type # "tool_result"}
Balanced[n \in 0..3] ==
    IF n = 0 THEN {<< >>}
    ELSE {Append(s, turn) : s \in Balanced[n - 1], turn \in Neutral}
           \cup (IF n = 1 THEN {} ELSE {s \o exchange : s \in Balanced[n - 2], exchange \in Exchanges})

\* The one pass over the messages accepts just these.
ASSUME BalancedConversations ==
    \A n \in 0..3 : {s \in [1..n -> Turns] : HasBalancedToolUseSequence(s)} = Balanced[n]

Url(after) == [blank |-> FALSE, scheme |-> "valid", host |-> "h", userinfo |-> FALSE, after |-> after,
               port |-> [digits |-> TRUE, value |-> 65535]]
Elicitation(id, after, asTask) ==
    [id |-> id, method |-> "elicitation/create", mode |-> "url", url |-> Url(after), task |-> asTask]
About(id, method, of) == [id |-> id, method |-> method, mode |-> "none", about |-> of]

MCRequests == { Elicitation("u1", "port", TRUE), Elicitation("u2", "none", FALSE),
                About("t1", "tasks/result", "u1") }
MCConversations == {{"u1", "t1"}, {"u2"}}
MCFormResults == {[action |-> "accept", content |-> << {"flat"} >>], [action |-> "accept", content |-> << >>],
                  [action |-> "decline", content |-> << >>]}

=============================================================================
