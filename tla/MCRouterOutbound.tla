--------------------------- MODULE MCRouterOutbound ---------------------------
(***************************************************************************)
(* A small instance of RouterOutbound for TLC.                             *)
(***************************************************************************)
EXTENDS RouterOutbound

\* the id task-augmented requests use; plain requests use it too, so it can be reused
TaskId == CHOOSE i \in Ids : TRUE

\* Timed requests that are cancelled on their timeout: one that reports progress, and plain
\* and task-augmented ones that share the other id.
MixedDescriptors ==
  { d \in Descriptor : /\ d.timed /\ d.cancelOnTimeout
                       /\ IF d.id = TaskId THEN d.kind \in {"plain", "task"} /\ d.token = NoToken
                          ELSE d.kind = "plain" /\ d.token # NoToken }
=============================================================================
