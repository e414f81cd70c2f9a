--------------------------- MODULE MCRouterInbound ---------------------------
(***************************************************************************)
(* A small instance of RouterInbound for TLC.                               *)
(***************************************************************************)
EXTENDS RouterInbound, TLC

\* Plain requests, which can be cancelled, and task-augmented ones, which cannot.
MixedDescriptors ==
  { d \in Descriptor : (d.kind = "plain" /\ d.token # NoToken) \/ (d.kind = "task" /\ d.token = NoToken) }

InboundSymmetry ==
  Permutations(Requests) \cup Permutations(Ids) \cup Permutations(Workers) \cup Permutations(Emitters)
=============================================================================
