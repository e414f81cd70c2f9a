----------------------------- MODULE MCTaskStore -----------------------------
(***************************************************************************)
(* Small instances of TaskStore for TLC.                                   *)
(***************************************************************************)
EXTENDS TaskStore, TLC

\* a negative ttl, one that has passed at once, and the largest
EdgeTtls == {-1, 0, 1}

TaskSymmetry == Permutations(Tasks) \cup Permutations(Workers) \cup Permutations(Waiters)
=============================================================================
