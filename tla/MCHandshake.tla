----------------------------- MODULE MCHandshake -----------------------------
(***************************************************************************)
(* Small instances of Handshake for TLC.                                   *)
(***************************************************************************)
EXTENDS Handshake

\* three protocol dates, of which each end supports two
EarlyAndMiddle == {1, 2}
MiddleAndLate == {2, 3}
NoVersionValue == -1
=============================================================================
