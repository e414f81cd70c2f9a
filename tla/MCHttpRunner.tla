----------------------------- MODULE MCHttpRunner -----------------------------
(***************************************************************************)
(* Small instances of HttpRunner for TLC.                                  *)
(***************************************************************************)
EXTENDS HttpRunner
=============================================================================
