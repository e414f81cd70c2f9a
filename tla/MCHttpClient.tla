----------------------------- MODULE MCHttpClient -----------------------------
(***************************************************************************)
(* Small instances of HttpClient for TLC.                                  *)
(***************************************************************************)
EXTENDS HttpClient
=============================================================================
