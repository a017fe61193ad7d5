----------------------------- MODULE MCHistory -----------------------------
(* History for TLC. *)
EXTENDS History
=============================================================================
