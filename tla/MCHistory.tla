----------------------------- MODULE MCHistory -----------------------------
(* Instance of History for TLC. *)
EXTENDS History
=============================================================================
