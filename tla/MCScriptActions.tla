-------------------------- MODULE MCScriptActions --------------------------
(* Instances of ScriptActions for TLC. *)
EXTENDS ScriptActions
=============================================================================
