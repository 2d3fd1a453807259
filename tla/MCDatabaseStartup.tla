------------------------- MODULE MCDatabaseStartup -------------------------
(* Instances of DatabaseStartup for TLC. *)
EXTENDS DatabaseStartup

CONSTANTS ups, rack, here, there
=============================================================================
