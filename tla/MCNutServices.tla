--------------------------- MODULE MCNutServices ---------------------------
(* Instances of NutServices for TLC. *)
EXTENDS NutServices

CONSTANTS anna, ben, thread
=============================================================================
