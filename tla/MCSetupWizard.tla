--------------------------- MODULE MCSetupWizard ---------------------------
(* Instances of SetupWizard for TLC: attic and cellar have local UPSs, *)
(* office is a client of a remote server.                              *)
EXTENDS SetupWizard, TLC

CONSTANTS anna, ben, attic, cellar, office

(* A file alone, or several that one cause reaches. *)
Disks == {{"upsd.conf"}, {"nut.conf", "upsd.users"}}

Symmetry == Permutations({anna, ben}) \cup Permutations({attic, cellar})
=============================================================================
