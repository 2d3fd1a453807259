-------------------------- MODULE MCEventPipeline --------------------------
(* Instances of EventPipeline for TLC. *)
EXTENDS EventPipeline

PowerTypes == {"ONBATT", "ONLINE"}

\* Every process stores rows under a name of its own.
OwnName == [p \in Procs |-> p]

\* Every process stores rows under the name of the one UPS there is.
OneName == [p \in Procs |-> "ups"]
=============================================================================
