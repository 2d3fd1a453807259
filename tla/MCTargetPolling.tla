-------------------------- MODULE MCTargetPolling --------------------------
(* Instances of TargetPolling for TLC. *)
EXTENDS TargetPolling

OnLine    == [tokens |-> {"OL"}, charge |-> "ok"]
OnBattery == [tokens |-> {"OB"}, charge |-> "ok"]
Depleted  == [tokens |-> {"OB"}, charge |-> "low"]
Charging  == [tokens |-> {"CHRG"}, charge |-> "ok"]

EveryWakeUp == [t \in Targets |-> 1]
SecondSlow  == [t \in Targets |-> IF t = 2 THEN 2 ELSE 1]
LineSamples  == {OnLine}
PowerSamples == {OnLine, OnBattery, Depleted, Charging}
=============================================================================
