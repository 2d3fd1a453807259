---------------------------- MODULE PowerEvents ----------------------------
(***************************************************************************)
(* core/multi_nut/power_events.py: what one poll of a target says about    *)
(* its communication link and about its power, given what the previous     *)
(* polls said.  The process keeps both memories per target; this module    *)
(* has the transition functions, TargetPolling owns the state.             *)
(***************************************************************************)
EXTENDS Naturals, Sequences

CONSTANTS CommBadThreshold,  \* NUTIFY_COMM_BAD_FAILURE_THRESHOLD
          NoCommThreshold    \* max(CommBadThreshold + 1, NUTIFY_NOCOMM_...)

ASSUME ThresholdAssumption ==
    /\ CommBadThreshold \in Nat \ {0}
    /\ NoCommThreshold \in Nat
    /\ NoCommThreshold > CommBadThreshold

CommEvents  == {"COMMBAD", "NOCOMM", "COMMOK"}
PowerAlarms == {"ONBATT", "ONLINE", "LOWBATT", "REPLBATT", "SHUTDOWN"}
Events      == CommEvents \cup PowerAlarms

-----------------------------------------------------------------------------
(* The communication debounce.                                             *)

\* The failure counter is only ever compared with the thresholds, so it may
\* stop at the larger one.
CommunicationState ==
    [failures : 0..NoCommThreshold, commBad : BOOLEAN, noComm : BOOLEAN]

\* A target with no entry in the dictionary behaves as one with this entry.
Fresh == [failures |-> 0, commBad |-> FALSE, noComm |-> FALSE]

\* The entry after one more failed poll.
AfterFailure(c) ==
    LET n == IF c.failures < NoCommThreshold THEN c.failures + 1
                                             ELSE NoCommThreshold
    IN  [failures |-> n,
         commBad  |-> c.commBad \/ n >= CommBadThreshold,
         noComm   |-> c.noComm  \/ n >= NoCommThreshold]

\* Faulty variant: COMMBAD on every failed poll past the threshold.
FailureEventsRepeated(c) ==
    LET d == AfterFailure(c)
    IN  (IF d.commBad THEN <<"COMMBAD">> ELSE <<>>)
     \o (IF d.noComm /\ ~c.noComm  THEN <<"NOCOMM">>  ELSE <<>>)

\* Faulty variant: the loss of communication is not reported.
FailureEventsOnlyBad(c) ==
    IF AfterFailure(c).commBad /\ ~c.commBad THEN <<"COMMBAD">> ELSE <<>>

\* What that poll reports: each communication event when its flag goes up.
FailureEvents(c) ==
    LET d == AfterFailure(c)
    IN  (IF d.commBad /\ ~c.commBad THEN <<"COMMBAD">> ELSE <<>>)
     \o (IF d.noComm  /\ ~c.noComm  THEN <<"NOCOMM">>  ELSE <<>>)

\* What a successful poll reports before it drops the entry.
SuccessEvents(c) == IF c.commBad THEN <<"COMMOK">> ELSE <<>>

-----------------------------------------------------------------------------
(* The power state read from a sample, and its edges.                      *)

Tokens == {"OL", "OB", "LB", "RB", "FSD", "CHRG"}

\* "none": neither charge nor low limit is reported; "low": both are and the
\* charge is at or under the limit; "ok": any other reading.
Sample == [tokens : SUBSET Tokens, charge : {"none", "ok", "low"}]

PowerState ==
    [seeded : BOOLEAN, onBattery : BOOLEAN, lowBattery : BOOLEAN,
     replaceBattery : BOOLEAN, forcedShutdown : BOOLEAN]

\* A target with no entry in the dictionary.
Unseeded ==
    [seeded |-> FALSE, onBattery |-> FALSE, lowBattery |-> FALSE,
     replaceBattery |-> FALSE, forcedShutdown |-> FALSE]

\* A sample says nothing about power when it is empty, or when its status
\* tokens name neither line nor battery operation.
Inconclusive(s) ==
    \/ s.tokens = {} /\ s.charge = "none"
    \/ s.tokens # {} /\ s.tokens \cap {"OL", "OB"} = {}

DerivedPowerState(s) ==
    [seeded         |-> TRUE,
     onBattery      |-> "OB" \in s.tokens,
     lowBattery     |-> \/ "LB" \in s.tokens
                        \/ "OB" \in s.tokens /\ s.charge = "low",
     replaceBattery |-> "RB" \in s.tokens,
     forcedShutdown |-> "FSD" \in s.tokens]

\* Faulty variant: a sample without line or battery token counts as on line.
AfterAnySample(prev, s) == DerivedPowerState(s)

AfterSample(prev, s) ==
    IF Inconclusive(s) THEN prev ELSE DerivedPowerState(s)

\* The first conclusive sample only seeds the memory.
TransitionEvents(prev, s) ==
    LET new == DerivedPowerState(s)
        Rising(was, is, e) == IF ~was /\ is THEN <<e>> ELSE <<>>
    IN  IF Inconclusive(s) \/ ~prev.seeded THEN <<>>
        ELSE Rising(prev.onBattery, new.onBattery, "ONBATT")
          \o Rising(new.onBattery, prev.onBattery, "ONLINE")
          \o Rising(prev.lowBattery, new.lowBattery, "LOWBATT")
          \o Rising(prev.replaceBattery, new.replaceBattery, "REPLBATT")
          \o Rising(prev.forcedShutdown, new.forcedShutdown, "SHUTDOWN")
=============================================================================
