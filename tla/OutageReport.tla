---------------------------- MODULE OutageReport ----------------------------
(***************************************************************************)
(* What the poller promises its listeners about communication outages, per *)
(* target: an outage is announced once (COMMBAD), may be announced to have *)
(* become a loss of communication (NOCOMM), and ends with one COMMOK; and  *)
(* no COMMOK comes without an outage announced before it.                  *)
(***************************************************************************)
CONSTANT Targets
VARIABLE announced   \* announced[t]: how far the current outage was announced

Init == announced = [t \in Targets |-> "up"]

Report(t, from, to) ==
    /\ announced[t] \in from
    /\ announced' = [announced EXCEPT ![t] = to]

CommBad(t) == Report(t, {"up"}, "bad")
NoComm(t)  == Report(t, {"bad"}, "lost")
CommOk(t)  == Report(t, {"bad", "lost"}, "up")

Next == \E t \in Targets : CommBad(t) \/ NoComm(t) \/ CommOk(t)

Spec == Init /\ [][Next]_announced
=============================================================================
