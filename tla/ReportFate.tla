----------------------------- MODULE ReportFate -----------------------------
(***************************************************************************)
(* What the handling of events promises about each report, whatever fails: *)
(* it is suppressed, for the sake of a row that is there, or it is stored, *)
(* in one row and for good, and announced - once, and a second time only   *)
(* when it was stored; or it is announced without a row, and never stored. *)
(***************************************************************************)
EXTENDS Naturals

CONSTANT Reports
VARIABLES holds,  \* holds[r]: the rows of report r
          told,   \* told[r]: how often it was announced
          cover   \* cover[r]: the row it was suppressed for, 0 when none

Init ==
    /\ holds = [r \in Reports |-> {}]
    /\ told  = [r \in Reports |-> 0]
    /\ cover = [r \in Reports |-> 0]

Rows     == UNION {holds[r] : r \in Reports}
Fresh(r) == holds[r] = {} /\ told[r] = 0 /\ cover[r] = 0

Suppress(r) ==
    /\ Fresh(r)
    /\ \E i \in Rows : i # 0 /\ cover' = [cover EXCEPT ![r] = i]
    /\ UNCHANGED <<holds, told>>

Store(r) ==
    /\ Fresh(r)
    /\ \E i \in holds'[r] : i \notin Rows /\ holds' = [holds EXCEPT ![r] = {i}]
    /\ UNCHANGED <<told, cover>>

Announce(r) ==
    /\ cover[r] = 0
    /\ \/ told[r] = 0
       \/ told[r] = 1 /\ holds[r] # {}
    /\ told' = [told EXCEPT ![r] = @ + 1]
    /\ UNCHANGED <<holds, cover>>

Next == \E r \in Reports : Suppress(r) \/ Store(r) \/ Announce(r)

Spec == Init /\ [][Next]_<<holds, told, cover>>
=============================================================================
