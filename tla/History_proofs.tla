-------------------------- MODULE History_proofs --------------------------
(***************************************************************************)
(* Proofs about History: its types, that a minute is averaged once and     *)
(* from all of its answers, that its average is what its row shows, and    *)
(* that hours and days miss no minute, for any lengths of an hour and a    *)
(* day, any number of answers, snapshots, failed flushes and restarts.     *)
(***************************************************************************)
EXTENDS History, Integers, TLAPS

-----------------------------------------------------------------------------
(* Minutes, hours and days.                                                *)

LEMMA Division ==
    ASSUME NEW a \in Nat, NEW k \in Nat \ {0}
    PROVE  /\ a \div k \in Nat
           /\ a = k * (a \div k) + (a % k)
           /\ a % k \in 0..(k - 1)
OBVIOUS

LEMMA Multiples ==
    ASSUME NEW k \in Nat \ {0}, NEW p \in Nat, NEW q \in Nat, p > q
    PROVE  k * p >= k * q + k
OBVIOUS

(* A later minute is in no earlier hour.                                   *)
LEMMA DivisionMonotone ==
    ASSUME NEW a \in Nat, NEW b \in Nat, a <= b, NEW k \in Nat \ {0}
    PROVE  a \div k <= b \div k
<1>1. a = k * (a \div k) + (a % k) /\ a % k \in 0..(k - 1)
  BY Division
<1>2. b = k * (b \div k) + (b % k) /\ b % k \in 0..(k - 1)
  BY Division
<1>3. a \div k \in Nat /\ b \div k \in Nat
  BY Division
<1>4. ASSUME a \div k > b \div k
      PROVE  FALSE
  <2>1. k * (a \div k) >= k * (b \div k) + k
    BY <1>3, <1>4, Multiples
  <2> QED
    BY <1>1, <1>2, <2>1
<1> QED
  BY <1>3, <1>4

LEMMA HourTyped == \A m \in Minutes : HourOf(m) \in Hours
<1> TAKE m \in Minutes
<1>1. m \in Nat /\ MaxMinute \in Nat /\ m <= MaxMinute
  BY HistoryAssumption DEF Minutes
<1>2. /\ HourOf(m) \in Nat /\ HourOf(MaxMinute) \in Nat
      /\ HourOf(m) <= HourOf(MaxMinute)
  BY <1>1, HistoryAssumption, Division, DivisionMonotone DEF HourOf
<1> QED
  BY <1>2 DEF Hours

LEMMA DayTyped == \A h \in Hours : DayOf(h) \in Days
<1> TAKE h \in Hours
<1>1. HourOf(MaxMinute) \in Nat
  BY HistoryAssumption, Division DEF HourOf
<1>2. h \in Nat /\ h <= HourOf(MaxMinute)
  BY <1>1 DEF Hours
<1>3. /\ DayOf(h) \in Nat /\ DayOf(HourOf(MaxMinute)) \in Nat
      /\ DayOf(h) <= DayOf(HourOf(MaxMinute))
  BY <1>1, <1>2, HistoryAssumption, Division, DivisionMonotone DEF DayOf
<1> QED
  BY <1>3 DEF Days

-----------------------------------------------------------------------------
(* Storing a snapshot.                                                     *)

(* What went wrong is counted up to its bound.                             *)
LEMMA Counted ==
    ASSUME NEW f \in [lost : 0..MaxLost, skipped : 0..MaxSkipped]
    PROVE  /\ f.lost < MaxLost =>
                 /\ [f EXCEPT !.lost = @ + 1]
                        \in [lost : 0..MaxLost, skipped : 0..MaxSkipped]
                 /\ [f EXCEPT !.lost = @ + 1].lost # 0
           /\ f.skipped < MaxSkipped =>
                 /\ [f EXCEPT !.skipped = @ + 1]
                        \in [lost : 0..MaxLost, skipped : 0..MaxSkipped]
                 /\ [f EXCEPT !.skipped = @ + 1].lost = f.lost
                 /\ [f EXCEPT !.skipped = @ + 1].skipped # 0
  BY HistoryAssumption

LEMMA LosingCounts ==
    ASSUME TypeOK, Losing
    PROVE  /\ faults' \in [lost : 0..MaxLost, skipped : 0..MaxSkipped]
           /\ faults'.lost # 0
  BY Counted, Zenon DEF TypeOK, Losing

(* However far the rollups get, they stay rollups.                         *)
LEMMA RollUpTyped ==
    ASSUME TypeOK, NEW m \in Minutes, NEW id \in Nat, NEW depth \in 0..3,
           RollUp(m, id, depth)
    PROVE  /\ minuteRow' \in [Minutes -> Nat]
           /\ hourRow' \in [Hours -> [Minutes -> Nat]]
           /\ dayRow' \in [Days -> [Hours -> [Minutes -> Nat]]]
           /\ \A k \in Minutes : minuteRow'[k] \in {minuteRow[k], id}
<1>0. /\ minuteRow \in [Minutes -> Nat]
      /\ hourRow \in [Hours -> [Minutes -> Nat]]
      /\ dayRow \in [Days -> [Hours -> [Minutes -> Nat]]]
  BY DEF TypeOK
<1>1. /\ minuteRow' \in [Minutes -> Nat]
      /\ \A k \in Minutes : minuteRow'[k] \in {minuteRow[k], id}
  BY <1>0 DEF RollUp
<1> DEFINE h == HourOf(m)
           row == [k \in Minutes |-> IF HourOf(k) = h THEN minuteRow'[k] ELSE 0]
           col == [k \in Hours |-> IF DayOf(k) = DayOf(h) THEN hourRow'[k]
                                                         ELSE NoMinutes]
<1>2. row \in [Minutes -> Nat]
  BY <1>1
<1>3. hourRow' = hourRow \/ hourRow' = [hourRow EXCEPT ![h] = row]
  BY Zenon DEF RollUp
<1>4. hourRow' \in [Hours -> [Minutes -> Nat]]
  <2> HIDE DEF row, h
  <2> QED
    BY <1>0, <1>2, <1>3
<1>5. col \in [Hours -> [Minutes -> Nat]]
  BY <1>4 DEF NoMinutes
<1>6. dayRow' = dayRow \/ dayRow' = [dayRow EXCEPT ![DayOf(h)] = col]
  BY Zenon DEF RollUp
<1>7. dayRow' \in [Days -> [Hours -> [Minutes -> Nat]]]
  <2> HIDE DEF col, h
  <2> QED
    BY <1>0, <1>5, <1>6
<1> QED
  BY <1>1, <1>4, <1>7

(* A snapshot is added at the end; unless its rollups are given up, they   *)
(* are complete.                                                           *)
LEMMA RecordAdds ==
    ASSUME TypeOK, NEW m \in Minutes, NEW kind \in {"average", "now"},
           NEW count \in Nat, Record(m, kind, count)
    PROVE  /\ snapshots' \in Seq(Snapshot)
           /\ Len(snapshots') = Len(snapshots) + 1
           /\ \A i \in 1..Len(snapshots) : snapshots'[i] = snapshots[i]
           /\ snapshots'[Len(snapshots) + 1] =
                  [minute |-> m, kind |-> kind, count |-> count]
           /\ minuteRow' \in [Minutes -> Nat]
           /\ hourRow' \in [Hours -> [Minutes -> Nat]]
           /\ dayRow' \in [Days -> [Hours -> [Minutes -> Nat]]]
           /\ \A k \in Minutes : minuteRow'[k] <= Len(snapshots')
           /\ faults' \in [lost : 0..MaxLost, skipped : 0..MaxSkipped]
           /\ faults'.lost = faults.lost
           /\ faults'.skipped = 0 =>
                  /\ faults.skipped = 0
                  /\ RollUp(m, Len(snapshots) + 1, 3)
<1> DEFINE s == [minute |-> m, kind |-> kind, count |-> count]
<1>0. snapshots \in Seq(Snapshot) /\ Len(snapshots) \in Nat
  BY DEF TypeOK
<1>1. s \in Snapshot
  BY DEF Snapshot
<1>2. snapshots' = Append(snapshots, s)
  BY DEF Record
<1>3. /\ snapshots' \in Seq(Snapshot)
      /\ Len(snapshots') = Len(snapshots) + 1
      /\ \A i \in 1..Len(snapshots) : snapshots'[i] = snapshots[i]
      /\ snapshots'[Len(snapshots) + 1] = s
  <2> HIDE DEF s
  <2> QED
    BY <1>0, <1>1, <1>2
<1>4. /\ faults \in [lost : 0..MaxLost, skipped : 0..MaxSkipped]
      /\ \A k \in Minutes : minuteRow[k] \in Nat /\ minuteRow[k] <= Len(snapshots)
  BY DEF TypeOK
<1>5. CASE RollUp(m, Len(snapshots) + 1, 3) /\ UNCHANGED faults
  <2>1. Len(snapshots) + 1 \in Nat /\ 3 \in 0..3
    BY <1>0
  <2>2. /\ minuteRow' \in [Minutes -> Nat]
        /\ hourRow' \in [Hours -> [Minutes -> Nat]]
        /\ dayRow' \in [Days -> [Hours -> [Minutes -> Nat]]]
        /\ \A k \in Minutes : minuteRow'[k] \in {minuteRow[k], Len(snapshots) + 1}
    BY <1>5, <2>1, RollUpTyped
  <2>3. \A k \in Minutes : minuteRow'[k] <= Len(snapshots')
    <3> TAKE k \in Minutes
    <3>1. /\ minuteRow[k] \in Nat /\ minuteRow[k] <= Len(snapshots)
          /\ minuteRow'[k] = minuteRow[k] \/ minuteRow'[k] = Len(snapshots) + 1
      BY <1>4, <2>2
    <3>2. Len(snapshots') = Len(snapshots) + 1 /\ Len(snapshots) \in Nat
      BY <1>0, <1>3
    <3> QED
      BY <3>1, <3>2
  <2> QED
    BY <1>3, <1>4, <1>5, <2>2, <2>3
<1>6. CASE /\ faults.skipped < MaxSkipped
           /\ faults' = [faults EXCEPT !.skipped = @ + 1]
           /\ \E depth \in 0..2 : RollUp(m, Len(snapshots) + 1, depth)
  <2>1. PICK depth \in 0..2 : RollUp(m, Len(snapshots) + 1, depth)
    BY <1>6
  <2>2. Len(snapshots) + 1 \in Nat /\ depth \in 0..3
    BY <1>0
  <2>3. /\ minuteRow' \in [Minutes -> Nat]
        /\ hourRow' \in [Hours -> [Minutes -> Nat]]
        /\ dayRow' \in [Days -> [Hours -> [Minutes -> Nat]]]
        /\ \A k \in Minutes : minuteRow'[k] \in {minuteRow[k], Len(snapshots) + 1}
    BY <2>1, <2>2, RollUpTyped
  <2>4. \A k \in Minutes : minuteRow'[k] <= Len(snapshots')
    <3> TAKE k \in Minutes
    <3>1. /\ minuteRow[k] \in Nat /\ minuteRow[k] <= Len(snapshots)
          /\ minuteRow'[k] = minuteRow[k] \/ minuteRow'[k] = Len(snapshots) + 1
      BY <1>4, <2>3
    <3>2. Len(snapshots') = Len(snapshots) + 1 /\ Len(snapshots) \in Nat
      BY <1>0, <1>3
    <3> QED
      BY <3>1, <3>2
  <2>5. /\ faults' \in [lost : 0..MaxLost, skipped : 0..MaxSkipped]
        /\ faults'.lost = faults.lost /\ faults'.skipped # 0
    BY <1>4, <1>6, Counted
  <2> QED
    BY <1>3, <2>3, <2>4, <2>5
<1> QED
  BY <1>5, <1>6 DEF Record

-----------------------------------------------------------------------------
(* Types.                                                                  *)

LEMMA InitTyped == Init => TypeOK
<1> SUFFICES ASSUME Init PROVE TypeOK
  OBVIOUS
<1>1. 0 \in Minutes
  BY HistoryAssumption DEF Minutes
<1>2. NoMinutes \in [Minutes -> Nat]
  BY DEF NoMinutes
<1>3. NoHours \in [Hours -> [Minutes -> Nat]]
  BY <1>2 DEF NoHours
<1>4. snapshots \in Seq(Snapshot) /\ Len(snapshots) = 0
  BY DEF Init
<1>5. minuteRow \in [Minutes -> Nat] /\ \A m \in Minutes : minuteRow[m] = 0
  BY DEF Init, NoMinutes
<1>6. faults \in [lost : 0..MaxLost, skipped : 0..MaxSkipped]
  BY HistoryAssumption DEF Init
<1> QED
  BY <1>1, <1>2, <1>3, <1>4, <1>5, <1>6 DEF Init, TypeOK, Nothing

LEMMA StepTyped == TypeOK /\ [Next]_vars => TypeOK'
<1> SUFFICES ASSUME TypeOK, [Next]_vars PROVE TypeOK'
  OBVIOUS
<1> USE HistoryAssumption
<1>0. /\ Nothing \in [minute : Minutes, count : Nat]
      /\ \A m \in Minutes : m \in Nat
  BY DEF Nothing, Minutes
<1>1. CASE Tick
  <2>1. now' \in Minutes
    BY <1>1 DEF Tick, TypeOK, Minutes
  <2> QED
    BY <1>1, <2>1 DEF Tick, TypeOK, poll, buffer, rollups
<1>2. CASE PollNow
  <2>1. PICK count \in {0, 1} : Record(now, "now", count)
    BY <1>2 DEF PollNow
  <2>2. now \in Minutes /\ count \in Nat
    BY DEF TypeOK
  <2> QED
    BY <1>2, <2>1, <2>2, RecordAdds DEF PollNow, TypeOK, poll, buffer
<1>3. CASE Restart
  BY <1>0, <1>3, LosingCounts DEF Restart, TypeOK, rollups
<1>4. CASE StartPoll
  BY <1>4 DEF StartPoll, TypeOK, buffer, rollups
<1>5. CASE NothingDue
  BY <1>5 DEF NothingDue, TypeOK, rollups
<1>6. CASE PopMinute
  BY <1>6 DEF PopMinute, MinuteDue, TypeOK, rollups
<1>7. CASE StoreAverage
  <2>1. popped.minute \in Minutes /\ popped.count \in Nat
    BY DEF TypeOK
  <2>2. Record(popped.minute, "average", popped.count)
    BY <1>7 DEF StoreAverage
  <2> QED
    BY <1>0, <1>7, <2>1, <2>2, RecordAdds DEF StoreAverage, TypeOK
<1>8. CASE FlushFails
  BY <1>0, <1>8, LosingCounts DEF FlushFails, TypeOK, rollups
<1>9. CASE Answers
  BY <1>9 DEF Answers, TypeOK, rollups
<1>10. CASE NotConfirmed
  BY <1>10 DEF NotConfirmed, TypeOK, buffer, rollups
<1>11. CASE Outage
  <2>1. at \in Minutes /\ 0 \in Nat
    BY DEF TypeOK
  <2>2. Record(at, "now", 0)
    BY <1>11 DEF Outage
  <2> QED
    BY <1>11, <2>1, <2>2, RecordAdds DEF Outage, TypeOK, buffer
<1>12. CASE UNCHANGED vars
  BY <1>12 DEF vars, poll, buffer, rollups, TypeOK
<1> QED
  BY <1>1, <1>2, <1>3, <1>4, <1>5, <1>6, <1>7, <1>8, <1>9, <1>10, <1>11,
     <1>12 DEF Next

(* Every reachable state is well typed: the rows of the rollups name       *)
(* snapshots that exist, and minutes, hours and days within the bounds.    *)
THEOREM TypeCorrect == Spec => []TypeOK
<1> QED
  BY InitTyped, StepTyped, PTL DEF Spec

-----------------------------------------------------------------------------
(* Averages.  The minutes that were averaged lie before the one whose      *)
(* samples are taken out, and that before the one in the buffer, which is  *)
(* not after the poll; no answer is counted for a minute that is neither.  *)

Timeline ==
    /\ at <= now
    /\ bucket # None => bucket <= at
    /\ bucket = None => samples = 0
    /\ stage = "record" => popped.minute < at /\ bucket = at
    /\ stage = "query" => bucket = at

AveragesAreOver ==
    \A i \in 1..Len(snapshots) :
        snapshots[i].kind = "average" =>
            /\ snapshots[i].minute < at
            /\ bucket # None => snapshots[i].minute < bucket
            /\ stage = "record" => snapshots[i].minute < popped.minute

AveragedOnce ==
    \A i, j \in 1..Len(snapshots) :
        /\ snapshots[i].kind = "average"
        /\ snapshots[j].kind = "average"
        /\ snapshots[i].minute = snapshots[j].minute
        => i = j

\* Where the answers to the polls of a minute are.
Kept(m) ==
    /\ bucket = m => answered[m] = samples
    /\ bucket # m /\ stage = "record" /\ popped.minute = m =>
           answered[m] = popped.count
    /\ bucket # m /\ ~(stage = "record" /\ popped.minute = m) =>
           /\ AveragesOf(m) = {} => answered[m] = 0
           /\ \A i \in AveragesOf(m) : answered[m] = snapshots[i].count

AveragesInv ==
    /\ Timeline /\ AveragesAreOver /\ AveragedOnce
    /\ faults.lost = 0 => \A m \in Minutes : Kept(m)
    /\ AverageWins

LEMMA Averages ==
    ASSUME TypeOK
    PROVE  \A m : AveragesOf(m) = {i \in 1..Len(snapshots) :
                                      /\ snapshots[i].kind = "average"
                                      /\ snapshots[i].minute = m}
  BY DEF TypeOK, AveragesOf

LEMMA Numbers ==
    ASSUME TypeOK
    PROVE  /\ now \in Nat /\ at \in Nat /\ bucket \in Nat \cup {None}
           /\ popped.minute \in Nat /\ popped.count \in Nat /\ samples \in Nat
           /\ \A i \in 1..Len(snapshots) : snapshots[i].minute \in Nat
<1>1. \A m \in Minutes : m \in Nat
  BY HistoryAssumption DEF Minutes
<1>2. now \in Nat /\ at \in Nat /\ bucket \in Nat \cup {None} /\ samples \in Nat
  BY <1>1 DEF TypeOK
<1>3. popped \in [minute : Minutes, count : Nat]
  BY DEF TypeOK
<1>4. popped.minute \in Nat /\ popped.count \in Nat
  BY <1>1, <1>3
<1>5. snapshots \in Seq(Snapshot)
  BY DEF TypeOK
<1>6. \A i \in 1..Len(snapshots) : snapshots[i] \in Snapshot
  BY <1>5
<1>7. \A s \in Snapshot : s.minute \in Nat
  BY <1>1 DEF Snapshot
<1> QED
  BY <1>2, <1>4, <1>6, <1>7

LEMMA NextNumbers ==
    ASSUME TypeOK'
    PROVE  /\ now' \in Nat /\ at' \in Nat /\ bucket' \in Nat \cup {None}
           /\ popped'.minute \in Nat
<1>1. \A m \in Minutes : m \in Nat
  BY HistoryAssumption DEF Minutes
<1>2. now' \in Nat /\ at' \in Nat /\ bucket' \in Nat \cup {None}
  BY <1>1 DEF TypeOK
<1>3. popped' \in [minute : Minutes, count : Nat]
  BY DEF TypeOK
<1> QED
  BY <1>1, <1>2, <1>3

LEMMA InitAverages == Init => AveragesInv
<1> SUFFICES ASSUME Init PROVE AveragesInv
  OBVIOUS
<1>1. snapshots = <<>> /\ Len(snapshots) = 0 /\ DOMAIN snapshots = {}
  BY DEF Init
<1>2. \A m : AveragesOf(m) = {}
  BY <1>1 DEF AveragesOf
<1>3. \A m \in Minutes : m # None
  BY HistoryAssumption DEF Minutes
<1>4. \A m \in Minutes : Kept(m)
  BY <1>2, <1>3 DEF Init, Kept
<1>5. Timeline
  BY DEF Init, Timeline
<1>6. AveragesAreOver /\ AveragedOnce
  BY <1>1 DEF AveragesAreOver, AveragedOnce
<1> QED
  BY <1>2, <1>4, <1>5, <1>6 DEF AveragesInv, AverageWins

(* A step that adds no snapshot and goes on to a buffer and a poll that    *)
(* are not before those there were keeps what is said of averages.         *)
LEMMA NoSnapshotKeeps ==
    ASSUME TypeOK, TypeOK', AveragesInv, UNCHANGED <<snapshots, minuteRow>>,
           faults'.skipped = faults.skipped,
           at <= at',
           bucket' # None => bucket' = at' \/ bucket' = bucket,
           stage' = "record" =>
               \/ stage = "record" /\ popped' = popped
               \/ bucket # None /\ popped'.minute = bucket
    PROVE  /\ AveragesAreOver' /\ AveragedOnce' /\ AverageWins'
           /\ \A m : AveragesOf(m)' = AveragesOf(m)
<1> USE HistoryAssumption
<1>1. /\ at \in Nat /\ at' \in Nat /\ bucket \in Nat \cup {None}
      /\ bucket' \in Nat \cup {None} /\ popped.minute \in Nat
      /\ popped'.minute \in Nat
  BY Numbers, NextNumbers
<1>2. \A i \in 1..Len(snapshots) : snapshots[i].minute \in Nat
  BY Numbers
<1>3. AveragesAreOver'
  <2> SUFFICES ASSUME NEW i \in 1..Len(snapshots),
                      snapshots[i].kind = "average"
               PROVE  /\ snapshots[i].minute < at'
                      /\ bucket' # None => snapshots[i].minute < bucket'
                      /\ stage' = "record" => snapshots[i].minute < popped'.minute
    BY DEF AveragesAreOver
  <2>1. /\ snapshots[i].minute < at
        /\ bucket # None => snapshots[i].minute < bucket
        /\ stage = "record" => snapshots[i].minute < popped.minute
    BY DEF AveragesInv, AveragesAreOver
  <2> QED
    BY <1>1, <1>2, <2>1
<1>4. AveragedOnce'
  BY DEF AveragesInv, AveragedOnce
<1>5. \A m : AveragesOf(m)' = AveragesOf(m)
  BY DEF AveragesOf
<1>6. AverageWins'
  BY <1>5 DEF AveragesInv, AverageWins
<1> QED
  BY <1>3, <1>4, <1>5, <1>6

(* A snapshot of an outage or a user changes no average.                   *)
LEMMA SnapshotNowKeeps ==
    ASSUME TypeOK, TypeOK', AveragesInv, NEW m \in Minutes, at <= m,
           NEW count \in Nat, Record(m, "now", count),
           UNCHANGED <<now, at, buffer, answered>>,
           stage' = stage \/ (stage = "query" /\ stage' = "idle")
    PROVE  AveragesInv'
<1> USE HistoryAssumption
<1> DEFINE n == Len(snapshots)
<1>0. n \in Nat /\ snapshots \in Seq(Snapshot) /\ snapshots' \in Seq(Snapshot)
  BY DEF TypeOK
<1>1. /\ Len(snapshots') = n + 1
      /\ \A i \in 1..n : snapshots'[i] = snapshots[i]
      /\ snapshots'[n + 1] = [minute |-> m, kind |-> "now", count |-> count]
      /\ faults'.lost = faults.lost
      /\ faults'.skipped = 0 => faults.skipped = 0 /\ RollUp(m, n + 1, 3)
  BY RecordAdds
<1>2. UNCHANGED <<now, at, bucket, samples, popped, answered>>
  BY DEF buffer
<1> HIDE DEF n
<1>3. \A i \in 1..Len(snapshots') :
          snapshots'[i].kind = "average" =>
              i \in 1..n /\ snapshots'[i] = snapshots[i]
  <2> TAKE i \in 1..Len(snapshots')
  <2>1. CASE i \in 1..n
    BY <1>1, <2>1
  <2>2. CASE i = n + 1
    <3>1. snapshots'[i].kind = "now"
      BY <1>1, <2>2
    <3> QED
      BY <3>1
  <2> QED
    BY <1>0, <1>1, <2>1, <2>2
<1>4. Timeline'
  BY <1>2 DEF AveragesInv, Timeline
<1>5. AveragesAreOver'
  <2> SUFFICES ASSUME NEW i \in 1..Len(snapshots'),
                      snapshots'[i].kind = "average"
               PROVE  /\ snapshots'[i].minute < at'
                      /\ bucket' # None => snapshots'[i].minute < bucket'
                      /\ stage' = "record" => snapshots'[i].minute < popped'.minute
    BY DEF AveragesAreOver
  <2>1. i \in 1..n /\ snapshots'[i] = snapshots[i]
    BY <1>3
  <2>2. /\ snapshots[i].minute < at
        /\ bucket # None => snapshots[i].minute < bucket
        /\ stage = "record" => snapshots[i].minute < popped.minute
    BY <2>1 DEF AveragesInv, AveragesAreOver, n
  <2> QED
    BY <1>2, <2>1, <2>2
<1>6. AveragedOnce'
  BY <1>3 DEF AveragesInv, AveragedOnce, n
<1>7. \A k : AveragesOf(k)' = AveragesOf(k)
  <2> TAKE k
  <2>1. AveragesOf(k) = {i \in 1..n : /\ snapshots[i].kind = "average"
                                      /\ snapshots[i].minute = k}
    BY Averages DEF n
  <2>2. AveragesOf(k)' = {i \in 1..Len(snapshots') :
                              /\ snapshots'[i].kind = "average"
                              /\ snapshots'[i].minute = k}
    BY <1>0 DEF AveragesOf
  <2>3. 1..n \subseteq 1..Len(snapshots')
    BY <1>0, <1>1
  <2> QED
    BY <1>1, <1>3, <2>1, <2>2, <2>3
<1>8. faults'.lost = 0 => \A k \in Minutes : Kept(k)'
  <2> SUFFICES ASSUME faults'.lost = 0, NEW k \in Minutes PROVE Kept(k)'
    OBVIOUS
  <2>1. Kept(k)
    BY <1>1 DEF AveragesInv
  <2>2. \A i \in AveragesOf(k) : snapshots'[i].count = snapshots[i].count
    BY <1>1, Averages DEF n
  <2> QED
    BY <1>2, <1>7, <2>1, <2>2 DEF Kept
<1>9. AverageWins'
  <2> SUFFICES ASSUME faults'.skipped = 0, NEW k \in Minutes,
                      NEW i \in AveragesOf(k)
               PROVE  minuteRow'[k] = i
    BY <1>7 DEF AverageWins
  <2>1. minuteRow[k] = i
    BY <1>1 DEF AveragesInv, AverageWins
  <2>2. i \in 1..n /\ snapshots[i].kind = "average" /\ snapshots[i].minute = k
    BY Averages DEF n
  <2>3. k < at
    BY <2>2 DEF AveragesInv, AveragesAreOver, n
  <2>4. k # m
    BY <2>3 DEF TypeOK, Minutes
  <2>5. minuteRow' = [minuteRow EXCEPT ![m] = n + 1]
    BY <1>1 DEF RollUp
  <2> QED
    BY <2>1, <2>4, <2>5 DEF TypeOK
<1> QED
  BY <1>4, <1>5, <1>6, <1>8, <1>9 DEF AveragesInv

(* The average of a minute that is over is its first.                      *)
LEMMA StoreAverageKeeps == TypeOK /\ TypeOK' /\ AveragesInv /\ StoreAverage => AveragesInv'
<1> SUFFICES ASSUME TypeOK, TypeOK', AveragesInv, StoreAverage PROVE AveragesInv'
  OBVIOUS
<1> USE HistoryAssumption
<1> DEFINE n == Len(snapshots)
           p == popped.minute
<1>0. /\ n \in Nat /\ snapshots \in Seq(Snapshot) /\ snapshots' \in Seq(Snapshot)
      /\ p \in Minutes /\ p \in Nat /\ popped.count \in Nat
      /\ at \in Nat
  BY DEF TypeOK, Minutes
<1>1. /\ Len(snapshots') = n + 1
      /\ \A i \in 1..n : snapshots'[i] = snapshots[i]
      /\ snapshots'[n + 1] = [minute |-> p, kind |-> "average", count |-> popped.count]
      /\ faults'.lost = faults.lost
      /\ faults'.skipped = 0 => faults.skipped = 0 /\ RollUp(p, n + 1, 3)
  BY <1>0, RecordAdds DEF StoreAverage
<1>2. /\ UNCHANGED <<now, at, bucket, samples, answered>>
      /\ stage = "record" /\ stage' = "query"
      /\ p < at /\ bucket = at
  BY DEF StoreAverage, AveragesInv, Timeline
<1> HIDE DEF n
<1>3. \A i \in 1..n : snapshots[i].kind = "average" => snapshots[i].minute < p
  BY <1>2 DEF AveragesInv, AveragesAreOver, n
<1>4. \A i \in 1..n : snapshots[i].minute \in Nat
  BY Numbers DEF n
<1> HIDE DEF p
<1>5. /\ snapshots'[n + 1].minute = p /\ snapshots'[n + 1].kind = "average"
      /\ snapshots'[n + 1].count = popped.count
      /\ \A i : i \in 1..Len(snapshots') <=> i \in 1..n \/ i = n + 1
      /\ n + 1 \notin 1..n
  BY <1>0, <1>1
<1>6. Timeline'
  BY <1>2 DEF AveragesInv, Timeline
<1>7. AveragesAreOver'
  <2> SUFFICES ASSUME NEW i \in 1..Len(snapshots'),
                      snapshots'[i].kind = "average"
               PROVE  snapshots'[i].minute < at
    BY <1>2 DEF AveragesAreOver
  <2>1. CASE i = n + 1
    BY <1>2, <1>5, <2>1
  <2>2. CASE i \in 1..n
    BY <1>0, <1>1, <1>2, <1>3, <1>4, <2>2
  <2> QED
    BY <1>5, <2>1, <2>2
<1>8. AveragedOnce'
  <2> SUFFICES ASSUME NEW i \in 1..Len(snapshots'), NEW j \in 1..Len(snapshots'),
                      snapshots'[i].kind = "average", snapshots'[j].kind = "average",
                      snapshots'[i].minute = snapshots'[j].minute
               PROVE  i = j
    BY DEF AveragedOnce
  <2>1. CASE i \in 1..n /\ j \in 1..n
    BY <1>1, <2>1 DEF AveragesInv, AveragedOnce, n
  <2>2. CASE i \in 1..n /\ j = n + 1
    BY <1>0, <1>1, <1>3, <1>4, <1>5, <2>2
  <2>3. CASE j \in 1..n /\ i = n + 1
    BY <1>0, <1>1, <1>3, <1>4, <1>5, <2>3
  <2> QED
    BY <1>5, <2>1, <2>2, <2>3
<1>9. AveragesOf(p) = {}
  BY <1>0, <1>3, Averages DEF n
<1>10. \A k : AveragesOf(k)' = IF k = p THEN {n + 1} ELSE AveragesOf(k)
  <2> TAKE k
  <2>1. AveragesOf(k) = {i \in 1..n : /\ snapshots[i].kind = "average"
                                      /\ snapshots[i].minute = k}
    BY Averages DEF n
  <2>2. AveragesOf(k)' = {i \in 1..Len(snapshots') :
                              /\ snapshots'[i].kind = "average"
                              /\ snapshots'[i].minute = k}
    BY <1>0 DEF AveragesOf
  <2> QED
    BY <1>1, <1>5, <1>9, <2>1, <2>2
<1>11. faults'.lost = 0 => \A k \in Minutes : Kept(k)'
  <2> SUFFICES ASSUME faults'.lost = 0, NEW k \in Minutes PROVE Kept(k)'
    OBVIOUS
  <2>1. Kept(k)
    BY <1>1 DEF AveragesInv
  <2>2. CASE k = p
    <3>1. bucket # k /\ answered[k] = popped.count
      BY <1>0, <1>2, <2>1, <2>2 DEF Kept, p
    <3> QED
      BY <1>2, <1>5, <1>10, <2>2, <3>1 DEF Kept
  <2>3. CASE k # p
    <3>1. \A i \in AveragesOf(k) : snapshots'[i].count = snapshots[i].count
      BY <1>1, Averages DEF n
    <3> QED
      BY <1>2, <1>10, <2>1, <2>3, <3>1 DEF Kept, p
  <2> QED
    BY <2>2, <2>3
<1>12. AverageWins'
  <2> SUFFICES ASSUME faults'.skipped = 0, NEW k \in Minutes,
                      NEW i \in AveragesOf(k)'
               PROVE  minuteRow'[k] = i
    BY DEF AverageWins
  <2>1. minuteRow' = [minuteRow EXCEPT ![p] = n + 1]
    BY <1>1 DEF RollUp
  <2>2. CASE k = p
    BY <1>10, <2>1, <2>2 DEF TypeOK
  <2>3. CASE k # p
    BY <1>1, <1>10, <2>1, <2>3 DEF TypeOK, AveragesInv, AverageWins
  <2> QED
    BY <2>2, <2>3
<1> QED
  BY <1>6, <1>7, <1>8, <1>11, <1>12 DEF AveragesInv

LEMMA StepAverages ==
    TypeOK /\ TypeOK' /\ AveragesInv /\ [Next]_vars => AveragesInv'
<1> SUFFICES ASSUME TypeOK, TypeOK', AveragesInv, [Next]_vars PROVE AveragesInv'
  OBVIOUS
<1> USE HistoryAssumption
<1>0. /\ now \in Nat /\ at \in Nat /\ now' \in Nat /\ at' \in Nat
      /\ bucket \in Nat \cup {None} /\ samples \in Nat /\ None \notin Nat
      /\ popped.minute \in Nat /\ popped.count \in Nat
      /\ now \in Minutes /\ at \in Minutes
      /\ answered \in [Minutes -> Nat]
  BY Numbers, NextNumbers DEF TypeOK
<1>t. Timeline
  BY DEF AveragesInv
\* No answer was given for a minute after the buffer's.
<1>n. ASSUME NEW m \in Minutes, faults.lost = 0, m = at, bucket # at,
             stage # "record"
      PROVE  answered[m] = 0
  <2>1. AveragesOf(m) = {}
    BY <1>n, <1>0, Averages DEF AveragesInv, AveragesAreOver
  <2> QED
    BY <1>n, <2>1 DEF AveragesInv, Kept
<1>1. CASE Tick
  <2>1. Timeline'
    BY <1>0, <1>1, <1>t DEF Tick, poll, buffer, Timeline
  <2>2. /\ AveragesAreOver' /\ AveragedOnce' /\ AverageWins'
        /\ \A m : AveragesOf(m)' = AveragesOf(m)
    BY <1>0, <1>1, NoSnapshotKeeps DEF Tick, poll, buffer, rollups
  <2>3. \A m \in Minutes : Kept(m) => Kept(m)'
    BY <1>1, <2>2 DEF Kept, Tick, poll, buffer
  <2> QED
    BY <1>1, <2>1, <2>2, <2>3 DEF AveragesInv, Tick
<1>2. CASE PollNow
  <2>1. PICK count \in {0, 1} : Record(now, "now", count)
    BY <1>2 DEF PollNow
  <2>2. count \in Nat /\ at <= now
    BY <1>t DEF Timeline
  <2>3. UNCHANGED <<now, at, buffer, answered>> /\ stage' = stage
    BY <1>2 DEF PollNow, poll
  <2>4. now \in Minutes /\ count \in Nat /\ at <= now
    BY <1>0, <2>2
  <2> QED
    BY <2>1, <2>3, <2>4, SnapshotNowKeeps, Zenon
<1>3. CASE Restart
  <2>1. Timeline'
    BY <1>0, <1>3, <1>t DEF Restart, Timeline
  <2>2. faults'.skipped = faults.skipped /\ faults'.lost # 0
    BY <1>3, LosingCounts DEF Restart, Losing, TypeOK
  <2>3. /\ UNCHANGED <<at, snapshots, minuteRow>>
        /\ bucket' = None /\ stage' # "record" /\ at <= at'
    BY <1>0, <1>3 DEF Restart, rollups
  <2>4. AveragesAreOver' /\ AveragedOnce' /\ AverageWins'
    BY <2>2, <2>3, NoSnapshotKeeps
  <2> QED
    BY <2>1, <2>2, <2>4 DEF AveragesInv
<1>4. CASE StartPoll
  <2>1. Timeline'
    BY <1>0, <1>4, <1>t DEF StartPoll, buffer, Timeline
  <2>2. /\ AveragesAreOver' /\ AveragedOnce' /\ AverageWins'
        /\ \A m : AveragesOf(m)' = AveragesOf(m)
    BY <1>0, <1>4, <1>t, NoSnapshotKeeps DEF StartPoll, Timeline, buffer, rollups
  <2>3. \A m \in Minutes : Kept(m) => Kept(m)'
    BY <1>4, <2>2 DEF Kept, StartPoll, buffer
  <2> QED
    BY <1>4, <2>1, <2>2, <2>3 DEF AveragesInv, StartPoll
<1>5. CASE NothingDue
  <2>1. bucket' = at /\ (bucket # at => samples = 0)
    BY <1>0, <1>5, <1>t DEF NothingDue, MinuteDue, Timeline
  <2>2. Timeline'
    BY <1>0, <1>5, <1>t, <2>1 DEF NothingDue, Timeline
  <2>3. /\ AveragesAreOver' /\ AveragedOnce' /\ AverageWins'
        /\ \A m : AveragesOf(m)' = AveragesOf(m)
    BY <1>0, <1>5, <2>1, NoSnapshotKeeps DEF NothingDue, rollups
  <2>4. ASSUME faults.lost = 0, NEW m \in Minutes PROVE Kept(m)'
    <3>1. Kept(m)
      BY <2>4 DEF AveragesInv
    <3>2. UNCHANGED <<at, samples, popped, snapshots, answered>>
          /\ stage = "flush" /\ stage' = "query"
      BY <1>5 DEF NothingDue
    <3>3. CASE m = at
      <4>1. answered[m] = samples
        BY <1>n, <2>1, <2>4, <3>1, <3>2, <3>3 DEF Kept
      <4> QED
        BY <2>1, <3>2, <3>3, <4>1 DEF Kept
    <3>4. CASE m # at /\ m = bucket
      <4>1. AveragesOf(m) = {}
        BY <1>0, <3>4, Averages, Numbers DEF AveragesInv, AveragesAreOver
      <4>2. answered[m] = 0
        BY <2>1, <3>1, <3>4 DEF Kept
      <4> QED
        BY <2>1, <2>3, <3>2, <3>4, <4>1, <4>2 DEF Kept
    <3>5. CASE m # at /\ m # bucket
      BY <2>1, <2>3, <3>1, <3>2, <3>5 DEF Kept
    <3> QED
      BY <3>3, <3>4, <3>5
  <2> QED
    BY <1>5, <2>2, <2>3, <2>4 DEF AveragesInv, NothingDue
<1>6. CASE PopMinute
  <2>1. /\ bucket # None /\ bucket < at /\ popped'.minute = bucket
        /\ popped'.count = samples /\ bucket' = at /\ samples' = 0
        /\ UNCHANGED <<now, at, snapshots, minuteRow, answered, faults>>
        /\ stage = "flush" /\ stage' = "record"
    BY <1>0, <1>6 DEF PopMinute, MinuteDue, rollups
  <2>2. Timeline'
    BY <1>0, <1>t, <2>1 DEF Timeline
  <2>3. /\ AveragesAreOver' /\ AveragedOnce' /\ AverageWins'
        /\ \A m : AveragesOf(m)' = AveragesOf(m)
    BY <1>0, <2>1, NoSnapshotKeeps
  <2>4. ASSUME faults.lost = 0, NEW m \in Minutes PROVE Kept(m)'
    <3>1. Kept(m)
      BY <2>4 DEF AveragesInv
    <3>2. CASE m = at
      <4>1. answered[m] = 0
        BY <1>0, <1>n, <2>1, <2>4, <3>2
      <4> QED
        BY <1>0, <2>1, <3>2, <4>1 DEF Kept
    <3>3. CASE m = bucket
      BY <1>0, <2>1, <3>1, <3>3 DEF Kept
    <3>4. CASE m # at /\ m # bucket
      BY <2>1, <2>3, <3>1, <3>4 DEF Kept
    <3> QED
      BY <3>2, <3>3, <3>4
  <2> QED
    BY <2>1, <2>2, <2>3, <2>4 DEF AveragesInv
<1>7. CASE StoreAverage
  BY <1>7, StoreAverageKeeps
<1>8. CASE FlushFails
  <2>1. Timeline'
    BY <1>0, <1>8, <1>t DEF FlushFails, Timeline
  <2>2. faults'.skipped = faults.skipped /\ faults'.lost # 0
    BY <1>8, LosingCounts DEF FlushFails, Losing, TypeOK
  <2>3. AveragesAreOver' /\ AveragedOnce' /\ AverageWins'
    BY <1>0, <1>8, <2>2, NoSnapshotKeeps DEF FlushFails, rollups
  <2> QED
    BY <2>1, <2>2, <2>3 DEF AveragesInv
<1>9. CASE Answers
  <2>1. /\ stage = "query" /\ stage' = "idle" /\ bucket = at /\ bucket' = at
        /\ samples' = samples + 1
        /\ answered' = [answered EXCEPT ![at] = @ + 1]
        /\ UNCHANGED <<now, at, popped, snapshots, minuteRow, faults>>
    BY <1>0, <1>9, <1>t DEF Answers, Timeline, rollups
  <2>2. Timeline'
    BY <1>0, <1>t, <2>1 DEF Timeline
  <2>3. /\ AveragesAreOver' /\ AveragedOnce' /\ AverageWins'
        /\ \A m : AveragesOf(m)' = AveragesOf(m)
    BY <1>0, <2>1, NoSnapshotKeeps
  <2>4. ASSUME faults.lost = 0, NEW m \in Minutes PROVE Kept(m)'
    <3>1. Kept(m)
      BY <2>4 DEF AveragesInv
    <3>2. CASE m = at
      <4>1. answered'[m] = answered[m] + 1 /\ answered[m] = samples
        BY <1>0, <2>1, <3>1, <3>2 DEF Kept
      <4> QED
        BY <2>1, <3>2, <4>1 DEF Kept
    <3>3. CASE m # at
      <4>1. answered'[m] = answered[m]
        BY <1>0, <2>1, <3>3
      <4> QED
        BY <2>1, <2>3, <3>1, <3>3, <4>1 DEF Kept
    <3> QED
      BY <3>2, <3>3
  <2> QED
    BY <2>1, <2>2, <2>3, <2>4 DEF AveragesInv
<1>10. CASE NotConfirmed
  <2>1. Timeline'
    BY <1>0, <1>10, <1>t DEF NotConfirmed, buffer, Timeline
  <2>2. /\ AveragesAreOver' /\ AveragedOnce' /\ AverageWins'
        /\ \A m : AveragesOf(m)' = AveragesOf(m)
    BY <1>0, <1>10, NoSnapshotKeeps DEF NotConfirmed, buffer, rollups
  <2>3. \A m \in Minutes : Kept(m) => Kept(m)'
    BY <1>10, <2>2 DEF Kept, NotConfirmed, buffer
  <2> QED
    BY <1>10, <2>1, <2>2, <2>3 DEF AveragesInv, NotConfirmed
<1>11. CASE Outage
  <2>1. /\ Record(at, "now", 0) /\ UNCHANGED <<now, at, buffer, answered>>
        /\ stage = "query" /\ stage' = "idle"
    BY <1>11 DEF Outage
  <2>2. 0 \in Nat /\ at <= at
    BY <1>0
  <2> QED
    BY <1>0, <2>1, <2>2, SnapshotNowKeeps
<1>12. CASE UNCHANGED vars
  <2>1. UNCHANGED <<now, at, stage, bucket, samples, popped, snapshots,
                    minuteRow, answered, faults>>
    BY <1>12 DEF vars, poll, buffer, rollups
  <2>2. Timeline'
    BY <1>t, <2>1 DEF Timeline
  <2>3. /\ AveragesAreOver' /\ AveragedOnce' /\ AverageWins'
        /\ \A m : AveragesOf(m)' = AveragesOf(m)
    BY <1>0, <2>1, NoSnapshotKeeps
  <2>4. \A m \in Minutes : Kept(m) => Kept(m)'
    BY <2>1, <2>3 DEF Kept
  <2> QED
    BY <2>1, <2>2, <2>3, <2>4 DEF AveragesInv
<1> QED
  BY <1>1, <1>2, <1>3, <1>4, <1>5, <1>6, <1>7, <1>8, <1>9, <1>10, <1>11,
     <1>12 DEF Next

THEOREM AveragesInvariant == Spec => [](TypeOK /\ AveragesInv)
<1>1. Init => TypeOK /\ AveragesInv
  BY InitTyped, InitAverages
<1>2. TypeOK /\ AveragesInv /\ [Next]_vars => TypeOK' /\ AveragesInv'
  BY StepTyped, StepAverages
<1> QED
  BY <1>1, <1>2, PTL DEF Spec

(* No minute is averaged twice, whatever restarts come in between.         *)
THEOREM NeverTwoAverages == Spec => []OneAveragePerMinute
<1>1. TypeOK /\ AveragesInv => OneAveragePerMinute
  <2> SUFFICES ASSUME TypeOK, AveragesInv, NEW m \in Minutes,
                      NEW i \in AveragesOf(m), NEW j \in AveragesOf(m)
               PROVE  i = j
    BY DEF OneAveragePerMinute
  <2> QED
    BY Averages DEF AveragesInv, AveragedOnce
<1> QED
  BY <1>1, AveragesInvariant, PTL

(* Without a failed flush or a restart no answer is lost or counted twice. *)
THEOREM SamplesAlwaysKept == Spec => []SamplesKept
<1>1. TypeOK /\ AveragesInv => SamplesKept
  <2> SUFFICES ASSUME TypeOK, AveragesInv, faults.lost = 0, NEW m \in Minutes
               PROVE  answered[m] =
                        IF bucket = m THEN samples
                        ELSE IF stage = "record" /\ popped.minute = m
                        THEN popped.count
                        ELSE IF AveragesOf(m) = {} THEN 0
                        ELSE snapshots[CHOOSE i \in AveragesOf(m) : TRUE].count
    BY DEF SamplesKept
  <2>1. Kept(m)
    BY DEF AveragesInv
  <2>2. AveragesOf(m) # {} => (CHOOSE i \in AveragesOf(m) : TRUE) \in AveragesOf(m)
    OBVIOUS
  <2> QED
    BY <2>1, <2>2 DEF Kept
<1> QED
  BY <1>1, AveragesInvariant, PTL

(* No snapshot of an outage or a user takes the place of an average.       *)
THEOREM AverageAlwaysWins == Spec => []AverageWins
<1>1. AveragesInv => AverageWins
  BY DEF AveragesInv
<1> QED
  BY <1>1, AveragesInvariant, PTL

-----------------------------------------------------------------------------
(* Hours and days.                                                         *)

LEMMA RecordKeepsParents ==
    ASSUME TypeOK, NoMinuteMissing, NEW m \in Minutes,
           NEW kind \in {"average", "now"}, NEW count \in Nat,
           Record(m, kind, count)
    PROVE  NoMinuteMissing'
<1> DEFINE id == Len(snapshots) + 1
           h == HourOf(m)
           d == DayOf(h)
<1>a. id \in Nat /\ id # 0
  <2>1. snapshots \in Seq(Snapshot)
    BY DEF TypeOK
  <2> QED
    BY <2>1
<1>0. /\ id \in Nat /\ id # 0
      /\ minuteRow \in [Minutes -> Nat]
      /\ hourRow \in [Hours -> [Minutes -> Nat]]
      /\ dayRow \in [Days -> [Hours -> [Minutes -> Nat]]]
      /\ h \in Hours /\ d \in Days
  BY <1>a, HourTyped, DayTyped DEF TypeOK
<1> SUFFICES ASSUME faults'.skipped = 0
             PROVE  /\ \A k \in Minutes :
                          minuteRow'[k] # 0 <=> hourRow'[HourOf(k)][k] # 0
                    /\ \A k \in Hours : dayRow'[DayOf(k)][k] = hourRow'[k]
  BY DEF NoMinuteMissing
<1>1. faults.skipped = 0 /\ RollUp(m, id, 3)
  BY RecordAdds
<1>2. /\ \A k \in Minutes : minuteRow[k] # 0 <=> hourRow[HourOf(k)][k] # 0
      /\ \A k \in Hours : dayRow[DayOf(k)][k] = hourRow[k]
  BY <1>1 DEF NoMinuteMissing
<1> HIDE DEF id
<1>3. minuteRow' = [minuteRow EXCEPT ![m] = id]
  BY <1>1 DEF RollUp
<1>4. CASE minuteRow[m] # 0
  <2>1. hourRow' = hourRow /\ dayRow' = dayRow
    BY <1>1, <1>4 DEF RollUp
  <2> QED
    BY <1>0, <1>2, <1>3, <1>4, <2>1
<1>5. CASE minuteRow[m] = 0
  <2> DEFINE row == [k \in Minutes |-> IF HourOf(k) = h THEN minuteRow'[k] ELSE 0]
             col == [k \in Hours |-> IF DayOf(k) = d THEN hourRow'[k] ELSE NoMinutes]
  <2>1. hourRow' = [hourRow EXCEPT ![h] = row]
    BY <1>1, <1>5 DEF RollUp
  <2>2. dayRow' = [dayRow EXCEPT ![d] = col]
    BY <1>1, <1>5 DEF RollUp
  <2>3. ASSUME NEW k \in Minutes
        PROVE  minuteRow'[k] # 0 <=> hourRow'[HourOf(k)][k] # 0
    <3>1. HourOf(k) \in Hours
      BY HourTyped
    <3>2. CASE HourOf(k) = h
      <4>1. hourRow'[HourOf(k)] = row
        <5> HIDE DEF row, h
        <5> QED
          BY <1>0, <2>1, <3>2
      <4>2. row[k] = minuteRow'[k]
        BY <3>2
      <4> QED
        BY <4>1, <4>2
    <3>3. CASE HourOf(k) # h
      <4>1. hourRow'[HourOf(k)] = hourRow[HourOf(k)]
        <5> HIDE DEF row, h
        <5> QED
          BY <1>0, <2>1, <3>1, <3>3
      <4>2. k # m
        BY <3>3
      <4> QED
        BY <1>0, <1>2, <1>3, <4>1, <4>2
    <3> QED
      BY <3>2, <3>3
  <2>4. ASSUME NEW k \in Hours
        PROVE  dayRow'[DayOf(k)][k] = hourRow'[k]
    <3>1. DayOf(k) \in Days
      BY DayTyped
    <3>2. CASE DayOf(k) = d
      <4>1. dayRow'[DayOf(k)] = col
        <5> HIDE DEF col, d
        <5> QED
          BY <1>0, <2>2, <3>2
      <4>2. col[k] = hourRow'[k]
        BY <3>2
      <4> QED
        BY <4>1, <4>2
    <3>3. CASE DayOf(k) # d
      <4>1. dayRow'[DayOf(k)] = dayRow[DayOf(k)]
        <5> HIDE DEF col, d
        <5> QED
          BY <1>0, <2>2, <3>1, <3>3
      <4>2. k # h
        BY <3>3
      <4>3. hourRow'[k] = hourRow[k]
        <5> HIDE DEF row, h
        <5> QED
          BY <1>0, <2>1, <4>2
      <4> QED
        BY <1>2, <4>1, <4>3
    <3> QED
      BY <3>2, <3>3
  <2> QED
    BY <2>3, <2>4
<1> QED
  BY <1>4, <1>5

(* Unless rollups were given up, hours and days miss no minute that has a  *)
(* row.                                                                    *)
THEOREM NeverMinuteMissing == Spec => []NoMinuteMissing
<1>1. Init => NoMinuteMissing
  <2> SUFFICES ASSUME Init PROVE NoMinuteMissing
    OBVIOUS
  <2>1. \A m \in Minutes : minuteRow[m] = 0
    BY DEF Init, NoMinutes
  <2>2. \A h \in Hours : hourRow[h] = NoMinutes
    BY DEF Init, NoHours
  <2>3. \A d \in Days : \A h \in Hours : dayRow[d][h] = NoMinutes
    BY DEF Init, NoHours
  <2>4. \A m \in Minutes : hourRow[HourOf(m)][m] = 0
    BY <2>2, HourTyped DEF NoMinutes
  <2>5. \A h \in Hours : dayRow[DayOf(h)][h] = hourRow[h]
    BY <2>2, <2>3, DayTyped
  <2> QED
    BY <2>1, <2>4, <2>5 DEF NoMinuteMissing
<1>2. TypeOK /\ NoMinuteMissing /\ [Next]_vars => NoMinuteMissing'
  <2> SUFFICES ASSUME TypeOK, NoMinuteMissing, [Next]_vars PROVE NoMinuteMissing'
    OBVIOUS
  <2>1. CASE PollNow
    <3>1. PICK count \in {0, 1} : Record(now, "now", count)
      BY <2>1 DEF PollNow
    <3> QED
      BY <3>1, RecordKeepsParents DEF TypeOK
  <2>2. CASE StoreAverage
    <3>1. popped.minute \in Minutes /\ popped.count \in Nat
      BY DEF TypeOK
    <3> QED
      BY <2>2, <3>1, RecordKeepsParents DEF StoreAverage
  <2>3. CASE Outage
    <3>1. at \in Minutes /\ 0 \in Nat
      BY DEF TypeOK
    <3> QED
      BY <2>3, <3>1, RecordKeepsParents DEF Outage
  <2>4. CASE Restart \/ FlushFails
    <3>1. faults'.skipped = faults.skipped
      BY <2>4 DEF Restart, FlushFails, Losing, TypeOK
    <3>2. UNCHANGED rollups
      BY <2>4 DEF Restart, FlushFails
    <3> QED
      BY <3>1, <3>2 DEF NoMinuteMissing, rollups
  <2>5. CASE UNCHANGED <<rollups, faults>>
    BY <2>5 DEF NoMinuteMissing, rollups
  <2> QED
    BY <2>1, <2>2, <2>3, <2>4, <2>5 DEF Next, vars, Tick, StartPoll,
       NothingDue, PopMinute, Answers, NotConfirmed
<1> QED
  BY <1>1, <1>2, TypeCorrect, PTL DEF Spec
=============================================================================
