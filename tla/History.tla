------------------------------ MODULE History ------------------------------
(***************************************************************************)
(* How the samples of a target become history.  polling.py keeps the       *)
(* samples of the current minute in memory; the first poll of a later      *)
(* minute takes them out and stores their average (record_target_snapshot).*)
(* A confirmed outage and a user's "poll now" store a snapshot at once.    *)
(* Every snapshot is entered in the row of its minute in the rollups, and  *)
(* the hour, day, month and year of that minute are aggregated anew from   *)
(* the level below (rollups.py).  Targets share nothing here, so there is  *)
(* one; month and year are built as the day is.  A row is modelled by what *)
(* it was aggregated from, not by the numbers; storing a snapshot with its *)
(* rollups is one transaction, hence one step.  Retention is not modelled. *)
(***************************************************************************)
EXTENDS Naturals, Sequences

CONSTANTS MinutesPerHour, HoursPerDay,
          None,          \* no minute_bucket yet
          MaxMinute,     \* bound on the clock
          MaxSamples,    \* bound on the answers within a minute
          MaxSnapshots,  \* bound on the snapshots of outages and users
          MaxLost,       \* bound on failed flushes and restarts
          MaxSkipped     \* bound on rollups given up

ASSUME HistoryAssumption ==
    /\ MinutesPerHour \in Nat \ {0} /\ HoursPerDay \in Nat \ {0}
    /\ MaxMinute \in Nat /\ None \notin Nat
    /\ MaxSamples \in Nat /\ MaxSnapshots \in Nat
    /\ MaxLost \in Nat /\ MaxSkipped \in Nat

Minutes == 0..MaxMinute
HourOf(m) == m \div MinutesPerHour
Hours == 0..HourOf(MaxMinute)
DayOf(h) == h \div HoursPerDay
Days == 0..DayOf(HourOf(MaxMinute))

VARIABLES
    now,        \* the clock, in minutes
    at,         \* now_utc of the poll under way
    stage,      \* where the poll is
    bucket,     \* state.minute_bucket
    samples,    \* how many samples are in the buffer
    popped,     \* the completed minute between buffer and database
    snapshots,  \* ups_monitor_data, in order of insertion
    minuteRow,  \* minuteRow[m]: the snapshot in the row of m, 0 for no row
    hourRow,    \* hourRow[h]: the minute rows it was aggregated from
    dayRow,     \* dayRow[d]: the hour rows it was aggregated from
    answered,   \* history: how many polls of each minute were answered
    faults      \* what went wrong so far, against the bounds

poll    == <<at, stage>>
buffer  == <<bucket, samples, popped>>
rollups == <<minuteRow, hourRow, dayRow>>
vars    == <<now, poll, buffer, snapshots, rollups, answered, faults>>

Snapshot == [minute : Minutes, kind : {"average", "now"}, count : Nat]

NoMinutes == [m \in Minutes |-> 0]
NoHours   == [h \in Hours |-> NoMinutes]

TypeOK ==
    /\ now \in Minutes /\ at \in Minutes
    /\ stage \in {"idle", "flush", "record", "query"}
    /\ bucket \in Minutes \cup {None}
    /\ samples \in Nat
    /\ popped \in [minute : Minutes, count : Nat]
    /\ snapshots \in Seq(Snapshot)
    /\ minuteRow \in [Minutes -> Nat]
    /\ hourRow \in [Hours -> [Minutes -> Nat]]
    /\ dayRow \in [Days -> [Hours -> [Minutes -> Nat]]]
    /\ answered \in [Minutes -> Nat]
    /\ faults \in [lost : 0..MaxLost, skipped : 0..MaxSkipped]
    /\ \A m \in Minutes : minuteRow[m] <= Len(snapshots)

Nothing == [minute |-> 0, count |-> 0]

Init ==
    /\ now = 0 /\ at = 0 /\ stage = "idle"
    /\ bucket = None /\ samples = 0 /\ popped = Nothing
    /\ snapshots = <<>>
    /\ minuteRow = NoMinutes
    /\ hourRow = NoHours
    /\ dayRow = [d \in Days |-> NoHours]
    /\ answered = [m \in Minutes |-> 0]
    /\ faults = [lost |-> 0, skipped |-> 0]

Tick ==
    /\ now < MaxMinute
    /\ now' = now + 1
    /\ UNCHANGED <<poll, buffer, snapshots, rollups, answered, faults>>

-----------------------------------------------------------------------------
(* Storing a snapshot.                                                     *)

\* Faulty variant: the day is only aggregated when its hour is new.
RollUpNewHour(m, id, depth) ==
    LET h == HourOf(m)
        d == DayOf(h)
        isNew == minuteRow[m] = 0
    IN  /\ minuteRow' = IF depth >= 1 THEN [minuteRow EXCEPT ![m] = id]
                                      ELSE minuteRow
        /\ hourRow' = IF depth >= 2 /\ isNew
                      THEN [hourRow EXCEPT ![h] =
                              [k \in Minutes |-> IF HourOf(k) = h
                                                 THEN minuteRow'[k] ELSE 0]]
                      ELSE hourRow
        /\ dayRow' = IF depth >= 3 /\ isNew /\ hourRow[h] = NoMinutes
                     THEN [dayRow EXCEPT ![d] =
                             [k \in Hours |-> IF DayOf(k) = d THEN hourRow'[k]
                                                              ELSE NoMinutes]]
                     ELSE dayRow

\* update_rollups_after_snapshot, of which an exception leaves the first
\* depth levels: the row of the minute is replaced, its parents are
\* aggregated only if there was none.
RollUp(m, id, depth) ==
    LET h == HourOf(m)
        d == DayOf(h)
        isNew == minuteRow[m] = 0
    IN  /\ minuteRow' = IF depth >= 1 THEN [minuteRow EXCEPT ![m] = id]
                                      ELSE minuteRow
        /\ hourRow' = IF depth >= 2 /\ isNew
                      THEN [hourRow EXCEPT ![h] =
                              [k \in Minutes |-> IF HourOf(k) = h
                                                 THEN minuteRow'[k] ELSE 0]]
                      ELSE hourRow
        /\ dayRow' = IF depth >= 3 /\ isNew
                     THEN [dayRow EXCEPT ![d] =
                             [k \in Hours |-> IF DayOf(k) = d THEN hourRow'[k]
                                                              ELSE NoMinutes]]
                     ELSE dayRow

\* The snapshot is committed even when its rollups are given up.
Record(m, kind, count) ==
    /\ snapshots' = Append(snapshots,
                           [minute |-> m, kind |-> kind, count |-> count])
    /\ \/ RollUp(m, Len(snapshots) + 1, 3) /\ UNCHANGED faults
       \/ /\ faults.skipped < MaxSkipped
          /\ faults' = [faults EXCEPT !.skipped = @ + 1]
          /\ \E depth \in 0..2 : RollUp(m, Len(snapshots) + 1, depth)

-----------------------------------------------------------------------------
(* One poll.                                                               *)

StartPoll ==
    /\ stage = "idle"
    /\ at' = now
    /\ stage' = "flush"
    /\ UNCHANGED <<now, buffer, snapshots, rollups, answered, faults>>

MinuteDue == bucket # None /\ at > bucket /\ samples > 0

\* pop_completed_minute returns nothing.
NothingDue ==
    /\ stage = "flush"
    /\ ~MinuteDue
    /\ bucket' = IF bucket = None \/ at > bucket THEN at ELSE bucket
    /\ stage' = "query"
    /\ UNCHANGED <<now, at, samples, popped, snapshots, rollups, answered,
                   faults>>

\* Faulty variant: the samples of the current minute are taken out, too.
PopCurrent ==
    /\ stage = "flush"
    /\ bucket # None /\ at >= bucket /\ samples > 0
    /\ popped' = [minute |-> bucket, count |-> samples]
    /\ bucket' = at /\ samples' = 0
    /\ stage' = "record"
    /\ UNCHANGED <<now, at, snapshots, rollups, answered, faults>>

\* It returns a minute that is over.
PopMinute ==
    /\ stage = "flush"
    /\ MinuteDue
    /\ popped' = [minute |-> bucket, count |-> samples]
    /\ bucket' = at /\ samples' = 0
    /\ stage' = "record"
    /\ UNCHANGED <<now, at, snapshots, rollups, answered, faults>>

StoreAverage ==
    /\ stage = "record"
    /\ Record(popped.minute, "average", popped.count)
    /\ popped' = Nothing
    /\ stage' = "query"
    /\ UNCHANGED <<now, at, bucket, samples, answered>>

Losing == /\ faults.lost < MaxLost
          /\ faults' = [faults EXCEPT !.lost = @ + 1]

\* The transaction is rolled back, the poll goes on.
FlushFails ==
    /\ stage = "record"
    /\ Losing
    /\ popped' = Nothing
    /\ stage' = "query"
    /\ UNCHANGED <<now, at, bucket, samples, snapshots, rollups, answered>>

\* Faulty variant: a sample is added to the minute the clock shows.
AnswersLate ==
    /\ stage = "query"
    /\ answered[at] < MaxSamples
    /\ samples' = samples + 1
    /\ answered' = [answered EXCEPT ![at] = @ + 1]
    /\ bucket' = now
    /\ stage' = "idle"
    /\ UNCHANGED <<now, at, popped, snapshots, rollups, faults>>

Answers ==
    /\ stage = "query"
    /\ answered[at] < MaxSamples
    /\ bucket' = IF bucket = None THEN at ELSE bucket
    /\ samples' = samples + 1
    /\ answered' = [answered EXCEPT ![at] = @ + 1]
    /\ stage' = "idle"
    /\ UNCHANGED <<now, at, popped, snapshots, rollups, faults>>

NotConfirmed ==
    /\ stage = "query"
    /\ stage' = "idle"
    /\ UNCHANGED <<now, at, buffer, snapshots, rollups, answered, faults>>

\* record_target_error_snapshot, for a poll that confirms an outage.
Outage ==
    /\ stage = "query"
    /\ Len(snapshots) < MaxSnapshots
    /\ Record(at, "now", 0)
    /\ stage' = "idle"
    /\ UNCHANGED <<now, at, buffer, answered>>

-----------------------------------------------------------------------------

\* POST /targets/<id>/poll-now, from a request while a poll may be under way.
PollNow ==
    /\ Len(snapshots) < MaxSnapshots
    /\ \E count \in {0, 1} : Record(now, "now", count)
    /\ UNCHANGED <<now, poll, buffer, answered>>

\* The buffer is in memory only.
Restart ==
    /\ Losing
    /\ stage' = "idle" /\ bucket' = None /\ samples' = 0 /\ popped' = Nothing
    /\ UNCHANGED <<now, at, snapshots, rollups, answered>>

Next ==
    \/ Tick \/ PollNow \/ Restart
    \/ StartPoll \/ NothingDue \/ PopMinute \/ StoreAverage \/ FlushFails
    \/ Answers \/ NotConfirmed \/ Outage

Spec == Init /\ [][Next]_vars
-----------------------------------------------------------------------------
(* Properties.                                                             *)

AveragesOf(m) == {i \in DOMAIN snapshots : /\ snapshots[i].kind = "average"
                                          /\ snapshots[i].minute = m}

\* A minute is averaged once, whatever happens to the process meanwhile.
OneAveragePerMinute ==
    \A m \in Minutes : \A i, j \in AveragesOf(m) : i = j

\* Unless a flush failed or the process was restarted, every answer is in
\* the buffer, on its way to the database, or in the average of its minute.
SamplesKept ==
    faults.lost = 0 =>
        \A m \in Minutes :
            answered[m] = IF bucket = m THEN samples
                          ELSE IF stage = "record" /\ popped.minute = m
                          THEN popped.count
                          ELSE IF AveragesOf(m) = {} THEN 0
                          ELSE snapshots[CHOOSE i \in AveragesOf(m) : TRUE].count

\* Once the average of a minute is stored, its row has the average: no
\* snapshot of an outage or a user replaces it.
AverageWins ==
    faults.skipped = 0 =>
        \A m \in Minutes : \A i \in AveragesOf(m) : minuteRow[m] = i

\* Every minute that has a row has a part in its hour, and the day was
\* aggregated from its hours as they are.
NoMinuteMissing ==
    faults.skipped = 0 =>
        /\ \A m \in Minutes :
              minuteRow[m] # 0 <=> hourRow[HourOf(m)][m] # 0
        /\ \A h \in Hours : dayRow[DayOf(h)][h] = hourRow[h]

\* An hour was aggregated from its minutes as they are (changelog.md, line
\* 55: "refreshing current hour/day/month/year parents whenever a minute is
\* stored").
ParentsCurrent ==
    faults.skipped = 0 =>
        \A m \in Minutes : hourRow[HourOf(m)][m] = minuteRow[m]
=============================================================================
