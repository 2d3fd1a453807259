-------------------------- MODULE ReportScheduler --------------------------
(***************************************************************************)
(* Scheduled reports (scheduler/scheduler.py, scheduler/routes_scheduler.py*)
(* and report.py's generate_and_send_report).  Schedules are rows of the   *)
(* database and jobs of the library schedule, one job for a daily schedule *)
(* and one for each chosen day of another.  A thread takes the jobs that   *)
(* are due and runs them one by one; a job reads its row when it starts    *)
(* and then draws its charts, waiting for another program, while users     *)
(* create, change, delete and disable schedules.                           *)
(* Instants are counted in slots from a midnight of UTC; the database      *)
(* keeps UTC, jobs use the server's clock, users that of their UPS.  Left  *)
(* out: the reports' contents and periods, and the resetting of the id     *)
(* sequence, a query that SQLAlchemy 2 refuses and the route ignores.      *)
(***************************************************************************)
EXTENDS Naturals, FiniteSetsExt

CONSTANTS Scopes,       \* targets a schedule may be for, or the whole system
          Mails,        \* mail configurations
          DaysPerWeek, SlotsPerDay,
          Wishes,       \* what users send: days, a time, and whether it is enabled
          UserOffset,   \* slots the users' clock is ahead of UTC, round the day
          SystemOffset, \* slots the server's clock is ahead of UTC
          Blank,        \* a time that is not one
          None,         \* no row
          MaxId,        \* bound on ids
          MaxTime,      \* bound on the clock
          MaxRequests,  \* bound on the users' requests
          MaxDeaths     \* bound on the deaths of the process

ASSUME SchedulerAssumption ==
    /\ \A wish \in Wishes : /\ wish.days \subseteq 0..DaysPerWeek - 1
                            /\ wish.time \in 0..SlotsPerDay - 1 \cup {Blank}
                            /\ wish.enabled \in BOOLEAN
    /\ DaysPerWeek \in Nat \ {0} /\ SlotsPerDay \in Nat \ {0}
    /\ UserOffset \in 0..SlotsPerDay - 1 /\ SystemOffset \in 0..SlotsPerDay - 1
    /\ MaxId \in Nat /\ MaxTime \in Nat /\ MaxRequests \in Nat /\ MaxDeaths \in Nat

VARIABLES
    rows,     \* the schedules of the database
    mails,    \* its mail configurations
    jobs,     \* schedule.jobs
    thread,   \* what _run_scheduler does, and the jobs of its pass
    cooldown, \* is it less than 2 seconds since the last POST
    now,      \* the time in UTC
    sent,     \* history: the last report sent
    counts

schedulerVars == <<rows, mails, jobs, thread, cooldown, now, sent, counts>>

Ids      == 1..MaxId
Weekdays == 0..DaysPerWeek - 1
Slots    == 0..SlotsPerDay - 1
Schedule == [scope : Scopes, days : SUBSET Weekdays, time : Slots \cup {Blank},
             mail : Mails, enabled : BOOLEAN]
Horizon  == MaxTime + SystemOffset + SlotsPerDay * DaysPerWeek
Job      == [id : Ids, days : SUBSET Weekdays, slot : Slots, next : 0..Horizon]
Taken    == [job : Job, asked : Schedule \cup {None}]

SchedulerTypeOK ==
    /\ rows \in [Ids -> Schedule \cup {None}]
    /\ mails \subseteq Mails
    /\ jobs \subseteq Job
    /\ thread.step \in {"off", "sleep", "pass", "generate"}
    /\ thread.due \subseteq Taken
    /\ thread.running \in [taken : Taken, row : Schedule] \cup {None}
    /\ cooldown \in BOOLEAN
    /\ now \in 0..MaxTime
    /\ sent \in [due : 0..Horizon, asked : Schedule \cup {None}, row : Schedule] \cup {None}
    /\ counts \in [requests : 0..MaxRequests, deaths : 0..MaxDeaths]

ThreadAt(step, due, running) == [step |-> step, due |-> due, running |-> running]

SchedulerInit ==
    /\ rows = [i \in Ids |-> None]
    /\ mails = Mails
    /\ jobs = {}
    /\ thread = ThreadAt("off", {}, None)
    /\ cooldown = FALSE
    /\ now = 0
    /\ sent = None
    /\ counts = [requests |-> 0, deaths |-> 0]

-----------------------------------------------------------------------------
(* Times.                                                                  *)

DayOf(t)   == (t \div SlotsPerDay) % DaysPerWeek
SlotOf(t)  == t % SlotsPerDay
SystemTime == now + SystemOffset

(* The routes store a time in UTC; the days stay as the user chose them.   *)
ToUtc(time) == IF time = Blank THEN Blank ELSE (time + SlotsPerDay - UserOffset) % SlotsPerDay

(* Mutant: the time in UTC is taken for the server's.                      *)
ToSystemUnconverted(time) == time

(* _add_job_from_schedule turns it into the server's.                      *)
ToSystem(time) == (time + SystemOffset) % SlotsPerDay

(* When the library runs a job that is scheduled at t: strictly later.     *)
NextRun(days, slot, t) ==
    Min({u \in t + 1..t + SlotsPerDay * DaysPerWeek :
            DayOf(u) \in days /\ SlotOf(u) = slot})

IsDue(j) == j.next <= SystemTime

-----------------------------------------------------------------------------
(* Jobs.                                                                   *)

JobDays(days) == IF days = {} THEN {Weekdays} ELSE {{d} : d \in days}

(* Mutant: a new job never runs on the day it is created.                  *)
JobsForTomorrow(i, row) ==
    IF row.time = Blank THEN {}
    ELSE {[id |-> i, days |-> days, slot |-> ToSystem(row.time),
           next |-> NextRun(days, ToSystem(row.time), SystemTime + SlotsPerDay)] :
              days \in JobDays(row.days)}

JobsFor(i, row) ==
    IF row.time = Blank THEN {}
    ELSE {[id |-> i, days |-> days, slot |-> ToSystem(row.time),
           next |-> NextRun(days, ToSystem(row.time), SystemTime)] : days \in JobDays(row.days)}

_remove_job(i) == {j \in jobs : j.id # i}

_add_job_from_schedule(i, row) == _remove_job(i) \cup JobsFor(i, row)

(* Scheduler.init_app, when the program starts.                            *)
StartScheduler ==
    /\ thread.step = "off"
    /\ jobs' = UNION {JobsFor(i, rows[i]) : i \in {k \in Ids : rows[k] # None /\ rows[k].enabled}}
    /\ thread' = ThreadAt("sleep", {}, None)
    /\ UNCHANGED <<rows, mails, cooldown, now, sent, counts>>

Die ==
    /\ thread.step # "off"
    /\ counts.deaths < MaxDeaths
    /\ counts' = [counts EXCEPT !.deaths = @ + 1]
    /\ jobs' = {}
    /\ thread' = ThreadAt("off", {}, None)
    /\ cooldown' = FALSE
    /\ UNCHANGED <<rows, mails, now, sent>>

(* run_pending collects the jobs that are due...                           *)
BeginPass ==
    /\ thread.step = "sleep"
    /\ \E j \in jobs : IsDue(j)
    /\ LET taken == {[job |-> j, asked |-> rows[j.id]] : j \in {k \in jobs : IsDue(k)}} IN
       thread' = ThreadAt("pass", taken, None)
    /\ UNCHANGED <<rows, mails, jobs, cooldown, now, sent, counts>>

(* ... runs them in the order of their times, those removed meanwhile too, *)
(* and schedules each anew after it has run.                               *)
First(e) == e \in thread.due /\ \A f \in thread.due : e.job.next <= f.job.next

Rescheduled(j) ==
    IF j \in jobs
    THEN (jobs \ {j}) \cup {[j EXCEPT !.next = NextRun(j.days, j.slot, SystemTime)]}
    ELSE jobs

Finished(e) ==
    LET left == thread.due \ {e} IN ThreadAt(IF left = {} THEN "sleep" ELSE "pass", left, None)

(* A job reads its row again: it may be gone or disabled.                  *)
Runs(row) == row # None /\ row.enabled

StartJob(e) ==
    /\ thread.step = "pass" /\ First(e)
    /\ Runs(rows[e.job.id])
    /\ thread' = ThreadAt("generate", thread.due, [taken |-> e, row |-> rows[e.job.id]])
    /\ UNCHANGED <<rows, mails, jobs, cooldown, now, sent, counts>>

SkipJob(e) ==
    /\ thread.step = "pass" /\ First(e)
    /\ ~Runs(rows[e.job.id])
    /\ jobs' = Rescheduled(e.job)
    /\ thread' = Finished(e)
    /\ UNCHANGED <<rows, mails, cooldown, now, sent, counts>>

(* generate_and_send_report with the row that was read: its mail           *)
(* configuration must still be there.                                      *)
SendReport ==
    /\ thread.step = "generate"
    /\ LET e == thread.running.taken IN
       /\ thread.running.row.mail \in mails
       /\ sent' = [due |-> e.job.next, asked |-> e.asked, row |-> thread.running.row]
       /\ jobs' = Rescheduled(e.job)
       /\ thread' = Finished(e)
    /\ UNCHANGED <<rows, mails, cooldown, now, counts>>

(* Mutant: an exception of a report ends the thread.                       *)
ReportFailsUncaught ==
    /\ thread.step = "generate"
    /\ thread' = ThreadAt("pass", {}, None)
    /\ UNCHANGED <<rows, mails, jobs, cooldown, now, sent, counts>>

(* No data, no such mail configuration, no mail server, an exception: the  *)
(* job ends all the same.                                                  *)
ReportFails ==
    /\ thread.step = "generate"
    /\ jobs' = Rescheduled(thread.running.taken.job)
    /\ thread' = Finished(thread.running.taken)
    /\ UNCHANGED <<rows, mails, cooldown, now, sent, counts>>

-----------------------------------------------------------------------------
(* The users' requests.                                                    *)

Request ==
    /\ thread.step # "off"
    /\ counts.requests < MaxRequests
    /\ counts' = [counts EXCEPT !.requests = @ + 1]

Stored(wish, scope, mail) ==
    [scope |-> scope, days |-> wish.days, time |-> ToUtc(wish.time),
     mail |-> mail, enabled |-> wish.enabled]

NextId == 1 + Max({0} \cup {i \in Ids : rows[i] # None})

(* POST, which takes an empty time for 00:00.  When a time cannot be       *)
(* scheduled the row is deleted again, and so are the jobs of a former     *)
(* schedule with its id.                                                   *)
PostSchedule(wish, scope, mail) ==
    /\ Request
    /\ ~cooldown
    /\ cooldown' = TRUE
    /\ mail \in mails
    /\ NextId \in Ids
    /\ LET stored == Stored(wish, scope, mail) IN
       /\ rows' = IF stored.time = Blank THEN rows ELSE [rows EXCEPT ![NextId] = stored]
       /\ jobs' = _add_job_from_schedule(NextId, stored)
    /\ UNCHANGED <<mails, thread, now, sent>>

(* PUT.  The row is committed whether or not its time can be scheduled,    *)
(* and a disabled schedule keeps its jobs.                                 *)
PutSchedule(i, wish, scope, mail) ==
    /\ Request
    /\ rows[i] # None /\ rows[i].scope = scope
    /\ mail \in mails \cup {rows[i].mail}
    /\ LET stored == Stored(wish, scope, mail) IN
       /\ rows' = [rows EXCEPT ![i] = stored]
       /\ jobs' = _add_job_from_schedule(i, stored)
    /\ UNCHANGED <<mails, thread, cooldown, now, sent>>

(* DELETE.  clear_jobs_for_schedule looks for a tag that no job has: the   *)
(* jobs stay.                                                              *)
DeleteSchedule(i, scope) ==
    /\ Request
    /\ rows[i] # None /\ rows[i].scope = scope
    /\ rows' = [rows EXCEPT ![i] = None]
    /\ UNCHANGED <<mails, jobs, thread, cooldown, now, sent>>

disable_report_scheduler(scope) ==
    /\ Request
    /\ rows' = [i \in Ids |-> IF rows[i] # None /\ rows[i].scope = scope
                              THEN [rows[i] EXCEPT !.enabled = FALSE] ELSE rows[i]]
    /\ UNCHANGED <<mails, jobs, thread, cooldown, now, sent>>

(* DELETE /api/settings/mail/<id>: the schedules that name it are deleted, *)
(* their jobs stay.                                                        *)
DeleteMailConfig(m) ==
    /\ Request
    /\ m \in mails
    /\ mails' = mails \ {m}
    /\ rows' = [i \in Ids |-> IF rows[i] # None /\ rows[i].mail = m THEN None ELSE rows[i]]
    /\ UNCHANGED <<jobs, thread, cooldown, now, sent>>

(* DELETE /api/settings/mail: its schedules stay.                          *)
DeleteMailSettings(m) ==
    /\ Request
    /\ m \in mails
    /\ mails' = mails \ {m}
    /\ UNCHANGED <<rows, jobs, thread, cooldown, now, sent>>

CooldownEnds ==
    /\ cooldown
    /\ cooldown' = FALSE
    /\ UNCHANGED <<rows, mails, jobs, thread, now, sent, counts>>

Tick ==
    /\ now < MaxTime
    /\ now' = now + 1
    /\ UNCHANGED <<rows, mails, jobs, thread, cooldown, sent, counts>>

-----------------------------------------------------------------------------

RunPending ==
    \/ BeginPass \/ SendReport \/ ReportFails
    \/ \E e \in thread.due : StartJob(e) \/ SkipJob(e)

SchedulerNext ==
    \/ StartScheduler \/ Die
    \/ RunPending
    \/ \E wish \in Wishes, scope \in Scopes, mail \in Mails : PostSchedule(wish, scope, mail)
    \/ \E i \in Ids, wish \in Wishes, scope \in Scopes, mail \in Mails :
           PutSchedule(i, wish, scope, mail)
    \/ \E i \in Ids, scope \in Scopes : DeleteSchedule(i, scope)
    \/ \E scope \in Scopes : disable_report_scheduler(scope)
    \/ \E m \in Mails : DeleteMailConfig(m) \/ DeleteMailSettings(m)
    \/ CooldownEnds \/ Tick

SchedulerSpec == SchedulerInit /\ [][SchedulerNext]_schedulerVars

(* The thread wakes every second, and each report comes to an end.         *)
SchedulerFairSpec == SchedulerSpec /\ WF_schedulerVars(RunPending)

-----------------------------------------------------------------------------
(* While the program runs, the jobs of an enabled schedule are those its   *)
(* row asks for - across requests, passes of the thread and restarts - and *)
(* none is set later than the next time the row names.                     *)
JobsMatchRows ==
    thread.step # "off" =>
        \A i \in Ids : Runs(rows[i]) /\ rows[i].time # Blank =>
            LET mine == {j \in jobs : j.id = i} IN
            /\ {j.days : j \in mine} = JobDays(rows[i].days)
            /\ \A j \in mine : /\ j.slot = ToSystem(rows[i].time)
                               /\ j.next <= NextRun(j.days, j.slot, SystemTime)

(* An instant of the server's clock, by the user's.                        *)
UserTime(t) == t + SlotsPerDay * DaysPerWeek - SystemOffset + UserOffset

(* The time of day a user sent, by the user's clock: what ToUtc undid.     *)
ChosenSlot(row) == (row.time + UserOffset) % SlotsPerDay

OnDay(row, day) == row.days = {} \/ day \in row.days

(* A report of a schedule that nobody changed since its job was taken was  *)
(* due at the time of day its user chose, by the user's clock, wherever    *)
(* the user and the server are; but on one of the chosen days by the       *)
(* server's clock, for the days are never converted.  So it was due on one *)
(* of them by the user's clock too, unless midnight lay between the two.   *)
DueAtChosenTime ==
    sent # None /\ sent.asked = sent.row =>
        /\ sent.row.time # Blank
        /\ SlotOf(UserTime(sent.due)) = ChosenSlot(sent.row)
        /\ OnDay(sent.row, DayOf(sent.due))

(* The same, on a day the user chose by the user's own clock: "for         *)
(* user-expected execution time" (scheduler.py).                           *)
SentWhenChosen ==
    sent # None /\ sent.asked = sent.row =>
        /\ sent.row.time # Blank
        /\ SlotOf(UserTime(sent.due)) = ChosenSlot(sent.row)
        /\ OnDay(sent.row, DayOf(UserTime(sent.due)))

(* Whatever becomes of other reports, a job that is due is run: no failure *)
(* of a report ends the thread that sends them all.                        *)
Waits(i) == \E j \in jobs : j.id = i /\ IsDue(j)
EveryDueJobRuns == \A i \in Ids : Waits(i) ~> ~Waits(i)
=============================================================================
