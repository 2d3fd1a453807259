--------------------------- MODULE ScriptActions ---------------------------
(***************************************************************************)
(* A script action: a shell script an administrator wants run when a UPS   *)
(* is on battery (or low) with its charge at or under a threshold.  The    *)
(* polling thread evaluates it at the end of every successful poll, and    *)
(* handle_nut_event, in that thread or in a request, after it has notified *)
(* of an event (scripts/script_actions.py maybe_execute_script_actions).   *)
(* What an evaluation is based on was read some time before, and the time  *)
(* it calls now before it waits for the lock.  Scripts run in a pool of    *)
(* threads; administrators edit the action and its cooldown, and test it   *)
(* in their request (options/api_options.py).  Actions do not depend on    *)
(* each other, so there is one; its creation and deletion are not          *)
(* modelled, nor a pool whose threads are all busy.                        *)
(***************************************************************************)
EXTENDS Naturals

CONSTANTS Handlers,    \* who evaluates: Poller and HTTP requests
          Poller,      \* the polling thread
          Cooldowns,   \* what cooldown_seconds may be set to, in ticks
          MaxCooldown, \* the longest of them
          Timeout,     \* how long a script may run, in ticks
          MaxWait,     \* bound on the wait for the lock, in ticks
          NoView,      \* a handler that evaluates nothing
          MaxRuns,     \* bound on the executions queued
          MaxScriptFaults \* bound on edits, tests, errors and restarts together

ASSUME ScriptAssumption ==
    /\ Poller \in Handlers
    /\ MaxCooldown \in Nat /\ Timeout \in Nat /\ MaxWait \in Nat
    /\ Cooldowns \subseteq 0..MaxCooldown /\ Cooldowns # {}
    /\ NoView \notin BOOLEAN
    /\ MaxRuns \in Nat /\ MaxScriptFaults \in Nat

VARIABLES
    active,    \* the world: is the condition of the action true
    polled,    \* was it true by the newest sample in the minute buffer
    stored,    \* is it true by the newest status in the database
    view,      \* view[p]: what p read, and is going to evaluate
    waited,    \* waited[p]: for how long p's now_utc is over, if p took it
    submits,   \* the handlers between the commit and the pool
    enabled,   \* row.enabled
    cooldown,  \* row.cooldown_seconds
    latch,     \* row.condition_active
    age,       \* ticks since row.last_executed_at, up to LongAgo
    result,    \* row.last_output: "Queued", or "other": none, a run's, a test's
    jobs,      \* jobs[r]: for how long execution r is in the pool
    testing,   \* is a test of the script under way
    runs,      \* how many executions were queued
    fresh,     \* history: is there an occurrence no execution was queued for
    misled,    \* history: was a view evaluated that was not true any more
    repeated,  \* history: was an execution queued without being fresh
    hasty,     \* history: was one queued under too short a cooldown
    faults     \* edits and failures so far, against their bound

status  == <<polled, stored>>
reader  == <<view, waited>>
row     == <<enabled, cooldown, latch, age, result>>
history == <<fresh, misled, repeated, hasty>>
scriptVars == <<active, status, reader, submits, row, jobs, testing, runs,
               history, faults>>

NotInPool == Timeout + 1

\* Nobody waits for a cooldown longer than this.
LongAgo == MaxCooldown + MaxWait

ScriptTypeOK ==
    /\ active \in BOOLEAN /\ polled \in BOOLEAN /\ stored \in BOOLEAN
    /\ view \in [Handlers -> BOOLEAN \cup {NoView}]
    /\ waited \in [Handlers -> 0..MaxWait]
    /\ submits \subseteq Handlers
    /\ enabled \in BOOLEAN /\ cooldown \in Cooldowns /\ latch \in BOOLEAN
    /\ age \in 0..LongAgo
    /\ result \in {"Queued", "other"}
    /\ jobs \in [1..MaxRuns -> 0..NotInPool]
    /\ testing \in BOOLEAN
    /\ runs \in 0..MaxRuns
    /\ fresh \in BOOLEAN /\ misled \in BOOLEAN
    /\ repeated \in BOOLEAN /\ hasty \in BOOLEAN
    /\ faults \in [edits : 0..MaxScriptFaults, failures : 0..MaxScriptFaults]

InPool == {r \in 1..MaxRuns : jobs[r] # NotInPool}

ScriptInit ==
    /\ active = FALSE /\ polled = FALSE /\ stored = FALSE
    /\ view = [p \in Handlers |-> NoView] /\ submits = {}
    /\ waited = [p \in Handlers |-> 0]
    /\ enabled \in BOOLEAN /\ cooldown \in Cooldowns
    /\ latch = FALSE /\ age = LongAgo
    /\ result = "other"
    /\ jobs = [r \in 1..MaxRuns |-> NotInPool]
    /\ testing = FALSE /\ runs = 0
    /\ fresh = FALSE /\ misled = FALSE /\ repeated = FALSE /\ hasty = FALSE
    /\ faults = [edits |-> 0, failures |-> 0]

-----------------------------------------------------------------------------
(* The surroundings.                                                       *)

MayFail == faults.edits + faults.failures < MaxScriptFaults

PowerChanges ==
    /\ active' = ~active
    /\ fresh' = (fresh \/ ~active)
    /\ UNCHANGED <<status, reader, submits, row, jobs, testing, runs, misled,
                   repeated, hasty, faults>>

\* The minute of the target is flushed, with its last sample's status, or an
\* outage is stored.
StatusStored ==
    /\ stored' \in {polled, FALSE}
    /\ UNCHANGED <<active, polled, reader, submits, row, jobs, testing, runs,
                   history, faults>>

\* Scripts are killed when they have run for too long.  A hand-over follows
\* its commit at once.  A handler that has read its view takes its now_utc
\* before this tick or after it.
Tick ==
    /\ submits = {}
    /\ \A r \in InPool : jobs[r] < Timeout
    /\ age' = IF age < LongAgo THEN age + 1 ELSE age
    /\ waited' \in [Handlers -> 0..MaxWait]
    /\ \A p \in Handlers :
          \/ waited'[p] = waited[p] + 1 /\ view[p] # NoView
          \/ waited'[p] = 0 /\ waited[p] = 0
    /\ jobs' = [r \in 1..MaxRuns |-> IF r \in InPool THEN jobs[r] + 1
                                                     ELSE jobs[r]]
    /\ UNCHANGED <<active, status, view, submits, enabled, cooldown, latch,
                   result, testing, runs, history, faults>>

-----------------------------------------------------------------------------
(* Evaluation.                                                             *)

Reads(p, v) ==
    /\ view[p] = NoView /\ p \notin submits
    /\ view' = [view EXCEPT ![p] = v]
    /\ UNCHANGED <<active, stored, waited, submits, row, jobs, testing, runs,
                   history, faults>>

\* The polling thread has a sample.
PollAnswered == Reads(Poller, active) /\ polled' = active

\* The poll fails, before it has a sample or after, and announces an outage:
\* the status is that of the outage.
PollFailed == Reads(Poller, FALSE) /\ polled' \in {polled, active}

\* It fails with a sample, and announces nothing.
PollBroken ==
    /\ view[Poller] = NoView /\ Poller \notin submits
    /\ polled' = active
    /\ UNCHANGED <<active, stored, reader, submits, row, jobs, testing, runs,
                   history, faults>>

\* An event posted without metrics is completed from the database; one of the
\* trigger itself is true by its type.
EventPosted(p) ==
    /\ p # Poller
    /\ Reads(p, stored) \/ Reads(p, active)
    /\ UNCHANGED polled

\* The lock is held from the query to the hand-over to the pool.
MayEvaluate(p) == view[p] # NoView /\ submits = {}

Done(p) ==
    /\ view' = [view EXCEPT ![p] = NoView]
    /\ waited' = [waited EXCEPT ![p] = 0]
    /\ misled' = (misled \/ view[p] # active)

Due(p) == enabled /\ ~latch /\ age >= cooldown + waited[p]

\* Faulty variant: the latch stays set for good.
RearmNever(p) ==
    /\ MayEvaluate(p) /\ view[p] # TRUE
    /\ latch' = latch
    /\ Done(p)
    /\ UNCHANGED <<active, status, submits, enabled, cooldown, age, result,
                   jobs, testing, runs, fresh, repeated, hasty, faults>>

\* The condition is not met: the action is armed again.
Rearm(p) ==
    /\ MayEvaluate(p) /\ view[p] # TRUE
    /\ latch' = (latch /\ ~enabled)
    /\ Done(p)
    /\ UNCHANGED <<active, status, submits, enabled, cooldown, age, result,
                   jobs, testing, runs, fresh, repeated, hasty, faults>>

NotDue(p) ==
    /\ MayEvaluate(p) /\ view[p] = TRUE /\ ~Due(p)
    /\ Done(p)
    /\ UNCHANGED <<active, status, submits, row, jobs, testing, runs, fresh,
                   repeated, hasty, faults>>

\* Faulty variant: the latch is not set.
QueueUnlatched(p) ==
    /\ MayEvaluate(p) /\ view[p] = TRUE /\ Due(p)
    /\ runs < MaxRuns
    /\ runs' = runs + 1
    /\ latch' = FALSE /\ age' = waited[p] /\ result' = "Queued"
    /\ submits' = {p}
    /\ Done(p)
    /\ repeated' = (repeated \/ ~fresh) /\ fresh' = FALSE
    /\ hasty' = (hasty \/ cooldown <= Timeout + MaxWait)
    /\ UNCHANGED <<active, status, enabled, cooldown, jobs, testing, faults>>

\* Faulty variant: last_executed_at is not set.
QueueUndated(p) ==
    /\ MayEvaluate(p) /\ view[p] = TRUE /\ Due(p)
    /\ runs < MaxRuns
    /\ runs' = runs + 1
    /\ latch' = TRUE /\ age' = age /\ result' = "Queued"
    /\ submits' = {p}
    /\ Done(p)
    /\ repeated' = (repeated \/ ~fresh) /\ fresh' = FALSE
    /\ hasty' = (hasty \/ cooldown <= Timeout + MaxWait)
    /\ UNCHANGED <<active, status, enabled, cooldown, jobs, testing, faults>>

\* The row is committed, with the time from before the wait.
Queue(p) ==
    /\ MayEvaluate(p) /\ view[p] = TRUE /\ Due(p)
    /\ runs < MaxRuns
    /\ runs' = runs + 1
    /\ latch' = TRUE /\ age' = waited[p] /\ result' = "Queued"
    /\ submits' = {p}
    /\ Done(p)
    /\ repeated' = (repeated \/ ~fresh) /\ fresh' = FALSE
    /\ hasty' = (hasty \/ cooldown <= Timeout + MaxWait)
    /\ UNCHANGED <<active, status, enabled, cooldown, jobs, testing, faults>>

\* The commit raises: nothing is stored, nothing is run.
EvaluationFails(p) ==
    /\ MayEvaluate(p)
    /\ MayFail
    /\ faults' = [faults EXCEPT !.failures = @ + 1]
    /\ Done(p)
    /\ UNCHANGED <<active, status, submits, row, jobs, testing, runs, fresh,
                   repeated, hasty>>

Submit(p) ==
    /\ p \in submits
    /\ submits' = {}
    /\ jobs' = [jobs EXCEPT ![runs] = 0]
    /\ UNCHANGED <<active, status, reader, row, testing, runs, history, faults>>

-----------------------------------------------------------------------------
(* Execution.                                                              *)

\* Faulty variant: the result is not stored.
CompleteUnstored(r) ==
    /\ r \in InPool
    /\ jobs' = [jobs EXCEPT ![r] = NotInPool]
    /\ UNCHANGED <<active, status, reader, submits, row, testing, runs, history,
                   faults>>

\* _complete_action: the result is stored without the lock, whatever the row
\* says by now.
Complete(r) ==
    /\ r \in InPool
    /\ jobs' = [jobs EXCEPT ![r] = NotInPool]
    /\ result' = "other"
    /\ UNCHANGED <<active, status, reader, submits, enabled, cooldown, latch,
                   age, testing, runs, history, faults>>

\* Storing the result raises in the pool, where nobody sees it.
CompleteFails(r) ==
    /\ r \in InPool
    /\ MayFail
    /\ faults' = [faults EXCEPT !.failures = @ + 1]
    /\ jobs' = [jobs EXCEPT ![r] = NotInPool]
    /\ UNCHANGED <<active, status, reader, submits, row, testing, runs, history>>

Administers == /\ MayFail
               /\ faults' = [faults EXCEPT !.edits = @ + 1]

\* update_script_action arms the action again.
Edit ==
    /\ Administers
    /\ enabled' \in BOOLEAN /\ cooldown' \in Cooldowns
    /\ latch' = FALSE
    /\ fresh' = TRUE
    /\ UNCHANGED <<active, status, reader, submits, age, result, jobs, testing,
                   runs, misled, repeated, hasty>>

\* test_script_action runs the script in the request, beside whatever the
\* pool runs, then stores the result.
TestStarts ==
    /\ Administers /\ ~testing
    /\ testing' = TRUE
    /\ UNCHANGED <<active, status, reader, submits, row, jobs, runs, history>>

TestEnds ==
    /\ testing /\ testing' = FALSE
    /\ age' = 0 /\ result' = "other"
    /\ UNCHANGED <<active, status, reader, submits, enabled, cooldown, latch,
                   jobs, runs, history, faults>>

\* The application restarts: pool and buffer are gone, the row is not.  A
\* script that is running goes on by itself, and nobody hears of it again.
Restart ==
    /\ MayFail
    /\ faults' = [faults EXCEPT !.failures = @ + 1]
    /\ view' = [p \in Handlers |-> NoView] /\ submits' = {}
    /\ waited' = [p \in Handlers |-> 0]
    /\ jobs' = [r \in 1..MaxRuns |-> NotInPool]
    /\ testing' = FALSE /\ polled' = FALSE
    /\ UNCHANGED <<active, stored, row, runs, history>>

Evaluate(p) == Rearm(p) \/ NotDue(p) \/ Queue(p) \/ Submit(p)

ScriptNext ==
    \/ PowerChanges \/ StatusStored \/ Tick
    \/ PollAnswered \/ PollFailed \/ PollBroken
    \/ \E p \in Handlers : EventPosted(p) \/ Evaluate(p) \/ EvaluationFails(p)
    \/ \E r \in 1..MaxRuns : Complete(r) \/ CompleteFails(r)
    \/ Edit \/ TestStarts \/ TestEnds \/ Restart

ScriptSpec == ScriptInit /\ [][ScriptNext]_scriptVars

\* Handlers go on, scripts end or are killed, time passes, the thread polls,
\* and a UPS that is polled again and again answers again and again.
ScriptFairness ==
    /\ \A p \in Handlers : SF_scriptVars(Evaluate(p))
    /\ \A r \in 1..MaxRuns : WF_scriptVars(Complete(r))
    /\ WF_scriptVars(Tick) /\ WF_scriptVars(TestEnds)
    /\ SF_scriptVars(PollAnswered)

ScriptFairSpec == ScriptSpec /\ ScriptFairness
-----------------------------------------------------------------------------
(* Properties.                                                             *)

\* The pool never runs the script of an action twice at a time, whoever
\* evaluates, edits or tests it meanwhile, provided that none was queued under
\* a cooldown as short as the script's run and the wait for the lock together.
\* A test, and a script a restart left behind, may run beside it.
OneAtATime == ~hasty => \A r, s \in InPool : r = s

\* As long as evaluations see the condition as it is, an action is executed
\* once for every time its condition becomes true or it is edited.
OnceIfSeenInTime == ~misled => ~repeated

\* A condition that stays true is acted upon, and after one that stays false
\* the action is armed, even if stale views, restarts, errors or edits came
\* before.
LatchFollows ==
    /\ <>[](active /\ enabled /\ runs < MaxRuns) => <>[]latch
    /\ <>[](~active /\ enabled) => <>[]~latch

\* What is queued is in the end executed and has a result, unless an error or
\* a restart interfered.
QueuedCompletes ==
    result = "Queued" ~> \/ result # "Queued"
                         \/ faults.failures > 0

\* changelog.md, line 21: actions "execute once while active, rearm after
\* recovery".
OncePerOccurrence == ~repeated
=============================================================================
