--------------------------- MODULE TargetPolling ---------------------------
(***************************************************************************)
(* The polling thread (app.py polling_thread, multi_nut/polling.py         *)
(* poll_multi_targets_once): it wakes up, walks over a snapshot of the     *)
(* enabled targets in order of id, queries every target whose interval has *)
(* passed, commits the outcome to the database and hands the lifecycle     *)
(* events to the event pipeline one at a time.  Users enable and disable   *)
(* targets and poll them themselves, and links go up and down, at any      *)
(* moment; database writes may fail.  The minute buffer the samples go to, *)
(* and the script actions evaluated at the end of a poll, are components   *)
(* of their own.                                                           *)
(***************************************************************************)
EXTENDS PowerEvents

CONSTANTS Targets,     \* ids of the configured targets
          Every,       \* Every[t]: the target's interval, in wake-ups
          Samples,     \* the samples a UPS may answer with
          MaxFaults,   \* bound on database errors a poll handles itself
          MaxEscapes,  \* bound on errors that lose events or the cycle
          MaxRestarts, \* bound on restarts of the process
          MaxAsked     \* bound on polls that users ask for

ASSUME PollingAssumption ==
    /\ Targets \subseteq Nat
    /\ Every \in [Targets -> Nat \ {0}]
    /\ Samples \subseteq Sample /\ Samples # {}
    /\ MaxFaults \in Nat
    /\ MaxEscapes \in Nat
    /\ MaxRestarts \in Nat
    /\ MaxAsked \in Nat

VARIABLES
    reachable,  \* the world: does the UPS of the target answer
    enabled,    \* the targets that are enabled in the database
    requests,   \* how many polls users have asked for
    asked,      \* those that have queried and not yet stored the outcome
    comm,       \* power_events._communication_states
    power,      \* power_events._target_states
    age,        \* wake-ups since policy.last_polled_at, up to the interval
    lastTest,   \* target.last_test_status
    loaded,     \* the same, as the thread loaded it before it queried
    todo,       \* what is left of the cycle's snapshot of the targets
    stage,      \* where the poll of the first of them is
    sample,     \* the sample being processed
    outbox,     \* lifecycle events of this poll still to be handed over
    faults,     \* errors and restarts so far, against their bounds
    announced,  \* history: last communication event handed over, per target
    lastPower,  \* history: last of ONBATT and ONLINE handed over, per target
    vouched,    \* history: targets whose status a user's poll wrote last, answered
    streak      \* history: unanswered polls in a row, per target

world  == <<reachable, enabled, requests, asked>>
memory == <<comm, power>>
test   == <<age, lastTest, loaded>>
loop   == <<todo, stage, sample, outbox>>
told   == <<announced, lastPower, vouched>>
vars   == <<world, memory, test, loop, faults, told, streak>>

Stages == {"next", "persist", "report", "commit", "recover", "power"}

FaultCounts == [handled  : 0..MaxFaults,  escaped : 0..MaxEscapes,
                restarts : 0..MaxRestarts]

PollRequest == [n : 1..MaxAsked, target : Targets, answered : BOOLEAN]

NoSample == [tokens |-> {}, charge |-> "none"]

TypeOK ==
    /\ reachable \in [Targets -> BOOLEAN]
    /\ enabled \subseteq Targets
    /\ requests \in 0..MaxAsked /\ asked \subseteq PollRequest
    /\ comm \in [Targets -> CommunicationState]
    /\ power \in [Targets -> PowerState]
    /\ age \in [Targets -> Nat]
    /\ lastTest \in [Targets -> BOOLEAN] /\ loaded \in BOOLEAN
    /\ todo \subseteq Targets
    /\ stage \in Stages
    /\ sample \in Sample
    /\ outbox \in Seq(Events)
    /\ faults \in FaultCounts
    /\ announced \in [Targets -> {"up", "bad", "lost"}]
    /\ lastPower \in [Targets -> {"unknown", "ONBATT", "ONLINE"}]
    /\ vouched \subseteq Targets
    /\ streak \in [Targets -> 0..NoCommThreshold]

Init ==
    /\ reachable \in [Targets -> BOOLEAN]
    /\ enabled \in SUBSET Targets
    /\ requests = 0 /\ asked = {}
    /\ comm = [t \in Targets |-> Fresh]
    /\ power = [t \in Targets |-> Unseeded]
    /\ age = Every
    /\ lastTest \in [Targets -> BOOLEAN] /\ loaded = FALSE
    /\ todo = {} /\ stage = "next" /\ sample = NoSample /\ outbox = <<>>
    /\ faults = [handled |-> 0, escaped |-> 0, restarts |-> 0]
    /\ announced = [t \in Targets |-> "up"]
    /\ lastPower = [t \in Targets |-> "unknown"]
    /\ vouched = {}
    /\ streak = [t \in Targets |-> 0]

-----------------------------------------------------------------------------
(* The surroundings.                                                       *)

LinkChanges(t) ==
    /\ reachable' = [reachable EXCEPT ![t] = ~@]
    /\ UNCHANGED <<enabled, requests, asked, memory, test, loop, faults, told, streak>>

\* PUT /targets/<id>: the enabled flag changes in the database; the cycle under
\* way goes on with its snapshot, and the memories are kept.
SetEnabled(t) ==
    /\ enabled' = IF t \in enabled THEN enabled \ {t} ELSE enabled \cup {t}
    /\ UNCHANGED <<reachable, requests, asked, memory, test, loop, faults, told, streak>>

\* POST /targets/<id>/poll-now: the handler queries the UPS itself ...
PollNowQueries(t) ==
    /\ requests < MaxAsked
    /\ requests' = requests + 1
    /\ asked' = asked \cup {[n |-> requests', target |-> t, answered |-> reachable[t]]}
    /\ UNCHANGED <<reachable, enabled, memory, test, loop, faults, told, streak>>

\* ... and stores a snapshot and the outcome, whatever the thread is doing
\* meanwhile; the memories are not told.
PollNowStores(r) ==
    /\ r \in asked
    /\ asked' = asked \ {r}
    /\ age' = [age EXCEPT ![r.target] = 0]
    /\ lastTest' = [lastTest EXCEPT ![r.target] = r.answered]
    /\ vouched' = IF r.answered THEN vouched \cup {r.target} ELSE vouched \ {r.target}
    /\ UNCHANGED <<reachable, enabled, requests, memory, loaded, loop, faults,
                   announced, lastPower, streak>>

\* The snapshot cannot be stored: an answer is lost with it, an error is not.
PollNowFails(r) ==
    /\ r \in asked
    /\ faults.handled < MaxFaults
    /\ faults' = [faults EXCEPT !.handled = @ + 1]
    /\ asked' = asked \ {r}
    /\ IF r.answered THEN UNCHANGED <<lastTest, vouched>>
       ELSE /\ lastTest' = [lastTest EXCEPT ![r.target] = FALSE]
            /\ vouched' = vouched \ {r.target}
    /\ UNCHANGED <<reachable, enabled, requests, memory, age, loaded, loop,
                   announced, lastPower, streak>>

-----------------------------------------------------------------------------
(* The polling thread.                                                     *)

\* The sleep ends: a new cycle over the targets enabled now.
WakeUp ==
    /\ stage = "next" /\ todo = {}
    /\ todo' = enabled
    /\ age' = [t \in Targets |-> IF age[t] < Every[t] THEN age[t] + 1
                                                      ELSE Every[t]]
    /\ UNCHANGED <<world, memory, lastTest, loaded, stage, sample, outbox,
                   faults, told, streak>>

\* The target the cycle is at: the first of those left, by id.
Current(t) == t \in todo /\ \A u \in todo : t <= u

ShouldPoll(t) == age[t] >= Every[t]

SkipTarget(t) ==
    /\ stage = "next" /\ Current(t) /\ ~ShouldPoll(t)
    /\ todo' = todo \ {t}
    /\ UNCHANGED <<world, memory, test, stage, sample, outbox, faults, told,
                   streak>>

\* upsc fails: the debounce state moves first, before anything is stored.
QueryFails(t) ==
    /\ stage = "next" /\ Current(t) /\ ShouldPoll(t)
    /\ ~reachable[t]
    /\ comm' = [comm EXCEPT ![t] = AfterFailure(@)]
    /\ outbox' = FailureEvents(comm[t])
    /\ stage' = "persist"
    /\ streak' = [streak EXCEPT ![t] = IF @ < NoCommThreshold THEN @ + 1
                                                              ELSE @]
    /\ UNCHANGED <<world, power, test, todo, sample, faults, told>>

\* Faulty variant: the test status is only stored with a confirmed outage.
PersistConfirmedOnly(t) ==
    /\ stage = "persist" /\ Current(t)
    /\ age' = [age EXCEPT ![t] = 0]
    /\ lastTest' = [lastTest EXCEPT ![t] = @ /\ outbox = <<>>]
    /\ vouched' = vouched \ {t}
    /\ stage' = "report"
    /\ UNCHANGED <<world, memory, loaded, todo, sample, outbox, faults,
                   announced, lastPower, streak>>

\* _persist_error_state returns; an error of the offline snapshot alone is
\* handled inside it and changes nothing here.
PersistErrorState(t) ==
    /\ stage = "persist" /\ Current(t)
    /\ age' = [age EXCEPT ![t] = 0]
    /\ lastTest' = [lastTest EXCEPT ![t] = FALSE]
    /\ vouched' = vouched \ {t}
    /\ stage' = "report"
    /\ UNCHANGED <<world, memory, loaded, todo, sample, outbox, faults,
                   announced, lastPower, streak>>

\* upsc answers with a sample.  The target's row was loaded before the query,
\* during which others go on.
QueryAnswers(t, s) ==
    /\ stage = "next" /\ Current(t) /\ ShouldPoll(t)
    /\ reachable[t]
    /\ loaded' = lastTest[t]
    /\ sample' = s
    /\ stage' = "commit"
    /\ streak' = [streak EXCEPT ![t] = 0]
    /\ UNCHANGED <<world, memory, age, lastTest, todo, outbox, faults, told>>

\* Faulty variant: the flags are cleared, the failure counter is not.
CommitKeepsCount(t) ==
    /\ stage = "commit" /\ Current(t)
    /\ age' = [age EXCEPT ![t] = 0]
    /\ lastTest' = [lastTest EXCEPT ![t] = @ \/ ~loaded]
    /\ comm' = [comm EXCEPT ![t] = [Fresh EXCEPT !.failures =
                                           comm[t].failures]]
    /\ outbox' = SuccessEvents(comm[t])
    /\ stage' = "recover"
    /\ UNCHANGED <<world, power, loaded, todo, sample, faults, told, streak>>

\* The success is committed, and only then the outage state is dropped.  The
\* session writes the columns that differ from what it loaded.
CommitSuccess(t) ==
    /\ stage = "commit" /\ Current(t)
    /\ age' = [age EXCEPT ![t] = 0]
    /\ lastTest' = [lastTest EXCEPT ![t] = @ \/ ~loaded]
    /\ comm' = [comm EXCEPT ![t] = Fresh]
    /\ outbox' = SuccessEvents(comm[t])
    /\ stage' = "recover"
    /\ UNCHANGED <<world, power, loaded, todo, sample, faults, told, streak>>

\* Faulty variant: the outage state is dropped before the commit.
CommitFailsAfterPop(t) ==
    /\ stage = "commit" /\ Current(t)
    /\ faults.handled < MaxFaults
    /\ faults' = [faults EXCEPT !.handled = @ + 1]
    /\ age' = [age EXCEPT ![t] = 0]
    /\ lastTest' = [lastTest EXCEPT ![t] = TRUE]
    /\ comm' = [comm EXCEPT ![t] = Fresh]
    /\ todo' = todo \ {t}
    /\ stage' = "next"
    /\ UNCHANGED <<world, power, loaded, sample, outbox, told, streak>>

\* The except branch of a successful query: the first commit failed, the
\* second, which marks the error, went through.  The poll ends there.
CommitFails(t) ==
    /\ stage = "commit" /\ Current(t)
    /\ faults.handled < MaxFaults
    /\ faults' = [faults EXCEPT !.handled = @ + 1]
    /\ age' = [age EXCEPT ![t] = 0]
    /\ lastTest' = [lastTest EXCEPT ![t] = TRUE]
    /\ todo' = todo \ {t}
    /\ stage' = "next"
    /\ UNCHANGED <<world, memory, loaded, sample, outbox, told, streak>>

\* _emit_lifecycle_event: the next event goes to the event pipeline.
HandOver(t) ==
    /\ stage \in {"report", "recover", "power"} /\ Current(t)
    /\ outbox # <<>>
    /\ outbox' = Tail(outbox)
    /\ announced' =
         [announced EXCEPT ![t] = CASE Head(outbox) = "COMMBAD" -> "bad"
                                    [] Head(outbox) = "NOCOMM"  -> "lost"
                                    [] Head(outbox) = "COMMOK"  -> "up"
                                    [] OTHER -> @]
    /\ lastPower' =
         [lastPower EXCEPT ![t] = IF Head(outbox) \in {"ONBATT", "ONLINE"}
                                  THEN Head(outbox) ELSE @]
    /\ UNCHANGED <<world, memory, test, todo, stage, sample, faults, vouched,
                   streak>>

\* collect_power_transition_events, once COMMOK was handed over.
CollectTransitions(t) ==
    /\ stage = "recover" /\ Current(t) /\ outbox = <<>>
    /\ power' = [power EXCEPT ![t] = AfterSample(@, sample)]
    /\ outbox' = TransitionEvents(power[t], sample)
    /\ stage' = "power"
    /\ UNCHANGED <<world, comm, test, todo, sample, faults, told, streak>>

FinishTarget(t) ==
    /\ stage \in {"report", "power"} /\ Current(t) /\ outbox = <<>>
    /\ todo' = todo \ {t}
    /\ stage' = "next"
    /\ UNCHANGED <<world, memory, test, sample, outbox, faults, told, streak>>

Escaping == /\ faults.escaped < MaxEscapes
            /\ faults' = [faults EXCEPT !.escaped = @ + 1]

\* An error nothing in the poll catches ends the cycle: a commit of
\* _persist_error_state, a hand-over of an outage event whose fallback
\* raises, or the second commit of the except branch.  mark_poll_error may
\* have been committed before it.
CycleAborted(t) ==
    /\ stage \in {"persist", "report", "commit"} /\ Current(t)
    /\ stage = "report" => outbox # <<>>
    /\ Escaping
    /\ \/ UNCHANGED age
       \/ stage # "report" /\ age' = [age EXCEPT ![t] = 0]
    /\ todo' = {} /\ outbox' = <<>> /\ stage' = "next"
    /\ UNCHANGED <<world, memory, lastTest, loaded, sample, told, streak>>

\* The hand-over of a recovery or power event raises out of its fallback:
\* the except branch ends the poll, and with it the events not handed over;
\* when its own commit fails too, the cycle ends with it.
HandOverFails(t) ==
    /\ stage \in {"recover", "power"} /\ Current(t)
    /\ outbox # <<>>
    /\ Escaping
    /\ outbox' = <<>>
    /\ todo' \in {todo \ {t}, {}}
    /\ stage' = "next"
    /\ UNCHANGED <<world, memory, test, sample, told, streak>>

\* The process stops and starts again: what power_events keeps in memory is
\* gone, what the polls committed is not.
Restart ==
    /\ faults.restarts < MaxRestarts
    /\ faults' = [faults EXCEPT !.restarts = @ + 1]
    /\ comm' = [t \in Targets |-> Fresh]
    /\ power' = [t \in Targets |-> Unseeded]
    /\ asked' = {}
    /\ todo' = {} /\ stage' = "next" /\ sample' = NoSample /\ outbox' = <<>>
    /\ UNCHANGED <<reachable, enabled, requests, test, told, streak>>

PollStep(t) ==
    \/ SkipTarget(t) \/ QueryFails(t) \/ PersistErrorState(t)
    \/ \E s \in Samples : QueryAnswers(t, s)
    \/ CommitSuccess(t) \/ HandOver(t) \/ CollectTransitions(t)
    \/ FinishTarget(t)

FaultStep(t) == CommitFails(t) \/ CycleAborted(t) \/ HandOverFails(t)

Next ==
    \/ WakeUp
    \/ Restart
    \/ \E t \in Targets :
          \/ LinkChanges(t) \/ SetEnabled(t) \/ PollNowQueries(t)
          \/ PollStep(t) \/ FaultStep(t)
    \/ \E r \in asked : PollNowStores(r) \/ PollNowFails(r)

Spec == Init /\ [][Next]_vars

\* The thread is a loop with bounded timeouts: it always takes its next step.
Fairness == WF_vars(WakeUp \/ \E t \in Targets : PollStep(t))

FairSpec == Spec /\ Fairness
-----------------------------------------------------------------------------
(* Properties.                                                             *)

Outage == INSTANCE OutageReport WITH Targets <- Targets, announced <- announced

\* The communication events handed over for a target form the protocol of
\* OutageReport, whatever the order of failed and successful polls, of users
\* enabling and disabling the target, and of database errors the polls
\* handle.  It needs MaxEscapes = 0 and MaxRestarts = 0.
ReportsOutages == Outage!Spec

Pending(t, e) == Current(t) /\ outbox # <<>> /\ Head(outbox) = e

\* How far the memory of a target says its outage was announced.
Level(c) == IF c.noComm THEN "lost" ELSE IF c.commBad THEN "bad" ELSE "up"

\* The flags of the memory follow its counter.
FlagsFollowCounter ==
    \A t \in Targets :
        /\ comm[t].commBad <=> comm[t].failures >= CommBadThreshold
        /\ comm[t].noComm  <=> comm[t].failures >= NoCommThreshold

\* What a poll may still have to hand over, by its stage.
OutboxShape ==
    /\ stage \in {"next", "commit"} => outbox = <<>>
    /\ stage = "power" => outbox \in Seq(PowerAlarms)
    /\ \A t \in Targets : Current(t) =>
          /\ stage \in {"persist", "report"} =>
                \/ outbox = <<>>
                \/ outbox = <<"COMMBAD">> /\ Level(comm[t]) = "bad"
                \/ outbox = <<"NOCOMM">>  /\ Level(comm[t]) = "lost"
          /\ stage = "recover" =>
                comm[t] = Fresh /\ outbox \in {<<>>, <<"COMMOK">>}

\* As long as no event was lost and the memory was not, what listeners were
\* told of a target is what the debounce memory says of it, up to the one
\* communication event waiting to be handed over.
ReportsMatchMemory ==
    faults.escaped = 0 /\ faults.restarts = 0 =>
        \A t \in Targets :
            /\ Pending(t, "COMMBAD") => announced[t] = "up"
            /\ Pending(t, "NOCOMM")  => announced[t] = "bad"
            /\ Pending(t, "COMMOK")  => announced[t] # "up"
            /\ (\A e \in CommEvents : ~Pending(t, e))
                  => announced[t] = Level(comm[t])

OutageInv == FlagsFollowCounter /\ OutboxShape /\ ReportsMatchMemory

\* Without a database error, the memory never counts more failures than the
\* target has unanswered polls in a row.
StreakBoundsFailures ==
    faults.handled = 0 /\ faults.escaped = 0 =>
        \A t \in Targets :
            ~(stage = "commit" /\ Current(t)) =>
                comm[t].failures <= streak[t]

\* COMMBAD is handed over only after as many unanswered polls in a row as
\* the threshold asks for, one answer between them being enough to start
\* over, as long as no database error interfered.
Debounced ==
    faults.handled = 0 /\ faults.escaped = 0 =>
        \A t \in Targets :
            Pending(t, "COMMBAD") => streak[t] >= CommBadThreshold

\* The same, whatever the database does: changelog.md, line 29, "A transient
\* query failure no longer creates false COMMBAD".
NoFalseCommBad ==
    \A t \in Targets : Pending(t, "COMMBAD") => streak[t] >= CommBadThreshold

\* ONBATT and ONLINE are handed over in turns for each target: neither is
\* repeated, across inconclusive samples, outages and disabled periods, as
\* long as no event was lost and the memory of the last sample was not.
PowerAlternates ==
    faults.escaped = 0 /\ faults.restarts = 0 =>
        \A t \in Targets, e \in {"ONBATT", "ONLINE"} :
            Pending(t, e) => lastPower[t] # e

\* Between polls, a target announced to be down whose last query failed is
\* shown as failing, unless a user's own poll had an answer and was the last
\* to store its outcome: what users see agrees with what they were told,
\* however the two writers of last_test_status interleave.
DownIsShown ==
    faults.escaped = 0 /\ faults.restarts = 0 =>
        \A t \in Targets \ todo :
            announced[t] # "up" /\ streak[t] > 0 /\ t \notin vouched => ~lastTest[t]

\* COMMOK is handed over only to listeners who were told of the outage
\* (power_events.py, line 99: "emit COMMOK only after confirmed COMMBAD").
CommOkFollowsCommBad ==
    \A t \in Targets : Pending(t, "COMMOK") => announced[t] # "up"

\* An enabled target that stays unreachable is announced to be down, and
\* stays so, across a restart too: NOCOMM makes up for a COMMBAD lost to one
\* escaping error.
OutageAnnounced ==
    \A t \in Targets : <>[](t \in enabled /\ ~reachable[t])
                       => <>[](announced[t] # "up")

\* An enabled target that answers for good ends up announced as reachable.
\* It needs MaxEscapes = 0 and MaxRestarts = 0: a lost COMMOK, or an outage
\* that ends while the process is down, is never made up for.
RecoveryAnnounced ==
    \A t \in Targets : <>[](t \in enabled /\ reachable[t])
                       => <>[](announced[t] = "up")
=============================================================================
