# Nutify: a verification of its core

Nutify (version 0.3.0) watches uninterruptible power supplies.  It asks the NUT
tools (`upsc`) for the state of every configured target, stores samples in
SQLite, turns what changes into events, stores and announces the events, and
runs scripts and reports.  It is one Flask process under eventlet: a polling
thread, a scheduler thread, a connection monitor, and a greenlet per HTTP
request share its memory and its database.  One more writer of the same
database is outside the process: upsmon starts `events/ups_notifier.py` for
every event of a local UPS.

This directory holds TLA+ models of the parts of the program whose correctness
depends on the order of steps, on faults or on long histories, the TLC
configurations that check them on small instances, and proofs for all
instances.  Every definition that stands for code is listed with its lines
under `map` in `PROJECT.json`.

## Inventory

| component (source under `src/nutify/`) | state | operations | meets | what is hard |
|---|---|---|---|---|
| Target polling: `core/multi_nut/polling.py`, `power_events.py`, `app.py` (polling_thread) | debounce memory and last power state per target, in memory; policy and target rows | wake up, skip, query, commit, hand over an event, abort | target store, minute buffer, event handling, script actions | order of commit and memory, errors in the middle, restarts, users changing targets in the middle of a cycle |
| Event handling: `core/upsmon/upsmon_client.py`, `event_dedupe.py` | event rows, `data_lock` | receive, suppress, store, notify, end an outage, fall back | called by polling and by `POST /nut_event` | concurrent handlers, slow notifications between two locked sections, failures |
| Local notifier: `core/events/ups_notifier.py` | the same event rows | end predecessors, store, notify | upsmon, the events table, notification channels | another process: no lock, no duplicates check |
| Notification dispatch and channels: `core/multi_nut/notifications.py`, `core/mail/`, `core/extranotifs/` | times of the last communication events; configurations, defaults, routes | announce, send channel by channel; save, delete, route, make default | event handling, target policies | configurations that change between the turns of a dispatch, deletions in two commits, ids used again |
| Minute buffer and rollups: `polling.py`, `core/multi_nut/rollups.py`, `storage_snapshots.py` | samples of the current minute, snapshot rows, minute/hour/day/month/year rows | add, pop, record, record an error, rebuild parents | polling | failed commits, two rows for one minute, parents not rebuilt |
| Script actions: `core/scripts/script_actions.py`, `executor.py` | one row per action: latch, cooldown, last execution, result | evaluate, submit, complete, edit, test | polling, event handling | completions out of order, restarts |
| Target store, options: `core/multi_nut/storage_core.py`, `core/options/`, `core/mail/api_mail.py` | targets, the primary, policies, rows of options, routes, schedules, the mail provider | create, update, make primary, delete, list; save options, routes, schedules | everything | rows that outlive what they refer to, ids used again, scopes that depend on the profile |
| Database start-up: `core/db/initializer.py`, `integrity.py`, `db_patch.py` | the tables and whether they match their models | create, check, drop, create again, fill in, bring in order | target store | dying between separate commits, tables that cannot be dropped, new versions, a new key |
| Set-up wizard: `core/nut_config/` | five configuration files, the database's first rows, NUT's processes | test, save, delete, restart | app start, NUT's programs | tests of two users over the same files, saves in many commits, deaths |
| Connection monitor and NUT service control: `core/db/internal_checker.py`, `core/nut/nut_daemon.py`, `core/advanced/` | connected, recovery and USB flags; which services run | check, scan, recover, verify; start, stop, restart | event handling (COMMBAD, COMMOK) | sequences of commands without a lock, time-outs in the middle, flags changed in several places |
| Report scheduler: `core/scheduler/`, `core/report/report.py` | schedule rows, the job list of the `schedule` library | create, change, delete, disable; take, run and reschedule jobs | mail | row and job diverge, a list changed while it is run over, exceptions |
| Authentication: `core/auth/`, `core/db/orm/orm_ups_login.py` | accounts, identities of single sign-on, the row of its configuration, two copies of it in memory | set up, create, rename, change role, delete; save, discover, register, test, enable, delete the provider; sign in | every request | waits for the provider in the middle of a request, sessions that hold what they loaded before, copies that are not taken anew, ids used again |
| Callback token: `core/events/callback_token.py` | one token file | get or create, rotate | remote notifier scripts | check then write; not modelled |
| UPS commands and variables: `core/upscmd/`, `core/upsrw/` | none | run one program | NUT | not modelled |
| Display: energy, battery, power and voltage pages, cache, web sockets, front end | rows they read | requests | the rows of the others | not modelled |

What makes each correct, in words:

* Polling announces each outage of a link once, in order (COMMBAD, NOCOMM,
  COMMOK), only after enough consecutive failures, and does announce it if it
  lasts; ONBATT and ONLINE alternate; what the user sees agrees.
* Event handling stores no duplicate within the window, loses no report,
  announces every stored event once, and ends each outage once, by the ONLINE
  that ended it.
* The notifier leaves none of the rows of its name open that it found when it could
  end them, and never prevents a report from being announced.
* Every completed minute is stored once and reaches its hour, day, month, year.
* A script runs once per occurrence of its condition, and not twice at a time under
  a cooldown longer than its run; its row tells the last run.
* One primary, no two targets with one identity, a policy for each; neither a
  deletion nor the loss of secrets leaves anything that goes through a mail provider
  that is gone; a start repairs what a start cut short left, and keeps every row it may
  keep.
* What the set-up reported as saved is what the rows hold, and the files but for those
  a failed test could not put back; a test leaves no server behind.
* The services of a UPS on the USB bus come to answer again after any loss, whoever
  stopped them; the monitor's flags agree and a loss has one COMMOK.
* An enabled schedule has the jobs its row asks for; a report is due at the time of day
  its user chose; no report that fails stops the others.
* An event goes through every channel that was chosen for it all along; a deletion
  leaves no route to what it deleted; a channel has one default.

The hazards are listed line by line in `PROJECT.json` with the properties that
would catch them.

## Modules and the code they model

| module | models | extends |
|---|---|---|
| `PowerEvents` | the pure functions of `power_events.py`: debounce memory after a failure or a success, status tokens to power state, the events of a transition | |
| `TargetPolling` | the polling thread, one cycle over the enabled targets, step by step, and the polls users ask for | `PowerEvents` |
| `OutageReport` | what listeners are promised about an outage; `TargetPolling` implements it | |
| `EventPipeline` | `handle_nut_event` in concurrent handlers, and the notifier processes, over one events table | |
| `ReportFate` | what becomes of each report, whatever fails; `EventPipeline` implements it | |
| `EventPipeline_proofs` | theorems about `EventPipeline` | `EventPipeline`, TLAPS |
| `History` | the minute buffer, snapshots, and the rows of minute, hour and day | |
| `ScriptActions` | one script action: evaluation, latch, cooldown, pool, edit of either, test | |
| `TargetRegistry` | targets, policies, options, routes, mail provider and schedules, and the requests that change them | |
| `DatabaseStartup` | the start of the program around those requests: repair of the tables, defaults, order | `TargetRegistry` |
| `DatabaseStartup_proofs` | theorems about `DatabaseStartup`, and so about the requests of `TargetRegistry` | `DatabaseStartup`, TLAPS |
| `SetupWizard` | tests, saves and deletions of NUT configurations, restarts and what a start makes of them | |
| `SetupWizard_proofs` | theorems about `SetupWizard` | `SetupWizard`, TLAPS |
| `NutServices` | NUT's services, administrators who control them, and the thread that watches the connection | |
| `ReportScheduler` | schedules, jobs and the thread that runs them | |
| `Threads_proofs` | theorems about the two threads, `TargetPolling` and `ReportScheduler` | both, TLAPS |
| `Commands_proofs` | theorems about the two that run other programs, `NutServices` and `ScriptActions` | both, TLAPS |
| `Notifications` | senders that go from channel to channel, and users who change configurations and routes | |
| `Notifications_proofs` | theorems about `Notifications` | `Notifications`, TLAPS |
| `Accounts` | accounts and identities, the configuration of single sign-on and the requests that change and test it | |
| `Accounts_proofs` | theorems about `Accounts` | `Accounts`, TLAPS |
| `History_proofs` | theorems about `History` | `History`, TLAPS |
| `MC...` | the values TLC gives to the constants | the module after MC |

`Threads_proofs` and `Commands_proofs` each hold the proofs about two components that have
no variable in common; so that both can be extended, the definitions of `ReportScheduler`
and `ScriptActions` whose names the other has too begin with `Scheduler` and `Script`
(`SchedulerSpec`, `ScriptTypeOK`).

The components meet where the code calls across them.  Each module has the others
as its surroundings: the handling of an event is one step (`HandOver`) of
`TargetPolling`, which may fail; a report in `EventPipeline` may come at any moment
with any type, and its notification is one step, of which `Notifications` shows
the inside; a poll in `History` or an evaluation in `ScriptActions` may come at any
moment; `Unplug` in `NutServices` is the world; the deletion of a mail
configuration is a request of `TargetRegistry`, of `Notifications` and of
`ReportScheduler`, each with the rows it is about.  `TargetPolling` implements
`OutageReport`, and what it announces is what a handler of `EventPipeline` receives;
`EventPipeline` implements `ReportFate`: `holds[r]` is the rows of report `r`, `told[r]` how often
it was announced, `cover[r]` the row it was suppressed for.

Definitions with the comment "Mutant" or "Faulty variant" are mistakes a property
is to notice; no specification uses them.  Definitions with the comment
"Counterexample" state what the repository says and the code does not do.

### PowerEvents and TargetPolling

`comm[t]` and `power[t]` are the dictionaries of `power_events.py`, `enabled`
and `lastTest` columns of the targets, `age` the time since
`policy.last_polled_at` in wake-ups of the thread.  `WakeUp` takes the snapshot
of the enabled targets.  A poll of the first of them (`todo`, in order of id) is
`QueryFails` then `PersistErrorState` then `HandOver`, or `QueryAnswers` then
`CommitSuccess` or `CommitFails`, then `HandOver`, then `CollectTransitions`,
`HandOver` again and `FinishTarget`.  The debounce memory changes in the same
step as `collect_poll_failure_events`, before the database commit, and the memory
of the power state in that of `collect_power_transition_events`: the order is the
code's and most of what can go wrong is in it.  `CycleAborted` is an exception
that leaves `poll_multi_targets_once`, `HandOverFails` one in the middle of a
list of events, `Restart` a new process, which remembers no outage.
A poll a user asks for (`POST /api/nut/targets/<id>/poll-now`) writes
`last_test_status` too, in a session of its own: `PollNowQueries` asks, and
`PollNowStores` writes the answer at any later time, over what the thread wrote
meanwhile (`asked`); the thread's own session writes the column only when its value
differs from the one it loaded (`loaded`).
`reachable` is the world; `announced`, `lastPower`, `streak` and `vouched` (the
targets whose status a user's answered poll wrote last) are history.

### EventPipeline

Each handler is one call of `handle_nut_event`; its stages are the points
between which other threads run: received, checked (in `data_lock`, duplicates
looked for), stored, told (notifications sent, without the lock), closing (in the
lock again, the open outage found).  `Poller` has a fallback that announces a
report that could not be stored, `_emit_lifecycle_event`.  A notifier process ends
the open rows of its name, or fails to (`NotifierCloseFails`: the error is caught),
inserts its own all the same and notifies, without lock or lookup; several of one
name may run side by side, as upsmon starts one for each event.  `found` is history:
up to which row a report's notifier has ended its predecessors.  Times are in the
order reports were received, which is not the order in which they get the lock.  A
crash of the application empties the handlers and
leaves the table.  Eventlet switches at network calls and not at every
statement; the model lets any two steps outside the lock interleave.

### History

The clock counts minutes.  A poll takes its time (`at`), pops the completed
minute if there is one, stores its average, queries and adds the sample.
`Record` is `record_target_snapshot` with the rollups of that snapshot in the same
transaction: the row of the minute is replaced, and, only if the minute had no
row, hour and day are aggregated anew from the level below.  Rows are modelled
by what they were aggregated from, so that "current" has a meaning without
arithmetic.  `PollNow` and `Outage` store snapshots between the steps of a poll.

### ScriptActions

`view[p]` is what a handler's metrics say of the condition (trigger and
threshold together) when it comes to evaluate: the sample of an answered poll,
the offline snapshot after an outage, or the last stored row for an event posted
without metrics, which has the status of the last sample (`polled`) of the minute
flushed last.  The lock of the module covers query to hand-over, so `Queue`
(commit) and `Submit` (pool) exclude other evaluations but not completions,
edits, tests or a restart.  The time an execution is recorded with was taken before
the wait for the lock: `waited[p]` is how long ago.  The cooldown is a column that an
edit changes, to nothing as well; `hasty` is history: an execution was queued under a
cooldown no longer than a run and a wait together.  `jobs` is the pool; a test runs
the script in its request (`testing`), beside the pool, and so does a script that a
restart of the program by itself (`os.execv`) leaves behind.

### TargetRegistry and DatabaseStartup

The rows of a table are a function of their ids or keys, with what they refer to
and without their text.  A handler never gives up control between its first
query and its commit, since the driver of SQLite does not yield to other green
threads: each is one step.  `NextId` is SQLite's: the id of the newest target is used
again once it is deleted.  `DatabaseStartup` puts the start around the requests:
`Upgrade` (a version whose models have new columns) and `ChangeKey` (secrets that
can no longer be decrypted) while the program is down, then the stages of
`init_app`, each with its own commit and each a place to die (`Die`), a table that
cannot be dropped or created (`DropFails`, `CreateFails`), and `BootstrapFails`, where the
code logs the error and goes on.  `lost` is what the check of secrets answered: that they
cannot be read, because the key has changed or because any error ended the check, after which
it drops schedules, routes and mail.  `tables` says whether a table matches its model, `todo`
which are still to be repaired, in the order of `RepairOrder`; a request that needs an
outdated one fails.  The id of a mail provider is saved with a route unchecked
(`SaveRoute`).  `clean` and `bare` are history, `bare` that something may name a provider
that is not there, in one of the four ways listed under "Noticed while modelling".

### SetupWizard

`files` says whose contents each of the five files has, `database` whose metadata,
account, targets and options the rows are.  A test of a user is the steps between
the calls where it waits for NUT's programs; it writes its files over those that
are there, remembers what it had read, and puts back what was not empty.  A save
waits for nothing, so nothing but a death comes between its commits.  A test may fail to
read a file or to write it back (`Unusable` says which files one fault reaches): it catches
the error and goes on with the next.  `StartFull` and `StartSetup` are what `app.py` makes of
the files and rows it finds.  `saved` is history: what the last save reported, until
something else is saved or deleted; `lost` is history: the files a test has left
with other contents for good; `orphan` is history: a restart has cut a test short,
whose server runs on.

### NutServices

`reachable` is the world, `attached` whether the driver has found the device, `running`
the processes.  An operation is its list of commands (`todo`), one step each, as the
code waits for each program; a start that is refused is a warning to an
administrator and the end of a recovery; `TimesOut` takes the branch of
`subprocess.TimeoutExpired`, after the command had its effect or before.  The
thread is `stage` and its three flags.  Its first look for the UPS in NUT's files has
no handler, and when they name none it calls a function that does not exist: `CheckRaises`
ends the thread (`"dead"`).  Its scan sees the USB bus only: `OnUsb` says whether the UPS is
there while it can be reached.  `commoks` is history.

### ReportScheduler

Time is counted in slots of a short day and week, so that every conversion of a
time and every next run is computed as the code and the library compute it.  Three clocks
take part: the user's (`UserOffset`), UTC in the rows, the server's (`SystemOffset`) in the
jobs; an offset is counted round the day.  Times of day are converted at each border,
weekdays at none.  A job
is one entry of `schedule.jobs`; `BeginPass` is the list `run_pending` takes, whose jobs
run even when a request has removed them meanwhile.  `SendReport` and `ReportFails` end
the only wait of a job, for the program that draws the charts.  `DeleteSchedule`
leaves the jobs (see below).  `sent` is history.

### Notifications

A sender is a call of `dispatch_target_event_notifications` (`app`), of the handler of
mail for an unknown target (`legacy`), or a process of upsmon's program (`notifier`).
Its channels have their turns in the code's order; a turn looks up the
configuration when it begins and waits for the server, and requests come in
between.  Each channel has its own lookup, as in the code: they differ in what they
do for rows of older databases.  `recent` is the memory that withholds a repeated
communication event.  A deletion is two commits, with a death between them
(`DieDeletingConfig`, `DieDeletingMail`), or an error of the second (`CommitFails`,
`MailCommitFails`); a start follows each death.  A start may drop the table of any channel
alone, or mail's with the routes (`Losses`, of which `DatabaseStartup` shows the inside), before
it fills in missing rows.  `steady`, `word` and `orphaned` (the configurations of which a
start dropped the table and left the routes) are history.

### Accounts

`row` is the one row of `auth_oidc_config`; `live` and `draft` are the two copies
`reload_oidc_module` takes of it, with which people sign in and administrators test.  A
request that asks the provider is split where it waits: `Discover` and `DiscoveryEnds`,
`Register` and `RegisterEnds` or `RegisterFails`, `BeginTest`, `TestReturns` and
`TestPasses` or `TestFails`.  Each request has a session of its own, which does not look
again at a row it has loaded, and whose commit writes the columns that differ from what
it loaded: `loaded` and `Flush`.  Names are compared exactly, except where single sign-on
makes an account and leaves capitals aside (`Casefold`).  The program runs with
authentication: what it does with `DISABLE_AUTH` set is left out.  Settings are
told apart by provider, client and the
rest of what a fingerprint covers.  `NextId` is SQLite's, as in `TargetRegistry`.
`tested` is history: the providers and clients a browser test went through; `crossed` is
history: a registration went on over settings others had changed, or left memory behind.

## What the runs show

Passing runs:

| run | constants | shows |
|---|---|---|
| `polling` | targets 1 and 2 (the second polled every other wake-up), thresholds 2 and 3, one handled database error | `OutageInv`, `Debounced`; `ReportsOutages`: refinement of `OutageReport`; `RecoveryAnnounced` |
| `polling_faults` | one target, four kinds of sample, one handled error, one lost event or cycle, one restart, one poll of a user | `PowerAlternates`, `DownIsShown`; `OutageAnnounced` even then |
| `events` | polling thread and one request, three reports of ONBATT or ONLINE in one scope, window 1, time up to 3, an error, a crash | `PipelineInv` (no duplicates), `Accounted`, `OutagesMatchPower`, `EndsOnce`; `FollowsFate`: refinement of `ReportFate` |
| `events_notifier` | the same with two notifier processes of one UPS, all rows under its name, without a crash, time up to 1 | `PredecessorsEnded`, `EveryReportAnnounced` |
| `history` | four minutes, two to the hour, two hours to the day, two samples and two other snapshots, one loss, one rollup given up | `OneAveragePerMinute`, `SamplesKept`, `AverageWins`, `NoMinuteMissing` |
| `scripts` | polling thread and one request, a run within one tick, cooldowns of 1 and 2, a wait of 1, two executions, one edit, test, error or restart | `OneAtATime`, `OnceIfSeenInTime`, `LatchFollows`, `QueuedCompletes` |
| `registry` | two ids, names and identities, one new version (of one or two tables, mail's among them) or key, one death or failed step, three requests | `RunningInOrder`, `NoDanglingMail`, `KeepsRows` |
| `setup` | two users, two local configurations and one that monitors remote servers, three requests, one death or failed write or read, of one file or of two; users and local configurations symmetric | `SavedIsKept`, `NoServerLeftBehind` |
| `services` | standalone, a UPS on the USB bus, two administrators, one unplugging, two requests, one time-out; the thread may die at its first check | `FlagsAgree`, `OneCommokPerLoss`, `EventuallyServed` |
| `reports` | a week of two days of three slots, the user two slots ahead of UTC and the server one, two ids, six slots of time, three requests, one death | `JobsMatchRows`, `DueAtChosenTime`, `EveryDueJobRuns` |
| `notifications` | one target, COMMBAD and ONBATT, one sender, two configurations a channel, two events and two requests (three together), one death or failed commit, after which the start drops nothing, one channel's table, or mail's with the routes | `ReachesChosen`, `RoutesResolve`, `OneDefault` |
| `accounts` | two administrators, two providers, one client, one person, three names of which two differ in capitals only, ids 1 and 2, five requests that save or change something, one restart; administrators, providers and the two spellings symmetric | `LiveWasTested`, `IdentitiesMatch`, `AdministratorRemains` |

No run of the list expects a violation: the places where code and words differ are
repeated by hand, below.

Further counterexamples a reader can repeat, each with the configuration of its
name (`tlc -config polling_commok.cfg MCTargetPolling`).  The specification is
the one of the passing run; the property states what a comment, a docstring or the
change log says:

* `polling_commok` (MCTargetPolling, `CommOkFollowsCommBad`): the debounce counts COMMBAD
  as announced before the error is committed; if the commit fails the event is
  lost, and COMMOK later reaches listeners who never heard of an outage
  (`power_events.py:99`).
* `polling_falsebad` (MCTargetPolling, `NoFalseCommBad`): a success that could not be
  committed leaves the counter of failures as it was, so that two failures that
  are not consecutive confirm an outage (`changelog.md:29`).
* `events_flap` (MCEventPipeline, `SuppressedAreDuplicates`): duplicates are told by
  type and scope only.  A second ONBATT within the window, with an ONLINE between
  them, is dropped (`event_dedupe.py:29`).
* `events_overlap` (MCEventPipeline, `ClosesPrevious`): ONLINE looks for the outage to
  end after it has notified, and may find one that began after it
  (`upsmon_client.py:365`).
* `history_stale` (MCHistory, `ParentsCurrent`): an average that replaces an existing row
  of its minute does not reach the hour (`changelog.md:55`).
* `scripts_again` (MCScriptActions, `OncePerOccurrence`): the evaluation at a COMMBAD
  clears the latch of an action, and the script runs a second time on the same
  battery discharge (`changelog.md:21`).
* `registry_operations` (MCDatabaseStartup, `OperationsPersist`): the operation settings
  of the single profile are in the global row, which a start removes
  (`operations_runtime.py:167`, "Persist operation settings for current target scope.").
* `registry_upgrade` (MCDatabaseStartup, `PrimaryMaintained`): a version that changes the
  targets' table makes a start drop it while the policies stay; the target of the
  NUT configuration then gets id 1, whose policy exists, and the program runs
  without a target (the docstring of `bootstrap_primary_target`).
* `setup_delete` (MCSetupWizard, `DeletedIsGone`): the loop that deletes the files returns
  after the first one (`routes.py`, `delete_config`: "Delete configuration files.").
* `reports_zone` (MCReportScheduler, `SentWhenChosen`): times are stored in UTC and
  weekdays as the user chose them; with a user one slot ahead a report comes on
  the wrong day (`scheduler.py:252`, "for user-expected execution time").
* `notifications_word` (MCNotifications, `WordIsTrue`): COMMBAD, COMMOK, COMMBAD within
  the window: the last word listeners get is COMMOK (`notifications.py`: what is
  withheld is logged as a "duplicate").
* `notifications_scope` (MCNotifications, `ScopeHonoured`): upsmon's program sends through
  all channels whatever the target's `notify_scope` ("honoring policy notify_scope",
  the docstring of the dispatch).
* `notifications_scope` with its last line changed to `INVARIANTS MailRoutesResolve`: routes
  may name a mail configuration that is gone, after `DELETE /api/settings/mail` or a death
  between two commits, and the next new configuration inherits them.
* `services_netclient` (MCNutServices, `UpsmonReturns`): "In netclient mode, we only need
  upsmon, not drivers or server" (`nut_daemon.py:597`).  The monitor's restart of services
  ignores the mode: an outage of the remote server gives the error it takes for an
  unplugged device, it stops upsmon, and starts it only after drivers
  (`internal_checker.py:531`), of which a client has none.
* `accounts_untested` (MCAccounts, `EnabledWasTested`): "A successful browser SSO test is
  required before enabling SSO" (`oidc_store.py:312`); a registration that the provider
  refuses has changed the row, and the test still uses what is in memory.  With the
  last line `INVARIANT LiveMatchesRow` before `CHECK_DEADLOCK`, the same configuration shows
  that memory does not follow the row (`oidc.py:79`, "after source or database
  changes").

### Bounds

All bounds are constants named `Max...` in the modules.  Two targets are enough
for `polling` since targets share only the thread; what they share (`todo`, the
stage, an aborted cycle) shows with two.  Thresholds of 2 and 3 are the
defaults, and the least with a step before and after the confirmation.  Three
reports are the least that show an outage, its end and a flap; a window of 1
with times to 3 has reports in the window, at its edge and past it.  Four minutes
cross an hour and the day.  Two notifiers are the least that run side by side, and
a third report, of either, finds what they left.  A tick of `scripts` is longer than a
run (30 s); a wait of 1 and cooldowns of 1 and 2 are at and over the edge of
`OneAtATime`; a smaller cooldown, which the API accepts, is as good as 1: both make
`hasty` true.  Two ids
of targets or configurations are the least with a deletion after which an id is
used again.  Two users of the set-up are the least that overlap; the proofs cover
any number.  Three slots are the shortest day in which the user's clock, the server's
and UTC are all different; a week of two days is the least in which a weekday is not every
day, and one that a conversion crosses midnight in; six slots of time are a whole week.
An unusable file alone, and two at once, are what one fault or several make of the five.  A window of 1 in
`notifications` has repetitions within and after it.  One of each fault covers the
faults and their pairs across kinds; two of one kind are covered by the proofs
where there are any.

`CHECK_DEADLOCK FALSE` stands in the configurations of `SetupWizard`,
`ReportScheduler`, `Notifications` and `Accounts` only because their bounds end a behaviour: when
time, requests and faults are used up nothing is left to do.  In those of `NutServices`
it stands because the thread may die, and then nothing may be left to do either.

### Fairness

* `TargetPolling`: weak fairness of the thread as a whole.  The loop of
  `polling_thread` catches every exception and goes on; nothing in it waits for
  another thread but the lock of the event handling, which is released.  No
  fairness of links, users or faults.
* `EventPipeline`: weak fairness of each handler and notifier.  Notifications have
  time-outs.  None for reports, errors and crashes.
* `ScriptActions`: strong fairness of the evaluation of each handler (the lock is
  contended, and passed on), weak fairness of completions (a script is killed
  after 30 seconds), time and tests, strong fairness of answered polls: the
  properties are about a UPS that can be reached again and again.
* `NutServices`: weak fairness of the watching thread, while it lives, and of the
  operation of each actor: each command has a time-out, its errors are caught where it is
  run, and nobody holds a lock.  The loop of the thread itself has no handler; the one error that
  is known to reach it, at its first check, is `CheckRaises`, which the thread is not forced
  to meet and `EventuallyServed` excludes.  The property is about a UPS on the USB bus, as the
  code's scan looks nowhere else.  No fairness of the device, of administrators or faults; a
  driver need not find its UPS on its own.
* `ReportScheduler`: weak fairness of the thread (`RunPending`): it wakes every second, and
  the program that draws charts and the mail server have time-outs.  None for users.
* `History`, `DatabaseStartup`, `SetupWizard`, `Notifications` and `Accounts` claim no liveness.

## What is proved

The theorems hold for every value of the constants the named assumptions allow:
any set of targets, handlers, notifiers, any bound on time, reports and
faults.  The assumptions are `ThresholdAssumption` (1 <= COMMBAD threshold <
NOCOMM threshold, which `power_events.py` makes sure of when it reads them from
the environment), and `PollingAssumption`, `PipelineAssumption`, `ScriptAssumption`,
`SetupAssumption`, `ServicesAssumption`, `NotificationAssumption`, `AccountsAssumption`,
`HistoryAssumption`, `SchedulerAssumption`, `RegistryAssumption`, `StartupAssumption`: typing of
the constants (offsets of clocks less than a day, versions that change tables of the
program).  `CasefoldAssumption` says that names are told apart by something.  TLC evaluates
them in every run.

* `Threads_proofs`, of `TargetPolling`
  * `TypeCorrect`: `TypeOK`, from lemmas on the types of what the functions of
    `PowerEvents` return.
  * `OutageInvariant`: `OutageInv`, which is inductive given `TypeOK`.  The claim is
    `ReportsMatchMemory`; it needs `FlagsFollowCounter` (otherwise a failure might
    emit an event twice) and `OutboxShape` (what a poll may still have to hand over
    at each stage: otherwise a COMMOK might wait behind a COMMBAD).
  * `ImplementsOutageReport`: with `MaxEscapes = 0` and `MaxRestarts = 0`, every step
    is a step of `OutageReport` or leaves `announced` alone; only `HandOver` changes
    it, and `ReportsMatchMemory` tells from where.
  * `StreakInvariant`, `DebounceCorrect`: the memory never counts more failures than
    there were unanswered polls in a row, so that COMMBAD waits for the
    threshold; both conditional on no database error, as `polling_falsebad` shows
    they must be.
  * `DownAlwaysShown`: `DownIsShown`, from `ShownInv`, which follows the result of a failed
    query from the poll to the write, where the claim is about the time in between, while
    users' polls write the same column.
  * `PowerAlwaysAlternates`: `PowerAlternates`, from `AlternationInv`: the last word handed over
    is the one the memory of the last sample stands for, except for the event on its
    way.
* `Threads_proofs`, of `ReportScheduler`
  * `SchedulerTypeCorrect`: `SchedulerTypeOK`, with the lemma that the next run of a job is at
    most a week ahead.
  * `JobsAlwaysMatch`: `JobsMatchRows`, from `ScheduleInv`.  The claim is about jobs of enabled
    schedules; a deleted one leaves its jobs, and a new one may take its id, so that
    `JobsServe` says of every job, whoever it belongs to, that its row, if there is one,
    asks for it and that it is set for a time it names; `RowsServed` is the converse.
  * `AlwaysDueAtChosenTime`: `DueAtChosenTime`, for any two offsets: that the conversions to
    UTC and to the server's clock undo each other is `ToUtc` and `ToSystem` modulo a day.  A
    job runs from a copy of the list, after its row may have changed: `ThreadServes` and
    `SentServed` remember the row there was when it was taken.  The day is a day of
    the server's clock; by the user's own the claim is false (`reports_zone`).
* `EventPipeline_proofs`
  * `TypeCorrect`: `TypeOK`, strengthened with what a busy process must have (a
    report, and a row when it is about to end one).
  * `NoDuplicates`: `PipelineInv`.  That rows of one type and scope are apart
    (`DedupeSpacing`) needs that a lookup stays true until the insert
    (`CheckedStaysFresh`), which needs the lock (`LockDiscipline`), through errors
    and crashes, which release it.
  * `EndsAreFinal`: without notifiers `EndsOnce`: the row a handler found open stays
    open until it ends it, because the lock is held.
  * `AlwaysAccounted`: `Accounted`, from `AccountInv`: each busy process has a report of its own,
    and its stage says whether the report is stored, announced or neither yet.
  * `OutagesAlwaysMatch`: `OutagesMatchPower`, from `MatchInv`.  The claim is about times when
    nobody is busy; in between, the last row is the ONLINE the polling thread deals
    with (`PollerLate`), and outages before it have their ends (`AfterEnded`).  If a row
    of the scope is found that is not the last outage, ONLINE was between the two, so
    that it was ended before.
  * `FateAlwaysFollowed`: `FollowsFate`, that is, `EventPipeline` implements `ReportFate`, with any
    errors and crashes.  Every step is one of `ReportFate` for the report the process
    deals with, or a stutter, because of `FateInv`: each process has a report of its own
    and its stage fits what became of the report so far (`Fits`), and reports to come
    have left no trace.  Rows are only added and never change the report they are of
    (`HeldGrows`).
  * `PredecessorsAlwaysEnded`: `PredecessorsEnded`, from `FoundInv`, which says the same of a
    process whose row is still to come, and that the rows it found are there: rows are only
    added, and no step opens one that has an end.
* `Commands_proofs`, of `ScriptActions`
  * `ScriptTypeCorrect`: `ScriptTypeOK`.
  * `NeverTwiceAtATime`: `OneAtATime`, for any cooldowns.  It is not inductive:
    nothing in it says why a second execution is not due.  `PoolInv` adds that, unless an
    execution was `hasty`, one in the pool is at least as old as the age the row gives
    to the last one, less the wait for the lock, so that while it runs (for `Timeout` at
    most) the cooldown has not passed; and that the one being handed over is alone.  A
    test only makes the age smaller, and a restart empties the pool and keeps the row.
  * `NeverAgainIfSeenInTime`: `OnceIfSeenInTime`, from `OccurrenceInv`: a condition that
    holds while the latch is open is an occurrence no execution was queued for.
* `SetupWizard_proofs`
  * `TypeCorrect`: `TypeOK`.
  * `SavedStays`: `SavedIsKept`, from `WizardInv`.  The claim about files says nothing
    while a test runs, so `Kept` adds what the running tests will put back: a
    test's backup of a file that is not lost holds what was saved, and files are all
    lost once two tests overlap; and `Progress` what a save has committed at each of its
    steps.
  * `NoServerStays`: `NoServerLeftBehind`, from `ServerInv`: a server belongs to a test that
    has yet to pass or undo, since a second one refuses to start.
* `Commands_proofs`, of `NutServices`
  * `TypeCorrect`: `TypeOK`; that what a time-out leaves of an operation is a list of commands
    again is its hard part.
  * `FlagsAlwaysAgree`, `NeverTwoCommoks`: from `WatchInv`, which adds to `FlagsAgree` at which
    stages of the thread a loss is not yet handled, and that no COMMOK has been
    sent for such a loss: the check and the verification cannot both announce.
* `DatabaseStartup_proofs`
  * `TypeCorrect`: `TypeOK`, for any requests of `TargetRegistry` too; that an id is new comes
    from the greatest element of a bounded set.
  * `RunsInOrder`: `RunningInOrder`, from `StartInv`.  What is wrong with a table is on the list of
    the repair until it is put right (`TablesInOrder`), whatever order tables are taken
    in and however often a start dies; the order of targets is what bootstrap and
    synchronization leave (`TargetsInOrder`), which requests keep.
  * `MailNeverDangles`: `NoDanglingMail`, for any versions.  `MailInv` needs that schedules and
    routes are dropped before the mail table when its secrets are taken for lost, so that
    a death in between leaves none of them behind without it.
  * `RowsAlwaysKept`: `KeepsRows`, an action property, from `StartInv`: a table that matches its
    model is on the list only because the check of secrets took them for lost.
* `Notifications_proofs`
  * `TypeCorrect`: `TypeOK`, strengthened with `Begun` (what a sender is about while it
    sends).
  * `RoutesAlwaysResolve`: `RoutesResolve`, through the deletion's two commits, the failure of
    the second, and starts that drop any channels' tables: only what such a start drops is
    `orphaned` (`StartResolves`), and a deletion takes it from the routes and the orphans
    together.
  * `AlwaysOneDefault`: `OneDefault`.  That the smallest id is one of those that remain
    (`MinIn`) is a lemma by the well-foundedness of the natural numbers.
  * `ReachesAllChosen`: `ReachesChosen`, from `ReachInv`: a channel that led somewhere all
    along is still to come or has been sent to (`Kept`), since the lookup at its turn
    finds what it led to; in the single profile the global rows never go
    (`GlobalRows`).
* `Accounts_proofs`
  * `TypeCorrect`: `TypeOK`.
  * `IdentitiesAlwaysMatch`, `AdministratorAlwaysRemains`: from `UserInv`, which adds to both
    that the first account stays what it was made (`FirstStays`) and that no identity
    has an id that no account has (`NobodyBefore`), which is what a new account with a
    used id needs.  That an id is new is the lemma `NextIdNew`, from the greatest element
    of a bounded set.
  * `LiveAlwaysTested`: `LiveWasTested`, from `ConfigInv`: unless a registration has crossed,
    memory follows the row, what is verified was tested, what is enabled is verified,
    and a test that began with the row's settings is about them.
* `History_proofs`
  * `TypeCorrect`: `TypeOK`; that the hour of a minute is one of the hours is a lemma on
    division (`DivisionMonotone`).
  * `NeverTwoAverages`, `SamplesAlwaysKept`, `AverageAlwaysWins`: from `AveragesInv`.  Averages are of
    minutes before the one that is being taken out, which is before the one in the
    buffer (`Timeline`, `AveragesAreOver`), so that none comes twice, nor is replaced by a
    snapshot of now; `Kept` says where the answers of each minute are.
  * `NeverMinuteMissing`: `NoMinuteMissing`, which is inductive given `TypeOK`.

`TypeOK` of a module with a `TypeCorrect` theorem is not checked by its run as well.

Every safety property and action property of the runs is stated by a theorem.  Only
model-checked is liveness, which is out of the prover's reach (it needs `ENABLED`):
`RecoveryAnnounced`, `OutageAnnounced`, `EveryReportAnnounced`, `LatchFollows`, `QueuedCompletes`,
`EventuallyServed` and `EveryDueJobRuns`.  The counterexamples are single behaviours and are
model-checked by their nature.

## Noticed while modelling

Beyond the counterexamples above; the models follow the code in all of them.

* A poll a user asked for, answered before an outage, may store its answer after the outage
  was announced: the target is shown as working until the next failed poll is stored.
* A cooldown of 0 is accepted, and one shorter than a script's run lets the script run twice
  at a time.  A test always may run beside the pool.
* A notifier that cannot end its predecessors, or two of one UPS side by side, leave two
  open rows of a name, until the next one ends both.
* A route or a schedule may name a mail provider that is not there in four ways: `DELETE
  /api/settings/mail` leaves what names the provider it deletes; a route is saved with any id
  (`api_mail.py:423`, `473`); a version that changes the columns of the mail table makes a
  start drop it alone, although the repair of unreadable secrets drops the three together
  "due to dependency" (`integrity.py:193`); and that repair goes on to the mail table when
  it could not drop the others.
* Any error of the check of secrets other than a missing column (`integrity.py:103-122`)
  counts as unreadable secrets: schedules, routes and mail are dropped although they could be
  read.  For Ntfy, Telegram and webhooks the table is dropped alone and its ids are
  used again, so that routes to what was dropped lead to the next new
  configuration (`orphaned`).
* A test that fails restores the files it had read before; a file that did not exist
  stays behind with the test's contents, and so does one that could not be read or written
  back, about which nobody is told.  A restart in the middle of a test leaves
  its server running.  The return codes of the commands that stop a test's server are
  ignored.
* When NUT's files name no UPS, the monitor calls `load_from_database`
  (`internal_checker.py:168-172`), which its configuration does not have, outside any handler:
  the thread ends, and nothing watches the connection until the next start.  Its
  scan for a returned device looks at the USB bus: the services of a network or serial UPS
  that were stopped stay stopped.
* `delete_config` deletes the first of the files (`setup_delete`).
* The monitor sends the loss of a device again only if the connection came back in
  between, where a comment says "Roughly every 5 minutes".  A loss may end without
  COMMOK: a restart clears its flag, and if the verification does not see the UPS in
  time nothing announces it.  The thread starts again what an administrator stopped.
* `clear_jobs_for_schedule` (`scheduler.py:357`) looks for a tag no job has: the jobs of a
  deleted schedule stay, do nothing while there is no row, and are replaced when a
  new schedule takes its id.  A `PUT` with a malformed time commits a row
  without jobs.  A database error at the start leaves the program without the
  scheduler's thread.  The server's summer time moves jobs by an hour until they are
  set anew.
* `save_mail_settings` looks for the first free id and never uses it.  Nothing marks a
  mail configuration as the default, so that the first one stands in for one that is
  gone.  A new configuration may inherit the routes of a deleted one.
* A death between the two commits of a deletion leaves a channel without default.
* The device-loss branch of the monitor ignores the mode: a client of a remote server
  whose server is unreachable for a while loses its upsmon for good
  (`services_netclient`).
* A dynamic registration saves its form and reloads only when it has succeeded: when
  the provider refuses, sign-ins and tests go on with the settings before, and a test
  then verifies the row it did not test (`accounts_untested`).  Two that overlap, or one
  that overlaps a save, leave a row that is part one and part the other, since each
  session writes only its own changes.
* The answer of a discovery is written to the row there is when it comes, also when the
  provider in it is another one by then.
* Saving the settings before last again makes a verification of then valid again.
* A change of a role keeps the permissions of pages the account had.  Accounts made by
  administrators may have names that differ in capitals only (`routes.py:480`, `565`), single
  sign-on makes none.
* The hours' count of samples includes minutes without a sample, so that an hour with
  an outage is read as if the average power had been drawn all the time; the bars of
  the minutes of that hour are computed from raw rows and differ from it.  After a
  change of the time zone, day rows overlap and are both counted.

## What is not modelled

* **Energy, battery, power and voltage pages, and the figures of reports**: computations over
  rows without state of their own.  `energy.py` only reads, and nothing calls
  `save_ups_data` of `db/ups/cache.py` any more.
* **UPS data cache**, **web sockets**: copies of the last sample for pages; a reader
  that is behind shows an older sample, and the next one replaces it.
* **UPS commands and variables**: one call of `upscmd` or `upsrw` per request, whose result
  is the answer.
* **Callback token**: one file, read or created by a start.
* **Browser front end**, page templates, wording and layout of messages, logs.
* In the modelled components:
  * polling: the parsing of `upsc` beyond the tokens of the status and the charge, and
    the mapping of names of variables;
  * history: months and years (built as days are), time zones and summer time, the
    numbers, the removal of old rows;
  * script actions: their deletion, a pool without a free thread, and the processes of
    tests and of scripts left behind by a restart, but for the row they write;
  * events: acknowledgement and deletion by users;
  * targets: connection tests, geocoding, columns nothing else depends on; two requests
    at once (a handler does not give up control between its query and its commit);
  * options: values, backups, log settings;
  * set-up: the contents of the files, validation of forms, the scanner; a write that
    fails half-way; a server that its stop does not stop (the code does not look);
  * services: what their commands print; systems whose commands have other names;
  * reports: periods, cron expressions, changes of the clock, what a report says;
  * notifications: contents, retries inside the mail server's library;
  * accounts: passwords, cookies, two-step forms, permissions of pages, a provider
    configured by the environment, `DISABLE_AUTH`.
* Faults of the machine below the program: a damaged database, a full disk.

## Plan

Done, in this order: polling and the protocol of outages; the event pipeline with the
notifier; history; script actions; the target store and the start of the database; the
set-up wizard; services and the monitor; reports; notifications; accounts; proofs about
all ten, and the implementation of `OutageReport` and `ReportFate`.

Left:

1. `Monitor`: `TargetPolling` and `EventPipeline` composed, a hand-over being a report and the
   poll waiting for its handler, so that what is said to the user can be compared with
   the link itself.
2. Energy readings over `History`: bars, totals and drill-down of one period, and when
   they agree.
3. `CallbackToken`: two processes that start at once.
