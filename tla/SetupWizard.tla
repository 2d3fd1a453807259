---------------------------- MODULE SetupWizard ----------------------------
(***************************************************************************)
(* The set-up wizard (nut_config/routes.py, nut_config/config.py,          *)
(* nut_config/api_nut_config.py) and how app.py starts by what it left.    *)
(* Users test configurations, save them, delete them and restart the       *)
(* program.  A test writes its files over those that are there, starts     *)
(* driver and server with them, and restores what it had read before when  *)
(* it fails; nothing keeps two tests apart, or a test and a save, at the   *)
(* calls where they wait for NUT's programs.  A save waits for nothing but *)
(* commits file by file and table by table, and the process may die, or a  *)
(* write fail, between any two.                                            *)
(***************************************************************************)
EXTENDS Naturals, Sequences

FileOrder == <<"nut.conf", "ups.conf", "upsd.conf", "upsd.users", "upsmon.conf">>
Files     == {FileOrder[i] : i \in 1..Len(FileOrder)}

CONSTANTS Users,       \* browsers at the wizard
          Configs,     \* configurations they send
          NetClient,   \* those that only monitor remote servers
          None,        \* no configuration
          Unusable,    \* the sets of files that may be unreadable or unwritable at once
          MaxRequests, \* bound on tests, saves and deletions
          MaxFaults    \* bound on failed reads and writes and deaths of the process

ASSUME SetupAssumption ==
    /\ NetClient \subseteq Configs
    /\ None \notin Configs
    /\ \A together \in Unusable : together \subseteq Files
    /\ MaxRequests \in Nat /\ MaxFaults \in Nat

VARIABLES
    files,       \* whose contents each file has
    database,    \* is there one, and whose metadata, account, targets, options
    process,     \* "off", "setup" or "full"
    server,      \* whose configuration upsd runs with
    drivers,     \* and the drivers
    tests,       \* where each user's test is, and what it has read before
    saving,      \* the save under way
    restarting,  \* has a restart been answered and not yet happened
    saved,       \* history: the configuration a save reported
    lost,        \* history: the files a test overwrote and did not put back since
    orphan,      \* history: did a restart cut a test short
    counts

daemons == <<server, drivers>>
history == <<saved, lost, orphan>>
vars    == <<files, database, process, daemons, tests, saving, restarting, history, counts>>

(* The files of a configuration that are not empty.                        *)
Supplies(c) == IF c \in NetClient THEN {"nut.conf", "upsmon.conf"} ELSE Files

Contents  == [Files -> Configs \cup {None}]
TestSteps == {"idle", "stop", "driver", "server", "wait", "undo", "restore", "passed"}
SaveSteps == {"idle", "files", "table", "master", "account", "targets", "options"}

TypeOK ==
    /\ files \in Contents
    /\ database \in [exists : BOOLEAN, account : BOOLEAN,
                     master : Configs \cup {None}, targets : Configs \cup {None},
                     options : Configs \cup {None}]
    /\ process \in {"off", "setup", "full"}
    /\ server \in Configs \cup {None} /\ drivers \in Configs \cup {None}
    /\ tests \in [Users -> [step : TestSteps, backup : Contents]]
    /\ saving \in [step : SaveSteps, config : Configs \cup {None},
                   left : 0..Len(FileOrder), failed : BOOLEAN]
    /\ restarting \in BOOLEAN
    /\ saved \in Configs \cup {None}
    /\ lost \subseteq Files
    /\ orphan \in BOOLEAN
    /\ counts \in [requests : 0..MaxRequests, faults : 0..MaxFaults]

NoFiles == [f \in Files |-> None]
NoTest  == [step |-> "idle", backup |-> NoFiles]
NoSave  == [step |-> "idle", config |-> None, left |-> 0, failed |-> FALSE]

Init ==
    /\ files = NoFiles
    /\ database = [exists |-> FALSE, account |-> FALSE,
                   master |-> None, targets |-> None, options |-> None]
    /\ process = "off"
    /\ server = None /\ drivers = None
    /\ tests = [u \in Users |-> NoTest]
    /\ saving = NoSave
    /\ restarting = FALSE
    /\ saved = None /\ lost = {} /\ orphan = FALSE
    /\ counts = [requests |-> 0, faults |-> 0]

-----------------------------------------------------------------------------
Count(what) == counts' = [counts EXCEPT ![what] = @ + 1]
FaultsLeft  == counts.faults < MaxFaults

(* A request is served; a save has the process to itself.                  *)
Serving == process # "off" /\ saving.step = "idle"
Request == Serving /\ counts.requests < MaxRequests /\ Count("requests")

Testing == \E u \in Users : tests[u].step # "idle"

At(u, step) == Serving /\ tests[u].step = step
Goes(u, step) == tests' = [tests EXCEPT ![u].step = step]

Ends(u) == tests' = [tests EXCEPT ![u] = NoTest]

Stopped == server' = None /\ drivers' = None

(* Nothing is claimed any more of what was reported as saved.              *)
Forget == saved' = None /\ lost' = {} /\ UNCHANGED orphan

Loses(fs) == lost' = IF saved = None THEN {} ELSE lost \cup fs

Others == <<database, process, restarting>>

(* Mutant: the loop over the files ends with the first that cannot be      *)
(* written.                                                                *)
RestoreUntilFailure(u, unwritten) ==
    files' = [f \in Files |->
                IF tests[u].backup[f] # None
                   /\ \A i \in 1..Len(FileOrder) :
                         FileOrder[i] \in unwritten =>
                             \E j \in 1..i - 1 : FileOrder[j] = f
                THEN tests[u].backup[f] ELSE files[f]]

(* The files that were read when the test began get their contents back,   *)
(* but for those that cannot be written; the others stay as they are.      *)
restore_backup_files(u, unwritten) ==
    files' = [f \in Files |-> IF tests[u].backup[f] # None /\ f \notin unwritten
                              THEN tests[u].backup[f] ELSE files[f]]

-----------------------------------------------------------------------------
(* A test of a configuration with local targets.  When all its targets are *)
(* remote the test asks them and changes nothing.  A file that cannot be   *)
(* read is left out of the backup; one that cannot be written ends the     *)
(* writing.  A second test reads the files of the first.                   *)
BeginTest(u, c, n, unread) ==
    LET written == {FileOrder[i] : i \in 1..n} IN
    /\ At(u, "idle")
    /\ c \notin NetClient
    /\ files' = [f \in Files |-> IF f \in written THEN c ELSE files[f]]
    /\ tests' = [tests EXCEPT ![u] =
                    [step |-> IF n = Len(FileOrder) THEN "stop" ELSE "undo",
                     backup |-> [f \in Files |-> IF f \in unread THEN None ELSE files[f]]]]
    /\ Loses(IF Testing THEN Files ELSE {})
    /\ UNCHANGED <<Others, daemons, saving, saved, orphan>>

WritesAll(u, c) == Request /\ BeginTest(u, c, Len(FileOrder), {})

CannotWrite(u, c, n) ==
    /\ FaultsLeft /\ Count("faults")
    /\ BeginTest(u, c, n, {})

CannotRead(u, c, unread) ==
    /\ FaultsLeft /\ Count("faults")
    /\ BeginTest(u, c, Len(FileOrder), unread)

(* A failed test ends by putting the files back.  The errors of single     *)
(* files are caught.                                                       *)
PutsBack(u) ==
    \E unwritten \in {{}} \cup Unusable :
        /\ IF unwritten = {} THEN UNCHANGED counts ELSE FaultsLeft /\ Count("faults")
        /\ restore_backup_files(u, unwritten)
        /\ Loses(unwritten \cup {f \in Files : tests[u].backup[f] = None})
        /\ Ends(u)
        /\ UNCHANGED <<saved, orphan>>

StopServices(u) ==
    /\ At(u, "stop")
    /\ Stopped
    /\ Goes(u, "driver")
    /\ orphan' = FALSE
    /\ UNCHANGED <<files, Others, saving, saved, lost, counts>>

StartDriver(u) ==
    /\ At(u, "driver")
    /\ drivers' = files["ups.conf"]
    /\ Goes(u, "server")
    /\ UNCHANGED <<files, Others, server, saving, history, counts>>

DriverFails(u) ==
    /\ At(u, "driver")
    /\ PutsBack(u)
    /\ UNCHANGED <<Others, daemons, saving>>

(* A second upsd refuses to start while one runs.                          *)
StartServer(u) ==
    /\ At(u, "server")
    /\ server = None
    /\ server' = files["upsd.conf"]
    /\ Goes(u, "wait")
    /\ UNCHANGED <<files, Others, drivers, saving, history, counts>>

ServerFails(u) ==
    /\ At(u, "server")
    /\ drivers' = None
    /\ Goes(u, "restore")
    /\ UNCHANGED <<files, Others, server, saving, history, counts>>

TargetsAnswer(u) ==
    /\ At(u, "wait")
    /\ server # None /\ drivers # None
    /\ Goes(u, "passed")
    /\ UNCHANGED <<files, Others, daemons, saving, history, counts>>

(* Mutant: a failed test leaves the server running.                        *)
TargetsFailUnstopped(u) ==
    /\ At(u, "wait")
    /\ Goes(u, "restore")
    /\ UNCHANGED <<files, Others, daemons, saving, history, counts>>

TargetsFail(u) ==
    /\ At(u, "wait")
    /\ Goes(u, "undo")
    /\ UNCHANGED <<files, Others, daemons, saving, history, counts>>

(* A test that passed leaves its files; one that failed puts the others    *)
(* back.  Both stop what they started.                                     *)
TestPasses(u) ==
    /\ At(u, "passed")
    /\ Stopped
    /\ Ends(u)
    /\ Loses(Files)
    /\ UNCHANGED <<files, Others, saving, saved, orphan, counts>>

Undo(u) ==
    /\ At(u, "undo")
    /\ Stopped
    /\ Goes(u, "restore")
    /\ UNCHANGED <<files, Others, saving, history, counts>>

Restore(u) ==
    /\ At(u, "restore")
    /\ PutsBack(u)
    /\ UNCHANGED <<Others, daemons, saving>>

Test(u) ==
    \/ \E c \in Configs : WritesAll(u, c)
    \/ \E c \in Configs, n \in 0..Len(FileOrder) - 1 : CannotWrite(u, c, n)
    \/ \E c \in Configs, unread \in Unusable : CannotRead(u, c, unread)
    \/ StopServices(u) \/ StartDriver(u) \/ DriverFails(u)
    \/ StartServer(u) \/ ServerFails(u)
    \/ TargetsAnswer(u) \/ TargetsFail(u) \/ TestPasses(u)
    \/ Undo(u) \/ Restore(u)

-----------------------------------------------------------------------------
Unsaved == <<process, daemons, tests, restarting, orphan>>

BeginSave(c) ==
    /\ Request
    /\ saving' = [step |-> "files", config |-> c, left |-> Len(FileOrder), failed |-> FALSE]
    /\ saved' = None /\ lost' = {}
    /\ UNCHANGED <<files, database, Unsaved>>

(* Files are written one by one, the empty ones skipped; an error is noted *)
(* and the others are written all the same.                                *)
SaveFile(ok) ==
    LET f == FileOrder[Len(FileOrder) + 1 - saving.left]
        c == saving.config IN
    /\ saving.step = "files" /\ saving.left > 0
    /\ IF f \in Supplies(c)
       THEN IF ok THEN files' = [files EXCEPT ![f] = c] /\ UNCHANGED counts
                  ELSE FaultsLeft /\ Count("faults") /\ UNCHANGED files
       ELSE ok /\ UNCHANGED <<files, counts>>
    /\ saving' = [saving EXCEPT !.left = @ - 1, !.failed = @ \/ ~ok]
    /\ UNCHANGED <<database, saved, lost, Unsaved>>

FilesSaved ==
    /\ saving.step = "files" /\ saving.left = 0
    /\ saving' = IF saving.failed THEN NoSave ELSE [saving EXCEPT !.step = "table"]
    /\ UNCHANGED <<files, database, saved, lost, counts, Unsaved>>

(* One table after the other is committed; the first that fails ends the   *)
(* save with an error and what was committed stays.                        *)
Commit(step, next, committed) ==
    /\ saving.step = step
    /\ database' = committed
    /\ saving' = [saving EXCEPT !.step = next]
    /\ UNCHANGED <<files, saved, lost, counts, Unsaved>>

SaveTable   == Commit("table", "master", [database EXCEPT !.exists = TRUE])
SaveMaster  == Commit("master", "account", [database EXCEPT !.master = saving.config])
SaveAccount == \E given \in BOOLEAN :
    Commit("account", "targets", [database EXCEPT !.account = @ \/ given])
SaveTargets == Commit("targets", "options", [database EXCEPT !.targets = saving.config])

SaveOptions ==
    /\ saving.step = "options"
    /\ database' = [database EXCEPT !.options = saving.config]
    /\ saving' = NoSave
    /\ saved' = saving.config
    /\ lost' = IF Testing THEN Files ELSE {}
    /\ UNCHANGED <<files, counts, Unsaved>>

SaveFails ==
    /\ saving.step \in SaveSteps \ {"idle", "files"}
    /\ FaultsLeft /\ Count("faults")
    /\ saving' = NoSave
    /\ UNCHANGED <<files, database, saved, lost, Unsaved>>

(* The services are stopped; the loop over the files returns after its     *)
(* first one.                                                              *)
DeleteConfig ==
    /\ Request
    /\ Stopped
    /\ files' = [files EXCEPT !["nut.conf"] = None]
    /\ Forget
    /\ UNCHANGED <<Others, tests, saving>>

-----------------------------------------------------------------------------
(* A restart is answered once the services are stopped and happens a       *)
(* second later, with whatever requests do in between.                     *)
RequestRestart ==
    /\ Serving /\ ~restarting
    /\ Stopped
    /\ restarting' = TRUE
    /\ UNCHANGED <<files, database, process, tests, saving, history, counts>>

Ended ==
    /\ process' = "off"
    /\ tests' = [u \in Users |-> NoTest]
    /\ saving' = NoSave
    /\ restarting' = FALSE
    /\ Loses(IF Testing THEN Files ELSE {})
    /\ UNCHANGED <<files, database, saved>>

Restart ==
    /\ Serving /\ restarting
    /\ Ended
    /\ orphan' = Testing
    /\ UNCHANGED <<daemons, counts>>

(* The container dies, and the services with it.                           *)
Die ==
    /\ process # "off"
    /\ FaultsLeft /\ Count("faults")
    /\ Ended
    /\ Stopped
    /\ orphan' = FALSE

check_nut_config_files ==
    /\ files["nut.conf"] # None
    /\ \A f \in Supplies(files["nut.conf"]) : files[f] # None
    /\ database.exists

(* The program runs in full when it finds its files, a database and in it  *)
(* a server's name.  It then stops and starts the services, and fills in   *)
(* the target if there is none.                                            *)
StartFull(ok) ==
    /\ process = "off"
    /\ check_nut_config_files /\ database.master # None
    /\ process' = "full"
    /\ LET local == ok /\ files["nut.conf"] \notin NetClient IN
          /\ server' = IF local THEN files["upsd.conf"] ELSE None
          /\ drivers' = IF local THEN files["ups.conf"] ELSE None
    /\ database' = [database EXCEPT !.targets = IF @ = None THEN files["upsmon.conf"] ELSE @]
    /\ orphan' = FALSE
    /\ UNCHANGED <<files, tests, saving, restarting, saved, lost, counts>>

StartSetup ==
    /\ process = "off"
    /\ ~(check_nut_config_files /\ database.master # None)
    /\ process' = "setup"
    /\ UNCHANGED <<files, database, daemons, tests, saving, restarting, history, counts>>

Next ==
    \/ \E u \in Users : Test(u)
    \/ \E c \in Configs : BeginSave(c)
    \/ \E ok \in BOOLEAN : SaveFile(ok)
    \/ FilesSaved \/ SaveTable \/ SaveMaster \/ SaveAccount \/ SaveTargets
    \/ SaveOptions \/ SaveFails
    \/ DeleteConfig
    \/ RequestRestart \/ Restart \/ Die
    \/ \E ok \in BOOLEAN : StartFull(ok)
    \/ StartSetup

Spec == Init /\ [][Next]_vars

-----------------------------------------------------------------------------
(* What a save reported is in the database until something else is saved   *)
(* or deleted, through any tests, failures, deaths of the process and      *)
(* restarts; and once no test is under way it is in each of its files,     *)
(* unless a test that failed had not read that file or could not put it    *)
(* back, or all of them went because a test passed, was cut short by a     *)
(* restart or a death, or overlapped another or the save: the save's       *)
(* separate commits and the tests' overwriting and restoring of the same   *)
(* files (routes.py test_config and save_config) lose nothing else.        *)
SavedIsKept ==
    saved # None =>
        /\ database.exists
        /\ saved = database.master /\ saved = database.targets /\ saved = database.options
        /\ ~Testing => \A f \in Supplies(saved) \ lost : files[f] = saved

(* During the set-up no server is left running by the tests, however they  *)
(* overlap and fail (routes.py test_config): one that runs belongs to a    *)
(* test that has yet to stop it, unless a restart cut that test short.     *)
NoServerLeftBehind ==
    process = "setup" /\ ~orphan /\ server # None =>
        \E u \in Users : tests[u].step \in {"wait", "undo", "passed"}

(* "Configuration files deleted": a deletion removes the files, so that    *)
(* the set-up starts anew (routes.py delete_config).                       *)
DeletedIsGone == [][DeleteConfig => files' = NoFiles]_vars
=============================================================================
