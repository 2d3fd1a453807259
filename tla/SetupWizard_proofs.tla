------------------------- MODULE SetupWizard_proofs -------------------------
(***************************************************************************)
(* Proofs about SetupWizard: its types, that a configuration reported as   *)
(* saved is kept, and that no server is left running, for any users,       *)
(* configurations, faults and deaths of the process.                       *)
(***************************************************************************)
EXTENDS SetupWizard, TLAPS

LEMMA FilesType ==
    /\ Len(FileOrder) = 5
    /\ Files = {"nut.conf", "ups.conf", "upsd.conf", "upsd.users", "upsmon.conf"}
    /\ \A i \in 1..5 : FileOrder[i] \in Files
    /\ \A f \in Files : \E i \in 1..5 : f = FileOrder[i]
<1>1. Len(FileOrder) = 5
  BY DEF FileOrder
<1>2. /\ FileOrder[1] = "nut.conf" /\ FileOrder[2] = "ups.conf" /\ FileOrder[3] = "upsd.conf"
      /\ FileOrder[4] = "upsd.users" /\ FileOrder[5] = "upsmon.conf"
  BY DEF FileOrder
<1>3. 1..5 = {1, 2, 3, 4, 5}
  OBVIOUS
<1> QED
  BY <1>1, <1>2, <1>3 DEF Files

LEMMA SuppliesType == \A c : Supplies(c) \subseteq Files
  BY FilesType DEF Supplies

-----------------------------------------------------------------------------
(* Types.                                                                  *)

LEMMA IdleTypes ==
    /\ NoFiles \in Contents
    /\ NoTest \in [step : TestSteps, backup : Contents]
    /\ NoSave \in [step : SaveSteps, config : Configs \cup {None},
                   left : 0..Len(FileOrder), failed : BOOLEAN]
  BY FilesType DEF NoFiles, NoTest, NoSave, Contents, TestSteps, SaveSteps

LEMMA TypeInit == Init => TypeOK
<1> SUFFICES ASSUME Init PROVE TypeOK
  OBVIOUS
<1>1. database \in [exists : BOOLEAN, account : BOOLEAN,
                    master : Configs \cup {None}, targets : Configs \cup {None},
                    options : Configs \cup {None}]
  BY DEF Init
<1>2. counts \in [requests : 0..MaxRequests, faults : 0..MaxFaults]
  BY SetupAssumption DEF Init
<1> QED
  BY <1>1, <1>2, IdleTypes DEF Init, TypeOK

(* The steps of a test.                                                    *)
LEMMA TypeTest ==
    ASSUME TypeOK, NEW u \in Users, Test(u)
    PROVE  TypeOK'
<1> USE DEF TypeOK, Contents, TestSteps, At, Serving, Goes, Others, daemons, history
<1>1. ASSUME NEW c \in Configs, NEW n \in 0..Len(FileOrder),
             NEW unread, BeginTest(u, c, n, unread),
             counts' \in [requests : 0..MaxRequests, faults : 0..MaxFaults]
      PROVE  TypeOK'
  <2>1. files' \in [Files -> Configs \cup {None}]
    BY <1>1 DEF BeginTest
  <2>2. tests' \in [Users -> [step : TestSteps, backup : Contents]]
    BY <1>1 DEF BeginTest
  <2>3. saved' \in Configs \cup {None} /\ lost' \subseteq Files /\ orphan' \in BOOLEAN
    BY <1>1 DEF BeginTest, Loses
  <2> QED
    BY <1>1, <2>1, <2>2, <2>3 DEF BeginTest
<1>2. ASSUME NEW c \in Configs, WritesAll(u, c)
      PROVE  TypeOK'
  <2>1. counts' \in [requests : 0..MaxRequests, faults : 0..MaxFaults]
    BY <1>2, SetupAssumption DEF WritesAll, Request, Count
  <2> QED
    BY <1>1, <1>2, <2>1, FilesType DEF WritesAll
<1>3. ASSUME NEW c \in Configs, NEW n \in 0..Len(FileOrder) - 1, CannotWrite(u, c, n)
      PROVE  TypeOK'
  <2>1. counts' \in [requests : 0..MaxRequests, faults : 0..MaxFaults]
    BY <1>3, SetupAssumption DEF CannotWrite, FaultsLeft, Count
  <2>2. n \in 0..Len(FileOrder)
    BY FilesType
  <2> QED
    BY <1>1, <1>3, <2>1, <2>2 DEF CannotWrite
<1>14. ASSUME NEW c \in Configs, NEW unread, CannotRead(u, c, unread)
      PROVE  TypeOK'
  <2>1. counts' \in [requests : 0..MaxRequests, faults : 0..MaxFaults]
    BY <1>14, SetupAssumption DEF CannotRead, FaultsLeft, Count
  <2> QED
    BY <1>1, <1>14, <2>1, FilesType DEF CannotRead
<1>4. ASSUME PutsBack(u)
      PROVE  /\ files' \in [Files -> Configs \cup {None}]
             /\ tests' \in [Users -> [step : TestSteps, backup : Contents]]
             /\ counts' \in [requests : 0..MaxRequests, faults : 0..MaxFaults]
             /\ lost' \subseteq Files /\ saved' = saved /\ orphan' = orphan
  <2>1. PICK unwritten \in {{}} \cup Unusable :
            /\ IF unwritten = {} THEN UNCHANGED counts ELSE FaultsLeft /\ Count("faults")
            /\ restore_backup_files(u, unwritten)
            /\ Loses(unwritten \cup {f \in Files : tests[u].backup[f] = None})
            /\ Ends(u)
            /\ UNCHANGED <<saved, orphan>>
    BY <1>4, Zenon DEF PutsBack
  <2>2. unwritten \subseteq Files
    BY SetupAssumption
  <2>3. counts' = counts \/ (FaultsLeft /\ Count("faults"))
    BY <2>1, Zenon
  <2>4. counts' \in [requests : 0..MaxRequests, faults : 0..MaxFaults]
    BY <2>3, SetupAssumption DEF FaultsLeft, Count
  <2>5. files' \in [Files -> Configs \cup {None}]
    BY <2>1 DEF restore_backup_files
  <2>6. tests' \in [Users -> [step : TestSteps, backup : Contents]]
    BY <2>1, IdleTypes DEF Ends
  <2>7. lost' \subseteq Files
    BY <2>1, <2>2 DEF Loses
  <2> QED
    BY <2>1, <2>4, <2>5, <2>6, <2>7
<1>5. CASE StopServices(u)
  <2>1. /\ tests' = [tests EXCEPT ![u].step = "driver"]
        /\ server' = None /\ drivers' = None /\ orphan' = FALSE
        /\ UNCHANGED <<files, database, process, restarting, saving, saved, lost, counts>>
    BY <1>5, Zenon DEF StopServices, Stopped
  <2>2. tests' \in [Users -> [step : TestSteps, backup : Contents]]
    BY <2>1
  <2> QED
    BY <2>1, <2>2
<1>6. CASE StartDriver(u)
  BY <1>6, FilesType DEF StartDriver
<1>7. CASE DriverFails(u)
  BY <1>4, <1>7 DEF DriverFails
<1>8. CASE StartServer(u)
  BY <1>8, FilesType DEF StartServer
<1>9. CASE ServerFails(u)
  BY <1>9 DEF ServerFails
<1>10. CASE TargetsAnswer(u) \/ TargetsFail(u)
  <2>1. CASE TargetsAnswer(u)
    BY <2>1 DEF TargetsAnswer
  <2>2. CASE TargetsFail(u)
    BY <2>2 DEF TargetsFail
  <2> QED
    BY <1>10, <2>1, <2>2
<1>11. CASE TestPasses(u)
  BY <1>11 DEF TestPasses, Stopped, Loses, Ends, NoTest, NoFiles
<1>12. CASE Undo(u)
  BY <1>12 DEF Undo, Stopped
<1>13. CASE Restore(u)
  BY <1>4, <1>13 DEF Restore
<1> QED
  BY <1>2, <1>3, <1>5, <1>6, <1>7, <1>8, <1>9, <1>10, <1>11, <1>12, <1>13, <1>14 DEF Test

(* The steps of a save, a deletion, and the process.                       *)
LEMMA TypeSave ==
    ASSUME TypeOK,
           \/ \E c \in Configs : BeginSave(c)
           \/ \E ok \in BOOLEAN : SaveFile(ok)
           \/ FilesSaved \/ SaveTable \/ SaveMaster \/ SaveAccount \/ SaveTargets
           \/ SaveOptions \/ SaveFails
    PROVE  TypeOK'
<1> USE FilesType DEF TypeOK, Contents, SaveSteps, Unsaved, daemons
<1>1. ASSUME NEW c \in Configs, BeginSave(c)
      PROVE  TypeOK'
  <2>1. counts' \in [requests : 0..MaxRequests, faults : 0..MaxFaults]
    BY <1>1, SetupAssumption DEF BeginSave, Request, Count
  <2> QED
    BY <1>1, <2>1 DEF BeginSave
<1>2. ASSUME NEW ok \in BOOLEAN, SaveFile(ok)
      PROVE  TypeOK'
  <2> DEFINE f == FileOrder[Len(FileOrder) + 1 - saving.left]
  <2>1. counts' = counts \/ (FaultsLeft /\ Count("faults"))
    BY <1>2, Zenon DEF SaveFile
  <2>2. counts' \in [requests : 0..MaxRequests, faults : 0..MaxFaults]
    BY <2>1, SetupAssumption DEF FaultsLeft, Count
  <2>3. files' = files \/ files' = [files EXCEPT ![f] = saving.config]
    BY <1>2, Zenon DEF SaveFile
  <2>4. files' \in [Files -> Configs \cup {None}]
    BY <2>3
  <2>5. saving' \in [step : SaveSteps, config : Configs \cup {None},
                     left : 0..Len(FileOrder), failed : BOOLEAN]
    <3> DEFINE b == saving.failed \/ ~ok
    <3>1. saving' = [saving EXCEPT !.left = saving.left - 1, !.failed = b] /\ saving.left > 0
      BY <1>2, Zenon DEF SaveFile
    <3>2. b \in BOOLEAN
      BY Zenon
    <3> HIDE DEF b
    <3>3. saving.left - 1 \in 0..Len(FileOrder)
      BY <3>1
    <3>4. /\ saving'.step = saving.step /\ saving'.config = saving.config
          /\ saving'.left = saving.left - 1 /\ saving'.failed = b
          /\ saving' = [step |-> saving'.step, config |-> saving'.config,
                        left |-> saving'.left, failed |-> saving'.failed]
      BY <3>1
    <3> QED
      BY <3>2, <3>3, <3>4
  <2>6. UNCHANGED <<database, saved, lost, process, daemons, tests, restarting, orphan>>
    BY <1>2, Zenon DEF SaveFile
  <2> QED
    BY <2>2, <2>4, <2>5, <2>6
<1>3. CASE FilesSaved
  BY <1>3, IdleTypes DEF FilesSaved
<1>4. CASE SaveTable
  BY <1>4 DEF SaveTable, Commit
<1>5. CASE SaveMaster
  BY <1>5 DEF SaveMaster, Commit
<1>6. CASE SaveAccount
  BY <1>6 DEF SaveAccount, Commit
<1>7. CASE SaveTargets
  BY <1>7 DEF SaveTargets, Commit
<1>8. CASE SaveOptions
  <2>1. saved' \in Configs \cup {None} /\ lost' \subseteq Files
    BY <1>8 DEF SaveOptions
  <2>2. database' \in [exists : BOOLEAN, account : BOOLEAN,
                       master : Configs \cup {None}, targets : Configs \cup {None},
                       options : Configs \cup {None}]
    BY <1>8 DEF SaveOptions
  <2> QED
    BY <1>8, <2>1, <2>2, IdleTypes DEF SaveOptions
<1>9. CASE SaveFails
  <2>1. counts' \in [requests : 0..MaxRequests, faults : 0..MaxFaults]
    BY <1>9, SetupAssumption DEF SaveFails, FaultsLeft, Count
  <2> QED
    BY <1>9, <2>1, IdleTypes DEF SaveFails
<1> QED
  BY <1>1, <1>2, <1>3, <1>4, <1>5, <1>6, <1>7, <1>8, <1>9

LEMMA TypeProcess ==
    ASSUME TypeOK,
           \/ DeleteConfig \/ RequestRestart \/ Restart \/ Die
           \/ \E ok \in BOOLEAN : StartFull(ok)
           \/ StartSetup
    PROVE  TypeOK'
<1> USE DEF TypeOK, Contents, Others, daemons, history
<1>1. CASE DeleteConfig
  <2>1. counts' \in [requests : 0..MaxRequests, faults : 0..MaxFaults]
    BY <1>1, SetupAssumption DEF DeleteConfig, Request, Count
  <2> QED
    BY <1>1, <2>1, FilesType DEF DeleteConfig, Stopped, Forget
<1>2. CASE RequestRestart
  BY <1>2 DEF RequestRestart, Stopped
<1>3. ASSUME Ended
      PROVE  /\ process' \in {"off", "setup", "full"}
             /\ tests' \in [Users -> [step : TestSteps, backup : Contents]]
             /\ saving' \in [step : SaveSteps, config : Configs \cup {None},
                             left : 0..Len(FileOrder), failed : BOOLEAN]
             /\ restarting' \in BOOLEAN /\ saved' = saved /\ lost' \subseteq Files
             /\ files' \in [Files -> Configs \cup {None}] /\ database' = database
  BY <1>3, IdleTypes DEF Ended, Loses
<1>4. CASE Restart
  <2>1. orphan' \in BOOLEAN
    BY <1>4, Zenon DEF Restart, Testing
  <2> QED
    BY <1>3, <1>4, <2>1 DEF Restart
<1>5. CASE Die
  <2>1. counts' \in [requests : 0..MaxRequests, faults : 0..MaxFaults]
    BY <1>5, SetupAssumption DEF Die, FaultsLeft, Count
  <2> QED
    BY <1>3, <1>5, <2>1 DEF Die, Stopped
<1>6. ASSUME NEW ok \in BOOLEAN, StartFull(ok)
      PROVE  TypeOK'
  <2>1. files["upsd.conf"] \in Configs \cup {None} /\ files["ups.conf"] \in Configs \cup {None}
        /\ files["upsmon.conf"] \in Configs \cup {None}
    BY FilesType
  <2>2. server' \in Configs \cup {None} /\ drivers' \in Configs \cup {None}
    BY <1>6, <2>1 DEF StartFull
  <2>3. database' \in [exists : BOOLEAN, account : BOOLEAN,
                       master : Configs \cup {None}, targets : Configs \cup {None},
                       options : Configs \cup {None}]
    BY <1>6, <2>1 DEF StartFull
  <2> QED
    BY <1>6, <2>2, <2>3 DEF StartFull
<1>7. CASE StartSetup
  BY <1>7 DEF StartSetup
<1> QED
  BY <1>1, <1>2, <1>4, <1>5, <1>6, <1>7

LEMMA TypeStep == TypeOK /\ [Next]_vars => TypeOK'
<1>1. TypeOK /\ UNCHANGED vars => TypeOK'
  BY DEF TypeOK, vars, daemons, history
<1> QED
  BY <1>1, TypeTest, TypeSave, TypeProcess DEF Next

(* The wizard, its saves and its restarts keep the types.                  *)
THEOREM TypeCorrect == Spec => []TypeOK
<1> QED
  BY TypeInit, TypeStep, PTL DEF Spec

-----------------------------------------------------------------------------
(* SavedIsKept.  It is not inductive: the files are put back by a test     *)
(* from what it has read, and are written before the save is reported.     *)

Holds(c, contents) == \A f \in Supplies(c) : contents[f] = c

(* What was reported as saved is in the database, and in the files or, in  *)
(* their place, in what the one test under way will restore, but for the   *)
(* files that were lost and those the test has not read.                   *)
Kept ==
    saved # None =>
        /\ saving.step = "idle"
        /\ database.exists
        /\ saved = database.master /\ saved = database.targets /\ saved = database.options
        /\ ~Testing => \A f \in Supplies(saved) \ lost : files[f] = saved
        /\ \A u \in Users : tests[u].step # "idle" =>
              /\ \A f \in Supplies(saved) \ lost : tests[u].backup[f] \in {saved, None}
              /\ \A v \in Users \ {u} : tests[v].step # "idle" => lost = Files

(* How far a save has come, step by step.                                  *)
Progress ==
    saving.step # "idle" =>
        /\ saved = None /\ saving.config \in Configs
        /\ saving.step = "files" /\ ~saving.failed =>
              \A i \in 1..Len(FileOrder) - saving.left :
                  FileOrder[i] \in Supplies(saving.config) => files[FileOrder[i]] = saving.config
        /\ saving.step # "files" => Holds(saving.config, files)
        /\ saving.step \notin {"files", "table"} => database.exists
        /\ saving.step \in {"account", "targets", "options"} => database.master = saving.config
        /\ saving.step = "options" => database.targets = saving.config

WizardInv == TypeOK /\ Kept /\ Progress

LEMMA WizardInit == Init => WizardInv
<1> SUFFICES ASSUME Init PROVE WizardInv
  OBVIOUS
<1>1. saved = None /\ saving.step = "idle"
  BY DEF Init, NoSave
<1> QED
  BY <1>1, TypeInit DEF WizardInv, Kept, Progress

(* When all files count as lost only the database is left to speak of.     *)
LEMMA AllLost ==
    ASSUME WizardInv, UNCHANGED <<database, saving, saved>>, saved # None => lost' = Files
    PROVE  Kept'
<1>1. \A f : f \notin Supplies(saved) \ Files
  BY SuppliesType
<1> QED
  BY <1>1 DEF WizardInv, Kept

(* A test that restores puts back what the save left.                      *)
LEMMA RestoreKeeps ==
    ASSUME WizardInv, NEW u \in Users, tests[u].step # "idle",
           PutsBack(u), UNCHANGED <<database, saving>>
    PROVE  Kept'
<1>1. PICK unwritten \in {{}} \cup Unusable :
          /\ restore_backup_files(u, unwritten)
          /\ Loses(unwritten \cup {f \in Files : tests[u].backup[f] = None})
          /\ Ends(u)
          /\ UNCHANGED <<saved, orphan>>
  BY DEF PutsBack
<1>2. /\ tests' = [tests EXCEPT ![u] = NoTest]
      /\ \A v \in Users : tests'[v].step # "idle" =>
            v # u /\ tests[v].step # "idle"
  BY <1>1 DEF Ends, WizardInv, TypeOK, NoTest
<1>3. CASE saved = None
  BY <1>1, <1>3 DEF Kept
<1>4. CASE saved # None /\ \E v \in Users \ {u} : tests[v].step # "idle"
  <2>1. lost = Files
    BY <1>4 DEF WizardInv, Kept
  <2>2. unwritten \subseteq Files
    BY SetupAssumption
  <2>3. lost' = Files
    BY <1>1, <1>4, <2>1, <2>2 DEF Loses
  <2> QED
    BY <1>1, <2>3, AllLost
<1>5. CASE saved # None /\ ~\E v \in Users \ {u} : tests[v].step # "idle"
  <2>1. saved \in Configs /\ saved' = saved
    BY <1>1, <1>5 DEF WizardInv, TypeOK
  <2>2. \A v \in Users : tests'[v].step = "idle"
    BY <1>2, <1>5
  <2>3. ASSUME NEW f \in Supplies(saved) \ lost'
        PROVE  files'[f] = saved
    <3>1. f \in Files
      BY SuppliesType
    <3>2. f \notin lost /\ f \notin unwritten /\ tests[u].backup[f] # None
      BY <1>1, <1>5, <2>3, <3>1 DEF Loses
    <3>3. tests[u].backup[f] = saved
      BY <1>5, <2>3, <3>2 DEF WizardInv, Kept
    <3> QED
      BY <1>1, <3>1, <3>2, <3>3 DEF restore_backup_files
  <2> QED
    BY <1>5, <2>1, <2>2, <2>3 DEF WizardInv, Kept
<1> QED
  BY <1>3, <1>4, <1>5

(* A step of a test that only moves it on, or stops and starts services.   *)
LEMMA MovesKeep ==
    ASSUME WizardInv, NEW u \in Users, tests[u].step # "idle",
           NEW step \in TestSteps \ {"idle"}, Goes(u, step),
           UNCHANGED <<files, database, saving, saved, lost>>
    PROVE  Kept'
<1>1. \A v \in Users : /\ tests'[v].step # "idle" <=> tests[v].step # "idle"
                       /\ tests'[v].backup = tests[v].backup
  BY DEF WizardInv, TypeOK, Goes
<1>2. Testing' <=> Testing
  BY <1>1 DEF Testing
<1> QED
  BY <1>1, <1>2 DEF WizardInv, Kept, Holds

LEMMA TestKeeps ==
    ASSUME WizardInv, NEW u \in Users, Test(u)
    PROVE  Kept'
<1> USE DEF Others, At, Serving, history
<1>1. ASSUME NEW c \in Configs, NEW n \in 0..Len(FileOrder), NEW unread,
             BeginTest(u, c, n, unread)
      PROVE  Kept'
  <2>1. saved' = saved /\ saving' = saving /\ database' = database
    BY <1>1 DEF BeginTest
  <2>2. CASE saved = None
    BY <2>1, <2>2 DEF Kept
  <2>3. CASE saved # None /\ Testing
    <3>1. lost' = Files
      BY <1>1, <2>3 DEF BeginTest, Loses, WizardInv, TypeOK
    <3> QED
      BY <2>1, <3>1, AllLost
  <2>4. CASE saved # None /\ ~Testing
    <3>1. lost' = lost
      BY <1>1, <2>4 DEF BeginTest, Loses
    <3>2. /\ tests'[u].backup = [f \in Files |-> IF f \in unread THEN None ELSE files[f]]
          /\ tests'[u].step # "idle"
          /\ \A v \in Users : tests'[v].step # "idle" => v = u
      BY <1>1, <2>4 DEF BeginTest, Testing, WizardInv, TypeOK
    <3>3. \A f \in Supplies(saved) \ lost : f \in Files /\ files[f] = saved
      BY <2>4, SuppliesType DEF WizardInv, Kept
    <3>4. \A f \in Supplies(saved) \ lost : tests'[u].backup[f] \in {saved, None}
      BY <3>2, <3>3
    <3>5. Testing'
      BY <3>2 DEF Testing
    <3> QED
      BY <2>1, <2>4, <3>1, <3>2, <3>4, <3>5 DEF WizardInv, Kept
  <2> QED
    BY <2>2, <2>3, <2>4
<1>3. CASE \E c \in Configs : WritesAll(u, c)
  BY <1>1, <1>3, FilesType DEF WritesAll
<1>4. CASE \E c \in Configs, n \in 0..Len(FileOrder) - 1 : CannotWrite(u, c, n)
  <2>1. \A n \in 0..Len(FileOrder) - 1 : n \in 0..Len(FileOrder)
    BY FilesType
  <2> QED
    BY <1>1, <1>4, <2>1 DEF CannotWrite
<1>15. CASE \E c \in Configs, unread \in Unusable : CannotRead(u, c, unread)
  BY <1>1, <1>15, FilesType DEF CannotRead
<1>5. CASE StopServices(u)
  BY <1>5, MovesKeep DEF StopServices, TestSteps
<1>6. CASE StartDriver(u)
  BY <1>6, MovesKeep DEF StartDriver, TestSteps
<1>7. CASE DriverFails(u)
  BY <1>7, RestoreKeeps DEF DriverFails
<1>8. CASE StartServer(u)
  BY <1>8, MovesKeep DEF StartServer, TestSteps
<1>9. CASE ServerFails(u)
  BY <1>9, MovesKeep DEF ServerFails, TestSteps
<1>10. CASE TargetsAnswer(u)
  BY <1>10, MovesKeep DEF TargetsAnswer, TestSteps
<1>11. CASE TargetsFail(u)
  BY <1>11, MovesKeep DEF TargetsFail, TestSteps
<1>12. CASE TestPasses(u)
  <2>1. saved # None => lost' = Files
    BY <1>12 DEF TestPasses, Loses, WizardInv, TypeOK
  <2> QED
    BY <1>12, <2>1, AllLost DEF TestPasses
<1>13. CASE Undo(u)
  BY <1>13, MovesKeep DEF Undo, TestSteps
<1>14. CASE Restore(u)
  BY <1>14, RestoreKeeps DEF Restore
<1> QED
  BY <1>3, <1>4, <1>5, <1>6, <1>7, <1>8, <1>9, <1>10, <1>11, <1>12, <1>13, <1>14, <1>15 DEF Test

(* A test does nothing while a save is under way.                          *)
LEMMA TestWaits ==
    ASSUME NEW u \in Users, Test(u)
    PROVE  saving.step = "idle" /\ saving' = saving
  BY DEF Test, WritesAll, CannotWrite, CannotRead, BeginTest, StopServices, StartDriver,
         DriverFails, StartServer, ServerFails, TargetsAnswer, TargetsFail, TestPasses, Undo,
         Restore, PutsBack, At, Serving

LEMMA SaveKeeps ==
    ASSUME WizardInv,
           \/ \E c \in Configs : BeginSave(c)
           \/ \E ok \in BOOLEAN : SaveFile(ok)
           \/ FilesSaved \/ SaveTable \/ SaveMaster \/ SaveAccount \/ SaveTargets
           \/ SaveOptions \/ SaveFails
    PROVE  Kept' /\ Progress'
<1> USE DEF WizardInv, Unsaved
<1>1. ASSUME NEW c \in Configs, BeginSave(c)
      PROVE  Kept' /\ Progress'
  <2>1. saved' = None /\ saving' = [step |-> "files", config |-> c, left |-> Len(FileOrder),
                                    failed |-> FALSE]
    BY <1>1 DEF BeginSave
  <2> QED
    BY <2>1, FilesType DEF Kept, Progress
<1>2. ASSUME NEW ok \in BOOLEAN, SaveFile(ok)
      PROVE  Kept' /\ Progress'
  <2> DEFINE c == saving.config
             f == FileOrder[Len(FileOrder) + 1 - saving.left]
  <2>1. /\ saving.step = "files" /\ saving.left > 0 /\ saved = None /\ c \in Configs
        /\ saved' = None
    <3>1. saving.step = "files" /\ saving.left > 0 /\ saved' = saved
      BY <1>2, Zenon DEF SaveFile
    <3> QED
      BY <3>1 DEF Progress
  <2>2. /\ saving'.step = "files" /\ saving'.config = c /\ saving'.left = saving.left - 1
        /\ ~saving'.failed => ~saving.failed /\ ok
    <3> DEFINE b == saving.failed \/ ~ok
    <3>1. saving' = [saving EXCEPT !.left = saving.left - 1, !.failed = b]
      BY <1>2, Zenon DEF SaveFile
    <3>2. b <=> saving.failed \/ ~ok
      BY Zenon
    <3> HIDE DEF b
    <3>3. ~b => ~saving.failed /\ ok
      BY <3>2, Zenon
    <3> QED
      BY <2>1, <3>1, <3>3 DEF TypeOK
  <2>3. ASSUME ~saving'.failed,
               NEW i \in 1..Len(FileOrder) - saving'.left, FileOrder[i] \in Supplies(c)
        PROVE  files'[FileOrder[i]] = c
    <3>1. f \in Supplies(c) => files' = [files EXCEPT ![f] = c]
      BY <1>2, <2>2, <2>3, Zenon DEF SaveFile
    <3>2. f \notin Supplies(c) => files' = files
      BY <1>2, Zenon DEF SaveFile
    <3>3. FileOrder[i] \in Files /\ files \in [Files -> Configs \cup {None}]
      BY <2>3, SuppliesType DEF TypeOK, Contents
    <3>4. CASE i = Len(FileOrder) + 1 - saving.left
      BY <2>3, <3>1, <3>3, <3>4
    <3>5. CASE i # Len(FileOrder) + 1 - saving.left
      <4>1. i \in 1..Len(FileOrder) - saving.left
        BY <2>1, <2>2, <3>5, FilesType DEF TypeOK
      <4>2. files[FileOrder[i]] = c
        BY <2>1, <2>2, <2>3, <4>1 DEF Progress
      <4> QED
        BY <3>1, <3>2, <3>3, <4>2
    <3> QED
      BY <3>4, <3>5
  <2> QED
    BY <2>1, <2>2, <2>3 DEF Kept, Progress
<1>3. CASE FilesSaved
  <2>1. saving.step = "files" /\ saving.left = 0 /\ saved' = None /\ files' = files
        /\ saving.config \in Configs
    BY <1>3 DEF FilesSaved, Progress
  <2>2. CASE saving.failed
    BY <1>3, <2>1, <2>2 DEF FilesSaved, NoSave, Kept, Progress
  <2>3. CASE ~saving.failed
    <3>1. saving'.step = "table" /\ saving'.config = saving.config
      BY <1>3, <2>3 DEF FilesSaved, TypeOK
    <3>2. Holds(saving.config, files)
      BY <2>1, <2>3, FilesType, SuppliesType DEF Progress, Holds
    <3> QED
      BY <2>1, <3>1, <3>2 DEF Kept, Progress
  <2> QED
    BY <2>2, <2>3
<1>4. CASE SaveTable
  BY <1>4 DEF SaveTable, Commit, TypeOK, Kept, Progress
<1>5. CASE SaveMaster
  BY <1>5 DEF SaveMaster, Commit, TypeOK, Kept, Progress
<1>6. CASE SaveAccount
  BY <1>6 DEF SaveAccount, Commit, TypeOK, Kept, Progress
<1>7. CASE SaveTargets
  BY <1>7 DEF SaveTargets, Commit, TypeOK, Kept, Progress
<1>8. CASE SaveOptions
  <2>1. saving.step = "options" /\ saving'.step = "idle" /\ files' = files /\ tests' = tests
    BY <1>8 DEF SaveOptions, NoSave
  <2>2. /\ saved' = saving.config /\ Holds(saving.config, files)
        /\ saving.config \in Configs
        /\ database'.exists /\ database'.master = saving.config
        /\ database'.targets = saving.config /\ database'.options = saving.config
    BY <1>8, <2>1 DEF SaveOptions, Progress, TypeOK
  <2>3. CASE Testing
    <3>1. lost' = Files
      BY <1>8, <2>3 DEF SaveOptions
    <3>2. \A f : f \notin Supplies(saved') \ Files
      BY SuppliesType
    <3> QED
      BY <2>1, <2>2, <3>1, <3>2 DEF Kept, Progress
  <2>4. CASE ~Testing
    <3>1. \A u \in Users : tests'[u].step = "idle"
      BY <2>4, <2>1 DEF Testing
    <3> QED
      BY <2>1, <2>2, <3>1 DEF Kept, Progress, Holds
  <2> QED
    BY <2>3, <2>4
<1>9. CASE SaveFails
  BY <1>9 DEF SaveFails, NoSave, SaveSteps, Kept, Progress
<1> QED
  BY <1>1, <1>2, <1>3, <1>4, <1>5, <1>6, <1>7, <1>8, <1>9

(* A restart or a death ends all tests, and loses the files if there was   *)
(* one.                                                                    *)
LEMMA ProcessKeeps ==
    ASSUME WizardInv,
           \/ DeleteConfig \/ RequestRestart \/ Restart \/ Die
           \/ \E ok \in BOOLEAN : StartFull(ok)
           \/ StartSetup
    PROVE  Kept' /\ Progress'
<1> USE DEF WizardInv, Others, history
<1>1. CASE DeleteConfig
  BY <1>1 DEF DeleteConfig, Request, Serving, Forget, Kept, Progress
<1>2. CASE RequestRestart
  <2>1. UNCHANGED <<files, database, tests, saving, saved, lost>>
    BY <1>2 DEF RequestRestart
  <2> QED
    BY <2>1 DEF Kept, Progress, Testing, Holds
<1>3. ASSUME Ended
      PROVE  Kept' /\ Progress'
  <2>1. saving'.step = "idle" /\ UNCHANGED <<files, database, saved>>
    BY <1>3 DEF Ended, NoSave
  <2>2. \A u \in Users : tests'[u].step = "idle"
    BY <1>3 DEF Ended, NoTest
  <2>3. saved # None => lost' = IF Testing THEN Files ELSE lost
    BY <1>3 DEF Ended, Loses, TypeOK
  <2>4. \A f : f \notin Supplies(saved) \ Files
    BY SuppliesType
  <2>5. CASE saved = None
    BY <2>1, <2>5 DEF Kept, Progress
  <2>6. CASE saved # None /\ Testing
    BY <2>1, <2>2, <2>3, <2>4, <2>6 DEF Kept, Progress
  <2>7. CASE saved # None /\ ~Testing
    BY <2>1, <2>2, <2>3, <2>7 DEF Kept, Progress
  <2> QED
    BY <2>5, <2>6, <2>7
<1>4. CASE Restart \/ Die
  BY <1>3, <1>4 DEF Restart, Die
<1>5. ASSUME NEW ok \in BOOLEAN, StartFull(ok)
      PROVE  Kept' /\ Progress'
  <2>1. UNCHANGED <<files, tests, saving, saved, lost>>
    BY <1>5 DEF StartFull
  <2>2. /\ database'.exists = database.exists /\ database'.master = database.master
        /\ database'.options = database.options
        /\ database.targets # None => database'.targets = database.targets
    BY <1>5 DEF StartFull, TypeOK
  <2> QED
    BY <2>1, <2>2, SetupAssumption DEF Kept, Progress, Testing, Holds
<1>6. CASE StartSetup
  BY <1>6 DEF StartSetup, Kept, Progress, Testing, Holds
<1> QED
  BY <1>1, <1>2, <1>4, <1>5, <1>6

LEMMA WizardStep == WizardInv /\ [Next]_vars => WizardInv'
<1> SUFFICES ASSUME WizardInv, [Next]_vars PROVE WizardInv'
  OBVIOUS
<1>1. TypeOK'
  BY TypeStep DEF WizardInv
<1>2. ASSUME NEW u \in Users, Test(u)
      PROVE  Kept' /\ Progress'
  <2>1. Kept'
    BY <1>2, TestKeeps
  <2>2. Progress'
    BY <1>2, TestWaits DEF Progress
  <2> QED
    BY <2>1, <2>2
<1>3. CASE UNCHANGED vars
  <2>1. UNCHANGED <<files, database, tests, saving, saved, lost>>
    BY <1>3 DEF vars, history
  <2>2. Kept'
    BY <2>1 DEF WizardInv, Kept, Testing, Holds
  <2>3. Progress'
    BY <2>1 DEF WizardInv, Progress, Holds
  <2> QED
    BY <1>1, <2>2, <2>3 DEF WizardInv
<1> QED
  BY <1>1, <1>2, <1>3, SaveKeeps, ProcessKeeps DEF WizardInv, Next

(* A configuration that the wizard of nut_config/routes.py reported as     *)
(* saved is in the database, and in each file that no test of the wizard   *)
(* took away: passed, cut short, overlapped, or unable to put it back.     *)
THEOREM SavedStays == Spec => []SavedIsKept
<1>1. WizardInv => SavedIsKept
  BY DEF WizardInv, Kept, SavedIsKept, Holds
<1> QED
  BY <1>1, WizardInit, WizardStep, PTL DEF Spec

-----------------------------------------------------------------------------
(* NoServerLeftBehind.  During a restart the server runs under no test     *)
(* only when the restart has cut one short, in full mode only until a      *)
(* restart is asked for, which stops it.                                   *)

Owned == \E u \in Users : tests[u].step \in {"wait", "undo", "passed"}

ServerInv ==
    /\ process = "off" => ~restarting
    /\ server # None /\ ~Owned =>
          /\ ~restarting
          /\ process = "full" \/ orphan

(* What a test leaves to others: the server stops with the steps that      *)
(* release it.                                                             *)
LEMMA TestOwns ==
    ASSUME TypeOK, ServerInv, NEW u \in Users, Test(u)
    PROVE  ServerInv'
<1> USE DEF TypeOK, At, Serving, Goes, Others, daemons, history, Stopped
<1>1. process # "off" /\ process' = process /\ restarting' = restarting
  BY DEF Test, WritesAll, CannotWrite, CannotRead, BeginTest, StopServices, StartDriver,
         DriverFails, StartServer, ServerFails, TargetsAnswer, TargetsFail, TestPasses, Undo,
         Restore
<1>2. CASE server' = None
  BY <1>1, <1>2 DEF ServerInv
<1>3. ASSUME tests'[u].step \in {"wait", "undo", "passed"}
      PROVE  ServerInv'
  <2>1. Owned'
    BY <1>3 DEF Owned
  <2> QED
    BY <1>1, <2>1 DEF ServerInv
<1>4. ASSUME tests[u].step \notin {"wait", "undo", "passed"}, UNCHANGED <<server, orphan>>,
             \A v \in Users \ {u} : tests'[v] = tests[v]
      PROVE  ServerInv'
  <2>1. Owned => Owned'
    BY <1>4 DEF Owned
  <2> QED
    BY <1>1, <1>4, <2>1 DEF ServerInv
<1>5. ASSUME NEW c \in Configs, NEW n \in 0..Len(FileOrder), NEW unread,
             BeginTest(u, c, n, unread)
      PROVE  ServerInv'
  <2>1. orphan' = orphan /\ server' = server /\ tests[u].step = "idle"
    BY <1>5 DEF BeginTest
  <2>2. \A v \in Users \ {u} : tests'[v] = tests[v]
    BY <1>5 DEF BeginTest
  <2> QED
    BY <1>4, <2>1, <2>2
<1>6. CASE \E c \in Configs : WritesAll(u, c)
  BY <1>5, <1>6, FilesType DEF WritesAll
<1>7. CASE \E c \in Configs, n \in 0..Len(FileOrder) - 1 : CannotWrite(u, c, n)
  <2>1. \A n \in 0..Len(FileOrder) - 1 : n \in 0..Len(FileOrder)
    BY FilesType
  <2> QED
    BY <1>5, <1>7, <2>1 DEF CannotWrite
<1>14. CASE \E c \in Configs, unread \in Unusable : CannotRead(u, c, unread)
  BY <1>5, <1>14, FilesType DEF CannotRead
<1>8. CASE StopServices(u) \/ TestPasses(u) \/ Undo(u)
  BY <1>2, <1>8 DEF StopServices, TestPasses, Undo
<1>9. CASE StartDriver(u) \/ ServerFails(u)
  BY <1>4, <1>9 DEF StartDriver, ServerFails
<1>10. CASE DriverFails(u) \/ Restore(u)
  BY <1>4, <1>10 DEF DriverFails, Restore, PutsBack, Ends
<1>11. CASE StartServer(u)
  BY <1>3, <1>11 DEF StartServer
<1>12. CASE TargetsAnswer(u)
  BY <1>3, <1>12 DEF TargetsAnswer
<1>13. CASE TargetsFail(u)
  BY <1>3, <1>13 DEF TargetsFail
<1> QED
  BY <1>6, <1>7, <1>8, <1>9, <1>10, <1>11, <1>12, <1>13, <1>14 DEF Test

LEMMA ServerInvStep == TypeOK /\ ServerInv /\ [Next]_vars => ServerInv'
<1> SUFFICES ASSUME TypeOK, ServerInv, [Next]_vars PROVE ServerInv'
  OBVIOUS
<1>1. ASSUME UNCHANGED <<process, server, tests, restarting, orphan>>
      PROVE  ServerInv'
  BY <1>1 DEF ServerInv, Owned
<1>2. ASSUME \/ \E c \in Configs : BeginSave(c)
             \/ \E ok \in BOOLEAN : SaveFile(ok)
             \/ FilesSaved \/ SaveTable \/ SaveMaster \/ SaveAccount \/ SaveTargets
             \/ SaveOptions \/ SaveFails
      PROVE  ServerInv'
  <2>1. UNCHANGED Unsaved
    BY <1>2, Zenon DEF BeginSave, SaveFile, FilesSaved, SaveTable, SaveMaster, SaveAccount,
                       SaveTargets, Commit, SaveOptions, SaveFails
  <2> QED
    BY <1>1, <2>1 DEF Unsaved, daemons
<1>3. CASE DeleteConfig
  BY <1>3 DEF DeleteConfig, Stopped, Others, ServerInv
<1>4. CASE RequestRestart
  BY <1>4 DEF RequestRestart, Serving, Stopped, ServerInv
<1>5. CASE Restart
  <2>1. Owned => Testing
    BY DEF Owned, Testing
  <2>2. process' = "off" /\ ~restarting' /\ orphan' = Testing /\ server' = server
    BY <1>5, Zenon DEF Restart, Ended, daemons
  <2> QED
    BY <1>5, <2>1, <2>2 DEF Restart, ServerInv
<1>6. CASE Die
  BY <1>6 DEF Die, Ended, Stopped, ServerInv
<1>7. CASE \E ok \in BOOLEAN : StartFull(ok)
  BY <1>7 DEF StartFull, ServerInv
<1>8. CASE StartSetup
  <2>1. UNCHANGED <<server, tests, restarting, orphan>> /\ process = "off" /\ process' = "setup"
    BY <1>8 DEF StartSetup, daemons, history
  <2> QED
    BY <2>1 DEF ServerInv, Owned
<1>9. CASE UNCHANGED vars
  BY <1>1, <1>9 DEF vars, daemons, history
<1> QED
  BY <1>2, <1>3, <1>4, <1>5, <1>6, <1>7, <1>8, <1>9, TestOwns DEF Next

(* The tests of nut_config/routes.py, alone or overlapping, leave no       *)
(* server running during the set-up.                                       *)
THEOREM NoServerStays == Spec => []NoServerLeftBehind
<1>1. Init => ServerInv
  BY DEF Init, ServerInv
<1>2. ServerInv => NoServerLeftBehind
  BY DEF ServerInv, Owned, NoServerLeftBehind
<1> QED
  BY <1>1, <1>2, ServerInvStep, TypeCorrect, PTL DEF Spec
=============================================================================
