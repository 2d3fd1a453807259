-------------------------- MODULE Commands_proofs ---------------------------
(***************************************************************************)
(* Proofs about the two components that run other programs: NutServices,   *)
(* the thread that watches the connection and restarts services, and       *)
(* ScriptActions, the scripts of administrators.  They share no variable;  *)
(* the names of ScriptActions that would be those of NutServices carry the *)
(* prefix Script.                                                          *)
(***************************************************************************)
EXTENDS NutServices, ScriptActions, SequenceTheorems, TLAPS

(***************************************************************************)
(* NutServices: the flags of the thread that watches the connection, in    *)
(* any mode, for any administrators and any number of losses, requests and *)
(* timeouts.                                                               *)
(***************************************************************************)

(* Types.                                                                  *)

Task == [op : Operations, todo : Seq(Commands)]

(* The lists of commands, and what is left of one, are lists of commands.  *)
LEMMA CommandLists ==
    /\ Stops \in Seq(Commands) /\ StartsAll \in Seq(Commands)
    /\ StartsForMode \in Seq(Commands) /\ Idle \in Task
<1>1. \A i \in 1..3 : /\ <<"upsmon", "upsd", "driver">>[i] \in Services
                      /\ <<"driver", "upsd", "upsmon">>[i] \in Services
  BY DEF Services
<1>2. Stops \in [1..3 -> Commands] /\ StartsAll \in [1..3 -> Commands]
  BY <1>1 DEF Stops, StartsAll, Commands
<1>3. Stops \in Seq(Commands) /\ StartsAll \in Seq(Commands)
  <2>1. Seq(Commands) = UNION {[1..n -> Commands] : n \in Nat}
    BY SeqDef, Zenon
  <2>2. 3 \in Nat
    OBVIOUS
  <2>3. [1..3 -> Commands] \in {[1..n -> Commands] : n \in Nat}
    BY <2>2, Zenon
  <2>4. [1..3 -> Commands] \subseteq Seq(Commands)
    BY <2>1, <2>3, Zenon
  <2> QED BY <1>2, <2>4, Zenon
<1>4. StartsAll[3] \in Commands
  BY <1>2
<1>5. <<StartsAll[3]>> \in Seq(Commands)
  BY <1>4
<1>6. StartsForMode \in Seq(Commands)
  BY <1>3, <1>5 DEF StartsForMode
<1>7. Idle \in Task
  BY DEF Idle, Task, Operations
<1> QED BY <1>3, <1>6, <1>7

(* An actor gets another list of commands. *)
LEMMA TaskType ==
    ASSUME tasks \in [Actors -> Task], NEW a \in Actors, NEW op \in Operations,
           NEW todo \in Seq(Commands)
    PROVE  Becomes(a, op, todo) => tasks' \in [Actors -> Task]
<1>1. [op |-> op, todo |-> todo] \in Task
  BY DEF Task
<1> QED BY <1>1 DEF Becomes

(* One more of what is counted, within its bound. *)
LEMMA CountType ==
    ASSUME counts \in [unplugs : 0..MaxUnplugs, requests : 0..MaxRequests,
                       faults : 0..MaxFaults]
    PROVE  LET Counts == [unplugs : 0..MaxUnplugs, requests : 0..MaxRequests,
                          faults : 0..MaxFaults]
           IN  /\ counts.unplugs < MaxUnplugs /\ Count("unplugs") => counts' \in Counts
               /\ counts.requests < MaxRequests /\ Count("requests") => counts' \in Counts
               /\ Fault => counts' \in Counts
<1> DEFINE Counts == [unplugs : 0..MaxUnplugs, requests : 0..MaxRequests, faults : 0..MaxFaults]
           u == counts.unplugs + 1
           r == counts.requests + 1
           f == counts.faults + 1
<1>1. /\ counts.unplugs < MaxUnplugs => u \in 0..MaxUnplugs
      /\ counts.requests < MaxRequests => r \in 0..MaxRequests
      /\ counts.faults < MaxFaults => f \in 0..MaxFaults
  BY ServicesAssumption
<1>2. /\ Count("unplugs") => counts' = [counts EXCEPT !["unplugs"] = u]
      /\ Count("requests") => counts' = [counts EXCEPT !["requests"] = r]
      /\ Count("faults") => counts' = [counts EXCEPT !["faults"] = f]
      /\ Fault => counts.faults < MaxFaults /\ Count("faults")
  BY DEF Count, Fault
<1> HIDE DEF u, r, f
<1>3. u \in 0..MaxUnplugs => [counts EXCEPT !["unplugs"] = u] \in Counts
  OBVIOUS
<1>4. r \in 0..MaxRequests => [counts EXCEPT !["requests"] = r] \in Counts
  OBVIOUS
<1>5. f \in 0..MaxFaults => [counts EXCEPT !["faults"] = f] \in Counts
  OBVIOUS
<1> HIDE DEF Counts
<1>6. /\ counts.unplugs < MaxUnplugs /\ Count("unplugs") => counts' \in Counts
      /\ counts.requests < MaxRequests /\ Count("requests") => counts' \in Counts
      /\ Fault => counts' \in Counts
  BY <1>1, <1>2, <1>3, <1>4, <1>5, Zenon
<1> QED BY <1>6 DEF Counts

(* What a command does to the services. *)
LEMMA EffectType ==
    ASSUME running \subseteq Services, attached \in BOOLEAN, NEW s \in Services,
           Stop(s) \/ Start(s)
    PROVE  running' \subseteq Services /\ attached' \in BOOLEAN
  BY DEF Stop, Start

(* Every state of the services, their operations and the thread is well    *)
(* typed: an operation always has a list of commands to run, also what is  *)
(* left of it after a time-out.                                            *)
THEOREM TypeCorrect == Spec => []TypeOK
<1>1. Init => TypeOK
  <2> SUFFICES ASSUME Init PROVE TypeOK
    OBVIOUS
  <2>1. running \subseteq Services
    BY DEF Init, Services
  <2>2. tasks \in [Actors -> Task]
    <3>1. tasks = [a \in Actors |-> Idle]
      BY DEF Init
    <3> QED BY <3>1, CommandLists, Zenon
  <2>3. counts \in [unplugs : 0..MaxUnplugs, requests : 0..MaxRequests, faults : 0..MaxFaults]
    BY ServicesAssumption DEF Init
  <2>4. /\ reachable \in BOOLEAN /\ attached = (Local /\ reachable)
        /\ connected = TRUE /\ in_recovery_mode = FALSE /\ is_usb_disconnect = FALSE
    BY DEF Init
  <2>5. attached \in BOOLEAN
    BY <2>4
  <2>6. stage \in {"check", "unconfigured"} /\ commoks = 1
    BY DEF Init
  <2> QED BY <2>1, <2>2, <2>3, <2>4, <2>5, <2>6 DEF TypeOK, Task
<1>2. TypeOK /\ [Next]_vars => TypeOK'
  <2> SUFFICES ASSUME TypeOK, [Next]_vars PROVE TypeOK'
    OBVIOUS
  <2>1. /\ reachable \in BOOLEAN /\ attached \in BOOLEAN /\ running \subseteq Services
        /\ tasks \in [Actors -> Task]
        /\ stage \in {"check", "scan", "restart", "verify", "sleep", "unconfigured", "dead"}
        /\ connected \in BOOLEAN /\ in_recovery_mode \in BOOLEAN
        /\ is_usb_disconnect \in BOOLEAN /\ commoks \in Nat
        /\ counts \in [unplugs : 0..MaxUnplugs, requests : 0..MaxRequests, faults : 0..MaxFaults]
        /\ Watch \in Actors
    BY DEF TypeOK, Task, Actors
  <2>2. /\ \A a \in Actors : tasks[a].op \in Operations /\ tasks[a].todo \in Seq(Commands)
        /\ \A q \in Seq(Commands) : q # <<>> =>
              /\ Tail(q) \in Seq(Commands) /\ Head(q) \in Commands
        /\ <<>> \in Seq(Commands)
    <3>1. \A a \in Actors : tasks[a].op \in Operations /\ tasks[a].todo \in Seq(Commands)
      BY <2>1 DEF Task
    <3>2. \A q \in Seq(Commands) : q # <<>> =>
              /\ Tail(q) \in Seq(Commands) /\ Head(q) \in Commands
      OBVIOUS
    <3> QED BY <3>1, <3>2
  <2>3. \A a \in Actors : tasks[a].todo # <<>> =>
           /\ Tail(tasks[a].todo) \in Seq(Commands)
           /\ Head(tasks[a].todo).what \in Services
    BY <2>2 DEF Commands
  \* The device and the thread.
  <2>4. CASE Unplug
    BY <2>1, <2>4, CountType DEF Unplug, flags, TypeOK, Task
  <2>5. CASE Plug \/ Reattach \/ UNCHANGED vars
    BY <2>1, <2>5 DEF Plug, Reattach, flags, vars, device, TypeOK, Task
  <2>6. CASE WatchStep
    <3>1. UNCHANGED <<reachable, attached, running>>
      BY <2>6 DEF WatchStep, CheckRaises, CheckSucceeds, CheckFindsLoss, CheckTimesOut, ScanFinds,
         ScanFindsNothing, RestartEnds, Verify, Wake, device
    <3>2. stage' \in {"check", "scan", "restart", "verify", "sleep", "unconfigured", "dead"}
      BY <2>6 DEF WatchStep, CheckRaises, CheckSucceeds, CheckFindsLoss, CheckTimesOut, ScanFinds,
         ScanFindsNothing, RestartEnds, Verify, Wake
    <3>3. /\ connected' \in BOOLEAN /\ in_recovery_mode' \in BOOLEAN
          /\ is_usb_disconnect' \in BOOLEAN
      <4>1. CASE CheckSucceeds
        <5>1. /\ connected' = TRUE /\ in_recovery_mode' = FALSE
              /\ is_usb_disconnect' = (is_usb_disconnect /\ ~in_recovery_mode)
          BY <4>1 DEF CheckSucceeds
        <5> QED BY <5>1
      <4>2. CASE CheckFindsLoss
        <5>1. \/ connected' = FALSE /\ in_recovery_mode' = TRUE /\ is_usb_disconnect' = TRUE
              \/ UNCHANGED flags
          BY <4>2 DEF CheckFindsLoss
        <5> QED BY <2>1, <5>1 DEF flags
      <4>3. CASE CheckTimesOut
        <5>1. /\ connected' = FALSE /\ in_recovery_mode' = (in_recovery_mode \/ connected)
              /\ is_usb_disconnect' = is_usb_disconnect
          BY <4>3 DEF CheckTimesOut
        <5> QED BY <2>1, <5>1
      <4>4. CASE RestartEnds
        BY <2>1, <4>4 DEF RestartEnds
      <4>5. CASE UNCHANGED flags
        BY <2>1, <4>5 DEF flags
      <4>6. \/ CheckSucceeds \/ CheckFindsLoss \/ CheckTimesOut
            \/ RestartEnds \/ UNCHANGED flags
        BY <2>6 DEF WatchStep, CheckRaises, ScanFinds, ScanFindsNothing, Verify, Wake
      <4> QED BY <4>1, <4>2, <4>3, <4>4, <4>5, <4>6
    <3>6. commoks' \in Nat
      <4>1. commoks' \in {0, commoks, commoks + 1}
        BY <2>6 DEF WatchStep, CheckRaises, CheckSucceeds, CheckFindsLoss, CheckTimesOut, ScanFinds,
           ScanFindsNothing, RestartEnds, Verify, Wake
      <4> QED BY <2>1, <4>1
    <3>4. tasks' \in [Actors -> Task]
      <4>1. CASE ScanFinds
        <5>1. Becomes(Watch, "recover", Stops \o StartsAll)
          BY <4>1 DEF ScanFinds
        <5>2. Stops \o StartsAll \in Seq(Commands) /\ "recover" \in Operations
          BY CommandLists DEF Operations
        <5> QED BY <2>1, <5>1, <5>2, TaskType
      <4>2. CASE RestartEnds
        BY <2>1, <4>2, CommandLists DEF RestartEnds
      <4>3. CASE ~ScanFinds /\ ~RestartEnds
        BY <2>1, <2>6, <4>3 DEF WatchStep, CheckRaises, CheckSucceeds, CheckFindsLoss,
           CheckTimesOut, ScanFindsNothing, Verify, Wake
      <4> QED BY <4>1, <4>2, <4>3
    <3>5. counts' \in [unplugs : 0..MaxUnplugs, requests : 0..MaxRequests, faults : 0..MaxFaults]
      <4>1. counts' = counts \/ Fault
        BY <2>6 DEF WatchStep, CheckRaises, CheckSucceeds, CheckFindsLoss, CheckTimesOut, ScanFinds,
           ScanFindsNothing, RestartEnds, Verify, Wake
      <4> QED BY <2>1, <4>1, CountType
    <3> QED BY <2>1, <3>1, <3>2, <3>3, <3>4, <3>5, <3>6 DEF device, TypeOK, Task
  \* Operations.
  <2>7. ASSUME NEW a \in Actors, tasks' \in [Actors -> Task],
               running' \subseteq Services, attached' \in BOOLEAN,
               UNCHANGED <<reachable, stage, flags, commoks>>,
               counts' = counts \/ Fault
        PROVE  TypeOK'
    <3>1. counts' \in [unplugs : 0..MaxUnplugs, requests : 0..MaxRequests, faults : 0..MaxFaults]
      BY <2>1, <2>7, CountType
    <3> QED BY <2>1, <2>7, <3>1 DEF flags, TypeOK, Task
  <2>8. ASSUME NEW a \in Admins, NEW op \in {"start", "stop", "restart"}, Begin(a, op)
        PROVE  TypeOK'
    <3> DEFINE todo == IF op = "start" THEN Stops \o StartsForMode ELSE Stops
    <3>1. todo \in Seq(Commands) /\ op \in Operations /\ a \in Actors
      BY CommandLists DEF Operations, Actors
    <3>2. Becomes(a, op, todo)
      BY <2>8 DEF Begin, Becomes
    <3> HIDE DEF todo
    <3>3. tasks' \in [Actors -> Task]
      BY <2>1, <3>1, <3>2, TaskType
    <3>4. counts' \in [unplugs : 0..MaxUnplugs, requests : 0..MaxRequests, faults : 0..MaxFaults]
      BY <2>1, <2>8, CountType DEF Begin
    <3> QED BY <2>1, <2>8, <3>3, <3>4 DEF Begin, device, flags, TypeOK, Task
  <2>9. ASSUME NEW a \in Actors, Execute(a) PROVE TypeOK'
    <3> DEFINE c == Head(tasks[a].todo)
               left == IF a = Watch /\ c.do = "start" /\ ~Startable(c.what)
                       THEN <<>> ELSE Tail(tasks[a].todo)
    <3>1. /\ tasks[a].todo # <<>>
          /\ Stop(c.what) \/ Start(c.what) \/ UNCHANGED <<running, attached>>
          /\ Becomes(a, tasks[a].op, left)
          /\ UNCHANGED <<reachable, stage, flags, commoks, counts>>
      BY <2>9 DEF Execute
    <3>2. c.what \in Services /\ left \in Seq(Commands)
      BY <2>2, <2>3, <3>1
    <3> HIDE DEF c, left
    <3>3. running' \subseteq Services /\ attached' \in BOOLEAN
      BY <2>1, <3>1, <3>2, EffectType
    <3>4. tasks' \in [Actors -> Task]
      BY <2>1, <2>2, <3>1, <3>2, TaskType
    <3> QED BY <2>7, <3>1, <3>3, <3>4
  <2>10. ASSUME NEW a \in Actors, NEW done \in BOOLEAN, TimesOut(a, done) PROVE TypeOK'
    <3> DEFINE c == Head(tasks[a].todo)
    <3>1. /\ tasks[a].todo # <<>> /\ Fault
          /\ Stop(c.what) \/ Start(c.what) \/ UNCHANGED <<running, attached>>
          /\ tasks' = [tasks EXCEPT ![a] = LeftAfterTimeout(a)]
          /\ UNCHANGED <<reachable, stage, flags, commoks>>
      BY <2>10 DEF TimesOut
    <3>2. c.what \in Services
      BY <2>3, <3>1
    <3>3. LeftAfterTimeout(a) \in Task
      <4> DEFINE op == tasks[a].op
                 rest == IF c.do = "stop" THEN Tail(tasks[a].todo) ELSE <<>>
      <4>1. LeftAfterTimeout(a) \in {[op |-> op, todo |-> rest],
                                     [op |-> op, todo |-> StartsForMode],
                                     [op |-> "forced", todo |-> Stops], Idle}
        BY DEF LeftAfterTimeout
      <4>2. rest \in Seq(Commands)
        BY <2>2, <2>3, <3>1
      <4>3. op \in Operations /\ "forced" \in Operations
        BY <2>2 DEF Operations
      <4> HIDE DEF op, rest
      <4>4. /\ [op |-> op, todo |-> rest] \in Task
            /\ [op |-> op, todo |-> StartsForMode] \in Task
            /\ [op |-> "forced", todo |-> Stops] \in Task /\ Idle \in Task
        BY <4>2, <4>3, CommandLists DEF Task
      <4> QED BY <4>1, <4>4
    <3> HIDE DEF c
    <3>4. running' \subseteq Services /\ attached' \in BOOLEAN
      BY <2>1, <3>1, <3>2, EffectType
    <3>5. tasks' \in [Actors -> Task]
      BY <2>1, <3>1, <3>3
    <3> QED BY <2>7, <3>1, <3>4, <3>5
  <2>11. ASSUME NEW a \in Actors, End(a) PROVE TypeOK'
    <3>1. tasks' \in [Actors -> Task]
      <4>1. CASE tasks[a].op = "restart"
        <5>1. Becomes(a, "start", Stops \o StartsForMode)
          BY <2>11, <4>1 DEF End
        <5>2. Stops \o StartsForMode \in Seq(Commands) /\ "start" \in Operations
          BY CommandLists DEF Operations
        <5> QED BY <2>1, <5>1, <5>2, TaskType
      <4>2. CASE tasks[a].op # "restart"
        BY <2>1, <2>11, <4>2, CommandLists DEF End
      <4> QED BY <4>1, <4>2
    <3> QED BY <2>1, <2>7, <2>11, <3>1 DEF End, device
  <2> QED
    BY <2>4, <2>5, <2>6, <2>8, <2>9, <2>10, <2>11 DEF Next
<1> QED BY <1>1, <1>2, PTL DEF Spec

-----------------------------------------------------------------------------
(* The flags.                                                              *)

(* What a step of the thread leaves for the next one: an announced loss    *)
(* that no restart has handled has had no COMMOK, the thread scans and     *)
(* restarts only for such a loss, and it verifies only a restart after     *)
(* which none was sent.                                                    *)
WatchInv ==
    /\ connected \in BOOLEAN /\ in_recovery_mode \in BOOLEAN /\ is_usb_disconnect \in BOOLEAN
    /\ commoks \in Nat
    /\ FlagsAgree
    /\ OneCommokPerLoss
    /\ is_usb_disconnect => commoks = 0
    /\ stage \in {"scan", "restart"} => is_usb_disconnect
    /\ stage = "verify" => commoks = 0 /\ ~is_usb_disconnect

LEMMA WatchInvInit == Init => WatchInv
<1> SUFFICES ASSUME Init PROVE WatchInv
  OBVIOUS
<1>1. /\ connected = TRUE /\ in_recovery_mode = FALSE /\ is_usb_disconnect = FALSE
      /\ commoks \in Nat /\ commoks <= 1 /\ stage \notin {"scan", "restart", "verify"}
  BY DEF Init
<1> QED
  BY <1>1, Zenon DEF WatchInv, FlagsAgree, OneCommokPerLoss

(* Only the thread's own steps touch its flags.                            *)
LEMMA WatchInvStep == WatchInv /\ [Next]_vars => WatchInv'
<1> SUFFICES ASSUME WatchInv, [Next]_vars PROVE WatchInv'
  OBVIOUS
<1> USE DEF WatchInv, FlagsAgree, OneCommokPerLoss
<1>1. CASE UNCHANGED <<stage, flags, commoks>>
  BY <1>1 DEF flags
<1>2. ASSUME NEW a \in Admins, NEW op \in {"start", "stop", "restart"}, Begin(a, op)
      PROVE  WatchInv'
  BY <1>2, <1>1 DEF Begin
<1>3. ASSUME NEW a \in Actors, Execute(a) \/ End(a)
      PROVE  WatchInv'
  BY <1>3, <1>1 DEF Execute, End
<1>4. ASSUME NEW a \in Actors, NEW done \in BOOLEAN, TimesOut(a, done)
      PROVE  WatchInv'
  BY <1>4, <1>1 DEF TimesOut
<1>5. CASE Unplug \/ Plug \/ Reattach
  BY <1>5, <1>1 DEF Unplug, Plug, Reattach
<1>6. CASE WatchStep
  <2>1. CASE CheckSucceeds
    <3>1. /\ connected' = TRUE /\ in_recovery_mode' = FALSE /\ stage' = "sleep"
          /\ is_usb_disconnect' = (is_usb_disconnect /\ ~in_recovery_mode)
      BY <2>1, Zenon DEF CheckSucceeds
    <3>2. is_usb_disconnect' = FALSE
      BY <3>1, Zenon
    <3>3. commoks' \in Nat /\ commoks' <= 1
      BY <2>1 DEF CheckSucceeds
    <3>4. stage' \notin {"scan", "restart", "verify"}
      BY <3>1
    <3> QED
      BY <3>1, <3>2, <3>3, <3>4, Zenon
  <2>2. CASE CheckFindsLoss
    <3>1. stage' = "scan" /\ stage' # "verify"
      BY <2>2 DEF CheckFindsLoss
    <3>2. CASE connected \/ ~is_usb_disconnect
      <4>1. /\ connected' = FALSE /\ in_recovery_mode' = TRUE
            /\ is_usb_disconnect' = TRUE /\ commoks' = 0
        BY <2>2, <3>2, Zenon DEF CheckFindsLoss
      <4>2. commoks' \in Nat /\ commoks' <= 1
        BY <4>1
      <4> QED
        BY <3>1, <4>1, <4>2, Zenon
    <3>3. CASE ~(connected \/ ~is_usb_disconnect)
      BY <2>2, <3>1, <3>3, Zenon DEF CheckFindsLoss, flags
    <3> QED
      BY <3>2, <3>3
  <2>3. CASE CheckTimesOut
    BY <2>3 DEF CheckTimesOut
  <2>4. CASE ScanFinds \/ ScanFindsNothing
    BY <2>4 DEF ScanFinds, ScanFindsNothing, flags
  <2>5. CASE RestartEnds
    BY <2>5 DEF RestartEnds
  <2>6. ASSUME NEW sees \in BOOLEAN, Verify(sees)
        PROVE  WatchInv'
    BY <2>6 DEF Verify, flags
  <2>7. CASE Wake \/ CheckRaises
    BY <2>7 DEF Wake, CheckRaises, flags
  <2> QED
    BY <1>6, <2>1, <2>2, <2>3, <2>4, <2>5, <2>6, <2>7 DEF WatchStep
<1>7. CASE UNCHANGED vars
  BY <1>7, <1>1 DEF vars
<1> QED
  BY <1>2, <1>3, <1>4, <1>5, <1>6, <1>7 DEF Next

LEMMA WatchInvHolds == Spec => []WatchInv
<1> QED
  BY WatchInvInit, WatchInvStep, PTL DEF Spec

(* The flags of core/db/internal_checker.py never contradict each other.   *)
THEOREM FlagsAlwaysAgree == Spec => []FlagsAgree
<1>1. WatchInv => FlagsAgree
  BY DEF WatchInv
<1> QED
  BY <1>1, WatchInvHolds, PTL

(* The check and the verification of a restart never both send a COMMOK.   *)
THEOREM NeverTwoCommoks == Spec => []OneCommokPerLoss
<1>1. WatchInv => OneCommokPerLoss
  BY DEF WatchInv
<1> QED
  BY <1>1, WatchInvHolds, PTL

-----------------------------------------------------------------------------
(***************************************************************************)
(* ScriptActions: type correctness, that the pool never runs the script of *)
(* an action twice at a time, and that an action runs once per occurrence. *)
(***************************************************************************)

(* Counting one more fault under its bound keeps the counters' types. *)
LEMMA FaultsType ==
    ASSUME ScriptTypeOK, MayFail
    PROVE  LET FaultType == [edits : 0..MaxScriptFaults,
                             failures : 0..MaxScriptFaults]
           IN  /\ [faults EXCEPT !.edits = @ + 1] \in FaultType
               /\ [faults EXCEPT !.failures = @ + 1] \in FaultType
<1> DEFINE e == faults.edits
           f == faults.failures
<1>1. /\ e \in 0..MaxScriptFaults /\ f \in 0..MaxScriptFaults
      /\ faults = [edits |-> e, failures |-> f]
  BY DEF ScriptTypeOK
<1>2. e + 1 \in 0..MaxScriptFaults /\ f + 1 \in 0..MaxScriptFaults
  <2>1. e + f < MaxScriptFaults /\ e \in Nat /\ f \in Nat
    BY <1>1 DEF MayFail
  <2> HIDE DEF e, f
  <2> QED BY <1>1, <2>1, ScriptAssumption
<1>3. /\ [faults EXCEPT !.edits = @ + 1] = [edits |-> e + 1, failures |-> f]
      /\ [faults EXCEPT !.failures = @ + 1] = [edits |-> e, failures |-> f + 1]
  BY <1>1
<1> HIDE DEF e, f
<1> QED BY <1>1, <1>2, <1>3

(* ScriptTypeOK, in four parts that each action disturbs in its own way.   *)
FlagsTyped ==
    /\ active \in BOOLEAN /\ polled \in BOOLEAN /\ stored \in BOOLEAN
    /\ enabled \in BOOLEAN /\ latch \in BOOLEAN /\ testing \in BOOLEAN
    /\ fresh \in BOOLEAN /\ misled \in BOOLEAN
    /\ repeated \in BOOLEAN /\ hasty \in BOOLEAN

ReadersTyped ==
    /\ view \in [Handlers -> BOOLEAN \cup {NoView}]
    /\ waited \in [Handlers -> 0..MaxWait]
    /\ submits \subseteq Handlers

RowTyped ==
    /\ cooldown \in Cooldowns /\ age \in 0..LongAgo
    /\ result \in {"Queued", "other"}
    /\ jobs \in [1..MaxRuns -> 0..NotInPool] /\ runs \in 0..MaxRuns

FaultsTyped ==
    faults \in [edits : 0..MaxScriptFaults, failures : 0..MaxScriptFaults]

LEMMA ScriptTypeParts ==
    ScriptTypeOK <=> FlagsTyped /\ ReadersTyped /\ RowTyped /\ FaultsTyped
  BY Zenon DEF ScriptTypeOK, FlagsTyped, ReadersTyped, RowTyped, FaultsTyped

(* An evaluation that is over leaves the readers well typed. *)
LEMMA DoneType ==
    ASSUME ReadersTyped, NEW p \in Handlers, Done(p)
    PROVE  /\ view' \in [Handlers -> BOOLEAN \cup {NoView}]
           /\ waited' \in [Handlers -> 0..MaxWait]
<1>1. 0 \in 0..MaxWait
  BY ScriptAssumption
<1> QED BY <1>1 DEF ReadersTyped, Done

(* So does one that begins.                                                *)
LEMMA ReadsType ==
    ASSUME FlagsTyped, ReadersTyped, RowTyped, FaultsTyped,
           NEW p, NEW v \in BOOLEAN, Reads(p, v), polled' \in BOOLEAN
    PROVE  ScriptTypeOK'
<1>1. FlagsTyped'
  BY Zenon DEF FlagsTyped, Reads, row, history
<1>2. ReadersTyped'
  BY DEF ReadersTyped, Reads
<1>3. RowTyped' /\ FaultsTyped'
  BY DEF RowTyped, FaultsTyped, Reads, row, NotInPool, LongAgo
<1> QED BY <1>1, <1>2, <1>3, ScriptTypeParts, PTL

(* Every reachable state of a script action is well typed. *)
THEOREM ScriptTypeCorrect == ScriptSpec => []ScriptTypeOK
<1> USE ScriptAssumption
<1>1. ScriptInit => ScriptTypeOK
  <2> SUFFICES ASSUME ScriptInit
               PROVE  ScriptTypeOK
    OBVIOUS
  <2>1. FlagsTyped
    BY Zenon DEF ScriptInit, FlagsTyped
  <2>2. ReadersTyped
    BY DEF ScriptInit, ReadersTyped
  <2>3. RowTyped
    BY DEF ScriptInit, RowTyped, NotInPool, LongAgo
  <2>4. FaultsTyped
    BY DEF ScriptInit, FaultsTyped
  <2> QED BY <2>1, <2>2, <2>3, <2>4, ScriptTypeParts
<1>2. ScriptTypeOK /\ [ScriptNext]_scriptVars => ScriptTypeOK'
  <2> SUFFICES ASSUME ScriptTypeOK, [ScriptNext]_scriptVars
               PROVE  ScriptTypeOK'
    OBVIOUS
  <2> USE DEF status, reader, row, history
  <2>0. FlagsTyped /\ ReadersTyped /\ RowTyped /\ FaultsTyped
    BY ScriptTypeParts
  <2>a. ASSUME FlagsTyped', ReadersTyped', RowTyped', FaultsTyped'
        PROVE  ScriptTypeOK'
    BY <2>a, ScriptTypeParts, PTL
  \* What most actions leave alone.
  <2>b. /\ UNCHANGED <<active, status, enabled, latch, testing, history>>
           => FlagsTyped'
        /\ UNCHANGED <<reader, submits>> => ReadersTyped'
        /\ UNCHANGED <<cooldown, age, result, jobs, runs>> => RowTyped'
        /\ UNCHANGED faults => FaultsTyped'
    BY <2>0 DEF FlagsTyped, ReadersTyped, RowTyped, FaultsTyped, NotInPool,
                LongAgo
  <2>c. MayFail => /\ [faults EXCEPT !.edits = @ + 1]
                        \in [edits : 0..MaxScriptFaults,
                             failures : 0..MaxScriptFaults]
                   /\ [faults EXCEPT !.failures = @ + 1]
                        \in [edits : 0..MaxScriptFaults,
                             failures : 0..MaxScriptFaults]
    BY FaultsType
  <2>1. CASE PowerChanges
    <3>1. FlagsTyped'
      BY <2>0, <2>1, Zenon DEF PowerChanges, FlagsTyped
    <3> QED BY <2>1, <2>a, <2>b, <3>1 DEF PowerChanges
  <2>2. CASE StatusStored
    <3>1. FlagsTyped'
      BY <2>0, <2>2 DEF StatusStored, FlagsTyped
    <3> QED BY <2>2, <2>a, <2>b, <3>1 DEF StatusStored
  <2>3. CASE Tick
    <3>1. \A r \in 1..MaxRuns : jobs'[r] \in 0..NotInPool
      BY <2>0, <2>3 DEF Tick, InPool, RowTyped, NotInPool
    <3>2. RowTyped'
      BY <2>0, <2>3, <3>1 DEF Tick, RowTyped, NotInPool, LongAgo
    <3>3. ReadersTyped'
      BY <2>0, <2>3 DEF Tick, ReadersTyped
    <3> QED BY <2>3, <2>a, <2>b, <3>2, <3>3 DEF Tick
  <2>4. CASE PollAnswered \/ PollFailed
    <3>1. PICK v \in BOOLEAN : Reads(Poller, v)
      BY <2>0, <2>4 DEF PollAnswered, PollFailed, FlagsTyped
    <3>2. polled' \in BOOLEAN
      BY <2>0, <2>4 DEF PollAnswered, PollFailed, FlagsTyped
    <3> QED BY <2>0, <3>1, <3>2, ReadsType
  <2>5. CASE PollBroken
    <3>1. FlagsTyped'
      BY <2>0, <2>5, Zenon DEF PollBroken, FlagsTyped
    <3> QED BY <2>5, <2>a, <2>b, <3>1 DEF PollBroken
  <2>6. ASSUME NEW p \in Handlers, EventPosted(p)
        PROVE  ScriptTypeOK'
    <3>1. PICK v \in BOOLEAN : Reads(p, v)
      BY <2>0, <2>6 DEF EventPosted, FlagsTyped
    <3>2. polled' \in BOOLEAN
      BY <2>0, <2>6 DEF EventPosted, FlagsTyped
    <3> QED BY <2>0, <3>1, <3>2, ReadsType
  <2>7. ASSUME NEW p \in Handlers, Rearm(p) \/ NotDue(p)
        PROVE  ScriptTypeOK'
    <3>1. FlagsTyped'
      BY <2>0, <2>7, Zenon DEF Rearm, NotDue, Done, FlagsTyped
    <3>2. Done(p) /\ submits' = submits
      BY <2>7 DEF Rearm, NotDue
    <3>3. ReadersTyped'
      BY <2>0, <3>2, DoneType DEF ReadersTyped
    <3> QED BY <2>7, <2>a, <2>b, <3>1, <3>3 DEF Rearm, NotDue
  <2>8. ASSUME NEW p \in Handlers, Queue(p)
        PROVE  ScriptTypeOK'
    <3>1. FlagsTyped'
      BY <2>0, <2>8, Zenon DEF Queue, Done, FlagsTyped
    <3>2. Done(p) /\ submits' = {p}
      BY <2>8 DEF Queue
    <3>3. ReadersTyped'
      BY <2>0, <3>2, DoneType DEF ReadersTyped
    <3>4. /\ runs' = runs + 1 /\ runs < MaxRuns /\ age' = waited[p]
          /\ result' = "Queued" /\ UNCHANGED <<cooldown, jobs>>
      BY <2>8 DEF Queue
    <3>5. RowTyped'
      BY <2>0, <3>4 DEF RowTyped, ReadersTyped, NotInPool, LongAgo
    <3> QED BY <2>8, <2>a, <2>b, <3>1, <3>3, <3>5 DEF Queue
  <2>9. ASSUME NEW p \in Handlers, Submit(p)
        PROVE  ScriptTypeOK'
    <3>1. ReadersTyped'
      BY <2>0, <2>9 DEF Submit, ReadersTyped
    <3>2. /\ jobs' = [jobs EXCEPT ![runs] = 0]
          /\ UNCHANGED <<cooldown, age, result, runs>> /\ 0 \in 0..NotInPool
      BY <2>9 DEF Submit, NotInPool
    <3>3. RowTyped'
      BY <2>0, <3>2 DEF RowTyped, NotInPool, LongAgo
    <3> QED BY <2>9, <2>a, <2>b, <3>1, <3>3 DEF Submit
  <2>10. ASSUME NEW p \in Handlers, EvaluationFails(p)
         PROVE  ScriptTypeOK'
    <3>1. FlagsTyped'
      BY <2>0, <2>10, Zenon DEF EvaluationFails, Done, FlagsTyped
    <3>2. /\ Done(p) /\ submits' = submits /\ MayFail
          /\ faults' = [faults EXCEPT !.failures = @ + 1]
      BY <2>10 DEF EvaluationFails
    <3>3. ReadersTyped'
      BY <2>0, <3>2, DoneType DEF ReadersTyped
    <3>4. FaultsTyped'
      BY <2>c, <3>2 DEF FaultsTyped
    <3> QED BY <2>10, <2>a, <2>b, <3>1, <3>3, <3>4 DEF EvaluationFails
  <2>11. ASSUME NEW r \in 1..MaxRuns, Complete(r) \/ CompleteFails(r)
         PROVE  ScriptTypeOK'
    <3>1. /\ jobs' = [jobs EXCEPT ![r] = NotInPool]
          /\ result' = "other" \/ result' = result
          /\ UNCHANGED <<cooldown, age, runs>>
      BY <2>11 DEF Complete, CompleteFails
    <3>2. RowTyped'
      BY <2>0, <3>1 DEF RowTyped, NotInPool, LongAgo
    <3>3. FaultsTyped'
      BY <2>11, <2>b, <2>c DEF Complete, CompleteFails, FaultsTyped
    <3> QED BY <2>11, <2>a, <2>b, <3>2, <3>3 DEF Complete, CompleteFails
  <2>12. CASE Edit
    <3>1. FlagsTyped'
      BY <2>0, <2>12 DEF Edit, FlagsTyped
    <3>2. RowTyped'
      BY <2>0, <2>12 DEF Edit, RowTyped, NotInPool, LongAgo
    <3>3. FaultsTyped'
      BY <2>12, <2>c DEF Edit, Administers, FaultsTyped
    <3> QED BY <2>12, <2>a, <2>b, <3>1, <3>2, <3>3 DEF Edit
  <2>13. CASE TestStarts
    <3>1. FlagsTyped'
      BY <2>0, <2>13 DEF TestStarts, FlagsTyped
    <3>2. FaultsTyped'
      BY <2>13, <2>c DEF TestStarts, Administers, FaultsTyped
    <3> QED BY <2>13, <2>a, <2>b, <3>1, <3>2 DEF TestStarts
  <2>14. CASE TestEnds
    <3>1. FlagsTyped'
      BY <2>0, <2>14 DEF TestEnds, FlagsTyped
    <3>2. RowTyped'
      BY <2>0, <2>14 DEF TestEnds, RowTyped, NotInPool, LongAgo
    <3> QED BY <2>14, <2>a, <2>b, <3>1, <3>2 DEF TestEnds
  <2>15. CASE Restart
    <3>1. FlagsTyped'
      BY <2>0, <2>15 DEF Restart, FlagsTyped
    <3>2. ReadersTyped'
      BY <2>15 DEF Restart, ReadersTyped
    <3>3. RowTyped'
      BY <2>0, <2>15 DEF Restart, RowTyped, NotInPool, LongAgo
    <3>4. FaultsTyped'
      BY <2>15, <2>c DEF Restart, FaultsTyped
    <3> QED BY <2>a, <3>1, <3>2, <3>3, <3>4
  <2>16. CASE UNCHANGED scriptVars
    BY <2>16, <2>a, <2>b DEF scriptVars
  <2> QED
    BY <2>1, <2>2, <2>3, <2>4, <2>5, <2>6, <2>7, <2>8, <2>9, <2>10, <2>11,
       <2>12, <2>13, <2>14, <2>15, <2>16 DEF ScriptNext, Evaluate
<1> QED BY <1>1, <1>2, PTL DEF ScriptSpec

(* As long as nothing was queued under too short a cooldown, an execution  *)
(* in the pool is as old as the last execution the row knows of, or older, *)
(* but for the wait for the lock, and the one being handed over is alone.  *)
PoolInv ==
    ~hasty =>
        /\ \A r \in InPool : age <= jobs[r] + MaxWait
        /\ submits # {} => age <= MaxWait /\ InPool = {}
        /\ \A r, s \in InPool : r = s

(* Nothing is queued while an execution is in the pool: the cooldown has   *)
(* not passed.                                                             *)
LEMMA DueMeansEmptyPool ==
    ASSUME ScriptTypeOK, PoolInv, ~hasty, NEW p \in Handlers, Due(p),
           cooldown > Timeout + MaxWait
    PROVE  InPool = {}
<1>1. SUFFICES ASSUME NEW r \in InPool
               PROVE  FALSE
  OBVIOUS
<1>2. jobs[r] \in 0..Timeout
  BY ScriptAssumption DEF InPool, NotInPool, ScriptTypeOK
<1>3. age <= jobs[r] + MaxWait /\ age >= cooldown + waited[p]
  BY DEF PoolInv, Due
<1>4. waited[p] \in Nat /\ cooldown \in Nat /\ age \in Nat
  BY ScriptAssumption DEF ScriptTypeOK, LongAgo
<1> QED BY <1>2, <1>3, <1>4, ScriptAssumption

(* A step that leaves the age and the hand-over alone, and puts nothing    *)
(* into the pool, keeps PoolInv.                                           *)
LEMMA PoolShrinks ==
    ASSUME PoolInv, hasty' = hasty, age' = age, submits' = submits,
           InPool' \subseteq InPool,
           \A r \in InPool' : jobs'[r] = jobs[r]
    PROVE  PoolInv'
  BY DEF PoolInv

(* For any number of handlers, executions, errors, edits, tests and        *)
(* restarts, and any cooldowns: the pool never runs the script of an       *)
(* action twice at a time, as long as whatever was queued was queued under *)
(* a cooldown longer than the script's run and the wait for the lock.      *)
THEOREM NeverTwiceAtATime == ScriptSpec => []OneAtATime
<1> USE ScriptAssumption
<1>1. ScriptInit => PoolInv
  BY DEF ScriptInit, PoolInv, InPool, NotInPool
<1>2. ScriptTypeOK /\ PoolInv /\ [ScriptNext]_scriptVars => PoolInv'
  <2> SUFFICES ASSUME ScriptTypeOK, PoolInv, [ScriptNext]_scriptVars
               PROVE  PoolInv'
    OBVIOUS
  <2> USE DEF status, reader, row, history
  <2>1. ASSUME UNCHANGED <<age, submits, jobs, hasty>>
        PROVE  PoolInv'
    BY <2>1, PoolShrinks DEF InPool
  <2>2. CASE Tick
    <3>1. InPool' = InPool
      BY <2>2 DEF Tick, InPool, NotInPool, ScriptTypeOK
    <3>2. \A r \in InPool : jobs'[r] = jobs[r] + 1 /\ jobs[r] \in Nat
      BY <2>2 DEF Tick, InPool, ScriptTypeOK, NotInPool
    <3>3. age' <= age + 1 /\ age \in Nat /\ age' \in Nat
      BY <2>2 DEF Tick, ScriptTypeOK, LongAgo
    <3>4. submits' = {} /\ hasty' = hasty
      BY <2>2 DEF Tick
    <3>5. ~hasty => \A r \in InPool' : age' <= jobs'[r] + MaxWait
      BY <3>1, <3>2, <3>3 DEF PoolInv
    <3> QED BY <3>1, <3>4, <3>5 DEF PoolInv
  <2>3. ASSUME NEW p \in Handlers, Queue(p)
        PROVE  PoolInv'
    <3> SUFFICES ASSUME ~hasty' PROVE PoolInv'
      BY DEF PoolInv
    <3>1. /\ Due(p) /\ jobs' = jobs /\ age' = waited[p]
          /\ hasty' = (hasty \/ cooldown <= Timeout + MaxWait)
      BY <2>3 DEF Queue
    <3>2. ~hasty /\ ~(cooldown <= Timeout + MaxWait)
      BY <3>1, Zenon DEF ScriptTypeOK
    <3>3. cooldown \in Nat
      BY DEF ScriptTypeOK
    <3>4. cooldown > Timeout + MaxWait
      BY <3>2, <3>3
    <3>5. InPool = {} /\ InPool' = {}
      BY <3>1, <3>2, <3>4, DueMeansEmptyPool DEF InPool
    <3>6. age' <= MaxWait
      BY <3>1 DEF ScriptTypeOK
    <3> QED BY <3>5, <3>6 DEF PoolInv
  <2>4. ASSUME NEW p \in Handlers, Submit(p)
        PROVE  PoolInv'
    <3> SUFFICES ASSUME ~hasty' PROVE PoolInv'
      BY DEF PoolInv
    <3>1. /\ p \in submits /\ hasty' = hasty /\ age' = age /\ submits' = {}
          /\ jobs' = [jobs EXCEPT ![runs] = 0]
      BY <2>4 DEF Submit
    <3>2. age <= MaxWait /\ InPool = {}
      BY <3>1 DEF PoolInv
    <3>3. \A r \in InPool' : r = runs /\ jobs'[r] = 0
      BY <3>1, <3>2 DEF InPool, ScriptTypeOK
    <3>4. \A r \in InPool' : age' <= jobs'[r] + MaxWait
      BY <3>1, <3>2, <3>3
    <3> QED BY <3>1, <3>3, <3>4 DEF PoolInv
  <2>5. ASSUME NEW r \in 1..MaxRuns, Complete(r) \/ CompleteFails(r)
        PROVE  PoolInv'
    <3>1. /\ age' = age /\ submits' = submits /\ hasty' = hasty
          /\ jobs' = [jobs EXCEPT ![r] = NotInPool]
      BY <2>5 DEF Complete, CompleteFails
    <3>2. /\ InPool' \subseteq InPool
          /\ \A s \in InPool' : jobs'[s] = jobs[s]
      BY <3>1 DEF InPool, ScriptTypeOK
    <3> QED BY <3>1, <3>2, PoolShrinks
  <2>6. CASE TestEnds
    <3>1. /\ age' = 0 /\ UNCHANGED <<submits, jobs, hasty>>
          /\ InPool' = InPool
      BY <2>6 DEF TestEnds, InPool
    <3>2. \A r \in InPool : jobs[r] \in Nat
      BY DEF InPool, ScriptTypeOK, NotInPool
    <3>3. \A r \in InPool' : age' <= jobs'[r] + MaxWait
      BY <3>1, <3>2
    <3> QED BY <3>1, <3>3 DEF PoolInv
  <2>7. CASE Restart
    <3>1. submits' = {} /\ InPool' = {}
      BY <2>7 DEF Restart, InPool
    <3> QED BY <3>1 DEF PoolInv
  <2>8. CASE PowerChanges \/ StatusStored \/ PollAnswered \/ PollFailed
             \/ PollBroken
    BY <2>1, <2>8 DEF PowerChanges, StatusStored, PollAnswered, PollFailed,
                      PollBroken, Reads
  <2>9. ASSUME NEW p \in Handlers, EventPosted(p) \/ EvaluationFails(p)
        PROVE  PoolInv'
    BY <2>1, <2>9 DEF EventPosted, Reads, EvaluationFails
  <2>10. ASSUME NEW p \in Handlers, Rearm(p) \/ NotDue(p)
         PROVE  PoolInv'
    BY <2>1, <2>10 DEF Rearm, NotDue
  <2>11. CASE Edit \/ TestStarts
    BY <2>1, <2>11 DEF Edit, TestStarts
  <2>12. CASE UNCHANGED scriptVars
    BY <2>1, <2>12 DEF scriptVars
  <2> QED
    BY <2>2, <2>3, <2>4, <2>5, <2>6, <2>7, <2>8, <2>9, <2>10, <2>11, <2>12
       DEF ScriptNext, Evaluate
<1>3. PoolInv => OneAtATime
  BY DEF PoolInv, OneAtATime
<1> QED BY <1>1, <1>2, <1>3, ScriptTypeCorrect, PTL DEF ScriptSpec

-----------------------------------------------------------------------------
(* While no evaluation was misled, an action that is armed while its       *)
(* condition is true has an occurrence to run for.                         *)
OccurrenceInv == ~misled => ~repeated /\ (active /\ ~latch => fresh)

(* As long as every evaluation sees the condition as it is, no execution   *)
(* is queued that is not for a new occurrence or after an edit, through    *)
(* errors, tests and restarts, for any number of handlers.                 *)
THEOREM NeverAgainIfSeenInTime == ScriptSpec => []OnceIfSeenInTime
<1>1. ScriptInit => OccurrenceInv
  BY Zenon DEF ScriptInit, OccurrenceInv
<1>2. ScriptTypeOK /\ OccurrenceInv /\ [ScriptNext]_scriptVars => OccurrenceInv'
  <2> SUFFICES ASSUME ScriptTypeOK, OccurrenceInv, [ScriptNext]_scriptVars
               PROVE  OccurrenceInv'
    OBVIOUS
  <2> USE DEF OccurrenceInv, status, reader, row, history
  <2>1. ASSUME UNCHANGED <<active, latch, fresh, repeated>>, misled => misled'
        PROVE  OccurrenceInv'
    BY <2>1
  <2>2. ASSUME NEW p \in Handlers, Done(p), view[p] # NoView, ~misled'
        PROVE  ~misled /\ view[p] = active
    BY <2>2 DEF Done
  <2>3. CASE PowerChanges
    BY <2>3 DEF PowerChanges, ScriptTypeOK
  <2>4. CASE \/ StatusStored \/ Tick \/ PollAnswered \/ PollFailed
             \/ PollBroken \/ TestStarts \/ TestEnds \/ Restart
    BY <2>1, <2>4 DEF StatusStored, Tick, PollAnswered, PollFailed,
                      PollBroken, Reads, TestStarts, TestEnds, Restart
  <2>5. ASSUME NEW p \in Handlers, EventPosted(p) \/ Submit(p)
        PROVE  OccurrenceInv'
    BY <2>1, <2>5 DEF EventPosted, Reads, Submit
  <2>6. ASSUME NEW p \in Handlers, NotDue(p) \/ EvaluationFails(p)
        PROVE  OccurrenceInv'
    BY <2>1, <2>6 DEF NotDue, EvaluationFails, Done
  <2>7. ASSUME NEW p \in Handlers, Rearm(p)
        PROVE  OccurrenceInv'
    <3>1. /\ Done(p) /\ view[p] # NoView /\ view[p] # TRUE
          /\ UNCHANGED <<active, repeated>>
      BY <2>7 DEF Rearm, MayEvaluate
    <3>2. ~misled' => ~misled /\ ~active
      BY <2>2, <3>1 DEF ScriptTypeOK
    <3> QED BY <3>1, <3>2
  <2>8. ASSUME NEW p \in Handlers, Queue(p)
        PROVE  OccurrenceInv'
    <3>1. /\ Done(p) /\ view[p] # NoView /\ view[p] = TRUE
          /\ ~latch /\ latch' = TRUE /\ active' = active
          /\ repeated' = (repeated \/ ~fresh)
      BY <2>8, Zenon DEF Queue, MayEvaluate, Due
    <3>2. ~misled' => ~misled /\ active
      BY <2>2, <3>1
    <3> QED BY <3>1, <3>2
  <2>9. ASSUME NEW r \in 1..MaxRuns, Complete(r) \/ CompleteFails(r)
        PROVE  OccurrenceInv'
    BY <2>1, <2>9 DEF Complete, CompleteFails
  <2>10. CASE Edit
    <3>1. fresh' = TRUE /\ UNCHANGED <<misled, repeated>>
      BY <2>10, Zenon DEF Edit
    <3> QED BY <3>1
  <2>11. CASE UNCHANGED scriptVars
    BY <2>1, <2>11 DEF scriptVars
  <2> QED
    BY <2>3, <2>4, <2>5, <2>6, <2>7, <2>8, <2>9, <2>10, <2>11
       DEF ScriptNext, Evaluate
<1>3. OccurrenceInv => OnceIfSeenInTime
  BY DEF OccurrenceInv, OnceIfSeenInTime
<1> QED BY <1>1, <1>2, <1>3, ScriptTypeCorrect, PTL DEF ScriptSpec

=============================================================================
