------------------------ MODULE EventPipeline_proofs ------------------------
(***************************************************************************)
(* Proofs about EventPipeline: its types, that handlers of events, however *)
(* they interleave, fail and crash, store no duplicate, whose outages the  *)
(* ends of power belong to, and that it implements ReportFate.             *)
(***************************************************************************)
EXTENDS EventPipeline, SequenceTheorems, TLAPS

-----------------------------------------------------------------------------
(* Types.                                                                  *)

(* The record of a process that waits for a report is well typed. *)
LEMMA IdleType == Idle \in Process /\ Idle.stage = "idle"
<1>1. (CHOOSE e \in Types : TRUE) \in Types
  BY PipelineAssumption
<1>2. (CHOOSE s \in Scopes : TRUE) \in Scopes
  BY PipelineAssumption
<1>3. 0 \in 0..MaxReports
  BY PipelineAssumption
<1> QED BY <1>1, <1>2, <1>3 DEF Idle, Process, Stages

(* A process that moves to another stage keeps its type. *)
LEMMA StageType ==
    ASSUME NEW r \in Process, NEW s \in Stages
    PROVE  /\ [r EXCEPT !.stage = s] \in Process
           /\ [r EXCEPT !.stage = s].stage = s
           /\ [r EXCEPT !.stage = s].report = r.report
           /\ [r EXCEPT !.stage = s].row = r.row
           /\ [r EXCEPT !.stage = s].at = r.at
           /\ [r EXCEPT !.stage = s].type = r.type
           /\ [r EXCEPT !.stage = s].scope = r.scope
  BY DEF Process

(* The part of TypeOK about processes, which most actions change alone. *)
ProcsOK ==
    /\ proc \in [Procs -> Process]
    /\ \A p \in Procs : proc[p].stage # "idle" => proc[p].report \in Reports
    /\ \A p \in Procs : proc[p].stage = "closing" =>
                            proc[p].row \in DOMAIN rows

(* One process moves, no row disappears: the processes stay well typed. *)
LEMMA ProcMoves ==
    ASSUME ProcsOK, NEW p \in Procs, NEW r \in Process,
           proc' = [proc EXCEPT ![p] = r],
           DOMAIN rows \subseteq DOMAIN rows',
           r.stage # "idle" => r.report \in Reports,
           r.stage = "closing" => r.row \in DOMAIN rows'
    PROVE  ProcsOK'
<1>1. /\ proc' \in [Procs -> Process]
      /\ proc'[p] = r
      /\ \A q \in Procs : q # p => proc'[q] = proc[q]
  BY DEF ProcsOK
<1>2. ASSUME NEW q \in Procs
      PROVE  /\ proc'[q].stage # "idle" => proc'[q].report \in Reports
             /\ proc'[q].stage = "closing" => proc'[q].row \in DOMAIN rows'
  <2>1. CASE q = p
    BY <1>1, <2>1
  <2>2. CASE q # p
    BY <1>1, <2>2 DEF ProcsOK
  <2> QED BY <2>1, <2>2
<1>3. Reports' = Reports
  BY DEF Reports
<1> QED BY <1>1, <1>2, <1>3 DEF ProcsOK

(* One process moves to another stage, other than idle and closing. *)
LEMMA ProcChangesStage ==
    ASSUME ProcsOK, NEW p \in Procs, NEW s \in Stages \ {"idle", "closing"},
           proc[p].stage # "idle",
           proc' = [proc EXCEPT ![p].stage = s],
           DOMAIN rows \subseteq DOMAIN rows'
    PROVE  ProcsOK'
<1> DEFINE r == [proc[p] EXCEPT !.stage = s]
<1>1. proc[p] \in Process
  BY DEF ProcsOK
<1>2. r \in Process /\ r.stage = s /\ r.report = proc[p].report
  BY <1>1, StageType
<1>3. proc' = [proc EXCEPT ![p] = r]
  OBVIOUS
<1>4. r.report \in Reports
  BY <1>2 DEF ProcsOK
<1> HIDE DEF r
<1> QED BY <1>2, <1>3, <1>4, ProcMoves

(* One process becomes idle. *)
LEMMA ProcBecomesIdle ==
    ASSUME ProcsOK, NEW p \in Procs,
           proc' = [proc EXCEPT ![p] = Idle],
           DOMAIN rows \subseteq DOMAIN rows'
    PROVE  ProcsOK'
  BY IdleType, ProcMoves

(* A report is received. *)
LEMMA ProcReceives ==
    ASSUME ProcsOK, NEW p \in Procs, NEW e \in Types, NEW sc \in Scopes,
           NEW s \in {"received", "closed"},
           now \in Nat, reports \in 0..MaxReports, reports < MaxReports,
           proc' = [proc EXCEPT ![p] =
                      [stage |-> s, type |-> e, scope |-> sc, at |-> now,
                       report |-> reports + 1, row |-> 0]],
           DOMAIN rows \subseteq DOMAIN rows'
    PROVE  ProcsOK'
<1> DEFINE r == [stage |-> s, type |-> e, scope |-> sc, at |-> now,
                 report |-> reports + 1, row |-> 0]
<1>1. reports + 1 \in 0..MaxReports /\ reports + 1 \in Reports
  BY PipelineAssumption DEF Reports
<1>2. r \in Process
  BY <1>1 DEF Process, Stages
<1>3. /\ r.report \in Reports /\ r.stage # "closing"
      /\ proc' = [proc EXCEPT ![p] = r]
  BY <1>1
<1> HIDE DEF r
<1> QED BY <1>2, <1>3, ProcMoves

(* A row a process stores is well typed. *)
LEMMA NewRowType ==
    ASSUME ProcsOK, NEW p \in Procs, proc[p].stage # "idle"
    PROVE  NewRow(p) \in Row
  BY DEF ProcsOK, NewRow, Row, Process

(* Storing a row keeps the table well typed and its rows in place. *)
LEMMA RowAppended ==
    ASSUME rows \in Seq(Row), NEW r \in Row, rows' = Append(rows, r)
    PROVE  /\ rows' \in Seq(Row)
           /\ DOMAIN rows \subseteq DOMAIN rows'
           /\ DOMAIN rows' = 1..(Len(rows) + 1)
           /\ DOMAIN rows = 1..Len(rows)
           /\ \A i \in DOMAIN rows : rows'[i] = rows[i]
           /\ rows'[Len(rows) + 1] = r
  OBVIOUS

(* What identifies a row: the table changes in the ends of rows only. *)
OnlyEndsChange ==
    /\ DOMAIN rows' = DOMAIN rows
    /\ \A i \in DOMAIN rows :
          /\ rows'[i].type = rows[i].type /\ rows'[i].scope = rows[i].scope
          /\ rows'[i].begin = rows[i].begin /\ rows'[i].by = rows[i].by
          /\ rows'[i].report = rows[i].report

(* Setting the end of rows keeps the type of one of them. *)
LEMMA EndType ==
    ASSUME NEW r \in Row, NEW n \in Nat
    PROVE  /\ [r EXCEPT !.end = n] \in Row
           /\ [r EXCEPT !.end = n].type = r.type
           /\ [r EXCEPT !.end = n].scope = r.scope
           /\ [r EXCEPT !.end = n].begin = r.begin
           /\ [r EXCEPT !.end = n].by = r.by
           /\ [r EXCEPT !.end = n].report = r.report
  BY DEF Row

(* Ending one row. *)
LEMMA RowEnded ==
    ASSUME rows \in Seq(Row), NEW k \in DOMAIN rows, NEW n \in Nat,
           rows' = [rows EXCEPT ![k].end = n]
    PROVE  rows' \in Seq(Row) /\ OnlyEndsChange
<1>1. [rows[k] EXCEPT !.end = n] \in Row
  BY EndType
<1>2. rows' = [rows EXCEPT ![k] = [rows[k] EXCEPT !.end = n]]
  OBVIOUS
<1>3. rows' \in Seq(Row)
  BY <1>1, <1>2
<1>4. OnlyEndsChange
  <2>1. DOMAIN rows' = DOMAIN rows
    OBVIOUS
  <2>2. ASSUME NEW i \in DOMAIN rows
        PROVE  /\ rows'[i].type = rows[i].type /\ rows'[i].scope = rows[i].scope
               /\ rows'[i].begin = rows[i].begin /\ rows'[i].by = rows[i].by
               /\ rows'[i].report = rows[i].report
    <3>1. CASE i = k
      <4>1. rows[k] \in Row /\ rows'[i] = [rows[k] EXCEPT !.end = n]
        BY <3>1
      <4> QED BY <4>1, <3>1, EndType
    <3>2. CASE i # k
      BY <3>2
    <3> QED BY <3>1, <3>2
  <2> QED BY <2>1, <2>2 DEF OnlyEndsChange
<1> QED BY <1>3, <1>4

(* Ending the open rows of one name and scope. *)
LEMMA RowsEnded ==
    ASSUME rows \in Seq(Row), NEW n \in Nat, NEW I,
           rows' = [i \in DOMAIN rows |->
                      IF i \in I THEN [rows[i] EXCEPT !.end = n] ELSE rows[i]]
    PROVE  rows' \in Seq(Row) /\ OnlyEndsChange
<1>1. ASSUME NEW i \in DOMAIN rows
      PROVE  /\ rows'[i] \in Row
             /\ rows'[i].type = rows[i].type /\ rows'[i].scope = rows[i].scope
             /\ rows'[i].begin = rows[i].begin /\ rows'[i].by = rows[i].by
             /\ rows'[i].report = rows[i].report
  <2>1. rows[i] \in Row
    OBVIOUS
  <2>2. CASE i \in I
    BY <2>1, <2>2, EndType
  <2>3. CASE i \notin I
    BY <2>1, <2>3
  <2> QED BY <2>2, <2>3
<1>2. DOMAIN rows' = DOMAIN rows /\ DOMAIN rows = 1..Len(rows) /\ Len(rows) \in Nat
  OBVIOUS
<1>3. rows' \in [1..Len(rows) -> Row]
  BY <1>1, <1>2
<1>4. rows' \in Seq(Row)
  BY <1>2, <1>3, SeqDef
<1> QED BY <1>1, <1>2, <1>4 DEF OnlyEndsChange

(* TypeOK, taken apart. *)
LEMMA TypeParts ==
    TypeOK <=> /\ now \in Nat /\ rows \in Seq(Row)
               /\ lock \in Handlers \cup {NoOne} /\ ProcsOK
               /\ reports \in 0..MaxReports /\ told \in [Reports -> Nat]
               /\ cover \in [Reports -> Nat] /\ found \in [Reports -> Nat]
               /\ faults \in FaultCounts
  BY DEF TypeOK, ProcsOK

(* Another error or crash, within its bound, is well typed. *)
LEMMA FaultType ==
    ASSUME faults \in FaultCounts
    PROVE  /\ faults.errors < MaxErrors =>
                [faults EXCEPT !.errors = @ + 1] \in FaultCounts
           /\ faults.crashes < MaxCrashes =>
                [faults EXCEPT !.crashes = @ + 1] \in FaultCounts
<1>1. /\ faults.errors \in 0..MaxErrors /\ faults.crashes \in 0..MaxCrashes
      /\ faults = [errors |-> faults.errors, crashes |-> faults.crashes]
  BY DEF FaultCounts
<1>2. faults.errors < MaxErrors => faults.errors + 1 \in 0..MaxErrors
  BY <1>1, PipelineAssumption
<1>3. faults.crashes < MaxCrashes => faults.crashes + 1 \in 0..MaxCrashes
  BY <1>1, PipelineAssumption
<1>4. [faults EXCEPT !.errors = @ + 1]
         = [errors |-> faults.errors + 1, crashes |-> faults.crashes]
  BY <1>1
<1>5. [faults EXCEPT !.crashes = @ + 1]
         = [errors |-> faults.errors, crashes |-> faults.crashes + 1]
  BY <1>1
<1>6. faults.errors < MaxErrors =>
         [errors |-> faults.errors + 1, crashes |-> faults.crashes]
           \in FaultCounts
  BY <1>1, <1>2 DEF FaultCounts
<1>7. faults.crashes < MaxCrashes =>
         [errors |-> faults.errors, crashes |-> faults.crashes + 1]
           \in FaultCounts
  BY <1>1, <1>3 DEF FaultCounts
<1> QED BY <1>4, <1>5, <1>6, <1>7

(* Notifying once more is well typed. *)
LEMMA ToldType ==
    ASSUME told \in [Reports -> Nat], NEW p, TellAbout(p)
    PROVE  told' \in [Reports -> Nat]
<1> DEFINE r == proc[p].report
<1>1. told' = [told EXCEPT ![r] = @ + 1]
  BY DEF TellAbout
<1> HIDE DEF r
<1>2. r \in Reports => told[r] + 1 \in Nat
  OBVIOUS
<1> QED BY <1>1, <1>2

(* Every state is well typed: the parts of the code the properties below   *)
(* speak about, the table, the lock and each handler's progress, never     *)
(* leave the sets they are meant to be in.                                 *)
THEOREM TypeCorrect == Spec => []TypeOK
<1>1. Init => TypeOK
  BY PipelineAssumption, IdleType
     DEF Init, TypeOK, FaultCounts, Reports
<1>2. TypeOK /\ [Next]_vars => TypeOK'
  <2> SUFFICES ASSUME TypeOK, [Next]_vars PROVE TypeOK'
    OBVIOUS
  <2> DEFINE Rest == /\ now \in Nat /\ rows \in Seq(Row)
                     /\ lock \in Handlers \cup {NoOne}
                     /\ reports \in 0..MaxReports
                     /\ told \in [Reports -> Nat]
                     /\ cover \in [Reports -> Nat]
                     /\ found \in [Reports -> Nat]
                     /\ faults \in FaultCounts
  <2>0. ProcsOK /\ Rest
    BY TypeParts
  <2>1. ASSUME ProcsOK', Rest' PROVE TypeOK'
    BY <2>1, TypeParts, PTL
  <2>2. Reports' = Reports
    BY DEF Reports
  <2>3. ASSUME UNCHANGED <<proc, rows>> PROVE ProcsOK'
    BY <2>0, <2>2, <2>3 DEF ProcsOK
  <2>4. CASE Tick
    BY <2>0, <2>1, <2>2, <2>3, <2>4 DEF Tick
  <2>5. CASE ScenarioOver \/ UNCHANGED vars
    BY <2>0, <2>1, <2>2, <2>3, <2>5 DEF ScenarioOver, vars
  <2>6. CASE Crash
    <3>1. \A p \in Procs : proc'[p] \in {Idle, proc[p]}
      BY <2>6 DEF Crash
    <3>2. ProcsOK'
      <4>1. proc' \in [Procs -> Process]
        BY <2>0, <2>6, <3>1, IdleType DEF Crash, ProcsOK
      <4> QED BY <2>0, <2>2, <2>6, <3>1, <4>1, IdleType DEF Crash, ProcsOK
    <3>3. Rest'
      BY <2>0, <2>2, <2>6, FaultType DEF Crash
    <3> QED BY <2>1, <3>2, <3>3
  <2>7. ASSUME NEW p \in Handlers, NEW e \in Types, NEW s \in Scopes,
               Receive(p, e, s)
        PROVE  TypeOK'
    <3>1. ProcsOK'
      BY <2>0, <2>7, ProcReceives DEF Receive, Procs
    <3>2. Rest'
      BY <2>0, <2>2, <2>7, PipelineAssumption DEF Receive
    <3> QED BY <2>1, <3>1, <3>2
  <2>8. ASSUME NEW p \in Handlers, HandlerStep(p) \/ StoreFails(p) \/ CloseFails(p)
        PROVE  TypeOK'
    <3> USE DEF Stages
    <3>0. p \in Procs
      BY DEF Procs
    <3>1. CASE Suppress(p)
      <4>1. ProcsOK'
        BY <2>0, <3>0, <3>1, ProcBecomesIdle DEF Suppress
      <4>2. PICK i \in Newest(Duplicates(p)) :
              cover' = [cover EXCEPT ![proc[p].report] = i]
        BY <3>1 DEF Suppress
      <4>3. i \in Nat
        BY <2>0, <4>2 DEF Newest, Duplicates
      <4>4. Rest'
        BY <2>0, <2>2, <3>1, <4>2, <4>3 DEF Suppress
      <4> QED BY <2>1, <4>1, <4>4
    <3>2. CASE Check(p)
      <4>1. ProcsOK'
        BY <2>0, <3>0, <3>2, ProcChangesStage DEF Check
      <4>2. Rest'
        BY <2>0, <2>2, <3>2 DEF Check
      <4> QED BY <2>1, <4>1, <4>2
    <3>3. CASE Store(p)
      <4>1. proc[p].stage # "idle"
        BY <3>3 DEF Store
      <4>2. /\ rows' \in Seq(Row) /\ DOMAIN rows \subseteq DOMAIN rows'
        BY <2>0, <3>0, <3>3, <4>1, NewRowType, RowAppended DEF Store
      <4>3. ProcsOK'
        BY <2>0, <3>0, <3>3, <4>2, ProcChangesStage DEF Store
      <4>4. Rest'
        BY <2>0, <2>2, <3>3, <4>2 DEF Store
      <4> QED BY <2>1, <4>3, <4>4
    <3>4. CASE StoreFails(p) \/ CloseFails(p)
      <4>1. ProcsOK'
        BY <2>0, <3>0, <3>4, ProcChangesStage DEF StoreFails, CloseFails
      <4>2. Rest'
        BY <2>0, <2>2, <3>4, FaultType DEF StoreFails, CloseFails
      <4> QED BY <2>1, <4>1, <4>2
    <3>5. CASE Notify(p)
      <4>1. ProcsOK'
        <5>1. CASE proc[p].type = "ONLINE"
          <6>1. proc' = [proc EXCEPT ![p].stage = "told"]
            BY <3>5, <5>1 DEF Notify
          <6> QED BY <2>0, <3>0, <3>5, <6>1, ProcChangesStage DEF Notify
        <5>2. CASE proc[p].type # "ONLINE"
          <6>1. proc' = [proc EXCEPT ![p] = Idle]
            BY <3>5, <5>2 DEF Notify
          <6> QED BY <2>0, <3>0, <3>5, <6>1, ProcBecomesIdle DEF Notify
        <5> QED BY <5>1, <5>2
      <4>2. Rest'
        BY <2>0, <2>2, <3>5, ToldType DEF Notify
      <4> QED BY <2>1, <4>1, <4>2
    <3>6. CASE FindOutage(p)
      <4>1. PICK i \in Newest(OpenOutages(proc[p].scope)) :
              proc' = [proc EXCEPT ![p].stage = "closing", ![p].row = i]
        BY <3>6 DEF FindOutage
      <4>2. i \in DOMAIN rows /\ i \in Nat
        BY <2>0, <4>1 DEF Newest, OpenOutages
      <4> DEFINE r == [proc[p] EXCEPT !.stage = "closing", !.row = i]
      <4>3. proc[p] \in Process /\ proc[p].report \in Reports
        BY <2>0, <3>0, <3>6 DEF ProcsOK, FindOutage
      <4>4. r \in Process /\ r.report \in Reports /\ r.row = i
        BY <4>2, <4>3 DEF Process
      <4>5. proc' = [proc EXCEPT ![p] = r]
        BY <2>0, <3>0, <4>1 DEF ProcsOK
      <4>6. UNCHANGED rows
        BY <3>6 DEF FindOutage
      <4> HIDE DEF r
      <4>7. ProcsOK'
        BY <2>0, <3>0, <4>2, <4>4, <4>5, <4>6, ProcMoves
      <4>8. Rest'
        BY <2>0, <2>2, <3>6 DEF FindOutage
      <4> QED BY <2>1, <4>7, <4>8
    <3>7. CASE NoOutage(p)
      <4>1. ProcsOK'
        BY <2>0, <3>0, <3>7, ProcBecomesIdle DEF NoOutage
      <4>2. Rest'
        BY <2>0, <2>2, <3>7 DEF NoOutage
      <4> QED BY <2>1, <4>1, <4>2
    <3>8. CASE CloseOutage(p)
      <4>1. proc[p].row \in DOMAIN rows /\ proc[p].at \in Nat
        BY <2>0, <3>0, <3>8 DEF CloseOutage, ProcsOK, Process
      <4>2. rows' \in Seq(Row) /\ OnlyEndsChange
        BY <2>0, <3>8, <4>1, RowEnded DEF CloseOutage
      <4>3. ProcsOK'
        BY <2>0, <3>0, <3>8, <4>2, ProcBecomesIdle
           DEF CloseOutage, OnlyEndsChange
      <4>4. Rest'
        BY <2>0, <2>2, <3>8, <4>2 DEF CloseOutage
      <4> QED BY <2>1, <4>3, <4>4
    <3>9. CASE Fallback(p)
      <4>1. ProcsOK'
        BY <2>0, <3>0, <3>9, ProcBecomesIdle DEF Fallback
      <4>2. Rest'
        BY <2>0, <2>2, <3>9, ToldType DEF Fallback
      <4> QED BY <2>1, <4>1, <4>2
    <3> QED BY <2>8, <3>1, <3>2, <3>3, <3>4, <3>5, <3>6, <3>7, <3>8, <3>9
            DEF HandlerStep
  <2>9. ASSUME NEW p \in Notifiers, NEW e \in Types, NEW s \in Scopes,
               NotifierClose(p, e, s)
        PROVE  TypeOK'
    <3> DEFINE I == {i \in DOMAIN rows :
                       /\ rows[i].scope = s /\ rows[i].end = NoEnd
                       /\ NameOf[rows[i].by] = NameOf[p]}
    <3>1. rows' = [i \in DOMAIN rows |-> IF i \in I
                     THEN [rows[i] EXCEPT !.end = now] ELSE rows[i]]
      BY <2>9 DEF NotifierClose
    <3> HIDE DEF I
    <3>2. rows' \in Seq(Row) /\ OnlyEndsChange
      BY <2>0, <3>1, RowsEnded
    <3>3. ProcsOK'
      BY <2>0, <2>9, <3>2, ProcReceives
         DEF NotifierClose, Procs, OnlyEndsChange
    <3>4. found' \in [Reports -> Nat]
      <4>1. Len(rows) \in Nat /\ found' = [found EXCEPT ![reports'] = Len(rows)]
        BY <2>0, <2>9 DEF NotifierClose
      <4> QED BY <2>0, <4>1
    <3>5. Rest'
      BY <2>0, <2>2, <2>9, <3>2, <3>4, PipelineAssumption DEF NotifierClose
    <3> QED BY <2>1, <3>3, <3>5
  <2>11. ASSUME NEW p \in Notifiers, NEW e \in Types, NEW s \in Scopes,
                NotifierCloseFails(p, e, s)
         PROVE  TypeOK'
    <3>1. ProcsOK'
      BY <2>0, <2>11, ProcReceives DEF NotifierCloseFails, Procs
    <3>2. Rest'
      BY <2>0, <2>2, <2>11, FaultType, PipelineAssumption
         DEF NotifierCloseFails
    <3> QED BY <2>1, <3>1, <3>2
  <2>10. ASSUME NEW p \in Notifiers, NotifierStep(p) \/ NotifierStoreFails(p)
         PROVE  TypeOK'
    <3> USE DEF Stages
    <3>0. p \in Procs
      BY DEF Procs
    <3>1. CASE NotifierStore(p)
      <4>1. proc[p].stage # "idle"
        BY <3>1 DEF NotifierStore
      <4>2. /\ rows' \in Seq(Row) /\ DOMAIN rows \subseteq DOMAIN rows'
        BY <2>0, <3>0, <3>1, <4>1, NewRowType, RowAppended DEF NotifierStore
      <4>3. ProcsOK'
        BY <2>0, <3>0, <3>1, <4>2, ProcChangesStage DEF NotifierStore
      <4>4. Rest'
        BY <2>0, <2>2, <3>1, <4>2 DEF NotifierStore
      <4> QED BY <2>1, <4>3, <4>4
    <3>2. CASE NotifierStoreFails(p)
      <4>1. ProcsOK'
        BY <2>0, <3>0, <3>2, ProcBecomesIdle DEF NotifierStoreFails
      <4>2. Rest'
        BY <2>0, <2>2, <3>2, FaultType DEF NotifierStoreFails
      <4> QED BY <2>1, <4>1, <4>2
    <3>3. CASE NotifierNotify(p)
      <4>1. ProcsOK'
        BY <2>0, <3>0, <3>3, ProcBecomesIdle DEF NotifierNotify
      <4>2. Rest'
        BY <2>0, <2>2, <3>3, ToldType DEF NotifierNotify
      <4> QED BY <2>1, <4>1, <4>2
    <3> QED BY <2>10, <3>1, <3>2, <3>3 DEF NotifierStep
  <2> QED BY <2>4, <2>5, <2>6, <2>7, <2>8, <2>9, <2>10, <2>11
          DEF Next
<1> QED BY <1>1, <1>2, PTL DEF Spec

-----------------------------------------------------------------------------
(* Duplicates.                                                             *)

(* A step that stores no row and lets no handler pass its check keeps what *)
(* the handlers know fresh, and the rows apart.                            *)
LEMMA NothingStored ==
    ASSUME CheckedStaysFresh, DedupeSpacing, OnlyEndsChange,
           \A q \in Handlers : proc'[q].stage = "checked" =>
              /\ proc[q].stage = "checked" /\ proc'[q].type = proc[q].type
              /\ proc'[q].scope = proc[q].scope /\ proc'[q].at = proc[q].at
    PROVE  CheckedStaysFresh' /\ DedupeSpacing'
<1>1. CheckedStaysFresh'
  BY DEF CheckedStaysFresh, OnlyEndsChange
<1>2. DedupeSpacing'
  BY DEF DedupeSpacing, OnlyEndsChange
<1> QED BY <1>1, <1>2

(* A row stored by a handler that had checked is far from all before it,   *)
(* and no other handler is between its check and its insert.               *)
LEMMA HandlerStores ==
    ASSUME TypeOK, PipelineInv, NEW p \in Handlers, Store(p)
    PROVE  PipelineInv'
<1> DEFINE n == Len(rows) + 1
<1>1. /\ proc[p].stage = "checked" /\ rows' = Append(rows, NewRow(p))
      /\ lock' = NoOne /\ proc' = [proc EXCEPT ![p].stage = "stored"]
  BY DEF Store
<1>2. ProcsOK /\ rows \in Seq(Row) /\ p \in Procs
  BY TypeParts DEF Procs
<1>3. NewRow(p) \in Row
  BY <1>1, <1>2, NewRowType
<1>4. /\ DOMAIN rows' = 1..n /\ DOMAIN rows = 1..Len(rows)
      /\ \A i \in DOMAIN rows : rows'[i] = rows[i]
      /\ rows'[n] = NewRow(p) /\ Len(rows) \in Nat
  BY <1>1, <1>2, <1>3, RowAppended
<1>5. \A q \in Handlers : q # p =>
         /\ proc'[q] = proc[q]
         /\ proc[q].stage \notin {"checked", "closing"}
  BY <1>1, <1>2 DEF PipelineInv, LockDiscipline, ProcsOK
<1>6. proc'[p].stage = "stored"
  BY <1>1, <1>2, StageType DEF ProcsOK, Stages
<1>7. LockDiscipline'
  BY <1>1, <1>5, <1>6, PipelineAssumption DEF LockDiscipline, Procs
<1>8. CheckedStaysFresh'
  BY <1>5, <1>6 DEF CheckedStaysFresh
<1>9. DedupeSpacing'
  <2> SUFFICES ASSUME NEW i \in DOMAIN rows', NEW j \in DOMAIN rows',
                      i < j, rows'[i].by \in Handlers,
                      rows'[j].by \in Handlers,
                      rows'[i].type = rows'[j].type,
                      rows'[i].scope = rows'[j].scope
               PROVE  rows'[i].begin + Window < rows'[j].begin
    BY DEF DedupeSpacing
  <2>1. CASE j \in DOMAIN rows
    BY <1>4, <2>1 DEF PipelineInv, DedupeSpacing
  <2>2. CASE j \notin DOMAIN rows
    <3>1. j = n /\ i \in DOMAIN rows
      BY <1>4, <2>2
    <3>2. /\ rows'[i] = rows[i] /\ rows'[j].type = proc[p].type
          /\ rows'[j].scope = proc[p].scope /\ rows'[j].begin = proc[p].at
      BY <1>4, <3>1 DEF NewRow
    <3> QED BY <1>1, <3>1, <3>2 DEF PipelineInv, CheckedStaysFresh
  <2> QED BY <2>1, <2>2
<1> QED BY <1>7, <1>8, <1>9 DEF PipelineInv

(* A row stored by a notifier is no duplicate of a handler's.              *)
LEMMA NotifierStores ==
    ASSUME TypeOK, PipelineInv, NEW p \in Notifiers, NotifierStore(p)
    PROVE  PipelineInv'
<1> DEFINE n == Len(rows) + 1
<1>1. /\ proc[p].stage = "closed" /\ rows' = Append(rows, NewRow(p))
      /\ lock' = lock /\ proc' = [proc EXCEPT ![p].stage = "inserted"]
  BY DEF NotifierStore
<1>2. ProcsOK /\ rows \in Seq(Row) /\ p \in Procs /\ p \notin Handlers
  BY TypeParts, PipelineAssumption DEF Procs
<1>3. NewRow(p) \in Row
  BY <1>1, <1>2, NewRowType
<1>4. /\ DOMAIN rows' = 1..n /\ DOMAIN rows = 1..Len(rows)
      /\ \A i \in DOMAIN rows : rows'[i] = rows[i]
      /\ rows'[n].by = p /\ Len(rows) \in Nat
  BY <1>1, <1>2, <1>3, RowAppended DEF NewRow
<1>5. \A q \in Handlers : proc'[q] = proc[q]
  BY <1>1, <1>2 DEF ProcsOK, Procs
<1>6. LockDiscipline'
  BY <1>1, <1>5 DEF PipelineInv, LockDiscipline
<1>7. CheckedStaysFresh'
  BY <1>2, <1>4, <1>5 DEF PipelineInv, CheckedStaysFresh
<1>8. DedupeSpacing'
  BY <1>2, <1>4 DEF PipelineInv, DedupeSpacing
<1> QED BY <1>6, <1>7, <1>8 DEF PipelineInv

(* Handlers store no duplicate: whatever the interleaving of the polling   *)
(* thread, of requests and of notifiers, whoever fails and whenever the    *)
(* application restarts, the lock protects what a handler found out until  *)
(* its row is stored, and two rows handlers stored for one type and scope  *)
(* are more than Window apart.                                             *)
THEOREM NoDuplicates == Spec => []PipelineInv
<1>1. Init => PipelineInv
  BY PipelineAssumption, IdleType
     DEF Init, PipelineInv, LockDiscipline, CheckedStaysFresh, DedupeSpacing,
         Procs
<1>2. TypeOK /\ PipelineInv /\ [Next]_vars => PipelineInv'
  <2> SUFFICES ASSUME TypeOK, PipelineInv, [Next]_vars PROVE PipelineInv'
    OBVIOUS
  <2>0. ProcsOK /\ rows \in Seq(Row) /\ NoOne \notin Handlers
    BY TypeParts, PipelineAssumption DEF Procs
  <2>1. ASSUME rows' = rows PROVE OnlyEndsChange
    BY <2>1 DEF OnlyEndsChange
  <2>2. ASSUME OnlyEndsChange, UNCHANGED lock,
               \A q \in Handlers :
                  \/ proc'[q] = proc[q]
                  \/ /\ proc[q].stage \notin {"checked", "closing"}
                     /\ proc'[q].stage \notin {"checked", "closing"}
        PROVE  PipelineInv'
    <3>1. CheckedStaysFresh' /\ DedupeSpacing'
      BY <2>2, NothingStored DEF PipelineInv
    <3>2. LockDiscipline'
      BY <2>2 DEF PipelineInv, LockDiscipline
    <3> QED BY <3>1, <3>2 DEF PipelineInv
  <2>3. ASSUME NEW p \in Handlers, OnlyEndsChange,
               proc[p].stage \in {"checked", "closing"},
               proc'[p].stage \notin {"checked", "closing"}, lock' = NoOne,
               \A q \in Handlers \ {p} : proc'[q] = proc[q]
        PROVE  PipelineInv'
    <3>1. CheckedStaysFresh' /\ DedupeSpacing'
      BY <2>3, NothingStored DEF PipelineInv
    <3>2. \A q \in Handlers \ {p} : proc[q].stage \notin {"checked", "closing"}
      BY <2>3 DEF PipelineInv, LockDiscipline
    <3>3. LockDiscipline'
      BY <2>0, <2>3, <3>2 DEF LockDiscipline
    <3> QED BY <3>1, <3>3 DEF PipelineInv
  <2>4. CASE Tick \/ ScenarioOver \/ UNCHANGED vars
    BY <2>1, <2>2, <2>4 DEF Tick, ScenarioOver, vars
  <2>5. CASE Crash
    <3>1. \A q \in Handlers : proc'[q].stage = "idle"
      BY <2>5, IdleType DEF Crash, Procs
    <3>2. CheckedStaysFresh' /\ DedupeSpacing'
      BY <2>1, <2>5, <3>1, NothingStored DEF Crash, PipelineInv
    <3>3. LockDiscipline'
      BY <2>0, <2>5, <3>1 DEF Crash, LockDiscipline
    <3> QED BY <3>2, <3>3 DEF PipelineInv
  <2>6. ASSUME NEW p \in Handlers, NEW e \in Types, NEW s \in Scopes,
               Receive(p, e, s)
        PROVE  PipelineInv'
    <3>1. /\ proc'[p].stage = "received" /\ proc[p].stage = "idle"
          /\ \A q \in Handlers \ {p} : proc'[q] = proc[q]
      BY <2>0, <2>6 DEF Receive, ProcsOK, Procs
    <3> QED BY <2>1, <2>2, <2>6, <3>1 DEF Receive
  <2>7. ASSUME NEW p \in Handlers, HandlerStep(p) \/ StoreFails(p) \/ CloseFails(p)
        PROVE  PipelineInv'
    <3> USE DEF Stages
    <3>0. /\ p \in Procs /\ proc[p] \in Process
          /\ \A r : proc' = [proc EXCEPT ![p] = r] =>
                /\ proc'[p] = r
                /\ \A q \in Handlers \ {p} : proc'[q] = proc[q]
          /\ \A st \in Stages : proc' = [proc EXCEPT ![p].stage = st] =>
                /\ proc'[p] = [proc[p] EXCEPT !.stage = st]
                /\ proc'[p].stage = st
                /\ \A q \in Handlers \ {p} : proc'[q] = proc[q]
      <4>1. /\ p \in Procs /\ proc[p] \in Process
            /\ proc \in [Procs -> Process] /\ Handlers \subseteq Procs
        BY <2>0 DEF ProcsOK, Procs
      <4>2. ASSUME NEW r, proc' = [proc EXCEPT ![p] = r]
            PROVE  /\ proc'[p] = r
                   /\ \A q \in Handlers \ {p} : proc'[q] = proc[q]
        BY <4>1, <4>2
      <4>3. ASSUME NEW st \in Stages, proc' = [proc EXCEPT ![p].stage = st]
            PROVE  /\ proc'[p] = [proc[p] EXCEPT !.stage = st]
                   /\ proc'[p].stage = st
                   /\ \A q \in Handlers \ {p} : proc'[q] = proc[q]
        <5>1. /\ proc'[p] = [proc[p] EXCEPT !.stage = st]
              /\ \A q \in Handlers \ {p} : proc'[q] = proc[q]
          BY <4>1, <4>3
        <5> QED BY <4>1, <5>1, StageType
      <4> QED BY <4>1, <4>2, <4>3
    <3>1. CASE Suppress(p) \/ NoOutage(p) \/ Fallback(p)
      <4>1. /\ proc' = [proc EXCEPT ![p] = Idle] /\ UNCHANGED <<rows, lock>>
            /\ proc[p].stage \in {"received", "told", "failed"}
        BY <3>1 DEF Suppress, NoOutage, Fallback
      <4>2. /\ proc'[p].stage = "idle"
            /\ \A q \in Handlers \ {p} : proc'[q] = proc[q]
        BY <3>0, <4>1, IdleType
      <4> QED BY <2>1, <2>2, <4>1, <4>2
    <3>2. CASE Check(p)
      <4>1. /\ proc[p].stage = "received" /\ lock = NoOne
            /\ Duplicates(p) = {} /\ lock' = p /\ rows' = rows
            /\ proc' = [proc EXCEPT ![p].stage = "checked"]
        BY <3>2 DEF Check
      <4>2. /\ \A q \in Handlers \ {p} :
                  /\ proc'[q] = proc[q]
                  /\ proc[q].stage \notin {"checked", "closing"}
            /\ proc'[p] = [proc[p] EXCEPT !.stage = "checked"]
        BY <2>0, <3>0, <4>1 DEF PipelineInv, LockDiscipline
      <4>3. /\ proc'[p].stage = "checked" /\ proc'[p].type = proc[p].type
            /\ proc'[p].scope = proc[p].scope /\ proc'[p].at = proc[p].at
        BY <3>0, <4>2, StageType
      <4>4. LockDiscipline'
        BY <4>1, <4>2, <4>3 DEF LockDiscipline
      <4>5. \A i \in DOMAIN rows :
               rows[i].type = proc[p].type /\ rows[i].scope = proc[p].scope
               => rows[i].begin + Window < proc[p].at
        <5> SUFFICES ASSUME NEW i \in DOMAIN rows,
                            rows[i].type = proc[p].type,
                            rows[i].scope = proc[p].scope
                     PROVE  rows[i].begin + Window < proc[p].at
          OBVIOUS
        <5>1. ~(rows[i].begin + Window >= proc[p].at)
          BY <4>1 DEF Duplicates
        <5>2. rows[i] \in Row
          BY <2>0
        <5>3. rows[i].begin \in Nat /\ proc[p].at \in Nat
          BY <3>0, <5>2 DEF Row, Process
        <5> QED BY <5>1, <5>3, PipelineAssumption
      <4>6. CheckedStaysFresh'
        BY <4>1, <4>2, <4>3, <4>5 DEF CheckedStaysFresh
      <4>7. DedupeSpacing'
        BY <4>1 DEF PipelineInv, DedupeSpacing
      <4> QED BY <4>4, <4>6, <4>7 DEF PipelineInv
    <3>3. CASE Store(p)
      BY <3>3, HandlerStores
    <3>4. CASE StoreFails(p) \/ CloseFails(p)
      <4>1. /\ proc'[p].stage = "failed" /\ rows' = rows
            /\ \A q \in Handlers \ {p} : proc'[q] = proc[q]
            /\ \/ /\ proc[p].stage \in {"received", "told"}
                  /\ lock' = lock
               \/ proc[p].stage \in {"checked", "closing"} /\ lock' = NoOne
        BY <3>0, <3>4 DEF StoreFails, CloseFails
      <4> QED BY <2>1, <2>2, <2>3, <4>1
    <3>5. CASE Notify(p)
      <4>1. /\ proc[p].stage = "stored" /\ UNCHANGED <<rows, lock>>
            /\ \/ proc' = [proc EXCEPT ![p].stage = "told"]
               \/ proc' = [proc EXCEPT ![p] = Idle]
        BY <3>5 DEF Notify
      <4>2. /\ proc'[p].stage \in {"told", "idle"}
            /\ \A q \in Handlers \ {p} : proc'[q] = proc[q]
        BY <3>0, <4>1, IdleType
      <4> QED BY <2>1, <2>2, <4>1, <4>2
    <3>6. CASE FindOutage(p)
      <4>1. PICK i : proc' = [proc EXCEPT ![p].stage = "closing", ![p].row = i]
        BY <3>6 DEF FindOutage
      <4>2. /\ proc[p].stage = "told" /\ lock = NoOne /\ lock' = p
            /\ rows' = rows
        BY <3>6 DEF FindOutage
      <4>3. /\ proc'[p].stage = "closing"
            /\ \A q \in Handlers \ {p} : proc'[q] = proc[q]
        BY <2>0, <3>0, <4>1 DEF ProcsOK, Process, Procs
      <4>4. CheckedStaysFresh' /\ DedupeSpacing'
        BY <2>1, <4>2, <4>3, NothingStored DEF PipelineInv
      <4>5. LockDiscipline'
        BY <2>0, <4>2, <4>3 DEF PipelineInv, LockDiscipline
      <4> QED BY <4>4, <4>5 DEF PipelineInv
    <3>7. CASE CloseOutage(p)
      <4>1. /\ proc[p].stage = "closing" /\ lock' = NoOne
            /\ proc'[p].stage = "idle"
            /\ \A q \in Handlers \ {p} : proc'[q] = proc[q]
        BY <3>0, <3>7, IdleType DEF CloseOutage
      <4>2. proc[p].row \in DOMAIN rows /\ proc[p].at \in Nat
        BY <2>0, <3>0, <4>1 DEF ProcsOK, Process
      <4>3. OnlyEndsChange
        BY <2>0, <3>7, <4>2, RowEnded DEF CloseOutage
      <4> QED BY <2>3, <4>1, <4>3
    <3> QED BY <2>7, <3>1, <3>2, <3>3, <3>4, <3>5, <3>6, <3>7 DEF HandlerStep
  <2>8. ASSUME NEW p \in Notifiers, NEW e \in Types, NEW s \in Scopes,
               NotifierClose(p, e, s)
        PROVE  PipelineInv'
    <3> DEFINE I == {i \in DOMAIN rows :
                       /\ rows[i].scope = s /\ rows[i].end = NoEnd
                       /\ NameOf[rows[i].by] = NameOf[p]}
    <3>1. rows' = [i \in DOMAIN rows |-> IF i \in I
                     THEN [rows[i] EXCEPT !.end = now] ELSE rows[i]]
      BY <2>8 DEF NotifierClose
    <3> HIDE DEF I
    <3>2. now \in Nat
      BY TypeParts
    <3>3. OnlyEndsChange
      BY <2>0, <3>1, <3>2, RowsEnded
    <3>4. \A q \in Handlers : proc'[q] = proc[q]
      BY <2>0, <2>8, PipelineAssumption DEF NotifierClose, ProcsOK, Procs
    <3> QED BY <2>2, <2>8, <3>3, <3>4 DEF NotifierClose
  <2>10. ASSUME NEW p \in Notifiers, NEW e \in Types, NEW s \in Scopes,
                NotifierCloseFails(p, e, s)
         PROVE  PipelineInv'
    <3>1. rows' = rows /\ lock' = lock
      BY <2>10 DEF NotifierCloseFails
    <3>2. \A q \in Handlers : proc'[q] = proc[q]
      BY <2>0, <2>10, PipelineAssumption
         DEF NotifierCloseFails, ProcsOK, Procs
    <3> QED BY <2>1, <2>2, <3>1, <3>2
  <2>9. ASSUME NEW p \in Notifiers, NotifierStep(p) \/ NotifierStoreFails(p)
        PROVE  PipelineInv'
    <3>1. CASE NotifierStore(p)
      BY <3>1, NotifierStores
    <3>2. CASE NotifierNotify(p) \/ NotifierStoreFails(p)
      <4>1. /\ proc' = [proc EXCEPT ![p] = Idle] /\ UNCHANGED <<rows, lock>>
        BY <3>2 DEF NotifierNotify, NotifierStoreFails
      <4>2. \A q \in Handlers : proc'[q] = proc[q]
        BY <2>0, <4>1, PipelineAssumption DEF ProcsOK, Procs
      <4> QED BY <2>1, <2>2, <4>1, <4>2
    <3> QED BY <2>9, <3>1, <3>2 DEF NotifierStep
  <2> QED BY <2>4, <2>5, <2>6, <2>7, <2>8, <2>9, <2>10 DEF Next
<1> QED BY <1>1, <1>2, TypeCorrect, PTL DEF Spec

-----------------------------------------------------------------------------
(* The ends of outages.                                                    *)

(* The outage a handler is about to end has no end yet.                    *)
FoundIsOpen ==
    \A p \in Handlers : proc[p].stage = "closing" =>
                            rows[proc[p].row].end = NoEnd

(* A step that changes no row that is closing, and lets no handler find a  *)
(* row, keeps what the handlers found open.                                *)
LEMMA FoundStaysOpen ==
    ASSUME TypeOK, FoundIsOpen,
           \A q \in Handlers :
              \/ proc'[q] = proc[q]
              \/ proc'[q].stage # "closing",
           \A i \in DOMAIN rows : rows'[i] = rows[i]
    PROVE  FoundIsOpen'
<1>1. ASSUME NEW q \in Handlers, proc'[q].stage = "closing"
      PROVE  rows'[proc'[q].row].end = NoEnd
  <2>1. proc'[q] = proc[q] /\ q \in Procs
    BY <1>1 DEF Procs
  <2>2. proc[q].row \in DOMAIN rows
    BY <1>1, <2>1, TypeParts DEF ProcsOK
  <2> QED BY <1>1, <2>1, <2>2 DEF FoundIsOpen
<1> QED BY <1>1 DEF FoundIsOpen

(* Without a notifier, a handler that holds the lock is the only one that  *)
(* may end a row, so the row it found stays open until it ends it.         *)
LEMMA FoundIsOpenStep ==
    ASSUME Notifiers = {}, TypeOK, PipelineInv, FoundIsOpen, [Next]_vars
    PROVE  FoundIsOpen'
<1>0. /\ ProcsOK /\ rows \in Seq(Row) /\ proc \in [Procs -> Process]
      /\ Handlers \subseteq Procs
  BY TypeParts DEF ProcsOK, Procs
<1>1. CASE Tick \/ ScenarioOver \/ UNCHANGED vars
  BY <1>1, FoundStaysOpen DEF Tick, ScenarioOver, vars
<1>2. CASE Crash
  <2>1. \A q \in Handlers : proc'[q].stage = "idle"
    BY <1>0, <1>2, IdleType DEF Crash
  <2> QED BY <2>1 DEF FoundIsOpen
<1>3. ASSUME NEW p \in Handlers, NEW e \in Types, NEW s \in Scopes,
             Receive(p, e, s)
      PROVE  FoundIsOpen'
  <2>1. /\ proc'[p].stage = "received" /\ rows' = rows
        /\ \A q \in Handlers \ {p} : proc'[q] = proc[q]
    BY <1>0, <1>3 DEF Receive
  <2> QED BY <2>1, FoundStaysOpen
<1>4. ASSUME NEW p \in Handlers, HandlerStep(p) \/ StoreFails(p) \/ CloseFails(p)
      PROVE  FoundIsOpen'
  <2> USE DEF Stages
  <2>0. /\ p \in Procs /\ proc[p] \in Process
    BY <1>0
  <2>1. ASSUME NEW r, proc' = [proc EXCEPT ![p] = r]
        PROVE  proc'[p] = r /\ \A q \in Handlers \ {p} : proc'[q] = proc[q]
    BY <1>0, <2>0, <2>1
  <2>2. ASSUME NEW st \in Stages, proc' = [proc EXCEPT ![p].stage = st]
        PROVE  /\ proc'[p].stage = st
               /\ \A q \in Handlers \ {p} : proc'[q] = proc[q]
    <3>1. /\ proc'[p] = [proc[p] EXCEPT !.stage = st]
          /\ \A q \in Handlers \ {p} : proc'[q] = proc[q]
      BY <1>0, <2>0, <2>2
    <3> QED BY <2>0, <3>1, StageType
  <2>3. CASE \/ Suppress(p) \/ NoOutage(p) \/ Fallback(p) \/ Notify(p)
             \/ Check(p) \/ StoreFails(p) \/ CloseFails(p)
    <3>1. /\ rows' = rows
          /\ \/ proc' = [proc EXCEPT ![p] = Idle]
             \/ \E st \in Stages \ {"closing"} :
                    proc' = [proc EXCEPT ![p].stage = st]
      BY <2>3 DEF Suppress, NoOutage, Fallback, Notify, Check, StoreFails,
                  CloseFails
    <3>2. /\ proc'[p].stage # "closing"
          /\ \A q \in Handlers \ {p} : proc'[q] = proc[q]
      BY <2>1, <2>2, <3>1, IdleType
    <3> QED BY <3>1, <3>2, FoundStaysOpen
  <2>4. CASE Store(p)
    <3>1. NewRow(p) \in Row
      BY <1>0, <2>0, <2>4, NewRowType DEF Store
    <3>2. \A i \in DOMAIN rows : rows'[i] = rows[i]
      BY <1>0, <2>4, <3>1, RowAppended DEF Store
    <3>3. /\ proc'[p].stage # "closing"
          /\ \A q \in Handlers \ {p} : proc'[q] = proc[q]
      BY <2>2, <2>4 DEF Store
    <3> QED BY <3>2, <3>3, FoundStaysOpen
  <2>5. CASE FindOutage(p)
    <3>1. PICK i \in Newest(OpenOutages(proc[p].scope)) :
            proc' = [proc EXCEPT ![p].stage = "closing", ![p].row = i]
      BY <2>5 DEF FindOutage
    <3>2. /\ proc'[p].row = i
          /\ \A q \in Handlers \ {p} : proc'[q] = proc[q]
      BY <1>0, <2>0, <3>1 DEF Process
    <3>3. rows' = rows /\ rows[i].end = NoEnd
      BY <2>5, <3>1 DEF FindOutage, Newest, OpenOutages
    <3> QED BY <3>2, <3>3 DEF FoundIsOpen
  <2>6. CASE CloseOutage(p)
    <3>1. /\ proc'[p].stage = "idle"
          /\ \A q \in Handlers \ {p} : proc'[q] = proc[q]
      BY <2>1, <2>6, IdleType DEF CloseOutage
    <3>2. \A q \in Handlers \ {p} : proc[q].stage # "closing"
      BY <2>6 DEF CloseOutage, PipelineInv, LockDiscipline
    <3> QED BY <3>1, <3>2 DEF FoundIsOpen
  <2> QED BY <1>4, <2>3, <2>4, <2>5, <2>6 DEF HandlerStep
<1> QED BY <1>1, <1>2, <1>3, <1>4 DEF Next

(* When no notifier writes the table, the end of a row is set once:        *)
(* handlers never move the end of an outage that is over, whatever the     *)
(* order of their locked sections, their failures and restarts.            *)
THEOREM EndsAreFinal ==
    ASSUME Notifiers = {}
    PROVE  Spec => EndsOnce
<1> DEFINE Once == \A i \in DOMAIN rows :
                      rows[i].end # NoEnd => rows'[i].end = rows[i].end
<1>1. Init => FoundIsOpen
  BY IdleType DEF Init, FoundIsOpen, Procs
<1>2. TypeOK /\ FoundIsOpen /\ [Next]_vars => [Once]_rows
  <2> SUFFICES ASSUME TypeOK, FoundIsOpen, [Next]_vars, rows' # rows
               PROVE  Once
    OBVIOUS
  <2>1. ProcsOK /\ rows \in Seq(Row)
    BY TypeParts
  <2>2. PICK p \in Handlers : Store(p) \/ CloseOutage(p)
    <3>1. ~(Tick \/ Crash \/ ScenarioOver \/ UNCHANGED vars)
      BY DEF Tick, Crash, ScenarioOver, vars
    <3>2. PICK p \in Handlers :
            \/ \E e \in Types, s \in Scopes : Receive(p, e, s)
            \/ HandlerStep(p) \/ StoreFails(p) \/ CloseFails(p)
      BY <3>1 DEF Next
    <3>3. Store(p) \/ CloseOutage(p)
      BY <3>2 DEF Receive, HandlerStep, StoreFails, CloseFails, Suppress,
                  Check, Notify, FindOutage, NoOutage, Fallback
    <3> QED BY <3>3
  <2>3. p \in Procs
    BY DEF Procs
  <2>4. CASE Store(p)
    <3>1. NewRow(p) \in Row
      BY <2>1, <2>3, <2>4, NewRowType DEF Store
    <3> QED BY <2>1, <2>4, <3>1, RowAppended DEF Store
  <2>5. CASE CloseOutage(p)
    <3> DEFINE k == proc[p].row
    <3>1. rows' = [rows EXCEPT ![k].end = proc[p].at] /\ rows[k].end = NoEnd
      BY <2>5 DEF CloseOutage, FoundIsOpen
    <3> HIDE DEF k
    <3>2. \A i \in DOMAIN rows : i # k => rows'[i] = rows[i]
      BY <3>1
    <3> QED BY <3>1, <3>2
  <2> QED BY <2>2, <2>4, <2>5
<1>3. TypeOK /\ PipelineInv /\ FoundIsOpen /\ [Next]_vars => FoundIsOpen'
  BY FoundIsOpenStep
<1>4. EndsOnce <=> [][Once]_rows
  BY DEF EndsOnce
<1> HIDE DEF Once
<1> QED BY <1>1, <1>2, <1>3, <1>4, TypeCorrect, NoDuplicates, PTL DEF Spec

-----------------------------------------------------------------------------
(* Accounts of the reports.                                                *)

(* What a report has come to.                                              *)
Unheard(r)  == cover[r] = 0 /\ r \notin StoredReports /\ told[r] = 0
InTable(r)  == cover[r] = 0 /\ r \in StoredReports    /\ told[r] = 0
Announced(r) == cover[r] = 0 /\ r \in StoredReports   /\ told[r] = 1
Dropped(r)  == cover[r] # 0 /\ r \notin StoredReports /\ told[r] = 0

(* What the report of a process at a stage has come to.                    *)
Matches(stage, r) ==
    /\ stage \in {"received", "checked", "closed"} => Unheard(r)
    /\ stage \in {"stored", "inserted"} => InTable(r)
    /\ stage \in {"told", "closing"} => Announced(r)
    /\ stage = "idle" => Announced(r) \/ Dropped(r)
    /\ stage # "failed"

Busy == {p \in Procs : proc[p].stage # "idle"}

NoFaults == faults.errors = 0 /\ faults.crashes = 0

(* Each report that was received is in the hands of one process, or dealt  *)
(* with; those to come have left no trace.                                 *)
AccountInv ==
    NoFaults =>
        /\ \A p \in Busy : /\ proc[p].report \in 1..reports
                           /\ Matches(proc[p].stage, proc[p].report)
        /\ \A p, q \in Busy : proc[p].report = proc[q].report => p = q
        /\ \A r \in Reports : r > reports => Unheard(r)
        /\ \A r \in (1..reports) \ InProgress : Matches("idle", r)

(* A report that is not about k keeps what it has come to.                 *)
OthersKeep(k) ==
    \A r \in Reports \ {k} :
        /\ cover'[r] = cover[r] /\ told'[r] = told[r]
        /\ r \in StoredReports' <=> r \in StoredReports

LEMMA MatchesKept ==
    ASSUME NEW r \in Reports, NEW k, r # k, OthersKeep(k), NEW st, Matches(st, r)
    PROVE  Matches(st, r)'
  BY DEF Matches, OthersKeep, Unheard, InTable, Announced, Dropped

(* One process goes on with its report, and only with it.                  *)
LEMMA OneGoesOn ==
    ASSUME ProcsOK, reports \in 0..MaxReports, AccountInv, NoFaults,
           NEW p \in Busy, NEW k, k = proc[p].report,
           NEW x, proc' = [proc EXCEPT ![p] = x],
           x.stage # "idle" => x.report = k,
           reports' = reports, OthersKeep(k), Matches(x.stage, k)'
    PROVE  AccountInv'
<1>1. /\ p \in Procs /\ proc'[p] = x
      /\ \A q \in Procs \ {p} : proc'[q] = proc[q]
  BY DEF Busy, ProcsOK
<1>2. k \in 1..reports /\ \A r \in 1..reports : r \in Reports
  BY PipelineAssumption DEF AccountInv, Reports
<1>3. \A q \in Procs \ {p} : (q \in Busy' <=> q \in Busy)
  BY <1>1 DEF Busy
<1>4. \A q \in Busy \ {p} : proc[q].report # k
  BY DEF AccountInv
<1>5. ASSUME NEW q \in Busy'
      PROVE  (proc[q].report \in 1..reports
                 /\ Matches(proc[q].stage, proc[q].report))'
  <2>1. CASE q = p
    <3>1. x.stage # "idle" /\ x.report = k
      BY <1>1, <1>5, <2>1 DEF Busy
    <3>2. proc'[q].stage = x.stage /\ proc'[q].report = k
      BY <1>1, <2>1, <3>1
    <3> QED BY <1>2, <3>2
  <2>2. CASE q # p
    <3>1. q \in Busy /\ q \in Procs /\ proc'[q] = proc[q]
      BY <1>1, <1>3, <1>5, <2>2 DEF Busy
    <3> DEFINE st == proc[q].stage
               r  == proc[q].report
    <3>2. r \in 1..reports /\ Matches(st, r)
      BY <3>1 DEF AccountInv
    <3>3. r # k /\ r \in Reports
      BY <1>2, <1>4, <2>2, <3>1, <3>2
    <3>4. \A y \in Reports : \A z : y # k /\ Matches(z, y) => Matches(z, y)'
      BY MatchesKept
    <3>5. st' = st /\ r' = r
      BY <3>1
    <3> HIDE DEF st, r
    <3>6. \A y, z : y = r /\ z = st => Matches(z, y)'
      BY <3>2, <3>3, <3>4
    <3> QED BY <3>2, <3>5, <3>6 DEF st, r
  <2> QED BY <2>1, <2>2
<1>6. ASSUME NEW q \in Busy', NEW u \in Busy', proc'[q].report = proc'[u].report
      PROVE  q = u
  <2>1. \A w \in Busy' : /\ w \in Busy
                         /\ proc'[w].report = proc[w].report
    BY <1>1, <1>3 DEF Busy
  <2> QED BY <1>6, <2>1 DEF AccountInv
<1>7. ASSUME NEW r \in Reports, r > reports
      PROVE  Unheard(r)'
  <2>1. r # k
    BY <1>2, <1>7 DEF Reports
  <2> QED BY <1>7, <2>1 DEF AccountInv, OthersKeep, Unheard
<1>8. ASSUME NEW r \in (1..reports) \ InProgress'
      PROVE  Matches("idle", r)'
  <2>1. CASE r = k
    <3>1. x.stage = "idle"
      BY <1>1, <1>8, <2>1 DEF InProgress
    <3> QED BY <2>1, <3>1
  <2>2. CASE r # k
    <3>1. r \notin InProgress
      <4> SUFFICES ASSUME NEW q \in Procs, proc[q].stage # "idle",
                          proc[q].report = r
                   PROVE  FALSE
        BY DEF InProgress
      <4>1. proc'[q] = proc[q]
        BY <1>1, <2>2
      <4> QED BY <1>8, <4>1 DEF InProgress
    <3>2. Matches("idle", r)
      BY <1>8, <3>1 DEF AccountInv
    <3> QED BY <1>2, <1>8, <2>2, <3>2, MatchesKept
  <2> QED BY <2>1, <2>2
<1>9. Reports' = Reports
  BY DEF Reports
<1> QED BY <1>5, <1>6, <1>7, <1>8, <1>9 DEF AccountInv

(* One more process takes the next report.                                 *)
LEMMA OneReceives ==
    ASSUME ProcsOK, reports \in 0..MaxReports, reports < MaxReports,
           AccountInv, NoFaults,
           NEW p \in Procs \ Busy, NEW x, proc' = [proc EXCEPT ![p] = x],
           x.stage \in {"received", "closed"}, x.report = reports + 1,
           reports' = reports + 1, UNCHANGED <<cover, told>>,
           StoredReports' = StoredReports
    PROVE  AccountInv'
<1> DEFINE k == reports + 1
<1>1. /\ proc'[p] = x
      /\ \A q \in Procs \ {p} : proc'[q] = proc[q]
  BY DEF ProcsOK
<1>2. /\ k \in Reports /\ k \in 1..reports' /\ k \notin 1..reports
      /\ \A r \in 1..reports' : r = k \/ r \in 1..reports
      /\ \A r \in 1..reports : r \in 1..reports'
      /\ \A r \in Reports : r > reports' => r > reports
      /\ k > reports
  BY PipelineAssumption DEF Reports
<1>3. Busy' = Busy \cup {p}
  BY <1>1 DEF Busy
<1>4. \A st, r : Matches(st, r)' <=> Matches(st, r)
  BY DEF Matches, Unheard, InTable, Announced, Dropped
<1>5. \A r : Unheard(r)' <=> Unheard(r)
  BY DEF Unheard
<1>6. \A q \in Busy : proc[q].report \in 1..reports
  BY DEF AccountInv
<1>7. \A y : y = k => Matches(x.stage, y)
  <2>1. Unheard(k)
    BY <1>2 DEF AccountInv
  <2> QED BY <2>1 DEF Matches
<1>8. ASSUME NEW q \in Busy'
      PROVE  (proc[q].report \in 1..reports
                 /\ Matches(proc[q].stage, proc[q].report))'
  <2>1. CASE q = p
    <3>1. proc'[q].stage = x.stage /\ proc'[q].report = k
      BY <1>1, <2>1
    <3>2. \A y : y = k => Matches(x.stage, y)'
      BY <1>4, <1>7
    <3> HIDE DEF k
    <3> QED BY <1>2, <3>1, <3>2
  <2>2. CASE q # p
    <3>1. q \in Busy /\ proc'[q] = proc[q]
      BY <1>1, <1>3, <2>2 DEF Busy
    <3>2. Matches(proc[q].stage, proc[q].report)
      BY <3>1 DEF AccountInv
    <3>3. \A y, z : y = proc[q].report /\ z = proc[q].stage => Matches(z, y)'
      BY <1>4, <3>2
    <3> QED BY <1>2, <1>6, <3>1, <3>3
  <2> QED BY <2>1, <2>2
<1>9. ASSUME NEW q \in Busy', NEW u \in Busy', proc'[q].report = proc'[u].report
      PROVE  q = u
  <2>1. \A w \in Busy : w # p /\ proc'[w] = proc[w]
    BY <1>1 DEF Busy
  <2> QED BY <1>1, <1>2, <1>3, <1>6, <1>9, <2>1 DEF AccountInv
<1>10. InProgress' = InProgress \cup {k}
  <2>1. \A q \in Procs : proc'[q].stage # "idle" <=> q \in Busy \cup {p}
    BY <1>3 DEF Busy
  <2>2. \A q \in Busy : q # p /\ proc'[q] = proc[q]
    BY <1>1 DEF Busy
  <2> QED BY <1>1, <2>1, <2>2 DEF InProgress, Busy
<1>11. \A r \in (1..reports') \ InProgress' : Matches("idle", r)'
  BY <1>2, <1>4, <1>10 DEF AccountInv
<1>12. \A r \in Reports : r > reports' => Unheard(r)'
  BY <1>2, <1>5 DEF AccountInv
<1>13. Reports' = Reports
  BY DEF Reports
<1> QED BY <1>8, <1>9, <1>11, <1>12, <1>13 DEF AccountInv

(* Rows keep their reports when they are ended. *)
LEMMA EndsKeepReports ==
    ASSUME rows \in Seq(Row), DOMAIN rows' = DOMAIN rows,
           \A i \in DOMAIN rows :
              rows'[i] = rows[i] \/ \E n : rows'[i] = [rows[i] EXCEPT !.end = n]
    PROVE  StoredReports' = StoredReports
<1>1. ASSUME NEW i \in DOMAIN rows PROVE rows'[i].report = rows[i].report
  <2>1. rows[i] \in Row
    OBVIOUS
  <2>2. \A n : [rows[i] EXCEPT !.end = n].report = rows[i].report
    BY <2>1 DEF Row
  <2> QED BY <2>2
<1> QED BY <1>1 DEF StoredReports

(* A stored row adds its report. *)
LEMMA StoredGrows ==
    ASSUME rows \in Seq(Row), NEW r \in Row, rows' = Append(rows, r)
    PROVE  StoredReports' = StoredReports \cup {r.report}
<1>1. /\ DOMAIN rows' = 1..(Len(rows) + 1) /\ DOMAIN rows = 1..Len(rows)
      /\ \A i \in DOMAIN rows : rows'[i] = rows[i]
      /\ rows'[Len(rows) + 1] = r /\ Len(rows) \in Nat
  BY RowAppended
<1>2. DOMAIN rows' = DOMAIN rows \cup {Len(rows) + 1}
  BY <1>1
<1> QED BY <1>1, <1>2 DEF StoredReports

(* A step of one process with its report, taken apart. *)
LEMMA StepOfOne ==
    ASSUME ProcsOK, reports \in 0..MaxReports, AccountInv,
           told \in [Reports -> Nat], cover \in [Reports -> Nat],
           NEW p \in Procs, NEW k, k = proc[p].report,
           proc[p].stage # "idle", UNCHANGED <<reports, faults>>,
           NEW x, proc' = [proc EXCEPT ![p] = x],
           x.stage # "idle" => x.report = k,
           OthersKeep(k),
           NoFaults /\ k \in Reports /\ Matches(proc[p].stage, k)
              => Matches(x.stage, k)'
    PROVE  AccountInv'
<1>1. CASE ~NoFaults
  BY <1>1 DEF AccountInv, NoFaults
<1>2. CASE NoFaults
  <2>1. p \in Busy
    BY DEF Busy
  <2>2. k \in Reports /\ Matches(proc[p].stage, k)
    BY <1>2, <2>1, PipelineAssumption DEF AccountInv, Reports
  <2> QED BY <1>2, <2>1, <2>2, OneGoesOn
<1> QED BY <1>1, <1>2

(* Every report that was dealt with is accounted for, for any number of    *)
(* handlers, notifiers and reports and whatever the interleaving: it has a *)
(* row and was notified once, or it was suppressed and is nowhere.         *)
THEOREM AlwaysAccounted == Spec => []Accounted
<1>1. Init => AccountInv
  <2> SUFFICES ASSUME Init PROVE AccountInv
    OBVIOUS
  <2>1. Busy = {} /\ reports = 0 /\ 1..reports = {}
    BY IdleType DEF Init, Busy
  <2>2. \A r \in Reports : Unheard(r)
    BY DEF Init, Unheard, StoredReports
  <2> QED BY <2>1, <2>2 DEF AccountInv
<1>2. TypeOK /\ AccountInv /\ [Next]_vars => AccountInv'
  <2> SUFFICES ASSUME TypeOK, AccountInv, [Next]_vars PROVE AccountInv'
    OBVIOUS
  <2>0. /\ ProcsOK /\ rows \in Seq(Row) /\ reports \in 0..MaxReports
        /\ told \in [Reports -> Nat] /\ cover \in [Reports -> Nat]
        /\ now \in Nat /\ faults \in FaultCounts
    BY TypeParts
  <2>1. CASE Tick \/ ScenarioOver \/ UNCHANGED vars
    <3>1. UNCHANGED <<rows, proc, reports, told, cover, faults>>
      BY <2>1 DEF Tick, ScenarioOver, vars
    <3> QED BY <3>1 DEF AccountInv, NoFaults, Busy, Matches, Unheard, InTable,
               Announced, Dropped, StoredReports, InProgress, Reports
  <2>2. ASSUME ~NoFaults' PROVE AccountInv'
    BY <2>2 DEF AccountInv
  <2>3. CASE Crash
    <3>1. ~NoFaults'
      BY <2>0, <2>3 DEF Crash, NoFaults, FaultCounts
    <3> QED BY <2>2, <3>1
  <2>4. ASSUME NEW p \in Procs,
               \/ StoreFails(p) \/ CloseFails(p) \/ NotifierStoreFails(p)
               \/ \E e \in Types, s \in Scopes : NotifierCloseFails(p, e, s)
        PROVE  AccountInv'
    <3>1. faults' = [faults EXCEPT !.errors = @ + 1]
      BY <2>4 DEF StoreFails, CloseFails, NotifierStoreFails, NotifierCloseFails
    <3>2. ~NoFaults'
      BY <2>0, <3>1 DEF NoFaults, FaultCounts
    <3> QED BY <2>2, <3>2
  \* A report comes in.
  <2>5. ASSUME NEW p \in Procs, NEW st \in {"received", "closed"},
               NEW e, NEW sc, proc[p].stage = "idle", reports < MaxReports,
               reports' = reports + 1, UNCHANGED <<cover, told, faults>>,
               proc' = [proc EXCEPT ![p] =
                          [stage |-> st, type |-> e, scope |-> sc, at |-> now,
                           report |-> reports + 1, row |-> 0]],
               StoredReports' = StoredReports
        PROVE  AccountInv'
    <3> DEFINE x == [stage |-> st, type |-> e, scope |-> sc, at |-> now,
                     report |-> reports + 1, row |-> 0]
    <3>1. x.stage \in {"received", "closed"} /\ x.report = reports + 1
      OBVIOUS
    <3>2. p \in Procs \ Busy
      BY <2>5 DEF Busy
    <3>3. proc' = [proc EXCEPT ![p] = x]
      BY <2>5
    <3> HIDE DEF x
    <3>4. CASE NoFaults
      <4>1. \E z : /\ proc' = [proc EXCEPT ![p] = z]
                   /\ z.stage \in {"received", "closed"}
                   /\ z.report = reports + 1
        BY <3>1, <3>3
      <4> QED BY <2>0, <2>5, <3>2, <3>4, <4>1, OneReceives
    <3>5. CASE ~NoFaults
      BY <2>2, <2>5, <3>5 DEF NoFaults
    <3> QED BY <3>4, <3>5
  <2>6. ASSUME NEW p \in Handlers, NEW e \in Types, NEW s \in Scopes,
               Receive(p, e, s)
        PROVE  AccountInv'
    <3>1. StoredReports' = StoredReports
      BY <2>6 DEF Receive, StoredReports
    <3> QED BY <2>5, <2>6, <3>1 DEF Receive, Procs
  <2>7. ASSUME NEW p \in Notifiers, NEW e \in Types, NEW s \in Scopes,
               NotifierClose(p, e, s)
        PROVE  AccountInv'
    <3>1. /\ DOMAIN rows' = DOMAIN rows
          /\ \A i \in DOMAIN rows :
                rows'[i] = rows[i] \/ \E n : rows'[i] = [rows[i] EXCEPT !.end = n]
      BY <2>0, <2>7 DEF NotifierClose
    <3>2. StoredReports' = StoredReports
      BY <2>0, <3>1, EndsKeepReports
    <3> QED BY <2>5, <2>7, <3>2 DEF NotifierClose, Procs
  \* A process goes on.
  <2>8. ASSUME NEW p \in Procs, HandlerStep(p) \/ NotifierStep(p)
        PROVE  AccountInv'
    <3> DEFINE k == proc[p].report
    <3>0. /\ proc[p] \in Process
          /\ \A st \in Stages :
                /\ [proc[p] EXCEPT !.stage = st].stage = st
                /\ [proc[p] EXCEPT !.stage = st].report = k
      BY <2>0, StageType DEF ProcsOK
    <3>1. ASSUME NEW st \in Stages, proc[p].stage # "idle",
                 UNCHANGED <<reports, faults>>,
                 \/ proc' = [proc EXCEPT ![p].stage = st]
                 \/ proc' = [proc EXCEPT ![p] = Idle] /\ st = "idle"
                 \/ /\ st = "closing"
                    /\ \E i : proc' = [proc EXCEPT ![p].stage = "closing",
                                                   ![p].row = i],
                 OthersKeep(k),
                 \A y : y = k /\ NoFaults /\ y \in Reports
                           /\ Matches(proc[p].stage, y) => Matches(st, y)'
          PROVE  AccountInv'
      <4>1. PICK x : /\ proc' = [proc EXCEPT ![p] = x] /\ x.stage = st
                     /\ x.stage # "idle" => x.report = k
        <5>1. CASE proc' = [proc EXCEPT ![p].stage = st]
          BY <3>0, <5>1
        <5>2. CASE proc' = [proc EXCEPT ![p] = Idle] /\ st = "idle"
          BY <5>2, IdleType
        <5>3. CASE /\ st = "closing"
                   /\ \E i : proc' = [proc EXCEPT ![p].stage = "closing",
                                                  ![p].row = i]
          <6>1. PICK i : proc' = [proc EXCEPT ![p].stage = "closing",
                                              ![p].row = i]
            BY <5>3
          <6> DEFINE x == [proc[p] EXCEPT !.stage = "closing", !.row = i]
          <6>2. x.stage = "closing" /\ x.report = k
            BY <3>0 DEF Process
          <6>3. proc' = [proc EXCEPT ![p] = x]
            BY <2>0, <6>1 DEF ProcsOK
          <6> QED BY <5>3, <6>2, <6>3
        <5> QED BY <3>1, <5>1, <5>2, <5>3
      <4>2. \E y : y = k
        OBVIOUS
      <4> HIDE DEF k
      <4>3. PICK y : y = k
        BY <4>2
      <4>4. NoFaults /\ y \in Reports /\ Matches(proc[p].stage, y)
               => Matches(x.stage, y)'
        BY <3>1, <4>1, <4>3
      <4>5. OthersKeep(y) /\ y = proc[p].report
        BY <3>1, <4>3 DEF k
      <4> QED BY <2>0, <3>1, <4>1, <4>3, <4>4, <4>5, StepOfOne
    <3>2. ASSUME UNCHANGED <<cover, told>>, StoredReports' = StoredReports
          PROVE  OthersKeep(k) /\ \A st, y : Matches(st, y)' <=> Matches(st, y)
      BY <3>2 DEF OthersKeep, Matches, Unheard, InTable, Announced, Dropped
    <3>3. rows' = rows => StoredReports' = StoredReports
      BY DEF StoredReports
    <3> USE DEF Stages
    <3>4. CASE Suppress(p)
      <4>1. PICK i \in Newest(Duplicates(p)) : cover' = [cover EXCEPT ![k] = i]
        BY <3>4 DEF Suppress
      <4>2. i # 0
        BY <2>0, <4>1 DEF Newest, Duplicates
      <4>3. /\ proc[p].stage = "received" /\ told' = told
            /\ UNCHANGED <<reports, faults>>
            /\ StoredReports' = StoredReports
            /\ proc' = [proc EXCEPT ![p] = Idle]
        BY <3>3, <3>4 DEF Suppress
      <4> HIDE DEF k
      <4>4. OthersKeep(k)
        BY <2>0, <4>1, <4>3 DEF OthersKeep
      <4>5. \A y : y = k /\ y \in Reports /\ Matches(proc[p].stage, y)
                      => Matches("idle", y)'
        BY <2>0, <4>1, <4>2, <4>3 DEF Matches, Unheard, Dropped
      <4> QED BY <3>1, <4>3, <4>4, <4>5
    <3>5. CASE Check(p)
      <4>1. OthersKeep(k) /\ \A st, y : Matches(st, y)' <=> Matches(st, y)
        BY <3>2, <3>3, <3>5 DEF Check
      <4>2. \A y : y = k /\ Matches(proc[p].stage, y) => Matches("checked", y)'
        BY <3>5, <4>1 DEF Check, Matches
      <4> HIDE DEF k
      <4> QED BY <3>1, <3>5, <4>1, <4>2 DEF Check
    <3>6. CASE Store(p) \/ NotifierStore(p)
      <4>1. PICK st \in {"stored", "inserted"} :
               /\ proc' = [proc EXCEPT ![p].stage = st]
               /\ proc[p].stage \in {"checked", "closed"}
               /\ rows' = Append(rows, NewRow(p))
               /\ UNCHANGED <<reports, told, cover, faults>>
        BY <3>6 DEF Store, NotifierStore
      <4>2. NewRow(p) \in Row /\ NewRow(p).report = k
        BY <2>0, <4>1, NewRowType DEF NewRow
      <4>3. StoredReports' = StoredReports \cup {k}
        BY <2>0, <4>1, <4>2, StoredGrows
      <4> HIDE DEF k
      <4>4. OthersKeep(k)
        BY <4>1, <4>3 DEF OthersKeep
      <4>5. \A y : y = k /\ Matches(proc[p].stage, y) => Matches(st, y)'
        BY <4>1, <4>3 DEF Matches, Unheard, InTable
      <4> QED BY <3>1, <4>1, <4>4, <4>5
    <3>7. CASE Notify(p) \/ NotifierNotify(p)
      <4>1. PICK st \in {"told", "idle"} :
               /\ \/ st = "told" /\ proc' = [proc EXCEPT ![p].stage = "told"]
                  \/ st = "idle" /\ proc' = [proc EXCEPT ![p] = Idle]
               /\ proc[p].stage \in {"stored", "inserted"}
               /\ told' = [told EXCEPT ![k] = @ + 1]
               /\ UNCHANGED <<rows, reports, cover, faults>>
        BY <3>7 DEF Notify, NotifierNotify, TellAbout
      <4>2. StoredReports' = StoredReports
        BY <3>3, <4>1
      <4> HIDE DEF k
      <4>3. OthersKeep(k)
        BY <2>0, <4>1, <4>2 DEF OthersKeep
      <4>4. \A y : y = k /\ y \in Reports /\ Matches(proc[p].stage, y)
                      => Matches(st, y)'
        <5> SUFFICES ASSUME k \in Reports, Matches(proc[p].stage, k),
                            NEW y, y = k
                     PROVE  Matches(st, y)'
          OBVIOUS
        <5>1. InTable(k)
          BY <4>1 DEF Matches
        <5>2. told'[y] = 1 /\ cover'[y] = 0 /\ y \in StoredReports'
          BY <2>0, <4>1, <4>2, <5>1 DEF InTable
        <5> QED BY <4>1, <5>2 DEF Matches, Announced
      <4> QED BY <3>1, <4>1, <4>3, <4>4
    <3>8. CASE FindOutage(p)
      <4>1. OthersKeep(k) /\ \A st, y : Matches(st, y)' <=> Matches(st, y)
        BY <3>2, <3>3, <3>8 DEF FindOutage
      <4>2. \A y : y = k /\ Matches(proc[p].stage, y) => Matches("closing", y)'
        BY <3>8, <4>1 DEF FindOutage, Matches
      <4> HIDE DEF k
      <4>3. \E i : proc' = [proc EXCEPT ![p].stage = "closing", ![p].row = i]
        BY <3>8 DEF FindOutage
      <4> QED BY <3>1, <3>8, <4>1, <4>2, <4>3 DEF FindOutage
    <3>9. CASE NoOutage(p) \/ CloseOutage(p)
      <4>1. /\ proc[p].stage \in {"told", "closing"}
            /\ proc' = [proc EXCEPT ![p] = Idle]
            /\ UNCHANGED <<reports, told, cover, faults>>
        BY <3>9 DEF NoOutage, CloseOutage
      <4>2. StoredReports' = StoredReports
        <5>1. CASE NoOutage(p)
          BY <3>3, <5>1 DEF NoOutage
        <5>2. CASE CloseOutage(p)
          <6>1. rows' = [rows EXCEPT ![proc[p].row].end = proc[p].at]
            BY <5>2 DEF CloseOutage
          <6>2. /\ DOMAIN rows' = DOMAIN rows
                /\ \A i \in DOMAIN rows :
                      \/ rows'[i] = rows[i]
                      \/ \E n : rows'[i] = [rows[i] EXCEPT !.end = n]
            BY <2>0, <6>1
          <6> QED BY <2>0, <6>2, EndsKeepReports
        <5> QED BY <3>9, <5>1, <5>2
      <4>3. OthersKeep(k) /\ \A st, y : Matches(st, y)' <=> Matches(st, y)
        BY <3>2, <4>1, <4>2
      <4>4. \A y : y = k /\ Matches(proc[p].stage, y) => Matches("idle", y)'
        BY <4>1, <4>3 DEF Matches
      <4> HIDE DEF k
      <4> QED BY <3>1, <4>1, <4>3, <4>4
    <3>10. CASE Fallback(p)
      <4>1. ~NoFaults
        BY <3>10 DEF Fallback, AccountInv, Matches, Busy
      <4>2. faults' = faults
        BY <3>10 DEF Fallback
      <4> QED BY <2>2, <4>1, <4>2 DEF NoFaults
    <3> QED BY <2>8, <3>4, <3>5, <3>6, <3>7, <3>8, <3>9, <3>10
            DEF HandlerStep, NotifierStep
  <2> QED BY <2>1, <2>3, <2>4, <2>6, <2>7, <2>8 DEF Next, Procs
<1>3. AccountInv => Accounted
  BY DEF AccountInv, Accounted, NoFaults, Matches, Announced, Dropped
<1> QED BY <1>1, <1>2, <1>3, TypeCorrect, PTL DEF Spec

-----------------------------------------------------------------------------
(* The fate of a report, whatever fails.                                   *)

(* What the report of a process at a stage has come to.  After a failure   *)
(* it may be announced already: the end of an outage comes after that.     *)
Fits(stage, r) ==
    /\ stage \in {"received", "checked", "closed"} => Unheard(r)
    /\ stage \in {"stored", "inserted"} => InTable(r)
    /\ stage \in {"told", "closing"} => Announced(r)
    /\ stage = "failed" => Unheard(r) \/ Announced(r)

(* Each process deals with a report of its own, and those to come have     *)
(* left no trace.                                                          *)
FateInv ==
    /\ \A p \in Busy : /\ proc[p].report \in 1..reports
                       /\ Fits(proc[p].stage, proc[p].report)
    /\ \A p, q \in Busy : proc[p].report = proc[q].report => p = q
    /\ \A r \in Reports : r > reports => Unheard(r)

LEMMA FitsKept ==
    ASSUME NEW r \in Reports, NEW k, r # k, OthersKeep(k), NEW st, Fits(st, r)
    PROVE  Fits(st, r)'
  BY DEF Fits, OthersKeep, Unheard, InTable, Announced

(* One process goes on with its report, and only with it.                  *)
LEMMA FateGoesOn ==
    ASSUME ProcsOK, reports \in 0..MaxReports, FateInv,
           NEW p \in Busy, NEW k, k = proc[p].report,
           NEW x, proc' = [proc EXCEPT ![p] = x],
           x.stage # "idle" => x.report = k /\ Fits(x.stage, k)',
           reports' = reports, OthersKeep(k)
    PROVE  FateInv'
<1>1. /\ p \in Procs /\ proc'[p] = x
      /\ \A q \in Procs \ {p} : proc'[q] = proc[q]
  BY DEF Busy, ProcsOK
<1>2. k \in 1..reports /\ \A r \in 1..reports : r \in Reports
  BY PipelineAssumption DEF FateInv, Reports
<1>3. \A q \in Procs \ {p} : (q \in Busy' <=> q \in Busy)
  BY <1>1 DEF Busy
<1>4. \A q \in Busy \ {p} : proc[q].report # k
  BY DEF FateInv
<1>5. ASSUME NEW q \in Busy'
      PROVE  (proc[q].report \in 1..reports
                 /\ Fits(proc[q].stage, proc[q].report))'
  <2>1. CASE q = p
    <3>1. x.stage # "idle" /\ x.report = k
      BY <1>1, <1>5, <2>1 DEF Busy
    <3>2. proc'[q].stage = x.stage /\ proc'[q].report = k
      BY <1>1, <2>1, <3>1
    <3> QED BY <1>2, <3>1, <3>2
  <2>2. CASE q # p
    <3>1. q \in Busy /\ q \in Procs /\ proc'[q] = proc[q]
      BY <1>1, <1>3, <1>5, <2>2 DEF Busy
    <3> DEFINE st == proc[q].stage
               r  == proc[q].report
    <3>2. r \in 1..reports /\ Fits(st, r)
      BY <3>1 DEF FateInv
    <3>3. r # k /\ r \in Reports
      BY <1>2, <1>4, <2>2, <3>1, <3>2
    <3>4. \A y \in Reports : \A z : y # k /\ Fits(z, y) => Fits(z, y)'
      BY FitsKept
    <3>5. st' = st /\ r' = r
      BY <3>1
    <3> HIDE DEF st, r
    <3>6. \A y, z : y = r /\ z = st => Fits(z, y)'
      BY <3>2, <3>3, <3>4
    <3> QED BY <3>2, <3>5, <3>6 DEF st, r
  <2> QED BY <2>1, <2>2
<1>6. ASSUME NEW q \in Busy', NEW u \in Busy', proc'[q].report = proc'[u].report
      PROVE  q = u
  <2>1. \A w \in Busy' : w \in Busy /\ proc'[w].report = proc[w].report
    BY <1>1, <1>3 DEF Busy
  <2> QED BY <1>6, <2>1 DEF FateInv
<1>7. ASSUME NEW r \in Reports, r > reports
      PROVE  Unheard(r)'
  <2>1. r # k
    BY <1>2, <1>7 DEF Reports
  <2> QED BY <1>7, <2>1 DEF FateInv, OthersKeep, Unheard
<1>8. Reports' = Reports
  BY DEF Reports
<1> QED BY <1>5, <1>6, <1>7, <1>8 DEF FateInv

(* One more process takes the next report.                                 *)
LEMMA FateReceives ==
    ASSUME ProcsOK, reports \in 0..MaxReports, reports < MaxReports, FateInv,
           NEW p \in Procs \ Busy, NEW x, proc' = [proc EXCEPT ![p] = x],
           x.stage \in {"received", "closed"}, x.report = reports + 1,
           reports' = reports + 1, UNCHANGED <<cover, told>>,
           StoredReports' = StoredReports
    PROVE  FateInv'
<1> DEFINE k == reports + 1
<1>1. /\ proc'[p] = x
      /\ \A q \in Procs \ {p} : proc'[q] = proc[q]
  BY DEF ProcsOK
<1>2. /\ k \in Reports /\ k \in 1..reports' /\ k \notin 1..reports
      /\ \A r \in 1..reports : r \in 1..reports'
      /\ \A r \in Reports : r > reports' => r > reports
      /\ k > reports
  BY PipelineAssumption DEF Reports
<1>3. Busy' = Busy \cup {p}
  BY <1>1 DEF Busy
<1>4. \A st, r : Fits(st, r)' <=> Fits(st, r)
  BY DEF Fits, Unheard, InTable, Announced
<1>5. \A r : Unheard(r)' <=> Unheard(r)
  BY DEF Unheard
<1>6. \A y : y = k => Fits(x.stage, y)
  <2>1. Unheard(k)
    BY <1>2 DEF FateInv
  <2> QED BY <2>1 DEF Fits
<1>7. ASSUME NEW q \in Busy'
      PROVE  (proc[q].report \in 1..reports
                 /\ Fits(proc[q].stage, proc[q].report))'
  <2>1. CASE q = p
    <3>1. proc'[q].stage = x.stage /\ proc'[q].report = k
      BY <1>1, <2>1
    <3>2. \A y : y = k => Fits(x.stage, y)'
      BY <1>4, <1>6
    <3> HIDE DEF k
    <3> QED BY <1>2, <3>1, <3>2
  <2>2. CASE q # p
    <3>1. q \in Busy /\ proc'[q] = proc[q]
      BY <1>1, <1>3, <2>2 DEF Busy
    <3>2. proc[q].report \in 1..reports /\ Fits(proc[q].stage, proc[q].report)
      BY <3>1 DEF FateInv
    <3>3. \A y, z : y = proc[q].report /\ z = proc[q].stage => Fits(z, y)'
      BY <1>4, <3>2
    <3> QED BY <1>2, <3>1, <3>2, <3>3
  <2> QED BY <2>1, <2>2
<1>8. ASSUME NEW q \in Busy', NEW u \in Busy', proc'[q].report = proc'[u].report
      PROVE  q = u
  <2>1. \A w \in Busy : w # p /\ proc'[w] = proc[w] /\ proc[w].report \in 1..reports
    BY <1>1 DEF Busy, FateInv
  <2> QED BY <1>1, <1>2, <1>3, <1>8, <2>1 DEF FateInv
<1>9. \A r \in Reports : r > reports' => Unheard(r)'
  BY <1>2, <1>5 DEF FateInv
<1>10. Reports' = Reports
  BY DEF Reports
<1> QED BY <1>7, <1>8, <1>9, <1>10 DEF FateInv

(* The rows of each report, as ReportFate knows them. *)
Held == [r \in Reports |-> HeldBy(r)]

(* Ending rows moves none, and a new row is one more of its report. *)
LEMMA HeldKept ==
    ASSUME rows \in Seq(Row), DOMAIN rows' = DOMAIN rows,
           \A i \in DOMAIN rows :
              rows'[i] = rows[i] \/ \E n : rows'[i] = [rows[i] EXCEPT !.end = n]
    PROVE  Held' = Held
<1>1. ASSUME NEW i \in DOMAIN rows PROVE rows'[i].report = rows[i].report
  <2>1. rows[i] \in Row
    OBVIOUS
  <2>2. \A n : [rows[i] EXCEPT !.end = n].report = rows[i].report
    BY <2>1 DEF Row
  <2> QED BY <2>2
<1>2. \A r : HeldBy(r)' = HeldBy(r)
  BY <1>1 DEF HeldBy
<1> QED BY <1>2 DEF Held, Reports

LEMMA HeldGrows ==
    ASSUME rows \in Seq(Row), NEW x \in Row, rows' = Append(rows, x),
           x.report \notin StoredReports
    PROVE  /\ Held' = [Held EXCEPT ![x.report] = {Len(rows) + 1}]
           /\ \A r \in Reports : Len(rows) + 1 \notin Held[r]
<1> DEFINE n == Len(rows) + 1
<1>1. /\ DOMAIN rows' = 1..n /\ DOMAIN rows = 1..Len(rows)
      /\ \A i \in DOMAIN rows : rows'[i] = rows[i]
      /\ rows'[n] = x /\ Len(rows) \in Nat
  BY RowAppended
<1>2. DOMAIN rows' = DOMAIN rows \cup {n} /\ n \notin DOMAIN rows
  BY <1>1
<1>3. \A r : n \notin HeldBy(r)
  BY <1>2 DEF HeldBy
<1> HIDE DEF n
<1>4. ASSUME NEW r \in Reports
      PROVE  HeldBy(r)' = IF r = x.report THEN {n} ELSE HeldBy(r)
  <2>1. CASE r = x.report
    <3>1. \A i \in DOMAIN rows : rows'[i].report # r
      BY <1>1, <2>1 DEF StoredReports
    <3> QED BY <1>1, <1>2, <2>1, <3>1 DEF HeldBy
  <2>2. CASE r # x.report
    BY <1>1, <1>2, <2>2 DEF HeldBy
  <2> QED BY <2>1, <2>2
<1>5. x.report \in Reports /\ Reports' = Reports
  BY DEF Row, Reports
<1>6. Held' = [r \in Reports |-> HeldBy(r)']
  BY <1>5 DEF Held
<1>7. [Held EXCEPT ![x.report] = {n}] =
         [r \in Reports |-> IF r = x.report THEN {n} ELSE HeldBy(r)]
  BY DEF Held
<1> QED BY <1>3, <1>4, <1>6, <1>7 DEF Held, n

LEMMA FateInvariant == Spec => []FateInv
<1>1. Init => FateInv
  <2> SUFFICES ASSUME Init PROVE FateInv
    OBVIOUS
  <2>1. Busy = {} /\ reports = 0
    BY IdleType DEF Init, Busy
  <2>2. \A r \in Reports : Unheard(r)
    BY DEF Init, Unheard, StoredReports
  <2> QED BY <2>1, <2>2 DEF FateInv
<1>2. TypeOK /\ FateInv /\ [Next]_vars => FateInv'
  <2> SUFFICES ASSUME TypeOK, FateInv, [Next]_vars PROVE FateInv'
    OBVIOUS
  <2>0. /\ ProcsOK /\ rows \in Seq(Row) /\ reports \in 0..MaxReports
        /\ told \in [Reports -> Nat] /\ cover \in [Reports -> Nat]
    BY TypeParts
  <2>1. CASE Tick \/ ScenarioOver \/ UNCHANGED vars
    <3>1. UNCHANGED <<rows, proc, reports, told, cover>>
      BY <2>1 DEF Tick, ScenarioOver, vars
    <3> QED BY <3>1 DEF FateInv, Busy, Fits, Unheard, InTable, Announced,
               StoredReports, Reports
  <2>2. CASE Crash
    <3>1. /\ UNCHANGED <<rows, reports, told, cover>>
          /\ proc' = [p \in Procs |-> IF p \in Handlers THEN Idle ELSE proc[p]]
      BY <2>2 DEF Crash
    <3>2. \A p \in Busy' : p \in Busy /\ proc'[p] = proc[p]
      BY <3>1, IdleType DEF Busy
    <3>3. /\ \A st, r : Fits(st, r)' <=> Fits(st, r)
          /\ \A r : Unheard(r)' <=> Unheard(r)
      BY <3>1 DEF Fits, Unheard, InTable, Announced, StoredReports
    <3>4. Reports' = Reports
      BY DEF Reports
    <3>5. ASSUME NEW p \in Busy'
          PROVE  (proc[p].report \in 1..reports /\ Fits(proc[p].stage, proc[p].report))'
      <4>1. proc[p].report \in 1..reports /\ Fits(proc[p].stage, proc[p].report)
        BY <3>2 DEF FateInv
      <4>2. \A y, z : y = proc[p].report /\ z = proc[p].stage => Fits(z, y)'
        BY <3>3, <4>1
      <4> QED BY <3>1, <3>2, <4>1, <4>2
    <3>6. \A p, q \in Busy' : proc'[p].report = proc'[q].report => p = q
      BY <3>2 DEF FateInv
    <3> QED BY <3>1, <3>3, <3>4, <3>5, <3>6 DEF FateInv
  \* A report comes in.
  <2>3. ASSUME NEW p \in Procs, NEW st \in {"received", "closed"},
               NEW e, NEW sc, proc[p].stage = "idle", reports < MaxReports,
               reports' = reports + 1, UNCHANGED <<cover, told>>,
               proc' = [proc EXCEPT ![p] =
                          [stage |-> st, type |-> e, scope |-> sc, at |-> now,
                           report |-> reports + 1, row |-> 0]],
               StoredReports' = StoredReports
        PROVE  FateInv'
    <3> DEFINE x == [stage |-> st, type |-> e, scope |-> sc, at |-> now,
                     report |-> reports + 1, row |-> 0]
    <3>1. x.stage \in {"received", "closed"} /\ x.report = reports + 1
      OBVIOUS
    <3>2. p \in Procs \ Busy
      BY <2>3 DEF Busy
    <3>3. proc' = [proc EXCEPT ![p] = x]
      BY <2>3
    <3> HIDE DEF x
    <3>4. \E z : /\ proc' = [proc EXCEPT ![p] = z]
                 /\ z.stage \in {"received", "closed"}
                 /\ z.report = reports + 1
      BY <3>1, <3>3
    <3> QED BY <2>0, <2>3, <3>2, <3>4, FateReceives
  <2>4. ASSUME NEW p \in Handlers, NEW e \in Types, NEW s \in Scopes,
               Receive(p, e, s)
        PROVE  FateInv'
    <3>1. StoredReports' = StoredReports
      BY <2>4 DEF Receive, StoredReports
    <3> QED BY <2>3, <2>4, <3>1 DEF Receive, Procs
  <2>5. ASSUME NEW p \in Notifiers, NEW e \in Types, NEW s \in Scopes,
               NotifierClose(p, e, s)
        PROVE  FateInv'
    <3>1. /\ DOMAIN rows' = DOMAIN rows
          /\ \A i \in DOMAIN rows :
                rows'[i] = rows[i] \/ \E n : rows'[i] = [rows[i] EXCEPT !.end = n]
      BY <2>0, <2>5 DEF NotifierClose
    <3>2. StoredReports' = StoredReports
      BY <2>0, <3>1, EndsKeepReports
    <3> QED BY <2>3, <2>5, <3>2 DEF NotifierClose, Procs
  <2>7. ASSUME NEW p \in Notifiers, NEW e \in Types, NEW s \in Scopes,
               NotifierCloseFails(p, e, s)
        PROVE  FateInv'
    <3>1. StoredReports' = StoredReports
      BY <2>7 DEF NotifierCloseFails, StoredReports
    <3> QED BY <2>3, <2>7, <3>1 DEF NotifierCloseFails, Procs
  \* A process goes on.
  <2>6. ASSUME NEW p \in Procs,
               \/ HandlerStep(p) \/ NotifierStep(p)
               \/ StoreFails(p) \/ CloseFails(p) \/ NotifierStoreFails(p)
        PROVE  FateInv'
    <3> DEFINE k == proc[p].report
    <3>0. /\ proc[p] \in Process
          /\ \A st \in Stages :
                /\ [proc[p] EXCEPT !.stage = st].stage = st
                /\ [proc[p] EXCEPT !.stage = st].report = k
      BY <2>0, StageType DEF ProcsOK
    <3>1. ASSUME NEW st \in Stages, proc[p].stage # "idle", reports' = reports,
                 \/ proc' = [proc EXCEPT ![p].stage = st]
                 \/ proc' = [proc EXCEPT ![p] = Idle] /\ st = "idle"
                 \/ /\ st = "closing"
                    /\ \E i : proc' = [proc EXCEPT ![p].stage = "closing",
                                                   ![p].row = i],
                 OthersKeep(k),
                 \A y : y = k /\ y \in Reports /\ Fits(proc[p].stage, y)
                           => Fits(st, y)'
          PROVE  FateInv'
      <4>1. PICK x : /\ proc' = [proc EXCEPT ![p] = x] /\ x.stage = st
                     /\ x.stage # "idle" => x.report = k
        <5>1. CASE proc' = [proc EXCEPT ![p].stage = st]
          BY <3>0, <5>1
        <5>2. CASE proc' = [proc EXCEPT ![p] = Idle] /\ st = "idle"
          BY <5>2, IdleType
        <5>3. CASE /\ st = "closing"
                   /\ \E i : proc' = [proc EXCEPT ![p].stage = "closing",
                                                  ![p].row = i]
          <6>1. PICK i : proc' = [proc EXCEPT ![p].stage = "closing",
                                              ![p].row = i]
            BY <5>3
          <6> DEFINE x == [proc[p] EXCEPT !.stage = "closing", !.row = i]
          <6>2. x.stage = "closing" /\ x.report = k
            BY <3>0 DEF Process
          <6>3. proc' = [proc EXCEPT ![p] = x]
            BY <2>0, <6>1 DEF ProcsOK
          <6> QED BY <5>3, <6>2, <6>3
        <5> QED BY <3>1, <5>1, <5>2, <5>3
      <4>2. p \in Busy
        BY <3>1 DEF Busy
      <4>3. k \in Reports /\ Fits(proc[p].stage, k)
        BY <2>0, <4>2, PipelineAssumption DEF FateInv, Reports
      <4> HIDE DEF k
      <4>4. PICK y : y = k
        OBVIOUS
      <4>5. Fits(x.stage, y)'
        BY <3>1, <4>1, <4>3, <4>4
      <4>6. OthersKeep(y) /\ y = proc[p].report
        BY <3>1, <4>4 DEF k
      <4> QED BY <2>0, <3>1, <4>1, <4>2, <4>4, <4>5, <4>6, FateGoesOn
    <3>2. ASSUME UNCHANGED <<cover, told>>, StoredReports' = StoredReports
          PROVE  OthersKeep(k) /\ \A st, y : Fits(st, y)' <=> Fits(st, y)
      BY <3>2 DEF OthersKeep, Fits, Unheard, InTable, Announced
    <3>3. rows' = rows => StoredReports' = StoredReports
      BY DEF StoredReports
    <3> USE DEF Stages
    <3>4. CASE Suppress(p)
      <4>1. PICK i : cover' = [cover EXCEPT ![k] = i]
        BY <3>4 DEF Suppress
      <4>2. /\ proc[p].stage = "received" /\ told' = told /\ reports' = reports
            /\ StoredReports' = StoredReports
            /\ proc' = [proc EXCEPT ![p] = Idle]
        BY <3>3, <3>4 DEF Suppress
      <4> HIDE DEF k
      <4>3. OthersKeep(k)
        BY <2>0, <4>1, <4>2 DEF OthersKeep
      <4>4. \A y : Fits("idle", y)'
        BY DEF Fits
      <4> QED BY <3>1, <4>2, <4>3, <4>4
    <3>5. CASE Check(p) \/ StoreFails(p)
      <4>1. PICK st \in {"checked", "failed"} :
               /\ proc' = [proc EXCEPT ![p].stage = st]
               /\ proc[p].stage \in {"received", "checked"}
               /\ UNCHANGED <<rows, reports, told, cover>>
        BY <3>5 DEF Check, StoreFails
      <4>2. OthersKeep(k) /\ \A z, y : Fits(z, y)' <=> Fits(z, y)
        BY <3>2, <3>3, <4>1
      <4>3. \A y : y = k /\ Fits(proc[p].stage, y) => Fits(st, y)'
        BY <4>1, <4>2 DEF Fits
      <4> HIDE DEF k
      <4> QED BY <3>1, <4>1, <4>2, <4>3
    <3>6. CASE Store(p) \/ NotifierStore(p)
      <4>1. PICK st \in {"stored", "inserted"} :
               /\ proc' = [proc EXCEPT ![p].stage = st]
               /\ proc[p].stage \in {"checked", "closed"}
               /\ rows' = Append(rows, NewRow(p))
               /\ UNCHANGED <<reports, told, cover>>
        BY <3>6 DEF Store, NotifierStore
      <4>2. NewRow(p) \in Row /\ NewRow(p).report = k
        BY <2>0, <4>1, NewRowType DEF NewRow
      <4>3. StoredReports' = StoredReports \cup {k}
        BY <2>0, <4>1, <4>2, StoredGrows
      <4> HIDE DEF k
      <4>4. OthersKeep(k)
        BY <4>1, <4>3 DEF OthersKeep
      <4>5. \A y : y = k /\ Fits(proc[p].stage, y) => Fits(st, y)'
        BY <4>1, <4>3 DEF Fits, Unheard, InTable
      <4> QED BY <3>1, <4>1, <4>4, <4>5
    <3>7. CASE Notify(p) \/ NotifierNotify(p)
      <4>1. PICK st \in {"told", "idle"} :
               /\ \/ st = "told" /\ proc' = [proc EXCEPT ![p].stage = "told"]
                  \/ st = "idle" /\ proc' = [proc EXCEPT ![p] = Idle]
               /\ proc[p].stage \in {"stored", "inserted"}
               /\ told' = [told EXCEPT ![k] = @ + 1]
               /\ UNCHANGED <<rows, reports, cover>>
        BY <3>7 DEF Notify, NotifierNotify, TellAbout
      <4>2. StoredReports' = StoredReports
        BY <3>3, <4>1
      <4> HIDE DEF k
      <4>3. OthersKeep(k)
        BY <2>0, <4>1, <4>2 DEF OthersKeep
      <4>4. \A y : y = k /\ y \in Reports /\ Fits(proc[p].stage, y)
                      => Fits(st, y)'
        <5> SUFFICES ASSUME k \in Reports, Fits(proc[p].stage, k),
                            NEW y, y = k
                     PROVE  Fits(st, y)'
          OBVIOUS
        <5>1. InTable(k)
          BY <4>1 DEF Fits
        <5>2. told'[y] = 1 /\ cover'[y] = 0 /\ y \in StoredReports'
          BY <2>0, <4>1, <4>2, <5>1 DEF InTable
        <5> QED BY <4>1, <5>2 DEF Fits, Announced
      <4> QED BY <3>1, <4>1, <4>3, <4>4
    <3>8. CASE FindOutage(p)
      <4>1. OthersKeep(k) /\ \A st, y : Fits(st, y)' <=> Fits(st, y)
        BY <3>2, <3>3, <3>8 DEF FindOutage
      <4>2. \A y : y = k /\ Fits(proc[p].stage, y) => Fits("closing", y)'
        BY <3>8, <4>1 DEF FindOutage, Fits
      <4> HIDE DEF k
      <4>3. \E i : proc' = [proc EXCEPT ![p].stage = "closing", ![p].row = i]
        BY <3>8 DEF FindOutage
      <4> QED BY <3>1, <3>8, <4>1, <4>2, <4>3 DEF FindOutage
    <3>9. CASE NoOutage(p) \/ CloseOutage(p) \/ Fallback(p) \/ NotifierStoreFails(p)
      <4>1. /\ proc[p].stage # "idle" /\ proc' = [proc EXCEPT ![p] = Idle]
            /\ UNCHANGED <<reports, cover>>
            /\ told' = told \/ told' = [told EXCEPT ![k] = @ + 1]
        BY <3>9 DEF NoOutage, CloseOutage, Fallback, NotifierStoreFails, TellAbout
      <4>2. StoredReports' = StoredReports
        <5>1. CASE rows' = rows
          BY <3>3, <5>1
        <5>2. CASE CloseOutage(p)
          <6>1. rows' = [rows EXCEPT ![proc[p].row].end = proc[p].at]
            BY <5>2 DEF CloseOutage
          <6>2. /\ DOMAIN rows' = DOMAIN rows
                /\ \A i \in DOMAIN rows :
                      \/ rows'[i] = rows[i]
                      \/ \E n : rows'[i] = [rows[i] EXCEPT !.end = n]
            BY <2>0, <6>1
          <6> QED BY <2>0, <6>2, EndsKeepReports
        <5> QED BY <3>9, <5>1, <5>2 DEF NoOutage, Fallback, NotifierStoreFails
      <4> HIDE DEF k
      <4>3. OthersKeep(k)
        BY <2>0, <4>1, <4>2 DEF OthersKeep
      <4>4. \A y : Fits("idle", y)'
        BY DEF Fits
      <4> QED BY <3>1, <4>1, <4>3, <4>4
    <3>10. CASE CloseFails(p)
      <4>1. /\ proc' = [proc EXCEPT ![p].stage = "failed"]
            /\ proc[p].stage \in {"told", "closing"}
            /\ UNCHANGED <<rows, reports, told, cover>>
        BY <3>10 DEF CloseFails
      <4>2. OthersKeep(k) /\ \A st, y : Fits(st, y)' <=> Fits(st, y)
        BY <3>2, <3>3, <4>1
      <4>3. \A y : y = k /\ Fits(proc[p].stage, y) => Fits("failed", y)'
        BY <4>1, <4>2 DEF Fits
      <4> HIDE DEF k
      <4> QED BY <3>1, <4>1, <4>2, <4>3
    <3> QED BY <2>6, <3>4, <3>5, <3>6, <3>7, <3>8, <3>9, <3>10
            DEF HandlerStep, NotifierStep
  <2> QED BY <2>1, <2>2, <2>4, <2>5, <2>6, <2>7 DEF Next, Procs
<1> QED BY <1>1, <1>2, TypeCorrect, PTL DEF Spec

(* Handlers and notifiers do to each report what ReportFate allows, for    *)
(* any number of them and of reports, with errors and crashes at any step. *)
THEOREM FateAlwaysFollowed == Spec => FollowsFate
<1>0. /\ Fate!Init <=> /\ Held = [r \in Reports |-> {}]
                       /\ told = [r \in Reports |-> 0]
                       /\ cover = [r \in Reports |-> 0]
      /\ Fate!Rows = UNION {Held[r] : r \in Reports}
      /\ \A k : Fate!Fresh(k) <=> Held[k] = {} /\ told[k] = 0 /\ cover[k] = 0
  BY DEF Fate!Init, Fate!Rows, Fate!Fresh, Held
<1>1. Init => Fate!Init
  BY <1>0 DEF Init, Held, HeldBy
<1>2. TypeOK /\ FateInv /\ [Next]_vars
         => [Fate!Next]_<<[r \in Reports |-> HeldBy(r)], told, cover>>
  <2> SUFFICES ASSUME TypeOK, FateInv, [Next]_vars
               PROVE  [Fate!Next]_<<Held, told, cover>>
    BY DEF Held
  <2>0. /\ ProcsOK /\ rows \in Seq(Row)
        /\ told \in [Reports -> Nat] /\ cover \in [Reports -> Nat]
        /\ \A p \in Busy : proc[p].report \in Reports
        /\ \A r \in Reports : Held[r] = {} <=> r \notin StoredReports
    BY TypeParts DEF ProcsOK, Busy, Held, HeldBy, StoredReports
  <2>1. rows' = rows => Held' = Held
    BY DEF Held, HeldBy, Reports
  <2>2. CASE Tick \/ Crash \/ ScenarioOver \/ UNCHANGED vars
    BY <2>1, <2>2 DEF Tick, Crash, ScenarioOver, vars
  <2>3. ASSUME NEW p \in Procs, Suppress(p) PROVE Fate!Next
    <3> DEFINE k == proc[p].report
    <3>1. PICK i \in Newest(Duplicates(p)) : cover' = [cover EXCEPT ![k] = i]
      BY <2>3 DEF Suppress
    <3>2. k \in Reports /\ Unheard(k) /\ UNCHANGED <<rows, told>>
      BY <2>0, <2>3 DEF Suppress, FateInv, Fits, Busy
    <3>3. i \in DOMAIN rows /\ i # 0
      BY <2>0, <3>1 DEF Newest, Duplicates
    <3>4. i \in Fate!Rows
      <4>1. rows[i].report \in Reports
        <5>1. rows[i] \in Row
          BY <2>0, <3>3
        <5> QED BY <5>1 DEF Row
      <4>2. i \in Held[rows[i].report]
        BY <3>3, <4>1 DEF Held, HeldBy
      <4> QED BY <1>0, <4>1, <4>2
    <3> HIDE DEF k
    <3>5. Fate!Fresh(k)
      BY <1>0, <2>0, <3>2 DEF Unheard
    <3>6. Fate!Suppress(k)
      BY <2>1, <3>1, <3>2, <3>3, <3>4, <3>5 DEF Fate!Suppress, Held
    <3> QED BY <3>2, <3>6 DEF Fate!Next
  <2>4. ASSUME NEW p \in Procs, Store(p) \/ NotifierStore(p) PROVE Fate!Next
    <3> DEFINE k == proc[p].report
               n == Len(rows) + 1
    <3>1. /\ proc[p].stage \in {"checked", "closed"}
          /\ rows' = Append(rows, NewRow(p)) /\ UNCHANGED <<told, cover>>
      BY <2>4 DEF Store, NotifierStore
    <3>2. k \in Reports /\ Unheard(k)
      BY <2>0, <3>1 DEF FateInv, Fits, Busy
    <3>3. NewRow(p) \in Row /\ NewRow(p).report = k
      BY <2>0, <3>1, NewRowType DEF NewRow
    <3>4. /\ Held' = [Held EXCEPT ![k] = {n}]
          /\ \A r \in Reports : n \notin Held[r]
      BY <2>0, <3>1, <3>2, <3>3, HeldGrows DEF Unheard
    <3> HIDE DEF k, n
    <3>5. Fate!Fresh(k) /\ n \notin Fate!Rows
      BY <1>0, <2>0, <3>2, <3>4 DEF Unheard
    <3>6. n \in Held'[k]
      BY <3>2, <3>4 DEF Held
    <3>7. Fate!Store(k)
      BY <3>1, <3>4, <3>5, <3>6 DEF Fate!Store, Held
    <3> QED BY <3>2, <3>7 DEF Fate!Next
  <2>5. ASSUME NEW p \in Procs, Notify(p) \/ NotifierNotify(p) \/ Fallback(p)
        PROVE  [Fate!Next]_<<Held, told, cover>>
    <3> DEFINE k == proc[p].report
    <3>1. /\ proc[p].stage \in {"stored", "inserted", "failed"}
          /\ UNCHANGED <<rows, cover>>
          /\ told' = told \/ told' = [told EXCEPT ![k] = @ + 1]
      BY <2>5 DEF Notify, NotifierNotify, Fallback, TellAbout
    <3>2. k \in Reports /\ (Unheard(k) \/ InTable(k) \/ Announced(k))
      BY <2>0, <3>1 DEF FateInv, Fits, Busy
    <3> HIDE DEF k
    <3>3. /\ cover[k] = 0
          /\ told[k] = 0 \/ (told[k] = 1 /\ Held[k] # {})
      BY <2>0, <3>2 DEF Unheard, InTable, Announced
    <3>4. CASE told' = told
      BY <2>1, <3>1, <3>4
    <3>5. CASE told' = [told EXCEPT ![k] = @ + 1]
      <4>1. Fate!Announce(k)
        BY <2>1, <3>1, <3>3, <3>5 DEF Fate!Announce, Held
      <4> QED BY <3>2, <4>1 DEF Fate!Next
    <3> QED BY <3>1, <3>4, <3>5
  <2>6. ASSUME NEW p \in Procs,
               \/ Check(p) \/ FindOutage(p) \/ NoOutage(p) \/ StoreFails(p)
               \/ CloseFails(p) \/ NotifierStoreFails(p)
               \/ \E e \in Types, s \in Scopes :
                     Receive(p, e, s) \/ NotifierCloseFails(p, e, s)
        PROVE  UNCHANGED <<Held, told, cover>>
    BY <2>1, <2>6 DEF Check, FindOutage, NoOutage, StoreFails, CloseFails,
       NotifierStoreFails, Receive, NotifierCloseFails
  <2>7. ASSUME NEW p \in Procs,
               \/ CloseOutage(p)
               \/ \E e \in Types, s \in Scopes : NotifierClose(p, e, s)
        PROVE  UNCHANGED <<Held, told, cover>>
    <3>1. /\ DOMAIN rows' = DOMAIN rows /\ UNCHANGED <<told, cover>>
          /\ \A i \in DOMAIN rows :
                rows'[i] = rows[i] \/ \E n : rows'[i] = [rows[i] EXCEPT !.end = n]
      <4>1. CASE CloseOutage(p)
        BY <2>0, <4>1 DEF CloseOutage
      <4>2. CASE \E e \in Types, s \in Scopes : NotifierClose(p, e, s)
        BY <2>0, <4>2 DEF NotifierClose
      <4> QED BY <2>7, <4>1, <4>2
    <3> QED BY <2>0, <3>1, HeldKept
  <2> QED
    BY <2>2, <2>3, <2>4, <2>5, <2>6, <2>7
    DEF Next, HandlerStep, NotifierStep, Procs
<1> QED BY <1>1, <1>2, TypeCorrect, FateInvariant, PTL
        DEF Spec, FollowsFate, Fate!Spec

-----------------------------------------------------------------------------
(* The predecessors of a notifier's row.                                   *)

(* The rows of a scope and name that were there when the notifier of a     *)
(* report had ended its predecessors have an end.                          *)
EndedFor(r, s, n) ==
    \A i \in DOMAIN rows :
        i <= found[r] /\ rows[i].scope = s /\ NameOf[rows[i].by] = n
        => rows[i].end # NoEnd

(* It is so for every row that was stored and for every one to come, for   *)
(* no report counts rows that are not stored yet, and a report is the      *)
(* next one when its notifier counts them.                                 *)
FoundInv ==
    /\ \A r \in Reports : /\ found[r] = 0 \/ found[r] \in DOMAIN rows
                          /\ r > reports => found[r] = 0
    /\ \A p \in Procs : proc[p].stage # "idle" =>
          /\ proc[p].report <= reports
          /\ EndedFor(proc[p].report, proc[p].scope, NameOf[p])
    /\ \A j \in DOMAIN rows :
          /\ rows[j].report <= reports
          /\ EndedFor(rows[j].report, rows[j].scope, NameOf[rows[j].by])

(* Rows are ended at most, and those that are stay so.                     *)
EndsStay ==
    /\ OnlyEndsChange
    /\ \A i \in DOMAIN rows : rows[i].end # NoEnd => rows'[i].end # NoEnd

(* A process at work goes on with the report and the scope it had.         *)
SameWork(p) ==
    proc'[p].stage # "idle" =>
        /\ proc[p].stage # "idle"
        /\ proc'[p].report = proc[p].report /\ proc'[p].scope = proc[p].scope

(* Nothing but the end of rows changes.                                    *)
LEMMA FoundKept ==
    ASSUME FoundInv, EndsStay, \A p \in Procs : SameWork(p),
           UNCHANGED <<found, reports>>
    PROVE  FoundInv'
<1>1. /\ DOMAIN rows' = DOMAIN rows /\ Procs' = Procs /\ Reports' = Reports
      /\ found' = found /\ reports' = reports
      /\ \A i \in DOMAIN rows : /\ rows'[i].scope = rows[i].scope
                                /\ rows'[i].by = rows[i].by
                                /\ rows'[i].report = rows[i].report
                                /\ rows[i].end # NoEnd => rows'[i].end # NoEnd
  BY DEF EndsStay, OnlyEndsChange, Reports, Procs
<1>2. \A r, s, n : EndedFor(r, s, n) =>
         \A i \in DOMAIN rows' :
            i <= found'[r] /\ rows'[i].scope = s /\ NameOf[rows'[i].by] = n
            => rows'[i].end # NoEnd
  BY <1>1 DEF EndedFor
<1> QED BY <1>1, <1>2 DEF FoundInv, SameWork, EndedFor

(* A report comes in, and its notifier has ended its predecessors unless   *)
(* found stays as it was.                                                  *)
LEMMA FoundReceives ==
    ASSUME TypeOK, FoundInv, EndsStay, NEW p \in Procs, NEW x,
           proc[p].stage = "idle", reports < MaxReports,
           reports' = reports + 1, proc' = [proc EXCEPT ![p] = x],
           x.report = reports + 1,
           \/ found' = found
           \/ /\ found' = [found EXCEPT ![reports + 1] = Len(rows)]
              /\ \A i \in DOMAIN rows :
                    rows[i].scope = x.scope /\ NameOf[rows[i].by] = NameOf[p]
                    => rows'[i].end # NoEnd
    PROVE  FoundInv'
<1> DEFINE k == reports + 1
<1>1. /\ DOMAIN rows' = DOMAIN rows /\ Procs' = Procs /\ Reports' = Reports
      /\ \A i \in DOMAIN rows : /\ rows'[i].scope = rows[i].scope
                                /\ rows'[i].by = rows[i].by
                                /\ rows'[i].report = rows[i].report
                                /\ rows[i].end # NoEnd => rows'[i].end # NoEnd
  BY DEF EndsStay, OnlyEndsChange, Reports, Procs
<1>2. /\ reports \in Nat /\ k \in Reports /\ rows \in Seq(Row)
      /\ found \in [Reports -> Nat] /\ proc \in [Procs -> Process]
      /\ DOMAIN rows \subseteq Nat \ {0}
      /\ \A q \in Procs : proc[q].stage # "idle" => proc[q].report \in Reports
  <2>1. reports \in 0..MaxReports /\ ProcsOK /\ rows \in Seq(Row)
        /\ found \in [Reports -> Nat]
    BY TypeParts
  <2>2. reports \in Nat /\ k \in Reports
    BY <2>1, PipelineAssumption DEF Reports
  <2> HIDE DEF k
  <2>3. DOMAIN rows \subseteq Nat \ {0}
    BY <2>1
  <2> QED BY <2>1, <2>2, <2>3 DEF ProcsOK
<1>3. \A r \in Reports : r <= reports => found'[r] = found[r] /\ r # k
  BY <1>2
<1>4. ASSUME NEW r \in Reports
      PROVE  /\ found'[r] = 0 \/ found'[r] \in DOMAIN rows
             /\ r > k => found'[r] = 0
  <2>1. found[r] = 0 \/ found[r] \in DOMAIN rows
    BY DEF FoundInv
  <2>2. r > k => found[r] = 0 /\ r # k
    BY <1>2 DEF FoundInv, Reports
  <2>3. Len(rows) = 0 \/ Len(rows) \in DOMAIN rows
    BY <1>2
  <2>4. found'[r] = found[r] \/ (r = k /\ found'[r] = Len(rows))
    BY <1>2
  <2> QED BY <1>2, <2>1, <2>2, <2>3, <2>4
<1>5. \A r \in Reports : \A s, n : r <= reports /\ EndedFor(r, s, n) =>
         \A i \in DOMAIN rows' :
            i <= found'[r] /\ rows'[i].scope = s /\ NameOf[rows'[i].by] = n
            => rows'[i].end # NoEnd
  BY <1>1, <1>3 DEF EndedFor
<1>6. ASSUME NEW i \in DOMAIN rows', i <= found'[k],
             rows'[i].scope = x.scope, NameOf[rows'[i].by] = NameOf[p]
      PROVE  rows'[i].end # NoEnd
  <2>1. CASE found' = found
    <3>1. found[k] = 0
      BY <1>2 DEF FoundInv
    <3> QED BY <1>1, <1>2, <1>6, <2>1, <3>1
  <2>2. CASE found' # found
    BY <1>1, <1>6, <2>2
  <2> QED BY <2>1, <2>2
<1>7. ASSUME NEW j \in DOMAIN rows'
      PROVE  /\ rows'[j].report <= k
             /\ EndedFor(rows[j].report, rows[j].scope, NameOf[rows[j].by])'
  <2>1. rows[j].report \in Reports /\ rows[j].report <= reports
    <3>1. rows[j] \in Row
      BY <1>1, <1>2
    <3> QED BY <1>1, <3>1 DEF FoundInv, Row
  <2>2. rows[j].report <= k
    BY <1>2, <2>1 DEF Reports
  <2>3. EndedFor(rows[j].report, rows[j].scope, NameOf[rows[j].by])
    BY <1>1 DEF FoundInv
  <2>4. \A i \in DOMAIN rows' :
           /\ i <= found'[rows[j].report] /\ rows'[i].scope = rows[j].scope
           /\ NameOf[rows'[i].by] = NameOf[rows[j].by]
           => rows'[i].end # NoEnd
    BY <1>5, <2>1, <2>3
  <2> HIDE DEF k
  <2> QED BY <1>1, <2>2, <2>4 DEF EndedFor
<1>8. ASSUME NEW q \in Procs, proc'[q].stage # "idle"
      PROVE  /\ proc'[q].report <= k
             /\ EndedFor(proc[q].report, proc[q].scope, NameOf[q])'
  <2>1. CASE q = p
    <3>1. proc'[q] = x
      BY <1>2, <2>1
    <3>2. proc'[q].report = k /\ proc'[q].report <= k
      BY <1>2, <3>1
    <3> HIDE DEF k
    <3> QED BY <1>6, <2>1, <3>1, <3>2 DEF EndedFor
  <2>2. CASE q # p
    <3>1. proc'[q] = proc[q]
      BY <1>2, <2>2
    <3>2. proc[q].report \in Reports /\ proc[q].report <= reports
      BY <1>2, <1>8, <3>1 DEF FoundInv
    <3>3. proc[q].report <= k
      BY <1>2, <3>2 DEF Reports
    <3>4. EndedFor(proc[q].report, proc[q].scope, NameOf[q])
      BY <1>8, <3>1 DEF FoundInv
    <3>5. \A i \in DOMAIN rows' :
             /\ i <= found'[proc[q].report] /\ rows'[i].scope = proc[q].scope
             /\ NameOf[rows'[i].by] = NameOf[q]
             => rows'[i].end # NoEnd
      BY <1>5, <3>2, <3>4
    <3> HIDE DEF k
    <3> QED BY <3>1, <3>3, <3>5 DEF EndedFor
  <2> QED BY <2>1, <2>2
<1>9. reports' = k
  OBVIOUS
<1> HIDE DEF k
<1> QED BY <1>1, <1>4, <1>7, <1>8, <1>9 DEF FoundInv

(* A row is stored: its report counts earlier rows only.                   *)
LEMMA FoundStored ==
    ASSUME TypeOK, FoundInv, NEW p \in Procs, proc[p].stage # "idle",
           rows' = Append(rows, NewRow(p)), \A q \in Procs : SameWork(q),
           UNCHANGED <<found, reports>>
    PROVE  FoundInv'
<1> DEFINE n == Len(rows) + 1
<1>1. NewRow(p) \in Row
  BY TypeParts, NewRowType
<1>2. /\ rows \in Seq(Row) /\ Len(rows) \in Nat
      /\ DOMAIN rows' = 1..n /\ DOMAIN rows = 1..Len(rows)
      /\ \A i \in DOMAIN rows : rows'[i] = rows[i]
      /\ rows'[n] = NewRow(p)
      /\ found \in [Reports -> Nat]
      /\ \A q \in Procs : proc[q].stage # "idle" => proc[q].report \in Reports
  BY <1>1, TypeParts, RowAppended DEF ProcsOK
<1>3. Procs' = Procs /\ Reports' = Reports /\ found' = found /\ reports' = reports
  BY DEF Procs, Reports
<1>4. \A r \in Reports : found[r] = 0 \/ found[r] \in DOMAIN rows
  BY DEF FoundInv
<1>5. \A r \in Reports : ~(n <= found[r])
  BY <1>2, <1>4
<1>6. \A r \in Reports : \A s, nm : EndedFor(r, s, nm) =>
         \A i \in DOMAIN rows' :
            i <= found'[r] /\ rows'[i].scope = s /\ NameOf[rows'[i].by] = nm
            => rows'[i].end # NoEnd
  <2>1. \A i \in DOMAIN rows' : i = n \/ i \in DOMAIN rows
    BY <1>2
  <2> HIDE DEF n
  <2> QED BY <1>2, <1>3, <1>5, <2>1 DEF EndedFor
<1>7. \A r \in Reports : found[r] = 0 \/ found[r] \in DOMAIN rows'
  BY <1>2, <1>4
<1>8. ASSUME NEW q \in Procs, proc'[q].stage # "idle"
      PROVE  /\ proc'[q].report <= reports
             /\ EndedFor(proc[q].report, proc[q].scope, NameOf[q])'
  <2>1. /\ proc[q].stage # "idle" /\ proc'[q].report = proc[q].report
        /\ proc'[q].scope = proc[q].scope
    BY <1>8 DEF SameWork
  <2>2. /\ proc[q].report \in Reports /\ proc[q].report <= reports
        /\ EndedFor(proc[q].report, proc[q].scope, NameOf[q])
    BY <1>2, <2>1 DEF FoundInv
  <2>3. \A i \in DOMAIN rows' :
           /\ i <= found'[proc[q].report] /\ rows'[i].scope = proc[q].scope
           /\ NameOf[rows'[i].by] = NameOf[q]
           => rows'[i].end # NoEnd
    BY <1>6, <2>2
  <2> QED BY <2>1, <2>2, <2>3 DEF EndedFor
<1>9. ASSUME NEW j \in DOMAIN rows'
      PROVE  /\ rows'[j].report <= reports
             /\ EndedFor(rows[j].report, rows[j].scope, NameOf[rows[j].by])'
  <2>1. CASE j \in DOMAIN rows
    <3>1. rows[j] \in Row
      BY <1>2, <2>1
    <3>2. /\ rows[j].report \in Reports /\ rows[j].report <= reports
          /\ EndedFor(rows[j].report, rows[j].scope, NameOf[rows[j].by])
      BY <2>1, <3>1 DEF FoundInv, Row
    <3>3. rows'[j] = rows[j]
      BY <1>2, <2>1
    <3>4. \A i \in DOMAIN rows' :
             /\ i <= found'[rows[j].report] /\ rows'[i].scope = rows[j].scope
             /\ NameOf[rows'[i].by] = NameOf[rows[j].by]
             => rows'[i].end # NoEnd
      BY <1>6, <3>2
    <3> QED BY <3>2, <3>3, <3>4 DEF EndedFor
  <2>2. CASE j = n
    <3>1. /\ rows'[j].report = proc[p].report /\ rows'[j].scope = proc[p].scope
          /\ rows'[j].by = p
      BY <1>2, <2>2 DEF NewRow
    <3>2. /\ proc[p].report \in Reports /\ proc[p].report <= reports
          /\ EndedFor(proc[p].report, proc[p].scope, NameOf[p])
      BY <1>2 DEF FoundInv
    <3> HIDE DEF n
    <3> QED BY <1>6, <3>1, <3>2 DEF EndedFor
  <2> QED BY <1>2, <2>1, <2>2
<1> HIDE DEF n
<1> QED BY <1>2, <1>3, <1>7, <1>8, <1>9 DEF FoundInv

(* Behind the row of a notifier that could end its predecessors none of    *)
(* those it found is open, for any names, any number of handlers and       *)
(* notifiers side by side, whoever ends rows meanwhile, fails or is        *)
(* restarted.                                                              *)
THEOREM PredecessorsAlwaysEnded == Spec => []PredecessorsEnded
<1>1. Init => FoundInv
  BY IdleType DEF Init, FoundInv
<1>2. TypeOK /\ FoundInv /\ [Next]_vars => FoundInv'
  <2> SUFFICES ASSUME TypeOK, FoundInv, [Next]_vars PROVE FoundInv'
    OBVIOUS
  <2>0. /\ ProcsOK /\ rows \in Seq(Row) /\ now \in Nat
        /\ proc \in [Procs -> Process]
        /\ Notifiers \subseteq Procs /\ Handlers \subseteq Procs
    BY TypeParts DEF ProcsOK, Procs
  <2>1. ASSUME rows' = rows PROVE EndsStay
    BY <2>1 DEF EndsStay, OnlyEndsChange
  \* What a step of one process makes of its record.
  <2>2. ASSUME NEW p \in Procs, proc[p].stage # "idle",
               \/ proc' = [proc EXCEPT ![p] = Idle]
               \/ \E st \in Stages : proc' = [proc EXCEPT ![p].stage = st]
               \/ \E i : proc' = [proc EXCEPT ![p].stage = "closing",
                                              ![p].row = i]
        PROVE  \A q \in Procs : SameWork(q)
    <3>1. \A q \in Procs : q # p => proc'[q] = proc[q]
      BY <2>0, <2>2
    <3>2. SameWork(p)
      <4>1. CASE proc' = [proc EXCEPT ![p] = Idle]
        BY <2>0, <4>1, IdleType DEF SameWork
      <4>2. CASE \E st \in Stages : proc' = [proc EXCEPT ![p].stage = st]
        <5>1. PICK st \in Stages : proc' = [proc EXCEPT ![p].stage = st]
          BY <4>2
        <5>2. proc[p] \in Process
          BY <2>0, <2>2
        <5>3. proc'[p] = [proc[p] EXCEPT !.stage = st]
          BY <2>0, <5>1
        <5> QED BY <2>2, <5>2, <5>3, StageType DEF SameWork
      <4>3. CASE \E i : proc' = [proc EXCEPT ![p].stage = "closing",
                                             ![p].row = i]
        <5>1. PICK i : proc' = [proc EXCEPT ![p].stage = "closing", ![p].row = i]
          BY <4>3
        <5>2. proc[p] \in Process
          BY <2>0, <2>2
        <5>3. proc'[p].report = proc[p].report /\ proc'[p].scope = proc[p].scope
          BY <2>0, <5>1, <5>2 DEF Process
        <5> QED BY <2>2, <5>3 DEF SameWork
      <4> QED BY <2>2, <4>1, <4>2, <4>3
    <3> QED BY <3>1, <3>2 DEF SameWork
  <2>3. CASE Tick \/ ScenarioOver \/ Crash \/ UNCHANGED vars
    <3>1. UNCHANGED <<rows, found, reports>>
      BY <2>3 DEF Tick, ScenarioOver, Crash, vars
    <3>2. \A q \in Procs : SameWork(q)
      <4>1. \A q \in Procs : proc'[q] \in {Idle, proc[q]}
        BY <2>0, <2>3 DEF Tick, ScenarioOver, Crash, vars
      <4> QED BY <4>1, IdleType DEF SameWork
    <3> QED BY <2>1, <3>1, <3>2, FoundKept
  <2>4. ASSUME NEW p \in Procs, NEW e, NEW s,
               Receive(p, e, s) \/ NotifierCloseFails(p, e, s)
        PROVE  FoundInv'
    <3> DEFINE x(st) == [stage |-> st, type |-> e, scope |-> s, at |-> now,
                         report |-> reports + 1, row |-> 0]
    <3>1. /\ proc[p].stage = "idle" /\ reports < MaxReports
          /\ reports' = reports + 1 /\ UNCHANGED <<rows, found>>
          /\ \E st : proc' = [proc EXCEPT ![p] = x(st)]
      BY <2>4 DEF Receive, NotifierCloseFails
    <3>2. PICK y : y.report = reports + 1 /\ proc' = [proc EXCEPT ![p] = y]
      BY <3>1
    <3> HIDE DEF x
    <3> QED BY <2>1, <3>1, <3>2, FoundReceives
  <2>5. ASSUME NEW p \in Notifiers, NEW e \in Types, NEW s \in Scopes,
               NotifierClose(p, e, s)
        PROVE  FoundInv'
    <3> DEFINE I == {i \in DOMAIN rows :
                       /\ rows[i].scope = s /\ rows[i].end = NoEnd
                       /\ NameOf[rows[i].by] = NameOf[p]}
               x == [stage |-> "closed", type |-> e, scope |-> s, at |-> now,
                     report |-> reports + 1, row |-> 0]
    <3>1. rows' = [i \in DOMAIN rows |-> IF i \in I
                     THEN [rows[i] EXCEPT !.end = now] ELSE rows[i]]
      BY <2>5 DEF NotifierClose
    <3>2. OnlyEndsChange
      <4> HIDE DEF I
      <4> QED BY <2>0, <3>1, RowsEnded
    <3>3. \A i \in DOMAIN rows :
             rows'[i].end # NoEnd \/ (i \notin I /\ rows'[i] = rows[i])
      <4> SUFFICES ASSUME NEW i \in DOMAIN rows, i \in I
                   PROVE  rows'[i].end # NoEnd
        BY <3>1
      <4>1. rows[i] \in Row /\ rows'[i] = [rows[i] EXCEPT !.end = now]
        BY <2>0, <3>1
      <4>2. rows'[i].end = now
        BY <4>1 DEF Row
      <4> QED BY <2>0, <4>2, PipelineAssumption
    <3>4. EndsStay
      BY <3>2, <3>3 DEF EndsStay
    <3>5. \A i \in DOMAIN rows :
             rows[i].scope = s /\ NameOf[rows[i].by] = NameOf[p]
             => rows'[i].end # NoEnd
      BY <3>3
    <3>6. /\ proc[p].stage = "idle" /\ reports < MaxReports
          /\ reports' = reports + 1 /\ proc' = [proc EXCEPT ![p] = x]
          /\ found' = [found EXCEPT ![reports + 1] = Len(rows)]
      BY <2>5 DEF NotifierClose
    <3>7. x.report = reports + 1 /\ x.scope = s
      OBVIOUS
    <3> HIDE DEF I, x
    <3> QED BY <2>0, <3>4, <3>5, <3>6, <3>7, FoundReceives
  <2>6. ASSUME NEW p \in Procs, Store(p) \/ NotifierStore(p)
        PROVE  FoundInv'
    <3>1. /\ proc[p].stage # "idle" /\ rows' = Append(rows, NewRow(p))
          /\ UNCHANGED <<found, reports>>
          /\ \E st \in Stages : proc' = [proc EXCEPT ![p].stage = st]
      BY <2>6 DEF Store, NotifierStore, Stages
    <3> QED BY <2>2, <3>1, FoundStored
  <2>7. ASSUME NEW p \in Procs, CloseOutage(p)
        PROVE  FoundInv'
    <3> DEFINE i == proc[p].row
    <3>1. proc[p].row \in DOMAIN rows /\ proc[p].at \in Nat
      BY <2>0, <2>7 DEF CloseOutage, ProcsOK, Process
    <3>2. rows' = [rows EXCEPT ![i].end = proc[p].at]
      BY <2>7 DEF CloseOutage
    <3>3. OnlyEndsChange
      BY <2>0, <3>1, <3>2, RowEnded
    <3>4. rows'[i].end # NoEnd
      <4>1. rows[i] \in Row /\ rows'[i] = [rows[i] EXCEPT !.end = proc[p].at]
        BY <2>0, <3>1, <3>2
      <4>2. rows'[i].end = proc[p].at
        BY <4>1 DEF Row
      <4> QED BY <3>1, <4>2, PipelineAssumption
    <3>5. \A j \in DOMAIN rows : j # i => rows'[j] = rows[j]
      BY <3>2
    <3>6. EndsStay
      BY <3>3, <3>4, <3>5 DEF EndsStay
    <3>7. /\ proc[p].stage # "idle" /\ proc' = [proc EXCEPT ![p] = Idle]
          /\ UNCHANGED <<found, reports>>
      BY <2>7 DEF CloseOutage
    <3> QED BY <2>2, <3>6, <3>7, FoundKept
  <2>8. ASSUME NEW p \in Procs,
               \/ Suppress(p) \/ Check(p) \/ StoreFails(p) \/ Notify(p)
               \/ FindOutage(p) \/ NoOutage(p) \/ CloseFails(p) \/ Fallback(p)
               \/ NotifierStoreFails(p) \/ NotifierNotify(p)
        PROVE  FoundInv'
    <3>1. proc[p].stage # "idle" /\ UNCHANGED <<rows, found, reports>>
      BY <2>8 DEF Suppress, Check, StoreFails, Notify, FindOutage, NoOutage,
                  CloseFails, Fallback, NotifierStoreFails, NotifierNotify
    <3>2. \/ proc' = [proc EXCEPT ![p] = Idle]
          \/ \E st \in Stages : proc' = [proc EXCEPT ![p].stage = st]
          \/ \E i : proc' = [proc EXCEPT ![p].stage = "closing", ![p].row = i]
      <4>1. CASE Notify(p)
        <5>1. CASE proc[p].type = "ONLINE"
          <6>1. proc' = [proc EXCEPT ![p].stage = "told"]
            BY <4>1, <5>1 DEF Notify
          <6> QED BY <6>1 DEF Stages
        <5>2. CASE proc[p].type # "ONLINE"
          BY <4>1, <5>2 DEF Notify
        <5> QED BY <5>1, <5>2
      <4>2. CASE FindOutage(p)
        BY <4>2 DEF FindOutage
      <4>3. CASE \/ Suppress(p) \/ NoOutage(p) \/ Fallback(p)
                 \/ NotifierStoreFails(p) \/ NotifierNotify(p)
        BY <4>3 DEF Suppress, NoOutage, Fallback, NotifierStoreFails,
                    NotifierNotify
      <4>4. CASE Check(p) \/ StoreFails(p) \/ CloseFails(p)
        BY <4>4 DEF Check, StoreFails, CloseFails, Stages
      <4> QED BY <2>8, <4>1, <4>2, <4>3, <4>4
    <3> QED BY <2>1, <2>2, <3>1, <3>2, FoundKept
  <2> QED BY <2>0, <2>3, <2>4, <2>5, <2>6, <2>7, <2>8
          DEF Next, HandlerStep, NotifierStep
<1>3. FoundInv => PredecessorsEnded
  BY DEF FoundInv, EndedFor, PredecessorsEnded
<1> QED BY <1>1, <1>2, <1>3, TypeCorrect, PTL DEF Spec

-----------------------------------------------------------------------------
(* The outages of the table match the power.  What makes it true while     *)
(* the polling thread alone stores rows: the last row is the ONLINE it is  *)
(* dealing with, nobody else ends the outage it found, and the outages     *)
(* before that ONLINE are ended already, unless ONLINE never came.         *)
Alone ==
    /\ NoFaults
    /\ \A i \in DOMAIN rows : rows[i].by = Poller
    /\ \A p \in Notifiers : proc[p].stage # "closed"

IsRow(i, e, s) == rows[i].type = e /\ rows[i].scope = s

OnlineIn(s, a, b) == \E k \in a..b : IsRow(k, "ONLINE", s)

Outage(i, s) == i \in DOMAIN rows /\ IsRow(i, "ONBATT", s)

Separate(s) == \A i, j \in DOMAIN rows :
                  Outage(i, s) /\ Outage(j, s) /\ i < j => OnlineIn(s, i, j)

Late == {"stored", "told", "closing"}

\* The polling thread has an ONLINE of this scope to deal with.
Ending(s) == /\ proc[Poller].stage \in Late
             /\ proc[Poller].type = "ONLINE" /\ proc[Poller].scope = s

OthersEarly == \A p \in Handlers \ {Poller} : proc[p].stage \notin Late

PollerLate ==
    proc[Poller].stage \in Late =>
        /\ Len(rows) \in DOMAIN rows
        /\ IsRow(Len(rows), proc[Poller].type, proc[Poller].scope)
        /\ proc[Poller].stage # "stored" => proc[Poller].type = "ONLINE"
        /\ proc[Poller].stage = "closing" =>
              /\ Outage(proc[Poller].row, proc[Poller].scope)
              /\ rows[proc[Poller].row].end = NoEnd

InTime ==
    /\ proc[Poller].stage # "idle" => proc[Poller].at <= now
    /\ \A i \in DOMAIN rows :
          /\ rows[i].begin <= now
          /\ proc[Poller].stage # "idle" => rows[i].begin <= proc[Poller].at
          /\ rows[i].end # NoEnd => rows[i].begin <= rows[i].end

\* An outage with an end was followed by ONLINE.
EndedAfter ==
    \A s \in Scopes, i \in DOMAIN rows :
        Outage(i, s) /\ rows[i].end # NoEnd => OnlineIn(s, i, Len(rows))

\* An outage followed by an ONLINE that was dealt with has an end.
AfterEnded ==
    \A s \in Scopes, i \in DOMAIN rows :
        /\ Separate(s) /\ Outage(i, s)
        /\ \/ OnlineIn(s, i, Len(rows) - 1)
           \/ ~Ending(s) /\ OnlineIn(s, i, Len(rows))
        => rows[i].end # NoEnd

MatchBody == OthersEarly /\ PollerLate /\ InTime /\ EndedAfter /\ AfterEnded

MatchInv == Alone => MatchBody

(* Rows that stay where they are tell the same about outages and ONLINE.   *)
LEMMA KindsKept ==
    ASSUME rows \in Seq(Row), DOMAIN rows \subseteq DOMAIN rows',
           \A i \in DOMAIN rows : rows'[i].type = rows[i].type
                                  /\ rows'[i].scope = rows[i].scope
    PROVE  /\ \A e, s : \A i \in DOMAIN rows : IsRow(i, e, s)' <=> IsRow(i, e, s)
           /\ \A s : \A i \in DOMAIN rows : Outage(i, s)' <=> Outage(i, s)
           /\ \A s : \A i \in DOMAIN rows, j \in 0..Len(rows) :
                 OnlineIn(s, i, j)' <=> OnlineIn(s, i, j)
           /\ \A s : Separate(s)' => Separate(s)
<1>1. \A e, s : \A i \in DOMAIN rows : IsRow(i, e, s)' <=> IsRow(i, e, s)
  BY DEF IsRow
<1>2. \A s : \A i \in DOMAIN rows : Outage(i, s)' <=> Outage(i, s)
  BY <1>1 DEF Outage
<1>3. ASSUME NEW s, NEW i \in DOMAIN rows, NEW j \in 0..Len(rows)
      PROVE  OnlineIn(s, i, j)' <=> OnlineIn(s, i, j)
  <2>1. \A k \in i..j : k \in DOMAIN rows
    OBVIOUS
  <2> QED BY <1>1, <2>1 DEF OnlineIn
<1>4. ASSUME NEW s, Separate(s)' PROVE Separate(s)
  <2>1. \A j \in DOMAIN rows : j \in 0..Len(rows) /\ j \in DOMAIN rows'
    OBVIOUS
  <2> QED BY <1>2, <1>3, <1>4, <2>1 DEF Separate
<1> QED BY <1>1, <1>2, <1>3, <1>4

(* A step that leaves the table alone, in which the polling thread has, if *)
(* any, the same ONLINE to deal with.                                      *)
LEMMA MatchKept ==
    ASSUME TypeOK, MatchBody, rows' = rows, now' \in Nat, now <= now',
           OthersEarly', PollerLate',
           \A s : Ending(s) => Ending(s)',
           proc'[Poller].stage # "idle" =>
              \/ proc[Poller].stage # "idle" /\ proc'[Poller].at = proc[Poller].at
              \/ proc'[Poller].at = now
    PROVE  MatchBody'
<1>1. /\ rows \in Seq(Row) /\ now \in Nat /\ ProcsOK
      /\ proc[Poller].at \in Nat /\ \A i \in DOMAIN rows : rows[i].begin \in Nat
  <2>1. rows \in Seq(Row) /\ now \in Nat /\ ProcsOK
    BY TypeParts
  <2>2. proc[Poller] \in Process
    BY <2>1, PipelineAssumption DEF ProcsOK, Procs
  <2>3. proc[Poller].at \in Nat
    BY <2>2 DEF Process
  <2>4. ASSUME NEW i \in DOMAIN rows PROVE rows[i].begin \in Nat
    <3>1. rows[i] \in Row
      BY <2>1
    <3> QED BY <3>1 DEF Row
  <2> QED BY <2>1, <2>3, <2>4
<1>2. InTime'
  BY <1>1 DEF InTime, MatchBody
<1>3. /\ \A s : \A i \in DOMAIN rows : Outage(i, s)' <=> Outage(i, s)
      /\ \A s, i, j : OnlineIn(s, i, j)' <=> OnlineIn(s, i, j)
      /\ \A s : Separate(s)' <=> Separate(s)
  BY DEF Outage, OnlineIn, IsRow, Separate
<1>4. EndedAfter'
  BY <1>3 DEF EndedAfter, MatchBody
<1>5. AfterEnded'
  BY <1>3 DEF AfterEnded, MatchBody
<1> QED BY <1>2, <1>4, <1>5 DEF MatchBody

(* The polling thread stores a row after the others.                       *)
LEMMA MatchWhenStored ==
    ASSUME TypeOK, MatchBody, Store(Poller)
    PROVE  MatchBody'
<1> DEFINE n == Len(rows) + 1
           P == proc[Poller]
<1>1. /\ rows \in Seq(Row) /\ ProcsOK /\ Poller \in Procs /\ now \in Nat
      /\ P \in Process /\ P.stage = "checked" /\ P.at \in Nat
  BY TypeParts, PipelineAssumption DEF ProcsOK, Procs, Process, Store
<1>2. NewRow(Poller) \in Row
  BY <1>1, NewRowType
<1>3. /\ DOMAIN rows' = 1..n /\ DOMAIN rows = 1..Len(rows)
      /\ \A i \in DOMAIN rows : rows'[i] = rows[i]
      /\ Len(rows) \in Nat /\ Len(rows') = n
      /\ rows'[n].type = P.type /\ rows'[n].scope = P.scope
      /\ rows'[n].begin = P.at /\ rows'[n].end = NoEnd
  BY <1>1, <1>2, RowAppended DEF Store, NewRow
<1>4. /\ proc'[Poller].stage = "stored" /\ proc'[Poller].type = P.type
      /\ proc'[Poller].scope = P.scope /\ proc'[Poller].at = P.at
      /\ \A q \in Procs \ {Poller} : proc'[q] = proc[q]
  <2>1. /\ proc'[Poller] = [P EXCEPT !.stage = "stored"]
        /\ \A q \in Procs \ {Poller} : proc'[q] = proc[q]
    BY <1>1 DEF Store, ProcsOK
  <2> QED BY <1>1, <2>1, StageType DEF Stages
<1> HIDE DEF P
<1>5. now' = now
  BY DEF Store
<1>6. OthersEarly'
  BY <1>4 DEF OthersEarly, MatchBody, Procs
<1>7. PollerLate'
  BY <1>3, <1>4 DEF PollerLate, IsRow
<1>8. InTime'
  <2>1. ASSUME NEW i \in DOMAIN rows'
        PROVE  /\ rows'[i].begin <= now' /\ rows'[i].begin <= proc'[Poller].at
               /\ rows'[i].end # NoEnd => rows'[i].begin <= rows'[i].end
    <3>1. CASE i \in DOMAIN rows
      BY <1>1, <1>3, <1>4, <1>5, <3>1 DEF InTime, MatchBody, P
    <3>2. CASE i = n
      BY <1>1, <1>3, <1>4, <1>5, <3>2 DEF InTime, MatchBody, P
    <3> QED BY <1>3, <2>1, <3>1, <3>2
  <2>2. proc'[Poller].at <= now'
    BY <1>1, <1>4, <1>5 DEF InTime, MatchBody, P
  <2> QED BY <2>1, <2>2 DEF InTime
<1>9. /\ \A s : \A i \in DOMAIN rows : Outage(i, s)' <=> Outage(i, s)
      /\ \A s : \A i \in DOMAIN rows, j \in 0..Len(rows) :
            OnlineIn(s, i, j)' <=> OnlineIn(s, i, j)
      /\ \A s : Separate(s)' => Separate(s)
  BY <1>1, <1>3, KindsKept
<1>10. EndedAfter'
  <2> SUFFICES ASSUME NEW s \in Scopes, NEW i \in DOMAIN rows',
                      Outage(i, s)', rows'[i].end # NoEnd
               PROVE  OnlineIn(s, i, Len(rows))'
    BY DEF EndedAfter, Outage
  <2>1. i \in DOMAIN rows /\ rows'[i] = rows[i]
    BY <1>3
  <2>2. OnlineIn(s, i, Len(rows))
    BY <1>9, <2>1 DEF EndedAfter, MatchBody
  <2>3. PICK k \in i..Len(rows) : IsRow(k, "ONLINE", s)
    BY <2>2 DEF OnlineIn
  <2>4. k \in i..Len(rows') /\ k \in DOMAIN rows
    BY <1>3, <2>1
  <2> QED BY <1>3, <2>3, <2>4 DEF OnlineIn, IsRow
<1>11. AfterEnded'
  <2> SUFFICES ASSUME NEW s \in Scopes, NEW i \in DOMAIN rows',
                      Separate(s)', Outage(i, s)',
                      \/ OnlineIn(s, i, Len(rows) - 1)'
                      \/ ~Ending(s)' /\ OnlineIn(s, i, Len(rows))'
               PROVE  rows'[i].end # NoEnd
    BY DEF AfterEnded
  <2>1. ~Ending(s)
    BY <1>1 DEF Ending, Late, P
  <2>2. PICK k \in i..n : /\ IsRow(k, "ONLINE", s)'
                          /\ k = n => ~Ending(s)'
    BY <1>3 DEF OnlineIn
  <2>3. k # n
    BY <1>3, <1>4, <2>2 DEF IsRow, Ending, Late
  <2>4. i \in DOMAIN rows /\ k \in i..Len(rows) /\ k \in DOMAIN rows
    BY <1>3, <2>2, <2>3
  <2>5. OnlineIn(s, i, Len(rows))
    BY <1>3, <2>2, <2>4 DEF OnlineIn, IsRow
  <2> QED BY <1>3, <1>9, <2>1, <2>4, <2>5 DEF AfterEnded, MatchBody
<1> QED BY <1>6, <1>7, <1>8, <1>10, <1>11 DEF MatchBody

(* The polling thread ends the outage it found.                            *)
LEMMA MatchWhenEnded ==
    ASSUME TypeOK, MatchBody, CloseOutage(Poller)
    PROVE  MatchBody'
<1> DEFINE P == proc[Poller]
           r == proc[Poller].row
<1>1. /\ rows \in Seq(Row) /\ ProcsOK /\ Poller \in Procs /\ now \in Nat
      /\ P \in Process /\ P.stage = "closing" /\ P.at \in Nat
      /\ r \in DOMAIN rows /\ DOMAIN rows = 1..Len(rows) /\ Len(rows) \in Nat
  BY TypeParts, PipelineAssumption DEF ProcsOK, Procs, Process, CloseOutage
<1>2. /\ rows' = [rows EXCEPT ![r].end = P.at] /\ now' = now
      /\ proc' = [proc EXCEPT ![Poller] = Idle]
  BY DEF CloseOutage
<1>3. /\ IsRow(Len(rows), "ONLINE", P.scope) /\ Len(rows) \in DOMAIN rows
      /\ Outage(r, P.scope) /\ rows[r].end = NoEnd
      /\ \A i \in DOMAIN rows : rows[i].begin <= P.at
  BY <1>1 DEF MatchBody, PollerLate, Late, IsRow, InTime
<1>4. /\ proc'[Poller].stage = "idle"
      /\ \A q \in Procs \ {Poller} : proc'[q] = proc[q]
  BY <1>1, <1>2, IdleType DEF ProcsOK
<1>5. /\ DOMAIN rows' = DOMAIN rows /\ Len(rows') = Len(rows)
      /\ \A i \in DOMAIN rows : i # r => rows'[i] = rows[i]
      /\ rows'[r].end = P.at /\ rows'[r].type = rows[r].type
      /\ rows'[r].scope = rows[r].scope /\ rows'[r].begin = rows[r].begin
  <2>1. rows[r] \in Row /\ rows'[r] = [rows[r] EXCEPT !.end = P.at]
    BY <1>1, <1>2
  <2>2. rows'[r].end = P.at /\ rows'[r].type = rows[r].type
        /\ rows'[r].scope = rows[r].scope /\ rows'[r].begin = rows[r].begin
    BY <2>1 DEF Row
  <2> QED BY <1>1, <1>2, <2>2
<1> HIDE DEF P, r
<1>6. /\ \A e, s : \A i \in DOMAIN rows : IsRow(i, e, s)' <=> IsRow(i, e, s)
      /\ \A s : \A i \in DOMAIN rows : Outage(i, s)' <=> Outage(i, s)
      /\ \A s : \A i \in DOMAIN rows, j \in 0..Len(rows) :
            OnlineIn(s, i, j)' <=> OnlineIn(s, i, j)
      /\ \A s : Separate(s)' => Separate(s)
  <2>1. \A i \in DOMAIN rows : rows'[i].type = rows[i].type
                               /\ rows'[i].scope = rows[i].scope
    BY <1>1, <1>5
  <2> QED BY <1>1, <1>5, <2>1, KindsKept
<1>7. OthersEarly'
  BY <1>4 DEF OthersEarly, MatchBody, Procs
<1>8. PollerLate'
  BY <1>4 DEF PollerLate, Late
<1>9. InTime'
  <2>1. ASSUME NEW i \in DOMAIN rows
        PROVE  /\ rows'[i].begin <= now'
               /\ rows'[i].end # NoEnd => rows'[i].begin <= rows'[i].end
    <3>1. CASE i = r
      BY <1>2, <1>3, <1>5, <3>1 DEF InTime, MatchBody
    <3>2. CASE i # r
      BY <1>2, <1>5, <3>2 DEF InTime, MatchBody
    <3> QED BY <3>1, <3>2
  <2> QED BY <1>4, <1>5, <2>1 DEF InTime
<1>10. EndedAfter'
  <2> SUFFICES ASSUME NEW s \in Scopes, NEW i \in DOMAIN rows, Outage(i, s),
                      rows'[i].end # NoEnd
               PROVE  OnlineIn(s, i, Len(rows))
    BY <1>1, <1>5, <1>6 DEF EndedAfter
  <2>1. CASE i = r
    <3>1. s = P.scope
      BY <1>3, <2>1 DEF Outage, IsRow
    <3> QED BY <1>1, <1>3, <3>1 DEF OnlineIn
  <2>2. CASE i # r
    BY <1>5, <2>2 DEF EndedAfter, MatchBody
  <2> QED BY <2>1, <2>2
<1>11. AfterEnded'
  <2> SUFFICES ASSUME NEW s \in Scopes, NEW i \in DOMAIN rows,
                      Separate(s), Outage(i, s),
                      \/ OnlineIn(s, i, Len(rows) - 1)
                      \/ OnlineIn(s, i, Len(rows))
               PROVE  rows'[i].end # NoEnd
    <3>1. Len(rows) - 1 \in 0..Len(rows) /\ Len(rows) \in 0..Len(rows)
      BY <1>1, <1>3
    <3> QED BY <1>5, <1>6, <3>1 DEF AfterEnded
  <2>1. CASE i = r
    BY <1>1, <1>5, <2>1, PipelineAssumption
  <2>2. CASE i # r /\ OnlineIn(s, i, Len(rows) - 1)
    BY <1>5, <2>2 DEF AfterEnded, MatchBody
  <2>3. CASE i # r /\ ~OnlineIn(s, i, Len(rows) - 1)
    <3>1. s # P.scope
             => ~Ending(s)
      BY DEF Ending, P
    <3>2. CASE s # P.scope
      <4>1. ~IsRow(Len(rows), "ONLINE", s)
        BY <1>3, <3>2 DEF IsRow
      <4>2. OnlineIn(s, i, Len(rows) - 1)
        BY <1>1, <2>3, <4>1 DEF OnlineIn
      <4> QED BY <2>3, <4>2
    \* Between two outages there was ONLINE.
    <3>3. CASE s = P.scope
      <4>1. r # Len(rows) /\ i # Len(rows) /\ r < Len(rows) /\ i < Len(rows)
        BY <1>1, <1>3 DEF Outage, IsRow
      <4>2. CASE i < r
        <5>1. OnlineIn(s, i, r)
          BY <1>1, <1>3, <3>3, <4>2 DEF Separate
        <5> QED BY <1>1, <2>3, <4>1, <5>1 DEF OnlineIn
      <4>3. CASE r < i
        <5>1. OnlineIn(s, r, i)
          BY <1>1, <1>3, <3>3, <4>3 DEF Separate
        <5>2. OnlineIn(s, r, Len(rows) - 1)
          BY <1>1, <4>1, <5>1 DEF OnlineIn
        <5>3. rows[r].end # NoEnd
          BY <1>1, <1>3, <3>3, <5>2 DEF AfterEnded, MatchBody
        <5> QED BY <1>3, <5>3
      <4> QED BY <1>1, <2>3, <4>2, <4>3
    <3> QED BY <3>2, <3>3
  <2> QED BY <2>1, <2>2, <2>3
<1> QED BY <1>7, <1>8, <1>9, <1>10, <1>11 DEF MatchBody

(* As long as the polling thread alone stores rows, ends are only set by   *)
(* it, and the step of anyone else leaves the table alone.                 *)
LEMMA AloneStep ==
    ASSUME TypeOK, MatchInv, [Next]_vars, Alone'
    PROVE  /\ Alone
           /\ \/ /\ rows' = rows /\ proc'[Poller] = proc[Poller] /\ OthersEarly'
                 /\ now' \in Nat /\ now <= now'
              \/ /\ \/ \E e \in Types, s \in Scopes : Receive(Poller, e, s)
                    \/ HandlerStep(Poller)
                 /\ OthersEarly'
<1>0. /\ ProcsOK /\ rows \in Seq(Row) /\ now \in Nat /\ faults \in FaultCounts
      /\ Handlers \subseteq Procs /\ Notifiers \subseteq Procs
      /\ proc \in [Procs -> Process] /\ Poller \in Handlers
  BY TypeParts, PipelineAssumption DEF ProcsOK, Procs
<1>1. ASSUME rows' = rows, faults' = faults,
             \A q \in Notifiers : proc[q].stage = "closed" => proc'[q] = proc[q]
      PROVE  Alone
  BY <1>1 DEF Alone, NoFaults
<1>2. CASE Tick \/ ScenarioOver \/ UNCHANGED vars
  <2>1. rows' = rows /\ proc' = proc /\ faults' = faults
    BY <1>2 DEF Tick, ScenarioOver, vars
  <2>2. now' \in Nat /\ now <= now'
    BY <1>0, <1>2 DEF Tick, ScenarioOver, vars
  <2>3. Alone /\ MatchBody
    BY <1>1, <2>1 DEF MatchInv
  <2> QED BY <2>1, <2>2, <2>3 DEF MatchBody, OthersEarly
<1>3. ~Crash
  <2> SUFFICES ASSUME Crash PROVE FALSE
    OBVIOUS
  <2> QED BY <1>0 DEF Crash, Alone, NoFaults, FaultCounts
<1>4. ASSUME NEW p \in Procs,
             \/ StoreFails(p) \/ CloseFails(p) \/ NotifierStoreFails(p)
             \/ \E e \in Types, s \in Scopes : NotifierCloseFails(p, e, s)
      PROVE  FALSE
  <2>1. faults' = [faults EXCEPT !.errors = @ + 1]
    BY <1>4 DEF StoreFails, CloseFails, NotifierStoreFails, NotifierCloseFails
  <2>2. faults'.errors = faults.errors + 1 /\ faults.errors \in Nat
    BY <1>0, <2>1 DEF FaultCounts
  <2> QED BY <2>2 DEF Alone, NoFaults
<1>5. ASSUME NEW p \in Notifiers, NEW e \in Types, NEW s \in Scopes,
             NotifierClose(p, e, s)
      PROVE  FALSE
  <2>1. proc'[p].stage = "closed"
    BY <1>0, <1>5 DEF NotifierClose
  <2> QED BY <2>1 DEF Alone
<1>6. ASSUME NEW p \in Procs \ {Poller}, Store(p) \/ NotifierStore(p)
      PROVE  FALSE
  <2>1. NewRow(p) \in Row
    BY <1>0, <1>6, NewRowType DEF Store, NotifierStore
  <2>2. rows' = Append(rows, NewRow(p))
    BY <1>6 DEF Store, NotifierStore
  <2>3. Len(rows) + 1 \in DOMAIN rows' /\ rows'[Len(rows) + 1] = NewRow(p)
    BY <1>0, <2>1, <2>2, RowAppended
  <2> QED BY <1>6, <2>3 DEF Alone, NewRow
<1>7. ASSUME NEW p \in Notifiers, NotifierStep(p)
      PROVE  /\ Alone /\ rows' = rows /\ proc'[Poller] = proc[Poller]
             /\ OthersEarly' /\ now' = now
  <2>1. p # Poller /\ p \notin Handlers
    BY <1>0, PipelineAssumption
  <2>2. NotifierNotify(p)
    BY <1>6, <1>7, <2>1 DEF NotifierStep, Procs
  <2>3. /\ rows' = rows /\ faults' = faults /\ now' = now
        /\ \A q \in Procs : q # p => proc'[q] = proc[q]
        /\ proc[p].stage = "inserted"
    BY <1>0, <2>2 DEF NotifierNotify
  <2>4. Alone /\ MatchBody
    BY <1>0, <1>1, <2>3 DEF MatchInv
  <2>5. OthersEarly'
    BY <1>0, <2>1, <2>3, <2>4 DEF MatchBody, OthersEarly
  <2> QED BY <1>0, <2>1, <2>3, <2>4, <2>5
<1>8. ASSUME NEW p \in Handlers \ {Poller},
             \/ \E e \in Types, s \in Scopes : Receive(p, e, s)
             \/ HandlerStep(p)
      PROVE  /\ Alone /\ rows' = rows /\ proc'[Poller] = proc[Poller]
             /\ OthersEarly' /\ now' = now
  <2>1. ~Store(p)
    BY <1>0, <1>6
  <2>2. /\ faults' = faults /\ now' = now
        /\ \A q \in Procs : q # p => proc'[q] = proc[q]
    BY <1>0, <1>8 DEF Receive, HandlerStep, Suppress, Check, Store, Notify,
                      FindOutage, NoOutage, CloseOutage, Fallback
  <2>3. CASE CloseOutage(p)
    <3>1. /\ proc[p].stage = "closing" /\ proc[p].row \in DOMAIN rows
          /\ proc[p] \in Process
      BY <1>0, <2>3 DEF CloseOutage, ProcsOK
    <3>2. rows' = [rows EXCEPT ![proc[p].row].end = proc[p].at]
          /\ proc[p].at \in Nat
      BY <2>3, <3>1 DEF CloseOutage, Process
    <3>3. OnlyEndsChange
      BY <1>0, <3>1, <3>2, RowEnded
    <3>4. Alone
      BY <1>0, <2>2, <3>3, PipelineAssumption
         DEF Alone, NoFaults, OnlyEndsChange, Procs
    <3> QED BY <3>1, <3>4 DEF MatchInv, MatchBody, OthersEarly, Late
  <2>4. CASE ~CloseOutage(p)
    <3>1. rows' = rows
      BY <1>8, <2>1, <2>4 DEF Receive, HandlerStep, Suppress, Check, Notify,
                              FindOutage, NoOutage, Fallback
    <3>2. Alone /\ MatchBody
      BY <1>0, <1>1, <2>2, <3>1, PipelineAssumption DEF MatchInv
    <3>3. proc[p].stage \notin Late
      BY <3>2 DEF MatchBody, OthersEarly
    <3>4. proc'[p].stage \notin Late
      <4>1. CASE \E e \in Types, s \in Scopes : Receive(p, e, s)
        BY <1>0, <4>1 DEF Receive, Late
      <4>2. CASE Suppress(p) \/ Fallback(p)
        BY <1>0, <4>2, IdleType DEF Suppress, Fallback, Late
      <4>3. CASE Check(p)
        <5>1. proc'[p] = [proc[p] EXCEPT !.stage = "checked"]
          BY <1>0, <4>3 DEF Check
        <5> QED BY <1>0, <5>1, StageType DEF Late, Stages
      <4>4. CASE Notify(p) \/ FindOutage(p) \/ NoOutage(p)
        BY <3>3, <4>4 DEF Notify, FindOutage, NoOutage, Late
      <4> QED BY <1>8, <2>1, <2>4, <4>1, <4>2, <4>3, <4>4 DEF HandlerStep
    <3>5. OthersEarly'
      BY <1>0, <2>2, <3>2, <3>4 DEF MatchBody, OthersEarly
    <3> QED BY <1>0, <2>2, <3>1, <3>2, <3>5
  <2> QED BY <2>3, <2>4
<1>9. ASSUME \/ \E e \in Types, s \in Scopes : Receive(Poller, e, s)
             \/ HandlerStep(Poller)
      PROVE  Alone /\ OthersEarly'
  <2>1. /\ faults' = faults
        /\ \A q \in Procs : q # Poller => proc'[q] = proc[q]
    BY <1>0, <1>9 DEF Receive, HandlerStep, Suppress, Check, Store, Notify,
                      FindOutage, NoOutage, CloseOutage, Fallback
  <2>2. \A i \in DOMAIN rows : i \in DOMAIN rows' /\ rows'[i].by = rows[i].by
    <3>1. CASE CloseOutage(Poller)
      <4>1. /\ proc[Poller].row \in DOMAIN rows /\ proc[Poller] \in Process
        BY <1>0, <3>1 DEF CloseOutage, ProcsOK
      <4>2. rows' = [rows EXCEPT ![proc[Poller].row].end = proc[Poller].at]
            /\ proc[Poller].at \in Nat
        BY <3>1, <4>1 DEF CloseOutage, Process
      <4>3. OnlyEndsChange
        BY <1>0, <4>1, <4>2, RowEnded
      <4> QED BY <4>3 DEF OnlyEndsChange
    <3>2. CASE Store(Poller)
      <4>1. NewRow(Poller) \in Row /\ rows' = Append(rows, NewRow(Poller))
        BY <1>0, <3>2, NewRowType DEF Store
      <4> QED BY <1>0, <4>1, RowAppended
    <3>3. CASE ~CloseOutage(Poller) /\ ~Store(Poller)
      <4>1. rows' = rows
        BY <1>9, <3>3 DEF Receive, HandlerStep, Suppress, Check, Notify,
                          FindOutage, NoOutage, Fallback
      <4> QED BY <4>1
    <3> QED BY <3>1, <3>2, <3>3
  <2>3. Alone
    BY <1>0, <2>1, <2>2, PipelineAssumption DEF Alone, NoFaults
  <2>4. OthersEarly
    BY <2>3 DEF MatchInv, MatchBody
  <2> QED BY <1>0, <2>1, <2>3, <2>4 DEF OthersEarly
<1>10. \A p \in Handlers : p = Poller \/ p \in Handlers \ {Poller}
  OBVIOUS
<1>11. now <= now
  BY <1>0
<1> QED
  BY <1>0, <1>2, <1>3, <1>4, <1>5, <1>7, <1>8, <1>9, <1>10, <1>11 DEF Next

(* As long as nothing failed and the polling thread alone stored rows, an  *)
(* outage has an end exactly when ONLINE was stored after it, for any      *)
(* number of handlers, notifiers, scopes and types of events: the events   *)
(* the others only suppress or notify never end an outage.                 *)
THEOREM OutagesAlwaysMatch == Spec => []OutagesMatchPower
<1>1. Init => MatchInv
  <2> SUFFICES ASSUME Init PROVE MatchBody
    BY DEF MatchInv
  <2>1. /\ DOMAIN rows = {}
        /\ \A p \in Handlers : proc[p].stage = "idle"
        /\ proc[Poller].stage = "idle"
    BY IdleType, PipelineAssumption DEF Init, Procs
  <2> QED BY <2>1 DEF MatchBody, OthersEarly, PollerLate, InTime, EndedAfter,
                      AfterEnded, Late
<1>2. TypeOK /\ MatchInv /\ [Next]_vars => MatchInv'
  <2> SUFFICES ASSUME TypeOK, MatchInv, [Next]_vars, Alone' PROVE MatchBody'
    BY DEF MatchInv
  <2> DEFINE P == proc[Poller]
  <2>0. /\ ProcsOK /\ rows \in Seq(Row) /\ now \in Nat
        /\ Poller \in Procs /\ P \in Process /\ proc \in [Procs -> Process]
    BY TypeParts, PipelineAssumption DEF ProcsOK, Procs
  <2>1. Alone /\ MatchBody
    BY AloneStep DEF MatchInv
  <2>2. CASE /\ rows' = rows /\ proc'[Poller] = proc[Poller] /\ OthersEarly'
             /\ now' \in Nat /\ now <= now'
    <3>1. PollerLate' /\ \A s : Ending(s)' <=> Ending(s)
      BY <2>1, <2>2 DEF PollerLate, MatchBody, Ending, IsRow, Outage
    <3> QED BY <2>1, <2>2, <3>1, MatchKept
  \* The polling thread starts, or does not get as far as storing.
  <2>3. ASSUME OthersEarly', rows' = rows, now' = now,
               P.stage \notin Late, proc'[Poller].stage \notin Late,
               proc'[Poller].stage # "idle" =>
                  \/ P.stage # "idle" /\ proc'[Poller].at = P.at
                  \/ proc'[Poller].at = now
        PROVE  MatchBody'
    <3>1. PollerLate' /\ \A s : ~Ending(s)
      BY <2>3 DEF PollerLate, Ending
    <3>2. now <= now'
      BY <2>0, <2>3
    <3> QED BY <2>0, <2>1, <2>3, <3>1, <3>2, MatchKept
  <2>4. ASSUME NEW e \in Types, NEW s \in Scopes, Receive(Poller, e, s),
               OthersEarly'
        PROVE  MatchBody'
    BY <2>0, <2>3, <2>4 DEF Receive, Late
  <2>5. CASE OthersEarly' /\ (Suppress(Poller) \/ Fallback(Poller))
    <3>1. proc'[Poller].stage = "idle"
      BY <2>0, <2>5, IdleType DEF Suppress, Fallback
    <3> QED BY <2>3, <2>5, <3>1 DEF Suppress, Fallback, Late
  <2>6. CASE OthersEarly' /\ Check(Poller)
    <3>1. proc'[Poller] = [P EXCEPT !.stage = "checked"]
      BY <2>0, <2>6 DEF Check
    <3>2. proc'[Poller].stage = "checked" /\ proc'[Poller].at = P.at
      BY <2>0, <3>1, StageType DEF Stages
    <3> QED BY <2>3, <2>6, <3>2 DEF Check, Late
  <2>7. CASE Store(Poller)
    BY <2>1, <2>7, MatchWhenStored
  \* It goes on to end an outage.
  <2>8. ASSUME OthersEarly', rows' = rows, now' = now, P.stage \in Late,
               NEW st \in {"told", "closing"}, proc'[Poller].stage = st,
               proc'[Poller].type = P.type, P.type = "ONLINE",
               proc'[Poller].scope = P.scope, proc'[Poller].at = P.at,
               st = "closing" => /\ Outage(proc'[Poller].row, P.scope)
                                 /\ rows[proc'[Poller].row].end = NoEnd
        PROVE  MatchBody'
    <3>1. PollerLate'
      <4>1. /\ Len(rows) \in DOMAIN rows
            /\ IsRow(Len(rows), P.type, P.scope)
        BY <2>1, <2>8 DEF MatchBody, PollerLate
      <4> HIDE DEF P
      <4> QED BY <2>8, <4>1 DEF PollerLate, IsRow, Outage
    <3>2. \A s : Ending(s)' <=> Ending(s)
      BY <2>8 DEF Ending, Late
    <3>3. now <= now' /\ P.stage # "idle"
      BY <2>0, <2>8 DEF Late
    <3> QED BY <2>0, <2>1, <2>8, <3>1, <3>2, <3>3, MatchKept
  \* It is done: no outage of the scope is left that it had to end.
  <2>9. ASSUME OthersEarly', rows' = rows, now' = now,
               proc'[Poller].stage = "idle",
               \A s \in Scopes : Ending(s) =>
                  \A i \in DOMAIN rows : Outage(i, s) => rows[i].end # NoEnd
        PROVE  MatchBody'
    <3>1. PollerLate'
      BY <2>9 DEF PollerLate, Late
    <3>2. InTime'
      BY <2>1, <2>9 DEF MatchBody, InTime
    <3>3. EndedAfter'
      BY <2>1, <2>9 DEF MatchBody, EndedAfter, Outage, OnlineIn, IsRow
    <3>4. AfterEnded'
      <4>1. /\ \A s : \A i \in DOMAIN rows : Outage(i, s)' <=> Outage(i, s)
            /\ \A s, i, j : OnlineIn(s, i, j)' <=> OnlineIn(s, i, j)
            /\ \A s : Separate(s)' <=> Separate(s)
        BY <2>9 DEF Outage, OnlineIn, IsRow, Separate
      <4> QED BY <2>1, <2>9, <4>1 DEF MatchBody, AfterEnded
    <3> QED BY <2>9, <3>1, <3>2, <3>3, <3>4 DEF MatchBody
  <2>10. CASE OthersEarly' /\ Notify(Poller) /\ P.type = "ONLINE"
    <3>1. proc'[Poller] = [P EXCEPT !.stage = "told"] /\ P.stage = "stored"
      BY <2>0, <2>10 DEF Notify
    <3>2. /\ proc'[Poller].stage = "told" /\ proc'[Poller].type = P.type
          /\ proc'[Poller].scope = P.scope /\ proc'[Poller].at = P.at
      BY <2>0, <3>1, StageType DEF Stages
    <3> QED BY <2>8, <2>10, <3>1, <3>2 DEF Notify, Late
  <2>11. CASE OthersEarly' /\ Notify(Poller) /\ P.type # "ONLINE"
    <3>1. proc'[Poller].stage = "idle"
      BY <2>0, <2>11, IdleType DEF Notify
    <3> QED BY <2>9, <2>11, <3>1 DEF Notify, Ending
  <2>12. CASE OthersEarly' /\ FindOutage(Poller)
    <3>1. PICK i \in Newest(OpenOutages(P.scope)) :
             proc' = [proc EXCEPT ![Poller].stage = "closing", ![Poller].row = i]
      BY <2>12 DEF FindOutage
    <3>2. proc'[Poller] = [P EXCEPT !.stage = "closing", !.row = i]
      BY <2>0, <3>1 DEF ProcsOK
    <3>3. /\ proc'[Poller].stage = "closing" /\ proc'[Poller].type = P.type
          /\ proc'[Poller].scope = P.scope /\ proc'[Poller].at = P.at
          /\ proc'[Poller].row = i
      BY <2>0, <3>2 DEF Process
    <3>4. Outage(i, P.scope) /\ rows[i].end = NoEnd
      BY <3>1 DEF Newest, OpenOutages, Outage, IsRow
    <3>5. P.stage = "told" /\ P.type = "ONLINE" /\ rows' = rows /\ now' = now
      BY <2>1, <2>12 DEF FindOutage, MatchBody, PollerLate, Late
    <3> HIDE DEF P
    <3> QED BY <2>8, <2>12, <3>3, <3>4, <3>5 DEF Late
  <2>13. CASE OthersEarly' /\ NoOutage(Poller)
    <3>1. proc'[Poller].stage = "idle" /\ rows' = rows /\ now' = now
      BY <2>0, <2>13, IdleType DEF NoOutage
    <3>2. \A i \in DOMAIN rows : Outage(i, P.scope) => rows[i].end # NoEnd
      BY <2>13 DEF NoOutage, OpenOutages, Outage, IsRow
    <3> QED BY <2>9, <2>13, <3>1, <3>2 DEF Ending
  <2>14. CASE CloseOutage(Poller)
    BY <2>1, <2>14, MatchWhenEnded
  <2>15. HandlerStep(Poller) /\ OthersEarly' => MatchBody'
    BY <2>5, <2>6, <2>7, <2>10, <2>11, <2>12, <2>13, <2>14 DEF HandlerStep
  <2> QED BY <2>2, <2>4, <2>15, AloneStep
<1>3. TypeOK /\ MatchInv => OutagesMatchPower
  <2> SUFFICES ASSUME TypeOK, MatchInv, NoFaults, InProgress = {},
                      \A i \in DOMAIN rows : rows[i].by = Poller,
                      NEW s \in Scopes, Separate(s),
                      NEW i \in DOMAIN rows, Outage(i, s)
               PROVE  /\ rows[i].end # NoEnd <=> OnlineIn(s, i, Len(rows))
                      /\ rows[i].end # NoEnd => rows[i].begin <= rows[i].end
    BY DEF OutagesMatchPower, NoFaults, Separate, Outage, OnlineIn, IsRow
  <2>1. \A p \in Procs : proc[p].stage = "idle"
    BY DEF InProgress
  <2>2. Alone /\ ~Ending(s)
    BY <2>1, PipelineAssumption DEF Alone, Procs, Ending, Late
  <2> QED BY <2>2 DEF MatchInv, MatchBody, EndedAfter, AfterEnded, InTime
<1> QED BY <1>1, <1>2, <1>3, TypeCorrect, PTL DEF Spec
=============================================================================
