--------------------------- MODULE EventPipeline ---------------------------
(***************************************************************************)
(* What becomes of a reported UPS event.  upsmon/upsmon_client.py          *)
(* handle_nut_event runs in the polling thread and in one greenlet per     *)
(* POST /nut_event: it looks for a recent row of the same type and scope,  *)
(* stores the event, notifies, and on ONLINE ends the outage that is open. *)
(* The lookup with the insert, and the lookup of the outage with its       *)
(* update, are under data_lock.  events/ups_notifier.py does the same work *)
(* in processes of their own, started by upsmon: they know nothing of the  *)
(* lock, nor of recent rows.  Notification channels, script actions and    *)
(* the payload are not modelled.                                           *)
(***************************************************************************)
EXTENDS Naturals, Sequences

CONSTANTS Handlers,    \* who runs handle_nut_event: Poller and HTTP requests
          Poller,      \* the polling thread
          Notifiers,   \* upsmon's notifier processes
          NameOf,      \* NameOf[p]: the ups_name in the rows p stores
          Scopes,      \* target ids, or the one global scope
          Types,       \* the event types reported
          Window,      \* DEFAULT_EVENT_DEDUPE_WINDOW_SECONDS
          NoOne,       \* nobody holds the lock
          NoEnd,       \* timestamp_utc_end is NULL
          MaxTime,     \* bound on the clock
          MaxReports,  \* bound on the reports
          MaxErrors,   \* bound on database errors
          MaxCrashes   \* bound on restarts of the application

Procs == Handlers \cup Notifiers

ASSUME PipelineAssumption ==
    /\ Poller \in Handlers
    /\ Handlers \cap Notifiers = {}
    /\ NoOne \notin Procs
    /\ NoEnd \notin Nat
    /\ Scopes # {}
    /\ {"ONBATT", "ONLINE"} \subseteq Types
    /\ Window \in Nat \ {0}
    /\ MaxTime \in Nat /\ MaxReports \in Nat
    /\ MaxErrors \in Nat /\ MaxCrashes \in Nat

VARIABLES
    now,      \* the clock, in seconds
    rows,     \* the events table, in order of insertion
    lock,     \* who holds data_lock
    proc,     \* where each handler and notifier is, and with which report
    reports,  \* how many reports were received
    told,     \* history: how often each report was notified
    cover,    \* history: the row a report was suppressed for, 0 when none
    found,    \* history: how many rows a report's notifier ended rows of
    faults    \* database errors and crashes so far, against their bounds

vars == <<now, rows, lock, proc, reports, told, cover, found, faults>>

Reports == 1..MaxReports

Row == [type : Types, scope : Scopes, begin : Nat, end : Nat \cup {NoEnd},
        by : Procs, report : Reports]

Stages == {"idle", "received", "checked", "stored", "told", "closing",
           "failed", "closed", "inserted"}

\* report is 0 and type, scope and at are meaningless when the stage is idle.
Process == [stage : Stages, type : Types, scope : Scopes, at : Nat,
            report : 0..MaxReports, row : Nat]

FaultCounts == [errors : 0..MaxErrors, crashes : 0..MaxCrashes]

TypeOK ==
    /\ now \in Nat
    /\ rows \in Seq(Row)
    /\ lock \in Handlers \cup {NoOne}
    /\ proc \in [Procs -> Process]
    /\ reports \in 0..MaxReports
    /\ told \in [Reports -> Nat]
    /\ cover \in [Reports -> Nat]
    /\ found \in [Reports -> Nat]
    /\ faults \in FaultCounts
    /\ \A p \in Procs : proc[p].stage # "idle" => proc[p].report \in Reports
    /\ \A p \in Procs : proc[p].stage = "closing" =>
                            proc[p].row \in DOMAIN rows

Idle == [stage |-> "idle", type |-> CHOOSE e \in Types : TRUE,
         scope |-> CHOOSE s \in Scopes : TRUE, at |-> 0, report |-> 0,
         row |-> 0]

Init ==
    /\ now = 0 /\ rows = <<>> /\ lock = NoOne
    /\ proc = [p \in Procs |-> Idle]
    /\ reports = 0
    /\ told = [r \in Reports |-> 0]
    /\ cover = [r \in Reports |-> 0]
    /\ found = [r \in Reports |-> 0]
    /\ faults = [errors |-> 0, crashes |-> 0]

Tick ==
    /\ now < MaxTime
    /\ now' = now + 1
    /\ UNCHANGED <<rows, lock, proc, reports, told, cover, found, faults>>

-----------------------------------------------------------------------------
(* handle_nut_event.                                                       *)

\* The time of the event is taken before anything else.
Receive(p, e, s) ==
    /\ proc[p].stage = "idle"
    /\ reports < MaxReports
    /\ reports' = reports + 1
    /\ proc' = [proc EXCEPT ![p] =
                   [stage |-> "received", type |-> e, scope |-> s,
                    at |-> now, report |-> reports + 1, row |-> 0]]
    /\ UNCHANGED <<now, rows, lock, told, cover, found, faults>>

\* find_recent_duplicate_event: there is no upper bound.
Duplicates(p) ==
    {i \in DOMAIN rows :
        /\ rows[i].type = proc[p].type /\ rows[i].scope = proc[p].scope
        /\ rows[i].begin + Window >= proc[p].at}

Newest(I) == {i \in I : \A j \in I : rows[j].begin <= rows[i].begin}

\* Faulty variant: a suppressed event is reported as not handled.
SuppressFailing(p) ==
    /\ proc[p].stage = "received" /\ lock = NoOne
    /\ \E i \in Newest(Duplicates(p)) :
          cover' = [cover EXCEPT ![proc[p].report] = i]
    /\ proc' = [proc EXCEPT ![p].stage = "failed"]
    /\ UNCHANGED <<now, rows, lock, reports, told, found, faults>>

Suppress(p) ==
    /\ proc[p].stage = "received" /\ lock = NoOne
    /\ \E i \in Newest(Duplicates(p)) :
          cover' = [cover EXCEPT ![proc[p].report] = i]
    /\ proc' = [proc EXCEPT ![p] = Idle]
    /\ UNCHANGED <<now, rows, lock, reports, told, found, faults>>

\* Faulty variant: the lock is not held from the lookup to the insert.
CheckUnlocked(p) ==
    /\ proc[p].stage = "received" /\ lock = NoOne
    /\ Duplicates(p) = {}
    /\ proc' = [proc EXCEPT ![p].stage = "checked"]
    /\ UNCHANGED <<now, rows, lock, reports, told, cover, found, faults>>

\* No duplicate: the lock stays held.
Check(p) ==
    /\ proc[p].stage = "received" /\ lock = NoOne
    /\ Duplicates(p) = {}
    /\ lock' = p
    /\ proc' = [proc EXCEPT ![p].stage = "checked"]
    /\ UNCHANGED <<now, rows, reports, told, cover, found, faults>>

NewRow(p) == [type |-> proc[p].type, scope |-> proc[p].scope,
              begin |-> proc[p].at, end |-> NoEnd, by |-> p,
              report |-> proc[p].report]

Store(p) ==
    /\ proc[p].stage = "checked"
    /\ rows' = Append(rows, NewRow(p))
    /\ lock' = NoOne
    /\ proc' = [proc EXCEPT ![p].stage = "stored"]
    /\ UNCHANGED <<now, reports, told, cover, found, faults>>

\* The lookup or the insert raises: the lock is released, the event is
\* reported as not handled.
StoreFails(p) ==
    /\ \/ proc[p].stage = "received" /\ lock = NoOne /\ UNCHANGED lock
       \/ proc[p].stage = "checked" /\ lock' = NoOne
    /\ faults.errors < MaxErrors
    /\ faults' = [faults EXCEPT !.errors = @ + 1]
    /\ proc' = [proc EXCEPT ![p].stage = "failed"]
    /\ UNCHANGED <<now, rows, reports, told, cover, found>>

TellAbout(p) == told' = [told EXCEPT ![proc[p].report] = @ + 1]

\* Every channel is tried, or the legacy mail when the dispatch raised.
Notify(p) ==
    /\ proc[p].stage = "stored"
    /\ TellAbout(p)
    /\ proc' = [proc EXCEPT ![p] =
                   IF @.type = "ONLINE" THEN [@ EXCEPT !.stage = "told"]
                                        ELSE Idle]
    /\ UNCHANGED <<now, rows, lock, reports, cover, found, faults>>

OpenOutages(s) == {i \in DOMAIN rows : /\ rows[i].type = "ONBATT"
                                      /\ rows[i].scope = s
                                      /\ rows[i].end = NoEnd}

\* Faulty variant: the outage is looked up before the lock is taken.
FindOutageUnlocked(p) ==
    /\ proc[p].stage = "told" /\ lock = NoOne
    /\ \E i \in Newest(OpenOutages(proc[p].scope)) :
          proc' = [proc EXCEPT ![p].stage = "closing", ![p].row = i]
    /\ UNCHANGED <<now, rows, lock, reports, told, cover, found, faults>>

\* ONLINE looks up the newest outage of its scope that has no end.
FindOutage(p) ==
    /\ proc[p].stage = "told" /\ lock = NoOne
    /\ \E i \in Newest(OpenOutages(proc[p].scope)) :
          proc' = [proc EXCEPT ![p].stage = "closing", ![p].row = i]
    /\ lock' = p
    /\ UNCHANGED <<now, rows, reports, told, cover, found, faults>>

NoOutage(p) ==
    /\ proc[p].stage = "told" /\ lock = NoOne
    /\ OpenOutages(proc[p].scope) = {}
    /\ proc' = [proc EXCEPT ![p] = Idle]
    /\ UNCHANGED <<now, rows, lock, reports, told, cover, found, faults>>

\* Faulty variant: the end of the outage is not stored.
CloseNothing(p) ==
    /\ proc[p].stage = "closing"
    /\ lock' = NoOne
    /\ proc' = [proc EXCEPT ![p] = Idle]
    /\ UNCHANGED <<now, rows, reports, told, cover, found, faults>>

CloseOutage(p) ==
    /\ proc[p].stage = "closing"
    /\ rows' = [rows EXCEPT ![proc[p].row].end = proc[p].at]
    /\ lock' = NoOne
    /\ proc' = [proc EXCEPT ![p] = Idle]
    /\ UNCHANGED <<now, reports, told, cover, found, faults>>

CloseFails(p) ==
    /\ \/ proc[p].stage = "told" /\ lock = NoOne /\ UNCHANGED lock
       \/ proc[p].stage = "closing" /\ lock' = NoOne
    /\ faults.errors < MaxErrors
    /\ faults' = [faults EXCEPT !.errors = @ + 1]
    /\ proc' = [proc EXCEPT ![p].stage = "failed"]
    /\ UNCHANGED <<now, rows, reports, told, cover, found>>

\* handle_nut_event returned False.  The polling thread notifies directly,
\* which may raise (polling goes on, see TargetPolling); a request answers
\* with status 500, which its sender ignores.
Fallback(p) ==
    /\ proc[p].stage = "failed"
    /\ \/ p = Poller /\ TellAbout(p)
       \/ UNCHANGED told
    /\ proc' = [proc EXCEPT ![p] = Idle]
    /\ UNCHANGED <<now, rows, lock, reports, cover, found, faults>>

\* The application restarts: the rows remain.
Crash ==
    /\ faults.crashes < MaxCrashes
    /\ faults' = [faults EXCEPT !.crashes = @ + 1]
    /\ lock' = NoOne
    /\ proc' = [p \in Procs |-> IF p \in Handlers THEN Idle ELSE proc[p]]
    /\ UNCHANGED <<now, rows, reports, told, cover, found>>

-----------------------------------------------------------------------------
(* process_ups_event, for an event that agrees with what upsc says.        *)

\* Faulty variant: only outages are ended.
NotifierCloseOutages(p, e, s) ==
    /\ proc[p].stage = "idle"
    /\ reports < MaxReports
    /\ reports' = reports + 1
    /\ proc' = [proc EXCEPT ![p] =
                   [stage |-> "closed", type |-> e, scope |-> s,
                    at |-> now, report |-> reports + 1, row |-> 0]]
    /\ rows' = [i \in DOMAIN rows |->
                   IF /\ i \in OpenOutages(s)
                      /\ NameOf[rows[i].by] = NameOf[p]
                   THEN [rows[i] EXCEPT !.end = now] ELSE rows[i]]
    /\ found' = [found EXCEPT ![reports'] = Len(rows)]
    /\ UNCHANGED <<now, lock, told, cover, faults>>

\* close_previous_events ends every open row of this name and scope.
NotifierClose(p, e, s) ==
    /\ proc[p].stage = "idle"
    /\ reports < MaxReports
    /\ reports' = reports + 1
    /\ proc' = [proc EXCEPT ![p] =
                   [stage |-> "closed", type |-> e, scope |-> s,
                    at |-> now, report |-> reports + 1, row |-> 0]]
    /\ rows' = [i \in DOMAIN rows |->
                   IF /\ rows[i].scope = s /\ rows[i].end = NoEnd
                      /\ NameOf[rows[i].by] = NameOf[p]
                   THEN [rows[i] EXCEPT !.end = now] ELSE rows[i]]
    /\ found' = [found EXCEPT ![reports'] = Len(rows)]
    /\ UNCHANGED <<now, lock, told, cover, faults>>

\* It cannot: the event is stored all the same.
NotifierCloseFails(p, e, s) ==
    /\ proc[p].stage = "idle"
    /\ reports < MaxReports
    /\ faults.errors < MaxErrors
    /\ faults' = [faults EXCEPT !.errors = @ + 1]
    /\ reports' = reports + 1
    /\ proc' = [proc EXCEPT ![p] =
                   [stage |-> "closed", type |-> e, scope |-> s,
                    at |-> now, report |-> reports + 1, row |-> 0]]
    /\ UNCHANGED <<now, rows, lock, told, cover, found>>

\* Faulty variant: the process exits once the row is stored.
NotifierStoreQuiet(p) ==
    /\ proc[p].stage = "closed"
    /\ rows' = Append(rows, NewRow(p))
    /\ proc' = [proc EXCEPT ![p] = Idle]
    /\ UNCHANGED <<now, lock, reports, told, cover, found, faults>>

NotifierStore(p) ==
    /\ proc[p].stage = "closed"
    /\ rows' = Append(rows, NewRow(p))
    /\ proc' = [proc EXCEPT ![p].stage = "inserted"]
    /\ UNCHANGED <<now, lock, reports, told, cover, found, faults>>

\* The process exits without a notification.
NotifierStoreFails(p) ==
    /\ proc[p].stage = "closed"
    /\ faults.errors < MaxErrors
    /\ faults' = [faults EXCEPT !.errors = @ + 1]
    /\ proc' = [proc EXCEPT ![p] = Idle]
    /\ UNCHANGED <<now, rows, lock, reports, told, cover, found>>

NotifierNotify(p) ==
    /\ proc[p].stage = "inserted"
    /\ TellAbout(p)
    /\ proc' = [proc EXCEPT ![p] = Idle]
    /\ UNCHANGED <<now, rows, lock, reports, cover, found, faults>>

HandlerStep(p) ==
    \/ Suppress(p) \/ Check(p) \/ Store(p) \/ Notify(p)
    \/ FindOutage(p) \/ NoOutage(p) \/ CloseOutage(p) \/ Fallback(p)

NotifierStep(p) == NotifierStore(p) \/ NotifierNotify(p)

\* The bounds end the scenario here; stopping anywhere else is a deadlock.
ScenarioOver ==
    /\ now = MaxTime /\ reports = MaxReports
    /\ \A p \in Procs : proc[p].stage = "idle"
    /\ UNCHANGED vars

Next ==
    \/ Tick
    \/ Crash
    \/ ScenarioOver
    \/ \E p \in Handlers :
          \/ \E e \in Types, s \in Scopes : Receive(p, e, s)
          \/ HandlerStep(p) \/ StoreFails(p) \/ CloseFails(p)
    \/ \E p \in Notifiers :
          \/ \E e \in Types, s \in Scopes :
                NotifierClose(p, e, s) \/ NotifierCloseFails(p, e, s)
          \/ NotifierStep(p) \/ NotifierStoreFails(p)

Spec == Init /\ [][Next]_vars

\* Handlers and notifiers always go on.  A handler waits for the lock again
\* and again, but at most twice for every report, so weak fairness is enough.
Fairness == /\ \A p \in Handlers : WF_vars(HandlerStep(p))
            /\ \A p \in Notifiers : WF_vars(NotifierStep(p))

FairSpec == Spec /\ Fairness
-----------------------------------------------------------------------------
(* Properties.                                                             *)

\* The lock is held exactly by the handler between its lookup and its write.
LockDiscipline ==
    \A p \in Handlers :
        proc[p].stage \in {"checked", "closing"} <=> lock = p

\* What a handler found out about duplicates stays true until it stores.
CheckedStaysFresh ==
    \A p \in Handlers : proc[p].stage = "checked" =>
        \A i \in DOMAIN rows :
            /\ rows[i].by \in Handlers
            /\ rows[i].type = proc[p].type /\ rows[i].scope = proc[p].scope
            => rows[i].begin + Window < proc[p].at

\* Two rows handlers stored for the same type and scope are more than Window
\* apart, in the order in which they were stored, whatever the order in
\* which the events were received and whoever crashed or failed on the way.
DedupeSpacing ==
    \A i, j \in DOMAIN rows :
        /\ i < j /\ rows[i].by \in Handlers /\ rows[j].by \in Handlers
        /\ rows[i].type = rows[j].type /\ rows[i].scope = rows[j].scope
        => rows[i].begin + Window < rows[j].begin

PipelineInv == LockDiscipline /\ CheckedStaysFresh /\ DedupeSpacing

InProgress == {proc[p].report : p \in {q \in Procs : proc[q].stage # "idle"}}

StoredReports == {rows[i].report : i \in DOMAIN rows}

\* As long as nothing fails, every report that was dealt with is accounted
\* for once: either it has a row and was notified once, or it was suppressed
\* and was neither stored nor notified.
Accounted ==
    faults.errors = 0 /\ faults.crashes = 0 =>
        \A r \in (1..reports) \ InProgress :
            \/ cover[r] = 0 /\ r \in StoredReports /\ told[r] = 1
            \/ cover[r] # 0 /\ r \notin StoredReports /\ told[r] = 0

\* Between reports, as long as nothing failed and the polling thread alone
\* stored rows, an outage of a scope has an end exactly when ONLINE was stored
\* after it, and does not end before it begins, provided that no two outages
\* of the scope were stored without ONLINE between them.
OutagesMatchPower ==
    LET Is(i, e, s) == rows[i].type = e /\ rows[i].scope = s
        OnlineIn(s, I) == \E k \in I : Is(k, "ONLINE", s)
        Outages(s) == {i \in DOMAIN rows : Is(i, "ONBATT", s)}
    IN  /\ faults.errors = 0 /\ faults.crashes = 0 /\ InProgress = {}
        /\ \A i \in DOMAIN rows : rows[i].by = Poller
        => \A s \in Scopes :
             (\A i, j \in Outages(s) : i < j => OnlineIn(s, i..j)) =>
             \A i \in Outages(s) :
                 /\ rows[i].end # NoEnd <=> OnlineIn(s, i..Len(rows))
                 /\ rows[i].end # NoEnd => rows[i].begin <= rows[i].end

\* The end of a row is set once.  It needs Notifiers = {}: a notifier may
\* end a row a handler is about to end.
EndsOnce ==
    [][\A i \in DOMAIN rows :
          rows[i].end # NoEnd => rows'[i].end = rows[i].end]_rows

\* Once a notifier has ended the rows of its name and scope, those it found
\* there never are open again behind its own row, whoever else ends or stores
\* rows meanwhile.  So of the rows of one name two are open only when their
\* notifiers ran side by side or the later one could not end its
\* predecessors, and the next that can ends them both.
PredecessorsEnded ==
    \A i, j \in DOMAIN rows :
        /\ i < j /\ i <= found[rows[j].report]
        /\ rows[i].scope = rows[j].scope
        /\ NameOf[rows[i].by] = NameOf[rows[j].by]
        => rows[i].end # NoEnd

HeldBy(r) == {i \in DOMAIN rows : rows[i].report = r}

Fate == INSTANCE ReportFate WITH Reports <- Reports, told <- told, cover <- cover,
                                 holds <- [r \in Reports |-> HeldBy(r)]

\* What becomes of a report is what ReportFate promises, whatever the order
\* of handlers and notifiers, whichever write fails and whenever the
\* application crashes.
FollowsFate == Fate!Spec

\* Every report is in the end notified, or suppressed for the sake of one
\* that is, unless a write to the database failed.  It needs MaxCrashes = 0.
EveryReportAnnounced ==
    \A r \in Reports :
        r <= reports ~> \/ told[r] > 0
                        \/ cover[r] # 0 /\ told[rows[cover[r]].report] > 0
                        \/ faults.errors > 0

\* An event is only suppressed as a duplicate (event_dedupe.py, line 29, "a
\* recent identical event row"; changelog.md, line 29): the power has not
\* changed in between.
SuppressedAreDuplicates ==
    \A p \in Handlers :
        LET power == {i \in DOMAIN rows : /\ rows[i].type \in {"ONBATT", "ONLINE"}
                                         /\ rows[i].scope = proc[p].scope}
        IN  /\ proc[p].stage = "received"
            /\ proc[p].type \in {"ONBATT", "ONLINE"}
            /\ Duplicates(p) # {}
            => \E i \in power : /\ \A j \in power : j <= i
                                /\ rows[i].type = proc[p].type

\* ONLINE ends a previous outage (upsmon_client.py, line 365: "Closed
\* previous ONBATT event"), not one stored after it.
ClosesPrevious ==
    \A p \in Handlers : proc[p].stage = "closing" =>
        \A k \in DOMAIN rows :
            rows[k].report = proc[p].report => proc[p].row < k
=============================================================================
