---------------------------- MODULE NutServices ----------------------------
(***************************************************************************)
(* NUT's services and who starts and stops them: administrators            *)
(* (nut/nut_daemon.py through nut/api_nut.py, and advanced/advanced.py,    *)
(* whose restart takes the same steps as a start) and the thread that      *)
(* watches the connection to the UPS (db/internal_checker.py).  Each runs  *)
(* NUT's commands one after the other and waits for them; no lock keeps    *)
(* their sequences apart.  In "netclient" mode only upsmon runs here and   *)
(* the UPS is that of a remote server.                                     *)
(***************************************************************************)
EXTENDS Naturals, Sequences

CONSTANTS Mode,        \* "standalone", "netserver" or "netclient"
          OnUsb,       \* is the UPS, while reachable, a device on this host's USB bus
          Admins,      \* administrators
          Watch,       \* the thread that watches the connection
          MaxUnplugs,  \* bound on losses of the UPS
          MaxRequests, \* bound on administrators' requests
          MaxFaults    \* bound on commands that time out or find nothing

ASSUME ServicesAssumption ==
    /\ Mode \in {"standalone", "netserver", "netclient"}
    /\ OnUsb \in BOOLEAN
    /\ Watch \notin Admins
    /\ MaxUnplugs \in Nat /\ MaxRequests \in Nat /\ MaxFaults \in Nat

Services == {"driver", "upsd", "upsmon"}
Actors   == Admins \cup {Watch}

VARIABLES
    reachable,  \* is the UPS plugged in, or the remote server up
    attached,   \* does the driver talk to the UPS
    running,    \* the services that run
    tasks,      \* what each actor still has to run, and for which operation
    stage,      \* where the watching thread is
    connected, in_recovery_mode, is_usb_disconnect,
    commoks,    \* history: COMMOKs since the last loss was announced
    counts

device == <<reachable, attached>>
flags  == <<connected, in_recovery_mode, is_usb_disconnect>>
vars   == <<device, running, tasks, stage, flags, commoks, counts>>

Local    == Mode # "netclient"
Commands == [do : {"stop", "start"}, what : Services]

Stops         == [i \in 1..3 |-> [do |-> "stop",
                                  what |-> <<"upsmon", "upsd", "driver">>[i]]]
StartsAll     == [i \in 1..3 |-> [do |-> "start",
                                  what |-> <<"driver", "upsd", "upsmon">>[i]]]
StartsForMode == IF Local THEN StartsAll ELSE <<StartsAll[3]>>

Operations == {"none", "start", "stop", "restart", "forced", "recover"}

Idle == [op |-> "none", todo |-> <<>>]

TypeOK ==
    /\ reachable \in BOOLEAN /\ attached \in BOOLEAN
    /\ running \subseteq Services
    /\ tasks \in [Actors -> [op : Operations, todo : Seq(Commands)]]
    /\ stage \in {"check", "scan", "restart", "verify", "sleep", "unconfigured", "dead"}
    /\ connected \in BOOLEAN /\ in_recovery_mode \in BOOLEAN
    /\ is_usb_disconnect \in BOOLEAN
    /\ commoks \in Nat
    /\ counts \in [unplugs : 0..MaxUnplugs, requests : 0..MaxRequests, faults : 0..MaxFaults]

(* The start of the program has tried to start the services, and failed to *)
(* when the UPS was away, before it starts the thread.  It starts it also  *)
(* when NUT's files name no UPS, and they are read once.                   *)
Init ==
    /\ reachable \in BOOLEAN
    /\ attached = (Local /\ reachable)
    /\ running = IF ~Local THEN {"upsmon"}
                 ELSE IF reachable THEN Services ELSE {"upsd", "upsmon"}
    /\ tasks = [a \in Actors |-> Idle]
    /\ stage \in {"check", "unconfigured"}
    /\ connected = TRUE /\ in_recovery_mode = FALSE /\ is_usb_disconnect = FALSE
    /\ commoks = 1
    /\ counts = [unplugs |-> 0, requests |-> 0, faults |-> 0]

Count(what) == counts' = [counts EXCEPT ![what] = @ + 1]
Fault       == counts.faults < MaxFaults /\ Count("faults")

-----------------------------------------------------------------------------
Unplug ==
    /\ reachable
    /\ counts.unplugs < MaxUnplugs
    /\ Count("unplugs")
    /\ reachable' = FALSE /\ attached' = FALSE
    /\ UNCHANGED <<running, tasks, stage, flags, commoks>>

Plug ==
    /\ ~reachable
    /\ reachable' = TRUE
    /\ UNCHANGED <<attached, running, tasks, stage, flags, commoks, counts>>

(* A driver may find its UPS again on its own.                             *)
Reattach ==
    /\ reachable /\ ~attached /\ "driver" \in running
    /\ attached' = TRUE
    /\ UNCHANGED <<reachable, running, tasks, stage, flags, commoks, counts>>

(* What upsc needs to get an answer.                                       *)
Answers == IF Local THEN attached /\ {"driver", "upsd"} \subseteq running ELSE reachable

(* A driver starts, in place of one that runs, when it finds its UPS; the  *)
(* others refuse to start twice.                                           *)
Startable(s) ==
    CASE s = "driver" -> Local /\ reachable
      [] s = "upsd"   -> Local /\ s \notin running
      [] s = "upsmon" -> s \notin running

Stop(s) ==
    /\ running' = running \ {s}
    /\ attached' = (attached /\ s # "driver")

Start(s) ==
    /\ running' = running \cup {s}
    /\ attached' = (attached \/ s = "driver")

-----------------------------------------------------------------------------
(* An administrator's request.  A start stops everything first.            *)
Begin(a, op) ==
    /\ a \in Admins /\ tasks[a] = Idle
    /\ counts.requests < MaxRequests
    /\ Count("requests")
    /\ tasks' = [tasks EXCEPT ![a] =
                    [op |-> op, todo |-> IF op = "start" THEN Stops \o StartsForMode ELSE Stops]]
    /\ UNCHANGED <<device, running, stage, flags, commoks>>

Becomes(a, op, todo) == tasks' = [tasks EXCEPT ![a] = [op |-> op, todo |-> todo]]

(* The next command.  A start that is refused is a warning to an           *)
(* administrator's operation and the end of the thread's.                  *)
Execute(a) ==
    LET todo == tasks[a].todo
        c    == Head(todo) IN
    /\ todo # <<>>
    /\ IF c.do = "stop" THEN Stop(c.what)
       ELSE IF Startable(c.what) THEN Start(c.what)
       ELSE UNCHANGED <<running, attached>>
    /\ Becomes(a, tasks[a].op,
               IF a = Watch /\ c.do = "start" /\ ~Startable(c.what) THEN <<>> ELSE Tail(todo))
    /\ UNCHANGED <<reachable, stage, flags, commoks, counts>>

(* What is left of an operation when a command has timed out.  The thread  *)
(* takes it for a failed one; a start gives up its stops, or what it has   *)
(* yet to start; a stop, also a restart's, is forced and is an error.      *)
LeftAfterTimeout(a) ==
    LET op   == tasks[a].op
        todo == tasks[a].todo
        c    == Head(todo) IN
    CASE op = "recover" -> [op |-> op, todo |-> IF c.do = "stop" THEN Tail(todo) ELSE <<>>]
      [] op = "start" /\ c.do = "stop" -> [op |-> op, todo |-> StartsForMode]
      [] op \in {"stop", "restart"} -> [op |-> "forced", todo |-> Stops]
      [] OTHER -> Idle

(* The command may have had its effect all the same.                       *)
TimesOut(a, done) ==
    LET todo == tasks[a].todo
        c    == Head(todo) IN
    /\ todo # <<>>
    /\ Fault
    /\ IF done /\ c.do = "stop" THEN Stop(c.what)
       ELSE IF done /\ Startable(c.what) THEN Start(c.what)
       ELSE UNCHANGED <<running, attached>>
    /\ tasks' = [tasks EXCEPT ![a] = LeftAfterTimeout(a)]
    /\ UNCHANGED <<reachable, stage, flags, commoks>>

(* A restart that could stop goes on to start; other operations are over.  *)
End(a) ==
    /\ a \in Admins /\ tasks[a] # Idle /\ tasks[a].todo = <<>>
    /\ IF tasks[a].op = "restart" THEN Becomes(a, "start", Stops \o StartsForMode)
                                  ELSE tasks' = [tasks EXCEPT ![a] = Idle]
    /\ UNCHANGED <<device, running, stage, flags, commoks, counts>>

-----------------------------------------------------------------------------
(* Without the UPS's name the check calls ups_config.load_from_database,   *)
(* which is no method of UPSConfig: nothing catches the error.             *)
CheckRaises ==
    /\ stage = "unconfigured"
    /\ stage' = "dead"
    /\ UNCHANGED <<device, running, tasks, flags, commoks, counts>>

(* The thread checks the connection.  An answer ends the recovery, and is  *)
(* announced if the loss was a device's that no restart has handled.       *)
CheckSucceeds ==
    /\ stage = "check"
    /\ Answers
    /\ connected' = TRUE /\ in_recovery_mode' = FALSE
    /\ is_usb_disconnect' = (is_usb_disconnect /\ ~in_recovery_mode)
    /\ commoks' = IF in_recovery_mode /\ is_usb_disconnect THEN commoks + 1 ELSE commoks
    /\ stage' = "sleep"
    /\ UNCHANGED <<device, running, tasks, counts>>

(* Mutant: only the first failure of an outage asks for a restart.         *)
CheckFindsLossOnce ==
    /\ stage = "check"
    /\ ~Answers
    /\ IF connected
       THEN /\ connected' = FALSE /\ in_recovery_mode' = TRUE /\ is_usb_disconnect' = TRUE
            /\ commoks' = 0
       ELSE UNCHANGED <<flags, commoks>>
    /\ stage' = IF is_usb_disconnect' THEN "scan" ELSE "sleep"
    /\ UNCHANGED <<device, running, tasks, counts>>

(* Every error that upsc gives without a device, a driver or a server      *)
(* counts as the loss of a device; a first one is announced.               *)
CheckFindsLoss ==
    /\ stage = "check"
    /\ ~Answers
    /\ IF connected \/ ~is_usb_disconnect
       THEN /\ connected' = FALSE /\ in_recovery_mode' = TRUE /\ is_usb_disconnect' = TRUE
            /\ commoks' = 0
       ELSE UNCHANGED <<flags, commoks>>
    /\ stage' = "scan"
    /\ UNCHANGED <<device, running, tasks, counts>>

(* Mutant: a check that times out leaves the flags.                        *)
CheckTimesOutUnmarked ==
    /\ stage = "check"
    /\ Fault
    /\ connected' = FALSE
    /\ stage' = IF is_usb_disconnect THEN "scan" ELSE "sleep"
    /\ UNCHANGED <<device, running, tasks, in_recovery_mode, is_usb_disconnect, commoks>>

CheckTimesOut ==
    /\ stage = "check"
    /\ Fault
    /\ connected' = FALSE
    /\ in_recovery_mode' = (in_recovery_mode \/ connected)
    /\ stage' = IF is_usb_disconnect THEN "scan" ELSE "sleep"
    /\ UNCHANGED <<device, running, tasks, is_usb_disconnect, commoks>>

(* Any devices on the bus, in any mode and whether or not one of them is   *)
(* the UPS, let the thread restart everything.                             *)
ScanFinds ==
    /\ stage = "scan"
    /\ stage' = "restart"
    /\ Becomes(Watch, "recover", Stops \o StartsAll)
    /\ UNCHANGED <<device, running, flags, commoks, counts>>

(* The scan looks at the bus alone: a UPS on it is found, unless listing   *)
(* the bus fails, and without devices on it there is no restart.           *)
ScanFindsNothing ==
    /\ stage = "scan"
    /\ IF OnUsb /\ reachable THEN Fault ELSE UNCHANGED counts
    /\ stage' = "sleep"
    /\ UNCHANGED <<device, running, tasks, flags, commoks>>

(* Mutant: a restart leaves the flag of the loss.                          *)
RestartEndsFlagKept ==
    /\ stage = "restart" /\ tasks[Watch].todo = <<>>
    /\ tasks' = [tasks EXCEPT ![Watch] = Idle]
    /\ stage' = "verify"
    /\ UNCHANGED <<device, running, flags, commoks, counts>>

(* The loss counts as handled however the restart went.                    *)
RestartEnds ==
    /\ stage = "restart" /\ tasks[Watch].todo = <<>>
    /\ tasks' = [tasks EXCEPT ![Watch] = Idle]
    /\ is_usb_disconnect' = FALSE
    /\ stage' = "verify"
    /\ UNCHANGED <<device, running, connected, in_recovery_mode, commoks, counts>>

(* The scanner may see the UPS, or upsc get its answer, or neither yet.    *)
Verify(sees) ==
    /\ stage = "verify"
    /\ sees => Local /\ reachable
    /\ commoks' = IF sees THEN commoks + 1 ELSE commoks
    /\ stage' = "sleep"
    /\ UNCHANGED <<device, running, tasks, flags, counts>>

Wake ==
    /\ stage = "sleep"
    /\ stage' = "check"
    /\ UNCHANGED <<device, running, tasks, flags, commoks, counts>>

WatchStep ==
    \/ CheckRaises \/ CheckSucceeds \/ CheckFindsLoss \/ CheckTimesOut
    \/ ScanFinds \/ ScanFindsNothing \/ RestartEnds
    \/ \E sees \in BOOLEAN : Verify(sees)
    \/ Wake

Next ==
    \/ Unplug \/ Plug \/ Reattach
    \/ \E a \in Admins, op \in {"start", "stop", "restart"} : Begin(a, op)
    \/ \E a \in Actors : Execute(a) \/ End(a)
    \/ \E a \in Actors, done \in BOOLEAN : TimesOut(a, done)
    \/ WatchStep

Spec == Init /\ [][Next]_vars

(* The thread and the operations under way go on.                          *)
Fairness ==
    /\ WF_vars(WatchStep)
    /\ \A a \in Actors : WF_vars(Execute(a) \/ End(a))

FairSpec == Spec /\ Fairness

-----------------------------------------------------------------------------
(* The flags agree whatever the order of checks, restarts and requests:    *)
(* the thread is in recovery exactly while the connection counts as lost,  *)
(* and a lost device is a lost connection.  Otherwise _handle_successful_  *)
(* connection would not set it connected again, or not announce it.        *)
FlagsAgree ==
    /\ in_recovery_mode <=> ~connected
    /\ is_usb_disconnect => ~connected

(* A loss that was announced is followed by one COMMOK at most, though two *)
(* places send it, the check and the verification of a restart.            *)
OneCommokPerLoss == commoks <= 1

(* Once a UPS on the USB bus stays plugged in, the services come to answer *)
(* and go on answering, whatever administrators stopped, whichever of the  *)
(* unlocked sequences of commands interleaved, and whichever commands      *)
(* timed out: as long as the thread has not died at its first check.  A    *)
(* UPS that the scan cannot see may keep its services stopped.             *)
EventuallyServed ==
    OnUsb /\ <>[](reachable /\ stage # "dead") => <>[](Answers /\ connected)

(* "netclient mode, we only need upsmon" (nut_daemon.py): upsmon, once     *)
(* started, runs again when an outage of the remote server is over.        *)
UpsmonReturns == <>[](reachable /\ stage # "dead") => []<>("upsmon" \in running)
=============================================================================
