--------------------------- MODULE Threads_proofs ---------------------------
(***************************************************************************)
(* Proofs about the threads that poll targets and that send reports:       *)
(* TargetPolling and ReportScheduler.  They share no variable; the names of *)
(* ReportScheduler that would be those of TargetPolling carry the prefix   *)
(* Scheduler.                                                              *)
(***************************************************************************)
EXTENDS TargetPolling, ReportScheduler, SequenceTheorems,
        NaturalsInduction, WellFoundedInduction, TLAPS

(***************************************************************************)
(* TargetPolling: its types, the link between the debounce memory and what *)
(* listeners were told, and the implementation of OutageReport.            *)
(***************************************************************************)

(* One failed poll keeps the type of the debounce memory. *)
LEMMA AfterFailureType ==
    ASSUME NEW c \in CommunicationState
    PROVE  AfterFailure(c) \in CommunicationState
  BY ThresholdAssumption DEF CommunicationState, AfterFailure

(* The events of a failed poll are nothing, COMMBAD, NOCOMM or both. *)
LEMMA FailureEventsType ==
    ASSUME NEW c \in CommunicationState
    PROVE  FailureEvents(c) \in
             {<<>>, <<"COMMBAD">>, <<"NOCOMM">>, <<"COMMBAD", "NOCOMM">>}
<1> DEFINE d == AfterFailure(c)
           a == IF d.commBad /\ ~c.commBad THEN <<"COMMBAD">> ELSE <<>>
           b == IF d.noComm /\ ~c.noComm THEN <<"NOCOMM">> ELSE <<>>
<1>1. FailureEvents(c) = a \o b
  BY DEF FailureEvents
<1>2. <<"COMMBAD">> \o <<"NOCOMM">> = <<"COMMBAD", "NOCOMM">>
  <2> DEFINE x == <<"COMMBAD">>
             y == <<"NOCOMM">>
             z == <<"COMMBAD", "NOCOMM">>
  <2>1. /\ x \in Seq(Events) /\ y \in Seq(Events) /\ z \in Seq(Events)
        /\ Len(x) = 1 /\ Len(y) = 1 /\ Len(z) = 2
        /\ x[1] = z[1] /\ y[1] = z[2]
    BY DEF Events, CommEvents
  <2> HIDE DEF x, y, z
  <2>2. /\ x \o y \in Seq(Events) /\ Len(x \o y) = 2
        /\ (x \o y)[1] = z[1] /\ (x \o y)[2] = z[2]
    BY <2>1, ConcatProperties, SMTT(60)
  <2>3. \A i \in 1..Len(x \o y) : (x \o y)[i] = z[i]
    BY <2>2
  <2>4. x \o y = z
    BY <2>1, <2>2, <2>3, SeqEqual
  <2> QED BY <2>4 DEF x, y, z
<1>3. a \in {<<>>, <<"COMMBAD">>} /\ b \in {<<>>, <<"NOCOMM">>}
  OBVIOUS
<1>4. /\ <<>> \o <<>> = <<>>
      /\ <<>> \o <<"NOCOMM">> = <<"NOCOMM">>
      /\ <<"COMMBAD">> \o <<>> = <<"COMMBAD">>
  OBVIOUS
<1> QED
  <2> HIDE DEF a, b
  <2> QED BY <1>1, <1>2, <1>3, <1>4

(* The events of a successful poll are nothing or COMMOK. *)
LEMMA SuccessEventsType ==
    ASSUME NEW c \in CommunicationState
    PROVE  SuccessEvents(c) \in Seq(Events)
  BY DEF SuccessEvents, Events, CommEvents

(* Counting one more fault under its bound keeps the counters' types. *)
LEMMA FaultCountsType ==
    ASSUME NEW f \in FaultCounts
    PROVE  /\ f.handled < MaxFaults =>
                 [f EXCEPT !.handled = @ + 1] \in FaultCounts
           /\ f.escaped < MaxEscapes =>
                 [f EXCEPT !.escaped = @ + 1] \in FaultCounts
           /\ f.restarts < MaxRestarts =>
                 [f EXCEPT !.restarts = @ + 1] \in FaultCounts
  BY PollingAssumption DEF FaultCounts

(* A sample keeps the type of the power memory. *)
LEMMA AfterSampleType ==
    ASSUME NEW p \in PowerState, NEW s \in Sample
    PROVE  AfterSample(p, s) \in PowerState
  BY DEF AfterSample, DerivedPowerState, PowerState, Sample

(* The events of a sample are power events. *)
LEMMA TransitionEventsType ==
    ASSUME NEW p \in PowerState, NEW s \in Sample
    PROVE  TransitionEvents(p, s) \in Seq(PowerAlarms)
<1> DEFINE new == DerivedPowerState(s)
           Rising(was, is, e) == IF ~was /\ is THEN <<e>> ELSE <<>>
           e1 == Rising(p.onBattery, new.onBattery, "ONBATT")
           e2 == Rising(new.onBattery, p.onBattery, "ONLINE")
           e3 == Rising(p.lowBattery, new.lowBattery, "LOWBATT")
           e4 == Rising(p.replaceBattery, new.replaceBattery, "REPLBATT")
           e5 == Rising(p.forcedShutdown, new.forcedShutdown, "SHUTDOWN")
<1>0. \A was, is : \A e \in PowerAlarms :
        Rising(was, is, e) \in Seq(PowerAlarms)
  OBVIOUS
<1>1. /\ e1 \in Seq(PowerAlarms) /\ e2 \in Seq(PowerAlarms)
      /\ e3 \in Seq(PowerAlarms) /\ e4 \in Seq(PowerAlarms)
      /\ e5 \in Seq(PowerAlarms) /\ <<>> \in Seq(PowerAlarms)
  <2> HIDE DEF Rising
  <2> QED BY <1>0 DEF PowerAlarms
<1>2. TransitionEvents(p, s) \in {<<>>, e1 \o e2 \o e3 \o e4 \o e5}
  BY Zenon DEF TransitionEvents
<1> HIDE DEF e1, e2, e3, e4, e5
<1>3. e1 \o e2 \in Seq(PowerAlarms)
  BY <1>1, ConcatProperties
<1>4. e1 \o e2 \o e3 \in Seq(PowerAlarms)
  BY <1>1, <1>3, ConcatProperties
<1>5. e1 \o e2 \o e3 \o e4 \in Seq(PowerAlarms)
  BY <1>1, <1>4, ConcatProperties
<1>6. e1 \o e2 \o e3 \o e4 \o e5 \in Seq(PowerAlarms)
  BY <1>1, <1>5, ConcatProperties
<1> QED BY <1>1, <1>2, <1>6

(* TypeOK holds in every state: the variables keep their shapes through   *)
(* every poll, fault and restart.                                          *)
THEOREM TypeCorrect == Spec => []TypeOK
<1> USE ThresholdAssumption, PollingAssumption
<1>1. Init => TypeOK
  <2> SUFFICES ASSUME Init PROVE TypeOK
    OBVIOUS
  <2>1. Fresh \in CommunicationState /\ Unseeded \in PowerState
    BY DEF Fresh, CommunicationState, Unseeded, PowerState
  <2>2. NoSample \in Sample /\ <<>> \in Seq(Events)
    BY DEF NoSample, Sample
  <2>3. faults \in FaultCounts
    BY DEF Init, FaultCounts
  <2>4. requests \in 0..MaxAsked /\ asked \subseteq PollRequest
    BY DEF Init
  <2>5. /\ comm \in [Targets -> CommunicationState]
        /\ power \in [Targets -> PowerState]
    BY <2>1 DEF Init
  <2>6. /\ enabled \subseteq Targets /\ age \in [Targets -> Nat]
        /\ reachable \in [Targets -> BOOLEAN] /\ lastTest \in [Targets -> BOOLEAN]
        /\ loaded \in BOOLEAN
    BY DEF Init
  <2>7. /\ announced \in [Targets -> {"up", "bad", "lost"}]
        /\ lastPower \in [Targets -> {"unknown", "ONBATT", "ONLINE"}]
        /\ vouched \subseteq Targets
        /\ streak \in [Targets -> 0..NoCommThreshold]
    BY DEF Init
  <2>8. /\ todo \subseteq Targets /\ stage \in Stages
        /\ sample \in Sample /\ outbox \in Seq(Events)
    BY <2>2 DEF Init, Stages
  <2> QED BY <2>3, <2>4, <2>5, <2>6, <2>7, <2>8 DEF TypeOK
<1>2. TypeOK /\ [Next]_vars => TypeOK'
  <2> SUFFICES ASSUME TypeOK, [Next]_vars
               PROVE  TypeOK'
    OBVIOUS
  <2> USE DEF TypeOK
  <2>1. CASE WakeUp
    BY <2>1 DEF WakeUp, world, memory, told
  <2>2. CASE Restart
    <3>1. Fresh \in CommunicationState /\ Unseeded \in PowerState
      BY DEF Fresh, CommunicationState, Unseeded, PowerState
    <3>2. NoSample \in Sample /\ <<>> \in Seq(Events)
      BY DEF NoSample, Sample
    <3>3. faults' \in FaultCounts
      BY <2>2, FaultCountsType DEF Restart
    <3> QED BY <2>2, <3>1, <3>2, <3>3 DEF Restart, test, told, Stages
  <2>3. ASSUME NEW t \in Targets, LinkChanges(t) PROVE TypeOK'
    BY <2>3 DEF LinkChanges, memory, test, loop, told
  <2>4. ASSUME NEW t \in Targets, SetEnabled(t) PROVE TypeOK'
    BY <2>4 DEF SetEnabled, memory, test, loop, told
  <2>5. ASSUME NEW t \in Targets, SkipTarget(t) PROVE TypeOK'
    BY <2>5 DEF SkipTarget, world, memory, test, told
  <2>6. ASSUME NEW t \in Targets, QueryFails(t) PROVE TypeOK'
    <3>1. comm' \in [Targets -> CommunicationState]
      <4>1. AfterFailure(comm[t]) \in CommunicationState
        BY AfterFailureType
      <4> QED BY <2>6, <4>1 DEF QueryFails
    <3>2. outbox' \in Seq(Events)
      <4>1. FailureEvents(comm[t]) \in
              {<<>>, <<"COMMBAD">>, <<"NOCOMM">>, <<"COMMBAD", "NOCOMM">>}
        BY FailureEventsType
      <4>2. /\ <<>> \in Seq(Events) /\ <<"COMMBAD">> \in Seq(Events)
            /\ <<"NOCOMM">> \in Seq(Events)
            /\ <<"COMMBAD", "NOCOMM">> \in Seq(Events)
        BY DEF Events, CommEvents
      <4> QED BY <2>6, <4>1, <4>2 DEF QueryFails
    <3>3. streak' \in [Targets -> 0..NoCommThreshold]
      BY <2>6 DEF QueryFails
    <3> QED BY <2>6, <3>1, <3>2, <3>3
            DEF QueryFails, world, test, told, Stages
  <2>7. ASSUME NEW t \in Targets, PersistErrorState(t) PROVE TypeOK'
    BY <2>7 DEF PersistErrorState, world, memory, told, Stages
  <2>8. ASSUME NEW t \in Targets, NEW s \in Samples, QueryAnswers(t, s)
        PROVE  TypeOK'
    <3>1. streak' \in [Targets -> 0..NoCommThreshold]
      BY <2>8 DEF QueryAnswers
    <3>2. sample' \in Sample
      BY <2>8 DEF QueryAnswers
    <3> QED BY <2>8, <3>1, <3>2
            DEF QueryAnswers, world, memory, test, told, Stages
  <2>9. ASSUME NEW t \in Targets, CommitSuccess(t) PROVE TypeOK'
    <3>1. Fresh \in CommunicationState
      BY DEF Fresh, CommunicationState
    <3>2. SuccessEvents(comm[t]) \in Seq(Events)
      BY SuccessEventsType
    <3> QED BY <2>9, <3>1, <3>2 DEF CommitSuccess, world, told, Stages
  <2>10. ASSUME NEW t \in Targets, HandOver(t) PROVE TypeOK'
    <3>1. outbox' \in Seq(Events)
      BY <2>10 DEF HandOver
    <3>2. announced' \in [Targets -> {"up", "bad", "lost"}]
      BY <2>10 DEF HandOver
    <3>3. lastPower' \in [Targets -> {"unknown", "ONBATT", "ONLINE"}]
      BY <2>10 DEF HandOver
    <3> QED BY <2>10, <3>1, <3>2, <3>3 DEF HandOver, world, memory, test
  <2>11. ASSUME NEW t \in Targets, CollectTransitions(t) PROVE TypeOK'
    <3>1. power' \in [Targets -> PowerState]
      BY <2>11, AfterSampleType DEF CollectTransitions
    <3>2. outbox' \in Seq(Events)
      <4>1. TransitionEvents(power[t], sample) \in Seq(PowerAlarms)
        BY TransitionEventsType
      <4> QED BY <2>11, <4>1, SeqMonotonic DEF CollectTransitions, Events
    <3> QED BY <2>11, <3>1, <3>2
            DEF CollectTransitions, world, test, told, Stages
  <2>12. ASSUME NEW t \in Targets, FinishTarget(t) PROVE TypeOK'
    BY <2>12 DEF FinishTarget, world, memory, test, told, Stages
  <2>13. ASSUME NEW t \in Targets, CommitFails(t) PROVE TypeOK'
    <3>1. faults' \in FaultCounts
      BY <2>13, FaultCountsType DEF CommitFails
    <3>2. <<>> \in Seq(Events)
      OBVIOUS
    <3> QED BY <2>13, <3>1, <3>2
            DEF CommitFails, world, memory, told, Stages
  <2>14. ASSUME NEW t \in Targets, CycleAborted(t) PROVE TypeOK'
    <3>1. faults' \in FaultCounts
      BY <2>14, FaultCountsType DEF CycleAborted, Escaping
    <3>2. <<>> \in Seq(Events)
      OBVIOUS
    <3>3. age' \in [Targets -> Nat]
      BY <2>14 DEF CycleAborted
    <3> QED BY <2>14, <3>1, <3>2, <3>3
            DEF CycleAborted, world, memory, told, Stages
  <2>15. ASSUME NEW t \in Targets, HandOverFails(t) PROVE TypeOK'
    <3>1. faults' \in FaultCounts
      BY <2>15, FaultCountsType DEF HandOverFails, Escaping
    <3>2. <<>> \in Seq(Events)
      OBVIOUS
    <3> QED BY <2>15, <3>1, <3>2
            DEF HandOverFails, world, memory, test, told, Stages
  <2>16. CASE UNCHANGED vars
    BY <2>16 DEF vars, world, memory, test, loop, told
  <2>17. ASSUME NEW t \in Targets, PollNowQueries(t) PROVE TypeOK'
    <3>1. requests' \in 1..MaxAsked
      BY <2>17 DEF PollNowQueries
    <3>2. [n |-> requests', target |-> t, answered |-> reachable[t]] \in PollRequest
      BY <3>1 DEF PollRequest
    <3>3. asked' \subseteq PollRequest
      BY <2>17, <3>2 DEF PollNowQueries
    <3> QED BY <2>17, <3>1, <3>3 DEF PollNowQueries, memory, test, loop, told
  <2>18. ASSUME NEW r \in asked, PollNowStores(r) PROVE TypeOK'
    <3>1. r.target \in Targets /\ r.answered \in BOOLEAN
      BY DEF PollRequest
    <3> QED BY <2>18, <3>1 DEF PollNowStores, memory, loop
  <2>19. ASSUME NEW r \in asked, PollNowFails(r) PROVE TypeOK'
    <3>1. r.target \in Targets
      BY DEF PollRequest
    <3>2. faults' \in FaultCounts
      BY <2>19, FaultCountsType DEF PollNowFails
    <3>3. lastTest' \in [Targets -> BOOLEAN] /\ vouched' \subseteq Targets
      BY <2>19, <3>1 DEF PollNowFails
    <3> QED BY <2>19, <3>2, <3>3 DEF PollNowFails, memory, loop
  <2> QED
    BY <2>1, <2>2, <2>3, <2>4, <2>5, <2>6, <2>7, <2>8, <2>9, <2>10, <2>11,
       <2>12, <2>13, <2>14, <2>15, <2>16, <2>17, <2>18, <2>19
       DEF Next, PollStep, FaultStep
<1>3. QED
  BY <1>1, <1>2, PTL DEF Spec

-----------------------------------------------------------------------------
(* The cycle is at one target at a time. *)
LEMMA CurrentUnique ==
    ASSUME TypeOK, NEW t \in Targets, NEW u \in Targets,
           Current(t), Current(u)
    PROVE  t = u
  BY PollingAssumption DEF Current, TypeOK

(* One failure more: how far the memory moves, and what is then reported.  *)
LEMMA FailureStep ==
    ASSUME NEW c \in CommunicationState,
           c.commBad <=> c.failures >= CommBadThreshold,
           c.noComm  <=> c.failures >= NoCommThreshold
    PROVE  LET d == AfterFailure(c)
           IN  /\ d.commBad <=> d.failures >= CommBadThreshold
               /\ d.noComm  <=> d.failures >= NoCommThreshold
               /\ \/ FailureEvents(c) = <<>> /\ Level(d) = Level(c)
                  \/ /\ FailureEvents(c) = <<"COMMBAD">>
                     /\ Level(c) = "up" /\ Level(d) = "bad"
                  \/ /\ FailureEvents(c) = <<"NOCOMM">>
                     /\ Level(c) = "bad" /\ Level(d) = "lost"
<1> USE ThresholdAssumption
<1> DEFINE d == AfterFailure(c)
<1>1. /\ d.commBad <=> d.failures >= CommBadThreshold
      /\ d.noComm  <=> d.failures >= NoCommThreshold
      /\ c.commBad => d.commBad
      /\ c.noComm => d.noComm /\ c.commBad
      /\ d.noComm /\ ~c.noComm => c.commBad
  <2> DEFINE n == IF c.failures < NoCommThreshold THEN c.failures + 1
                                                 ELSE NoCommThreshold
  <2>1. /\ d.failures = n
        /\ d.commBad = (c.commBad \/ n >= CommBadThreshold)
        /\ d.noComm = (c.noComm \/ n >= NoCommThreshold)
    BY DEF AfterFailure
  <2>2. c.failures \in 0..NoCommThreshold
    BY DEF CommunicationState
  <2>3. /\ n \in 0..NoCommThreshold
        /\ c.failures >= CommBadThreshold => n >= CommBadThreshold
        /\ c.failures >= NoCommThreshold => n >= NoCommThreshold
        /\ c.failures >= NoCommThreshold => c.failures >= CommBadThreshold
        /\ n >= NoCommThreshold => c.failures >= CommBadThreshold
    BY <2>2
  <2> HIDE DEF n, d
  <2> QED BY <2>1, <2>3
<1>2. d \in CommunicationState
  BY AfterFailureType
<1>3. /\ <<>> \o <<>> = <<>>
      /\ <<>> \o <<"NOCOMM">> = <<"NOCOMM">>
      /\ <<"COMMBAD">> \o <<>> = <<"COMMBAD">>
  OBVIOUS
<1>4. CASE d.noComm /\ ~c.noComm
  <2>1. FailureEvents(c) = <<>> \o <<"NOCOMM">>
    BY <1>1, <1>4 DEF FailureEvents
  <2> QED BY <1>1, <1>3, <1>4, <2>1 DEF Level
<1>5. CASE d.commBad /\ ~c.commBad
  <2>1. FailureEvents(c) = <<"COMMBAD">> \o <<>>
    BY <1>1, <1>5 DEF FailureEvents
  <2> QED BY <1>1, <1>3, <1>5, <2>1 DEF Level
<1>6. CASE ~(d.noComm /\ ~c.noComm) /\ ~(d.commBad /\ ~c.commBad)
  <2>1. FailureEvents(c) = <<>> \o <<>>
    BY <1>6 DEF FailureEvents
  <2> QED BY <1>1, <1>3, <1>6, <2>1 DEF Level
<1> QED BY <1>4, <1>5, <1>6

(* The debounce memory stays consistent, and what listeners were told of a *)
(* target is what the memory says, for every set of targets, thresholds    *)
(* and intervals, through polls, handled database errors and users         *)
(* switching targets on and off.                                           *)
THEOREM OutageInvariant == Spec => []OutageInv
<1> USE ThresholdAssumption, PollingAssumption
<1>1. Init => OutageInv
  BY DEF Init, OutageInv, FlagsFollowCounter, OutboxShape, ReportsMatchMemory,
         Fresh, Level, Pending
<1>2. TypeOK /\ TypeOK' /\ OutageInv /\ [Next]_vars => OutageInv'
  <2> SUFFICES ASSUME TypeOK, TypeOK', OutageInv, [Next]_vars
               PROVE  OutageInv'
    OBVIOUS
  <2> USE DEF OutageInv
  \* Steps that leave no event pending and the memory alone.
  <2>1. ASSUME UNCHANGED <<comm, announced>>, outbox = <<>>, outbox' = <<>>,
               stage' \in {"next", "commit"},
               UNCHANGED <<faults.escaped, faults.restarts>>
        PROVE  OutageInv'
    <3>1. FlagsFollowCounter'
      BY <2>1 DEF FlagsFollowCounter
    <3>2. OutboxShape'
      BY <2>1 DEF OutboxShape
    <3>3. ReportsMatchMemory'
      BY <2>1 DEF ReportsMatchMemory, Pending
    <3> QED BY <3>1, <3>2, <3>3
  \* Steps that end a poll with an error nothing makes up for.
  <2>2. ASSUME outbox' = <<>>, stage' = "next",
               faults'.escaped # 0 \/ faults'.restarts # 0,
               comm' = comm \/ comm' = [t \in Targets |-> Fresh]
        PROVE  OutageInv'
    <3>1. FlagsFollowCounter'
      BY <2>2 DEF FlagsFollowCounter, Fresh
    <3>2. OutboxShape'
      BY <2>2 DEF OutboxShape
    <3>3. ReportsMatchMemory'
      BY <2>2 DEF ReportsMatchMemory
    <3> QED BY <3>1, <3>2, <3>3
  \* Steps of the surroundings.
  <2>3. ASSUME UNCHANGED <<comm, announced, outbox, stage, todo,
                           faults.escaped, faults.restarts>>
        PROVE  OutageInv'
    BY <2>3 DEF FlagsFollowCounter, OutboxShape, ReportsMatchMemory, Pending,
                Current
  <2>4. CASE WakeUp
    BY <2>1, <2>4 DEF WakeUp, OutboxShape, memory, told
  <2>5. CASE Restart
    <3>1. faults'.restarts # 0
      BY <2>5 DEF Restart, TypeOK, FaultCounts
    <3> QED BY <2>2, <2>5, <3>1 DEF Restart
  <2>6. ASSUME NEW t \in Targets, LinkChanges(t) \/ SetEnabled(t)
        PROVE  OutageInv'
    BY <2>3, <2>6 DEF LinkChanges, SetEnabled, memory, loop, told
  <2>7. ASSUME NEW t \in Targets, SkipTarget(t) PROVE OutageInv'
    BY <2>1, <2>7 DEF SkipTarget, OutboxShape, memory, told
  <2>8. ASSUME NEW t \in Targets, QueryFails(t) PROVE OutageInv'
    <3> DEFINE c == comm[t]
               d == AfterFailure(c)
    <3>1. /\ Current(t) /\ stage = "next" /\ stage' = "persist"
          /\ comm' = [comm EXCEPT ![t] = d]
          /\ outbox' = FailureEvents(c) /\ outbox = <<>>
          /\ UNCHANGED <<todo, announced, faults>>
      BY <2>8 DEF QueryFails, OutboxShape, told
    <3>2. c \in CommunicationState
      BY DEF TypeOK
    <3>3. /\ d.commBad <=> d.failures >= CommBadThreshold
          /\ d.noComm  <=> d.failures >= NoCommThreshold
          /\ \/ FailureEvents(c) = <<>> /\ Level(d) = Level(c)
             \/ /\ FailureEvents(c) = <<"COMMBAD">>
                /\ Level(c) = "up" /\ Level(d) = "bad"
             \/ /\ FailureEvents(c) = <<"NOCOMM">>
                /\ Level(c) = "bad" /\ Level(d) = "lost"
      BY <3>2, FailureStep DEF FlagsFollowCounter
    <3>4. comm'[t] = d /\ \A u \in Targets \ {t} : comm'[u] = comm[u]
      BY <3>1 DEF TypeOK
    <3>5. \A u \in Targets : Current(u)' <=> u = t
      BY <3>1, CurrentUnique DEF Current
    <3> HIDE DEF c, d
    <3>6. FlagsFollowCounter'
      BY <3>3, <3>4 DEF FlagsFollowCounter
    <3>7. OutboxShape'
      BY <3>1, <3>3, <3>4, <3>5 DEF OutboxShape
    <3>8. ReportsMatchMemory'
      <4> SUFFICES ASSUME faults.escaped = 0, faults.restarts = 0,
                          NEW u \in Targets
                   PROVE  /\ Pending(u, "COMMBAD")' => announced'[u] = "up"
                          /\ Pending(u, "NOCOMM")' => announced'[u] = "bad"
                          /\ Pending(u, "COMMOK")' => announced'[u] # "up"
                          /\ (\A e \in CommEvents : ~Pending(u, e)')
                                => announced'[u] = Level(comm'[u])
        BY <3>1 DEF ReportsMatchMemory
      <4>1. announced'[u] = Level(comm[u])
        BY <3>1 DEF ReportsMatchMemory, Pending
      <4>2. CASE u # t
        BY <3>4, <3>5, <4>1, <4>2 DEF Pending
      <4>3. CASE u = t
        <5>1. /\ comm'[u] = d /\ announced'[u] = Level(c) /\ Current(u)'
              /\ outbox' = FailureEvents(c)
          BY <3>1, <3>4, <3>5, <4>1, <4>3 DEF c
        <5>2. CASE FailureEvents(c) = <<>> /\ Level(d) = Level(c)
          BY <5>1, <5>2 DEF Pending
        <5>3. CASE /\ FailureEvents(c) = <<"COMMBAD">>
                   /\ Level(c) = "up" /\ Level(d) = "bad"
          <6>1. outbox' # <<>> /\ Head(outbox') = "COMMBAD"
            BY <5>1, <5>3
          <6>2. Pending(u, "COMMBAD")' /\ ~Pending(u, "NOCOMM")'
                /\ ~Pending(u, "COMMOK")'
            BY <5>1, <6>1 DEF Pending
          <6> QED BY <5>1, <5>3, <6>2 DEF CommEvents
        <5>4. CASE /\ FailureEvents(c) = <<"NOCOMM">>
                   /\ Level(c) = "bad" /\ Level(d) = "lost"
          <6>1. outbox' # <<>> /\ Head(outbox') = "NOCOMM"
            BY <5>1, <5>4
          <6>2. Pending(u, "NOCOMM")' /\ ~Pending(u, "COMMBAD")'
                /\ ~Pending(u, "COMMOK")'
            BY <5>1, <6>1 DEF Pending
          <6> QED BY <5>1, <5>4, <6>2 DEF CommEvents
        <5> QED BY <3>3, <5>2, <5>3, <5>4
      <4> QED BY <4>2, <4>3
    <3> QED BY <3>6, <3>7, <3>8
  <2>9. ASSUME NEW t \in Targets, PersistErrorState(t) PROVE OutageInv'
    BY <2>9 DEF PersistErrorState, memory, told, FlagsFollowCounter,
                OutboxShape, ReportsMatchMemory, Pending, Current
  <2>10. ASSUME NEW t \in Targets, NEW s \in Samples, QueryAnswers(t, s)
         PROVE  OutageInv'
    BY <2>1, <2>10 DEF QueryAnswers, OutboxShape, memory, told
  <2>11. ASSUME NEW t \in Targets, CommitSuccess(t) PROVE OutageInv'
    <3>1. /\ Current(t) /\ stage = "commit" /\ stage' = "recover"
          /\ comm' = [comm EXCEPT ![t] = Fresh]
          /\ outbox' = SuccessEvents(comm[t]) /\ outbox = <<>>
          /\ UNCHANGED <<todo, announced, faults>>
      BY <2>11 DEF CommitSuccess, OutboxShape, told
    <3>2. comm'[t] = Fresh /\ \A u \in Targets \ {t} : comm'[u] = comm[u]
      BY <3>1 DEF TypeOK
    <3>3. \A u \in Targets : Current(u)' <=> u = t
      BY <3>1, CurrentUnique DEF Current
    <3>4. FlagsFollowCounter'
      <4>1. /\ ~Fresh.commBad /\ ~(Fresh.failures >= CommBadThreshold)
            /\ ~Fresh.noComm /\ ~(Fresh.failures >= NoCommThreshold)
        BY DEF Fresh
      <4> QED BY <3>2, <4>1 DEF FlagsFollowCounter
    <3>5. OutboxShape'
      <4>1. outbox' \in {<<>>, <<"COMMOK">>}
        BY <3>1 DEF SuccessEvents
      <4> QED BY <3>1, <3>2, <3>3, <4>1 DEF OutboxShape
    <3>6. ReportsMatchMemory'
      <4> SUFFICES ASSUME faults.escaped = 0, faults.restarts = 0,
                          NEW u \in Targets
                   PROVE  /\ Pending(u, "COMMBAD")' => announced'[u] = "up"
                          /\ Pending(u, "NOCOMM")' => announced'[u] = "bad"
                          /\ Pending(u, "COMMOK")' => announced'[u] # "up"
                          /\ (\A e \in CommEvents : ~Pending(u, e)')
                                => announced'[u] = Level(comm'[u])
        BY <3>1 DEF ReportsMatchMemory
      <4>1. announced'[u] = Level(comm[u])
        BY <3>1 DEF ReportsMatchMemory, Pending
      <4>2. CASE u # t
        BY <3>2, <3>3, <4>1, <4>2 DEF Pending
      <4>3. CASE u = t /\ comm[t].commBad
        <5>1. outbox' = <<"COMMOK">> /\ announced'[t] # "up"
          BY <3>1, <4>1, <4>3 DEF SuccessEvents, Level
        <5> QED BY <3>3, <4>3, <5>1 DEF Pending, CommEvents
      <4>4. CASE u = t /\ ~comm[t].commBad
        <5>1. ~comm[t].noComm
          BY <4>4 DEF FlagsFollowCounter, TypeOK, CommunicationState
        <5>2. outbox' = <<>> /\ announced'[t] = "up"
          BY <3>1, <4>1, <4>4, <5>1 DEF SuccessEvents, Level
        <5> QED BY <3>2, <4>4, <5>2 DEF Pending, Level, Fresh
      <4> QED BY <4>2, <4>3, <4>4
    <3> QED BY <3>4, <3>5, <3>6
  <2>12. ASSUME NEW t \in Targets, CommitFails(t) PROVE OutageInv'
    <3>1. UNCHANGED <<faults.escaped, faults.restarts>>
      BY <2>12 DEF CommitFails, TypeOK, FaultCounts
    <3> QED BY <2>1, <2>12, <3>1 DEF CommitFails, OutboxShape, memory, told
  <2>13. ASSUME NEW t \in Targets, HandOver(t) PROVE OutageInv'
    <3> DEFINE h == Head(outbox)
    <3>1. /\ Current(t) /\ stage \in {"report", "recover", "power"}
          /\ outbox # <<>> /\ outbox' = Tail(outbox)
          /\ UNCHANGED <<comm, todo, stage, faults>>
      BY <2>13 DEF HandOver, memory
    <3>2. /\ announced'[t] = CASE h = "COMMBAD" -> "bad"
                               [] h = "NOCOMM"  -> "lost"
                               [] h = "COMMOK"  -> "up"
                               [] OTHER -> announced[t]
          /\ \A u \in Targets \ {t} : announced'[u] = announced[u]
      BY <2>13 DEF HandOver, TypeOK
    <3>3. \A u \in Targets : Current(u)' <=> u = t
      BY <3>1, CurrentUnique DEF Current
    <3>4. FlagsFollowCounter'
      BY <3>1 DEF FlagsFollowCounter
    <3>5. stage = "report" =>
            /\ outbox' = <<>>
            /\ \/ h = "COMMBAD" /\ Level(comm[t]) = "bad"
               \/ h = "NOCOMM"  /\ Level(comm[t]) = "lost"
      BY <3>1 DEF OutboxShape
    <3>6. stage = "recover" =>
            outbox' = <<>> /\ h = "COMMOK" /\ comm[t] = Fresh
      <4>1. Tail(<<"COMMOK">>) = <<>> /\ Head(<<"COMMOK">>) = "COMMOK"
        OBVIOUS
      <4> QED BY <3>1, <4>1 DEF OutboxShape
    <3>7. stage = "power" =>
            /\ outbox' \in Seq(PowerAlarms)
            /\ h \in PowerAlarms
            /\ outbox' # <<>> => Head(outbox') \in PowerAlarms
      BY <3>1, HeadTailProperties DEF OutboxShape
    <3>8. OutboxShape'
      BY <3>1, <3>3, <3>5, <3>6, <3>7 DEF OutboxShape
    <3>9. ReportsMatchMemory'
      <4> SUFFICES ASSUME faults.escaped = 0, faults.restarts = 0,
                          NEW u \in Targets
                   PROVE  /\ Pending(u, "COMMBAD")' => announced'[u] = "up"
                          /\ Pending(u, "NOCOMM")' => announced'[u] = "bad"
                          /\ Pending(u, "COMMOK")' => announced'[u] # "up"
                          /\ (\A e \in CommEvents : ~Pending(u, e)')
                                => announced'[u] = Level(comm'[u])
        BY <3>1 DEF ReportsMatchMemory
      <4>1. \A e \in CommEvents : ~Pending(u, e)'
        BY <3>1, <3>5, <3>6, <3>7 DEF Pending, CommEvents, PowerAlarms
      <4>2. announced'[u] = Level(comm[u])
        <5>1. CASE u # t
          <6>1. \A e \in CommEvents : ~Pending(u, e)
            BY <3>1, <5>1, CurrentUnique DEF Pending
          <6> QED BY <3>2, <5>1, <6>1 DEF ReportsMatchMemory
        <5>2. CASE u = t /\ stage = "report"
          BY <3>2, <3>5, <5>2
        <5>3. CASE u = t /\ stage = "recover"
          BY <3>2, <3>6, <5>3 DEF Level, Fresh
        <5>4. CASE u = t /\ stage = "power"
          <6>1. h \notin CommEvents
            BY <3>7, <5>4 DEF PowerAlarms, CommEvents
          <6>2. \A e \in CommEvents : ~Pending(t, e)
            BY <6>1 DEF Pending
          <6> QED BY <3>2, <5>4, <6>1, <6>2
                  DEF ReportsMatchMemory, CommEvents
        <5> QED BY <3>1, <5>1, <5>2, <5>3, <5>4
      <4> QED BY <3>1, <4>1, <4>2 DEF CommEvents
    <3> QED BY <3>4, <3>8, <3>9
  <2>14. ASSUME NEW t \in Targets, CollectTransitions(t) PROVE OutageInv'
    <3>1. /\ Current(t) /\ stage = "recover" /\ stage' = "power"
          /\ outbox = <<>> /\ outbox' = TransitionEvents(power[t], sample)
          /\ UNCHANGED <<comm, todo, announced, faults>>
      BY <2>14 DEF CollectTransitions, told
    <3>2. /\ outbox' \in Seq(PowerAlarms)
          /\ outbox' # <<>> => Head(outbox') \in PowerAlarms
      BY <3>1, TransitionEventsType, HeadTailProperties DEF TypeOK
    <3>3. FlagsFollowCounter'
      BY <3>1 DEF FlagsFollowCounter
    <3>4. OutboxShape'
      BY <3>1, <3>2 DEF OutboxShape
    <3>5. \A u \in Targets, e \in CommEvents :
             ~Pending(u, e) /\ ~Pending(u, e)'
      BY <3>1, <3>2 DEF Pending, CommEvents, PowerAlarms
    <3>6. ReportsMatchMemory'
      BY <3>1, <3>5 DEF ReportsMatchMemory, CommEvents
    <3> QED BY <3>3, <3>4, <3>6
  <2>15. ASSUME NEW t \in Targets, FinishTarget(t) PROVE OutageInv'
    BY <2>1, <2>15 DEF FinishTarget, memory, told
  <2>16. ASSUME NEW t \in Targets, CycleAborted(t) PROVE OutageInv'
    <3>1. faults'.escaped # 0
      BY <2>16 DEF CycleAborted, Escaping, TypeOK, FaultCounts
    <3> QED BY <2>2, <2>16, <3>1 DEF CycleAborted, memory
  <2>17. ASSUME NEW t \in Targets, HandOverFails(t) PROVE OutageInv'
    <3>1. faults'.escaped # 0
      BY <2>17 DEF HandOverFails, Escaping, TypeOK, FaultCounts
    <3> QED BY <2>2, <2>17, <3>1 DEF HandOverFails, memory
  <2>18. CASE UNCHANGED vars
    BY <2>3, <2>18 DEF vars, memory, loop, told
  <2>19. ASSUME NEW t \in Targets, PollNowQueries(t) PROVE OutageInv'
    BY <2>3, <2>19 DEF PollNowQueries, memory, loop, told
  <2>20. ASSUME NEW r \in asked, PollNowStores(r) \/ PollNowFails(r)
         PROVE  OutageInv'
    <3>1. UNCHANGED <<faults.escaped, faults.restarts>>
      BY <2>20 DEF PollNowStores, PollNowFails, TypeOK, FaultCounts
    <3> QED BY <2>3, <2>20, <3>1 DEF PollNowStores, PollNowFails, memory, loop
  <2> QED
    BY <2>4, <2>5, <2>6, <2>7, <2>8, <2>9, <2>10, <2>11, <2>12, <2>13, <2>14,
       <2>15, <2>16, <2>17, <2>18, <2>19, <2>20 DEF Next, PollStep, FaultStep
<1>3. QED
  BY <1>1, <1>2, TypeCorrect, PTL DEF Spec

(* The poller implements OutageReport when no error escapes a poll and the *)
(* process is not restarted: every target's communication events form the  *)
(* protocol COMMBAD, perhaps NOCOMM, COMMOK, whatever the link does.       *)
THEOREM ImplementsOutageReport ==
    ASSUME MaxEscapes = 0, MaxRestarts = 0
    PROVE  Spec => ReportsOutages
<1>1. Init => Outage!Init
  BY DEF Init, Outage!Init
<1>2. TypeOK /\ OutageInv /\ [Next]_vars => [Outage!Next]_announced
  <2> SUFFICES ASSUME TypeOK, OutageInv, [Next]_vars
               PROVE  [Outage!Next]_announced
    OBVIOUS
  <2>1. faults.escaped = 0 /\ faults.restarts = 0
    BY DEF TypeOK, FaultCounts
  <2>2. ASSUME NEW t \in Targets, HandOver(t)
        PROVE  [Outage!Next]_announced
    <3> DEFINE h == Head(outbox)
    <3>1. /\ Pending(t, h)
          /\ announced' = [announced EXCEPT ![t] =
                              CASE h = "COMMBAD" -> "bad"
                                [] h = "NOCOMM"  -> "lost"
                                [] h = "COMMOK"  -> "up"
                                [] OTHER -> @]
      BY <2>2 DEF HandOver, Pending
    <3>2. CASE h = "COMMBAD"
      <4>1. Outage!CommBad(t)
        BY <2>1, <3>1, <3>2 DEF OutageInv, ReportsMatchMemory,
           Outage!CommBad, Outage!Report
      <4> QED BY <4>1 DEF Outage!Next
    <3>3. CASE h = "NOCOMM"
      <4>1. Outage!NoComm(t)
        BY <2>1, <3>1, <3>3 DEF OutageInv, ReportsMatchMemory,
           Outage!NoComm, Outage!Report
      <4> QED BY <4>1 DEF Outage!Next
    <3>4. CASE h = "COMMOK"
      <4>1. announced[t] \in {"bad", "lost"}
        BY <2>1, <3>1, <3>4 DEF OutageInv, ReportsMatchMemory, TypeOK
      <4>2. Outage!CommOk(t)
        BY <3>1, <3>4, <4>1 DEF Outage!CommOk, Outage!Report
      <4> QED BY <4>2 DEF Outage!Next
    <3>5. CASE h \notin CommEvents
      BY <3>1, <3>5 DEF CommEvents, TypeOK
    <3> QED BY <3>2, <3>3, <3>4, <3>5 DEF CommEvents
  <2>3. ASSUME NEW t \in Targets,
               LinkChanges(t) \/ SetEnabled(t) \/ FaultStep(t)
        PROVE  UNCHANGED announced
    BY <2>3 DEF LinkChanges, SetEnabled, FaultStep, CommitFails,
                CycleAborted, HandOverFails, told
  <2>4. ASSUME NEW t \in Targets, PollStep(t), ~HandOver(t)
        PROVE  UNCHANGED announced
    BY <2>4 DEF PollStep, SkipTarget, QueryFails, PersistErrorState,
       QueryAnswers, CommitSuccess, CollectTransitions, FinishTarget, told
  <2>5. CASE WakeUp \/ Restart \/ UNCHANGED vars
    BY <2>5 DEF WakeUp, Restart, vars, told
  <2>6. ASSUME NEW t \in Targets, PollNowQueries(t)
        PROVE  UNCHANGED announced
    BY <2>6 DEF PollNowQueries, told
  <2>7. ASSUME NEW r \in asked, PollNowStores(r) \/ PollNowFails(r)
        PROVE  UNCHANGED announced
    BY <2>7 DEF PollNowStores, PollNowFails
  <2> QED
    BY <2>2, <2>3, <2>4, <2>5, <2>6, <2>7 DEF Next
<1>3. QED
  BY <1>1, <1>2, TypeCorrect, OutageInvariant, PTL
     DEF Spec, ReportsOutages, Outage!Spec

-----------------------------------------------------------------------------
(* As long as the database works, the memory never counts more failures    *)
(* than the target has unanswered polls in a row.                          *)
THEOREM StreakInvariant == Spec => []StreakBoundsFailures
<1> USE ThresholdAssumption, PollingAssumption
<1>1. Init => StreakBoundsFailures
  BY DEF Init, StreakBoundsFailures, Fresh
<1>2. TypeOK /\ StreakBoundsFailures /\ [Next]_vars => StreakBoundsFailures'
  <2> SUFFICES ASSUME TypeOK, StreakBoundsFailures, [Next]_vars
               PROVE  StreakBoundsFailures'
    OBVIOUS
  <2> USE DEF StreakBoundsFailures
  <2>1. ASSUME UNCHANGED <<comm, streak, faults>>,
               stage' = stage, todo' = todo \/ stage # "commit"
        PROVE  StreakBoundsFailures'
    BY <2>1 DEF Current
  <2>2. CASE WakeUp
    BY <2>1, <2>2 DEF WakeUp, memory
  <2>3. CASE Restart
    <3>1. comm' = [t \in Targets |-> Fresh] /\ streak' = streak
      BY <2>3 DEF Restart
    <3>2. \A t \in Targets : comm'[t].failures <= streak'[t]
      BY <3>1 DEF TypeOK, Fresh
    <3> QED BY <3>2
  <2>4. ASSUME NEW t \in Targets,
               LinkChanges(t) \/ SetEnabled(t) \/ SkipTarget(t)
                  \/ PersistErrorState(t) \/ HandOver(t)
                  \/ CollectTransitions(t) \/ FinishTarget(t)
        PROVE  StreakBoundsFailures'
    BY <2>1, <2>4 DEF LinkChanges, SetEnabled, SkipTarget, PersistErrorState,
       HandOver, CollectTransitions, FinishTarget, memory, loop
  <2>5. ASSUME NEW t \in Targets, QueryFails(t) PROVE StreakBoundsFailures'
    <3>1. /\ comm' = [comm EXCEPT ![t] = AfterFailure(@)]
          /\ streak' = [streak EXCEPT ![t] = IF @ < NoCommThreshold
                                             THEN @ + 1 ELSE @]
          /\ stage = "next" /\ faults' = faults
      BY <2>5 DEF QueryFails
    <3>2. AfterFailure(comm[t]).failures =
             IF comm[t].failures < NoCommThreshold THEN comm[t].failures + 1
                                                   ELSE NoCommThreshold
      BY DEF AfterFailure
    <3>3. comm[t].failures \in 0..NoCommThreshold
          /\ streak[t] \in 0..NoCommThreshold
      BY DEF TypeOK, CommunicationState
    <3>4. comm[t].failures <= streak[t]
             => comm'[t].failures <= streak'[t]
      BY <3>1, <3>2, <3>3 DEF TypeOK
    <3>5. \A u \in Targets \ {t} : comm'[u] = comm[u] /\ streak'[u] = streak[u]
      BY <3>1 DEF TypeOK
    <3> QED BY <3>1, <3>4, <3>5
  <2>6. ASSUME NEW t \in Targets, NEW s \in Samples, QueryAnswers(t, s)
        PROVE  StreakBoundsFailures'
    <3>1. /\ Current(t)' /\ stage = "next" /\ stage' = "commit"
          /\ UNCHANGED <<comm, faults>>
          /\ \A u \in Targets \ {t} : streak'[u] = streak[u]
      BY <2>6 DEF QueryAnswers, memory, Current, TypeOK
    <3> QED BY <3>1
  <2>7. ASSUME NEW t \in Targets, CommitSuccess(t)
        PROVE  StreakBoundsFailures'
    <3>1. /\ Current(t) /\ UNCHANGED <<streak, faults>>
          /\ comm'[t] = Fresh
          /\ \A u \in Targets \ {t} : comm'[u] = comm[u]
      BY <2>7 DEF CommitSuccess, TypeOK
    <3>2. comm'[t].failures <= streak'[t]
      BY <3>1 DEF Fresh, TypeOK
    <3>3. \A u \in Targets \ {t} : ~Current(u)
      BY <3>1, CurrentUnique
    <3> QED BY <3>1, <3>2, <3>3
  <2>8. ASSUME NEW t \in Targets, FaultStep(t) PROVE StreakBoundsFailures'
    <3>1. faults'.handled # 0 \/ faults'.escaped # 0
      BY <2>8 DEF FaultStep, CommitFails, CycleAborted, HandOverFails,
                  Escaping, TypeOK, FaultCounts
    <3> QED BY <3>1
  <2>9. CASE UNCHANGED vars
    BY <2>1, <2>9 DEF vars, memory, loop
  <2>10. ASSUME NEW t \in Targets, PollNowQueries(t) PROVE StreakBoundsFailures'
    BY <2>1, <2>10 DEF PollNowQueries, memory, loop
  <2>11. ASSUME NEW r \in asked, PollNowStores(r) PROVE StreakBoundsFailures'
    BY <2>1, <2>11 DEF PollNowStores, memory, loop
  <2>12. ASSUME NEW r \in asked, PollNowFails(r) PROVE StreakBoundsFailures'
    <3>1. faults'.handled # 0
      BY <2>12 DEF PollNowFails, TypeOK, FaultCounts
    <3> QED BY <3>1
  <2> QED
    BY <2>2, <2>3, <2>4, <2>5, <2>6, <2>7, <2>8, <2>9, <2>10, <2>11, <2>12
       DEF Next, PollStep
<1>3. QED
  BY <1>1, <1>2, TypeCorrect, PTL DEF Spec

(* COMMBAD needs CommBadThreshold unanswered polls in a row, for every     *)
(* threshold, as long as the database works.                               *)
THEOREM DebounceCorrect == Spec => []Debounced
<1>1. TypeOK /\ OutageInv /\ StreakBoundsFailures => Debounced
  <2> SUFFICES ASSUME TypeOK, OutageInv, StreakBoundsFailures,
                      faults.handled = 0, faults.escaped = 0,
                      NEW t \in Targets, Pending(t, "COMMBAD")
               PROVE  streak[t] >= CommBadThreshold
    BY DEF Debounced
  <2>1. Current(t) /\ outbox # <<>> /\ Head(outbox) = "COMMBAD"
    BY DEF Pending
  <2>2. stage \notin {"next", "commit", "power", "recover"}
    BY <2>1, HeadTailProperties DEF OutageInv, OutboxShape, PowerAlarms
  <2>3. outbox = <<"COMMBAD">> /\ Level(comm[t]) = "bad"
    BY <2>1, <2>2 DEF OutageInv, OutboxShape, TypeOK, Stages
  <2>4. comm[t].failures >= CommBadThreshold
    BY <2>3 DEF Level, OutageInv, FlagsFollowCounter
  <2>5. comm[t].failures <= streak[t]
    BY <2>2 DEF StreakBoundsFailures
  <2> QED BY <2>4, <2>5, ThresholdAssumption DEF TypeOK, CommunicationState
<1> QED BY <1>1, TypeCorrect, OutageInvariant, StreakInvariant, PTL

-----------------------------------------------------------------------------
(* A target whose last poll had no answer is shown as failing, except      *)
(* while that poll has yet to store it, or after a user's poll that had an *)
(* answer stored that.                                                     *)
ShownInv ==
    faults.escaped = 0 /\ faults.restarts = 0 =>
        \A t \in Targets :
            /\ stage = "commit" /\ Current(t) => streak[t] = 0
            /\ streak[t] > 0 /\ t \notin vouched /\ ~(stage = "persist" /\ Current(t))
               => ~lastTest[t]

(* Users see what they were told: a target announced to be down whose last *)
(* query failed is shown as failing, for every set of targets and          *)
(* thresholds and any polls users ask for, one of which had to have an     *)
(* answer to overrule it, as long as no error ends a cycle.                *)
THEOREM DownAlwaysShown == Spec => []DownIsShown
<1> USE ThresholdAssumption, PollingAssumption
<1>1. Init => ShownInv
  BY DEF Init, ShownInv
<1>2. TypeOK /\ ShownInv /\ [Next]_vars => ShownInv'
  <2> SUFFICES ASSUME TypeOK, ShownInv, [Next]_vars
               PROVE  ShownInv'
    OBVIOUS
  <2> USE DEF ShownInv
  <2>1. ASSUME UNCHANGED <<streak, lastTest, vouched, faults>>,
               stage' # "commit" \/ (stage' = stage /\ todo' = todo),
               stage = "persist" => stage' = stage /\ todo' = todo
        PROVE  ShownInv'
    BY <2>1 DEF Current
  <2>2. CASE WakeUp \/ UNCHANGED vars
    BY <2>1, <2>2 DEF WakeUp, vars, test, loop, told
  <2>3. ASSUME faults'.escaped # 0 \/ faults'.restarts # 0
        PROVE  ShownInv'
    BY <2>3
  <2>4. CASE Restart
    <3>1. faults'.restarts # 0
      BY <2>4 DEF Restart, TypeOK, FaultCounts
    <3> QED BY <2>3, <3>1
  <2>5. ASSUME NEW t \in Targets, CycleAborted(t) \/ HandOverFails(t)
        PROVE  ShownInv'
    <3>1. faults'.escaped # 0
      BY <2>5 DEF CycleAborted, HandOverFails, Escaping, TypeOK, FaultCounts
    <3> QED BY <2>3, <3>1
  <2>6. ASSUME NEW t \in Targets,
               LinkChanges(t) \/ SetEnabled(t) \/ SkipTarget(t)
                  \/ HandOver(t) \/ CollectTransitions(t) \/ FinishTarget(t)
        PROVE  ShownInv'
    BY <2>1, <2>6 DEF LinkChanges, SetEnabled, SkipTarget, HandOver,
       CollectTransitions, FinishTarget, test, loop, told
  <2>7. ASSUME NEW t \in Targets, QueryFails(t) PROVE ShownInv'
    <3>1. /\ Current(t) /\ Current(t)' /\ stage = "next" /\ stage' = "persist"
          /\ UNCHANGED <<lastTest, vouched, faults>>
          /\ \A u \in Targets \ {t} : streak'[u] = streak[u]
      BY <2>7 DEF QueryFails, test, told, Current, TypeOK
    <3> QED BY <3>1
  <2>8. ASSUME NEW t \in Targets, PersistErrorState(t) PROVE ShownInv'
    <3>1. /\ Current(t) /\ stage = "persist" /\ stage' = "report"
          /\ UNCHANGED <<streak, faults>>
          /\ lastTest' = [lastTest EXCEPT ![t] = FALSE]
          /\ vouched' = vouched \ {t}
      BY <2>8 DEF PersistErrorState
    <3>2. \A u \in Targets \ {t} : ~Current(u)
      BY <3>1, CurrentUnique
    <3> QED BY <3>1, <3>2 DEF TypeOK
  <2>9. ASSUME NEW t \in Targets, NEW s \in Samples, QueryAnswers(t, s)
        PROVE  ShownInv'
    <3>1. /\ Current(t) /\ todo' = todo /\ stage = "next" /\ stage' = "commit"
          /\ UNCHANGED <<lastTest, vouched, faults>>
          /\ streak' = [streak EXCEPT ![t] = 0]
      BY <2>9 DEF QueryAnswers, told
    <3>2. \A u \in Targets \ {t} : ~Current(u) /\ ~Current(u)'
      BY <3>1, CurrentUnique DEF Current
    <3> QED BY <3>1, <3>2 DEF TypeOK
  <2>10. ASSUME NEW t \in Targets, CommitSuccess(t) \/ CommitFails(t)
         PROVE  ShownInv'
    <3>1. /\ Current(t) /\ stage = "commit" /\ stage' \in {"recover", "next"}
          /\ UNCHANGED <<streak, vouched>>
          /\ \A u \in Targets \ {t} : lastTest'[u] = lastTest[u]
          /\ UNCHANGED <<faults.escaped, faults.restarts>>
      BY <2>10 DEF CommitSuccess, CommitFails, told, TypeOK, FaultCounts
    <3>2. faults.escaped = 0 /\ faults.restarts = 0 => streak[t] = 0
      BY <3>1
    <3> QED BY <3>1, <3>2 DEF TypeOK
  <2>11. ASSUME NEW t \in Targets, PollNowQueries(t) PROVE ShownInv'
    BY <2>1, <2>11 DEF PollNowQueries, test, loop, told
  \* A poll users asked for stores an answer and vouches for it, or an error.
  <2>12. ASSUME NEW r \in asked, PollNowStores(r) \/ PollNowFails(r)
         PROVE  ShownInv'
    <3>1. /\ UNCHANGED <<streak, stage, todo>>
          /\ UNCHANGED <<faults.escaped, faults.restarts>>
          /\ r.target \in Targets /\ r.answered \in BOOLEAN
      BY <2>12 DEF PollNowStores, PollNowFails, loop, TypeOK, FaultCounts, PollRequest
    <3>2. \A u \in Targets \ {r.target} :
             /\ lastTest'[u] = lastTest[u]
             /\ u \in vouched' <=> u \in vouched
      BY <2>12, <3>1 DEF PollNowStores, PollNowFails, TypeOK
    <3>3. \/ r.target \in vouched'
          \/ ~lastTest'[r.target]
          \/ lastTest' = lastTest /\ vouched' = vouched
      BY <2>12, <3>1 DEF PollNowStores, PollNowFails, TypeOK
    <3>4. \A u \in Targets : Current(u)' <=> Current(u)
      BY <3>1 DEF Current
    <3> QED BY <3>1, <3>2, <3>3, <3>4
  <2> QED
    BY <2>2, <2>4, <2>5, <2>6, <2>7, <2>8, <2>9, <2>10, <2>11, <2>12
       DEF Next, PollStep, FaultStep
<1>3. ShownInv => DownIsShown
  BY DEF ShownInv, DownIsShown, Current
<1> QED BY <1>1, <1>2, <1>3, TypeCorrect, PTL DEF Spec

-----------------------------------------------------------------------------
(* The alarms that are not edges between line and battery operation.       *)
Minor == {"LOWBATT", "REPLBATT", "SHUTDOWN"}
Edges == {"ONBATT", "ONLINE"}

(* An edge comes first in x, if there is one: e, or "none".                *)
EdgeFirst(x, e) ==
    /\ x \in Seq(PowerAlarms)
    /\ \A i \in 2..Len(x) : x[i] \in Minor
    /\ e \in Edges => x # <<>> /\ x[1] = e
    /\ e \notin Edges => x = <<>> \/ x[1] \in Minor

(* Other alarms may follow the edge. *)
LEMMA EdgeStaysFirst ==
    ASSUME NEW x, NEW e, NEW y \in Seq(Minor), EdgeFirst(x, e)
    PROVE  EdgeFirst(x \o y, e)
<1>1. x \in Seq(PowerAlarms) /\ y \in Seq(PowerAlarms)
  BY SeqMonotonic DEF EdgeFirst, Minor, PowerAlarms
<1>2. /\ x \o y \in Seq(PowerAlarms)
      /\ Len(x \o y) = Len(x) + Len(y)
      /\ Len(x) \in Nat /\ Len(y) \in Nat
      /\ \A i \in 1..(Len(x) + Len(y)) :
            (x \o y)[i] = IF i <= Len(x) THEN x[i] ELSE y[i - Len(x)]
  BY <1>1, ConcatProperties, LenProperties
<1>3. \A i \in 1..Len(y) : y[i] \in Minor
  OBVIOUS
<1>4. ASSUME NEW i \in 2..Len(x \o y)
      PROVE  (x \o y)[i] \in Minor
  <2>1. CASE i <= Len(x)
    BY <1>2, <2>1 DEF EdgeFirst
  <2>2. CASE i > Len(x)
    <3>1. (x \o y)[i] = y[i - Len(x)] /\ i - Len(x) \in 1..Len(y)
      BY <1>2, <2>2
    <3> QED BY <1>3, <3>1
  <2> QED BY <1>2, <2>1, <2>2
<1>5. CASE x = <<>>
  <2>1. e \notin Edges /\ Len(x) = 0
    BY <1>5 DEF EdgeFirst
  <2>2. x \o y = <<>> \/ (x \o y)[1] \in Minor
    <3>1. CASE Len(y) = 0
      BY <1>2, <2>1, <3>1, EmptySeq
    <3>2. CASE Len(y) # 0
      <4>1. 1 \in 1..Len(y) /\ (x \o y)[1] = y[1]
        BY <1>2, <2>1, <3>2
      <4> QED BY <1>3, <4>1
    <3> QED BY <3>1, <3>2
  <2> QED BY <1>2, <1>4, <2>1, <2>2 DEF EdgeFirst
<1>6. CASE x # <<>>
  <2>1. Len(x) > 0
    BY <1>1, <1>2, <1>6, EmptySeq
  <2>2. (x \o y)[1] = x[1] /\ x \o y # <<>>
    <3>1. (x \o y)[1] = x[1]
      BY <1>2, <2>1
    <3>2. Len(x \o y) # 0
      BY <1>2, <2>1
    <3> QED BY <3>1, <3>2
  <2> QED BY <1>2, <1>4, <1>6, <2>2 DEF EdgeFirst
<1> QED BY <1>5, <1>6

(* What a power memory says of line or battery operation.                  *)
Word(q) == IF q.onBattery THEN "ONBATT" ELSE "ONLINE"

(* A sample reports an edge exactly when the memory changes sides.         *)
LEMMA EdgeOfSample ==
    ASSUME NEW p \in PowerState, NEW s \in Sample
    PROVE  LET q == AfterSample(p, s)
               x == TransitionEvents(p, s)
           IN  \/ EdgeFirst(x, "none") /\ (p.seeded => q.seeded /\ Word(q) = Word(p))
               \/ EdgeFirst(x, Word(q)) /\ q.seeded /\ Word(q) # Word(p)
<1> DEFINE new == DerivedPowerState(s)
           q == AfterSample(p, s)
           x == TransitionEvents(p, s)
           Rising(was, is, e) == IF ~was /\ is THEN <<e>> ELSE <<>>
           e1 == Rising(p.onBattery, new.onBattery, "ONBATT")
           e2 == Rising(new.onBattery, p.onBattery, "ONLINE")
           e3 == Rising(p.lowBattery, new.lowBattery, "LOWBATT")
           e4 == Rising(p.replaceBattery, new.replaceBattery, "REPLBATT")
           e5 == Rising(p.forcedShutdown, new.forcedShutdown, "SHUTDOWN")
<1>1. CASE Inconclusive(s) \/ ~p.seeded
  <2>1. x = <<>>
    BY <1>1 DEF TransitionEvents
  <2>2. p.seeded => q = p
    BY <1>1 DEF AfterSample
  <2>3. EdgeFirst(<<>>, "none")
    BY DEF EdgeFirst, Edges
  <2> QED BY <2>1, <2>2, <2>3
<1>2. CASE ~(Inconclusive(s) \/ ~p.seeded)
  <2>1. x = e1 \o e2 \o e3 \o e4 \o e5
    BY <1>2, Zenon DEF TransitionEvents
  <2>2. q = new /\ new.seeded
    BY <1>2 DEF AfterSample, DerivedPowerState
  <2>3. e3 \in Seq(Minor) /\ e4 \in Seq(Minor) /\ e5 \in Seq(Minor)
    <3>1. \A was, is : \A e \in Minor : Rising(was, is, e) \in Seq(Minor)
      OBVIOUS
    <3> HIDE DEF Rising
    <3> QED BY <3>1 DEF Minor
  <2>4. p.onBattery \in BOOLEAN /\ new.onBattery \in BOOLEAN
    BY DEF PowerState, DerivedPowerState
  <2>5. \A h : EdgeFirst(e1 \o e2, h) => EdgeFirst(x, h)
    <3> HIDE DEF e1, e2, e3, e4, e5, x
    <3> SUFFICES ASSUME NEW h, EdgeFirst(e1 \o e2, h)
                 PROVE  EdgeFirst(x, h)
      OBVIOUS
    <3>1. EdgeFirst(e1 \o e2 \o e3, h)
      BY <2>3, EdgeStaysFirst
    <3>2. EdgeFirst(e1 \o e2 \o e3 \o e4, h)
      BY <2>3, <3>1, EdgeStaysFirst
    <3>3. EdgeFirst(e1 \o e2 \o e3 \o e4 \o e5, h)
      BY <2>3, <3>2, EdgeStaysFirst
    <3> QED BY <2>1, <3>3
  <2>6. CASE p.onBattery = new.onBattery
    <3>1. e1 \o e2 = <<>>
      BY <2>4, <2>6
    <3>2. EdgeFirst(e1 \o e2, "none")
      <4>1. EdgeFirst(<<>>, "none")
        BY DEF EdgeFirst, Edges
      <4> QED BY <3>1, <4>1
    <3>3. Word(q) = Word(p)
      BY <2>2, <2>6 DEF Word
    <3> QED BY <2>2, <2>5, <3>2, <3>3
  <2>7. CASE ~p.onBattery /\ new.onBattery
    <3>1. e1 = <<"ONBATT">> /\ e2 = <<>>
      BY <2>7
    <3>2. <<"ONBATT">> \o <<>> = <<"ONBATT">>
      OBVIOUS
    <3>3. EdgeFirst(<<"ONBATT">>, "ONBATT")
      BY DEF EdgeFirst, Edges, PowerAlarms
    <3>4. EdgeFirst(e1 \o e2, "ONBATT")
      BY <3>1, <3>2, <3>3
    <3>5. Word(q) = "ONBATT" /\ Word(p) = "ONLINE"
      BY <2>2, <2>7 DEF Word
    <3> QED BY <2>2, <2>5, <3>4, <3>5
  <2>8. CASE p.onBattery /\ ~new.onBattery
    <3>1. e1 = <<>> /\ e2 = <<"ONLINE">>
      BY <2>8
    <3>2. <<>> \o <<"ONLINE">> = <<"ONLINE">>
      OBVIOUS
    <3>3. EdgeFirst(<<"ONLINE">>, "ONLINE")
      BY DEF EdgeFirst, Edges, PowerAlarms
    <3>4. EdgeFirst(e1 \o e2, "ONLINE")
      BY <3>1, <3>2, <3>3
    <3>5. Word(q) = "ONLINE" /\ Word(p) = "ONBATT"
      BY <2>2, <2>8 DEF Word
    <3> QED BY <2>2, <2>5, <3>4, <3>5
  <2> QED BY <2>4, <2>6, <2>7, <2>8
<1> QED BY <1>1, <1>2

(* What listeners heard last of a target's power is what the memory says,  *)
(* up to the edge that waits to be handed over.                            *)
AlternationInv ==
    faults.escaped = 0 /\ faults.restarts = 0 =>
        /\ stage = "power" => \A i \in 2..Len(outbox) : outbox[i] \in Minor
        /\ \A t \in Targets :
            /\ (\A e \in Edges : ~Pending(t, e)) =>
                  \/ lastPower[t] = "unknown"
                  \/ power[t].seeded /\ lastPower[t] = Word(power[t])
            /\ \A e \in Edges : Pending(t, e) =>
                  power[t].seeded /\ e = Word(power[t]) /\ lastPower[t] # e

(* Neither ONBATT nor ONLINE is handed over twice in a row, for every set  *)
(* of targets and samples, through inconclusive samples, outages, disabled *)
(* periods and handled database errors.                                    *)
THEOREM PowerAlwaysAlternates == Spec => []PowerAlternates
<1> USE ThresholdAssumption, PollingAssumption
<1>1. Init => AlternationInv
  BY DEF Init, AlternationInv, Pending
<1>2. /\ TypeOK /\ OutageInv /\ AlternationInv /\ [Next]_vars
      => AlternationInv'
  <2> SUFFICES ASSUME TypeOK, OutageInv, AlternationInv, [Next]_vars
               PROVE  AlternationInv'
    OBVIOUS
  <2>0. OutboxShape
    BY DEF OutageInv
  \* Steps that change neither memory nor word, with no edge on its way.
  <2>1. ASSUME UNCHANGED <<power, lastPower, faults.escaped, faults.restarts>>,
               \A t \in Targets, e \in Edges :
                  ~Pending(t, e) /\ ~Pending(t, e)',
               stage' # "power"
        PROVE  AlternationInv'
    BY <2>1 DEF AlternationInv
  <2>2. ASSUME faults'.escaped # 0 \/ faults'.restarts # 0
        PROVE  AlternationInv'
    BY <2>2 DEF AlternationInv
  <2>3. ASSUME outbox = <<>> PROVE \A t, e : ~Pending(t, e)
    BY <2>3 DEF Pending
  <2>4. ASSUME outbox' = <<>> PROVE \A t, e : ~Pending(t, e)'
    BY <2>4 DEF Pending
  <2>5. stage \in {"next", "commit"} => outbox = <<>>
    BY <2>0 DEF OutboxShape
  <2>6. ASSUME NEW t \in Targets, Current(t), stage \notin {"power"}
        PROVE  /\ \A u \in Targets, e \in Edges : ~Pending(u, e)
               /\ outbox # <<>> => Tail(outbox) = <<>>
               /\ outbox # <<>> => Head(outbox) \notin Edges
    <3>1. outbox \in {<<>>, <<"COMMBAD">>, <<"NOCOMM">>, <<"COMMOK">>}
      BY <2>0, <2>6 DEF OutboxShape, TypeOK, Stages
    <3>2. /\ Head(<<"COMMBAD">>) = "COMMBAD" /\ Tail(<<"COMMBAD">>) = <<>>
          /\ Head(<<"NOCOMM">>) = "NOCOMM" /\ Tail(<<"NOCOMM">>) = <<>>
          /\ Head(<<"COMMOK">>) = "COMMOK" /\ Tail(<<"COMMOK">>) = <<>>
      OBVIOUS
    <3>3. outbox # <<>> => Head(outbox) \notin Edges /\ Tail(outbox) = <<>>
      BY <3>1, <3>2 DEF Edges
    <3> QED BY <3>3 DEF Pending
  <2>7. CASE Restart
    <3>1. faults'.restarts # 0
      BY <2>7 DEF Restart, TypeOK, FaultCounts
    <3> QED BY <2>2, <3>1
  <2>8. ASSUME NEW t \in Targets, CycleAborted(t) \/ HandOverFails(t)
        PROVE  AlternationInv'
    <3>1. faults'.escaped # 0
      BY <2>8 DEF CycleAborted, HandOverFails, Escaping, TypeOK, FaultCounts
    <3> QED BY <2>2, <3>1
  <2>9. ASSUME UNCHANGED <<power, lastPower, outbox, stage, todo,
                           faults.escaped, faults.restarts>>
        PROVE  AlternationInv'
    BY <2>9 DEF AlternationInv, Pending, Current
  <2>10. CASE UNCHANGED vars
    BY <2>9, <2>10 DEF vars, memory, told, loop
  <2>11. ASSUME NEW t \in Targets, LinkChanges(t) \/ SetEnabled(t)
         PROVE  AlternationInv'
    BY <2>9, <2>11 DEF LinkChanges, SetEnabled, memory, told, loop
  <2>12. CASE WakeUp
    <3>1. /\ stage = "next" /\ stage' = "next" /\ outbox' = outbox
          /\ UNCHANGED <<power, lastPower, faults>>
      BY <2>12 DEF WakeUp, memory, told
    <3> QED BY <2>1, <2>3, <2>4, <2>5, <3>1
  <2>13. ASSUME NEW t \in Targets, SkipTarget(t) \/ QueryAnswers(t, sample')
         PROVE  AlternationInv'
    <3>1. /\ stage = "next" /\ stage' # "power" /\ outbox' = outbox
          /\ UNCHANGED <<power, lastPower, faults>>
      BY <2>13 DEF SkipTarget, QueryAnswers, memory, told
    <3> QED BY <2>1, <2>3, <2>4, <2>5, <3>1
  <2>14. ASSUME NEW t \in Targets, CommitFails(t) PROVE AlternationInv'
    <3>1. /\ stage = "commit" /\ stage' # "power" /\ outbox' = outbox
          /\ UNCHANGED <<power, lastPower, faults.escaped, faults.restarts>>
      BY <2>14 DEF CommitFails, memory, told, TypeOK, FaultCounts
    <3> QED BY <2>1, <2>3, <2>4, <2>5, <3>1
  <2>15. ASSUME NEW t \in Targets, QueryFails(t) PROVE AlternationInv'
    <3>1. /\ stage = "next" /\ stage' # "power"
          /\ outbox' = FailureEvents(comm[t])
          /\ UNCHANGED <<power, lastPower, faults>>
      BY <2>15 DEF QueryFails, told
    <3>2. FailureEvents(comm[t]) \in
             {<<>>, <<"COMMBAD">>, <<"NOCOMM">>, <<"COMMBAD", "NOCOMM">>}
      BY FailureEventsType DEF TypeOK
    <3>3. outbox' # <<>> => Head(outbox') \notin Edges
      BY <3>1, <3>2 DEF Edges
    <3>4. \A u, e : e \in Edges => ~Pending(u, e)'
      BY <3>3 DEF Pending
    <3> QED BY <2>1, <2>3, <2>5, <3>1, <3>4
  <2>16. ASSUME NEW t \in Targets, CommitSuccess(t) PROVE AlternationInv'
    <3>1. /\ stage = "commit" /\ stage' # "power"
          /\ outbox' = SuccessEvents(comm[t])
          /\ UNCHANGED <<power, lastPower, faults>>
      BY <2>16 DEF CommitSuccess, told
    <3>2. outbox' # <<>> => Head(outbox') \notin Edges
      BY <3>1 DEF Edges, SuccessEvents
    <3>3. \A u, e : e \in Edges => ~Pending(u, e)'
      BY <3>2 DEF Pending
    <3> QED BY <2>1, <2>3, <2>5, <3>1, <3>3
  <2>17. ASSUME NEW t \in Targets, PersistErrorState(t) PROVE AlternationInv'
    <3>1. /\ Current(t) /\ stage = "persist" /\ stage' = "report"
          /\ UNCHANGED <<power, lastPower, faults, outbox, todo>>
      BY <2>17 DEF PersistErrorState, memory, told
    <3>2. \A u \in Targets, e \in Edges : ~Pending(u, e) /\ ~Pending(u, e)'
      BY <2>6, <3>1 DEF Pending, Current
    <3> QED BY <2>1, <3>1, <3>2
  <2>18. ASSUME NEW t \in Targets, FinishTarget(t) PROVE AlternationInv'
    <3>1. /\ outbox = <<>> /\ outbox' = outbox /\ stage' # "power"
          /\ UNCHANGED <<power, lastPower, faults>>
      BY <2>18 DEF FinishTarget, memory, told
    <3> QED BY <2>1, <2>3, <2>4, <3>1
  <2>19. ASSUME NEW t \in Targets, HandOver(t) PROVE AlternationInv'
    <3> DEFINE h == Head(outbox)
    <3>1. /\ Current(t) /\ stage \in {"report", "recover", "power"}
          /\ outbox # <<>> /\ outbox' = Tail(outbox)
          /\ UNCHANGED <<power, todo, stage, faults>>
      BY <2>19 DEF HandOver, memory
    <3>2. /\ lastPower'[t] = IF h \in Edges THEN h ELSE lastPower[t]
          /\ \A u \in Targets \ {t} : lastPower'[u] = lastPower[u]
      BY <2>19 DEF HandOver, TypeOK, Edges
    <3>3. \A u \in Targets \ {t} : \A e : ~Pending(u, e) /\ ~Pending(u, e)'
      BY <3>1, CurrentUnique DEF Pending, Current
    <3> SUFFICES ASSUME faults.escaped = 0, faults.restarts = 0
                 PROVE  AlternationInv'
      BY <3>1 DEF AlternationInv
    <3>4. /\ outbox' # <<>> => Head(outbox') \in Minor
          /\ stage = "power" => \A i \in 2..Len(outbox') : outbox'[i] \in Minor
      <4>1. CASE stage # "power"
        BY <2>6, <3>1, <4>1
      <4>2. CASE stage = "power"
        <5>1. outbox \in Seq(PowerAlarms)
          BY <2>0, <4>2 DEF OutboxShape
        <5>2. /\ outbox' \in Seq(PowerAlarms)
              /\ Len(outbox) \in Nat
              /\ Len(outbox') = Len(outbox) - 1
              /\ \A i \in 1..Len(outbox') : outbox'[i] = outbox[i + 1]
          BY <3>1, <5>1, HeadTailProperties, LenProperties
        <5>3. \A i \in 1..Len(outbox') : outbox'[i] \in Minor
          BY <4>2, <5>2 DEF AlternationInv
        <5>4. outbox' # <<>> => 1 \in 1..Len(outbox') /\ Head(outbox') = outbox'[1]
          BY <5>2, HeadTailProperties, EmptySeq
        <5> QED BY <5>2, <5>3, <5>4
      <4> QED BY <4>1, <4>2
    <3>5. \A u \in Targets, e \in Edges : ~Pending(u, e)'
      BY <3>4 DEF Pending, Minor, Edges
    <3>6. CASE h \in Edges
      <4>1. Pending(t, h)
        BY <3>1 DEF Pending
      <4>2. power[t].seeded /\ h = Word(power[t])
        BY <3>6, <4>1 DEF AlternationInv
      <4> QED BY <3>1, <3>2, <3>3, <3>4, <3>5, <3>6, <4>2 DEF AlternationInv
    <3>7. CASE h \notin Edges
      <4>1. \A u \in Targets, e \in Edges : ~Pending(u, e)
        BY <3>7 DEF Pending
      <4> QED BY <3>1, <3>2, <3>4, <3>5, <3>7, <4>1 DEF AlternationInv
    <3> QED BY <3>6, <3>7
  <2>20. ASSUME NEW t \in Targets, CollectTransitions(t) PROVE AlternationInv'
    <3> DEFINE p == power[t]
               q == AfterSample(p, sample)
               x == TransitionEvents(p, sample)
    <3>1. /\ Current(t) /\ outbox = <<>> /\ outbox' = x /\ stage' = "power"
          /\ power' = [power EXCEPT ![t] = q]
          /\ UNCHANGED <<lastPower, todo, faults>>
      BY <2>20 DEF CollectTransitions, told
    <3>2. p \in PowerState /\ sample \in Sample
      BY DEF TypeOK
    <3>3. \/ EdgeFirst(x, "none") /\ (p.seeded => q.seeded /\ Word(q) = Word(p))
          \/ EdgeFirst(x, Word(q)) /\ q.seeded /\ Word(q) # Word(p)
      BY <3>2, EdgeOfSample
    <3>4. power'[t] = q /\ \A u \in Targets \ {t} : power'[u] = power[u]
      BY <3>1 DEF TypeOK
    <3> HIDE DEF p, q, x
    <3>5. \A u \in Targets \ {t} : \A e : ~Pending(u, e)'
      BY <3>1, CurrentUnique DEF Pending, Current
    <3>6. \A i \in 2..Len(x) : x[i] \in Minor
      BY <3>3 DEF EdgeFirst
    <3>7. x \in Seq(PowerAlarms) /\ (x # <<>> => Head(x) = x[1])
      BY <3>3, HeadTailProperties DEF EdgeFirst
    <3>8. Word(q) \in Edges /\ Word(p) \in Edges /\ "none" \notin Edges
      BY DEF Word, Edges
    <3> SUFFICES ASSUME faults.escaped = 0, faults.restarts = 0
                 PROVE  AlternationInv'
      BY <3>1 DEF AlternationInv
    <3>9. \A u \in Targets :
             \/ lastPower[u] = "unknown"
             \/ power[u].seeded /\ lastPower[u] = Word(power[u])
      BY <2>3, <3>1 DEF AlternationInv
    <3>10. \A u \in Targets \ {t} :
             /\ \/ lastPower'[u] = "unknown"
                \/ power'[u].seeded /\ lastPower'[u] = Word(power'[u])
             /\ \A e : ~Pending(u, e)'
      BY <3>1, <3>4, <3>5, <3>9
    <3>11. \/ lastPower'[t] = "unknown"
           \/ p.seeded /\ lastPower'[t] = Word(p)
      BY <3>1, <3>9 DEF p
    <3>12. CASE EdgeFirst(x, "none") /\ (p.seeded => q.seeded /\ Word(q) = Word(p))
      <4>1. \A e \in Edges : ~Pending(t, e)'
        BY <3>1, <3>7, <3>8, <3>12 DEF EdgeFirst, Pending, Minor, Edges
      <4>2. \/ lastPower'[t] = "unknown"
            \/ power'[t].seeded /\ lastPower'[t] = Word(power'[t])
        BY <3>4, <3>11, <3>12
      <4> QED BY <3>1, <3>6, <3>10, <4>1, <4>2 DEF AlternationInv
    <3>13. CASE EdgeFirst(x, Word(q)) /\ q.seeded /\ Word(q) # Word(p)
      <4>1. x # <<>> /\ Head(x) = Word(q)
        BY <3>7, <3>8, <3>13 DEF EdgeFirst
      <4>2. \A e : Pending(t, e)' <=> e = Word(q)
        BY <3>1, <4>1 DEF Pending, Current
      <4>3. lastPower'[t] # Word(q)
        BY <3>11, <3>13 DEF Word
      <4>4. \A e \in Edges : Pending(t, e)' =>
               power'[t].seeded /\ e = Word(power'[t]) /\ lastPower'[t] # e
        BY <3>4, <3>13, <4>2, <4>3
      <4> QED BY <3>1, <3>6, <3>8, <3>10, <4>2, <4>4 DEF AlternationInv
    <3> QED BY <3>3, <3>12, <3>13
  <2>21. ASSUME NEW t \in Targets, NEW s \in Samples, QueryAnswers(t, s)
         PROVE  QueryAnswers(t, sample')
    BY <2>21 DEF QueryAnswers
  <2>22. ASSUME NEW t \in Targets, PollNowQueries(t) PROVE AlternationInv'
    BY <2>9, <2>22 DEF PollNowQueries, memory, told, loop
  <2>23. ASSUME NEW r \in asked, PollNowStores(r) \/ PollNowFails(r)
         PROVE  AlternationInv'
    <3>1. UNCHANGED <<faults.escaped, faults.restarts>>
      BY <2>23 DEF PollNowStores, PollNowFails, TypeOK, FaultCounts
    <3> QED BY <2>9, <2>23, <3>1 DEF PollNowStores, PollNowFails, memory, loop
  <2> QED
    BY <2>7, <2>8, <2>10, <2>11, <2>12, <2>13, <2>14, <2>15, <2>16, <2>17,
       <2>18, <2>19, <2>20, <2>21, <2>22, <2>23 DEF Next, PollStep, FaultStep
<1>3. AlternationInv => PowerAlternates
  BY DEF AlternationInv, PowerAlternates, Edges
<1> QED BY <1>1, <1>2, <1>3, TypeCorrect, OutageInvariant, PTL DEF Spec

-----------------------------------------------------------------------------
(***************************************************************************)
(* ReportScheduler: its types, that the jobs are those the rows ask for,   *)
(* and that reports are sent when their users chose, for weeks and days of *)
(* any length, any clocks, schedules and requests.                         *)
(***************************************************************************)

(* Some numbers have a least one.                                          *)
LEMMA LeastExists ==
    ASSUME NEW S \in SUBSET Nat, S # {}
    PROVE  Min(S) \in S /\ \A x \in S : Min(S) <= x
<1> DEFINE Less == {pair \in Nat \X Nat : pair[1] < pair[2]}
<1>1. IsWellFoundedOn(Less, Nat)
  BY NatLessThanWellFounded, Zenon DEF OpToRel
<1>2. \A m, n \in Nat : m < n => <<m, n>> \in Less
  OBVIOUS
<1> HIDE DEF Less
<1>3. PICK least \in S : \A y \in S : ~ (<<y, least>> \in Less)
  BY <1>1, WFMin, Zenon
<1>4. ASSUME NEW y \in S PROVE least <= y
  <2>1. ~(y < least)
    BY <1>2, <1>3, Zenon
  <2> QED
    BY <2>1
<1> QED
  BY <1>4 DEF Min

-----------------------------------------------------------------------------
(* The calendar.  Products of two parameters are named before they are     *)
(* added up.                                                               *)

LEMMA Week ==
    /\ SlotsPerDay \in Nat \ {0} /\ DaysPerWeek \in Nat \ {0}
    /\ SlotsPerDay * DaysPerWeek \in Nat \ {0}
  BY SchedulerAssumption

LEMMA Division ==
    ASSUME NEW a \in Nat, NEW k \in Nat \ {0}
    PROVE  /\ a \div k \in Nat /\ a % k \in 0..(k - 1)
           /\ a = k * (a \div k) + (a % k)
  OBVIOUS

LEMMA Multiples ==
    ASSUME NEW k \in Nat \ {0}, NEW p \in Nat, NEW q \in Nat, p < q
    PROVE  k * p + k <= k * q
  OBVIOUS

LEMMA Distributes ==
    ASSUME NEW k \in Nat, NEW p \in Nat, NEW q \in Nat
    PROVE  k * (p + q) = k * p + k * q /\ k * p \in Nat /\ k * q \in Nat
  OBVIOUS

LEMMA Associates ==
    ASSUME NEW k \in Nat, NEW p \in Nat, NEW q \in Nat
    PROVE  (k * p) * q = k * (p * q)
  OBVIOUS

(* Quotient and remainder are the only ones.                               *)
LEMMA DivisionUnique ==
    ASSUME NEW k \in Nat \ {0}, NEW p \in Nat, NEW r \in 0..(k - 1),
           NEW a, a = k * p + r
    PROVE  a \in Nat /\ a \div k = p /\ a % k = r
<1> DEFINE q == a \div k
           s == a % k
<1>1. a \in Nat
  BY Distributes
<1>2. q \in Nat /\ s \in 0..(k - 1) /\ a = k * q + s
  BY <1>1, Division
<1> HIDE DEF q, s
<1>3. k * p \in Nat /\ k * q \in Nat
  BY <1>2, Distributes
<1>4. p < q => k * p + k <= k * q
  BY <1>2, Multiples
<1>5. q < p => k * q + k <= k * p
  BY <1>2, Multiples
<1>6. p = q
  BY <1>2, <1>3, <1>4, <1>5
<1>7. s = r
  BY <1>2, <1>3, <1>6
<1> QED
  BY <1>1, <1>6, <1>7 DEF q, s

LEMMA CalendarTyped ==
    ASSUME NEW t \in Nat
    PROVE  DayOf(t) \in Weekdays /\ SlotOf(t) \in Slots
<1>1. t \div SlotsPerDay \in Nat
  BY Week, Division
<1> QED
  BY <1>1, Week, Division DEF DayOf, SlotOf, Weekdays, Slots

(* Every slot of every day comes within a week.                            *)
LEMMA ComesWithinWeek ==
    ASSUME NEW t \in Nat, NEW d \in Weekdays, NEW s \in Slots
    PROVE  \E u \in t + 1..t + SlotsPerDay * DaysPerWeek : DayOf(u) = d /\ SlotOf(u) = s
<1> DEFINE W == SlotsPerDay * DaysPerWeek
           into == SlotsPerDay * d + s
<1>1. /\ W \in Nat \ {0} /\ d \in Nat /\ s \in Nat
      /\ d <= DaysPerWeek - 1 /\ s <= SlotsPerDay - 1
  BY Week DEF Weekdays, Slots
<1>2. into \in Nat /\ into < W
  <2>1. SlotsPerDay * d + SlotsPerDay <= W
    BY <1>1, Week, Multiples
  <2>2. SlotsPerDay * d \in Nat
    BY <1>1, Week, Distributes
  <2> QED
    BY <1>1, <2>1, <2>2, Week
<1> DEFINE a == t + W - into
           q == a \div W
           r == a % W
<1>3. a \in Nat
  BY <1>1, <1>2
<1>4. q \in Nat /\ r \in 0..(W - 1) /\ a = W * q + r
  <2> HIDE DEF W, into, a
  <2> QED
    BY <1>1, <1>3, Division
<1> DEFINE u == W * q + into
<1>5. u \in t + 1..t + W
  <2>1. W * q \in Nat
    <3> HIDE DEF W, q
    <3> QED
      BY <1>1, <1>4, Distributes
  <2> HIDE DEF into, q, r
  <2>2. W * q = t + W - into - r
    <3> HIDE DEF W
    <3> QED
      BY <1>1, <1>2, <1>4, <2>1
  <2> DEFINE Wq == W * q
  <2>3. Wq = t + W - into - r /\ Wq \in Nat
    BY <2>1, <2>2
  <2> HIDE DEF Wq, W
  <2> QED
    BY <1>1, <1>2, <1>4, <2>3 DEF Wq
<1>6. u = SlotsPerDay * (DaysPerWeek * q + d) + s
  <2> HIDE DEF q
  <2>1. W * q = SlotsPerDay * (DaysPerWeek * q)
    BY <1>4, Week, Associates
  <2>2. DaysPerWeek * q \in Nat
    BY <1>4, Week, Distributes
  <2>3. /\ SlotsPerDay * (DaysPerWeek * q + d)
             = SlotsPerDay * (DaysPerWeek * q) + SlotsPerDay * d
        /\ SlotsPerDay * (DaysPerWeek * q) \in Nat
        /\ SlotsPerDay * d \in Nat
    BY <1>1, <2>2, Week, Distributes
  <2> QED
    BY <1>1, <2>1, <2>3
<1> HIDE DEF u
<1>7. u \div SlotsPerDay = DaysPerWeek * q + d /\ SlotOf(u) = s
  <2> HIDE DEF q
  <2>1. DaysPerWeek * q + d \in Nat
    <3>1. DaysPerWeek * q \in Nat
      BY <1>4, Week, Distributes
    <3> QED
      BY <1>1, <3>1
  <2>2. s \in 0..(SlotsPerDay - 1)
    BY DEF Slots
  <2> QED
    BY <1>6, <2>1, <2>2, Week, DivisionUnique DEF SlotOf
<1>8. DayOf(u) = d
  <2> HIDE DEF q
  <2>1. d \in 0..(DaysPerWeek - 1)
    BY DEF Weekdays
  <2>2. (DaysPerWeek * q + d) % DaysPerWeek = d
    BY <1>4, <2>1, Week, DivisionUnique
  <2> QED
    BY <1>7, <2>2 DEF DayOf
<1> QED
  BY <1>5, <1>7, <1>8

(* When a job runs next: within a week, on one of its days, in its slot,   *)
(* and no such slot comes before.                                          *)
LEMMA NextRunFound ==
    ASSUME NEW days \in SUBSET Weekdays, days # {}, NEW slot \in Slots, NEW t \in Nat
    PROVE  LET u == NextRun(days, slot, t) IN
           /\ u \in t + 1..t + SlotsPerDay * DaysPerWeek
           /\ DayOf(u) \in days /\ SlotOf(u) = slot
           /\ \A v \in t + 1..t + SlotsPerDay * DaysPerWeek :
                 DayOf(v) \in days /\ SlotOf(v) = slot => u <= v
<1> DEFINE W == SlotsPerDay * DaysPerWeek
           S == {u \in t + 1..t + W : DayOf(u) \in days /\ SlotOf(u) = slot}
<1>1. S # {}
  <2>1. PICK d \in days : d \in Weekdays
    OBVIOUS
  <2> QED
    BY <2>1, ComesWithinWeek
<1>2. S \in SUBSET Nat
  BY Week
<1>3. NextRun(days, slot, t) = Min(S)
  BY DEF NextRun
<1>4. Min(S) \in S /\ \A x \in S : Min(S) <= x
  <2> HIDE DEF S
  <2> QED
    BY <1>1, <1>2, LeastExists
<1> QED
  BY <1>3, <1>4

(* A job that is scheduled later does not run earlier.                     *)
LEMMA NextRunMonotone ==
    ASSUME NEW days \in SUBSET Weekdays, days # {}, NEW slot \in Slots,
           NEW t \in Nat, NEW v \in Nat, t <= v
    PROVE  NextRun(days, slot, t) <= NextRun(days, slot, v)
<1> DEFINE W == SlotsPerDay * DaysPerWeek
           a == NextRun(days, slot, t)
           b == NextRun(days, slot, v)
<1>1. /\ a \in t + 1..t + W
      /\ \A x \in t + 1..t + W : DayOf(x) \in days /\ SlotOf(x) = slot => a <= x
  BY NextRunFound
<1>2. b \in v + 1..v + W /\ DayOf(b) \in days /\ SlotOf(b) = slot
  BY NextRunFound
<1>3. W \in Nat
  BY Week
<1> HIDE DEF a, b, W
<1>4. CASE b <= t + W
  <2>1. b \in t + 1..t + W
    BY <1>2, <1>3, <1>4
  <2> QED
    BY <1>1, <1>2, <2>1 DEF a, b
<1>5. CASE ~(b <= t + W)
  BY <1>1, <1>2, <1>3, <1>5 DEF a, b
<1> QED
  BY <1>4, <1>5

-----------------------------------------------------------------------------
(* What makes the jobs those the rows ask for.                             *)

(* A job is due on one of its days and in its slot.                        *)
OnItsDay(j) == j.days # {} /\ DayOf(j.next) \in j.days /\ SlotOf(j.next) = j.slot

(* It is one of those its row asks for.                                    *)
Serves(j, row) == /\ row.time # Blank
                  /\ j.slot = ToSystem(row.time)
                  /\ j.days \in JobDays(row.days)

(* Every job is set for the next time that it names, or an earlier one     *)
(* that is due, and serves its row as long as there is one, enabled or     *)
(* not.                                                                    *)
JobsServe ==
    \A j \in jobs : /\ OnItsDay(j)
                    /\ j.next <= NextRun(j.days, j.slot, SystemTime)
                    /\ rows[j.id] # None => Serves(j, rows[j.id])

(* A schedule that is enabled and has a time has its jobs.                 *)
RowsServed ==
    thread.step # "off" =>
        \A i \in Ids : Runs(rows[i]) /\ rows[i].time # Blank =>
            \A days \in JobDays(rows[i].days) : \E j \in jobs : j.id = i /\ j.days = days

(* A job that was taken served the row there was.                          *)
TakenServed(e) == OnItsDay(e.job) /\ (e.asked # None => Serves(e.job, e.asked))

ThreadServes ==
    /\ thread.step = "off" => jobs = {}
    /\ \A e \in thread.due : TakenServed(e)
    /\ thread.step = "generate" =>
          /\ thread.running \in [taken : Taken, row : Schedule]
          /\ thread.running.taken \in thread.due
          /\ thread.running.row # None

SentServed ==
    sent # None =>
        /\ sent.row # None
        /\ sent.asked # None =>
              /\ sent.asked.time # Blank
              /\ SlotOf(sent.due) = ToSystem(sent.asked.time)
              /\ \E days \in JobDays(sent.asked.days) : DayOf(sent.due) \in days

ScheduleInv == JobsServe /\ RowsServed /\ ThreadServes /\ SentServed

-----------------------------------------------------------------------------
(* Jobs.                                                                   *)

LEMMA TimesTyped ==
    ASSUME now \in 0..MaxTime
    PROVE  /\ SystemTime \in Nat
           /\ SystemTime + SlotsPerDay * DaysPerWeek \in 0..Horizon
           /\ Horizon \in Nat
<1> DEFINE W == SlotsPerDay * DaysPerWeek
<1>1. W \in Nat
  BY Week
<1>2. now \in Nat /\ now <= MaxTime /\ MaxTime \in Nat /\ SystemOffset \in Nat
  BY SchedulerAssumption
<1>3. Horizon = MaxTime + SystemOffset + W
  BY DEF Horizon
<1> HIDE DEF W
<1>4. SystemTime + W \in 0..Horizon /\ Horizon \in Nat /\ SystemTime \in Nat
  BY <1>1, <1>2, <1>3 DEF SystemTime
<1> QED
  BY <1>4 DEF W

LEMMA JobDaysTyped ==
    ASSUME NEW chosen \in SUBSET Weekdays, NEW days \in JobDays(chosen)
    PROVE  days \in SUBSET Weekdays /\ days # {}
<1>1. 0 \in Weekdays
  BY Week DEF Weekdays
<1> QED
  BY <1>1 DEF JobDays

LEMMA ToSystemTyped ==
    ASSUME NEW time \in Slots
    PROVE  ToSystem(time) \in Slots
<1>1. time + SystemOffset \in Nat
  BY SchedulerAssumption DEF Slots
<1> QED
  BY <1>1, Week, Division DEF ToSystem, Slots

LEMMA ToUtcTyped ==
    ASSUME NEW time \in Slots \cup {Blank}
    PROVE  ToUtc(time) \in Slots \cup {Blank}
<1>1. CASE time = Blank
  BY <1>1 DEF ToUtc
<1>2. CASE time # Blank
  <2>1. time + SlotsPerDay - UserOffset \in Nat
    BY <1>2, SchedulerAssumption DEF Slots
  <2> QED
    BY <1>2, <2>1, Week, Division DEF ToUtc, Slots
<1> QED
  BY <1>1, <1>2

(* A job set for its next run from now on.                                 *)
LEMMA NextRunTyped ==
    ASSUME now \in 0..MaxTime,
           NEW days \in SUBSET Weekdays, days # {}, NEW slot \in Slots
    PROVE  LET u == NextRun(days, slot, SystemTime) IN
           u \in 0..Horizon /\ DayOf(u) \in days /\ SlotOf(u) = slot
<1> DEFINE W == SlotsPerDay * DaysPerWeek
           u == NextRun(days, slot, SystemTime)
           t == SystemTime
<1>1. t \in Nat /\ t + W \in 0..Horizon /\ Horizon \in Nat
  BY TimesTyped
<1>2. u \in t + 1..t + W /\ DayOf(u) \in days /\ SlotOf(u) = slot
  BY <1>1, NextRunFound
<1>3. W \in Nat
  BY Week
<1> HIDE DEF u, W, t
<1>4. u \in 0..Horizon
  BY <1>1, <1>2, <1>3
<1> QED
  BY <1>2, <1>4 DEF u

(* The jobs of a row serve it.                                             *)
LEMMA JobsForServe ==
    ASSUME now \in 0..MaxTime, NEW i \in Ids, NEW row \in Schedule
    PROVE  /\ \A j \in JobsFor(i, row) :
                 /\ j \in Job /\ j.id = i /\ OnItsDay(j) /\ Serves(j, row)
                 /\ j.next = NextRun(j.days, j.slot, SystemTime)
           /\ row.time # Blank =>
                 \A days \in JobDays(row.days) : \E j \in JobsFor(i, row) : j.days = days
<1> DEFINE slot == ToSystem(row.time)
           New(days) == [id |-> i, days |-> days, slot |-> slot,
                         next |-> NextRun(days, slot, SystemTime)]
<1>1. row.days \in SUBSET Weekdays /\ row.time \in Slots \cup {Blank}
  BY DEF Schedule
<1>2. row.time # Blank => /\ slot \in Slots
                          /\ JobsFor(i, row) = {New(days) : days \in JobDays(row.days)}
  BY <1>1, ToSystemTyped DEF JobsFor
<1>3. row.time = Blank => JobsFor(i, row) = {}
  BY DEF JobsFor
<1>4. ASSUME row.time # Blank, NEW days \in JobDays(row.days)
      PROVE  LET j == New(days) IN
             /\ j \in Job /\ j.id = i /\ OnItsDay(j) /\ Serves(j, row)
             /\ j.next = NextRun(j.days, j.slot, SystemTime)
  <2>1. days \in SUBSET Weekdays /\ days # {}
    BY <1>1, JobDaysTyped
  <2> DEFINE u == NextRun(days, slot, SystemTime)
             j == New(days)
  <2>2. u \in 0..Horizon /\ DayOf(u) \in days /\ SlotOf(u) = slot
    BY <1>2, <1>4, <2>1, NextRunTyped
  <2>3. j.id = i /\ j.days = days /\ j.slot = slot /\ j.next = u
    OBVIOUS
  <2>4. j \in Job
    <3> HIDE DEF u, slot
    <3> QED
      BY <1>2, <1>4, <2>1, <2>2 DEF Job, u
  <2>5. OnItsDay(j)
    <3> HIDE DEF u, j, slot
    <3> QED
      BY <2>1, <2>2, <2>3 DEF OnItsDay
  <2>6. Serves(j, row)
    <3> HIDE DEF u, j
    <3> QED
      BY <1>4, <2>3 DEF Serves
  <2> QED
    BY <2>3, <2>4, <2>5, <2>6
<1> HIDE DEF slot
<1>5. ASSUME NEW j \in JobsFor(i, row)
      PROVE  /\ j \in Job /\ j.id = i /\ OnItsDay(j) /\ Serves(j, row)
             /\ j.next = NextRun(j.days, j.slot, SystemTime)
  <2>1. row.time # Blank
    BY <1>3
  <2>2. PICK days \in JobDays(row.days) : j = New(days)
    BY <1>2, <2>1
  <2> HIDE DEF New
  <2> QED
    BY <1>4, <2>1, <2>2
<1>6. ASSUME row.time # Blank, NEW days \in JobDays(row.days)
      PROVE  \E j \in JobsFor(i, row) : j.days = days
  <2>1. New(days) \in JobsFor(i, row) /\ New(days).days = days
    BY <1>2, <1>6
  <2> QED
    BY <2>1
<1> QED
  BY <1>5, <1>6

(* A row gets its jobs in place of those of its id, or an id that has no   *)
(* row loses what jobs it had.                                             *)
LEMMA AddedJobs ==
    ASSUME SchedulerTypeOK, JobsServe, RowsServed, NEW i \in Ids, NEW row \in Schedule,
           jobs' = _add_job_from_schedule(i, row), now' = now, thread' = thread,
           \/ rows' = [rows EXCEPT ![i] = row]
           \/ rows' = rows /\ rows[i] = None /\ row.time = Blank
    PROVE  jobs' \subseteq Job /\ JobsServe' /\ RowsServed'
<1>1. /\ rows \in [Ids -> Schedule \cup {None}] /\ jobs \subseteq Job /\ now \in 0..MaxTime
      /\ SystemTime' = SystemTime
  BY DEF SchedulerTypeOK, SystemTime
<1>2. jobs' = {j \in jobs : j.id # i} \cup JobsFor(i, row)
  BY DEF _add_job_from_schedule, _remove_job
<1>3. /\ \A j \in JobsFor(i, row) :
            /\ j \in Job /\ j.id = i /\ OnItsDay(j) /\ Serves(j, row)
            /\ j.next = NextRun(j.days, j.slot, SystemTime)
      /\ row.time # Blank =>
            \A days \in JobDays(row.days) : \E j \in JobsFor(i, row) : j.days = days
  BY <1>1, JobsForServe
<1>4. /\ \A k \in Ids \ {i} : rows'[k] = rows[k]
      /\ rows'[i] # None => rows'[i] = row
  BY <1>1
<1>5. jobs' \subseteq Job
  BY <1>1, <1>2, <1>3
<1>6. ASSUME NEW j \in jobs'
      PROVE  /\ OnItsDay(j)
             /\ j.next <= NextRun(j.days, j.slot, SystemTime)
             /\ rows'[j.id] # None => Serves(j, rows'[j.id])
  <2>1. CASE j \in JobsFor(i, row)
    <3>1. j.next \in Nat
      BY <1>3, <2>1, <1>1, TimesTyped DEF Job
    <3> QED
      BY <1>3, <1>4, <2>1, <3>1
  <2>2. CASE j \in jobs /\ j.id # i
    <3>1. j.id \in Ids
      BY <1>1, <2>2 DEF Job
    <3> QED
      BY <1>4, <2>2, <3>1 DEF JobsServe
  <2> QED
    BY <1>2, <2>1, <2>2
<1>7. JobsServe'
  <2>1. \A j : OnItsDay(j)' <=> OnItsDay(j)
    BY DEF OnItsDay
  <2> QED
    BY <1>1, <1>6 DEF JobsServe
<1>8. ASSUME thread.step # "off", NEW k \in Ids, Runs(rows'[k]), rows'[k].time # Blank,
             NEW days \in JobDays(rows'[k].days)
      PROVE  \E j \in jobs' : j.id = k /\ j.days = days
  <2>1. rows'[k] # None
    BY <1>8 DEF Runs
  <2>2. CASE k = i
    <3>1. rows'[k] = row
      BY <1>4, <2>1, <2>2
    <3>2. PICK j \in JobsFor(i, row) : j.days = days
      BY <1>3, <1>8, <3>1
    <3> QED
      BY <1>2, <1>3, <2>2, <3>2
  <2>3. CASE k # i
    <3>1. rows'[k] = rows[k]
      BY <1>4, <2>3
    <3>2. PICK j \in jobs : j.id = k /\ j.days = days
      BY <1>8, <3>1 DEF RowsServed
    <3> QED
      BY <1>2, <2>3, <3>2
  <2> QED
    BY <2>2, <2>3
<1>9. RowsServed'
  BY <1>8 DEF RowsServed, Runs
<1> QED
  BY <1>5, <1>7, <1>9

(* A job that has run, or was skipped, is set anew, if it is still there.  *)
LEMMA RescheduledJobs ==
    ASSUME SchedulerTypeOK, JobsServe, RowsServed, NEW j \in Job, OnItsDay(j),
           jobs' = Rescheduled(j), now' = now, rows' = rows, thread.step # "off"
    PROVE  jobs' \subseteq Job /\ JobsServe' /\ RowsServed'
<1> DEFINE u == NextRun(j.days, j.slot, SystemTime)
           again == [j EXCEPT !.next = u]
<1>1. /\ jobs \subseteq Job /\ now \in 0..MaxTime /\ SystemTime' = SystemTime
      /\ \A i \in Ids : rows[i] \in Schedule \cup {None}
  BY DEF SchedulerTypeOK, SystemTime
<1>2. j.days \in SUBSET Weekdays /\ j.days # {} /\ j.slot \in Slots
  BY DEF Job, OnItsDay
<1>3. u \in 0..Horizon /\ DayOf(u) \in j.days /\ SlotOf(u) = j.slot
  BY <1>1, <1>2, NextRunTyped
<1>4. /\ again \in Job /\ again.id = j.id /\ again.days = j.days
      /\ again.slot = j.slot /\ again.next = u
  <2> HIDE DEF u
  <2> QED
    BY <1>3 DEF Job
<1>5. \/ j \notin jobs /\ jobs' = jobs
      \/ j \in jobs /\ jobs' = (jobs \ {j}) \cup {again}
  BY DEF Rescheduled
<1> HIDE DEF again
<1>6. ASSUME j \in jobs
      PROVE  /\ OnItsDay(again)
             /\ again.next <= NextRun(again.days, again.slot, SystemTime)
             /\ rows[again.id] # None => Serves(again, rows[again.id])
  <2>1. u \in Nat
    BY <1>1, <1>3, TimesTyped
  <2>2. again.next <= NextRun(again.days, again.slot, SystemTime)
    BY <1>4, <2>1
  <2>3. OnItsDay(again)
    <3> HIDE DEF u
    <3> QED
      BY <1>2, <1>3, <1>4 DEF OnItsDay
  <2>4. rows[again.id] # None => Serves(again, rows[again.id])
    BY <1>4, <1>6 DEF JobsServe, Serves
  <2> QED
    BY <2>2, <2>3, <2>4
<1> HIDE DEF u
<1>7. ASSUME NEW k \in jobs'
      PROVE  /\ OnItsDay(k)
             /\ k.next <= NextRun(k.days, k.slot, SystemTime)
             /\ rows[k.id] # None => Serves(k, rows[k.id])
  <2>1. CASE k \in jobs
    BY <2>1 DEF JobsServe
  <2>2. CASE k \notin jobs
    <3>1. j \in jobs /\ k = again
      BY <1>5, <2>2
    <3> QED
      BY <1>6, <3>1
  <2> QED
    BY <2>1, <2>2
<1>8. JobsServe'
  BY <1>1, <1>7 DEF JobsServe
<1>9. \A k \in jobs : \E m \in jobs' : m.id = k.id /\ m.days = k.days
  BY <1>4, <1>5
<1>10. RowsServed'
  BY <1>9 DEF RowsServed, Runs
<1> QED
  BY <1>1, <1>4, <1>5, <1>8, <1>10

(* The id of a new schedule is that of no row.                             *)
LEMMA NextIdNew ==
    ASSUME SchedulerTypeOK, NextId \in Ids
    PROVE  rows[NextId] = None
<1> DEFINE S == {0} \cup {i \in Ids : rows[i] # None}
           Left == {n \in Nat : \E x \in S : n = MaxId - x}
<1>1. MaxId \in Nat /\ \A x \in S : x \in Nat /\ x <= MaxId
  BY SchedulerAssumption DEF Ids
<1>2. MaxId \in Left
  BY <1>1
<1>3. Min(Left) \in Left /\ \A n \in Left : Min(Left) <= n
  <2>1. Left \in SUBSET Nat
    OBVIOUS
  <2> HIDE DEF Left
  <2> QED
    BY <1>2, <2>1, LeastExists
<1>4. PICK greatest \in S : Min(Left) = MaxId - greatest
  BY <1>3
<1>5. ASSUME NEW x \in S PROVE x <= greatest
  <2>1. MaxId - x \in Left
    BY <1>1
  <2>2. MaxId - greatest <= MaxId - x
    BY <1>3, <1>4, <2>1
  <2> QED
    BY <1>1, <2>2
<1> HIDE DEF Left
<1>6. Max(S) \in S /\ \A x \in S : x <= Max(S)
  <2>1. \E m \in S : \A x \in S : m >= x
    BY <1>1, <1>5
  <2> HIDE DEF S
  <2>2. Max(S) \in S /\ \A x \in S : Max(S) >= x
    BY <2>1 DEF Max
  <2> QED
    BY <1>1, <2>2
<1>7. NextId = 1 + Max(S)
  BY DEF NextId
<1>8. NextId \notin S
  <2> HIDE DEF S
  <2> QED
    BY <1>1, <1>6, <1>7
<1> QED
  BY <1>8

LEMMA StoredTyped ==
    ASSUME NEW wish \in Wishes, NEW scope \in Scopes, NEW mail \in Mails
    PROVE  Stored(wish, scope, mail) \in Schedule
<1>1. /\ wish.days \in SUBSET Weekdays /\ wish.time \in Slots \cup {Blank}
      /\ wish.enabled \in BOOLEAN
  BY SchedulerAssumption DEF Weekdays, Slots
<1>2. ToUtc(wish.time) \in Slots \cup {Blank}
  BY <1>1, ToUtcTyped
<1> QED
  BY <1>1, <1>2 DEF Stored, Schedule

(* The jobs stay those of the rows when rows go or are disabled.           *)
LEMMA RowsKept ==
    ASSUME SchedulerTypeOK, JobsServe, RowsServed, jobs' = jobs, now' = now,
           thread'.step # "off" => thread.step # "off",
           \A i \in Ids : rows'[i] # None =>
               /\ rows[i] # None
               /\ rows'[i].time = rows[i].time /\ rows'[i].days = rows[i].days
               /\ rows'[i].enabled => rows[i].enabled
    PROVE  JobsServe' /\ RowsServed'
<1>1. \A j \in jobs : j.id \in Ids
  BY DEF SchedulerTypeOK, Job
<1>2. JobsServe'
  BY <1>1 DEF JobsServe, OnItsDay, Serves, ToSystem, NextRun, SystemTime, DayOf, SlotOf
<1>3. \A i \in Ids : Runs(rows'[i]) => Runs(rows[i])
  BY DEF Runs
<1>4. RowsServed'
  <2> SUFFICES ASSUME thread'.step # "off", NEW i \in Ids, Runs(rows'[i]),
                      rows'[i].time # Blank, NEW days \in JobDays(rows'[i].days)
               PROVE  \E j \in jobs' : j.id = i /\ j.days = days
    BY DEF RowsServed, Runs
  <2>1. rows'[i].time = rows[i].time /\ rows'[i].days = rows[i].days /\ Runs(rows[i])
    BY <1>3 DEF Runs
  <2> QED
    BY <2>1 DEF RowsServed
<1> QED
  BY <1>2, <1>4

(* A job that ends leaves the pass.                                        *)
LEMMA FinishedThread ==
    ASSUME SchedulerTypeOK, ThreadServes, NEW e, thread' = Finished(e)
    PROVE  /\ thread'.step \in {"sleep", "pass"} /\ thread'.due \subseteq thread.due
           /\ thread'.running = None /\ thread'.due \subseteq Taken
           /\ ThreadServes'
<1>1. /\ thread'.step \in {"sleep", "pass"} /\ thread'.due = thread.due \ {e}
      /\ thread'.running = None
  BY DEF Finished, ThreadAt
<1>2. thread'.due \subseteq Taken
  BY <1>1 DEF SchedulerTypeOK
<1>3. ThreadServes'
  BY <1>1 DEF ThreadServes, TakenServed, OnItsDay, Serves, ToSystem, DayOf, SlotOf
<1> QED
  BY <1>1, <1>2, <1>3

LEMMA InvInit == SchedulerInit => SchedulerTypeOK /\ ScheduleInv
<1> SUFFICES ASSUME SchedulerInit PROVE SchedulerTypeOK /\ ScheduleInv
  OBVIOUS
<1>1. /\ rows = [i \in Ids |-> None] /\ jobs = {} /\ thread.step = "off" /\ thread.due = {}
      /\ thread.running = None /\ sent = None /\ now = 0
      /\ counts = [requests |-> 0, deaths |-> 0] /\ mails = Mails /\ cooldown = FALSE
  BY DEF SchedulerInit, ThreadAt
<1>2. SchedulerTypeOK
  <2>1. counts \in [requests : 0..MaxRequests, deaths : 0..MaxDeaths]
    BY <1>1, SchedulerAssumption
  <2>2. now \in 0..MaxTime
    BY <1>1, SchedulerAssumption
  <2>3. rows \in [Ids -> Schedule \cup {None}]
    BY <1>1
  <2> QED
    BY <1>1, <2>1, <2>2, <2>3 DEF SchedulerTypeOK
<1>3. JobsServe /\ RowsServed /\ SentServed
  BY <1>1 DEF JobsServe, RowsServed, SentServed
<1>4. ThreadServes
  BY <1>1 DEF ThreadServes
<1> QED
  BY <1>2, <1>3, <1>4 DEF ScheduleInv

-----------------------------------------------------------------------------
(* The thread.                                                             *)

(* The invariant of the proofs.                                            *)
Inv == SchedulerTypeOK /\ ScheduleInv

LEMMA StartSchedulerInv == Inv /\ StartScheduler => Inv'
<1> SUFFICES ASSUME Inv, StartScheduler PROVE Inv'
  OBVIOUS
<1> DEFINE started == {k \in Ids : rows[k] # None /\ rows[k].enabled}
<1>1. SchedulerTypeOK /\ JobsServe /\ RowsServed /\ ThreadServes /\ SentServed
  BY DEF Inv, ScheduleInv
<1>2. /\ jobs' = UNION {JobsFor(i, rows[i]) : i \in started}
      /\ thread'.step = "sleep" /\ thread'.due = {} /\ thread'.running = None
      /\ UNCHANGED <<rows, mails, cooldown, now, sent, counts>>
  BY DEF StartScheduler, ThreadAt
<1>3. now \in 0..MaxTime /\ SystemTime' = SystemTime
  BY <1>1, <1>2 DEF SchedulerTypeOK, SystemTime
<1>4. \A i \in started : i \in Ids /\ rows[i] \in Schedule
  BY <1>1 DEF SchedulerTypeOK
<1>5. \A i \in started :
        /\ \A j \in JobsFor(i, rows[i]) :
              /\ j \in Job /\ j.id = i /\ OnItsDay(j) /\ Serves(j, rows[i])
              /\ j.next = NextRun(j.days, j.slot, SystemTime)
        /\ rows[i].time # Blank =>
              \A days \in JobDays(rows[i].days) : \E j \in JobsFor(i, rows[i]) : j.days = days
  BY <1>3, <1>4, JobsForServe
<1>6. SchedulerTypeOK'
  <2>1. jobs' \subseteq Job
    BY <1>2, <1>5
  <2> QED
    BY <1>1, <1>2, <2>1 DEF SchedulerTypeOK
<1>7. JobsServe'
  <2>1. ASSUME NEW j \in jobs'
        PROVE  /\ OnItsDay(j)
               /\ j.next <= NextRun(j.days, j.slot, SystemTime)
               /\ rows[j.id] # None => Serves(j, rows[j.id])
    <3>1. PICK i \in started : j \in JobsFor(i, rows[i])
      BY <1>2
    <3>2. j.next \in Nat
      BY <1>3, <1>5, <3>1, TimesTyped DEF Job
    <3> QED
      BY <1>5, <3>1, <3>2
  <2> QED
    BY <1>2, <1>3, <2>1 DEF JobsServe
<1>8. RowsServed'
  BY <1>2, <1>5 DEF RowsServed, Runs
<1>9. ThreadServes' /\ SentServed'
  BY <1>1, <1>2 DEF ThreadServes, SentServed, ToSystem, DayOf, SlotOf
<1> QED
  BY <1>6, <1>7, <1>8, <1>9 DEF Inv, ScheduleInv

LEMMA DieInv == Inv /\ Die => Inv'
<1> SUFFICES ASSUME Inv, Die PROVE Inv'
  OBVIOUS
<1>1. SchedulerTypeOK /\ SentServed
  BY DEF Inv, ScheduleInv
<1>2. /\ jobs' = {} /\ thread'.step = "off" /\ thread'.due = {} /\ thread'.running = None
      /\ cooldown' = FALSE /\ UNCHANGED <<rows, mails, now, sent>>
  BY DEF Die, ThreadAt
<1>3. counts' \in [requests : 0..MaxRequests, deaths : 0..MaxDeaths]
  BY <1>1, SchedulerAssumption DEF SchedulerTypeOK, Die
<1>4. SchedulerTypeOK'
  BY <1>1, <1>2, <1>3 DEF SchedulerTypeOK
<1>5. JobsServe' /\ RowsServed' /\ ThreadServes' /\ SentServed'
  BY <1>1, <1>2 DEF JobsServe, RowsServed, ThreadServes, SentServed, ToSystem, DayOf, SlotOf
<1> QED
  BY <1>4, <1>5 DEF Inv, ScheduleInv

LEMMA BeginPassInv == Inv /\ BeginPass => Inv'
<1> SUFFICES ASSUME Inv, BeginPass PROVE Inv'
  OBVIOUS
<1> DEFINE taken == {[job |-> j, asked |-> rows[j.id]] : j \in {k \in jobs : IsDue(k)}}
<1>1. SchedulerTypeOK /\ JobsServe /\ RowsServed /\ ThreadServes /\ SentServed
  BY DEF Inv, ScheduleInv
<1>2. /\ thread.step = "sleep"
      /\ thread'.step = "pass" /\ thread'.due = taken /\ thread'.running = None
      /\ UNCHANGED <<rows, mails, jobs, cooldown, now, sent, counts>>
  BY DEF BeginPass, ThreadAt
<1>3. \A e \in taken : e \in Taken /\ TakenServed(e)
  <2> SUFFICES ASSUME NEW j \in jobs
               PROVE  LET e == [job |-> j, asked |-> rows[j.id]] IN
                      e \in Taken /\ TakenServed(e)
    OBVIOUS
  <2>1. j \in Job /\ j.id \in Ids /\ rows[j.id] \in Schedule \cup {None}
    BY <1>1 DEF SchedulerTypeOK, Job
  <2>2. OnItsDay(j) /\ (rows[j.id] # None => Serves(j, rows[j.id]))
    BY <1>1 DEF JobsServe
  <2> QED
    BY <2>1, <2>2 DEF Taken, TakenServed
<1>4. SchedulerTypeOK'
  BY <1>1, <1>2, <1>3 DEF SchedulerTypeOK
<1>5. JobsServe' /\ RowsServed'
  BY <1>1, <1>2, RowsKept
<1>6. ThreadServes'
  BY <1>2, <1>3 DEF ThreadServes, TakenServed, OnItsDay, Serves, ToSystem, DayOf, SlotOf
<1>7. SentServed'
  BY <1>1, <1>2 DEF SentServed, ToSystem, DayOf, SlotOf
<1> QED
  BY <1>4, <1>5, <1>6, <1>7 DEF Inv, ScheduleInv

LEMMA StartJobInv == \A e \in thread.due : Inv /\ StartJob(e) => Inv'
<1> SUFFICES ASSUME Inv, NEW e \in thread.due, StartJob(e) PROVE Inv'
  OBVIOUS
<1> DEFINE row == rows[e.job.id]
<1>1. SchedulerTypeOK /\ JobsServe /\ RowsServed /\ ThreadServes /\ SentServed
  BY DEF Inv, ScheduleInv
<1>2. /\ thread.step = "pass" /\ Runs(row)
      /\ thread'.step = "generate" /\ thread'.due = thread.due
      /\ thread'.running = [taken |-> e, row |-> row]
      /\ UNCHANGED <<rows, mails, jobs, cooldown, now, sent, counts>>
  BY DEF StartJob, ThreadAt
<1>3. row \in Schedule /\ row # None /\ e \in Taken
  BY <1>1, <1>2 DEF SchedulerTypeOK, Runs, Taken, Job
<1>4. thread'.running \in [taken : Taken, row : Schedule]
  BY <1>2, <1>3
<1>5. SchedulerTypeOK'
  BY <1>1, <1>2, <1>4 DEF SchedulerTypeOK
<1>6. JobsServe' /\ RowsServed'
  BY <1>1, <1>2, RowsKept
<1>7. ThreadServes'
  <2>1. \A f \in thread'.due : TakenServed(f)'
    BY <1>1, <1>2 DEF ThreadServes, TakenServed, OnItsDay, Serves, ToSystem, DayOf, SlotOf
  <2>2. thread'.running.taken \in thread'.due /\ thread'.running.row # None
    BY <1>2, <1>3
  <2> QED
    BY <1>2, <1>4, <2>1, <2>2 DEF ThreadServes
<1>8. SentServed'
  BY <1>1, <1>2 DEF SentServed, ToSystem, DayOf, SlotOf
<1> QED
  BY <1>5, <1>6, <1>7, <1>8 DEF Inv, ScheduleInv

(* A job of the pass ends, with a report or without one.                   *)
LEMMA JobEnds ==
    ASSUME Inv, NEW e \in thread.due, thread.step # "off",
           jobs' = Rescheduled(e.job), thread' = Finished(e),
           UNCHANGED <<rows, mails, cooldown, now, counts>>
    PROVE  /\ JobsServe' /\ RowsServed' /\ ThreadServes'
           /\ sent' = sent => Inv'
           /\ sent' \in [due : 0..Horizon, asked : Schedule \cup {None}, row : Schedule]
                 => SchedulerTypeOK'
<1>1. SchedulerTypeOK /\ JobsServe /\ RowsServed /\ ThreadServes /\ SentServed
  BY DEF Inv, ScheduleInv
<1>2. e.job \in Job /\ OnItsDay(e.job)
  BY <1>1 DEF SchedulerTypeOK, Taken, ThreadServes, TakenServed
<1>3. jobs' \subseteq Job /\ JobsServe' /\ RowsServed'
  BY <1>1, <1>2, RescheduledJobs
<1>4. /\ thread'.step \in {"sleep", "pass"} /\ thread'.due \subseteq Taken
      /\ thread'.running = None /\ ThreadServes'
  BY <1>1, FinishedThread
<1>5. \/ sent' = sent
      \/ sent' \in [due : 0..Horizon, asked : Schedule \cup {None}, row : Schedule]
      => SchedulerTypeOK'
  BY <1>1, <1>3, <1>4 DEF SchedulerTypeOK
<1>6. sent' = sent => SentServed'
  BY <1>1 DEF SentServed, ToSystem, DayOf, SlotOf
<1> QED
  BY <1>3, <1>4, <1>5, <1>6 DEF Inv, ScheduleInv

LEMMA SkipJobInv == \A e \in thread.due : Inv /\ SkipJob(e) => Inv'
  BY JobEnds DEF SkipJob

LEMMA ReportFailsInv == Inv /\ ReportFails => Inv'
<1> SUFFICES ASSUME Inv, ReportFails PROVE Inv'
  OBVIOUS
<1>1. thread.running.taken \in thread.due
  BY DEF Inv, ScheduleInv, ThreadServes, ReportFails
<1> QED
  BY <1>1, JobEnds DEF ReportFails

LEMMA SendReportInv == Inv /\ SendReport => Inv'
<1> SUFFICES ASSUME Inv, SendReport PROVE Inv'
  OBVIOUS
<1> DEFINE e == thread.running.taken
           row == thread.running.row
<1>1. SchedulerTypeOK /\ ThreadServes
  BY DEF Inv, ScheduleInv
<1>2. /\ thread.step = "generate" /\ e \in thread.due /\ row # None /\ row \in Schedule
      /\ e \in Taken
  BY <1>1 DEF ThreadServes, SendReport
<1>3. /\ sent' = [due |-> e.job.next, asked |-> e.asked, row |-> row]
      /\ jobs' = Rescheduled(e.job) /\ thread' = Finished(e)
      /\ UNCHANGED <<rows, mails, cooldown, now, counts>>
  BY DEF SendReport
<1>4. /\ sent'.due = e.job.next /\ sent'.asked = e.asked /\ sent'.row = row
      /\ sent' \in [due : 0..Horizon, asked : Schedule \cup {None}, row : Schedule]
  BY <1>2, <1>3 DEF Taken, Job
<1>5. SchedulerTypeOK' /\ JobsServe' /\ RowsServed' /\ ThreadServes'
  BY <1>2, <1>3, <1>4, JobEnds
<1>6. TakenServed(e)
  BY <1>1, <1>2 DEF ThreadServes
<1>7. SentServed'
  BY <1>2, <1>4, <1>6 DEF SentServed, TakenServed, OnItsDay, Serves, ToSystem, DayOf, SlotOf
<1> QED
  BY <1>5, <1>7 DEF Inv, ScheduleInv

-----------------------------------------------------------------------------
(* The users' requests.                                                    *)

LEMMA RequestTyped ==
    ASSUME SchedulerTypeOK, Request
    PROVE  counts' \in [requests : 0..MaxRequests, deaths : 0..MaxDeaths]
  BY SchedulerAssumption DEF SchedulerTypeOK, Request

(* What the thread holds, and what was sent, do not depend on the rows.    *)
LEMMA ThreadKept ==
    ASSUME ThreadServes, SentServed, thread' = thread, sent' = sent,
           thread.step = "off" => jobs' = {}
    PROVE  ThreadServes' /\ SentServed'
<1>1. ThreadServes'
  <2>1. \A e \in thread'.due : TakenServed(e)'
    BY DEF ThreadServes, TakenServed, OnItsDay, Serves, ToSystem, DayOf, SlotOf
  <2> QED
    BY <2>1 DEF ThreadServes
<1>2. SentServed'
  BY DEF SentServed, ToSystem, DayOf, SlotOf
<1> QED
  BY <1>1, <1>2

LEMMA PostScheduleInv ==
    \A wish \in Wishes, scope \in Scopes, mail \in Mails :
        Inv /\ PostSchedule(wish, scope, mail) => Inv'
<1> SUFFICES ASSUME Inv, NEW wish \in Wishes, NEW scope \in Scopes, NEW mail \in Mails,
                    PostSchedule(wish, scope, mail)
             PROVE  Inv'
  OBVIOUS
<1> DEFINE stored == Stored(wish, scope, mail)
<1>1. SchedulerTypeOK /\ JobsServe /\ RowsServed /\ ThreadServes /\ SentServed
  BY DEF Inv, ScheduleInv
<1>2. /\ Request /\ NextId \in Ids /\ cooldown' = TRUE
      /\ rows' = IF stored.time = Blank THEN rows ELSE [rows EXCEPT ![NextId] = stored]
      /\ jobs' = _add_job_from_schedule(NextId, stored)
      /\ UNCHANGED <<mails, thread, now, sent>>
  BY DEF PostSchedule
<1>3. stored \in Schedule
  BY StoredTyped
<1>4. rows[NextId] = None
  BY <1>1, <1>2, NextIdNew
<1> HIDE DEF stored
<1>5. jobs' \subseteq Job /\ JobsServe' /\ RowsServed'
  BY <1>1, <1>2, <1>3, <1>4, AddedJobs
<1>6. counts' \in [requests : 0..MaxRequests, deaths : 0..MaxDeaths]
  BY <1>1, <1>2, RequestTyped
<1>7. rows' \in [Ids -> Schedule \cup {None}]
  BY <1>1, <1>2, <1>3 DEF SchedulerTypeOK
<1>8. SchedulerTypeOK'
  BY <1>1, <1>2, <1>5, <1>6, <1>7 DEF SchedulerTypeOK
<1>9. ThreadServes' /\ SentServed'
  BY <1>1, <1>2, ThreadKept DEF Request
<1> QED
  BY <1>5, <1>8, <1>9 DEF Inv, ScheduleInv

LEMMA PutScheduleInv ==
    \A i \in Ids, wish \in Wishes, scope \in Scopes, mail \in Mails :
        Inv /\ PutSchedule(i, wish, scope, mail) => Inv'
<1> SUFFICES ASSUME Inv, NEW i \in Ids, NEW wish \in Wishes, NEW scope \in Scopes,
                    NEW mail \in Mails, PutSchedule(i, wish, scope, mail)
             PROVE  Inv'
  OBVIOUS
<1> DEFINE stored == Stored(wish, scope, mail)
<1>1. SchedulerTypeOK /\ JobsServe /\ RowsServed /\ ThreadServes /\ SentServed
  BY DEF Inv, ScheduleInv
<1>2. /\ Request
      /\ rows' = [rows EXCEPT ![i] = stored]
      /\ jobs' = _add_job_from_schedule(i, stored)
      /\ UNCHANGED <<mails, thread, cooldown, now, sent>>
  BY DEF PutSchedule
<1>3. stored \in Schedule
  BY StoredTyped
<1> HIDE DEF stored
<1>4. jobs' \subseteq Job /\ JobsServe' /\ RowsServed'
  BY <1>1, <1>2, <1>3, AddedJobs
<1>5. counts' \in [requests : 0..MaxRequests, deaths : 0..MaxDeaths]
  BY <1>1, <1>2, RequestTyped
<1>6. rows' \in [Ids -> Schedule \cup {None}]
  BY <1>1, <1>2, <1>3 DEF SchedulerTypeOK
<1>7. SchedulerTypeOK'
  BY <1>1, <1>2, <1>4, <1>5, <1>6 DEF SchedulerTypeOK
<1>8. ThreadServes' /\ SentServed'
  BY <1>1, <1>2, ThreadKept DEF Request
<1> QED
  BY <1>4, <1>7, <1>8 DEF Inv, ScheduleInv

(* A request that deletes or disables schedules, or mail configurations.   *)
LEMMA FewerRows ==
    ASSUME Inv, Request, UNCHANGED <<jobs, thread, cooldown, now, sent>>, mails' \subseteq mails,
           rows' \in [Ids -> Schedule \cup {None}],
           \A i \in Ids : rows'[i] # None =>
               /\ rows[i] # None
               /\ rows'[i].time = rows[i].time /\ rows'[i].days = rows[i].days
               /\ rows'[i].enabled => rows[i].enabled
    PROVE  Inv'
<1>1. SchedulerTypeOK /\ JobsServe /\ RowsServed /\ ThreadServes /\ SentServed
  BY DEF Inv, ScheduleInv
<1>2. counts' \in [requests : 0..MaxRequests, deaths : 0..MaxDeaths]
  BY <1>1, RequestTyped
<1>3. SchedulerTypeOK'
  BY <1>1, <1>2 DEF SchedulerTypeOK
<1>4. JobsServe' /\ RowsServed'
  BY <1>1, RowsKept
<1>5. ThreadServes' /\ SentServed'
  BY <1>1, ThreadKept DEF Request
<1> QED
  BY <1>3, <1>4, <1>5 DEF Inv, ScheduleInv

LEMMA DeleteScheduleInv ==
    \A i \in Ids, scope \in Scopes : Inv /\ DeleteSchedule(i, scope) => Inv'
<1> SUFFICES ASSUME Inv, NEW i \in Ids, NEW scope \in Scopes, DeleteSchedule(i, scope)
             PROVE  Inv'
  OBVIOUS
<1>1. rows \in [Ids -> Schedule \cup {None}]
  BY DEF Inv, SchedulerTypeOK
<1>2. rows' \in [Ids -> Schedule \cup {None}]
  BY <1>1 DEF DeleteSchedule
<1>3. \A k \in Ids : rows'[k] # None => rows'[k] = rows[k] /\ rows[k] # None
  BY <1>1 DEF DeleteSchedule
<1> QED
  BY <1>2, <1>3, FewerRows DEF DeleteSchedule

LEMMA DisableInv ==
    \A scope \in Scopes : Inv /\ disable_report_scheduler(scope) => Inv'
<1> SUFFICES ASSUME Inv, NEW scope \in Scopes, disable_report_scheduler(scope)
             PROVE  Inv'
  OBVIOUS
<1>1. \A k \in Ids : rows[k] \in Schedule \cup {None}
  BY DEF Inv, SchedulerTypeOK
<1>2. rows' = [i \in Ids |-> IF rows[i] # None /\ rows[i].scope = scope
                             THEN [rows[i] EXCEPT !.enabled = FALSE] ELSE rows[i]]
  BY DEF disable_report_scheduler
<1>3. ASSUME NEW row \in Schedule
      PROVE  LET disabled == [row EXCEPT !.enabled = FALSE] IN
             /\ disabled \in Schedule
             /\ disabled.time = row.time /\ disabled.days = row.days /\ disabled.enabled = FALSE
  BY DEF Schedule
<1>4. ASSUME NEW k \in Ids
      PROVE  /\ rows'[k] \in Schedule \cup {None}
             /\ rows'[k] # None =>
                   /\ rows[k] # None
                   /\ rows'[k].time = rows[k].time /\ rows'[k].days = rows[k].days
                   /\ rows'[k].enabled => rows[k].enabled
  <2>1. CASE rows[k] # None /\ rows[k].scope = scope
    BY <1>1, <1>2, <1>3, <2>1
  <2>2. CASE ~(rows[k] # None /\ rows[k].scope = scope)
    BY <1>1, <1>2, <2>2
  <2> QED
    BY <2>1, <2>2
<1>5. rows' \in [Ids -> Schedule \cup {None}]
  BY <1>2, <1>4
<1> QED
  BY <1>4, <1>5, FewerRows DEF disable_report_scheduler

LEMMA DeleteMailInv ==
    \A m \in Mails : Inv /\ (DeleteMailConfig(m) \/ DeleteMailSettings(m)) => Inv'
<1> SUFFICES ASSUME Inv, NEW m \in Mails, DeleteMailConfig(m) \/ DeleteMailSettings(m)
             PROVE  Inv'
  OBVIOUS
<1>1. rows \in [Ids -> Schedule \cup {None}]
  BY DEF Inv, SchedulerTypeOK
<1>2. CASE DeleteMailConfig(m)
  <2>1. rows' = [i \in Ids |-> IF rows[i] # None /\ rows[i].mail = m THEN None ELSE rows[i]]
    BY <1>2 DEF DeleteMailConfig
  <2>2. rows' \in [Ids -> Schedule \cup {None}]
    BY <1>1, <2>1
  <2>3. \A k \in Ids : rows'[k] # None => rows'[k] = rows[k] /\ rows[k] # None
    BY <2>1
  <2> QED
    BY <1>2, <2>2, <2>3, FewerRows DEF DeleteMailConfig
<1>3. CASE DeleteMailSettings(m)
  BY <1>1, <1>3, FewerRows DEF DeleteMailSettings
<1> QED
  BY <1>2, <1>3

-----------------------------------------------------------------------------
(* The clock.                                                              *)

LEMMA NextRunNat ==
    ASSUME NEW days \in SUBSET Weekdays, days # {}, NEW slot \in Slots, NEW t \in Nat
    PROVE  NextRun(days, slot, t) \in Nat
<1> DEFINE u == NextRun(days, slot, t)
           W == SlotsPerDay * DaysPerWeek
<1>1. u \in t + 1..t + W
  BY NextRunFound
<1>2. W \in Nat
  BY Week
<1> HIDE DEF u, W
<1>3. u \in Nat
  BY <1>1, <1>2
<1> QED
  BY <1>3 DEF u

LEMMA TickInv == Inv /\ Tick => Inv'
<1> SUFFICES ASSUME Inv, Tick PROVE Inv'
  OBVIOUS
<1>1. SchedulerTypeOK /\ JobsServe /\ RowsServed /\ ThreadServes /\ SentServed
  BY DEF Inv, ScheduleInv
<1>2. /\ now' = now + 1 /\ now' \in 0..MaxTime
      /\ UNCHANGED <<rows, mails, jobs, thread, cooldown, sent, counts>>
  BY <1>1, SchedulerAssumption DEF Tick, SchedulerTypeOK
<1>3. SchedulerTypeOK'
  BY <1>1, <1>2 DEF SchedulerTypeOK
<1>4. SystemTime \in Nat /\ SystemTime' \in Nat /\ SystemTime <= SystemTime'
  BY <1>1, <1>2, SchedulerAssumption DEF SchedulerTypeOK, SystemTime
<1>5. ASSUME NEW j \in jobs
      PROVE  /\ OnItsDay(j)
             /\ j.next <= NextRun(j.days, j.slot, SystemTime')
             /\ rows[j.id] # None => Serves(j, rows[j.id])
  <2> DEFINE u == NextRun(j.days, j.slot, SystemTime)
             v == NextRun(j.days, j.slot, SystemTime')
  <2>1. OnItsDay(j) /\ j.next <= u /\ (rows[j.id] # None => Serves(j, rows[j.id]))
    BY <1>1 DEF JobsServe
  <2>2. /\ j.days \in SUBSET Weekdays /\ j.days # {} /\ j.slot \in Slots /\ j.next \in 0..Horizon
    BY <1>1, <2>1 DEF SchedulerTypeOK, Job, OnItsDay
  <2>3. u <= v
    BY <1>4, <2>2, NextRunMonotone
  <2>4. u \in Nat /\ v \in Nat
    BY <1>4, <2>2, NextRunNat
  <2>5. j.next \in Nat
    BY <1>1, <2>2, TimesTyped DEF SchedulerTypeOK
  <2> HIDE DEF u, v
  <2>6. j.next <= v
    BY <2>1, <2>3, <2>4, <2>5
  <2> QED
    BY <2>1, <2>6 DEF v
<1>6. JobsServe'
  BY <1>2, <1>5 DEF JobsServe, OnItsDay, Serves, ToSystem, NextRun, DayOf, SlotOf
<1>7. RowsServed'
  BY <1>1, <1>2 DEF RowsServed
<1>8. ThreadServes' /\ SentServed'
  BY <1>1, <1>2, ThreadKept DEF ThreadServes
<1> QED
  BY <1>3, <1>6, <1>7, <1>8 DEF Inv, ScheduleInv

LEMMA InvKept ==
    ASSUME Inv, UNCHANGED <<rows, mails, jobs, thread, now, sent, counts>>,
           cooldown' \in BOOLEAN
    PROVE  Inv'
<1>1. SchedulerTypeOK /\ JobsServe /\ RowsServed /\ ThreadServes /\ SentServed
  BY DEF Inv, ScheduleInv
<1>2. SchedulerTypeOK'
  BY <1>1 DEF SchedulerTypeOK
<1>3. JobsServe' /\ RowsServed'
  BY <1>1, RowsKept
<1>4. ThreadServes' /\ SentServed'
  BY <1>1, ThreadKept DEF ThreadServes
<1> QED
  BY <1>2, <1>3, <1>4 DEF Inv, ScheduleInv

LEMMA InvStep == Inv /\ [SchedulerNext]_schedulerVars => Inv'
<1> SUFFICES ASSUME Inv, [SchedulerNext]_schedulerVars PROVE Inv'
  OBVIOUS
<1>1. CASE StartScheduler
  BY <1>1, StartSchedulerInv
<1>2. CASE Die
  BY <1>2, DieInv
<1>3. CASE RunPending
  BY <1>3, BeginPassInv, SendReportInv, ReportFailsInv, StartJobInv, SkipJobInv DEF RunPending
<1>4. CASE \E wish \in Wishes, scope \in Scopes, mail \in Mails : PostSchedule(wish, scope, mail)
  BY <1>4, PostScheduleInv
<1>5. CASE \E i \in Ids, wish \in Wishes, scope \in Scopes, mail \in Mails :
               PutSchedule(i, wish, scope, mail)
  BY <1>5, PutScheduleInv
<1>6. CASE \E i \in Ids, scope \in Scopes : DeleteSchedule(i, scope)
  BY <1>6, DeleteScheduleInv
<1>7. CASE \E scope \in Scopes : disable_report_scheduler(scope)
  BY <1>7, DisableInv
<1>8. CASE \E m \in Mails : DeleteMailConfig(m) \/ DeleteMailSettings(m)
  BY <1>8, DeleteMailInv
<1>9. CASE CooldownEnds
  BY <1>9, InvKept DEF CooldownEnds
<1>10. CASE Tick
  BY <1>10, TickInv
<1>11. CASE UNCHANGED schedulerVars
  BY <1>11, InvKept DEF schedulerVars, Inv, SchedulerTypeOK
<1> QED
  BY <1>1, <1>2, <1>3, <1>4, <1>5, <1>6, <1>7, <1>8, <1>9, <1>10, <1>11 DEF SchedulerNext

LEMMA Invariance == SchedulerSpec => []Inv
<1>1. SchedulerInit => Inv
  BY InvInit DEF Inv
<1> QED
  BY <1>1, InvStep, PTL DEF SchedulerSpec

-----------------------------------------------------------------------------
(* The results.                                                            *)

(* Every variable keeps its type, for any number of schedules, requests and*)
(* restarts and any length of the day and of the week.                     *)
THEOREM SchedulerTypeCorrect == SchedulerSpec => []SchedulerTypeOK
<1>1. Inv => SchedulerTypeOK
  BY DEF Inv
<1> QED
  BY <1>1, Invariance, PTL

(* The jobs of an enabled schedule that has a time are the ones its row    *)
(* asks for, whatever the users and the thread did in between, and each is *)
(* set for the next time the row names or for one already due.             *)
THEOREM JobsAlwaysMatch == SchedulerSpec => []JobsMatchRows
<1>1. Inv => JobsMatchRows
  <2> SUFFICES ASSUME Inv, thread.step # "off", NEW i \in Ids, Runs(rows[i]),
                      rows[i].time # Blank
               PROVE  LET mine == {j \in jobs : j.id = i} IN
                      /\ {j.days : j \in mine} = JobDays(rows[i].days)
                      /\ \A j \in mine :
                            /\ j.slot = ToSystem(rows[i].time)
                            /\ j.next <= NextRun(j.days, j.slot, SystemTime)
    BY DEF JobsMatchRows
  <2> DEFINE mine == {j \in jobs : j.id = i}
  <2>1. JobsServe /\ RowsServed /\ rows[i] # None
    BY DEF Inv, ScheduleInv, Runs
  <2>2. \A j \in mine : /\ j.days \in JobDays(rows[i].days)
                        /\ j.slot = ToSystem(rows[i].time)
                        /\ j.next <= NextRun(j.days, j.slot, SystemTime)
    BY <2>1 DEF JobsServe, Serves
  <2>3. \A days \in JobDays(rows[i].days) : \E j \in mine : j.days = days
    BY <2>1 DEF RowsServed
  <2>4. {j.days : j \in mine} = JobDays(rows[i].days)
    BY <2>2, <2>3
  <2> QED
    BY <2>2, <2>4
<1> QED
  BY <1>1, Invariance, PTL

(* An instant at which the server's clock shows a time stored in UTC is one *)
(* at which the user's shows the time the user sent.                       *)
LEMMA UserSlot ==
    ASSUME NEW time \in Slots, NEW t \in Nat, SlotOf(t) = ToSystem(time)
    PROVE  SlotOf(UserTime(t)) = (time + UserOffset) % SlotsPerDay
<1> DEFINE S == SlotsPerDay
           q == t \div S
           a == (time + SystemOffset) \div S
           b == (time + UserOffset) \div S
           r == (time + UserOffset) % S
           p == q + DaysPerWeek - a + b
<1>1. /\ S \in Nat \ {0} /\ DaysPerWeek \in Nat \ {0}
      /\ SystemOffset \in 0..S - 1 /\ UserOffset \in 0..S - 1
      /\ time \in 0..S - 1
  BY SchedulerAssumption DEF Slots
<1>2. /\ q \in Nat /\ t = S * q + (t % S)
      /\ t % S = (time + SystemOffset) % S
  <2> HIDE DEF S
  <2> QED
    BY <1>1, Division DEF SlotOf, ToSystem, S
<1>3. /\ a \in Nat /\ b \in Nat /\ r \in 0..S - 1
      /\ time + SystemOffset = S * a + ((time + SystemOffset) % S)
      /\ time + UserOffset = S * b + r
      /\ (time + SystemOffset) % S \in 0..S - 1
  <2>1. time + SystemOffset \in Nat /\ time + UserOffset \in Nat
    BY <1>1
  <2> DEFINE x == time + SystemOffset
             y == time + UserOffset
  <2> HIDE DEF S, x, y
  <2>2. /\ x \div S \in Nat /\ x % S \in 0..(S - 1) /\ x = S * (x \div S) + (x % S)
    BY <1>1, <2>1, Division DEF x
  <2>3. /\ y \div S \in Nat /\ y % S \in 0..(S - 1) /\ y = S * (y \div S) + (y % S)
    BY <1>1, <2>1, Division DEF y
  <2> QED
    BY <2>2, <2>3 DEF x, y
<1> HIDE DEF S, q, a, b, r
<1>4. a <= 1
  <2>1. 1 < a => S * 1 + S <= S * a
    BY <1>1, <1>3, Multiples
  <2>2. S * a <= time + SystemOffset
    <3>1. S * a \in Nat
      BY <1>1, <1>3, Distributes
    <3> QED
      BY <1>1, <1>3, <3>1
  <2>3. S * a \in Nat
    BY <1>1, <1>3, Distributes
  <2> QED
    BY <1>1, <1>3, <2>1, <2>2, <2>3
<1>5. p \in Nat
  BY <1>1, <1>2, <1>3, <1>4
<1>6. /\ S * (q + DaysPerWeek) = S * q + S * DaysPerWeek
      /\ S * (p + a) = S * p + S * a
      /\ S * (q + DaysPerWeek + b) = S * (q + DaysPerWeek) + S * b
      /\ S * q \in Nat /\ S * DaysPerWeek \in Nat /\ S * p \in Nat
      /\ S * a \in Nat /\ S * b \in Nat
  <2> HIDE DEF p
  <2>1. q + DaysPerWeek \in Nat
    BY <1>1, <1>2
  <2> QED
    BY <1>1, <1>2, <1>3, <1>5, <2>1, Distributes
<1>7. p + a = q + DaysPerWeek + b
  BY <1>1, <1>2, <1>3
<1> DEFINE W == S * DaysPerWeek
           Sq == S * q
           Sp == S * p
           Sa == S * a
           Sb == S * b
<1>8. Sp + Sa = Sq + W + Sb
  BY <1>6, <1>7
<1>9. UserTime(t) = Sp + r
  <2>1. UserTime(t) = t + W - SystemOffset + UserOffset
    BY DEF UserTime, S
  <2>2. /\ Sp \in Nat /\ Sa \in Nat /\ Sq \in Nat /\ W \in Nat /\ Sb \in Nat
        /\ t = Sq + ((time + SystemOffset) % S)
        /\ time + SystemOffset = Sa + ((time + SystemOffset) % S)
        /\ time + UserOffset = Sb + r
    BY <1>2, <1>3, <1>6
  <2> HIDE DEF W, Sq, Sp, Sa, Sb
  <2> QED
    BY <1>1, <1>3, <1>8, <2>1, <2>2
<1>10. UserTime(t) % S = r
  <2> DEFINE u == UserTime(t)
  <2>1. u = S * p + r /\ r \in 0..(S - 1) /\ S \in Nat \ {0} /\ p \in Nat
    BY <1>1, <1>3, <1>5, <1>9
  <2> HIDE DEF p, u
  <2> QED
    BY <2>1, DivisionUnique DEF u
<1> QED
  BY <1>10 DEF SlotOf, S, r

(* A report of a schedule nobody changed is due at the time of day its user *)
(* chose, by the user's clock, and on a day the user chose, by the server's, *)
(* for any two time zones.                                                 *)
THEOREM AlwaysDueAtChosenTime == SchedulerSpec => []DueAtChosenTime
<1>1. Inv => DueAtChosenTime
  <2> SUFFICES ASSUME Inv, sent # None, sent.asked = sent.row
               PROVE  /\ sent.row.time # Blank
                      /\ SlotOf(UserTime(sent.due)) = ChosenSlot(sent.row)
                      /\ OnDay(sent.row, DayOf(sent.due))
    BY DEF DueAtChosenTime
  <2> DEFINE row == sent.row
             t == sent.due
  <2>1. /\ row # None /\ row.time # Blank /\ SlotOf(t) = ToSystem(row.time)
        /\ \E days \in JobDays(row.days) : DayOf(t) \in days
    BY DEF Inv, ScheduleInv, SentServed
  <2>2. t \in 0..Horizon /\ row \in Schedule
    BY DEF Inv, SchedulerTypeOK
  <2>3. t \in Nat
    BY <2>2, TimesTyped DEF Inv, SchedulerTypeOK
  <2>4. row.time \in Slots
    BY <2>1, <2>2 DEF Schedule
  <2>5. SlotOf(UserTime(t)) = ChosenSlot(row)
    BY <2>1, <2>3, <2>4, UserSlot DEF ChosenSlot
  <2>6. OnDay(row, DayOf(t))
    BY <2>1 DEF JobDays, OnDay
  <2> QED
    BY <2>1, <2>5, <2>6
<1> QED
  BY <1>1, Invariance, PTL

=============================================================================
