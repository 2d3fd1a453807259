------------------------ MODULE Notifications_proofs ------------------------
(***************************************************************************)
(* Proofs about Notifications: its types, that no route leads to a         *)
(* configuration that is gone, that a channel has one default, and that a  *)
(* sender leaves out no channel that led somewhere all along, for any      *)
(* targets, events, configurations and senders.                            *)
(***************************************************************************)
EXTENDS Notifications, NaturalsInduction, WellFoundedInduction, TLAPS

(* The least of some numbers is one of them.                               *)
LEMMA MinIn ==
    ASSUME NEW S \in SUBSET Nat, S # {}
    PROVE  Min(S) \in S /\ \A x \in S : Min(S) <= x
<1> DEFINE R == {ss \in Nat \X Nat : ss[1] < ss[2]}
<1>1. IsWellFoundedOn(R, Nat)
  BY NatLessThanWellFounded, Zenon DEF OpToRel
<1>2. \A m, n \in Nat : m < n => <<m, n>> \in R
  OBVIOUS
<1> HIDE DEF R
<1>3. PICK x \in S : \A y \in S : ~ (<<y, x>> \in R)
  BY <1>1, WFMin, Zenon
<1>4. ASSUME NEW y \in S PROVE x =< y
  <2>1. x \in Nat /\ y \in Nat
    OBVIOUS
  <2>2. ~(y < x)
    BY <1>2, <1>3, <2>1, Zenon
  <2> QED
    BY <2>1, <2>2
<1> QED
  BY <1>4 DEF Min

-----------------------------------------------------------------------------
(* Types.                                                                  *)

(* The routes: rows of some scopes and events.                             *)
IsRoutes(rows) ==
    /\ DOMAIN rows \subseteq Scopes \X Events
    /\ \A r \in DOMAIN rows : rows[r] \in Row

LEMMA NewRowType == NewRow \in Row
  BY DEF NewRow, Row, IdOrNone

LEMMA RowAtType ==
    ASSUME TypeOK, NEW scope, NEW e
    PROVE  RowAt(scope, e) \in Row
  BY NewRowType DEF TypeOK, RowAt

LEMMA EnsuredType ==
    ASSUME TypeOK, NEW scope \in Scopes, NEW e \in Events
    PROVE  /\ IsRoutes(EnsuredRows(scope, e))
           /\ DOMAIN routes \subseteq DOMAIN EnsuredRows(scope, e)
           /\ \A r \in DOMAIN EnsuredRows(scope, e) :
                 EnsuredRows(scope, e)[r] = IF r \in DOMAIN routes THEN routes[r] ELSE NewRow
<1> DEFINE added == IF HasRows(scope) THEN {<<scope, e>>} ELSE {scope} \X Events
<1>1. added \subseteq Scopes \X Events
  OBVIOUS
<1>2. EnsuredRows(scope, e) = [r \in DOMAIN routes \cup added |->
                                  IF r \in DOMAIN routes THEN routes[r] ELSE NewRow]
  BY DEF EnsuredRows
<1> HIDE DEF added
<1> QED
  BY <1>1, <1>2, NewRowType DEF TypeOK, IsRoutes

LEMMA WithoutType ==
    ASSUME TypeOK, NEW c \in Channels, NEW id
    PROVE  /\ IsRoutes(RoutesWithout(c, id))
           /\ DOMAIN RoutesWithout(c, id) = DOMAIN routes
           /\ \A r \in DOMAIN routes : RoutesWithout(c, id)[r] =
                  [routes[r] EXCEPT ![c] = IF @ = id THEN None ELSE @]
  BY DEF TypeOK, IsRoutes, RoutesWithout, Row, IdOrNone

(* What a start does to the rows.                                          *)
LEMMA SynchronizeType ==
    ASSUME TypeOK, NEW STATE rows, IsRoutes(rows),
           NEW STATE enabled, enabled \subseteq DOMAIN rows,
           Synchronize(rows, enabled)
    PROVE  /\ IsRoutes(routes)' /\ on' \subseteq DOMAIN routes'
           /\ \A r \in DOMAIN routes' :
                 routes'[r] = NewRow \/ (r \in DOMAIN rows /\ routes'[r] = rows[r])
           /\ ~multi => \A e \in Events : <<Global, e>> \in DOMAIN routes'
<1> DEFINE scopes == IF multi THEN Targets ELSE {Global}
           kept   == {r \in DOMAIN rows : multi => r[1] # Global}
<1>1. /\ routes' = [r \in kept \cup scopes \X Events |-> IF r \in kept THEN rows[r] ELSE NewRow]
      /\ on' = enabled \cap kept
  BY DEF Synchronize
<1>2. scopes \X Events \subseteq Scopes \X Events
  BY DEF Scopes
<1>3. kept \subseteq DOMAIN rows
  OBVIOUS
<1>4. ~multi => \A e \in Events : <<Global, e>> \in scopes \X Events
  OBVIOUS
<1> HIDE DEF scopes, kept
<1>5. DOMAIN routes' = kept \cup scopes \X Events
  BY <1>1
<1>6. \A r \in DOMAIN routes' :
         routes'[r] = NewRow \/ (r \in DOMAIN rows /\ routes'[r] = rows[r])
  BY <1>1, <1>3, <1>5
<1>7. IsRoutes(routes)'
  BY <1>2, <1>3, <1>5, <1>6, NewRowType DEF IsRoutes
<1> QED
  BY <1>1, <1>4, <1>5, <1>6, <1>7

(* What a start does to the store it finds.                                *)
LEMMA StartType ==
    ASSUME TypeOK, NEW STATE rows, IsRoutes(rows),
           NEW STATE enabled, enabled \subseteq DOMAIN rows,
           NEW STATE found, found \in [Channels -> SUBSET Ids],
           NEW STATE marked, marked \in [Managed -> SUBSET Ids],
           NEW STATE mails, mails \subseteq found["mail"],
           Start(found, marked, mails, rows, enabled)
    PROVE  /\ configs' \in [Channels -> SUBSET Ids]
           /\ defaults' \in [Managed -> SUBSET Ids]
           /\ active' \subseteq configs'["mail"]
           /\ orphaned' \in [Managed -> SUBSET Ids]
           /\ IsRoutes(routes)' /\ on' \subseteq DOMAIN routes'
           /\ ~multi => \A e \in Events : <<Global, e>> \in DOMAIN routes'
           /\ \A c \in Managed : \/ configs'[c] = found[c] /\ defaults'[c] = marked[c]
                                 \/ configs'[c] = {} /\ defaults'[c] = {}
           /\ \A r \in DOMAIN routes' :
                 \/ routes'[r] = NewRow
                 \/ /\ r \in DOMAIN rows /\ routes'[r] = rows[r]
                    /\ \A c \in Managed :
                          orphaned'[c] = orphaned[c] \cup (found[c] \ configs'[c])
<1>1. PICK gone \in Losses :
          /\ configs' = [c \in Channels |-> IF c \in gone THEN {} ELSE found[c]]
          /\ defaults' = [c \in Managed |-> IF c \in gone THEN {} ELSE marked[c]]
          /\ active' = IF "mail" \in gone THEN {} ELSE mails
          /\ orphaned' = [c \in Managed |-> IF "routes" \in gone THEN {}
                                            ELSE orphaned[c] \cup (found[c] \ configs'[c])]
          /\ IF "routes" \in gone THEN Synchronize(<<>>, {}) ELSE Synchronize(rows, enabled)
  BY Zenon DEF Start
<1>2. "mail" \in Channels /\ Managed \subseteq Channels
  BY DEF Channels
<1>3. /\ configs' \in [Channels -> SUBSET Ids]
      /\ defaults' \in [Managed -> SUBSET Ids]
      /\ active' \subseteq configs'["mail"]
      /\ \A c \in Managed : \/ configs'[c] = found[c] /\ defaults'[c] = marked[c]
                            \/ configs'[c] = {} /\ defaults'[c] = {}
  BY <1>1, <1>2
<1>4. orphaned' \in [Managed -> SUBSET Ids]
  BY <1>1, <1>2, <1>3 DEF TypeOK
<1>5. CASE "routes" \in gone
  <2>1. IsRoutes(<<>>) /\ {} \subseteq DOMAIN <<>> /\ DOMAIN <<>> = {}
    BY DEF IsRoutes
  <2>2. Synchronize(<<>>, {})
    BY <1>1, <1>5
  <2>3. /\ IsRoutes(routes)' /\ on' \subseteq DOMAIN routes'
        /\ \A r \in DOMAIN routes' : routes'[r] = NewRow
        /\ ~multi => \A e \in Events : <<Global, e>> \in DOMAIN routes'
    BY <2>1, <2>2, SynchronizeType
  <2> QED
    BY <1>3, <1>4, <2>3
<1>6. CASE "routes" \notin gone
  <2>1. /\ IsRoutes(routes)' /\ on' \subseteq DOMAIN routes'
        /\ \A r \in DOMAIN routes' :
              routes'[r] = NewRow \/ (r \in DOMAIN rows /\ routes'[r] = rows[r])
        /\ ~multi => \A e \in Events : <<Global, e>> \in DOMAIN routes'
    BY <1>1, <1>6, SynchronizeType
  <2>2. \A c \in Managed : orphaned'[c] = orphaned[c] \cup (found[c] \ configs'[c])
    BY <1>1, <1>6
  <2> QED
    BY <1>3, <1>4, <2>1, <2>2
<1> QED
  BY <1>5, <1>6

LEMMA TypeInit == Init => TypeOK
<1> SUFFICES ASSUME Init PROVE TypeOK
  OBVIOUS
<1> USE NotificationAssumption
<1>1. PICK chosen \in Configured, rows \in {{}, Targets, {Global}} :
          /\ configs = [c \in Channels |-> IF c \in chosen THEN {1} ELSE {}]
          /\ defaults = [c \in Managed |-> configs[c]]
          /\ active = configs["mail"]
          /\ routes = [r \in rows \X Events |->
                          [c \in Channels |-> IF c \in chosen THEN 1 ELSE None]]
          /\ on = IF "mail" \in chosen THEN rows \X Events ELSE {}
          /\ orphaned = [c \in Managed |-> {}]
          /\ notifyScope = [t \in Targets |-> "global"]
          /\ recent = [k \in Targets \X CommEvents |-> 0]
          /\ senders = [s \in Senders |-> Idle]
          /\ steady = [s \in Senders |-> {}]
          /\ word = [t \in Targets |-> [fact |-> None, told |-> None]]
          /\ counts = [events |-> 0, requests |-> 0, faults |-> 0]
  BY DEF Init
<1>2. 1 \in Ids /\ None \in IdOrNone
  BY DEF Ids, IdOrNone
<1>3. /\ rows \subseteq Scopes
      /\ [c \in Channels |-> IF c \in chosen THEN 1 ELSE None] \in Row
  BY <1>2 DEF Scopes, Row, IdOrNone
<1>4. Idle \in Sender
  BY DEF Idle, Sender, Scopes, Policies
<1>5. /\ multi \in BOOLEAN
      /\ configs \in [Channels -> SUBSET Ids]
      /\ defaults \in [Managed -> SUBSET Ids]
      /\ active \subseteq configs["mail"]
      /\ orphaned \in [Managed -> SUBSET Ids]
  BY <1>1, <1>2 DEF Init, Channels
<1>6. /\ DOMAIN routes \subseteq Scopes \X Events
      /\ \A r \in DOMAIN routes : routes[r] \in Row
      /\ on \subseteq DOMAIN routes
  BY <1>1, <1>3, Zenon
<1>7. /\ notifyScope \in [Targets -> Policies]
      /\ recent \in [Targets \X CommEvents -> 0..Window]
      /\ senders \in [Senders -> Sender]
      /\ steady \in [Senders -> SUBSET Channels]
      /\ word \in [Targets -> CommWord]
      /\ counts \in [events : 0..MaxEvents, requests : 0..MaxRequests, faults : 0..MaxFaults]
  BY <1>1, <1>4 DEF Policies, CommWord
<1> QED
  BY <1>5, <1>6, <1>7 DEF TypeOK

(* Requests and deaths.                                                    *)
LEMMA WatchedType == ASSUME TypeOK, Watched PROVE steady' \in [Senders -> SUBSET Channels]
  BY DEF TypeOK, Watched

LEMMA RequestType ==
    ASSUME TypeOK, Request
    PROVE  /\ multi' = multi /\ recent' = recent /\ senders' = senders /\ word' = word
           /\ counts' \in [events : 0..MaxEvents, requests : 0..MaxRequests, faults : 0..MaxFaults]
  BY NotificationAssumption DEF TypeOK, Request

LEMMA SaveConfigType ==
    ASSUME TypeOK, NEW c \in Managed, NEW id \in Ids, NEW default \in BOOLEAN,
           Request, SaveConfig(c, id, default)
    PROVE  TypeOK'
<1>1. /\ configs' \in [Channels -> SUBSET Ids]
      /\ defaults' \in [Managed -> SUBSET Ids]
      /\ configs'["mail"] = configs["mail"]
  BY DEF SaveConfig, TypeOK, Channels, Managed
<1> QED
  BY <1>1, RequestType, WatchedType DEF SaveConfig, TypeOK

LEMMA SetDefaultType ==
    ASSUME TypeOK, NEW c \in Managed, NEW id \in Ids, Request, SetDefault(c, id)
    PROVE  TypeOK'
  BY RequestType, WatchedType DEF SetDefault, TypeOK

LEMMA PromotedType ==
    ASSUME TypeOK, NEW c \in Managed, NEW id
    PROVE  /\ Promoted(c, id) \subseteq (configs[c] \ {id}) \cup defaults[c]
           /\ id \notin Promoted(c, id)
           /\ Promoted(c, id) \subseteq Ids
<1> DEFINE remaining == configs[c] \ {id}
<1>1. remaining \subseteq Ids /\ remaining \in SUBSET Nat /\ defaults[c] \subseteq Ids
  BY DEF TypeOK, Channels, Ids
<1>2. remaining # {} => Min(remaining) \in remaining
  BY <1>1, MinIn
<1> HIDE DEF remaining
<1>3. Promoted(c, id) = IF id \in defaults[c] /\ remaining # {}
                        THEN {Min(remaining)} ELSE defaults[c] \ {id}
  BY DEF Promoted, remaining
<1>4. id \notin remaining
  BY DEF remaining
<1>5. Promoted(c, id) \subseteq remaining \cup defaults[c] /\ id \notin Promoted(c, id)
  BY <1>2, <1>3, <1>4
<1> QED
  BY <1>1, <1>5 DEF remaining

LEMMA DeleteConfigType ==
    ASSUME TypeOK, NEW c \in Managed, NEW id \in Ids, Request, DeleteConfig(c, id)
    PROVE  TypeOK'
<1>1. /\ configs' \in [Channels -> SUBSET Ids]
      /\ configs'["mail"] = configs["mail"]
  BY DEF DeleteConfig, TypeOK, Channels, Managed
<1>2. defaults' \in [Managed -> SUBSET Ids] /\ orphaned' \in [Managed -> SUBSET Ids]
  BY PromotedType DEF DeleteConfig, TypeOK
<1>3. IsRoutes(routes)' /\ DOMAIN routes' = DOMAIN routes
  BY WithoutType DEF DeleteConfig, IsRoutes, Channels
<1> QED
  BY <1>1, <1>2, <1>3, RequestType, WatchedType DEF DeleteConfig, TypeOK, IsRoutes

LEMMA RouteType ==
    ASSUME TypeOK, NEW c \in Managed, NEW r \in RequestScopes \X Events, NEW id \in IdOrNone,
           Request, Route(c, r, id)
    PROVE  TypeOK'
<1>1. r \in Scopes \X Events /\ c \in Channels
  BY NotificationAssumption DEF RequestScopes, Scopes, Channels
<1>2. [RowAt(r[1], r[2]) EXCEPT ![c] = id] \in Row
  BY <1>1, RowAtType DEF Row
<1>3. routes' = [k \in DOMAIN routes \cup {r} |->
                    IF k = r THEN [RowAt(r[1], r[2]) EXCEPT ![c] = id] ELSE routes[k]]
  BY DEF Route
<1>4. IsRoutes(routes)' /\ DOMAIN routes \subseteq DOMAIN routes'
  BY <1>1, <1>2, <1>3 DEF IsRoutes, TypeOK
<1> QED
  BY <1>4, RequestType, WatchedType DEF Route, TypeOK, IsRoutes

LEMMA MailRequestType ==
    ASSUME TypeOK,
           \/ \E id \in Ids, enabled \in BOOLEAN : SaveMail(id, enabled)
           \/ \E id \in Ids : DeleteMail(id)
           \/ DeleteFirstMail
           \/ \E r \in RequestScopes \X Events, enabled \in BOOLEAN, id \in IdOrNone :
                 RouteMail(r, enabled, id)
    PROVE  TypeOK'
<1>1. "mail" \in Channels
  BY DEF Channels
<1>2. ASSUME NEW id \in Ids, NEW enabled \in BOOLEAN, SaveMail(id, enabled)
      PROVE  TypeOK'
  BY <1>1, <1>2, RequestType, WatchedType DEF SaveMail, TypeOK
<1>3. ASSUME NEW id \in Ids, DeleteMail(id)
      PROVE  TypeOK'
  <2>1. IsRoutes(routes)' /\ DOMAIN routes' = DOMAIN routes /\ on' \subseteq on
    BY <1>1, <1>3, WithoutType DEF DeleteMail, RoutesWithoutMail, IsRoutes
  <2> QED
    BY <1>1, <1>3, <2>1, RequestType, WatchedType DEF DeleteMail, TypeOK, IsRoutes
<1>4. CASE DeleteFirstMail
  BY <1>1, <1>4, RequestType, WatchedType DEF DeleteFirstMail, TypeOK
<1>5. ASSUME NEW r \in RequestScopes \X Events, NEW enabled \in BOOLEAN, NEW id \in IdOrNone,
             RouteMail(r, enabled, id)
      PROVE  TypeOK'
  <2>1. r \in Scopes \X Events
    BY NotificationAssumption DEF RequestScopes, Scopes
  <2>2. [RowAt(r[1], r[2]) EXCEPT !["mail"] = id] \in Row
    BY <1>1, RowAtType DEF Row
  <2>3. routes' = [k \in DOMAIN routes \cup {r} |->
                     IF k = r THEN [RowAt(r[1], r[2]) EXCEPT !["mail"] = id] ELSE routes[k]]
    BY <1>5 DEF RouteMail
  <2>4. IsRoutes(routes)' /\ DOMAIN routes' = DOMAIN routes \cup {r}
    BY <2>1, <2>2, <2>3 DEF IsRoutes, TypeOK
  <2>5. on' \subseteq on \cup {r}
    BY <1>5 DEF RouteMail
  <2> QED
    BY <1>5, <2>4, <2>5, RequestType, WatchedType DEF RouteMail, TypeOK, IsRoutes
<1> QED
  BY <1>2, <1>3, <1>4, <1>5

LEMMA OtherRequestType ==
    ASSUME TypeOK,
           \/ \E scope \in RequestScopes : ListRoutes(scope)
           \/ \E t \in Targets, scope \in Policies : ChangeScope(t, scope)
    PROVE  TypeOK'
<1>1. ASSUME NEW scope \in RequestScopes, ListRoutes(scope)
      PROVE  TypeOK'
  <2>1. {scope} \X Events \subseteq Scopes \X Events
    BY NotificationAssumption DEF RequestScopes, Scopes
  <2>2. routes' = [r \in DOMAIN routes \cup {scope} \X Events |->
                      IF r \in DOMAIN routes THEN routes[r] ELSE NewRow]
    BY <1>1 DEF ListRoutes
  <2>3. IsRoutes(routes)' /\ DOMAIN routes \subseteq DOMAIN routes'
    BY <2>1, <2>2, NewRowType DEF IsRoutes, TypeOK
  <2> QED
    BY <1>1, <2>3, RequestType, WatchedType DEF ListRoutes, TypeOK, IsRoutes
<1>2. ASSUME NEW t \in Targets, NEW scope \in Policies, ChangeScope(t, scope)
      PROVE  TypeOK'
  BY <1>2, RequestType, WatchedType DEF ChangeScope, TypeOK
<1> QED
  BY <1>1, <1>2

LEMMA RequestsType == ASSUME TypeOK, Requests PROVE TypeOK'
<1>1. {"ntfy", "telegram", "webhook"} = Managed
  BY DEF Managed
<1> QED
  BY <1>1, SaveConfigType, SetDefaultType, DeleteConfigType, RouteType, MailRequestType,
     OtherRequestType
  DEF Requests, SaveNtfy, SetDefaultNtfy, DeleteNtfy, RouteNtfy, SaveTelegram,
      SetDefaultTelegram, DeleteTelegram, RouteTelegram, SaveWebhook, SetDefaultWebhook,
      DeleteWebhook, RouteWebhook

LEMMA FaultType ==
    ASSUME TypeOK, Fault
    PROVE  /\ multi' = multi /\ word' = word
           /\ counts.faults \in Nat /\ counts'.faults = counts.faults + 1
           /\ counts' \in [events : 0..MaxEvents, requests : 0..MaxRequests, faults : 0..MaxFaults]
  BY NotificationAssumption DEF TypeOK, Fault

LEMMA FailuresType == ASSUME TypeOK, Failures PROVE TypeOK'
<1>1. ASSUME NEW c \in Managed, NEW id \in Ids, CommitFails(c, id)
      PROVE  TypeOK'
  <2>1. /\ configs' \in [Channels -> SUBSET Ids]
        /\ configs'["mail"] = configs["mail"]
        /\ defaults' \in [Managed -> SUBSET Ids] /\ orphaned' \in [Managed -> SUBSET Ids]
    BY <1>1 DEF CommitFails, TypeOK, Channels, Managed
  <2>2. IsRoutes(routes)' /\ DOMAIN routes' = DOMAIN routes
    BY <1>1, WithoutType DEF CommitFails, IsRoutes, Channels
  <2> QED
    BY <1>1, <2>1, <2>2, FaultType, WatchedType DEF CommitFails, TypeOK, IsRoutes
<1>2. ASSUME NEW id \in Ids, MailCommitFails(id)
      PROVE  TypeOK'
  <2>1. IsRoutes(routes)' /\ DOMAIN routes' = DOMAIN routes /\ on' \subseteq on
    BY <1>2, WithoutType DEF MailCommitFails, RoutesWithoutMail, IsRoutes, Channels
  <2> QED
    BY <1>2, <2>1, FaultType, WatchedType DEF MailCommitFails, TypeOK, IsRoutes
<1> QED
  BY <1>1, <1>2 DEF Failures

(* What the store holds when the process starts again.                     *)
LEMMA DeletingType ==
    ASSUME TypeOK, NEW c \in Managed, NEW id
    PROVE  /\ [configs EXCEPT ![c] = @ \ {id}] \in [Channels -> SUBSET Ids]
           /\ [configs EXCEPT ![c] = @ \ {id}]["mail"] = configs["mail"]
           /\ [defaults EXCEPT ![c] = @ \ {id}] \in [Managed -> SUBSET Ids]
           /\ IsRoutes(RoutesWithout(c, id)) /\ on \subseteq DOMAIN RoutesWithout(c, id)
<1>1. c \in Channels /\ "mail" \in Channels /\ c # "mail"
  BY DEF Channels, Managed
<1> QED
  BY <1>1, WithoutType DEF TypeOK

LEMMA DeletingMailType ==
    ASSUME TypeOK, NEW id
    PROVE  /\ IsRoutes(RoutesWithout("mail", id))
           /\ {r \in on : routes[r]["mail"] # id} \subseteq DOMAIN RoutesWithout("mail", id)
  BY WithoutType DEF TypeOK, Channels

LEMMA DeathsType == ASSUME TypeOK, Deaths PROVE TypeOK'
<1>1. Idle \in Sender
  BY DEF Idle, Sender, Scopes, Policies
<1>2. ASSUME Restart
      PROVE  /\ multi' = multi /\ word' = word
             /\ recent' \in [Targets \X CommEvents -> 0..Window]
             /\ senders' \in [Senders -> Sender]
             /\ steady' \in [Senders -> SUBSET Channels]
             /\ counts' \in
                   [events : 0..MaxEvents, requests : 0..MaxRequests, faults : 0..MaxFaults]
  BY <1>1, <1>2, FaultType, NotificationAssumption DEF Restart, TypeOK
<1>3. ASSUME Restart, UNCHANGED notifyScope,
             configs' \in [Channels -> SUBSET Ids], defaults' \in [Managed -> SUBSET Ids],
             active' \subseteq configs'["mail"], orphaned' \in [Managed -> SUBSET Ids],
             IsRoutes(routes)', on' \subseteq DOMAIN routes'
      PROVE  TypeOK'
  BY <1>2, <1>3 DEF TypeOK, IsRoutes
<1>4. /\ configs \in [Channels -> SUBSET Ids] /\ defaults \in [Managed -> SUBSET Ids]
      /\ active \subseteq configs["mail"] /\ IsRoutes(routes) /\ on \subseteq DOMAIN routes
  BY DEF TypeOK, IsRoutes
<1>5. CASE Die
  BY <1>3, <1>4, <1>5, StartType DEF Die
<1>6. ASSUME NEW c \in Managed, NEW id \in Ids, DieDeletingConfig(c, id)
      PROVE  TypeOK'
  <2> DEFINE found == [configs EXCEPT ![c] = @ \ {id}]
             marked == [defaults EXCEPT ![c] = @ \ {id}]
             rows == RoutesWithout(c, id)
  <2>1. /\ found \in [Channels -> SUBSET Ids] /\ marked \in [Managed -> SUBSET Ids]
        /\ active \subseteq found["mail"] /\ IsRoutes(rows) /\ on \subseteq DOMAIN rows
    BY <1>4, DeletingType
  <2>2. Restart /\ UNCHANGED notifyScope /\ Start(found, marked, active, rows, on)
    BY <1>6 DEF DieDeletingConfig
  <2> HIDE DEF found, marked, rows
  <2> QED
    BY <1>3, <2>1, <2>2, StartType
<1>7. ASSUME NEW id \in Ids, DieDeletingMail(id)
      PROVE  TypeOK'
  <2> DEFINE enabled == {r \in on : routes[r]["mail"] # id}
             rows == RoutesWithout("mail", id)
  <2>1. IsRoutes(rows) /\ enabled \subseteq DOMAIN rows
    BY DeletingMailType
  <2>2. Restart /\ UNCHANGED notifyScope /\ Start(configs, defaults, active, rows, enabled)
    BY <1>7 DEF DieDeletingMail
  <2> HIDE DEF enabled, rows
  <2> QED
    BY <1>3, <1>4, <2>1, <2>2, StartType
<1> QED
  BY <1>5, <1>6, <1>7 DEF Deaths

(* Senders: one that is idle has nothing left to do, one that is not has an*)
(* event.                                                                  *)
Begun ==
    \A s \in Senders :
        /\ senders[s].kind = "idle" => senders[s].left = {} /\ steady[s] = {}
        /\ senders[s].kind # "idle" => senders[s].event \in Events

LEMMA BeginType ==
    ASSUME TypeOK, NEW s \in Senders, NEW kind \in {"app", "legacy", "notifier"},
           NEW t \in Scopes, NEW e \in Events, NEW scope \in Policies,
           NEW left \in SUBSET Channels, Begin(s, kind, t, e, scope, left)
    PROVE  /\ UNCHANGED store
           /\ counts' \in
                 [events : 0..MaxEvents, requests : 0..MaxRequests, faults : 0..MaxFaults]
           /\ senders' \in [Senders -> Sender]
           /\ steady' = [steady EXCEPT ![s] = Leading(s)']
           /\ senders' = [senders EXCEPT ![s] =
                 [kind |-> kind, target |-> t, event |-> e, scope |-> scope,
                  left |-> left, waiting |-> None, tried |-> {}]]
<1>1. [kind |-> kind, target |-> t, event |-> e, scope |-> scope,
       left |-> left, waiting |-> None, tried |-> {}] \in Sender
  BY DEF Sender
<1>2. counts' \in [events : 0..MaxEvents, requests : 0..MaxRequests, faults : 0..MaxFaults]
  BY NotificationAssumption DEF Begin, EventsLeft, TypeOK
<1> QED
  BY <1>1, <1>2 DEF Begin, TypeOK

LEMMA LeadingType == ASSUME NEW s PROVE Leading(s) \subseteq Channels
  BY DEF Leading

LEMMA LeadingTypeNext == ASSUME NEW s PROVE Leading(s)' \subseteq Channels
  BY DEF Leading

LEMMA BeginKeeps ==
    ASSUME TypeOK, Begun, NEW s \in Senders, NEW kind \in {"app", "legacy", "notifier"},
           NEW t \in Scopes, NEW e \in Events, NEW scope \in Policies,
           NEW left \in SUBSET Channels, Begin(s, kind, t, e, scope, left),
           recent' \in [Targets \X CommEvents -> 0..Window],
           word' \in [Targets -> CommWord]
    PROVE  TypeOK' /\ Begun'
<1>1. /\ UNCHANGED store
      /\ counts' \in [events : 0..MaxEvents, requests : 0..MaxRequests, faults : 0..MaxFaults]
      /\ senders' \in [Senders -> Sender]
      /\ steady' = [steady EXCEPT ![s] = Leading(s)']
      /\ senders' = [senders EXCEPT ![s] =
            [kind |-> kind, target |-> t, event |-> e, scope |-> scope,
             left |-> left, waiting |-> None, tried |-> {}]]
  BY BeginType
<1>2. steady' \in [Senders -> SUBSET Channels]
  BY <1>1, LeadingTypeNext DEF TypeOK
<1>3. Begun'
  BY <1>1 DEF Begun, TypeOK
<1> QED
  BY <1>1, <1>2, <1>3 DEF store, TypeOK

LEMMA RememberedType ==
    ASSUME TypeOK, NEW t \in Targets, NEW e \in Events
    PROVE  Remembered(t, e) \in [Targets \X CommEvents -> 0..Window]
  BY NotificationAssumption DEF TypeOK, Remembered

LEMMA SaidType ==
    ASSUME TypeOK, NEW t \in Targets, NEW e \in Events, NEW aloud \in BOOLEAN, Said(t, e, aloud)
    PROVE  word' \in [Targets -> CommWord]
  BY DEF TypeOK, Said, CommWord

LEMMA ChannelsOfType ==
    ASSUME NEW scope \in Policies
    PROVE  ChannelsOf(scope) \subseteq Channels
  BY DEF ChannelsOf, Policies, Channels, Managed

LEMMA BeginningType ==
    ASSUME TypeOK, Begun, NEW s \in Senders,
           \/ \E t \in Targets, e \in Events :
                 Announce(s, t, e) \/ Withhold(s, t, e) \/ Notify(s, t, e)
           \/ \E e \in Events : AnnounceUnknown(s, e)
    PROVE  TypeOK' /\ Begun'
<1>1. ASSUME NEW t \in Targets, NEW e \in Events, Announce(s, t, e)
      PROVE  TypeOK' /\ Begun'
  <2>1. t \in Scopes /\ notifyScope[t] \in Policies /\ ChannelsOf(notifyScope[t]) \subseteq Channels
    BY ChannelsOfType DEF Scopes, TypeOK
  <2>2. recent' \in [Targets \X CommEvents -> 0..Window] /\ word' \in [Targets -> CommWord]
    BY <1>1, RememberedType, SaidType DEF Announce
  <2> QED
    BY <1>1, <2>1, <2>2, BeginKeeps DEF Announce
<1>2. ASSUME NEW t \in Targets, NEW e \in Events, Withhold(s, t, e)
      PROVE  TypeOK' /\ Begun'
  <2>1. word' \in [Targets -> CommWord]
    BY <1>2, SaidType DEF Withhold
  <2>2. counts' \in [events : 0..MaxEvents, requests : 0..MaxRequests, faults : 0..MaxFaults]
    BY <1>2, NotificationAssumption DEF Withhold, EventsLeft, TypeOK
  <2> QED
    BY <1>2, <2>1, <2>2 DEF Withhold, store, TypeOK, Begun
<1>3. ASSUME NEW t \in Targets, NEW e \in Events, Notify(s, t, e)
      PROVE  TypeOK' /\ Begun'
  <2>1. t \in Scopes /\ notifyScope[t] \in Policies
    BY DEF Scopes, TypeOK
  <2> DEFINE planned == {c \in {"mail", "ntfy", "telegram"} :
                            /\ RowAt(ScopeOf(t), e)[c] # None
                            /\ IF c = "mail" THEN <<ScopeOf(t), e>> \in on
                               ELSE RowAt(ScopeOf(t), e)[c] \in configs[c]}
  <2>2. planned \cup {"webhook"} \in SUBSET Channels
    BY DEF Channels, Managed
  <2>3. Begin(s, "notifier", t, e, notifyScope[t], planned \cup {"webhook"})
    BY <1>3 DEF Notify
  <2> HIDE DEF planned
  <2>4. /\ recent' \in [Targets \X CommEvents -> 0..Window]
        /\ word' \in [Targets -> CommWord]
    BY <1>3 DEF Notify, TypeOK
  <2> QED
    BY <2>1, <2>2, <2>3, <2>4, BeginKeeps
<1>4. ASSUME NEW e \in Events, AnnounceUnknown(s, e)
      PROVE  TypeOK' /\ Begun'
  <2>1. Global \in Scopes /\ "mail" \in Policies /\ {"mail"} \in SUBSET Channels
    BY DEF Scopes, Policies, Channels
  <2>2. /\ recent' \in [Targets \X CommEvents -> 0..Window]
        /\ word' \in [Targets -> CommWord]
    BY <1>4 DEF AnnounceUnknown, TypeOK
  <2> QED
    BY <1>4, <2>1, <2>2, BeginKeeps DEF AnnounceUnknown
<1> QED
  BY <1>1, <1>2, <1>3, <1>4

(* A turn, or its end, of one sender.                                      *)
LEMMA TurnType ==
    ASSUME TypeOK, Begun, NEW s \in Senders, NEW c \in Channels, NEW config,
           \/ Turn(s, c, config)
           \/ senders' = [senders EXCEPT ![s].waiting = c, ![s].tried = @ \cup {c}],
           IsTurnOf(s, c), steady' = steady
    PROVE  senders' \in [Senders -> Sender] /\ Begun'
<1>1. senders[s] \in Sender /\ senders[s].kind # "idle"
  BY DEF TypeOK, IsTurnOf, Begun
<1>2. /\ [senders[s] EXCEPT !.left = @ \ {c}] \in Sender
      /\ [senders[s] EXCEPT !.waiting = c, !.tried = @ \cup {c}] \in Sender
  BY <1>1 DEF Sender
<1>3. \/ senders' = [senders EXCEPT ![s].left = @ \ {c}]
      \/ senders' = [senders EXCEPT ![s].waiting = c, ![s].tried = @ \cup {c}]
  BY DEF Turn
<1>4. senders' \in [Senders -> Sender]
  BY <1>2, <1>3 DEF TypeOK
<1>5. /\ senders'[s].kind = senders[s].kind /\ senders'[s].event = senders[s].event
      /\ \A r \in Senders \ {s} : senders'[r] = senders[r]
  BY <1>1, <1>3 DEF TypeOK, Sender
<1>6. Begun'
  BY <1>1, <1>5 DEF Begun
<1> QED
  BY <1>4, <1>6

LEMMA TurnsType ==
    ASSUME TypeOK, Begun, NEW s \in Senders,
           MailTurn(s) \/ NtfyTurn(s) \/ TelegramTurn(s) \/ WebhookTurn(s) \/ Answer(s) \/ Return(s)
    PROVE  TypeOK' /\ Begun'
<1>1. {"mail", "ntfy", "telegram", "webhook"} = Channels
  BY DEF Channels, Managed
<1>2. CASE MailTurn(s)
  <2>1. senders' \in [Senders -> Sender] /\ Begun'
    BY <1>1, <1>2, TurnType DEF MailTurn
  <2>2. senders[s].target \in Scopes /\ senders[s].event \in Events
    BY <1>2 DEF MailTurn, IsTurnOf, TypeOK, Sender, Begun
  <2>3. ScopeOf(senders[s].target) \in Scopes
    BY <2>2 DEF ScopeOf, Scopes
  <2>4. IsRoutes(routes)' /\ DOMAIN routes \subseteq DOMAIN routes'
    BY <1>2, <2>2, <2>3, EnsuredType DEF MailTurn, IsRoutes
  <2> QED
    BY <1>2, <2>1, <2>4 DEF MailTurn, TypeOK, IsRoutes
<1>3. CASE NtfyTurn(s) \/ TelegramTurn(s) \/ WebhookTurn(s)
  <2>1. senders' \in [Senders -> Sender] /\ Begun'
    BY <1>1, <1>3, TurnType DEF NtfyTurn, TelegramTurn, WebhookTurn
  <2> QED
    BY <1>3, <2>1 DEF NtfyTurn, TelegramTurn, WebhookTurn, store, TypeOK
<1>4. CASE Answer(s)
  <2>1. senders[s] \in Sender
    BY DEF TypeOK
  <2>2. [senders[s] EXCEPT !.waiting = None, !.left = senders[s].left \ {senders[s].waiting}]
           \in Sender
    BY <2>1 DEF Sender
  <2>3. senders' \in [Senders -> Sender]
    BY <1>4, <2>2 DEF Answer, TypeOK
  <2>4. /\ senders'[s].kind = senders[s].kind /\ senders'[s].event = senders[s].event
        /\ senders'[s].left \subseteq senders[s].left
        /\ \A r \in Senders \ {s} : senders'[r] = senders[r]
    BY <1>4, <2>1 DEF Answer, TypeOK, Sender
  <2>5. Begun'
    BY <1>4, <2>4 DEF Answer, Begun
  <2> QED
    BY <1>4, <2>3, <2>5 DEF Answer, store, TypeOK
<1>5. CASE Return(s)
  <2>1. Idle \in Sender
    BY DEF Idle, Sender, Scopes, Policies
  <2> QED
    BY <1>5, <2>1 DEF Return, store, TypeOK, Begun, Idle
<1> QED
  BY <1>2, <1>3, <1>4, <1>5

TypeInv == TypeOK /\ Begun

LEMMA BegunInit == Init => Begun
<1> SUFFICES ASSUME Init PROVE Begun
  OBVIOUS
<1>1. senders = [s \in Senders |-> Idle] /\ steady = [s \in Senders |-> {}]
  BY DEF Init
<1> QED
  BY <1>1 DEF Begun, Idle

LEMMA TypeStep == TypeInv /\ [Next]_vars => TypeInv'
<1> SUFFICES ASSUME TypeInv, [Next]_vars PROVE TypeInv'
  OBVIOUS
<1>1. CASE Sending
  BY <1>1, BeginningType, TurnsType DEF Sending, TypeInv
<1>2. CASE Tick
  <2>1. \A k \in Targets \X CommEvents : recent[k] \in 0..Window
    BY DEF TypeInv, TypeOK
  <2>2. \A k \in Targets \X CommEvents :
           (IF recent[k] = 0 THEN 0 ELSE recent[k] - 1) \in 0..Window
    <3>1. \A n \in 0..Window : (IF n = 0 THEN 0 ELSE n - 1) \in 0..Window
      BY NotificationAssumption
    <3> QED
      BY <2>1, <3>1
  <2>3. recent' \in [Targets \X CommEvents -> 0..Window]
    BY <1>2, <2>2 DEF Tick, TypeInv, TypeOK
  <2> QED
    BY <1>2, <2>3 DEF Tick, store, TypeInv, TypeOK, Begun
<1>3. CASE Requests
  <2>1. Watched /\ senders' = senders
    BY <1>3 DEF Requests, SaveNtfy, SetDefaultNtfy, DeleteNtfy, RouteNtfy, SaveTelegram,
        SetDefaultTelegram, DeleteTelegram, RouteTelegram, SaveWebhook, SetDefaultWebhook,
        DeleteWebhook, RouteWebhook, SaveConfig, SetDefault, DeleteConfig, Route, SaveMail,
        DeleteMail, DeleteFirstMail, RouteMail, ListRoutes, ChangeScope, Request
  <2>2. Begun'
    BY <2>1 DEF Watched, Begun, TypeInv, TypeOK
  <2> QED
    BY <1>3, <2>2, RequestsType DEF TypeInv
<1>4. CASE Deaths
  <2>1. Restart
    BY <1>4 DEF Deaths, Die, DieDeletingConfig, DieDeletingMail
  <2>2. Begun'
    BY <2>1 DEF Restart, Begun, Idle
  <2> QED
    BY <1>4, <2>2, DeathsType DEF TypeInv
<1>5. CASE UNCHANGED vars
  BY <1>5 DEF vars, store, TypeInv, TypeOK, Begun
<1>6. CASE Failures
  <2>1. Watched /\ senders' = senders
    BY <1>6 DEF Failures, CommitFails, MailCommitFails
  <2>2. Begun'
    BY <2>1 DEF Watched, Begun, TypeInv, TypeOK
  <2> QED
    BY <1>6, <2>2, FailuresType DEF TypeInv
<1> QED
  BY <1>1, <1>2, <1>3, <1>4, <1>5, <1>6 DEF Next

(* Every variable of Notifications keeps its type, for any number of       *)
(* configurations, senders and deaths.                                     *)
THEOREM TypeCorrect == Spec => []TypeOK
<1>1. TypeInv => TypeOK
  BY DEF TypeInv
<1>2. Init => TypeInv
  BY TypeInit, BegunInit DEF TypeInv
<1> QED
  BY <1>1, <1>2, TypeStep, PTL DEF Spec

-----------------------------------------------------------------------------
(* Routes and defaults.                                                    *)

(* The ids in a new row, which is a row of no configuration.               *)
LEMMA NewRowResolves == \A c \in Managed : NewRow[c] = None
  BY DEF NewRow, Channels

(* A step that adds new rows and takes no configuration away.              *)
LEMMA AddedResolve ==
    ASSUME RoutesResolve,
           \A c \in Managed : configs[c] \subseteq configs'[c] /\ orphaned'[c] = orphaned[c],
           \A r \in DOMAIN routes' :
              routes'[r] = NewRow \/ (r \in DOMAIN routes /\ routes'[r] = routes[r])
    PROVE  RoutesResolve'
  BY NewRowResolves DEF RoutesResolve

(* The routes that a deletion leaves name no configuration that it ends.   *)
LEMMA WithoutResolves ==
    ASSUME TypeOK, RoutesResolve, NEW c \in Managed, NEW id,
           NEW r \in DOMAIN RoutesWithout(c, id), NEW d \in Managed
    PROVE  RoutesWithout(c, id)[r][d] \in
               ((configs[d] \cup orphaned[d]) \ (IF d = c THEN {id} ELSE {})) \cup {None}
<1> DEFINE rows == RoutesWithout(c, id)
<1>1. c \in Channels /\ d \in Channels
  BY DEF Channels
<1>2. r \in DOMAIN routes /\ routes[r] \in Row
  BY <1>1, WithoutType DEF TypeOK
<1>3. rows[r] = [routes[r] EXCEPT ![c] = IF @ = id THEN None ELSE @]
  BY <1>1, <1>2, WithoutType
<1> HIDE DEF rows
<1>4. routes[r][d] \in configs[d] \cup orphaned[d] \cup {None}
  BY <1>2 DEF RoutesResolve
<1>5. rows[r][d] = IF d = c /\ routes[r][d] = id THEN None ELSE routes[r][d]
  BY <1>1, <1>2, <1>3 DEF Row
<1>6. rows[r][d] \in ((configs[d] \cup orphaned[d]) \ (IF d = c THEN {id} ELSE {})) \cup {None}
  BY <1>4, <1>5
<1> QED
  BY <1>6 DEF rows

LEMMA WithoutResolve ==
    ASSUME TypeOK, RoutesResolve, NEW c \in Managed, NEW id,
           configs' = [configs EXCEPT ![c] = @ \ {id}],
           orphaned' = [orphaned EXCEPT ![c] = @ \ {id}],
           routes' = RoutesWithout(c, id)
    PROVE  RoutesResolve'
<1> SUFFICES ASSUME NEW r \in DOMAIN routes', NEW d \in Managed
             PROVE  routes'[r][d] \in configs'[d] \cup orphaned'[d] \cup {None}
  BY DEF RoutesResolve
<1>1. c \in Channels /\ d \in Channels
  BY DEF Channels
<1>2. routes'[r][d] \in
          ((configs[d] \cup orphaned[d]) \ (IF d = c THEN {id} ELSE {})) \cup {None}
  BY WithoutResolves
<1>3. /\ configs'[d] = configs[d] \ (IF d = c THEN {id} ELSE {})
      /\ orphaned'[d] = orphaned[d] \ (IF d = c THEN {id} ELSE {})
  BY <1>1 DEF TypeOK
<1> QED
  BY <1>2, <1>3

(* A request changes one route of one channel.                             *)
LEMMA RouteResolves ==
    ASSUME TypeOK, RoutesResolve, NEW c \in Channels, NEW r, NEW id,
           configs' = configs, orphaned' = orphaned,
           c \in Managed => id \in configs[c] \cup {None},
           routes' = [k \in DOMAIN routes \cup {r} |->
               IF k = r THEN [RowAt(r[1], r[2]) EXCEPT ![c] = id] ELSE routes[k]],
           r = <<r[1], r[2]>>
    PROVE  RoutesResolve'
<1> SUFFICES ASSUME NEW k \in DOMAIN routes', NEW d \in Managed
             PROVE  routes'[k][d] \in configs[d] \cup orphaned[d] \cup {None}
  BY DEF RoutesResolve
<1>1. d \in Channels
  BY DEF Channels
<1>2. CASE k = r
  <2>1. RowAt(r[1], r[2]) \in Row
    BY RowAtType
  <2>2. RowAt(r[1], r[2])[d] \in configs[d] \cup orphaned[d] \cup {None}
    BY <1>1, NewRowResolves DEF RowAt, RoutesResolve
  <2>3. routes'[k] = [RowAt(r[1], r[2]) EXCEPT ![c] = id]
    BY <1>2
  <2> QED
    BY <1>1, <2>1, <2>2, <2>3 DEF Row
<1>3. CASE k # r
  BY <1>3 DEF RoutesResolve
<1> QED
  BY <1>2, <1>3

(* The mail's deletion leaves the other channels' routes.                  *)
LEMMA MailResolves ==
    ASSUME TypeOK, RoutesResolve, NEW id, NEW r \in DOMAIN RoutesWithout("mail", id),
           NEW d \in Managed
    PROVE  RoutesWithout("mail", id)[r][d] \in configs[d] \cup orphaned[d] \cup {None}
<1> DEFINE rows == RoutesWithout("mail", id)
<1>1. d \in Channels /\ "mail" \in Channels /\ d # "mail"
  BY DEF Channels, Managed
<1>2. r \in DOMAIN routes /\ routes[r] \in Row
  BY <1>1, WithoutType DEF TypeOK
<1>3. rows[r] = [routes[r] EXCEPT !["mail"] = IF @ = id THEN None ELSE @]
  BY <1>1, <1>2, WithoutType
<1> HIDE DEF rows
<1>4. rows[r][d] = routes[r][d]
  BY <1>1, <1>2, <1>3 DEF Row
<1>5. rows[r][d] \in configs[d] \cup orphaned[d] \cup {None}
  BY <1>2, <1>4 DEF RoutesResolve
<1> QED
  BY <1>5 DEF rows

(* A start makes orphans of what it drops with a channel's table.          *)
LEMMA StartResolves ==
    ASSUME TypeOK, NEW STATE rows, IsRoutes(rows),
           NEW STATE enabled, enabled \subseteq DOMAIN rows,
           NEW STATE found, found \in [Channels -> SUBSET Ids],
           NEW STATE marked, marked \in [Managed -> SUBSET Ids],
           NEW STATE mails, mails \subseteq found["mail"],
           Start(found, marked, mails, rows, enabled),
           \A r \in DOMAIN rows, d \in Managed :
               rows[r][d] \in found[d] \cup orphaned[d] \cup {None}
    PROVE  RoutesResolve'
<1>3. \A r \in DOMAIN routes' :
         \/ routes'[r] = NewRow
         \/ /\ r \in DOMAIN rows /\ routes'[r] = rows[r]
            /\ \A c \in Managed : orphaned'[c] = orphaned[c] \cup (found[c] \ configs'[c])
  <2>1. PICK gone \in Losses :
            /\ orphaned' = [c \in Managed |-> IF "routes" \in gone THEN {}
                                              ELSE orphaned[c] \cup (found[c] \ configs'[c])]
            /\ IF "routes" \in gone THEN Synchronize(<<>>, {}) ELSE Synchronize(rows, enabled)
    BY Zenon DEF Start
  <2>2. CASE "routes" \in gone
    <3>1. IsRoutes(<<>>) /\ {} \subseteq DOMAIN <<>> /\ DOMAIN <<>> = {}
      BY DEF IsRoutes
    <3>2. Synchronize(<<>>, {})
      BY <2>1, <2>2
    <3> QED
      BY <3>1, <3>2, SynchronizeType
  <2>3. CASE "routes" \notin gone
    BY <2>1, <2>3, SynchronizeType
  <2> QED
    BY <2>2, <2>3
<1> SUFFICES ASSUME NEW r \in DOMAIN routes', NEW d \in Managed
             PROVE  routes'[r][d] \in configs'[d] \cup orphaned'[d] \cup {None}
  BY DEF RoutesResolve
<1>1. CASE routes'[r] = NewRow
  BY <1>1, NewRowResolves
<1>2. CASE routes'[r] # NewRow
  <2>1. /\ r \in DOMAIN rows /\ routes'[r] = rows[r]
        /\ orphaned'[d] = orphaned[d] \cup (found[d] \ configs'[d])
    BY <1>2, <1>3
  <2> QED
    BY <2>1
<1> QED
  BY <1>1, <1>2

LEMMA ResolveStep ==
    ASSUME TypeInv, RoutesResolve, [Next]_vars
    PROVE  RoutesResolve'
<1> USE DEF TypeInv
<1>1. {"ntfy", "telegram", "webhook"} = Managed /\ "mail" \in Channels /\ Managed \subseteq Channels
      /\ "mail" \notin Managed
  BY DEF Managed, Channels
<1>2. ASSUME UNCHANGED <<configs, routes, orphaned>> PROVE RoutesResolve'
  BY <1>2 DEF RoutesResolve
<1>3. CASE Sending
  <2>1. ASSUME NEW s \in Senders, MailTurn(s)
        PROVE  RoutesResolve'
    <3>1. senders[s].target \in Scopes /\ senders[s].event \in Events
      BY <2>1 DEF MailTurn, IsTurnOf, TypeOK, Sender, Begun
    <3>2. ScopeOf(senders[s].target) \in Scopes
      BY <3>1 DEF ScopeOf, Scopes
    <3> QED
      BY <2>1, <3>1, <3>2, EnsuredType, AddedResolve DEF MailTurn
  <2>2. ASSUME NEW s \in Senders, \/ \E t \in Targets, e \in Events :
                                      Announce(s, t, e) \/ Withhold(s, t, e) \/ Notify(s, t, e)
                                  \/ \E e \in Events : AnnounceUnknown(s, e)
        PROVE  RoutesResolve'
    BY <1>2, <2>2 DEF Announce, Withhold, Notify, AnnounceUnknown, Begin, store
  <2>3. ASSUME NEW s \in Senders,
               NtfyTurn(s) \/ WebhookTurn(s) \/ TelegramTurn(s) \/ Answer(s) \/ Return(s)
        PROVE  RoutesResolve'
    BY <1>2, <2>3 DEF NtfyTurn, WebhookTurn, TelegramTurn, Answer, Return, store
  <2> QED
    BY <1>3, <2>1, <2>2, <2>3 DEF Sending
<1>4. ASSUME NEW c \in Managed, NEW id \in Ids, NEW default \in BOOLEAN, SaveConfig(c, id, default)
      PROVE  RoutesResolve'
  BY <1>1, <1>4, AddedResolve DEF SaveConfig, TypeOK
<1>5. ASSUME NEW c \in Managed, NEW id \in Ids, DeleteConfig(c, id)
      PROVE  RoutesResolve'
  BY <1>5, WithoutResolve DEF DeleteConfig
<1>6. ASSUME NEW c \in Managed, NEW id \in IdOrNone, NEW r \in RequestScopes \X Events,
             Route(c, r, id)
      PROVE  RoutesResolve'
  BY <1>1, <1>6, RouteResolves DEF Route
<1>7. ASSUME NEW id \in Ids, NEW enabled \in BOOLEAN, SaveMail(id, enabled)
      PROVE  RoutesResolve'
  BY <1>1, <1>7, AddedResolve DEF SaveMail, TypeOK
<1>8. ASSUME NEW id \in Ids, DeleteMail(id)
      PROVE  RoutesResolve'
  <2>1. \A c \in Managed : configs'[c] = configs[c]
    BY <1>1, <1>8 DEF DeleteMail, TypeOK
  <2>2. routes' = RoutesWithout("mail", id)
    BY <1>8 DEF DeleteMail, RoutesWithoutMail
  <2>3. orphaned' = orphaned
    BY <1>8 DEF DeleteMail
  <2> QED
    BY <2>1, <2>2, <2>3, MailResolves DEF RoutesResolve
<1>9. CASE DeleteFirstMail
  BY <1>1, <1>9, AddedResolve DEF DeleteFirstMail, TypeOK
<1>10. ASSUME NEW id \in IdOrNone, NEW enabled \in BOOLEAN, NEW r \in RequestScopes \X Events,
              RouteMail(r, enabled, id)
      PROVE  RoutesResolve'
  BY <1>1, <1>10, RouteResolves DEF RouteMail
<1>11. ASSUME NEW scope \in RequestScopes, ListRoutes(scope)
      PROVE  RoutesResolve'
  BY <1>11, AddedResolve DEF ListRoutes
<1>12. ASSUME NEW t \in Targets, NEW scope \in Policies, ChangeScope(t, scope)
      PROVE  RoutesResolve'
  BY <1>2, <1>12 DEF ChangeScope
<1>13. CASE Requests
  BY <1>1, <1>4, <1>5, <1>6, <1>7, <1>8, <1>9, <1>10, <1>11, <1>12, <1>13
  DEF Requests, SaveNtfy, SetDefaultNtfy, DeleteNtfy, RouteNtfy, SaveTelegram,
      SetDefaultTelegram, DeleteTelegram, RouteTelegram, SaveWebhook, SetDefaultWebhook,
      DeleteWebhook, RouteWebhook, SetDefault, RoutesResolve
<1>14. CASE Deaths
  <2>1. /\ configs \in [Channels -> SUBSET Ids] /\ defaults \in [Managed -> SUBSET Ids]
        /\ active \subseteq configs["mail"] /\ IsRoutes(routes) /\ on \subseteq DOMAIN routes
    BY DEF TypeOK, IsRoutes
  <2>2. CASE Die
    BY <2>1, <2>2, StartResolves DEF Die, RoutesResolve
  <2>3. ASSUME NEW c \in Managed, NEW id \in Ids, DieDeletingConfig(c, id)
        PROVE  RoutesResolve'
    <3> DEFINE found == [configs EXCEPT ![c] = @ \ {id}]
               marked == [defaults EXCEPT ![c] = @ \ {id}]
               rows == RoutesWithout(c, id)
    <3>1. /\ found \in [Channels -> SUBSET Ids] /\ marked \in [Managed -> SUBSET Ids]
          /\ active \subseteq found["mail"] /\ IsRoutes(rows) /\ on \subseteq DOMAIN rows
      BY <2>1, DeletingType
    <3>2. Start(found, marked, active, rows, on)
      BY <2>3 DEF DieDeletingConfig
    <3>3. ASSUME NEW r \in DOMAIN rows, NEW d \in Managed
          PROVE  rows[r][d] \in found[d] \cup orphaned[d] \cup {None}
      <4>1. rows[r][d] \in
                ((configs[d] \cup orphaned[d]) \ (IF d = c THEN {id} ELSE {})) \cup {None}
        BY WithoutResolves
      <4>2. found[d] = configs[d] \ (IF d = c THEN {id} ELSE {})
        BY <1>1 DEF TypeOK
      <4> QED
        BY <4>1, <4>2
    <3> HIDE DEF found, marked, rows
    <3> QED
      BY <3>1, <3>2, <3>3, StartResolves
  <2>4. ASSUME NEW id \in Ids, DieDeletingMail(id)
        PROVE  RoutesResolve'
    <3> DEFINE enabled == {r \in on : routes[r]["mail"] # id}
               rows == RoutesWithout("mail", id)
    <3>1. IsRoutes(rows) /\ enabled \subseteq DOMAIN rows
      BY DeletingMailType
    <3>2. Start(configs, defaults, active, rows, enabled)
      BY <2>4 DEF DieDeletingMail
    <3>3. \A r \in DOMAIN rows, d \in Managed :
              rows[r][d] \in configs[d] \cup orphaned[d] \cup {None}
      BY MailResolves
    <3> HIDE DEF enabled, rows
    <3> QED
      BY <2>1, <3>1, <3>2, <3>3, StartResolves
  <2> QED
    BY <1>14, <2>2, <2>3, <2>4 DEF Deaths
<1>16. CASE Failures
  <2>1. ASSUME NEW c \in Managed, NEW id \in Ids, CommitFails(c, id)
        PROVE  RoutesResolve'
    BY <2>1, WithoutResolve DEF CommitFails
  <2>2. ASSUME NEW id \in Ids, MailCommitFails(id)
        PROVE  RoutesResolve'
    <3>1. routes' = RoutesWithout("mail", id) /\ configs' = configs /\ orphaned' = orphaned
      BY <2>2 DEF MailCommitFails, RoutesWithoutMail
    <3> QED
      BY <3>1, MailResolves DEF RoutesResolve
  <2> QED
    BY <1>16, <2>1, <2>2 DEF Failures
<1>15. CASE Tick \/ UNCHANGED vars
  BY <1>2, <1>15 DEF Tick, vars, store
<1> QED
  BY <1>3, <1>13, <1>14, <1>15, <1>16 DEF Next

(* The routes of Notifications lead to nothing that users deleted, also    *)
(* after deaths of the process and failures between two commits: only to   *)
(* what there is and what a start dropped with a channel's table.          *)
THEOREM RoutesAlwaysResolve == Spec => []RoutesResolve
<1>1. Init => RoutesResolve
  <2> SUFFICES ASSUME Init, NEW r \in DOMAIN routes, NEW c \in Managed
               PROVE  routes[r][c] \in configs[c] \cup {None}
    BY DEF RoutesResolve
  <2>1. PICK chosen \in Configured, rows \in {{}, Targets, {Global}} :
            /\ configs = [d \in Channels |-> IF d \in chosen THEN {1} ELSE {}]
            /\ routes = [k \in rows \X Events |->
                            [d \in Channels |-> IF d \in chosen THEN 1 ELSE None]]
    BY DEF Init
  <2>2. c \in Channels
    BY DEF Channels
  <2> QED
    BY <2>1, <2>2
<1>2. Init => TypeInv
  BY TypeInit, BegunInit DEF TypeInv
<1>3. TypeInv /\ RoutesResolve /\ [Next]_vars => RoutesResolve'
  BY ResolveStep
<1> QED
  BY <1>1, <1>2, <1>3, TypeStep, PTL DEF Spec

(* What each step may do to the default of one channel.                    *)
LEMMA DefaultStep ==
    ASSUME TypeInv, OneDefault, [Next]_vars, NEW c \in Managed
    PROVE  /\ defaults'[c] \subseteq configs'[c]
           /\ \A i, j \in defaults'[c] : i = j
           /\ counts'.faults = 0 /\ configs'[c] # {} => defaults'[c] # {}
<1> USE DEF TypeInv
<1>1. {"ntfy", "telegram", "webhook"} = Managed /\ c # "mail" /\ c \in Channels
  BY DEF Managed, Channels
<1> DEFINE Good == /\ defaults'[c] \subseteq configs'[c]
                   /\ \A i, j \in defaults'[c] : i = j
                   /\ counts'.faults = 0 /\ configs'[c] # {} => defaults'[c] # {}
<1>2. ASSUME defaults'[c] = defaults[c], configs'[c] = configs[c],
             counts'.faults = counts.faults
      PROVE  Good
  BY <1>2 DEF OneDefault
<1>3. ASSUME Request PROVE counts'.faults = counts.faults
  BY <1>3 DEF Request, TypeOK
<1>4. CASE Sending
  <2>1. ASSUME NEW s \in Senders, NEW kind, NEW t, NEW e, NEW scope, NEW left,
               Begin(s, kind, t, e, scope, left)
        PROVE  defaults' = defaults /\ configs' = configs /\ counts'.faults = counts.faults
    BY <2>1 DEF Begin, store, TypeOK
  <2>2. ASSUME NEW s \in Senders, NEW t \in Targets, NEW e \in Events, Withhold(s, t, e)
        PROVE  defaults' = defaults /\ configs' = configs /\ counts'.faults = counts.faults
    BY <2>2 DEF Withhold, store, TypeOK
  <2>3. ASSUME NEW s \in Senders,
               \/ MailTurn(s) \/ NtfyTurn(s) \/ WebhookTurn(s) \/ TelegramTurn(s)
               \/ Answer(s) \/ Return(s)
        PROVE  defaults' = defaults /\ configs' = configs /\ counts'.faults = counts.faults
    BY <2>3 DEF MailTurn, NtfyTurn, WebhookTurn, TelegramTurn, Answer, Return, store
  <2>4. defaults' = defaults /\ configs' = configs /\ counts'.faults = counts.faults
    BY <1>4, <2>1, <2>2, <2>3 DEF Sending, Announce, Notify, AnnounceUnknown
  <2> QED
    BY <1>2, <2>4
<1>5. ASSUME NEW d \in Managed, NEW id \in Ids, NEW default \in BOOLEAN,
             Request, SaveConfig(d, id, default)
      PROVE  Good
  <2>1. counts'.faults = counts.faults
    BY <1>3, <1>5
  <2>2. CASE d = c
    BY <1>1, <1>5, <2>1, <2>2 DEF SaveConfig, TypeOK, OneDefault
  <2>3. CASE d # c
    BY <1>2, <1>5, <2>1, <2>3 DEF SaveConfig, TypeOK
  <2> QED
    BY <2>2, <2>3
<1>6. ASSUME NEW d \in Managed, NEW id \in Ids, Request, SetDefault(d, id)
      PROVE  Good
  <2>1. counts'.faults = counts.faults
    BY <1>3, <1>6
  <2>2. CASE d = c
    BY <1>1, <1>6, <2>1, <2>2 DEF SetDefault, TypeOK, OneDefault
  <2>3. CASE d # c
    BY <1>2, <1>6, <2>1, <2>3 DEF SetDefault, TypeOK
  <2> QED
    BY <2>2, <2>3
<1>7. ASSUME NEW d \in Managed, NEW id \in Ids, Request, DeleteConfig(d, id)
      PROVE  Good
  <2>1. counts'.faults = counts.faults
    BY <1>3, <1>7
  <2>2. CASE d = c
    <3> DEFINE remaining == configs[c] \ {id}
    <3>1. configs'[c] = remaining /\ defaults'[c] = Promoted(c, id)
      BY <1>1, <1>7, <2>2 DEF DeleteConfig, TypeOK
    <3>2. Promoted(c, id) = IF id \in defaults[c] /\ remaining # {}
                            THEN {Min(remaining)} ELSE defaults[c] \ {id}
      BY DEF Promoted
    <3>3. remaining \in SUBSET Nat
      BY <1>1 DEF TypeOK, Ids
    <3>4. remaining # {} => Min(remaining) \in remaining
      BY <3>3, MinIn
    <3>5. defaults[c] \ {id} \subseteq remaining
      BY DEF OneDefault
    <3>6. remaining # {} => configs[c] # {}
      OBVIOUS
    <3> HIDE DEF remaining
    <3> QED
      BY <2>1, <3>1, <3>2, <3>4, <3>5, <3>6 DEF OneDefault
  <2>3. CASE d # c
    BY <1>2, <1>7, <2>1, <2>3 DEF DeleteConfig, TypeOK
  <2> QED
    BY <2>2, <2>3
<1>8. ASSUME \/ \E id \in Ids, enabled \in BOOLEAN : SaveMail(id, enabled)
             \/ \E id \in Ids : DeleteMail(id)
             \/ DeleteFirstMail
             \/ \E r \in RequestScopes \X Events, enabled \in BOOLEAN, id \in IdOrNone :
                   RouteMail(r, enabled, id)
             \/ \E scope \in RequestScopes : ListRoutes(scope)
             \/ \E t \in Targets, scope \in Policies : ChangeScope(t, scope)
      PROVE  Good
  <2>1. defaults' = defaults /\ configs'[c] = configs[c] /\ counts'.faults = counts.faults
    BY <1>1, <1>3, <1>8 DEF SaveMail, DeleteMail, DeleteFirstMail, RouteMail, ListRoutes,
                            ChangeScope, TypeOK
  <2> QED
    BY <1>2, <2>1
<1>9. ASSUME NEW d \in Managed, NEW id, NEW r, Request, Route(d, r, id)
      PROVE  Good
  BY <1>2, <1>3, <1>9 DEF Route
<1>10. CASE Requests
  BY <1>1, <1>5, <1>6, <1>7, <1>8, <1>9, <1>10
  DEF Requests, SaveNtfy, SetDefaultNtfy, DeleteNtfy, RouteNtfy, SaveTelegram,
      SetDefaultTelegram, DeleteTelegram, RouteTelegram, SaveWebhook, SetDefaultWebhook,
      DeleteWebhook, RouteWebhook
<1>11. CASE Deaths \/ Failures
  <2>1. counts'.faults # 0
    <3>1. Fault
      BY <1>11 DEF Deaths, Die, DieDeletingConfig, DieDeletingMail, Restart, Failures,
                   CommitFails, MailCommitFails
    <3> QED
      BY <3>1, FaultType
  <2>2. ASSUME NEW STATE rows, IsRoutes(rows), NEW STATE enabled, enabled \subseteq DOMAIN rows,
               NEW STATE found, found \in [Channels -> SUBSET Ids],
               NEW STATE marked, marked \in [Managed -> SUBSET Ids], active \subseteq found["mail"],
               Start(found, marked, active, rows, enabled),
               marked[c] \subseteq found[c], \A i, j \in marked[c] : i = j
        PROVE  Good
    <3>1. \/ configs'[c] = found[c] /\ defaults'[c] = marked[c]
          \/ configs'[c] = {} /\ defaults'[c] = {}
      <4>1. PICK gone \in Losses :
                /\ configs' = [d \in Channels |-> IF d \in gone THEN {} ELSE found[d]]
                /\ defaults' = [d \in Managed |-> IF d \in gone THEN {} ELSE marked[d]]
        BY <2>2, Zenon DEF Start
      <4> QED
        BY <1>1, <4>1
    <3> QED
      BY <2>1, <2>2, <3>1
  <2>3. /\ configs \in [Channels -> SUBSET Ids] /\ defaults \in [Managed -> SUBSET Ids]
        /\ active \subseteq configs["mail"] /\ IsRoutes(routes) /\ on \subseteq DOMAIN routes
        /\ defaults[c] \subseteq configs[c] /\ \A i, j \in defaults[c] : i = j
    BY DEF TypeOK, IsRoutes, OneDefault
  <2>4. ASSUME Die PROVE Good
    <3>1. Start(configs, defaults, active, routes, on)
      BY <2>4 DEF Die
    <3> HIDE DEF Good
    <3> QED
      BY <2>2, <2>3, <3>1
  <2>5. ASSUME NEW id \in Ids, DieDeletingMail(id)
        PROVE  Good
    <3> DEFINE enabled == {r \in on : routes[r]["mail"] # id}
               rows == RoutesWithout("mail", id)
    <3>1. IsRoutes(rows) /\ enabled \subseteq DOMAIN rows
      BY DeletingMailType
    <3>2. Start(configs, defaults, active, rows, enabled)
      BY <2>5 DEF DieDeletingMail
    <3> HIDE DEF enabled, rows, Good
    <3> QED
      BY <2>2, <2>3, <3>1, <3>2
  <2>6. ASSUME NEW d \in Managed, NEW id \in Ids, DieDeletingConfig(d, id)
        PROVE  Good
    <3> DEFINE found == [configs EXCEPT ![d] = @ \ {id}]
               marked == [defaults EXCEPT ![d] = @ \ {id}]
               rows == RoutesWithout(d, id)
    <3>1. /\ found \in [Channels -> SUBSET Ids] /\ marked \in [Managed -> SUBSET Ids]
          /\ active \subseteq found["mail"] /\ IsRoutes(rows) /\ on \subseteq DOMAIN rows
      BY <2>3, DeletingType
    <3>2. Start(found, marked, active, rows, on)
      BY <2>6 DEF DieDeletingConfig
    <3>3. marked[c] \subseteq found[c] /\ \A i, j \in marked[c] : i = j
      BY <1>1, <2>3
    <3> HIDE DEF found, marked, rows, Good
    <3> QED
      BY <2>2, <3>1, <3>2, <3>3
  <2>7. ASSUME NEW d \in Managed, NEW id \in Ids, CommitFails(d, id)
        PROVE  Good
    BY <1>1, <2>1, <2>3, <2>7 DEF CommitFails
  <2>8. ASSUME NEW id \in Ids, MailCommitFails(id)
        PROVE  Good
    BY <2>1, <2>3, <2>8 DEF MailCommitFails
  <2>9. Good
    <3> HIDE DEF Good
    <3> QED
      BY <1>11, <2>4, <2>5, <2>6, <2>7, <2>8, Zenon DEF Deaths, Failures
  <2> QED
    BY <2>9
<1>12. CASE Tick \/ UNCHANGED vars
  BY <1>2, <1>12 DEF Tick, vars, store
<1> QED
  BY <1>4, <1>10, <1>11, <1>12 DEF Next

(* Users who save, choose and delete configurations of extranotifs leave   *)
(* each channel with one default.                                          *)
THEOREM AlwaysOneDefault == Spec => []OneDefault
<1>1. Init => OneDefault
  <2> SUFFICES ASSUME Init, NEW c \in Managed
               PROVE  defaults[c] = configs[c] /\ \A i, j \in configs[c] : i = j
    BY DEF OneDefault
  <2>1. PICK chosen \in Configured :
            /\ configs = [d \in Channels |-> IF d \in chosen THEN {1} ELSE {}]
            /\ defaults = [d \in Managed |-> configs[d]]
    BY DEF Init
  <2>2. c \in Channels
    BY DEF Channels
  <2> QED
    BY <2>1, <2>2
<1>2. Init => TypeInv
  BY TypeInit, BegunInit DEF TypeInv
<1>3. TypeInv /\ OneDefault /\ [Next]_vars => OneDefault'
  BY DefaultStep DEF OneDefault
<1> QED
  BY <1>1, <1>2, <1>3, TypeStep, PTL DEF Spec

-----------------------------------------------------------------------------
(* ReachesChosen.  What has led somewhere ever since the sender began still*)
(* leads there and has been sent to or has its turn to come.  A turn leaves*)
(* out a channel only when it leads nowhere, and the rows that the mail's  *)
(* turn adds lead nowhere new: outside the multi profile there is a row of *)
(* each event, so no sender falls back on the older rows of its target.    *)

InScope(s) ==
    IF senders[s].kind = "notifier" THEN Channels ELSE ChannelsOf(senders[s].scope)

Kept(s) ==
    /\ steady[s] \subseteq Leading(s)
    /\ steady[s] \cap InScope(s) \subseteq senders[s].tried \cup senders[s].left
    /\ senders[s].tried \cup senders[s].left \subseteq InScope(s)
    /\ senders[s].waiting # None => senders[s].waiting \in senders[s].tried

GlobalRows == ~multi => \A e \in Events : <<Global, e>> \in DOMAIN routes

ReachInv ==
    /\ GlobalRows
    /\ \A s \in Senders : senders[s].kind # "idle" => Kept(s)

(* What an event leads to depends on the rows of its scope alone.          *)
LEMMA NoFallback ==
    ASSUME GlobalRows, NEW t \in Scopes, NEW e \in Events
    PROVE  RowOrOlder(t, e) = RowAt(ScopeOf(t), e)
  BY DEF GlobalRows, RowOrOlder, ScopeOf, HasRows

LEMMA LeadingByScope ==
    ASSUME GlobalRows, NEW s, senders[s].target \in Scopes, senders[s].event \in Events
    PROVE  LET t == senders[s].target
               e == senders[s].event
           IN  /\ "mail" \in Leading(s) <=>
                      IF senders[s].kind = "notifier" THEN NotifierMail(t, e) # None
                                                      ELSE MailConfig(t, e) # None
               /\ \A c \in Managed :
                      c \in Leading(s) <=> Existing(c, RowAt(ScopeOf(t), e)[c]) # None
  BY NoFallback DEF Leading, Channels, Managed, NtfyConfig, TelegramConfig, WebhookConfig,
                    NotifierNtfy, NotifierWebhook

(* A step that changes neither the configurations nor the row of an event  *)
(* leaves what it leads to.                                                *)
LEMMA LeadingStays ==
    ASSUME GlobalRows, GlobalRows', NEW s,
           senders[s].target \in Scopes, senders[s].event \in Events,
           senders'[s].target = senders[s].target, senders'[s].event = senders[s].event,
           senders'[s].kind = senders[s].kind,
           UNCHANGED <<multi, configs, active>>,
           \A r \in Scopes \X Events : r \in on <=> r \in on',
           \A scope \in Scopes, e \in Events : RowAt(scope, e)' = RowAt(scope, e)
    PROVE  Leading(s)' = Leading(s)
<1> DEFINE t == senders[s].target
           e == senders[s].event
           scope == ScopeOf(t)
<1>1. scope \in Scopes /\ scope' = scope /\ t' = t /\ e' = e
  BY DEF ScopeOf, Scopes
<1>2. RowAt(scope, e)' = RowAt(scope, e) /\ (<<scope, e>> \in on)' = (<<scope, e>> \in on)
  BY <1>1
<1>3. RowOrOlder(t, e) = RowAt(scope, e)
  BY NoFallback
<1>4. RowOrOlder(t, e)' = RowAt(scope, e)'
  BY <1>1 DEF GlobalRows, RowOrOlder, ScopeOf, HasRows
<1>5. RowOrOlder(t, e)' = RowOrOlder(t, e)
  BY <1>2, <1>3, <1>4
<1>6. /\ NtfyConfig(t, e)' = NtfyConfig(t, e)
      /\ WebhookConfig(t, e)' = WebhookConfig(t, e)
      /\ TelegramConfig(t, e)' = TelegramConfig(t, e)
      /\ NotifierNtfy(t, e)' = NotifierNtfy(t, e)
      /\ NotifierWebhook(t, e)' = NotifierWebhook(t, e)
  BY <1>2, <1>5 DEF NtfyConfig, WebhookConfig, TelegramConfig, NotifierNtfy, NotifierWebhook,
                    Existing
<1>7. MailConfig(t, e)' = MailConfig(t, e) /\ NotifierMail(t, e)' = NotifierMail(t, e)
  BY <1>2 DEF MailConfig, NotifierMail
<1> QED
  BY <1>6, <1>7 DEF Leading

(* A sender that begins keeps what leads somewhere among its turns.        *)
LEMMA BeginReaches ==
    ASSUME TypeInv, ReachInv, NEW s \in Senders, NEW kind \in {"app", "legacy", "notifier"},
           NEW t \in Scopes, NEW e \in Events, NEW scope \in Policies,
           NEW left \in SUBSET Channels, Begin(s, kind, t, e, scope, left),
           LET inScope == IF kind = "notifier" THEN Channels ELSE ChannelsOf(scope)
           IN  left \subseteq inScope /\ Leading(s)' \cap inScope \subseteq left
    PROVE  ReachInv'
<1>1. /\ UNCHANGED store
      /\ steady' = [steady EXCEPT ![s] = Leading(s)']
      /\ senders' = [senders EXCEPT ![s] =
            [kind |-> kind, target |-> t, event |-> e, scope |-> scope,
             left |-> left, waiting |-> None, tried |-> {}]]
  BY BeginType DEF TypeInv
<1>2. GlobalRows'
  BY <1>1 DEF ReachInv, GlobalRows, store
<1>3. Kept(s)'
  <2>1. /\ steady'[s] = Leading(s)' /\ senders'[s].kind = kind /\ senders'[s].scope = scope
        /\ senders'[s].left = left /\ senders'[s].tried = {} /\ senders'[s].waiting = None
    BY <1>1 DEF TypeInv, TypeOK
  <2>2. InScope(s)' = IF kind = "notifier" THEN Channels ELSE ChannelsOf(scope)
    BY <2>1 DEF InScope
  <2> QED
    BY <2>1, <2>2 DEF Kept
<1>4. ASSUME NEW r \in Senders, r # s, senders'[r].kind # "idle"
      PROVE  Kept(r)'
  <2>1. senders'[r] = senders[r] /\ steady'[r] = steady[r]
    BY <1>1, <1>4 DEF TypeInv, TypeOK
  <2>2. senders[r].target \in Scopes /\ senders[r].event \in Events
    BY <1>4, <2>1 DEF TypeInv, TypeOK, Begun, Sender
  <2>3. UNCHANGED <<multi, configs, active, on, routes>>
    BY <1>1 DEF store
  <2>4. \A sc \in Scopes, ev \in Events : RowAt(sc, ev)' = RowAt(sc, ev)
    BY <2>3 DEF RowAt
  <2>5. Leading(r)' = Leading(r)
    BY <1>2, <2>1, <2>2, <2>3, <2>4, LeadingStays DEF ReachInv
  <2>6. Kept(r)
    BY <1>4, <2>1 DEF ReachInv
  <2> QED
    BY <2>1, <2>5, <2>6 DEF Kept, InScope
<1> QED
  BY <1>2, <1>3, <1>4 DEF ReachInv

LEMMA BeginningReaches ==
    ASSUME TypeInv, ReachInv, NEW s \in Senders,
           \/ \E t \in Targets, e \in Events : Announce(s, t, e) \/ Notify(s, t, e)
           \/ \E e \in Events : AnnounceUnknown(s, e)
    PROVE  ReachInv'
<1>1. ASSUME NEW t \in Targets, NEW e \in Events, Announce(s, t, e)
      PROVE  ReachInv'
  <2>1. t \in Scopes /\ notifyScope[t] \in Policies /\ ChannelsOf(notifyScope[t]) \subseteq Channels
    BY ChannelsOfType DEF Scopes, TypeInv, TypeOK
  <2> QED
    BY <1>1, <2>1, BeginReaches DEF Announce
<1>2. ASSUME NEW e \in Events, AnnounceUnknown(s, e)
      PROVE  ReachInv'
  <2>1. Global \in Scopes /\ "mail" \in Policies /\ {"mail"} \in SUBSET Channels
        /\ ChannelsOf("mail") = {"mail"}
    BY DEF Scopes, Policies, Channels, ChannelsOf
  <2> QED
    BY <1>2, <2>1, BeginReaches DEF AnnounceUnknown
<1>3. ASSUME NEW t \in Targets, NEW e \in Events, Notify(s, t, e)
      PROVE  ReachInv'
  <2>1. t \in Scopes /\ notifyScope[t] \in Policies
    BY DEF Scopes, TypeInv, TypeOK
  <2> DEFINE row == RowAt(ScopeOf(t), e)
             planned == {c \in {"mail", "ntfy", "telegram"} :
                            /\ row[c] # None
                            /\ IF c = "mail" THEN <<ScopeOf(t), e>> \in on
                               ELSE row[c] \in configs[c]}
             left == planned \cup {"webhook"}
  <2>2. left \in SUBSET Channels
    BY DEF Channels, Managed
  <2>3. Begin(s, "notifier", t, e, notifyScope[t], left)
    BY <1>3 DEF Notify
  <2>4. /\ UNCHANGED store
        /\ senders' = [senders EXCEPT ![s] =
              [kind |-> "notifier", target |-> t, event |-> e, scope |-> notifyScope[t],
               left |-> left, waiting |-> None, tried |-> {}]]
    BY <2>1, <2>2, <2>3, BeginType DEF TypeInv
  <2>5. /\ senders'[s].kind = "notifier" /\ senders'[s].target = t /\ senders'[s].event = e
    BY <2>4 DEF TypeInv, TypeOK
  <2>6. Leading(s)' \subseteq left
    <3>1. /\ NotifierMail(t, e)' = NotifierMail(t, e)
          /\ NotifierNtfy(t, e)' = NotifierNtfy(t, e)
          /\ TelegramConfig(t, e)' = TelegramConfig(t, e)
          /\ RowAt(ScopeOf(t), e)' = RowAt(ScopeOf(t), e)
      BY <2>4 DEF store, NotifierMail, NotifierNtfy, TelegramConfig, MailConfig, RowAt, ScopeOf,
                  Existing
    <3>2. Leading(s)' \subseteq
            {c \in Channels : \/ c = "webhook"
                              \/ c = "mail" /\ NotifierMail(t, e) # None
                              \/ c = "ntfy" /\ NotifierNtfy(t, e) # None
                              \/ c = "telegram" /\ TelegramConfig(t, e) # None}
      BY <2>5, <3>1 DEF Leading, Channels, Managed
    <3>3. NotifierMail(t, e) # None => row["mail"] # None /\ <<ScopeOf(t), e>> \in on
      BY DEF NotifierMail, MailConfig
    <3>4. None \notin configs["ntfy"] /\ None \notin configs["telegram"]
      BY NotificationAssumption DEF TypeInv, TypeOK, Channels, Managed
    <3>5. /\ NotifierNtfy(t, e) # None => row["ntfy"] # None /\ row["ntfy"] \in configs["ntfy"]
          /\ TelegramConfig(t, e) # None =>
                row["telegram"] # None /\ row["telegram"] \in configs["telegram"]
      BY <3>4 DEF NotifierNtfy, TelegramConfig, Existing
    <3> QED
      BY <3>2, <3>3, <3>5
  <2> HIDE DEF left, planned, row
  <2> QED
    BY <2>1, <2>2, <2>3, <2>6, BeginReaches
<1> QED
  BY <1>1, <1>2, <1>3

(* A sender's turn ends at once, waits for a server, or has waited for it. *)
LEMMA TurnReaches ==
    ASSUME TypeInv, ReachInv, NEW s \in Senders, NEW c \in Channels, senders[s].kind # "idle",
           \/ /\ c \in senders[s].left
              /\ senders' = [senders EXCEPT ![s].waiting = c, ![s].tried = @ \cup {c}]
           \/ /\ c \notin Leading(s)
              /\ senders' = [senders EXCEPT ![s].left = @ \ {c}]
           \/ /\ c = senders[s].waiting
              /\ senders' = [senders EXCEPT ![s].waiting = None, ![s].left = @ \ {c}],
           UNCHANGED <<multi, configs, active, on, steady>>,
           GlobalRows',
           \A scope \in Scopes, e \in Events : RowAt(scope, e)' = RowAt(scope, e)
    PROVE  ReachInv'
<1>1. ASSUME NEW r \in Senders
      PROVE  /\ senders'[r].target = senders[r].target /\ senders'[r].event = senders[r].event
             /\ senders'[r].kind = senders[r].kind /\ senders'[r].scope = senders[r].scope
             /\ r # s => senders'[r] = senders[r]
  BY DEF TypeInv, TypeOK, Sender
<1>2. ASSUME NEW r \in Senders, senders[r].kind # "idle"
      PROVE  Leading(r)' = Leading(r) /\ InScope(r)' = InScope(r) /\ steady'[r] = steady[r]
             /\ Kept(r)
  <2>1. senders[r].target \in Scopes /\ senders[r].event \in Events
    BY <1>2 DEF TypeInv, TypeOK, Begun, Sender
  <2>2. Leading(r)' = Leading(r)
    BY <1>1, <2>1, LeadingStays DEF ReachInv
  <2> QED
    BY <1>1, <1>2, <2>2 DEF InScope, ReachInv
<1>3. Kept(s)'
  <2>1. senders[s] \in Sender /\ Kept(s) /\ Leading(s)' = Leading(s)
        /\ InScope(s)' = InScope(s) /\ steady'[s] = steady[s]
    BY <1>2 DEF TypeInv, TypeOK
  <2>2. CASE /\ c \in senders[s].left
             /\ senders' = [senders EXCEPT ![s].waiting = c, ![s].tried = @ \cup {c}]
    <3>1. /\ senders'[s].waiting = c /\ senders'[s].tried = senders[s].tried \cup {c}
          /\ senders'[s].left = senders[s].left
      BY <2>1, <2>2 DEF TypeInv, TypeOK, Sender
    <3> QED
      BY <2>1, <2>2, <3>1 DEF Kept
  <2>3. CASE /\ c \notin Leading(s)
             /\ senders' = [senders EXCEPT ![s].left = @ \ {c}]
    <3>1. /\ senders'[s].waiting = senders[s].waiting /\ senders'[s].tried = senders[s].tried
          /\ senders'[s].left = senders[s].left \ {c}
      BY <2>1, <2>3 DEF TypeInv, TypeOK, Sender
    <3> QED
      BY <2>1, <2>3, <3>1 DEF Kept
  <2>4. CASE /\ c = senders[s].waiting
             /\ senders' = [senders EXCEPT ![s].waiting = None, ![s].left = @ \ {c}]
    <3>1. /\ senders'[s].waiting = None /\ senders'[s].tried = senders[s].tried
          /\ senders'[s].left = senders[s].left \ {c}
      BY <2>1, <2>4 DEF TypeInv, TypeOK, Sender
    <3>2. c \in senders[s].tried
      BY <2>1, <2>4, NotificationAssumption DEF Kept
    <3> QED
      BY <2>1, <3>1, <3>2 DEF Kept
  <2> QED
    BY <2>2, <2>3, <2>4
<1>4. ASSUME NEW r \in Senders, r # s, senders'[r].kind # "idle"
      PROVE  Kept(r)'
  <2>1. senders'[r] = senders[r] /\ senders[r].kind # "idle"
    BY <1>1, <1>4
  <2> QED
    BY <1>2, <2>1 DEF Kept
<1> QED
  BY <1>3, <1>4 DEF ReachInv

(* Senders that become idle or stay as they are.                           *)
LEMMA OthersReach ==
    ASSUME TypeInv, ReachInv, UNCHANGED store,
           \A s \in Senders : \/ senders'[s].kind = "idle"
                              \/ senders'[s] = senders[s] /\ steady'[s] = steady[s]
    PROVE  ReachInv'
<1>1. UNCHANGED <<multi, configs, active, on, routes>> /\ GlobalRows'
  BY DEF store, ReachInv, GlobalRows
<1>2. \A scope \in Scopes, e \in Events : RowAt(scope, e)' = RowAt(scope, e)
  BY <1>1 DEF RowAt
<1>3. ASSUME NEW s \in Senders, senders'[s].kind # "idle"
      PROVE  Kept(s)'
  <2>1. senders'[s] = senders[s] /\ steady'[s] = steady[s] /\ Kept(s)
    BY <1>3 DEF ReachInv
  <2>2. senders[s].target \in Scopes /\ senders[s].event \in Events
    BY <1>3, <2>1 DEF TypeInv, TypeOK, Begun, Sender
  <2>3. Leading(s)' = Leading(s)
    BY <1>1, <1>2, <2>1, <2>2, LeadingStays DEF ReachInv
  <2> QED
    BY <2>1, <2>3 DEF Kept, InScope
<1> QED
  BY <1>1, <1>3 DEF ReachInv

LEMMA TurnsReach ==
    ASSUME TypeInv, ReachInv, NEW s \in Senders,
           MailTurn(s) \/ NtfyTurn(s) \/ TelegramTurn(s) \/ WebhookTurn(s) \/ Answer(s)
    PROVE  ReachInv'
<1> DEFINE t == senders[s].target
           e == senders[s].event
<1>1. {"mail", "ntfy", "telegram", "webhook"} = Channels
  BY DEF Channels, Managed
<1>2. ASSUME NEW c \in Channels, NEW config, IsTurnOf(s, c),
             config = None => c \notin Leading(s),
             Turn(s, c, config), UNCHANGED <<multi, configs, active, on, steady>>, GlobalRows',
             \A sc \in Scopes, ev \in Events : RowAt(sc, ev)' = RowAt(sc, ev)
      PROVE  ReachInv'
  <2>1. c \in senders[s].left /\ senders[s].kind # "idle"
    BY <1>2 DEF IsTurnOf, TypeInv, Begun
  <2> QED
    BY <1>2, <2>1, TurnReaches DEF Turn
<1>3. CASE MailTurn(s)
  <2>1. t \in Scopes /\ e \in Events /\ ScopeOf(t) \in Scopes
    BY <1>3 DEF MailTurn, IsTurnOf, TypeInv, TypeOK, Sender, Begun, ScopeOf, Scopes
  <2>2. /\ DOMAIN routes \subseteq DOMAIN routes'
        /\ \A r \in DOMAIN routes' : routes'[r] = IF r \in DOMAIN routes THEN routes[r] ELSE NewRow
    BY <1>3, <2>1, EnsuredType DEF MailTurn, TypeInv
  <2>3. \A sc \in Scopes, ev \in Events : RowAt(sc, ev)' = RowAt(sc, ev)
    BY <2>2 DEF RowAt
  <2>4. GlobalRows' /\ UNCHANGED <<multi, configs, active, on, steady>>
    BY <1>3, <2>2 DEF ReachInv, GlobalRows, MailTurn
  <2>5. "mail" \in Leading(s) <=> IF senders[s].kind = "notifier" THEN NotifierMail(t, e) # None
                                                                ELSE MailConfig(t, e) # None
    BY <2>1, LeadingByScope DEF ReachInv
  <2> QED
    BY <1>1, <1>2, <1>3, <2>3, <2>4, <2>5 DEF MailTurn
<1>4. ASSUME UNCHANGED <<store, steady>>
      PROVE  /\ UNCHANGED <<multi, configs, active, on, steady>> /\ GlobalRows'
             /\ \A sc \in Scopes, ev \in Events : RowAt(sc, ev)' = RowAt(sc, ev)
  BY <1>4 DEF store, RowAt, ReachInv, GlobalRows
<1>5. ASSUME NEW c \in Channels, IsTurnOf(s, c), UNCHANGED <<store, steady>>,
             senders' = [senders EXCEPT ![s].waiting = c, ![s].tried = @ \cup {c}]
      PROVE  ReachInv'
  <2>1. c \in senders[s].left /\ senders[s].kind # "idle"
    BY <1>5 DEF IsTurnOf, TypeInv, Begun
  <2> QED
    BY <1>4, <1>5, <2>1, TurnReaches
<1>6. CASE NtfyTurn(s)
  <2>1. CASE senders[s].kind = "notifier"
    BY <1>1, <1>5, <1>6, <2>1 DEF NtfyTurn
  <2>2. CASE senders[s].kind # "notifier"
    <3>1. NtfyConfig(t, e) = None => "ntfy" \notin Leading(s)
      BY <2>2 DEF Leading
    <3> QED
      BY <1>1, <1>2, <1>4, <1>6, <2>2, <3>1 DEF NtfyTurn
  <2> QED
    BY <2>1, <2>2
<1>7. CASE TelegramTurn(s)
  <2>1. CASE senders[s].kind = "notifier"
    BY <1>1, <1>5, <1>7, <2>1 DEF TelegramTurn
  <2>2. CASE senders[s].kind # "notifier"
    <3>1. TelegramConfig(t, e) = None => "telegram" \notin Leading(s)
      BY <2>2 DEF Leading
    <3> QED
      BY <1>1, <1>2, <1>4, <1>7, <2>2, <3>1 DEF TelegramTurn
  <2> QED
    BY <2>1, <2>2
<1>8. CASE WebhookTurn(s)
  <2> DEFINE config == IF senders[s].kind = "notifier" THEN NotifierWebhook(t, e)
                                                       ELSE WebhookConfig(t, e)
  <2>1. config = None => "webhook" \notin Leading(s)
    BY DEF Leading
  <2>2. IsTurnOf(s, "webhook") /\ Turn(s, "webhook", config) /\ UNCHANGED <<store, steady>>
    BY <1>8 DEF WebhookTurn
  <2> HIDE DEF config
  <2> QED
    BY <1>1, <1>2, <1>4, <2>1, <2>2
<1>9. CASE Answer(s)
  <2>1. senders[s] \in Sender /\ senders[s].waiting # None /\ senders[s].waiting \in Channels
    BY <1>9 DEF Answer, TypeInv, TypeOK, Sender
  <2>2. CASE senders[s].kind # "idle"
    BY <1>4, <1>9, <2>1, <2>2, TurnReaches DEF Answer
  <2>3. CASE senders[s].kind = "idle"
    <3>1. senders'[s].kind = "idle" /\ \A r \in Senders \ {s} : senders'[r] = senders[r]
      BY <1>9, <2>1, <2>3 DEF Answer, TypeInv, TypeOK, Sender
    <3> QED
      BY <1>9, <3>1, OthersReach DEF Answer
  <2> QED
    BY <2>2, <2>3
<1> QED
  BY <1>3, <1>6, <1>7, <1>8, <1>9

LEMMA ReachStep ==
    ASSUME TypeInv, ReachInv, [Next]_vars
    PROVE  ReachInv'
<1>1. CASE Sending
  <2>1. ASSUME NEW s \in Senders, Return(s)
        PROVE  ReachInv'
    BY <2>1, OthersReach DEF Return, TypeInv, TypeOK, Idle
  <2>2. ASSUME NEW s \in Senders, NEW t \in Targets, NEW e \in Events, Withhold(s, t, e)
        PROVE  ReachInv'
    BY <2>2, OthersReach DEF Withhold
  <2> QED
    BY <1>1, <2>1, <2>2, BeginningReaches, TurnsReach DEF Sending
<1>2. CASE Tick \/ UNCHANGED vars
  BY <1>2, OthersReach DEF Tick, vars
<1>3. CASE Requests
  <2>1. Watched /\ senders' = senders /\ multi' = multi
    BY <1>3 DEF Requests, SaveNtfy, SetDefaultNtfy, DeleteNtfy, RouteNtfy, SaveTelegram,
        SetDefaultTelegram, DeleteTelegram, RouteTelegram, SaveWebhook, SetDefaultWebhook,
        DeleteWebhook, RouteWebhook, SaveConfig, SetDefault, DeleteConfig, Route, SaveMail,
        DeleteMail, DeleteFirstMail, RouteMail, ListRoutes, ChangeScope, Request
  <2>2. DOMAIN routes \subseteq DOMAIN routes'
    BY <1>3 DEF Requests, SaveNtfy, SetDefaultNtfy, DeleteNtfy, RouteNtfy, SaveTelegram,
        SetDefaultTelegram, DeleteTelegram, RouteTelegram, SaveWebhook, SetDefaultWebhook,
        DeleteWebhook, RouteWebhook, SaveConfig, SetDefault, DeleteConfig, Route, SaveMail,
        DeleteMail, DeleteFirstMail, RouteMail, ListRoutes, ChangeScope, RoutesWithoutMail,
        RoutesWithout
  <2>3. GlobalRows'
    BY <2>1, <2>2 DEF ReachInv, GlobalRows
  <2>4. ASSUME NEW s \in Senders, senders'[s].kind # "idle"
        PROVE  Kept(s)'
    <3>1. steady'[s] \subseteq steady[s] /\ steady'[s] \subseteq Leading(s)'
      BY <2>1 DEF Watched
    <3> QED
      BY <2>1, <2>4, <3>1 DEF ReachInv, Kept, InScope
  <2> QED
    BY <2>3, <2>4 DEF ReachInv
<1>5. CASE Failures
  <2>1. Watched /\ senders' = senders /\ multi' = multi
    BY <1>5 DEF Failures, CommitFails, MailCommitFails, Fault
  <2>2. DOMAIN routes' = DOMAIN routes
    BY <1>5 DEF Failures, CommitFails, MailCommitFails, RoutesWithoutMail, RoutesWithout
  <2>3. GlobalRows'
    BY <2>1, <2>2 DEF ReachInv, GlobalRows
  <2>4. ASSUME NEW s \in Senders, senders'[s].kind # "idle"
        PROVE  Kept(s)'
    <3>1. steady'[s] \subseteq steady[s] /\ steady'[s] \subseteq Leading(s)'
      BY <2>1 DEF Watched
    <3> QED
      BY <2>1, <2>4, <3>1 DEF ReachInv, Kept, InScope
  <2> QED
    BY <2>3, <2>4 DEF ReachInv
<1>4. CASE Deaths
  <2>1. Restart
    BY <1>4 DEF Deaths, Die, DieDeletingConfig, DieDeletingMail
  <2>2. \A s \in Senders : senders'[s].kind = "idle"
    BY <2>1 DEF Restart, Idle
  <2>3. GlobalRows'
    <3>1. multi' = multi
      BY <2>1 DEF Restart, Fault
    <3>2. /\ configs \in [Channels -> SUBSET Ids] /\ defaults \in [Managed -> SUBSET Ids]
          /\ active \subseteq configs["mail"] /\ IsRoutes(routes) /\ on \subseteq DOMAIN routes
      BY DEF TypeInv, TypeOK, IsRoutes
    <3>3. CASE Die
      BY <3>1, <3>2, <3>3, StartType DEF Die, GlobalRows, TypeInv
    <3>4. ASSUME NEW c \in Managed, NEW id \in Ids, DieDeletingConfig(c, id)
          PROVE  GlobalRows'
      <4> DEFINE found == [configs EXCEPT ![c] = @ \ {id}]
                 marked == [defaults EXCEPT ![c] = @ \ {id}]
                 rows == RoutesWithout(c, id)
      <4>1. /\ found \in [Channels -> SUBSET Ids] /\ marked \in [Managed -> SUBSET Ids]
            /\ active \subseteq found["mail"] /\ IsRoutes(rows) /\ on \subseteq DOMAIN rows
        BY <3>2, DeletingType DEF TypeInv
      <4>2. Start(found, marked, active, rows, on)
        BY <3>4 DEF DieDeletingConfig
      <4> HIDE DEF found, marked, rows
      <4> QED
        BY <3>1, <4>1, <4>2, StartType DEF GlobalRows, TypeInv
    <3>5. ASSUME NEW id \in Ids, DieDeletingMail(id)
          PROVE  GlobalRows'
      <4> DEFINE enabled == {r \in on : routes[r]["mail"] # id}
                 rows == RoutesWithout("mail", id)
      <4>1. IsRoutes(rows) /\ enabled \subseteq DOMAIN rows
        BY DeletingMailType DEF TypeInv
      <4>2. Start(configs, defaults, active, rows, enabled)
        BY <3>5 DEF DieDeletingMail
      <4> HIDE DEF enabled, rows
      <4> QED
        BY <3>1, <3>2, <4>1, <4>2, StartType DEF GlobalRows, TypeInv
    <3> QED
      BY <1>4, <3>3, <3>4, <3>5 DEF Deaths
  <2> QED
    BY <2>2, <2>3 DEF ReachInv
<1> QED
  BY <1>1, <1>2, <1>3, <1>4, <1>5 DEF Next

(* A dispatch that is done, of multi_nut/notifications.py or of upsmon's   *)
(* program, has sent through every channel in its scope that led somewhere *)
(* all along and through none outside it.                                  *)
THEOREM ReachesAllChosen == Spec => []ReachesChosen
<1>1. Init => TypeInv
  BY TypeInit, BegunInit DEF TypeInv
<1>2. Init => ReachInv
  <2> SUFFICES ASSUME Init PROVE ReachInv
    OBVIOUS
  <2>1. \A s \in Senders : senders[s].kind = "idle"
    BY DEF Init, Idle
  <2>2. PICK rows \in {{}, Targets, {Global}} :
            /\ ~multi => rows = {Global}
            /\ DOMAIN routes = rows \X Events
    BY DEF Init
  <2>3. GlobalRows
    BY <2>2 DEF GlobalRows
  <2> QED
    BY <2>1, <2>3 DEF ReachInv
<1>3. ReachInv => ReachesChosen
  BY DEF ReachInv, Kept, InScope, ReachesChosen, Finished
<1>4. TypeInv /\ ReachInv /\ [Next]_vars => ReachInv'
  BY ReachStep
<1> QED
  BY <1>1, <1>2, <1>3, <1>4, TypeStep, PTL DEF Spec
=============================================================================
