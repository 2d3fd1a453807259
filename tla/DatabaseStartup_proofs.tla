----------------------- MODULE DatabaseStartup_proofs -----------------------
(***************************************************************************)
(* Proofs about the start of the program on its database, for any targets, *)
(* names and events, any versions and any number of upgrades, deaths,      *)
(* failed drops and requests.                                              *)
(***************************************************************************)
EXTENDS DatabaseStartup, FiniteSetTheorems, NaturalsInduction, WellFoundedInduction, TLAPS

(* No two targets share a name or an identity.                             *)
Distinct == Unique("name") /\ Unique("identity")

OnePrimary == \E p \in DOMAIN targets : Primaries = {p}

(* The targets, once a start has brought them in order.                    *)
TargetsInOrder ==
    stage \in {"scopes", "patch", "up"} /\ clean =>
        OnePrimary /\ DOMAIN targets \subseteq policies

(* What is wrong with a table is on the repair's list until it is put      *)
(* right, if no step fails; and a table that matches its model is on the   *)
(* list only because secrets count as lost.                                *)
Cost == {"schedules", "routes", "mail"}

TablesInOrder ==
    /\ stage # "repair" => todo = {}
    /\ stage = "check" => \A t \in Tables : tables[t] # "missing"
    /\ stage = "repair" /\ clean => \A t \in Tables : tables[t] = "current" \/ t \in todo
    /\ stage = "repair" =>
          \A t \in todo : tables[t] = "current" => lost /\ t \in Cost
    /\ stage \in {"defaults", "bootstrap", "scopes", "patch", "up"} /\ clean => Usable(Tables)

StartInv == TypeOK /\ Distinct /\ TargetsInOrder /\ TablesInOrder

(* What may go through a mail provider.                                    *)
NoMailRoute == \A r \in DOMAIN routes : routes[r] # "mail"

(* The schedules and the routes are gone before the mail table is dropped  *)
(* for its secrets, so that a death in between leaves none behind.         *)
MailInv ==
    /\ NoDanglingMail
    /\ tables["schedules"] = "missing" => ~schedules
    /\ tables["routes"] = "missing" => NoMailRoute
    /\ stage = "repair" /\ lost /\ "mail" \in todo /\ ~bare =>
          /\ "schedules" \notin todo => ~schedules
          /\ "routes" \notin todo => NoMailRoute

-----------------------------------------------------------------------------
(* Rows.                                                                   *)

LEMMA GreatestExists ==
    ASSUME NEW n \in Nat, NEW S \in SUBSET (1..n), S # {}
    PROVE  \E top \in S : \A x \in S : x <= top
<1> DEFINE Less == {pair \in Nat \X Nat : pair[1] < pair[2]}
           Left == {n - x : x \in S}
<1>1. IsWellFoundedOn(Less, Nat)
  BY NatLessThanWellFounded, Zenon DEF OpToRel
<1>2. \A l, m \in Nat : l < m => <<l, m>> \in Less
  OBVIOUS
<1>3. Left \in SUBSET Nat /\ Left # {}
  <2>1. \A x \in S : n - x \in Nat
    OBVIOUS
  <2>2. PICK x \in S : TRUE
    OBVIOUS
  <2>3. n - x \in Left
    BY <2>2
  <2> QED
    BY <2>1, <2>3
<1> HIDE DEF Less, Left
<1>4. PICK least \in Left : \A y \in Left : ~ (<<y, least>> \in Less)
  BY <1>1, <1>3, WFMin, Zenon
<1>5. PICK top \in S : least = n - top
  BY <1>4 DEF Left
<1>6. ASSUME NEW x \in S PROVE x <= top
  <2>1. n - x \in Left
    BY DEF Left
  <2>2. ~ (n - x < least)
    BY <1>2, <1>3, <1>4, <2>1
  <2> QED
    BY <1>5, <2>2
<1> QED
  BY <1>6

LEMMA NoRowsTyped == DOMAIN NoRows = {} /\ \A S : NoRows \in [{} -> S]
  BY DEF NoRows

LEMMA NextIdTyped == DOMAIN targets = {} => NextId = 1 /\ NextId \in Ids
  BY RegistryAssumption DEF NextId, Ids

LEMMA DistinctRows ==
    Distinct <=> \A s, t \in DOMAIN targets :
                    s # t => /\ targets[s].name # targets[t].name
                             /\ targets[s].identity # targets[t].identity
  BY DEF Distinct, Unique

(* set_single_primary changes nothing but the mark.                        *)
LEMMA WithPrimaryRows ==
    ASSUME NEW T, NEW rows \in [T -> Target], NEW t
    PROVE  LET new == WithPrimary(rows, t) IN
           /\ new \in [T -> Target]
           /\ \A o \in T : /\ new[o].name = rows[o].name
                           /\ new[o].identity = rows[o].identity
                           /\ new[o].primary = (o = t)
<1> DEFINE new == WithPrimary(rows, t)
<1>1. new = [o \in T |-> [rows[o] EXCEPT !.primary = (o = t)]]
  BY DEF WithPrimary
<1>2. ASSUME NEW o \in T
      PROVE  /\ new[o] \in Target /\ new[o].name = rows[o].name
             /\ new[o].identity = rows[o].identity /\ new[o].primary = (o = t)
  <2>1. rows[o] \in Target
    OBVIOUS
  <2>2. new[o] = [rows[o] EXCEPT !.primary = (o = t)]
    BY <1>1
  <2> HIDE DEF new
  <2> QED
    BY <2>1, <2>2 DEF Target
<1>3. new \in [T -> Target]
  BY <1>1, <1>2
<1> QED
  BY <1>2, <1>3

LEMMA MarkedOnly ==
    ASSUME NEW t \in DOMAIN targets,
           \A o \in DOMAIN targets : targets[o].primary = (o = t)
    PROVE  OnePrimary
<1>1. Primaries = {t}
  BY DEF Primaries
<1> QED
  BY <1>1 DEF OnePrimary

-----------------------------------------------------------------------------
(* The requests.                                                           *)

(* What a request leaves as it should be.                                  *)
RegistryKept ==
    /\ RegistryTypeOK' /\ Distinct'
    /\ OnePrimary => OnePrimary'
    /\ DOMAIN targets \subseteq policies => DOMAIN targets' \subseteq policies'

LEMMA SameTargets ==
    ASSUME RegistryTypeOK, Distinct, targets' = targets, RegistryTypeOK',
           policies' = policies \/ policies' = policies \cup DOMAIN targets
    PROVE  RegistryKept
<1>1. Distinct'
  BY DEF Distinct, Unique
<1>2. OnePrimary => OnePrimary'
  BY DEF OnePrimary, Primaries
<1> QED
  BY <1>1, <1>2 DEF RegistryKept

LEMMA CreateTargetKeeps ==
    ASSUME RegistryTypeOK, Distinct,
           NEW name \in Names, NEW identity \in Identities, NEW primary \in BOOLEAN,
           CreateTarget(name, identity, primary)
    PROVE  RegistryKept
<1> DEFINE id   == NextId
           T    == DOMAIN targets \cup {id}
           new  == [name |-> name, identity |-> identity, primary |-> primary]
           rows == [t \in T |-> IF t = id THEN new ELSE targets[t]]
<1>1. /\ id \in Ids /\ id \notin policies
      /\ \A t \in DOMAIN targets \ {Global} : /\ targets[t].name # name
                                              /\ targets[t].identity # identity
      /\ targets' = IF primary THEN WithPrimary(rows, id) ELSE rows
      /\ policies' = policies \cup {id}
      /\ UNCHANGED <<stage, profile, options, routes, provider, schedules>>
  BY DEF CreateTarget, Taken, TakenIdentity
<1> HIDE DEF id
<1>2. /\ targets \in [DOMAIN targets -> Target] /\ DOMAIN targets \subseteq Ids
      /\ Global \notin DOMAIN targets
  BY RegistryAssumption DEF RegistryTypeOK, Ids
<1>3. id \notin DOMAIN targets
  <2>1. CASE DOMAIN targets = {}
    BY <2>1
  <2>2. CASE DOMAIN targets # {}
    <3> DEFINE top == CHOOSE t \in DOMAIN targets : \A o \in DOMAIN targets : o <= t
    <3>1. PICK m \in DOMAIN targets : \A o \in DOMAIN targets : o <= m
      <4>1. DOMAIN targets \in SUBSET (1..MaxId)
        BY <1>2 DEF Ids
      <4> QED
        BY <2>2, <4>1, RegistryAssumption, GreatestExists
    <3>2. top \in DOMAIN targets /\ \A o \in DOMAIN targets : o <= top
      BY <3>1
    <3>3. id = 1 + top
      BY <2>2 DEF NextId, id
    <3> HIDE DEF top
    <3> QED
      BY <1>2, <3>2, <3>3 DEF Ids
  <2> QED
    BY <2>1, <2>2
<1>4. new \in Target
  BY DEF Target
<1>5. rows \in [T -> Target] /\ DOMAIN rows = T
  BY <1>2, <1>4
<1>6. /\ rows[id].name = name /\ rows[id].identity = identity /\ rows[id].primary = primary
      /\ \A t \in DOMAIN targets : rows[t] = targets[t]
  BY <1>3
<1> HIDE DEF rows
<1>7. /\ targets' \in [T -> Target] /\ DOMAIN targets' = T
      /\ \A t \in T : /\ targets'[t].name = rows[t].name
                      /\ targets'[t].identity = rows[t].identity
      /\ primary => \A t \in T : targets'[t].primary = (t = id)
      /\ ~primary => targets' = rows
  <2>1. CASE primary
    <3>1. targets' = WithPrimary(rows, id)
      BY <1>1, <2>1
    <3> QED
      BY <1>5, <2>1, <3>1, WithPrimaryRows
  <2>2. CASE ~primary
    BY <1>1, <1>5, <2>2
  <2> QED
    BY <2>1, <2>2
<1>8. RegistryTypeOK'
  BY <1>1, <1>2, <1>7 DEF RegistryTypeOK, provider
<1>9. Distinct'
  <2>1. ASSUME NEW s \in T, NEW t \in T, s # t
        PROVE  rows[s].name # rows[t].name /\ rows[s].identity # rows[t].identity
    BY <1>1, <1>2, <1>6, <2>1, DistinctRows
  <2>2. \A s, t \in DOMAIN targets' :
            s # t => /\ targets'[s].name # targets'[t].name
                     /\ targets'[s].identity # targets'[t].identity
    BY <1>7, <2>1
  <2> QED
    BY <2>2 DEF Distinct, Unique
<1>10. OnePrimary => OnePrimary'
  <2>1. CASE primary
    <3>1. Primaries' = {id}
      BY <1>7, <2>1 DEF Primaries
    <3> QED
      BY <1>7, <3>1 DEF OnePrimary
  <2>2. CASE ~primary
    <3>1. Primaries' = Primaries
      BY <1>3, <1>6, <1>7, <2>2 DEF Primaries
    <3> QED
      BY <1>7, <3>1 DEF OnePrimary
  <2> QED
    BY <2>1, <2>2
<1> QED
  BY <1>1, <1>7, <1>8, <1>9, <1>10 DEF RegistryKept

LEMMA UpdateTargetKeeps ==
    ASSUME RegistryTypeOK, Distinct, NEW t \in Ids,
           NEW name \in Names, NEW identity \in Identities, NEW primary \in BOOLEAN,
           UpdateTarget(t, name, identity, primary)
    PROVE  RegistryKept
<1> DEFINE T    == DOMAIN targets
           rows == [targets EXCEPT ![t] = [@ EXCEPT !.name = name, !.identity = identity]]
<1>1. /\ t \in T
      /\ \A o \in T \ {t} : targets[o].name # name /\ targets[o].identity # identity
      /\ targets' = IF primary THEN WithPrimary(rows, t) ELSE rows
      /\ policies' = policies \cup {t}
      /\ UNCHANGED <<stage, profile, options, routes, provider, schedules>>
  BY DEF UpdateTarget, Taken, TakenIdentity
<1>2. targets \in [T -> Target] /\ T \subseteq Ids
  BY DEF RegistryTypeOK
<1>3. targets[t] \in Target
  BY <1>1, <1>2
<1> DEFINE row == [targets[t] EXCEPT !.name = name, !.identity = identity]
<1>4. /\ row \in Target /\ row.name = name /\ row.identity = identity
      /\ row.primary = targets[t].primary
  BY <1>3 DEF Target
<1>5. rows = [targets EXCEPT ![t] = row]
  OBVIOUS
<1> HIDE DEF row, rows
<1>6. /\ rows \in [T -> Target] /\ DOMAIN rows = T /\ rows[t] = row
      /\ \A o \in T \ {t} : rows[o] = targets[o]
  BY <1>1, <1>2, <1>4, <1>5
<1>7. /\ targets' \in [T -> Target] /\ DOMAIN targets' = T
      /\ \A o \in T : /\ targets'[o].name = rows[o].name
                      /\ targets'[o].identity = rows[o].identity
      /\ primary => \A o \in T : targets'[o].primary = (o = t)
      /\ ~primary => targets' = rows
  <2>1. CASE primary
    <3>1. targets' = WithPrimary(rows, t)
      BY <1>1, <2>1
    <3> QED
      BY <1>6, <2>1, <3>1, WithPrimaryRows
  <2>2. CASE ~primary
    BY <1>1, <1>6, <2>2
  <2> QED
    BY <2>1, <2>2
<1>8. RegistryTypeOK'
  BY <1>1, <1>2, <1>7 DEF RegistryTypeOK, provider
<1>9. Distinct'
  <2>1. ASSUME NEW s \in T, NEW o \in T, s # o
        PROVE  rows[s].name # rows[o].name /\ rows[s].identity # rows[o].identity
    BY <1>1, <1>4, <1>6, <2>1, DistinctRows
  <2>2. \A s, o \in DOMAIN targets' :
            s # o => /\ targets'[s].name # targets'[o].name
                     /\ targets'[s].identity # targets'[o].identity
    BY <1>7, <2>1
  <2> QED
    BY <2>2 DEF Distinct, Unique
<1>10. OnePrimary => OnePrimary'
  <2>1. CASE primary
    <3>1. Primaries' = {t}
      BY <1>1, <1>7, <2>1 DEF Primaries
    <3> QED
      BY <1>1, <1>7, <3>1 DEF OnePrimary
  <2>2. CASE ~primary
    <3>1. \A o \in T : targets'[o].primary = targets[o].primary
      BY <1>4, <1>6, <1>7, <2>2
    <3>2. Primaries' = Primaries
      BY <1>7, <3>1 DEF Primaries
    <3> QED
      BY <1>7, <3>2 DEF OnePrimary
  <2> QED
    BY <2>1, <2>2
<1> QED
  BY <1>1, <1>7, <1>8, <1>9, <1>10 DEF RegistryKept

LEMMA SetPrimaryKeeps ==
    ASSUME RegistryTypeOK, Distinct, NEW t \in Ids, SetPrimary(t)
    PROVE  RegistryKept
<1> DEFINE T == DOMAIN targets
<1>1. /\ t \in T /\ targets' = WithPrimary(targets, t) /\ policies' = policies \cup {t}
      /\ UNCHANGED <<stage, profile, options, routes, provider, schedules>>
  BY DEF SetPrimary
<1>2. targets \in [T -> Target] /\ T \subseteq Ids
  BY DEF RegistryTypeOK
<1>3. /\ targets' \in [T -> Target] /\ DOMAIN targets' = T
      /\ \A o \in T : /\ targets'[o].name = targets[o].name
                      /\ targets'[o].identity = targets[o].identity
                      /\ targets'[o].primary = (o = t)
  BY <1>1, <1>2, WithPrimaryRows
<1>4. RegistryTypeOK'
  BY <1>1, <1>2, <1>3 DEF RegistryTypeOK, provider
<1>5. Distinct'
  <2>1. \A s, o \in DOMAIN targets' :
            s # o => /\ targets'[s].name # targets'[o].name
                     /\ targets'[s].identity # targets'[o].identity
    BY <1>3, DistinctRows
  <2> QED
    BY <2>1 DEF Distinct, Unique
<1>6. OnePrimary'
  <2>1. Primaries' = {t}
    BY <1>1, <1>3 DEF Primaries
  <2> QED
    BY <1>1, <1>3, <2>1 DEF OnePrimary
<1> QED
  BY <1>1, <1>3, <1>4, <1>5, <1>6 DEF RegistryKept

LEMMA DeleteTargetKeeps ==
    ASSUME RegistryTypeOK, Distinct, NEW t \in Ids, DeleteTarget(t)
    PROVE  RegistryKept
<1> DEFINE T == DOMAIN targets \ {t}
<1>1. /\ t \in DOMAIN targets \ Primaries /\ targets' = [o \in T |-> targets[o]]
      /\ policies' = policies \ {t}
      /\ UNCHANGED <<stage, profile, options, routes, provider, schedules>>
  BY DEF DeleteTarget
<1>2. targets \in [DOMAIN targets -> Target] /\ DOMAIN targets \subseteq Ids
  BY DEF RegistryTypeOK
<1>3. /\ targets' \in [T -> Target] /\ DOMAIN targets' = T
      /\ \A o \in T : targets'[o] = targets[o]
  BY <1>1, <1>2
<1>4. RegistryTypeOK'
  BY <1>1, <1>2, <1>3 DEF RegistryTypeOK, provider
<1>5. Distinct'
  BY <1>3 DEF Distinct, Unique
<1>6. Primaries' = Primaries
  BY <1>1, <1>3 DEF Primaries
<1>7. OnePrimary => OnePrimary'
  BY <1>1, <1>3, <1>6 DEF OnePrimary, Primaries
<1> QED
  BY <1>1, <1>3, <1>4, <1>5, <1>7 DEF RegistryKept

LEMMA WithSettingTyped ==
    ASSUME RegistryTypeOK, NEW row \in Scopes, NEW setting \in Settings
    PROVE  LET new == WithSetting(row, setting) IN
           DOMAIN new \subseteq Scopes /\ new \in [DOMAIN new -> SUBSET Settings]
<1>1. options \in [DOMAIN options -> SUBSET Settings] /\ DOMAIN options \subseteq Scopes
  BY DEF RegistryTypeOK
<1> DEFINE S == DOMAIN options \cup {row}
           Of(s) == (IF s \in DOMAIN options THEN options[s] ELSE {})
                        \cup (IF s = row THEN {setting} ELSE {})
<1>2. WithSetting(row, setting) = [s \in S |-> Of(s)]
  BY DEF WithSetting
<1>3. \A s \in S : Of(s) \in SUBSET Settings
  BY <1>1
<1> HIDE DEF Of
<1> QED
  BY <1>1, <1>2, <1>3

LEMMA OptionsKeep ==
    ASSUME RegistryTypeOK, Distinct, NEW scope \in Scopes, NEW chosen \in {"single", "multi"},
           SaveOptions(scope, chosen) \/ SaveOperations(scope)
    PROVE  RegistryKept
<1>1. PICK row \in Scopes, setting \in Settings : options' = WithSetting(row, setting)
  <2>1. CASE SaveOptions(scope, chosen)
    <3>1. PICK row \in OptionsRow(scope) : options' = WithSetting(row, "variables")
      BY <2>1 DEF SaveOptions
    <3>2. row \in Scopes
      BY DEF OptionsRow, RegistryTypeOK
    <3> QED
      BY <3>1, <3>2 DEF Settings
  <2>2. CASE SaveOperations(scope)
    BY <2>2 DEF SaveOperations, Settings
  <2> QED
    BY <2>1, <2>2
<1>2. /\ profile' \in {"single", "multi"}
      /\ UNCHANGED <<targets, policies, routes, mail, bare, schedules>>
  BY DEF SaveOptions, SaveOperations, provider, RegistryTypeOK
<1>3. DOMAIN options' \subseteq Scopes /\ options' \in [DOMAIN options' -> SUBSET Settings]
  BY <1>1, WithSettingTyped
<1>4. RegistryTypeOK'
  BY <1>2, <1>3 DEF RegistryTypeOK
<1> QED
  BY <1>2, <1>4, SameTargets

(* Routes that are added are off, or what the user chose.                  *)
LEMMA AddedRoutes ==
    ASSUME RegistryTypeOK, NEW R \in SUBSET (Scopes \X Events), NEW state \in RouteState,
           NEW new, new = [r \in R |-> IF r \in DOMAIN routes THEN routes[r] ELSE state]
    PROVE  /\ DOMAIN new = R /\ new \in [R -> RouteState]
           /\ NoMailRoute /\ state # "mail" => \A r \in R : new[r] # "mail"
  BY DEF RegistryTypeOK, NoMailRoute

LEMMA SaveRouteKeeps ==
    ASSUME RegistryTypeOK, Distinct, NEW scope \in Scopes, NEW event \in Events,
           NEW state \in RouteState, SaveRoute(scope, event, state)
    PROVE  RegistryKept /\ (NoDanglingMail => NoDanglingMail')
<1> DEFINE R == DOMAIN routes \cup {<<scope, event>>}
<1>1. routes \in [DOMAIN routes -> RouteState] /\ DOMAIN routes \subseteq Scopes \X Events
  BY DEF RegistryTypeOK
<1>2. /\ routes' = [r \in R |-> IF r = <<scope, event>> THEN state ELSE routes[r]]
      /\ bare' = (bare \/ (state = "mail" /\ mail = "none"))
      /\ UNCHANGED <<profile, targets, policies, options, mail, schedules>>
  BY DEF SaveRoute
<1>3. <<scope, event>> \in Scopes \X Events
  OBVIOUS
<1>4. DOMAIN routes' = R /\ routes' \in [R -> RouteState]
  BY <1>1, <1>2
<1>5. NoDanglingMail => NoDanglingMail'
  BY <1>2 DEF NoDanglingMail
<1>6. RegistryTypeOK'
  BY <1>1, <1>2, <1>3, <1>4 DEF RegistryTypeOK
<1> QED
  BY <1>2, <1>5, <1>6, SameTargets

LEMMA ListRoutesKeeps ==
    ASSUME RegistryTypeOK, Distinct, NEW scope \in Scopes, ListRoutes(scope)
    PROVE  RegistryKept /\ (NoMailRoute /\ mail = "none" => NoMailRoute')
<1> DEFINE R == DOMAIN routes \cup ({scope} \X Events)
<1>1. /\ routes' = [r \in R |-> IF r \in DOMAIN routes THEN routes[r] ELSE "off"]
      /\ UNCHANGED <<profile, targets, policies, options, mail, bare, schedules>>
  BY DEF ListRoutes, provider
<1>2. R \in SUBSET (Scopes \X Events) /\ "off" \in RouteState
  BY DEF RegistryTypeOK, RouteState
<1> HIDE DEF R
<1>3. /\ DOMAIN routes' = R /\ routes' \in [R -> RouteState]
      /\ NoMailRoute => NoMailRoute'
  BY <1>1, <1>2, AddedRoutes DEF NoMailRoute
<1>4. RegistryTypeOK'
  BY <1>1, <1>2, <1>3 DEF RegistryTypeOK
<1> QED
  BY <1>1, <1>3, <1>4, SameTargets

LEMMA MailKeeps ==
    ASSUME RegistryTypeOK, Distinct,
           \/ SaveMail \/ DeleteMail \/ DeleteMailSettings
           \/ \E there \in BOOLEAN : SaveSchedule(there)
    PROVE  RegistryKept /\ (NoDanglingMail => NoDanglingMail')
<1>1. routes \in [DOMAIN routes -> RouteState] /\ DOMAIN routes \subseteq Scopes \X Events
  BY DEF RegistryTypeOK
<1>2. UNCHANGED <<profile, targets, policies, options>>
  BY DEF SaveMail, DeleteMail, DeleteMailSettings, SaveSchedule, provider
<1>3. CASE DeleteMail
  <2>1. /\ routes' = [r \in DOMAIN routes |-> IF routes[r] = "mail" THEN "off" ELSE routes[r]]
        /\ mail' = "none" /\ bare' = FALSE /\ schedules' = FALSE
    BY <1>3 DEF DeleteMail
  <2>2. DOMAIN routes' = DOMAIN routes /\ routes' \in [DOMAIN routes -> RouteState]
    BY <1>1, <2>1 DEF RouteState
  <2>3. NoMailRoute'
    BY <1>1, <2>1 DEF NoMailRoute
  <2>4. RegistryTypeOK'
    BY <1>2, <2>1, <2>2 DEF RegistryTypeOK
  <2> QED
    BY <1>2, <2>1, <2>3, <2>4, SameTargets DEF NoDanglingMail, NoMailRoute
<1>4. CASE ~DeleteMail
  <2>1. routes' = routes
    BY <1>4 DEF SaveMail, DeleteMailSettings, SaveSchedule
  <2>2. mail' \in {"none", "readable", "unreadable"} /\ bare' \in BOOLEAN /\ schedules' \in BOOLEAN
    BY <1>4 DEF SaveMail, DeleteMailSettings, SaveSchedule, provider, RegistryTypeOK
  <2>3. RegistryTypeOK'
    BY <1>2, <2>1, <2>2 DEF RegistryTypeOK
  <2>4. NoDanglingMail => NoDanglingMail'
    BY <1>4, <2>1 DEF SaveMail, DeleteMailSettings, SaveSchedule, provider, NoDanglingMail
  <2> QED
    BY <1>2, <2>3, <2>4, SameTargets
<1> QED
  BY <1>3, <1>4

LEMMA RequestKeeps ==
    ASSUME RegistryTypeOK, Distinct, Request
    PROVE  /\ RegistryKept /\ stage = "up" /\ stage' = stage
           /\ NoDanglingMail => NoDanglingMail'
<1>1. CASE \E name \in Names, identity \in Identities, primary \in BOOLEAN :
              \/ CreateTarget(name, identity, primary)
              \/ \E t \in Ids : UpdateTarget(t, name, identity, primary)
  <2>1. RegistryKept
    BY <1>1, CreateTargetKeeps, UpdateTargetKeeps
  <2>2. stage = "up" /\ UNCHANGED <<stage, mail, bare, routes, schedules>>
    <3>1. PICK name \in Names, identity \in Identities, primary \in BOOLEAN :
              \/ CreateTarget(name, identity, primary)
              \/ \E t \in Ids : UpdateTarget(t, name, identity, primary)
      BY <1>1, Zenon
    <3>2. CASE CreateTarget(name, identity, primary)
      <4>1. stage = "up" /\ UNCHANGED <<stage, routes, provider, schedules>>
        BY <3>2 DEF CreateTarget
      <4> QED BY <4>1 DEF provider
    <3>3. CASE \E t \in Ids : UpdateTarget(t, name, identity, primary)
      <4>1. stage = "up" /\ UNCHANGED <<stage, routes, provider, schedules>>
        BY <3>3 DEF UpdateTarget
      <4> QED BY <4>1 DEF provider
    <3> QED BY <3>1, <3>2, <3>3, Zenon
  <2> QED
    BY <2>1, <2>2 DEF NoDanglingMail
<1>2. CASE \E t \in Ids : SetPrimary(t) \/ DeleteTarget(t)
  BY <1>2, SetPrimaryKeeps, DeleteTargetKeeps
     DEF SetPrimary, DeleteTarget, NoDanglingMail, provider
<1>3. CASE ListTargets
  <2>1. /\ policies' = policies \cup DOMAIN targets /\ stage = "up"
        /\ UNCHANGED <<stage, profile, targets, options, routes, mail, bare, schedules>>
    BY <1>3 DEF ListTargets, provider
  <2>2. RegistryTypeOK'
    BY <2>1 DEF RegistryTypeOK
  <2> QED
    BY <2>1, <2>2, SameTargets DEF NoDanglingMail
<1>4. CASE \E scope \in Scopes, chosen \in {"single", "multi"} : SaveOptions(scope, chosen)
  BY <1>4, OptionsKeep DEF SaveOptions, NoDanglingMail, provider
<1>5. CASE \E scope \in Scopes : SaveOperations(scope) \/ ListRoutes(scope)
  <2>1. PICK scope \in Scopes : SaveOperations(scope) \/ ListRoutes(scope)
    BY <1>5
  <2>2. CASE SaveOperations(scope)
    BY <2>2, OptionsKeep DEF SaveOperations, NoDanglingMail, provider
  <2>3. CASE ListRoutes(scope)
    <3>1. RegistryKept /\ (NoMailRoute /\ mail = "none" => NoMailRoute')
      BY <2>3, ListRoutesKeeps
    <3> QED
      BY <2>3, <3>1 DEF ListRoutes, NoDanglingMail, provider
  <2> QED
    BY <2>1, <2>2, <2>3
<1>6. CASE \E scope \in Scopes, event \in Events, state \in RouteState :
               SaveRoute(scope, event, state)
  BY <1>6, SaveRouteKeeps DEF SaveRoute
<1>7. CASE \/ SaveMail \/ DeleteMail \/ DeleteMailSettings
           \/ \E there \in BOOLEAN : SaveSchedule(there)
  BY <1>7, MailKeeps DEF SaveMail, DeleteMail, DeleteMailSettings, SaveSchedule
<1> QED
  BY <1>1, <1>2, <1>3, <1>4, <1>5, <1>6, <1>7 DEF Request

-----------------------------------------------------------------------------
(* While the program is down, and the steps of its start.                  *)

LEMMA StartInvInit == Init => StartInv
<1> SUFFICES ASSUME Init PROVE StartInv
  OBVIOUS
<1>1. PICK used \in {{}, {1}, {1, 2} \cap Ids} :
          /\ targets \in [used -> Target] /\ policies = used
          /\ options = [t \in used |-> {"variables"}]
  BY DEF Init
<1>2. used \subseteq Ids
  BY RegistryAssumption DEF Ids
<1>3. routes = [r \in {Global} \X Events |-> "off"]
  BY DEF Init
<1>4. /\ DOMAIN targets = used
      /\ DOMAIN options = used /\ options \in [used -> SUBSET Settings]
      /\ DOMAIN routes = {Global} \X Events /\ routes \in [{Global} \X Events -> RouteState]
      /\ {Global} \X Events \subseteq Scopes \X Events /\ used \subseteq Scopes
  BY <1>1, <1>2, <1>3 DEF Settings, RouteState, Scopes
<1>5. RegistryTypeOK
  BY <1>1, <1>2, <1>4 DEF Init, RegistryTypeOK
<1>6. counts \in [upgrades : 0..MaxUpgrades, crashes : 0..MaxFaults,
                  failures : 0..MaxFaults, requests : 0..MaxRequests]
  BY StartupAssumption DEF Init
<1>7. tables \in [Tables -> {"current", "outdated", "missing"}]
  BY DEF Init
<1>8. TypeOK
  BY <1>5, <1>6, <1>7 DEF TypeOK, Init
<1>9. Distinct
  BY DistinctRows DEF Init
<1>10. TargetsInOrder /\ TablesInOrder
  BY DEF Init, TargetsInOrder, TablesInOrder
<1> QED
  BY <1>8, <1>9, <1>10 DEF StartInv

LEMMA SameRegistry ==
    ASSUME RegistryTypeOK, Distinct, UNCHANGED registry
    PROVE  /\ RegistryTypeOK' /\ Distinct' /\ (OnePrimary => OnePrimary')
           /\ (NoMailRoute => NoMailRoute')
  BY DEF RegistryTypeOK, Distinct, Unique, registry, provider, OnePrimary, Primaries, NoMailRoute

(* A failed step of the check or of the repair is counted within its bound. *)
LEMMA FailsType ==
    ASSUME TypeOK, Fails
    PROVE  counts' \in [upgrades : 0..MaxUpgrades, crashes : 0..MaxFaults,
                        failures : 0..MaxFaults, requests : 0..MaxRequests]
  BY StartupAssumption DEF TypeOK, Fails, FaultsLeft

LEMMA UpgradeInv == \A changed \in Versions : StartInv /\ Upgrade(changed) => StartInv'
<1> SUFFICES ASSUME StartInv, NEW changed \in Versions, Upgrade(changed) PROVE StartInv'
  OBVIOUS
<1>1. TypeOK /\ Distinct /\ TablesInOrder
  BY DEF StartInv
<1>2. /\ stage = "down" /\ UNCHANGED <<stage, registry, todo, lost, clean>>
      /\ tables' = [t \in Tables |-> IF t \in changed /\ tables[t] = "current"
                                     THEN "outdated" ELSE tables[t]]
  BY DEF Upgrade
<1>3. counts' \in [upgrades : 0..MaxUpgrades, crashes : 0..MaxFaults,
                   failures : 0..MaxFaults, requests : 0..MaxRequests]
  BY <1>1, StartupAssumption DEF Upgrade, TypeOK
<1>4. RegistryTypeOK' /\ Distinct'
  BY <1>1, <1>2, SameRegistry DEF TypeOK
<1>5. tables' \in [Tables -> {"current", "outdated", "missing"}]
  BY <1>1, <1>2 DEF TypeOK
<1>6. TypeOK'
  BY <1>1, <1>2, <1>3, <1>4, <1>5 DEF TypeOK
<1>7. TablesInOrder' /\ TargetsInOrder'
  BY <1>1, <1>2 DEF TablesInOrder, TargetsInOrder
<1> QED
  BY <1>4, <1>6, <1>7 DEF StartInv

LEMMA ChangeKeyInv == StartInv /\ ChangeKey => StartInv'
<1> SUFFICES ASSUME StartInv, ChangeKey PROVE StartInv'
  OBVIOUS
<1>1. TypeOK /\ Distinct /\ TablesInOrder
  BY DEF StartInv
<1>2. /\ stage = "down" /\ mail' = "unreadable"
      /\ UNCHANGED <<stage, profile, targets, policies, options, routes, bare,
                     schedules, tables, todo, lost, clean>>
  BY DEF ChangeKey
<1>3. counts' \in [upgrades : 0..MaxUpgrades, crashes : 0..MaxFaults,
                   failures : 0..MaxFaults, requests : 0..MaxRequests]
  BY <1>1, StartupAssumption DEF ChangeKey, TypeOK
<1>4. TypeOK'
  BY <1>1, <1>2, <1>3 DEF TypeOK, RegistryTypeOK
<1>5. Distinct'
  BY <1>1, <1>2 DEF Distinct, Unique
<1>6. TablesInOrder' /\ TargetsInOrder'
  BY <1>1, <1>2 DEF TablesInOrder, TargetsInOrder
<1> QED
  BY <1>4, <1>5, <1>6 DEF StartInv

(* A step that changes the stage, and nothing of the database.             *)
LEMMA StageInv == StartInv /\ (Stop \/ Die \/ Begin \/ RepairDone \/ BootstrapFails) => StartInv'
<1> SUFFICES ASSUME StartInv, Stop \/ Die \/ Begin \/ RepairDone \/ BootstrapFails
             PROVE  StartInv'
  OBVIOUS
<1>1. TypeOK /\ Distinct /\ TablesInOrder
  BY DEF StartInv
<1>2. UNCHANGED <<registry, tables>>
  BY DEF Stop, Die, Begin, RepairDone, BootstrapFails
<1>3. counts' \in [upgrades : 0..MaxUpgrades, crashes : 0..MaxFaults,
                   failures : 0..MaxFaults, requests : 0..MaxRequests]
  <2>1. CASE Die
    BY <1>1, <2>1, StartupAssumption DEF Die, FaultsLeft, TypeOK
  <2>2. CASE ~Die
    BY <1>1, <2>2 DEF Stop, Begin, RepairDone, BootstrapFails, TypeOK
  <2> QED
    BY <2>1, <2>2
<1>4. RegistryTypeOK' /\ Distinct'
  BY <1>1, <1>2, SameRegistry DEF TypeOK
<1>5. /\ todo' = {}
      /\ lost' \in BOOLEAN
      /\ \/ stage' \in {"down", "create"} /\ clean' \in BOOLEAN
         \/ stage' = "defaults" /\ stage = "repair" /\ todo = {} /\ clean' = clean
         \/ stage' = "patch" /\ clean' = FALSE
  BY <1>1 DEF Stop, Die, Begin, RepairDone, BootstrapFails, TablesInOrder, TypeOK
<1>6. TypeOK'
  BY <1>1, <1>2, <1>3, <1>4, <1>5 DEF TypeOK, Starts
<1>7. TablesInOrder' /\ TargetsInOrder'
  BY <1>1, <1>2, <1>5 DEF TablesInOrder, TargetsInOrder, Usable
<1> QED
  BY <1>4, <1>6, <1>7 DEF StartInv

LEMMA CreateTablesInv == StartInv /\ CreateTables => StartInv'
<1> SUFFICES ASSUME StartInv, CreateTables PROVE StartInv'
  OBVIOUS
<1>1. TypeOK /\ Distinct /\ TablesInOrder
  BY DEF StartInv
<1>2. /\ stage = "create" /\ stage' = "check" /\ UNCHANGED <<registry, todo, lost, clean, counts>>
      /\ tables' = [t \in Tables |-> IF tables[t] = "missing" THEN "current" ELSE tables[t]]
  BY DEF CreateTables
<1>3. RegistryTypeOK' /\ Distinct'
  BY <1>1, <1>2, SameRegistry DEF TypeOK
<1>4. /\ tables' \in [Tables -> {"current", "outdated", "missing"}]
      /\ \A t \in Tables : tables'[t] # "missing"
  BY <1>1, <1>2 DEF TypeOK
<1>5. TypeOK'
  BY <1>1, <1>2, <1>3, <1>4 DEF TypeOK, Starts
<1>6. TablesInOrder' /\ TargetsInOrder'
  BY <1>1, <1>2, <1>4 DEF TablesInOrder, TargetsInOrder
<1> QED
  BY <1>3, <1>5, <1>6 DEF StartInv

LEMMA CheckTablesInv == StartInv /\ CheckTables => StartInv'
<1> SUFFICES ASSUME StartInv, CheckTables PROVE StartInv'
  OBVIOUS
<1>1. TypeOK /\ Distinct /\ TablesInOrder
  BY DEF StartInv
<1>2. /\ stage = "check" /\ stage' = "repair" /\ UNCHANGED <<registry, tables, clean>>
      /\ todo' = {t \in Tables : tables[t] = "outdated"}
                    \cup (IF lost' THEN {"schedules", "routes", "mail"} ELSE {})
  BY DEF CheckTables
<1>3. RegistryTypeOK' /\ Distinct'
  BY <1>1, <1>2, SameRegistry DEF TypeOK
<1>4. /\ todo' \subseteq Tables
      /\ \A t \in Tables : tables[t] = "current" \/ t \in todo'
      /\ \A t \in todo' : tables[t] = "current" => lost' /\ t \in Cost
  BY <1>1, <1>2 DEF Cost, Tables, TypeOK, TablesInOrder
<1>5. /\ lost' \in BOOLEAN
      /\ counts' \in [upgrades : 0..MaxUpgrades, crashes : 0..MaxFaults,
                       failures : 0..MaxFaults, requests : 0..MaxRequests]
  BY <1>1, FailsType DEF CheckTables, Unreadable, Usable, TypeOK
<1>6. TypeOK'
  BY <1>1, <1>2, <1>3, <1>4, <1>5 DEF TypeOK, Starts
<1>7. TablesInOrder' /\ TargetsInOrder'
  BY <1>1, <1>2, <1>4 DEF TablesInOrder, TargetsInOrder
<1> QED
  BY <1>3, <1>6, <1>7 DEF StartInv

(* The table whose turn it is is on the list; that of the mail table comes *)
(* after those of the schedules and of the routes when secrets are lost.   *)
LEMMA TurnOnList ==
    ASSUME NEW t \in Tables, Turn(t)
    PROVE  t \in todo
  BY DEF Turn

LEMMA MailLast ==
    ASSUME lost, Turn("mail")
    PROVE  todo \cap {"schedules", "routes"} = {}
<1> DEFINE order == <<"schedules", "routes", "mail", "policies", "targets", "options">>
<1>1. RepairOrder = order
  BY DEF RepairOrder
<1>2. PICK i \in 1..6 : /\ order[i] = "mail"
                        /\ \A k \in 1..i - 1 : order[k] \notin todo
  BY <1>1 DEF Turn
<1>3. order[1] = "schedules" /\ order[2] = "routes"
  OBVIOUS
<1>4. i = 3
  BY <1>2
<1>5. 1 \in 1..i - 1 /\ 2 \in 1..i - 1
  BY <1>4
<1> HIDE DEF order
<1> QED
  BY <1>2, <1>3, <1>5

LEMMA DropTableInv == \A t \in Tables : StartInv /\ DropTable(t) => StartInv'
<1> SUFFICES ASSUME StartInv, NEW t \in Tables, DropTable(t) PROVE StartInv'
  OBVIOUS
<1>1. TypeOK /\ Distinct /\ TablesInOrder
  BY DEF StartInv
<1>2. /\ stage = "repair" /\ Turn(t) /\ tables[t] # "missing"
      /\ tables' = [tables EXCEPT ![t] = "missing"]
      /\ UNCHANGED <<stage, profile, todo, lost, clean, counts>>
  BY DEF DropTable
<1>3. /\ mail' \in {"none", "readable", "unreadable"} /\ schedules' \in BOOLEAN
      /\ bare' \in BOOLEAN
      /\ routes' = routes \/ routes' = NoRows
      /\ policies' = policies \/ policies' = {}
      /\ targets' = targets \/ targets' = NoRows
      /\ options' = options \/ options' = NoRows
      /\ t # "mail" => mail' = mail
  BY <1>1 DEF DropTable, TypeOK, RegistryTypeOK
<1>4. RegistryTypeOK'
  BY <1>1, <1>2, <1>3, NoRowsTyped DEF TypeOK, RegistryTypeOK
<1>5. tables' \in [Tables -> {"current", "outdated", "missing"}]
  BY <1>1, <1>2 DEF TypeOK
<1>6. TypeOK'
  BY <1>1, <1>2, <1>4, <1>5 DEF TypeOK
<1>7. Distinct'
  BY <1>1, <1>3, NoRowsTyped DEF Distinct, Unique
<1>8. \A u \in Tables : u # t => tables'[u] = tables[u]
  BY <1>1, <1>2 DEF TypeOK
<1>9. ASSUME NEW u \in todo', tables'[u] = "current"
      PROVE  lost' /\ u \in Cost
  <2>1. u \in Tables /\ u \in todo /\ tables'[t] = "missing"
    BY <1>1, <1>2 DEF TypeOK
  <2>2. u # t /\ tables[u] = "current"
    BY <1>8, <1>9, <2>1
  <2> QED
    BY <1>1, <1>2, <2>1, <2>2 DEF TablesInOrder
<1>10. \A u \in Tables : clean => tables'[u] = "current" \/ u \in todo
  BY <1>1, <1>2, <1>8, TurnOnList DEF TablesInOrder
<1>11. TablesInOrder' /\ TargetsInOrder'
  BY <1>2, <1>9, <1>10 DEF TablesInOrder, TargetsInOrder
<1> QED
  BY <1>6, <1>7, <1>11 DEF StartInv

(* A table that could not be dropped, or created, is off the list.         *)
LEMMA DropFailsInv ==
    \A t \in Tables : StartInv /\ (DropFails(t) \/ CreateFails(t)) => StartInv'
<1> SUFFICES ASSUME StartInv, NEW t \in Tables, DropFails(t) \/ CreateFails(t) PROVE StartInv'
  OBVIOUS
<1>1. TypeOK /\ Distinct /\ TablesInOrder
  BY DEF StartInv
<1>2. /\ stage = "repair" /\ Fails /\ todo' = todo \ {t} /\ clean' = FALSE
      /\ UNCHANGED <<stage, profile, targets, policies, options, routes, mail, schedules,
                     tables, lost>>
      /\ bare' \in BOOLEAN
  BY <1>1 DEF DropFails, CreateFails, registry, provider, TypeOK, RegistryTypeOK
<1>3. RegistryTypeOK' /\ Distinct'
  BY <1>1, <1>2 DEF TypeOK, RegistryTypeOK, Distinct, Unique
<1>4. counts' \in [upgrades : 0..MaxUpgrades, crashes : 0..MaxFaults,
                   failures : 0..MaxFaults, requests : 0..MaxRequests]
  BY <1>1, <1>2, FailsType
<1>5. TypeOK'
  BY <1>1, <1>2, <1>3, <1>4 DEF TypeOK
<1>6. TablesInOrder' /\ TargetsInOrder'
  BY <1>1, <1>2 DEF TablesInOrder, TargetsInOrder
<1> QED
  BY <1>3, <1>5, <1>6 DEF StartInv

LEMMA CreateTableInv == \A t \in Tables : StartInv /\ CreateTable(t) => StartInv'
<1> SUFFICES ASSUME StartInv, NEW t \in Tables, CreateTable(t) PROVE StartInv'
  OBVIOUS
<1>1. TypeOK /\ Distinct /\ TablesInOrder
  BY DEF StartInv
<1>2. /\ stage = "repair" /\ tables[t] = "missing" /\ todo' = todo \ {t}
      /\ tables' = [tables EXCEPT ![t] = "current"]
      /\ UNCHANGED <<stage, registry, lost, clean, counts>>
  BY DEF CreateTable
<1>3. RegistryTypeOK' /\ Distinct'
  BY <1>1, <1>2, SameRegistry DEF TypeOK
<1>4. /\ tables' \in [Tables -> {"current", "outdated", "missing"}]
      /\ tables'[t] = "current" /\ \A u \in Tables : u # t => tables'[u] = tables[u]
  BY <1>1, <1>2 DEF TypeOK
<1>5. TypeOK'
  BY <1>1, <1>2, <1>3, <1>4 DEF TypeOK
<1>6. ASSUME NEW u \in todo', tables'[u] = "current"
      PROVE  lost' /\ u \in Cost
  <2>1. u \in todo /\ u \in Tables /\ u # t /\ tables[u] = "current"
    BY <1>1, <1>2, <1>4, <1>6 DEF TypeOK
  <2> QED
    BY <1>1, <1>2, <2>1 DEF TablesInOrder
<1>7. \A u \in Tables : clean => tables'[u] = "current" \/ u \in todo'
  BY <1>1, <1>2, <1>4 DEF TablesInOrder
<1>8. TablesInOrder' /\ TargetsInOrder'
  BY <1>2, <1>6, <1>7 DEF TablesInOrder, TargetsInOrder
<1> QED
  BY <1>3, <1>5, <1>8 DEF StartInv

LEMMA DefaultsInv == StartInv /\ Defaults => StartInv'
<1> SUFFICES ASSUME StartInv, Defaults PROVE StartInv'
  OBVIOUS
<1> DEFINE O == DOMAIN options \cup {Global}
           R == DOMAIN routes \cup ({Global} \X Events)
<1>1. TypeOK /\ RegistryTypeOK /\ Distinct /\ TablesInOrder
  BY DEF StartInv, TypeOK
<1>2. /\ stage = "defaults" /\ stage' = "bootstrap"
      /\ \/ options' = options
         \/ options' = [s \in O |-> IF s = Global THEN {} ELSE options[s]]
      /\ \/ routes' = routes
         \/ routes' = [r \in R |-> IF r \in DOMAIN routes THEN routes[r] ELSE "off"]
      /\ UNCHANGED <<profile, targets, policies, mail, bare, schedules, tables, todo,
                     lost, clean, counts>>
  BY DEF Defaults, provider
<1>3. O \subseteq Scopes /\ R \in SUBSET (Scopes \X Events) /\ "off" \in RouteState
  BY <1>1 DEF RegistryTypeOK, Scopes, RouteState
<1>4. DOMAIN options' \subseteq Scopes /\ options' \in [DOMAIN options' -> SUBSET Settings]
  BY <1>1, <1>2, <1>3 DEF RegistryTypeOK
<1> HIDE DEF R
<1>5. DOMAIN routes' \subseteq Scopes \X Events /\ routes' \in [DOMAIN routes' -> RouteState]
  BY <1>1, <1>2, <1>3, AddedRoutes DEF RegistryTypeOK
<1>6. TypeOK'
  BY <1>1, <1>2, <1>4, <1>5 DEF TypeOK, RegistryTypeOK, Starts
<1>7. Distinct'
  BY <1>1, <1>2 DEF Distinct, Unique
<1>8. TablesInOrder' /\ TargetsInOrder'
  BY <1>1, <1>2 DEF TablesInOrder, TargetsInOrder, Usable
<1> QED
  BY <1>6, <1>7, <1>8 DEF StartInv

(* Some set of ids has a least one.                                        *)
LEMMA OldestExists ==
    ASSUME NEW T \in SUBSET Ids, T # {}
    PROVE  Oldest(T) \in T
<1> DEFINE S == {MaxId + 1 - t : t \in T}
<1>1. \A t \in T : t \in Nat /\ 1 <= t /\ t <= MaxId
  BY RegistryAssumption DEF Ids
<1>2. S \in SUBSET (1..MaxId)
  <2>1. \A t \in T : MaxId + 1 - t \in 1..MaxId
    BY <1>1, RegistryAssumption
  <2> QED
    BY <2>1
<1>3. S # {}
  <2>1. PICK t \in T : TRUE
    OBVIOUS
  <2>2. MaxId + 1 - t \in S
    OBVIOUS
  <2> QED
    BY <2>2
<1> HIDE DEF S
<1>4. PICK top \in S : \A x \in S : x <= top
  BY <1>2, <1>3, RegistryAssumption, GreatestExists
<1>5. PICK least \in T : top = MaxId + 1 - least
  BY <1>4 DEF S
<1>6. ASSUME NEW o \in T PROVE least <= o
  <2>1. MaxId + 1 - o \in S
    BY DEF S
  <2>2. MaxId + 1 - o <= MaxId + 1 - least
    BY <1>4, <1>5, <2>1
  <2> QED
    BY <1>1, <2>2, RegistryAssumption
<1> QED
  BY <1>6 DEF Oldest

(* However the targets were marked before, there is one primary then.      *)
LEMMA KeepTargetsKeeps ==
    ASSUME RegistryTypeOK, Distinct, KeepTargets
    PROVE  /\ DOMAIN targets' = DOMAIN targets
           /\ targets' \in [DOMAIN targets -> Target]
           /\ Distinct' /\ OnePrimary'
           /\ policies' = policies \cup DOMAIN targets
<1> DEFINE T == DOMAIN targets
           p == IF Primaries = {} THEN Oldest(T) ELSE Oldest(Primaries)
<1>1. /\ T # {} /\ targets' = WithPrimary(targets, p)
      /\ policies' = policies \cup T
  BY DEF KeepTargets
<1>2. targets \in [T -> Target] /\ T \in SUBSET Ids
  BY DEF RegistryTypeOK
<1>3. p \in T
  <2>1. Primaries \in SUBSET Ids /\ Primaries \subseteq T
    BY <1>2 DEF Primaries
  <2>2. CASE Primaries = {}
    BY <1>1, <1>2, <2>2, OldestExists
  <2>3. CASE Primaries # {}
    BY <2>1, <2>3, OldestExists
  <2> QED
    BY <2>2, <2>3
<1> HIDE DEF p
<1>4. /\ targets' \in [T -> Target] /\ DOMAIN targets' = T
      /\ \A o \in T : /\ targets'[o].name = targets[o].name
                      /\ targets'[o].identity = targets[o].identity
                      /\ targets'[o].primary = (o = p)
  BY <1>1, <1>2, WithPrimaryRows
<1>5. Distinct'
  <2>1. \A s, o \in DOMAIN targets' :
            s # o => /\ targets'[s].name # targets'[o].name
                     /\ targets'[s].identity # targets'[o].identity
    BY <1>4, DistinctRows
  <2> QED
    BY <2>1 DEF Distinct, Unique
<1>6. Primaries' = {p}
  BY <1>3, <1>4 DEF Primaries
<1> QED
  BY <1>1, <1>3, <1>4, <1>5, <1>6 DEF OnePrimary

LEMMA MakeTargetKeeps ==
    ASSUME MakeTarget
    PROVE  /\ DOMAIN targets' = {NextId} /\ targets' \in [{NextId} -> Target]
           /\ Distinct' /\ OnePrimary'
           /\ DOMAIN targets = {} /\ policies' = policies \cup {NextId}
<1> DEFINE id == NextId
<1>1. PICK name \in Names, identity \in Identities :
          targets' = [t \in {id} |-> [name |-> name, identity |-> identity, primary |-> TRUE]]
  BY DEF MakeTarget
<1>2. DOMAIN targets = {} /\ policies' = policies \cup {id}
  BY DEF MakeTarget
<1> HIDE DEF id
<1>3. /\ DOMAIN targets' = {id} /\ targets' \in [{id} -> Target]
      /\ targets'[id].primary
  BY <1>1 DEF Target
<1>4. Distinct'
  BY <1>3 DEF Distinct, Unique
<1>5. OnePrimary'
  BY <1>3 DEF OnePrimary, Primaries
<1> QED
  BY <1>2, <1>3, <1>4, <1>5 DEF id

LEMMA BootstrapInv == StartInv /\ Bootstrap => StartInv'
<1> SUFFICES ASSUME StartInv, Bootstrap PROVE StartInv'
  OBVIOUS
<1>1. TypeOK /\ RegistryTypeOK /\ Distinct /\ TablesInOrder
  BY DEF StartInv, TypeOK
<1>2. /\ stage = "bootstrap" /\ stage' = "scopes" /\ (KeepTargets \/ MakeTarget)
      /\ UNCHANGED <<profile, options, routes, mail, bare, schedules, tables, todo,
                     lost, clean, counts>>
  BY DEF Bootstrap, provider
<1>3. /\ DOMAIN targets' \subseteq Ids /\ targets' \in [DOMAIN targets' -> Target]
      /\ Distinct' /\ OnePrimary' /\ policies' \subseteq Ids
      /\ DOMAIN targets' \subseteq policies'
  <2>1. CASE KeepTargets
    BY <1>1, <2>1, KeepTargetsKeeps DEF RegistryTypeOK
  <2>2. CASE MakeTarget
    BY <1>1, <2>2, MakeTargetKeeps, NextIdTyped DEF RegistryTypeOK
  <2> QED
    BY <1>2, <2>1, <2>2
<1>4. TypeOK'
  BY <1>1, <1>2, <1>3 DEF TypeOK, RegistryTypeOK, Starts
<1>5. TablesInOrder' /\ TargetsInOrder'
  BY <1>1, <1>2, <1>3 DEF TablesInOrder, TargetsInOrder, Usable
<1> QED
  BY <1>3, <1>4, <1>5 DEF StartInv

LEMMA SynchronizedTyped ==
    ASSUME RegistryTypeOK
    PROVE  /\ DOMAIN SynchronizedOptions = DOMAIN targets
           /\ SynchronizedOptions \in [DOMAIN targets -> SUBSET Settings]
           /\ DOMAIN SynchronizedRoutes \subseteq Scopes \X Events
           /\ SynchronizedRoutes \in [DOMAIN SynchronizedRoutes -> RouteState]
           /\ \A r \in DOMAIN SynchronizedRoutes :
                 SynchronizedRoutes[r] = IF r \in DOMAIN routes THEN routes[r] ELSE "off"
<1>1. SynchronizedOptions \in [DOMAIN targets -> SUBSET Settings]
  <2> DEFINE Of(t) == IF t \in DOMAIN options THEN options[t]
                      ELSE IF Global \in DOMAIN options THEN options[Global] \cap {"variables"}
                      ELSE {}
  <2>1. \A t \in DOMAIN targets : Of(t) \in SUBSET Settings
    BY DEF RegistryTypeOK
  <2>2. SynchronizedOptions = [t \in DOMAIN targets |-> Of(t)]
    BY DEF SynchronizedOptions
  <2> HIDE DEF Of
  <2> QED
    BY <2>1, <2>2
<1> DEFINE R == IF profile = "multi" THEN (DOMAIN targets) \X Events
                ELSE DOMAIN routes \cup ({Global} \X Events)
<1>2. /\ SynchronizedRoutes = [r \in R |-> IF r \in DOMAIN routes THEN routes[r] ELSE "off"]
      /\ R \in SUBSET (Scopes \X Events) /\ "off" \in RouteState
  BY DEF SynchronizedRoutes, RegistryTypeOK, Scopes, RouteState
<1> HIDE DEF R
<1>3. DOMAIN SynchronizedRoutes = R /\ SynchronizedRoutes \in [R -> RouteState]
  BY <1>2, AddedRoutes
<1> QED
  BY <1>1, <1>2, <1>3

LEMMA SynchronizeInv == StartInv /\ Synchronize => StartInv'
<1> SUFFICES ASSUME StartInv, Synchronize PROVE StartInv'
  OBVIOUS
<1>1. TypeOK /\ RegistryTypeOK /\ Distinct /\ TablesInOrder /\ TargetsInOrder
  BY DEF StartInv, TypeOK
<1>2. /\ stage = "scopes" /\ stage' = "patch"
      /\ UNCHANGED <<profile, targets, policies, mail, bare, schedules, tables, todo, lost, counts>>
      /\ \/ options' = options /\ routes' = routes
         \/ options' = SynchronizedOptions /\ routes' = SynchronizedRoutes
      /\ clean' = clean \/ clean' = FALSE
  BY DEF Synchronize, provider
<1>3. /\ DOMAIN options' \subseteq Scopes /\ options' \in [DOMAIN options' -> SUBSET Settings]
      /\ DOMAIN routes' \subseteq Scopes \X Events /\ routes' \in [DOMAIN routes' -> RouteState]
  BY <1>1, <1>2, SynchronizedTyped DEF RegistryTypeOK, Scopes
<1>4. TypeOK'
  BY <1>1, <1>2, <1>3 DEF TypeOK, RegistryTypeOK, Starts
<1>5. Distinct' /\ (OnePrimary => OnePrimary')
  BY <1>1, <1>2 DEF Distinct, Unique, OnePrimary, Primaries
<1>6. TablesInOrder' /\ TargetsInOrder'
  BY <1>1, <1>2, <1>5 DEF TablesInOrder, TargetsInOrder, Usable
<1> QED
  BY <1>4, <1>5, <1>6 DEF StartInv

LEMMA PatchInv == StartInv /\ Patch => StartInv'
<1> SUFFICES ASSUME StartInv, Patch PROVE StartInv'
  OBVIOUS
<1>1. TypeOK /\ Distinct /\ TablesInOrder /\ TargetsInOrder
  BY DEF StartInv
<1>2. /\ stage = "patch" /\ stage' = "up" /\ UNCHANGED <<registry, todo, lost, clean, counts>>
      /\ tables' = [t \in Tables |->
                       IF t \in {"routes", "schedules"} /\ tables[t] = "outdated"
                       THEN "current" ELSE tables[t]]
  BY DEF Patch
<1>3. RegistryTypeOK' /\ Distinct' /\ (OnePrimary => OnePrimary')
  BY <1>1, <1>2, SameRegistry DEF TypeOK
<1>4. /\ tables' \in [Tables -> {"current", "outdated", "missing"}]
      /\ Usable(Tables) => Usable(Tables)'
  BY <1>1, <1>2 DEF TypeOK, Usable
<1>5. TypeOK'
  BY <1>1, <1>2, <1>3, <1>4 DEF TypeOK
<1>6. TablesInOrder'
  BY <1>1, <1>2, <1>4 DEF TablesInOrder
<1>7. TargetsInOrder'
  BY <1>1, <1>2, <1>3 DEF TargetsInOrder, registry
<1> QED
  BY <1>3, <1>5, <1>6, <1>7 DEF StartInv

LEMMA ServeInv == StartInv /\ Serve => StartInv'
<1> SUFFICES ASSUME StartInv, Serve PROVE StartInv'
  OBVIOUS
<1>1. TypeOK /\ RegistryTypeOK /\ Distinct /\ TablesInOrder /\ TargetsInOrder
  BY DEF StartInv, TypeOK
<1>2. Request /\ UNCHANGED <<tables, todo, lost, clean>>
  BY DEF Serve
<1>3. RegistryKept /\ stage = "up" /\ stage' = "up"
  BY <1>1, <1>2, RequestKeeps
<1>4. counts' \in [upgrades : 0..MaxUpgrades, crashes : 0..MaxFaults,
                   failures : 0..MaxFaults, requests : 0..MaxRequests]
  BY <1>1, StartupAssumption DEF Serve, TypeOK
<1>5. TypeOK'
  BY <1>1, <1>2, <1>3, <1>4 DEF TypeOK, RegistryKept
<1>6. TablesInOrder'
  BY <1>1, <1>2, <1>3 DEF TablesInOrder, Usable
<1>7. TargetsInOrder'
  BY <1>1, <1>2, <1>3 DEF TargetsInOrder, RegistryKept
<1> QED
  BY <1>3, <1>5, <1>6, <1>7 DEF StartInv, RegistryKept

LEMMA StartInvStep == StartInv /\ [Next]_vars => StartInv'
<1> SUFFICES ASSUME StartInv, [Next]_vars PROVE StartInv'
  OBVIOUS
<1>1. CASE \E changed \in Versions : Upgrade(changed)
  BY <1>1, UpgradeInv
<1>2. CASE ChangeKey
  BY <1>2, ChangeKeyInv
<1>3. CASE Stop \/ Die
  BY <1>3, StageInv
<1>4. CASE Start
  BY <1>4, StageInv, CreateTablesInv, CheckTablesInv, DropTableInv, DropFailsInv, CreateTableInv,
     DefaultsInv, BootstrapInv, SynchronizeInv, PatchInv DEF Start
<1>5. CASE Serve
  BY <1>5, ServeInv
<1>6. CASE UNCHANGED vars
  <2>1. TypeOK /\ Distinct /\ TargetsInOrder /\ TablesInOrder
    BY DEF StartInv
  <2>2. UNCHANGED <<stage, registry, tables, todo, lost, clean, counts>>
    BY <1>6 DEF vars
  <2>3. RegistryTypeOK' /\ Distinct' /\ (OnePrimary => OnePrimary')
    BY <2>1, <2>2, SameRegistry DEF TypeOK
  <2>4. TypeOK'
    BY <2>1, <2>2, <2>3 DEF TypeOK
  <2>5. TargetsInOrder'
    BY <2>1, <2>2, <2>3 DEF TargetsInOrder, registry
  <2>6. TablesInOrder'
    BY <2>1, <2>2 DEF TablesInOrder, Usable
  <2> QED
    BY <2>3, <2>4, <2>5, <2>6 DEF StartInv
<1> QED
  BY <1>1, <1>2, <1>3, <1>4, <1>5, <1>6 DEF Next

LEMMA StartInvHolds == Spec => []StartInv
<1> QED
  BY StartInvInit, StartInvStep, PTL DEF Spec

-----------------------------------------------------------------------------
(* What goes through the mail provider.                                    *)

LEMMA MailInvInit == Init => MailInv
<1> SUFFICES ASSUME Init PROVE MailInv
  OBVIOUS
<1>1. /\ tables = [t \in Tables |-> "current"] /\ schedules = FALSE /\ stage = "down"
      /\ routes = [r \in {Global} \X Events |-> "off"]
  BY DEF Init
<1>2. \A t \in {"schedules", "routes"} : tables[t] = "current"
  BY <1>1 DEF Tables
<1>3. NoMailRoute
  BY <1>1 DEF NoMailRoute
<1> QED
  BY <1>1, <1>2, <1>3 DEF MailInv, NoDanglingMail, NoMailRoute

(* A step outside the repair that leaves the rows alone.                   *)
LEMMA MailSame ==
    ASSUME MailInv, stage' # "repair",
           UNCHANGED <<mail, bare, routes, schedules>>,
           \A t \in {"schedules", "routes"} : tables'[t] = "missing" => tables[t] = "missing"
    PROVE  MailInv'
  BY DEF MailInv, NoDanglingMail, NoMailRoute

LEMMA DropTableMail ==
    ASSUME StartInv, MailInv, NEW t \in Tables, DropTable(t)
    PROVE  MailInv'
<1>1. TypeOK /\ TablesInOrder
  BY DEF StartInv
<1>2. /\ stage = "repair" /\ Turn(t) /\ t \in todo
      /\ tables' = [tables EXCEPT ![t] = "missing"]
      /\ mail' = IF t = "mail" THEN "none" ELSE mail
      /\ routes' = IF t = "routes" THEN NoRows ELSE routes
      /\ bare' = (bare \/ (t = "mail" /\ mail # "none" /\ ~lost))
      /\ UNCHANGED <<stage, todo, lost>>
  BY TurnOnList DEF DropTable
<1>3. /\ schedules' => schedules
      /\ t = "schedules" => ~schedules'
      /\ t # "schedules" => schedules' = schedules
  BY <1>1 DEF DropTable, TypeOK, RegistryTypeOK
<1>4. /\ tables'[t] = "missing" /\ \A u \in Tables : u # t => tables'[u] = tables[u]
      /\ {"mail", "schedules", "routes"} \subseteq Tables
  BY <1>1, <1>2 DEF TypeOK, Tables
<1>5. (NoMailRoute => NoMailRoute') /\ (t = "routes" => NoMailRoute')
  BY <1>2, NoRowsTyped DEF NoMailRoute
<1>6. /\ tables'["schedules"] = "missing" => ~schedules'
      /\ tables'["routes"] = "missing" => NoMailRoute'
  BY <1>3, <1>4, <1>5 DEF MailInv
<1>7. ~bare' => ~bare
  BY <1>2
<1>8. stage' = "repair" /\ lost' /\ "mail" \in todo' /\ ~bare' =>
          /\ "schedules" \notin todo' => ~schedules'
          /\ "routes" \notin todo' => NoMailRoute'
  BY <1>2, <1>3, <1>5, <1>7 DEF MailInv
<1>9. mail = "none" /\ ~bare => ~schedules /\ NoMailRoute
  BY DEF MailInv, NoDanglingMail, NoMailRoute
<1>10. ASSUME mail' = "none", ~bare' PROVE ~schedules' /\ NoMailRoute'
  <2>1. CASE mail = "none"
    BY <1>3, <1>5, <1>7, <1>9, <1>10, <2>1
  <2>2. CASE mail # "none"
    <3>1. t = "mail" /\ lost
      BY <1>2, <1>10, <2>2
    <3>2. "schedules" \notin todo /\ "routes" \notin todo
      BY <1>2, <3>1, MailLast
    <3>3. ~schedules /\ NoMailRoute
      BY <1>2, <1>7, <1>10, <3>1, <3>2 DEF MailInv
    <3> QED
      BY <1>3, <1>5, <3>3
  <2> QED
    BY <2>1, <2>2
<1>11. NoDanglingMail'
  BY <1>10 DEF NoDanglingMail, NoMailRoute
<1> QED
  BY <1>6, <1>8, <1>11 DEF MailInv

LEMMA CreateTableMail ==
    ASSUME StartInv, MailInv, NEW t \in Tables, CreateTable(t) \/ CreateFails(t)
    PROVE  MailInv'
<1>1. TypeOK
  BY DEF StartInv
<1>2. /\ stage = "repair" /\ tables[t] = "missing" /\ todo' = todo \ {t}
      /\ tables' \in {tables, [tables EXCEPT ![t] = "current"]}
      /\ UNCHANGED <<stage, mail, bare, routes, schedules, lost>>
  BY DEF CreateTable, CreateFails, registry, provider
<1>3. /\ \A u \in Tables : tables'[u] = "missing" => tables[u] = "missing"
      /\ {"schedules", "routes"} \subseteq Tables
  BY <1>1, <1>2 DEF TypeOK, Tables
<1>4. NoMailRoute' = NoMailRoute /\ NoDanglingMail' = NoDanglingMail
  BY <1>2 DEF NoMailRoute, NoDanglingMail
<1>5. /\ t = "schedules" => ~schedules
      /\ t = "routes" => NoMailRoute
  BY <1>2 DEF MailInv
<1>6. lost /\ "mail" \in todo' /\ ~bare =>
          /\ "schedules" \notin todo' => ~schedules
          /\ "routes" \notin todo' => NoMailRoute
  BY <1>2, <1>5 DEF MailInv
<1> QED
  BY <1>2, <1>3, <1>4, <1>6 DEF MailInv

(* The defaults and the scopes add routes that are off, to a table that    *)
(* matches its model.                                                      *)
LEMMA RoutesMail ==
    ASSUME StartInv, MailInv, Defaults \/ Synchronize
    PROVE  MailInv'
<1>1. RegistryTypeOK
  BY DEF StartInv, TypeOK
<1>2. /\ UNCHANGED <<mail, bare, schedules, tables>> /\ stage' # "repair"
      /\ \/ routes' = routes
         \/ /\ tables["routes"] = "current"
            /\ routes' = [r \in DOMAIN routes \cup ({Global} \X Events) |->
                             IF r \in DOMAIN routes THEN routes[r] ELSE "off"]
         \/ tables["routes"] = "current" /\ routes' = SynchronizedRoutes
  BY DEF Defaults, Synchronize, Usable, provider
<1>3. NoMailRoute => NoMailRoute'
  <2>1. CASE routes' = routes
    BY <2>1 DEF NoMailRoute
  <2>2. CASE routes' = [r \in DOMAIN routes \cup ({Global} \X Events) |->
                            IF r \in DOMAIN routes THEN routes[r] ELSE "off"]
    BY <2>2 DEF NoMailRoute
  <2>3. CASE routes' = SynchronizedRoutes
    <3> DEFINE new == SynchronizedRoutes
    <3>1. \A r \in DOMAIN new : new[r] = IF r \in DOMAIN routes THEN routes[r] ELSE "off"
      BY <1>1, SynchronizedTyped
    <3> HIDE DEF new
    <3>2. routes' = new
      BY <2>3 DEF new
    <3> QED
      BY <3>1, <3>2 DEF NoMailRoute
  <2> QED
    BY <1>2, <2>1, <2>2, <2>3
<1>4. tables'["routes"] = "missing" => routes' = routes
  BY <1>2
<1>5. NoDanglingMail => NoDanglingMail'
  BY <1>2, <1>3 DEF NoDanglingMail, NoMailRoute
<1> QED
  BY <1>2, <1>3, <1>4, <1>5 DEF MailInv

LEMMA MailInvStep ==
    ASSUME StartInv, MailInv, [Next]_vars
    PROVE  MailInv'
<1>1. TypeOK /\ RegistryTypeOK /\ Distinct /\ TablesInOrder
  BY DEF StartInv, TypeOK
<1>2. {"mail", "schedules", "routes"} \subseteq Tables
  BY DEF Tables
<1>3. CASE \E changed \in Versions : Upgrade(changed)
  <2>1. PICK changed \in Versions : Upgrade(changed)
    BY <1>3
  <2>2. /\ stage' = "down" /\ UNCHANGED <<mail, bare, routes, schedules>>
        /\ tables' = [t \in Tables |-> IF t \in changed /\ tables[t] = "current"
                                       THEN "outdated" ELSE tables[t]]
    BY <2>1 DEF Upgrade, registry, provider
  <2>3. \A t \in {"schedules", "routes"} : tables'[t] = "missing" => tables[t] = "missing"
    BY <1>2, <2>2
  <2> QED
    BY <2>2, <2>3, MailSame
<1>4. CASE ChangeKey
  <2>1. /\ stage' = "down" /\ mail' = "unreadable"
        /\ UNCHANGED <<bare, routes, schedules, tables>>
    BY <1>4 DEF ChangeKey
  <2> QED
    BY <2>1 DEF MailInv, NoDanglingMail, NoMailRoute
<1>5. CASE Stop \/ Die \/ Begin \/ RepairDone \/ BootstrapFails \/ Bootstrap
  <2>1. stage' # "repair" /\ UNCHANGED <<mail, bare, routes, schedules, tables>>
    BY <1>5 DEF Stop, Die, Begin, RepairDone, BootstrapFails, Bootstrap, registry, provider
  <2> QED
    BY <2>1, MailSame
<1>6. CASE CreateTables \/ Patch
  <2>1. /\ stage' # "repair" /\ UNCHANGED <<mail, bare, routes, schedules>>
        /\ \A t \in Tables : \/ tables'[t] = tables[t] 
                             \/ tables'[t] = "current"
    BY <1>6 DEF CreateTables, Patch, registry, provider
  <2> QED
    BY <1>2, <2>1, MailSame
<1>7. CASE CheckTables
  <2>1. /\ lost' => {"schedules", "routes"} \subseteq todo'
        /\ UNCHANGED <<mail, bare, routes, schedules, tables>>
    BY <1>7 DEF CheckTables, registry, provider
  <2>2. NoDanglingMail' = NoDanglingMail /\ NoMailRoute' = NoMailRoute
    BY <2>1 DEF NoDanglingMail, NoMailRoute
  <2> QED
    BY <2>1, <2>2 DEF MailInv
<1>8. CASE \E t \in Tables : DropTable(t) \/ CreateTable(t) \/ CreateFails(t)
  BY <1>8, DropTableMail, CreateTableMail
<1>9. CASE \E t \in Tables : DropFails(t)
  <2>1. PICK t \in Tables : DropFails(t)
    BY <1>9
  <2>2. /\ todo' = todo \ {t} /\ UNCHANGED <<stage, mail, routes, schedules, tables, lost>>
        /\ bare' = (bare \/ (lost /\ t \in {"schedules", "routes"}))
    BY <2>1 DEF DropFails
  <2>3. NoMailRoute' = NoMailRoute /\ (NoDanglingMail => NoDanglingMail')
    BY <2>2 DEF NoMailRoute, NoDanglingMail
  <2>4. lost' /\ "mail" \in todo' /\ ~bare' =>
            /\ lost /\ "mail" \in todo /\ ~bare
            /\ "schedules" \in todo' <=> "schedules" \in todo
            /\ "routes" \in todo' <=> "routes" \in todo
    BY <2>2
  <2> QED
    BY <2>2, <2>3, <2>4 DEF MailInv
<1>10. CASE Defaults \/ Synchronize
  BY <1>10, RoutesMail
<1>11. CASE Serve
  <2>1. Request /\ Usable(Tables) /\ UNCHANGED tables
    BY <1>11 DEF Serve
  <2>2. stage' = "up" /\ (NoDanglingMail => NoDanglingMail')
    BY <1>1, <2>1, RequestKeeps
  <2>3. \A t \in {"schedules", "routes"} : tables'[t] = "current"
    BY <1>2, <2>1 DEF Usable
  <2> QED
    BY <2>2, <2>3 DEF MailInv
<1>12. CASE UNCHANGED vars
  <2>1. UNCHANGED <<stage, mail, bare, routes, schedules, tables, todo, lost>>
    BY <1>12 DEF vars, registry, provider
  <2> QED
    BY <2>1 DEF MailInv, NoDanglingMail, NoMailRoute
<1> QED
  BY <1>3, <1>4, <1>5, <1>6, <1>7, <1>8, <1>9, <1>10, <1>11, <1>12 DEF Next, Start

-----------------------------------------------------------------------------
(* What a start keeps.                                                     *)

(* A repair drops a table that matches its model only for lost secrets.    *)
LEMMA DropCost ==
    ASSUME StartInv, NEW t \in Tables, DropTable(t), tables[t] = "current"
    PROVE  lost /\ t \in Cost
<1>1. stage = "repair" /\ t \in todo
  BY TurnOnList DEF DropTable
<1> QED
  BY <1>1 DEF StartInv, TablesInOrder

RowsStay ==
    (stage \in Starts /\ stage' # "down") =>
        /\ Usable({"targets"}) => (DOMAIN targets) \subseteq (DOMAIN targets')
        /\ Usable({"options", "targets"}) =>
              \A t \in (DOMAIN targets) \cap (DOMAIN options) :
                  t \in DOMAIN options' /\ options'[t] = options[t]
        /\ Usable({"routes", "targets"}) /\ ~lost =>
              \A r \in InForce : r \in DOMAIN routes' /\ routes'[r] = routes[r]
        /\ Usable({"schedules"}) /\ ~lost => schedules' = schedules
        /\ Usable({"mail"}) /\ ~lost => mail' = mail

LEMMA SameRowsStay ==
    ASSUME UNCHANGED <<targets, options, routes, mail, schedules>>
    PROVE  RowsStay
  BY DEF RowsStay, InForce

LEMMA DropTableStays ==
    ASSUME StartInv, NEW t \in Tables, DropTable(t)
    PROVE  RowsStay
<1>1. /\ tables[t] = "current" => lost /\ t \in Cost
      /\ t # "targets" => targets' = targets
      /\ t # "options" => options' = options
      /\ t # "routes" => routes' = routes
      /\ t # "mail" => mail' = mail
      /\ t # "schedules" => schedules' = schedules
  BY DropCost DEF DropTable, StartInv, TypeOK, RegistryTypeOK
<1>2. Usable({"targets"}) => targets' = targets
  BY <1>1 DEF Usable, Cost
<1>3. Usable({"options"}) => options' = options
  BY <1>1 DEF Usable, Cost
<1>4. Usable({"routes"}) /\ ~lost => routes' = routes
  BY <1>1 DEF Usable
<1>5. /\ Usable({"mail"}) /\ ~lost => mail' = mail
      /\ Usable({"schedules"}) /\ ~lost => schedules' = schedules
  BY <1>1 DEF Usable
<1>6. Usable({"options", "targets"}) => Usable({"options"})
  BY DEF Usable
<1>7. Usable({"routes", "targets"}) => Usable({"routes"})
  BY DEF Usable
<1> QED
  BY <1>2, <1>3, <1>4, <1>5, <1>6, <1>7 DEF RowsStay, InForce

LEMMA DefaultsStay ==
    ASSUME StartInv, Defaults
    PROVE  RowsStay
<1>1. UNCHANGED <<targets, mail, schedules>>
  BY DEF Defaults, provider
<1>2. \A t \in DOMAIN options : t \in DOMAIN options' /\ options'[t] = options[t]
  BY DEF Defaults
<1>3. \A r \in DOMAIN routes : r \in DOMAIN routes' /\ routes'[r] = routes[r]
  BY DEF Defaults
<1> QED
  BY <1>1, <1>2, <1>3 DEF RowsStay, InForce

LEMMA BootstrapStays ==
    ASSUME StartInv, Bootstrap
    PROVE  RowsStay
<1>1. UNCHANGED <<options, routes, mail, schedules>>
  BY DEF Bootstrap, provider
<1>2. DOMAIN targets \subseteq DOMAIN targets'
  BY KeepTargetsKeeps, MakeTargetKeeps DEF Bootstrap, StartInv, TypeOK
<1> QED
  BY <1>1, <1>2 DEF RowsStay, InForce

LEMMA SynchronizeStays ==
    ASSUME StartInv, Synchronize
    PROVE  RowsStay
<1>1. RegistryTypeOK
  BY DEF StartInv, TypeOK
<1>2. /\ UNCHANGED <<targets, mail, schedules>>
      /\ \/ options' = options /\ routes' = routes
         \/ options' = SynchronizedOptions /\ routes' = SynchronizedRoutes
  BY DEF Synchronize, provider
<1>3. CASE options' = options /\ routes' = routes
  BY <1>2, <1>3, SameRowsStay
<1>4. CASE options' = SynchronizedOptions /\ routes' = SynchronizedRoutes
  <2>1. ASSUME NEW t \in (DOMAIN targets) \cap (DOMAIN options)
        PROVE  t \in DOMAIN options' /\ options'[t] = options[t]
    BY <1>4 DEF SynchronizedOptions
  <2> DEFINE R == IF profile = "multi" THEN (DOMAIN targets) \X Events
                  ELSE DOMAIN routes \cup ({Global} \X Events)
  <2>2. routes' = [r \in R |-> IF r \in DOMAIN routes THEN routes[r] ELSE "off"]
    BY <1>4 DEF SynchronizedRoutes
  <2>3. ASSUME NEW r \in InForce PROVE r \in R
    <3>1. r \in DOMAIN routes /\ r \in Scopes \X Events
      BY <1>1 DEF InForce, RegistryTypeOK
    <3>2. profile = "multi" => r[1] \in DOMAIN targets
      BY DEF InForce
    <3> QED
      BY <3>1, <3>2
  <2>4. \A r \in InForce : r \in DOMAIN routes
    BY DEF InForce
  <2> HIDE DEF R
  <2>5. \A r \in InForce : r \in DOMAIN routes' /\ routes'[r] = routes[r]
    BY <2>2, <2>3, <2>4
  <2> QED
    BY <1>2, <2>1, <2>5 DEF RowsStay
<1> QED
  BY <1>2, <1>3, <1>4

LEMMA StepKeepsRows ==
    ASSUME StartInv, [Next]_vars
    PROVE  RowsStay
<1>1. CASE (\E changed \in Versions : Upgrade(changed)) \/ ChangeKey \/ Stop \/ Serve
  <2>1. stage \notin Starts
    BY <1>1, RequestKeeps DEF Upgrade, ChangeKey, Stop, Serve, Starts, StartInv, TypeOK
  <2> QED
    BY <2>1 DEF RowsStay
<1>2. CASE \/ Die \/ Begin \/ CreateTables \/ CheckTables \/ RepairDone \/ BootstrapFails
           \/ Patch \/ \E t \in Tables : DropFails(t) \/ CreateTable(t) \/ CreateFails(t)
  <2>1. UNCHANGED <<targets, options, routes, mail, schedules>>
    BY <1>2 DEF Die, Begin, CreateTables, CheckTables, RepairDone, BootstrapFails, Patch,
                DropFails, CreateTable, CreateFails, registry, provider
  <2> QED
    BY <2>1, SameRowsStay
<1>3. CASE \E t \in Tables : DropTable(t)
  BY <1>3, DropTableStays
<1>4. CASE Defaults \/ Bootstrap \/ Synchronize
  BY <1>4, DefaultsStay, BootstrapStays, SynchronizeStays
<1>5. CASE UNCHANGED vars
  BY <1>5, SameRowsStay DEF vars, registry, provider
<1> QED
  BY <1>1, <1>2, <1>3, <1>4, <1>5 DEF Next, Start

-----------------------------------------------------------------------------
(* The results.                                                            *)

(* Every variable keeps its type, whatever is requested, upgraded or cut   *)
(* short.                                                                  *)
THEOREM TypeCorrect == Spec => []TypeOK
<1>1. StartInv => TypeOK
  BY DEF StartInv
<1> QED
  BY <1>1, StartInvHolds, PTL

(* After a start in which no step failed every table matches its model,    *)
(* one target is the primary, every target has a policy, and no two share  *)
(* a name or an identity.                                                  *)
THEOREM RunsInOrder == Spec => []RunningInOrder
<1>1. StartInv => RunningInOrder
  <2> SUFFICES ASSUME StartInv, Settled
               PROVE  /\ Usable(Tables)
                      /\ Cardinality(Primaries) = 1
                      /\ DOMAIN targets \subseteq policies
                      /\ Unique("name") /\ Unique("identity")
    BY DEF RunningInOrder
  <2>1. Usable(Tables) /\ OnePrimary /\ DOMAIN targets \subseteq policies
    BY DEF StartInv, Settled, TablesInOrder, TargetsInOrder
  <2>2. PICK p \in DOMAIN targets : Primaries = {p}
    BY <2>1 DEF OnePrimary
  <2>3. Cardinality(Primaries) = 1
    BY <2>2, FS_Singleton
  <2> QED
    BY <2>1, <2>3 DEF StartInv, Distinct
<1> QED
  BY <1>1, StartInvHolds, PTL

(* Nothing goes through a mail provider that does not exist, whatever is   *)
(* requested and at whichever step of however many starts the process      *)
(* died, but for the four ways that set bare.                              *)
THEOREM MailNeverDangles == Spec => []NoDanglingMail
<1>1. StartInv /\ MailInv /\ [Next]_vars => MailInv'
  BY MailInvStep
<1>2. MailInv => NoDanglingMail
  BY DEF MailInv
<1> QED
  BY <1>1, <1>2, MailInvInit, StartInvHolds, PTL DEF Spec

(* No step of a start loses rows of a table that matches its model, but    *)
(* for the mail, the routes and the schedules when its check takes the     *)
(* secrets for lost.                                                       *)
THEOREM RowsAlwaysKept == Spec => KeepsRows
<1>1. StartInv /\ [Next]_vars => [RowsStay]_vars
  BY StepKeepsRows
<1>2. Spec => [][RowsStay]_vars
  BY <1>1, StartInvHolds, PTL DEF Spec
<1> QED
  BY <1>2 DEF KeepsRows, RowsStay
=============================================================================
