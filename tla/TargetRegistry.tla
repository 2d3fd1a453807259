--------------------------- MODULE TargetRegistry ---------------------------
(***************************************************************************)
(* The registry of monitored targets and the rows that refer to them, as   *)
(* the web API changes them while the program is up: multi_nut/            *)
(* storage_core.py behind api_multi_nut.py, the settings of a target       *)
(* (options), its notification routes, the mail provider they and the      *)
(* report schedules may go through, and the monitoring profile that        *)
(* decides which scope a setting belongs to.  A row's text is left out;    *)
(* what stays is which rows there are and what they refer to.              *)
(* No handler gives up control between its first query and its commit (the *)
(* sqlite driver never yields to another green thread), so each is one     *)
(* step; the connection test of POST /targets comes before the first       *)
(* query.  How the program gets up is DatabaseStartup.                     *)
(***************************************************************************)
EXTENDS Naturals, FiniteSets

CONSTANTS MaxId,       \* bound on the ids of targets
          Names,       \* names a target may have
          Identities,  \* UPS name, host and port of a target
          Events,      \* types of events that can be routed
          Global       \* the scope of rows whose target_id is NULL

ASSUME RegistryAssumption ==
    /\ MaxId \in Nat \ {0}
    /\ Global \notin Nat

Ids    == 1..MaxId
Scopes == Ids \cup {Global}

Target == [name : Names, identity : Identities, primary : BOOLEAN]

(* An event that is not enabled for a scope, or is enabled there and sent  *)
(* through the mail provider (id_email).  The other channels are alike.    *)
RouteState == {"off", "mail"}

(* What a row of options holds: timezone, currency, prices and interval,   *)
(* and the metrics, formulas and calibration that power is computed with.  *)
Settings == {"variables", "operations"}

VARIABLES
    stage,     \* "down", a stage of the start, or "up"
    profile,   \* nutify_master_control.monitoring_profile
    targets,   \* ups_monitor_targets: a function of the ids in use
    policies,  \* the ids that have a row in ups_monitor_policies
    options,   \* ups_opt_variable_config: of each scope that has a row, the
               \* settings in it that were chosen and not defaulted
    routes,    \* ups_opt_notification: of each scope and event with a row
    mail,      \* ups_opt_mail_config: can its password be decrypted
    bare,      \* history: may something name a provider that is not there
    schedules  \* is there a row of ups_report_schedules that names the mail

provider == <<mail, bare>>
registry == <<profile, targets, policies, options, routes, provider, schedules>>

RegistryTypeOK ==
    /\ profile \in {"single", "multi"}
    /\ DOMAIN targets \subseteq Ids /\ targets \in [DOMAIN targets -> Target]
    /\ policies \subseteq Ids
    /\ DOMAIN options \subseteq Scopes /\ options \in [DOMAIN options -> SUBSET Settings]
    /\ DOMAIN routes \subseteq Scopes \X Events /\ routes \in [DOMAIN routes -> RouteState]
    /\ mail \in {"none", "readable", "unreadable"}
    /\ bare \in BOOLEAN
    /\ schedules \in BOOLEAN

-----------------------------------------------------------------------------
(* A table without rows.                                                   *)
NoRows == [t \in {} |-> t]

Primaries == {t \in DOMAIN targets : targets[t].primary}

(* SQLite gives a new row the largest id in use plus one: the id of the    *)
(* newest target is used again once that target has been deleted.          *)
NextId == IF DOMAIN targets = {} THEN 1
          ELSE 1 + CHOOSE t \in DOMAIN targets : \A o \in DOMAIN targets : o <= t

Taken(except) ==
    {targets[t].name : t \in DOMAIN targets \ {except}}

TakenIdentity(except) ==
    {targets[t].identity : t \in DOMAIN targets \ {except}}

(* set_single_primary: t becomes the primary and every other one is not.   *)
WithPrimary(rows, t) ==
    [o \in DOMAIN rows |-> [rows[o] EXCEPT !.primary = (o = t)]]

(* POST /targets.  A policy left behind under the new id makes the insert  *)
(* fail, for target_id is unique there, and the route rolls all of it back.*)
CreateTarget(name, identity, primary) ==
    /\ stage = "up"
    /\ NextId \in Ids \ policies
    /\ name \notin Taken(Global) /\ identity \notin TakenIdentity(Global)
    /\ LET new  == [name |-> name, identity |-> identity, primary |-> primary]
           rows == [t \in DOMAIN targets \cup {NextId} |->
                        IF t = NextId THEN new ELSE targets[t]]
       IN  targets' = IF primary THEN WithPrimary(rows, NextId) ELSE rows
    /\ policies' = policies \cup {NextId}
    /\ UNCHANGED <<stage, profile, options, routes, provider, schedules>>

(* PUT /targets/<id>: a name or an identity in use is refused, and the     *)
(* route rolls back what was already assigned.  The mark of the primary    *)
(* can be given, not taken away.  The target's policy is made on the way   *)
(* when there is none (get_target_with_policy).                            *)
UpdateTarget(t, name, identity, primary) ==
    /\ stage = "up"
    /\ t \in DOMAIN targets
    /\ name \notin Taken(t) /\ identity \notin TakenIdentity(t)
    /\ LET rows == [targets EXCEPT ![t] = [@ EXCEPT !.name = name, !.identity = identity]]
       IN  targets' = IF primary THEN WithPrimary(rows, t) ELSE rows
    /\ policies' = policies \cup {t}
    /\ UNCHANGED <<stage, profile, options, routes, provider, schedules>>

(* POST /targets/<id>/primary.                                             *)
SetPrimary(t) ==
    /\ stage = "up"
    /\ t \in DOMAIN targets
    /\ targets' = WithPrimary(targets, t)
    /\ policies' = policies \cup {t}
    /\ UNCHANGED <<stage, profile, options, routes, provider, schedules>>

(* DELETE /targets/<id>: the primary is refused.  The policy goes with the *)
(* target, its options and routes stay.                                    *)
DeleteTarget(t) ==
    /\ stage = "up"
    /\ t \in DOMAIN targets \ Primaries
    /\ targets' = [o \in DOMAIN targets \ {t} |-> targets[o]]
    /\ policies' = policies \ {t}
    /\ UNCHANGED <<stage, profile, options, routes, provider, schedules>>

(* GET /targets: every target without a policy gets one.                   *)
ListTargets ==
    /\ stage = "up"
    /\ policies' = policies \cup DOMAIN targets
    /\ UNCHANGED <<stage, profile, targets, options, routes, provider, schedules>>

-----------------------------------------------------------------------------
(* resolve_settings_target_id: settings are global in the single profile   *)
(* and belong to the chosen target, if any, in the multi profile.  A page  *)
(* opened earlier may still name a target that has been deleted.           *)
SettingsScopes == IF profile = "multi" THEN Scopes ELSE {Global}

(* get_variable_config_row: without a target the row of the primary, then  *)
(* any row of a target, stands in for the global one.                      *)
OptionsRow(scope) ==
    LET scoped == DOMAIN options \ {Global}
        first  == Primaries \cap scoped
    IN  IF scope # Global \/ scoped = {} THEN {scope}
        ELSE IF first # {} THEN first ELSE scoped

WithSetting(row, setting) ==
    [s \in DOMAIN options \cup {row} |->
        (IF s \in DOMAIN options THEN options[s] ELSE {})
            \cup (IF s = row THEN {setting} ELSE {})]

(* The options pages: one row is changed or made, and the profile with it  *)
(* when the page carries one.                                              *)
SaveOptions(scope, chosen) ==
    /\ stage = "up"
    /\ scope \in SettingsScopes
    /\ \E row \in OptionsRow(scope) : options' = WithSetting(row, "variables")
    /\ profile' = chosen
    /\ UNCHANGED <<stage, targets, policies, routes, provider, schedules>>

(* save_operation_settings: into the row of the scope itself.              *)
SaveOperations(scope) ==
    /\ stage = "up"
    /\ scope \in SettingsScopes
    /\ options' = WithSetting(scope, "operations")
    /\ UNCHANGED <<stage, profile, targets, policies, routes, provider, schedules>>

(* POST /api/settings/nutify/single: one event of the scope.  Nothing asks *)
(* whether the provider that id_email names is there.                      *)
SaveRoute(scope, event, state) ==
    /\ stage = "up"
    /\ scope \in SettingsScopes
    /\ routes' = [r \in DOMAIN routes \cup {<<scope, event>>} |->
                      IF r = <<scope, event>> THEN state ELSE routes[r]]
    /\ bare' = (bare \/ (state = "mail" /\ mail = "none"))
    /\ UNCHANGED <<stage, profile, targets, policies, options, mail, schedules>>

(* GET /api/settings/nutify: a scope without a single row gets them all.   *)
ListRoutes(scope) ==
    /\ stage = "up"
    /\ scope \in SettingsScopes
    /\ DOMAIN routes \cap ({scope} \X Events) = {}
    /\ routes' = [r \in DOMAIN routes \cup ({scope} \X Events) |->
                      IF r \in DOMAIN routes THEN routes[r] ELSE "off"]
    /\ UNCHANGED <<stage, profile, targets, policies, options, provider, schedules>>

(* save_mail_config: a password that cannot be decrypted has to be entered *)
(* again.                                                                  *)
SaveMail ==
    /\ stage = "up"
    /\ mail' = "readable" /\ bare' = FALSE
    /\ UNCHANGED <<stage, profile, targets, policies, options, routes, schedules>>

(* DELETE /api/settings/mail/<id>: what goes through it is switched off,   *)
(* the schedules that name it are deleted.                                 *)
DeleteMail ==
    /\ stage = "up"
    /\ mail # "none"
    /\ mail' = "none" /\ bare' = FALSE
    /\ schedules' = FALSE
    /\ routes' = [r \in DOMAIN routes |->
                      IF routes[r] = "mail" THEN "off" ELSE routes[r]]
    /\ UNCHANGED <<stage, profile, targets, policies, options>>

(* DELETE /api/settings/mail: what goes through it stays.                  *)
DeleteMailSettings ==
    /\ stage = "up"
    /\ mail # "none"
    /\ mail' = "none" /\ bare' = TRUE
    /\ UNCHANGED <<stage, profile, targets, policies, options, routes, schedules>>

(* POST /api/settings/report/schedules, which refuses a provider that is   *)
(* not there, and the deletion of the last schedule.                       *)
SaveSchedule(there) ==
    /\ stage = "up"
    /\ there => mail # "none"
    /\ schedules' = there
    /\ UNCHANGED <<stage, profile, targets, policies, options, routes, provider>>

Request ==
    \/ \E name \in Names, identity \in Identities, primary \in BOOLEAN :
          \/ CreateTarget(name, identity, primary)
          \/ \E t \in Ids : UpdateTarget(t, name, identity, primary)
    \/ \E t \in Ids : SetPrimary(t) \/ DeleteTarget(t)
    \/ ListTargets
    \/ \E scope \in Scopes, chosen \in {"single", "multi"} :
          SaveOptions(scope, chosen)
    \/ \E scope \in Scopes : SaveOperations(scope) \/ ListRoutes(scope)
    \/ \E scope \in Scopes, event \in Events, state \in RouteState :
          SaveRoute(scope, event, state)
    \/ SaveMail
    \/ DeleteMail \/ DeleteMailSettings
    \/ \E there \in BOOLEAN : SaveSchedule(there)
=============================================================================
