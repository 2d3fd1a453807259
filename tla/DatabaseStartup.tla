-------------------------- MODULE DatabaseStartup --------------------------
(***************************************************************************)
(* How the program brings its database up (app.py init_app, db/            *)
(* initializer.py, db/integrity.py, db/db_patch.py), around the requests   *)
(* of TargetRegistry.  While the program is down its version may change,   *)
(* so that tables lack a column of their model, and so may SECRET_KEY, so  *)
(* that secrets can no longer be decrypted.  The start creates the missing *)
(* tables, drops and creates again every table that does not match its     *)
(* model or whose secrets it takes for lost, fills in defaults, and brings *)
(* the registry and the scopes of the settings in order.  Each step        *)
(* commits on its own and the process may die between any two.  Errors of  *)
(* the later steps are logged and the start goes on.                       *)
(***************************************************************************)
EXTENDS TargetRegistry

CONSTANTS Versions,     \* sets of tables whose columns a new version changes
          MaxUpgrades,  \* bound on new versions and new keys
          MaxFaults,    \* bound on starts cut short and failed steps of checks
          MaxRequests   \* bound on requests served

Tables == {"mail", "routes", "schedules", "policies", "targets", "options"}

ASSUME StartupAssumption ==
    /\ Versions \subseteq SUBSET Tables
    /\ MaxUpgrades \in Nat /\ MaxFaults \in Nat /\ MaxRequests \in Nat

VARIABLES
    tables,  \* does the table match its model, lack a column, or miss
    todo,    \* the tables the integrity check has left to repair
    lost,    \* does it take the secrets of the mail table for lost
    clean,   \* history: has no step of this start failed
    counts   \* upgrades, faults and requests, against their bounds

vars == <<stage, registry, tables, todo, lost, clean, counts>>

Starts == {"create", "check", "repair", "defaults", "bootstrap", "scopes", "patch"}

TypeOK ==
    /\ RegistryTypeOK
    /\ stage \in {"down", "up"} \cup Starts
    /\ tables \in [Tables -> {"current", "outdated", "missing"}]
    /\ todo \subseteq Tables
    /\ lost \in BOOLEAN /\ clean \in BOOLEAN
    /\ counts \in [upgrades : 0..MaxUpgrades, crashes : 0..MaxFaults,
                   failures : 0..MaxFaults, requests : 0..MaxRequests]

(* A database an earlier version ran on: one or two targets, of which none *)
(* or several may be marked as primary.                                    *)
Init ==
    /\ stage = "down"
    /\ profile \in {"single", "multi"}
    /\ \E used \in {{}, {1}, {1, 2} \cap Ids} :
          /\ targets \in [used -> Target]
          /\ policies = used
          /\ options = [t \in used |-> {"variables"}]
    /\ \A s, t \in DOMAIN targets : s # t =>
          /\ targets[s].name # targets[t].name
          /\ targets[s].identity # targets[t].identity
    /\ routes = [r \in {Global} \X Events |-> "off"]
    /\ mail = "none" /\ bare = FALSE
    /\ schedules = FALSE
    /\ tables = [t \in Tables |-> "current"]
    /\ todo = {}
    /\ lost = FALSE /\ clean = TRUE
    /\ counts = [upgrades |-> 0, crashes |-> 0, failures |-> 0, requests |-> 0]

-----------------------------------------------------------------------------
FaultsLeft == counts.crashes + counts.failures < MaxFaults

(* A step of the check or of the repair raises an error, which is caught.  *)
Fails == FaultsLeft /\ counts' = [counts EXCEPT !.failures = @ + 1]

Usable(T) == \A t \in T : tables[t] = "current"

(* A new version is installed whose models have columns the tables lack.   *)
Upgrade(changed) ==
    /\ stage = "down"
    /\ counts.upgrades < MaxUpgrades
    /\ tables' = [t \in Tables |-> IF t \in changed /\ tables[t] = "current"
                                   THEN "outdated" ELSE tables[t]]
    /\ counts' = [counts EXCEPT !.upgrades = @ + 1]
    /\ UNCHANGED <<stage, registry, todo, lost, clean>>

(* SECRET_KEY changes.                                                     *)
ChangeKey ==
    /\ stage = "down"
    /\ counts.upgrades < MaxUpgrades
    /\ mail = "readable"
    /\ mail' = "unreadable"
    /\ counts' = [counts EXCEPT !.upgrades = @ + 1]
    /\ UNCHANGED <<stage, profile, targets, policies, options, routes, bare,
                   schedules, tables, todo, lost, clean>>

(* The process ends in order, or during its start.                         *)
Stop ==
    /\ stage = "up"
    /\ stage' = "down"
    /\ UNCHANGED <<registry, tables, todo, lost, clean, counts>>

Die ==
    /\ stage \in Starts
    /\ FaultsLeft
    /\ stage' = "down"
    /\ todo' = {} /\ lost' = FALSE
    /\ counts' = [counts EXCEPT !.crashes = @ + 1]
    /\ UNCHANGED <<registry, tables, clean>>

Begin ==
    /\ stage = "down"
    /\ stage' = "create"
    /\ clean' = TRUE
    /\ UNCHANGED <<registry, tables, todo, lost, counts>>

(* Steps 1 to 4.5: the tables that are missing are created, those that are *)
(* there stay as they are.  A mail table that only lacks render_mode gets  *)
(* it here and counts as current.                                          *)
CreateTables ==
    /\ stage = "create"
    /\ stage' = "check"
    /\ tables' = [t \in Tables |->
                      IF tables[t] = "missing" THEN "current" ELSE tables[t]]
    /\ UNCHANGED <<registry, todo, lost, clean, counts>>

(* The integrity check takes the tables by the names of their classes.     *)
CheckOrder == <<"mail", "routes", "schedules", "policies", "targets", "options">>

(* Secrets that cannot be decrypted.  An outdated mail table is not read   *)
(* for them.                                                               *)
Unreadable == mail = "unreadable" /\ Usable({"mail"})

(* Mutant: the mail table goes first.                                      *)
RepairOrderMailFirst == CheckOrder

(* Lost secrets cost the mail table, and the schedules and the routes      *)
(* before it.                                                              *)
RepairOrder ==
    IF lost THEN <<"schedules", "routes", "mail", "policies", "targets", "options">>
    ELSE CheckOrder

(* A table's check depends on that table alone, and finds nothing wrong    *)
(* with one that was just created: all are checked in one step.  Any error *)
(* of the check of secrets but a missing column counts as lost secrets.    *)
CheckTables ==
    /\ stage = "check"
    /\ stage' = "repair"
    /\ \/ lost' = Unreadable /\ UNCHANGED counts
       \/ lost' = TRUE /\ Fails
    /\ todo' = {t \in Tables : tables[t] = "outdated"}
                  \cup (IF lost' THEN {"schedules", "routes", "mail"} ELSE {})
    /\ UNCHANGED <<registry, tables, clean>>

(* The table the repair is at: it is dropped and then created.             *)
Turn(t) ==
    \E i \in 1..6 : /\ RepairOrder[i] = t /\ t \in todo
                    /\ \A k \in 1..i - 1 : RepairOrder[k] \notin todo

(* force_drop_table: committed at once on a connection of its own.  A mail *)
(* table goes alone when it is for its columns.                            *)
DropTable(t) ==
    /\ stage = "repair"
    /\ Turn(t) /\ tables[t] # "missing"
    /\ tables'    = [tables EXCEPT ![t] = "missing"]
    /\ mail'      = IF t = "mail" THEN "none" ELSE mail
    /\ schedules' = (schedules /\ t # "schedules")
    /\ routes'    = IF t = "routes" THEN NoRows ELSE routes
    /\ policies'  = IF t = "policies" THEN {} ELSE policies
    /\ targets'   = IF t = "targets" THEN NoRows ELSE targets
    /\ options'   = IF t = "options" THEN NoRows ELSE options
    /\ bare'      = (bare \/ (t = "mail" /\ mail # "none" /\ ~lost))
    /\ UNCHANGED <<stage, profile, todo, lost, clean, counts>>

(* A table that cannot be dropped is reported and left as it is.           *)
DropFails(t) ==
    /\ stage = "repair"
    /\ Turn(t) /\ tables[t] # "missing"
    /\ Fails
    /\ todo' = todo \ {t}
    /\ clean' = FALSE
    /\ bare' = (bare \/ (lost /\ t \in {"schedules", "routes"}))
    /\ UNCHANGED <<stage, profile, targets, policies, options, routes, mail, schedules,
                   tables, lost>>

CreateTable(t) ==
    /\ stage = "repair"
    /\ Turn(t) /\ tables[t] = "missing"
    /\ tables' = [tables EXCEPT ![t] = "current"]
    /\ todo' = todo \ {t}
    /\ UNCHANGED <<stage, registry, lost, clean, counts>>

(* The table stays away until the next start.                              *)
CreateFails(t) ==
    /\ stage = "repair"
    /\ Turn(t) /\ tables[t] = "missing"
    /\ Fails
    /\ todo' = todo \ {t}
    /\ clean' = FALSE
    /\ UNCHANGED <<stage, registry, tables, lost>>

RepairDone ==
    /\ stage = "repair"
    /\ todo = {}
    /\ stage' = "defaults"
    /\ lost' = FALSE
    /\ UNCHANGED <<registry, tables, todo, clean, counts>>

-----------------------------------------------------------------------------
(* Step 6: a global row of options, and global routes when there are none. *)
Defaults ==
    /\ stage = "defaults"
    /\ stage' = "bootstrap"
    /\ options' =
          IF ~ Usable({"options"}) \/ Global \in DOMAIN options THEN options
          ELSE [s \in DOMAIN options \cup {Global} |->
                    IF s = Global THEN {} ELSE options[s]]
    /\ routes' =
          IF \/ ~ Usable({"routes"})
             \/ DOMAIN routes \cap ({Global} \X Events) # {} THEN routes
          ELSE [r \in DOMAIN routes \cup ({Global} \X Events) |->
                    IF r \in DOMAIN routes THEN routes[r] ELSE "off"]
    /\ UNCHANGED <<profile, targets, policies, provider, schedules, tables, todo,
                   lost, clean, counts>>

Oldest(T) == CHOOSE t \in T : \A o \in T : t <= o

(* Mutant: a primary is chosen when there is none, and several are kept.   *)
KeepTargetsAsMarked ==
    /\ DOMAIN targets # {}
    /\ targets' = IF Primaries = {} THEN WithPrimary(targets, Oldest(DOMAIN targets))
                  ELSE targets
    /\ policies' = policies \cup DOMAIN targets

(* bootstrap_primary_target with targets: the oldest primary stays one, or *)
(* the oldest target becomes it, and every target gets a policy.           *)
KeepTargets ==
    /\ DOMAIN targets # {}
    /\ targets' = WithPrimary(targets, IF Primaries = {} THEN Oldest(DOMAIN targets)
                                       ELSE Oldest(Primaries))
    /\ policies' = policies \cup DOMAIN targets

(* And without: the target of the NUT configuration, which takes id 1.     *)
MakeTarget ==
    /\ DOMAIN targets = {}
    /\ NextId \notin policies
    /\ \E name \in Names, identity \in Identities :
          targets' = [t \in {NextId} |-> [name |-> name, identity |-> identity,
                                          primary |-> TRUE]]
    /\ policies' = policies \cup {NextId}

Bootstrap ==
    /\ stage = "bootstrap"
    /\ Usable({"targets", "policies"})
    /\ KeepTargets \/ MakeTarget
    /\ stage' = "scopes"
    /\ UNCHANGED <<profile, options, routes, provider, schedules, tables, todo,
                   lost, clean, counts>>

(* A column is missing, or the new target's policy would be the second one *)
(* under its id.  The failed commit leaves the session unusable, and with  *)
(* it the next step fails as well.                                         *)
BootstrapFails ==
    /\ stage = "bootstrap"
    /\ ~ Usable({"targets", "policies"}) \/ (DOMAIN targets = {} /\ NextId \in policies)
    /\ stage' = "patch"
    /\ clean' = FALSE
    /\ UNCHANGED <<registry, tables, todo, lost, counts>>

(* Mutant: the values of the global row for every target.                  *)
SynchronizedOptionsGlobal ==
    [t \in DOMAIN targets |->
        IF Global \in DOMAIN options THEN options[Global] ELSE {}]

(* synchronize_master_control_and_variable_scopes: one row of options for  *)
(* each target, new ones with the variables of the global row, no other.    *)
SynchronizedOptions ==
    [t \in DOMAIN targets |->
        IF t \in DOMAIN options THEN options[t]
        ELSE IF Global \in DOMAIN options THEN options[Global] \cap {"variables"}
        ELSE {}]

(* In the multi profile one route per target and event and no other; in    *)
(* the single profile one per event without a target, the others staying.  *)
SynchronizedRoutes ==
    LET own == IF profile = "multi" THEN (DOMAIN targets) \X Events
               ELSE DOMAIN routes \cup ({Global} \X Events)
    IN  [r \in own |-> IF r \in DOMAIN routes THEN routes[r] ELSE "off"]

Synchronize ==
    /\ stage = "scopes"
    /\ stage' = "patch"
    /\ IF Usable({"targets", "options", "routes"})
       THEN /\ options' = SynchronizedOptions
            /\ routes' = SynchronizedRoutes
            /\ clean' = clean
       ELSE UNCHANGED <<options, routes>> /\ clean' = FALSE
    /\ UNCHANGED <<profile, targets, policies, provider, schedules, tables, todo,
                   lost, counts>>

(* ensure_target_scope_schema: the column target_id is added where it is   *)
(* still missing, to tables that are there and the check could not drop.   *)
Patch ==
    /\ stage = "patch"
    /\ stage' = "up"
    /\ tables' = [t \in Tables |->
                      IF t \in {"routes", "schedules"} /\ tables[t] = "outdated"
                      THEN "current" ELSE tables[t]]
    /\ UNCHANGED <<registry, todo, lost, clean, counts>>

Start ==
    \/ Begin \/ CreateTables
    \/ CheckTables \/ RepairDone
    \/ \E t \in Tables : DropTable(t) \/ DropFails(t) \/ CreateTable(t) \/ CreateFails(t)
    \/ Defaults \/ Bootstrap \/ BootstrapFails \/ Synchronize \/ Patch

(* A request that needs an outdated table fails and changes nothing.       *)
Serve ==
    /\ Request
    /\ Usable(Tables)
    /\ counts.requests < MaxRequests
    /\ counts' = [counts EXCEPT !.requests = @ + 1]
    /\ UNCHANGED <<tables, todo, lost, clean>>

Next ==
    \/ \E changed \in Versions : Upgrade(changed)
    \/ ChangeKey
    \/ Stop
    \/ Die
    \/ Start
    \/ Serve

Spec == Init /\ [][Next]_vars

-----------------------------------------------------------------------------
Settled == stage = "up" /\ clean

Unique(field) ==
    \A s, t \in DOMAIN targets : targets[s][field] = targets[t][field] => s = t

(* After a start in which no step failed, however many earlier ones were   *)
(* cut short, and whatever is requested since: every table matches its     *)
(* model, exactly one target is the primary, every target can be polled    *)
(* (it has a policy), and no two share a name or an identity.              *)
RunningInOrder ==
    Settled =>
        /\ Usable(Tables)
        /\ Cardinality(Primaries) = 1
        /\ DOMAIN targets \subseteq policies
        /\ Unique("name") /\ Unique("identity")

(* Nothing goes through a mail provider that does not exist: neither its   *)
(* deletion nor the loss of its secrets, at whichever step of the repair   *)
(* the process dies, leaves a route or a schedule that names it.  Only     *)
(* four things do, and are what bare stands for: DELETE                    *)
(* /api/settings/mail, a route saved with the id of no provider, a mail    *)
(* table replaced for its columns, and schedules or routes that could not  *)
(* be dropped before it.                                                   *)
NoDanglingMail ==
    mail = "none" /\ ~bare => ~schedules /\ \A r \in DOMAIN routes : routes[r] # "mail"

(* The routes of the scopes that the profile uses.                         *)
InForce ==
    {r \in DOMAIN routes :
        IF profile = "multi" THEN r[1] \in DOMAIN targets ELSE r[1] = Global}

(* A start keeps the rows of every table that matches its model: the       *)
(* targets, the options of each target, the routes of the scopes that the  *)
(* profile uses, the schedules and the mail provider.  The loss of the     *)
(* mail's secrets, real or taken for it after an error of the check, costs *)
(* the last three and no more.                                             *)
KeepsRows ==
    [][(stage \in Starts /\ stage' # "down") =>
        /\ Usable({"targets"}) => (DOMAIN targets) \subseteq (DOMAIN targets')
        /\ Usable({"options", "targets"}) =>
              \A t \in (DOMAIN targets) \cap (DOMAIN options) :
                  t \in DOMAIN options' /\ options'[t] = options[t]
        /\ Usable({"routes", "targets"}) /\ ~lost =>
              \A r \in InForce : r \in DOMAIN routes' /\ routes'[r] = routes[r]
        /\ Usable({"schedules"}) /\ ~lost => schedules' = schedules
        /\ Usable({"mail"}) /\ ~lost => mail' = mail]_vars

(* The row of options the single profile computes power with, if any.      *)
InUse(rows) == IF Global \in DOMAIN rows THEN rows[Global] ELSE {}

(* save_operation_settings persists the operation settings of a scope: a   *)
(* start keeps those of the scope that the single profile uses.            *)
OperationsPersist ==
    [][(stage \in Starts /\ profile = "single" /\ Usable(Tables)) =>
          ("operations" \in InUse(options) => "operations" \in InUse(options'))]_vars

(* bootstrap_primary_target creates and maintains the primary target: once *)
(* the program is up there is one, if no repair or check ever failed.      *)
PrimaryMaintained == stage = "up" /\ counts.failures = 0 => Primaries # {}
=============================================================================
