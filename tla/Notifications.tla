--------------------------- MODULE Notifications ---------------------------
(***************************************************************************)
(* Who is told of an event, and how: dispatch_target_event_notifications   *)
(* (multi_nut/notifications.py), which the web application runs, the same  *)
(* work of the program upsmon starts (events/ups_notifier.py), and the     *)
(* configurations of mail, Ntfy, Telegram and Webhook with the routes that *)
(* lead each event to one of them (mail/api_mail.py, extranotifs).         *)
(* A sender waits for one server after the other, and users change         *)
(* configurations, routes and scopes meanwhile.  A request never gives up  *)
(* control between its first query and its last commit, but the process    *)
(* can die between two commits.  Left out: what a message looks like, the  *)
(* tests a user sends, and events that cannot be stored.                   *)
(***************************************************************************)
EXTENDS FiniteSetsExt, Naturals, Sequences

CONSTANTS Targets,      \* monitored targets
          Global,       \* the scope of rows whose target_id is NULL
          Events,       \* types of events that can be routed
          CommEvents,   \* COMMBAD and COMMOK
          Senders,      \* threads and programs that can be sending
          MaxId,        \* bound on the ids of configurations
          Window,       \* _DEDUPE_WINDOW_SECONDS, in ticks
          Chosen,       \* targets, or none, that a page of the multi profile is for
          Configured,   \* sets of channels that can be in use at the start
          None,         \* no configuration, no event
          MaxEvents,    \* bound on the events
          MaxRequests,  \* bound on the users' requests
          MaxInputs,    \* bound on both together
          Losses,       \* sets of tables a start may drop together
          MaxFaults     \* bound on deaths of the process and failing commits

Managed  == {"ntfy", "telegram", "webhook"}
Channels == {"mail"} \cup Managed
Ids      == 1..MaxId
Scopes   == Targets \cup {Global}

ASSUME NotificationAssumption ==
    /\ Global \notin Targets
    /\ CommEvents \subseteq Events
    /\ MaxId \in Nat \ {0} /\ Window \in Nat \ {0}
    /\ None \notin Ids /\ None \notin Events /\ None \notin Channels
    /\ Chosen \subseteq Scopes
    /\ Configured \subseteq SUBSET Channels
    /\ Losses \subseteq SUBSET (Channels \cup {"routes"})
    /\ MaxEvents \in Nat /\ MaxRequests \in Nat /\ MaxInputs \in Nat /\ MaxFaults \in Nat

VARIABLES
    multi,       \* is the monitoring profile multi
    notifyScope, \* of each target's policy
    configs,     \* the ids of the configurations of each channel
    defaults,    \* those marked as the default; mail marks none
    active,      \* the mail configurations that are enabled
    routes,      \* ups_opt_notification: of each scope and event with a row,
                 \* the configuration of each channel
    on,          \* the rows whose column enabled, mail's, is set
    orphaned,    \* history: of each channel, the ids that starts dropped with its
                 \* table while routes may lead to them
    recent,      \* _recent_event_dispatches: ticks an event is withheld for
    senders,     \* what each sender is doing
    steady,      \* history: the channels that have led somewhere ever since
                 \* the sender began, whatever users changed
    word,        \* history: of each target, the last communication event,
                 \* and the last one that was not withheld
    counts

store == <<multi, notifyScope, configs, defaults, active, routes, on, orphaned>>
vars  == <<store, recent, senders, steady, word, counts>>

IdOrNone == Ids \cup {None}
Policies == {"global", "none"} \cup Channels

(* The columns id_email, id_ntfy, ...; of a channel other than mail the    *)
(* flag is always written together with the id, so the id says both.       *)
Row    == [Channels -> IdOrNone]
NewRow == [c \in Channels |-> None]

(* left: the channels whose turn has not ended; waiting: the one whose     *)
(* server is being waited for; tried: history, those that have been sent   *)
(* to.  A sender for an event of no known target has target Global.        *)
Sender ==
    [kind : {"idle", "app", "legacy", "notifier"}, target : Scopes,
     event : Events \cup {None}, scope : Policies, left : SUBSET Channels,
     waiting : Channels \cup {None}, tried : SUBSET Channels]

Idle == [kind |-> "idle", target |-> Global, event |-> None, scope |-> "none",
         left |-> {}, waiting |-> None, tried |-> {}]

CommWord == [fact : CommEvents \cup {None}, told : CommEvents \cup {None}]

TypeOK ==
    /\ multi \in BOOLEAN
    /\ notifyScope \in [Targets -> Policies]
    /\ configs \in [Channels -> SUBSET Ids]
    /\ defaults \in [Managed -> SUBSET Ids]
    /\ active \subseteq configs["mail"]
    /\ DOMAIN routes \subseteq Scopes \X Events
    /\ \A r \in DOMAIN routes : routes[r] \in Row
    /\ on \subseteq DOMAIN routes
    /\ orphaned \in [Managed -> SUBSET Ids]
    /\ recent \in [Targets \X CommEvents -> 0..Window]
    /\ senders \in [Senders -> Sender]
    /\ steady \in [Senders -> SUBSET Channels]
    /\ word \in [Targets -> CommWord]
    /\ counts \in [events : 0..MaxEvents, requests : 0..MaxRequests, faults : 0..MaxFaults]

-----------------------------------------------------------------------------
(* Where an event leads.                                                   *)

(* resolve_settings_target_id, for the target of an event.                 *)
ScopeOf(t) == IF multi THEN t ELSE Global

HasRows(scope)    == \E e \in Events : <<scope, e>> \in DOMAIN routes
RowAt(scope, e)   == IF <<scope, e>> \in DOMAIN routes THEN routes[<<scope, e>>] ELSE NewRow

(* Ntfy and webhooks look at the target's own rows when its scope has none *)
(* (databases older than the profiles); Telegram and mail do not.          *)
RowOrOlder(t, e) == RowAt(IF HasRows(ScopeOf(t)) THEN ScopeOf(t) ELSE t, e)

Existing(c, id) == IF id \in configs[c] THEN id ELSE None

NtfyConfig(t, e)     == Existing("ntfy", RowOrOlder(t, e)["ntfy"])
TelegramConfig(t, e) == Existing("telegram", RowAt(ScopeOf(t), e)["telegram"])
WebhookConfig(t, e)  == Existing("webhook", RowOrOlder(t, e)["webhook"])

(* upsmon's program asks for the scope's rows, without the target.         *)
NotifierNtfy(t, e)    == Existing("ntfy", RowAt(ScopeOf(t), e)["ntfy"])
NotifierWebhook(t, e) == Existing("webhook", RowAt(ScopeOf(t), e)["webhook"])

(* The chosen configuration when it exists, the first one when it does not:*)
(* nothing ever marks a mail configuration as the default.  One that is    *)
(* disabled sends nothing, and no other takes its place.                   *)
MailConfig(t, e) ==
    LET chosen == RowAt(ScopeOf(t), e)["mail"]
        id     == IF chosen \in configs["mail"] THEN chosen ELSE Min(configs["mail"])
    IN  IF <<ScopeOf(t), e>> \in on /\ configs["mail"] # {} /\ id \in active
        THEN id ELSE None

(* upsmon's program looks first for a row that names a provider and for any*)
(* provider that is enabled.                                               *)
NotifierMail(t, e) ==
    IF RowAt(ScopeOf(t), e)["mail"] # None /\ active # {} THEN MailConfig(t, e) ELSE None

Leading(s) ==
    LET t == senders[s].target
        e == senders[s].event
        config == IF senders[s].kind = "notifier"
                  THEN [mail |-> NotifierMail(t, e), ntfy |-> NotifierNtfy(t, e),
                        telegram |-> TelegramConfig(t, e), webhook |-> NotifierWebhook(t, e)]
                  ELSE [mail |-> MailConfig(t, e), ntfy |-> NtfyConfig(t, e),
                        telegram |-> TelegramConfig(t, e), webhook |-> WebhookConfig(t, e)]
    IN  {c \in Channels : config[c] # None}

(* _channels_from_scope.                                                   *)
ChannelsOf(scope) ==
    CASE scope = "none"     -> {}
      [] scope \in Channels -> {scope}
      [] scope = "global"   -> Channels

-----------------------------------------------------------------------------
(* Senders.                                                                *)

(* The order of the turns in the application and in upsmon's program.      *)
Order(kind) ==
    IF kind = "notifier" THEN <<"mail", "ntfy", "telegram", "webhook">>
                         ELSE <<"mail", "ntfy", "webhook", "telegram">>

IsTurnOf(s, c) ==
    LET order == Order(senders[s].kind)
        place == CHOOSE i \in DOMAIN order : order[i] = c
    IN  /\ c \in senders[s].left /\ senders[s].waiting = None
        /\ \A i \in 1..place - 1 : order[i] \notin senders[s].left

EventsLeft == counts.events < MaxEvents /\ counts.events + counts.requests < MaxInputs

Begin(s, kind, t, e, scope, left) ==
    /\ senders[s].kind = "idle"
    /\ EventsLeft
    /\ counts' = [counts EXCEPT !.events = @ + 1]
    /\ senders' = [senders EXCEPT ![s] =
           [kind |-> kind, target |-> t, event |-> e, scope |-> scope,
            left |-> left, waiting |-> None, tried |-> {}]]
    /\ UNCHANGED store
    /\ steady' = [steady EXCEPT ![s] = Leading(s)']

Said(t, e, aloud) ==
    word' = IF e \notin CommEvents THEN word
            ELSE [word EXCEPT ![t] = [fact |-> e, told |-> IF aloud THEN e ELSE @.told]]

Withheld(t, e) == e \in CommEvents /\ recent[<<t, e>>] > 0

(* The time is noted before anything is sent.                              *)
Remembered(t, e) ==
    IF e \in CommEvents THEN [recent EXCEPT ![<<t, e>>] = Window] ELSE recent

(* dispatch_target_event_notifications for an event of target t: withheld  *)
(* when the same one was announced a moment ago, otherwise sent through    *)
(* the channels of the target's scope, one after the other.                *)
Announce(s, t, e) ==
    /\ ~Withheld(t, e)
    /\ Begin(s, "app", t, e, notifyScope[t], ChannelsOf(notifyScope[t]))
    /\ recent' = Remembered(t, e)
    /\ Said(t, e, TRUE)

Withhold(s, t, e) ==
    /\ Withheld(t, e)
    /\ senders[s].kind = "idle"
    /\ EventsLeft
    /\ counts' = [counts EXCEPT !.events = @ + 1]
    /\ Said(t, e, FALSE)
    /\ UNCHANGED <<store, recent, senders, steady>>

(* handle_notification, for an event of no known target: mail only.        *)
AnnounceUnknown(s, e) ==
    /\ Begin(s, "legacy", Global, e, "mail", {"mail"})
    /\ UNCHANGED <<recent, word>>

(* process_ups_event: all channels whatever the target's scope.  Mail,     *)
(* Ntfy and Telegram are looked up at once, webhooks when their turn comes.*)
Notify(s, t, e) ==
    /\ LET row     == RowAt(ScopeOf(t), e)
           planned == {c \in {"mail", "ntfy", "telegram"} :
                          /\ row[c] # None
                          /\ IF c = "mail" THEN <<ScopeOf(t), e>> \in on
                                          ELSE row[c] \in configs[c]}
       IN  Begin(s, "notifier", t, e, notifyScope[t], planned \cup {"webhook"})
    /\ UNCHANGED <<recent, word>>

(* A turn of channel c ends at once when its event leads nowhere; otherwise*)
(* a server is asked and waited for.                                       *)
Turn(s, c, config) ==
    senders' = IF config = None
               THEN [senders EXCEPT ![s].left = @ \ {c}]
               ELSE [senders EXCEPT ![s].waiting = c, ![s].tried = @ \cup {c}]

(* ensure_notification_setting: a missing row is added, disabled; when its *)
(* scope has none at all, those of all events are.                         *)
EnsuredRows(scope, e) ==
    LET added == IF HasRows(scope) THEN {<<scope, e>>} ELSE {scope} \X Events
    IN  [r \in DOMAIN routes \cup added |-> IF r \in DOMAIN routes THEN routes[r] ELSE NewRow]

(* EmailNotifier.send_notification.                                        *)
MailTurn(s) ==
    LET t == senders[s].target
        e == senders[s].event
    IN  /\ IsTurnOf(s, "mail")
        /\ Turn(s, "mail", IF senders[s].kind = "notifier" THEN NotifierMail(t, e)
                                                           ELSE MailConfig(t, e))
        /\ routes' = EnsuredRows(ScopeOf(t), e)
        /\ UNCHANGED <<multi, notifyScope, configs, defaults, active, on, orphaned,
                       recent, steady, word, counts>>

(* The notifier sends with the configuration it looked up.                 *)
NtfyTurn(s) ==
    /\ IsTurnOf(s, "ntfy")
    /\ IF senders[s].kind = "notifier"
       THEN senders' = [senders EXCEPT ![s].waiting = "ntfy", ![s].tried = @ \cup {"ntfy"}]
       ELSE Turn(s, "ntfy", NtfyConfig(senders[s].target, senders[s].event))
    /\ UNCHANGED <<store, recent, steady, word, counts>>

TelegramTurn(s) ==
    /\ IsTurnOf(s, "telegram")
    /\ IF senders[s].kind = "notifier"
       THEN senders' = [senders EXCEPT ![s].waiting = "telegram", ![s].tried = @ \cup {"telegram"}]
       ELSE Turn(s, "telegram", TelegramConfig(senders[s].target, senders[s].event))
    /\ UNCHANGED <<store, recent, steady, word, counts>>

WebhookTurn(s) ==
    /\ IsTurnOf(s, "webhook")
    /\ LET t == senders[s].target
           e == senders[s].event
       IN  Turn(s, "webhook", IF senders[s].kind = "notifier" THEN NotifierWebhook(t, e)
                                                              ELSE WebhookConfig(t, e))
    /\ UNCHANGED <<store, recent, steady, word, counts>>

(* Mutant: what goes wrong with the mail ends the dispatch.                *)
AnswerOrFail(s) ==
    \E ok \in BOOLEAN :
        /\ senders[s].waiting # None
        /\ senders' = [senders EXCEPT ![s].waiting = None,
               ![s].left = IF ~ok /\ senders[s].waiting = "mail" THEN {}
                           ELSE @ \ {senders[s].waiting}]
        /\ UNCHANGED <<store, recent, steady, word, counts>>

(* The server answers, refuses or lets the time run out, or sending raises:*)
(* each only goes to the result of the channel.                            *)
Answer(s) ==
    /\ senders[s].waiting # None
    /\ senders' = [senders EXCEPT ![s].waiting = None, ![s].left = @ \ {senders[s].waiting}]
    /\ UNCHANGED <<store, recent, steady, word, counts>>

Finished(s) == senders[s].kind # "idle" /\ senders[s].left = {}

Return(s) ==
    /\ Finished(s)
    /\ senders' = [senders EXCEPT ![s] = Idle]
    /\ steady' = [steady EXCEPT ![s] = {}]
    /\ UNCHANGED <<store, recent, word, counts>>

Tick ==
    /\ \E k \in DOMAIN recent : recent[k] > 0
    /\ recent' = [k \in DOMAIN recent |-> IF recent[k] = 0 THEN 0 ELSE recent[k] - 1]
    /\ UNCHANGED <<store, senders, steady, word, counts>>

-----------------------------------------------------------------------------
(* Users' requests.                                                        *)

Request ==
    /\ counts.requests < MaxRequests
    /\ counts.events + counts.requests < MaxInputs
    /\ counts' = [counts EXCEPT !.requests = @ + 1]
    /\ UNCHANGED <<multi, recent, senders, word>>

Watched ==
    steady' = [s \in Senders |-> IF steady[s] = {} THEN {} ELSE steady[s] \cap Leading(s)']

(* SQLite gives a new row the largest id in use plus one.                  *)
NewId(ids) == IF ids = {} THEN 1 ELSE Max(ids) + 1

(* Mutant: the mark is not taken from the others.                          *)
SaveConfigMarked(c, id, default) ==
    /\ id \in Ids /\ id \in configs[c] \cup {NewId(configs[c])}
    /\ configs' = [configs EXCEPT ![c] = @ \cup {id}]
    /\ defaults' = [defaults EXCEPT ![c] =
           IF default \/ configs[c] = {} THEN @ \cup {id} ELSE @]
    /\ UNCHANGED <<notifyScope, active, routes, on, orphaned>>
    /\ Watched

(* save_config: a new configuration is the default when it is the only one,*)
(* and one that is to be the default takes the mark from the others.       *)
SaveConfig(c, id, default) ==
    /\ id \in Ids /\ id \in configs[c] \cup {NewId(configs[c])}
    /\ configs' = [configs EXCEPT ![c] = @ \cup {id}]
    /\ defaults' = [defaults EXCEPT ![c] = IF default \/ configs[c] = {} THEN {id} ELSE @]
    /\ UNCHANGED <<notifyScope, active, routes, on, orphaned>>
    /\ Watched

(* set_default_config.                                                     *)
SetDefault(c, id) ==
    /\ id \in configs[c]
    /\ defaults' = [defaults EXCEPT ![c] = {id}]
    /\ UNCHANGED <<notifyScope, configs, active, routes, on, orphaned>>
    /\ Watched

(* Mutant: a route keeps the id of a configuration that is deleted.        *)
RoutesKept(c, id) == routes

(* delete_config commits the end of the configuration and of its routes,   *)
(* and then makes the first of those that remain the default.              *)
RoutesWithout(c, id) ==
    [r \in DOMAIN routes |-> [routes[r] EXCEPT ![c] = IF @ = id THEN None ELSE @]]

Promoted(c, id) ==
    LET remaining == configs[c] \ {id}
    IN  IF id \in defaults[c] /\ remaining # {} THEN {Min(remaining)} ELSE defaults[c] \ {id}

DeleteConfig(c, id) ==
    /\ id \in configs[c]
    /\ configs' = [configs EXCEPT ![c] = @ \ {id}]
    /\ routes' = RoutesWithout(c, id)
    /\ defaults' = [defaults EXCEPT ![c] = Promoted(c, id)]
    /\ orphaned' = [orphaned EXCEPT ![c] = @ \ {id}]
    /\ UNCHANGED <<notifyScope, active, on>>
    /\ Watched

Fault ==
    /\ counts.faults < MaxFaults
    /\ counts' = [counts EXCEPT !.faults = @ + 1]
    /\ UNCHANGED <<multi, word>>

(* The second commit of a deletion fails, and the request with it.         *)
CommitFails(c, id) ==
    /\ Fault
    /\ id \in configs[c]
    /\ configs' = [configs EXCEPT ![c] = @ \ {id}]
    /\ routes' = RoutesWithout(c, id)
    /\ defaults' = [defaults EXCEPT ![c] = @ \ {id}]
    /\ orphaned' = [orphaned EXCEPT ![c] = @ \ {id}]
    /\ UNCHANGED <<notifyScope, active, on, recent, senders>>
    /\ Watched

(* save_notification_setting, for one event of one scope.                  *)
Route(c, r, id) ==
    /\ id \in configs[c] \cup {None}
    /\ routes' = [k \in DOMAIN routes \cup {r} |->
           IF k = r THEN [RowAt(r[1], r[2]) EXCEPT ![c] = id] ELSE routes[k]]
    /\ UNCHANGED <<notifyScope, configs, defaults, active, on, orphaned>>
    /\ Watched

RequestScopes == IF multi THEN Chosen ELSE {Global}

SaveNtfy == \E id \in Ids, default \in BOOLEAN : Request /\ SaveConfig("ntfy", id, default)
SaveTelegram == \E id \in Ids, default \in BOOLEAN : Request /\ SaveConfig("telegram", id, default)
SaveWebhook == \E id \in Ids, default \in BOOLEAN : Request /\ SaveConfig("webhook", id, default)

SetDefaultNtfy     == \E id \in Ids : Request /\ SetDefault("ntfy", id)
SetDefaultTelegram == \E id \in Ids : Request /\ SetDefault("telegram", id)
SetDefaultWebhook  == \E id \in Ids : Request /\ SetDefault("webhook", id)

DeleteNtfy     == \E id \in Ids : Request /\ DeleteConfig("ntfy", id)
DeleteTelegram == \E id \in Ids : Request /\ DeleteConfig("telegram", id)
DeleteWebhook  == \E id \in Ids : Request /\ DeleteConfig("webhook", id)

RouteNtfy ==
    \E r \in RequestScopes \X Events, id \in IdOrNone : Request /\ Route("ntfy", r, id)
RouteTelegram ==
    \E r \in RequestScopes \X Events, id \in IdOrNone : Request /\ Route("telegram", r, id)
RouteWebhook ==
    \E r \in RequestScopes \X Events, id \in IdOrNone : Request /\ Route("webhook", r, id)

(* POST and PUT of a mail configuration, and POST with update_enabled_only.*)
SaveMail(id, enabled) ==
    /\ Request
    /\ id \in Ids /\ id \in configs["mail"] \cup {NewId(configs["mail"])}
    /\ configs' = [configs EXCEPT !["mail"] = @ \cup {id}]
    /\ active' = IF enabled THEN active \cup {id} ELSE active \ {id}
    /\ UNCHANGED <<notifyScope, defaults, routes, on, orphaned>>
    /\ Watched

(* DELETE /api/settings/mail/<id>: the routes and the report schedules that*)
(* go through it are committed first, then the configuration's end.        *)
RoutesWithoutMail(id) ==
    /\ routes' = RoutesWithout("mail", id)
    /\ on' = {r \in on : routes[r]["mail"] # id}

DeleteMail(id) ==
    /\ Request
    /\ id \in configs["mail"]
    /\ RoutesWithoutMail(id)
    /\ configs' = [configs EXCEPT !["mail"] = @ \ {id}]
    /\ active' = active \ {id}
    /\ UNCHANGED <<notifyScope, defaults, orphaned>>
    /\ Watched

MailCommitFails(id) ==
    /\ Fault
    /\ id \in configs["mail"]
    /\ RoutesWithoutMail(id)
    /\ UNCHANGED <<notifyScope, configs, defaults, active, orphaned, recent, senders>>
    /\ Watched

(* DELETE /api/settings/mail: the first one, and nothing that refers to it.*)
DeleteFirstMail ==
    /\ Request
    /\ configs["mail"] # {}
    /\ LET first == Min(configs["mail"])
       IN  /\ configs' = [configs EXCEPT !["mail"] = @ \ {first}]
           /\ active' = active \ {first}
    /\ UNCHANGED <<notifyScope, defaults, routes, on, orphaned>>
    /\ Watched

(* The page may name a configuration that has been deleted since.          *)
RouteMail(r, enabled, id) ==
    /\ Request
    /\ routes' = [k \in DOMAIN routes \cup {r} |->
           IF k = r THEN [RowAt(r[1], r[2]) EXCEPT !["mail"] = id] ELSE routes[k]]
    /\ on' = IF enabled THEN on \cup {r} ELSE on \ {r}
    /\ UNCHANGED <<notifyScope, configs, defaults, active, orphaned>>
    /\ Watched

(* GET /api/settings/nutify: the rows of a scope that has none.            *)
ListRoutes(scope) ==
    /\ Request
    /\ ~HasRows(scope)
    /\ routes' = [r \in DOMAIN routes \cup {scope} \X Events |->
                      IF r \in DOMAIN routes THEN routes[r] ELSE NewRow]
    /\ UNCHANGED <<notifyScope, configs, defaults, active, on, orphaned>>
    /\ Watched

ChangeScope(t, scope) ==
    /\ Request
    /\ notifyScope' = [notifyScope EXCEPT ![t] = scope]
    /\ UNCHANGED <<configs, defaults, active, routes, on, orphaned>>
    /\ Watched

-----------------------------------------------------------------------------
(* Deaths of the process, each with the start that follows it.             *)

(* synchronize_master_control_and_variable_scopes: a row of each event for *)
(* every scope of the profile; in the multi profile no global ones.        *)
Synchronize(rows, enabled) ==
    LET scopes == IF multi THEN Targets ELSE {Global}
        kept   == {r \in DOMAIN rows : multi => r[1] # Global}
    IN  /\ routes' = [r \in kept \cup scopes \X Events |->
                         IF r \in kept THEN rows[r] ELSE NewRow]
        /\ on' = enabled \cap kept

Restart ==
    /\ Fault
    /\ recent' = [k \in Targets \X CommEvents |-> 0]
    /\ senders' = [s \in Senders |-> Idle]
    /\ steady' = [s \in Senders |-> {}]

(* check_database_integrity drops a table whose secrets do not decrypt with*)
(* the program's key, whose check raises, or whose columns differ from the *)
(* program's; a mail table whose secrets are lost takes the routes with it,*)
(* unless that drop fails, the tables of the other channels do not.  See   *)
(* DatabaseStartup for the order of the drops.                             *)
Start(found, marked, enabledMail, rows, enabled) ==
    \E gone \in Losses :
        /\ configs' = [c \in Channels |-> IF c \in gone THEN {} ELSE found[c]]
        /\ defaults' = [c \in Managed |-> IF c \in gone THEN {} ELSE marked[c]]
        /\ active' = IF "mail" \in gone THEN {} ELSE enabledMail
        /\ orphaned' = [c \in Managed |-> IF "routes" \in gone THEN {}
                                          ELSE orphaned[c] \cup (found[c] \ configs'[c])]
        /\ IF "routes" \in gone THEN Synchronize(<<>>, {}) ELSE Synchronize(rows, enabled)

Die ==
    /\ Restart
    /\ Start(configs, defaults, active, routes, on)
    /\ UNCHANGED notifyScope

(* Between the two commits of a deletion.                                  *)
DieDeletingConfig(c, id) ==
    /\ Restart
    /\ id \in configs[c]
    /\ Start([configs EXCEPT ![c] = @ \ {id}], [defaults EXCEPT ![c] = @ \ {id}],
             active, RoutesWithout(c, id), on)
    /\ UNCHANGED notifyScope

DieDeletingMail(id) ==
    /\ Restart
    /\ id \in configs["mail"]
    /\ Start(configs, defaults, active, RoutesWithout("mail", id),
             {r \in on : routes[r]["mail"] # id})
    /\ UNCHANGED notifyScope

-----------------------------------------------------------------------------
(* A program that has just started: each channel has one configuration that*)
(* all events go to, or none.  In the multi profile the targets may be new *)
(* and have no rows yet.                                                   *)
Init ==
    /\ multi \in BOOLEAN
    /\ \E chosen \in Configured, rows \in {{}, Targets, {Global}} :
        /\ IF multi THEN rows # {Global} ELSE rows = {Global}
        /\ configs = [c \in Channels |-> IF c \in chosen THEN {1} ELSE {}]
        /\ defaults = [c \in Managed |-> configs[c]]
        /\ active = configs["mail"]
        /\ routes = [r \in rows \X Events |->
                        [c \in Channels |-> IF c \in chosen THEN 1 ELSE None]]
        /\ on = IF "mail" \in chosen THEN rows \X Events ELSE {}
        /\ orphaned = [c \in Managed |-> {}]
        /\ notifyScope = [t \in Targets |-> "global"]
        /\ recent = [k \in Targets \X CommEvents |-> 0]
        /\ senders = [s \in Senders |-> Idle]
        /\ steady = [s \in Senders |-> {}]
        /\ word = [t \in Targets |-> [fact |-> None, told |-> None]]
        /\ counts = [events |-> 0, requests |-> 0, faults |-> 0]

Sending ==
    \E s \in Senders :
        \/ \E t \in Targets, e \in Events :
              Announce(s, t, e) \/ Withhold(s, t, e) \/ Notify(s, t, e)
        \/ \E e \in Events : AnnounceUnknown(s, e)
        \/ MailTurn(s) \/ NtfyTurn(s) \/ WebhookTurn(s) \/ TelegramTurn(s)
        \/ Answer(s) \/ Return(s)

Requests ==
    \/ SaveNtfy \/ SetDefaultNtfy \/ DeleteNtfy \/ RouteNtfy
    \/ SaveTelegram \/ SetDefaultTelegram \/ DeleteTelegram \/ RouteTelegram
    \/ SaveWebhook \/ SetDefaultWebhook \/ DeleteWebhook \/ RouteWebhook
    \/ \E id \in Ids, enabled \in BOOLEAN : SaveMail(id, enabled)
    \/ \E id \in Ids : DeleteMail(id)
    \/ DeleteFirstMail
    \/ \E r \in RequestScopes \X Events, enabled \in BOOLEAN, id \in IdOrNone :
          RouteMail(r, enabled, id)
    \/ \E scope \in RequestScopes : ListRoutes(scope)
    \/ \E t \in Targets, scope \in Policies : ChangeScope(t, scope)

Failures ==
    \/ \E c \in Managed, id \in Ids : CommitFails(c, id)
    \/ \E id \in Ids : MailCommitFails(id)

Deaths ==
    \/ Die
    \/ \E c \in Managed, id \in Ids : DieDeletingConfig(c, id)
    \/ \E id \in Ids : DieDeletingMail(id)

Next == Sending \/ Tick \/ Requests \/ Failures \/ Deaths

Spec == Init /\ [][Next]_vars

-----------------------------------------------------------------------------
(* Properties.                                                             *)

(* A sender that is done has sent through every channel it was to use and  *)
(* that led somewhere all along, whatever the channels before it did and   *)
(* users changed meanwhile, and through no channel outside the scope of its*)
(* target; upsmon's program does not ask for the scope.                    *)
ReachesChosen ==
    \A s \in Senders :
        LET inScope == IF senders[s].kind = "notifier" THEN Channels
                       ELSE ChannelsOf(senders[s].scope)
        IN  Finished(s) => /\ steady[s] \cap inScope \subseteq senders[s].tried
                           /\ senders[s].tried \subseteq inScope

(* No route names an Ntfy, Telegram or webhook configuration that is gone, *)
(* whose id the next new configuration would take over with the route,     *)
(* but for those that a start dropped with the channel's table and that    *)
(* nobody has deleted since.                                               *)
RoutesResolve ==
    \A r \in DOMAIN routes, c \in Managed :
        routes[r][c] \in configs[c] \cup orphaned[c] \cup {None}

(* Of the configurations of a channel exactly one is the default, unless   *)
(* the process has died, or a commit failed, before it chose another.      *)
OneDefault ==
    \A c \in Managed :
        /\ defaults[c] \subseteq configs[c]
        /\ \A i, j \in defaults[c] : i = j
        /\ counts.faults = 0 /\ configs[c] # {} => defaults[c] # {}

(* Counterexample: the last communication event that was not withheld is   *)
(* the last one there was.                                                 *)
WordIsTrue == \A t \in Targets : word[t].told = word[t].fact

(* Counterexample: no sender leaves the scope of its target.               *)
ScopeHonoured ==
    \A s \in Senders : senders[s].tried \subseteq ChannelsOf(senders[s].scope)

(* Counterexample: no route names a mail configuration that is gone.       *)
MailRoutesResolve ==
    \A r \in DOMAIN routes : routes[r]["mail"] \in configs["mail"] \cup {None}
=============================================================================
