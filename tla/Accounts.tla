------------------------------ MODULE Accounts ------------------------------
(***************************************************************************)
(* Who may sign in (core/auth/): the accounts, the identities a provider  *)
(* of single sign-on has for them, and the configuration of that provider *)
(* as administrators save, check, register, test, enable and delete it.   *)
(*                                                                        *)
(* The configuration is one row; what people sign in with is a copy of it *)
(* in memory (live), and what a browser test uses another (draft), both   *)
(* taken anew by _reload.  A request that asks the provider for something *)
(* waits for the network, and other requests run meanwhile.  Each request *)
(* has a session of its own: an object it has loaded before the wait is   *)
(* the same afterwards, and a commit writes the columns that differ from  *)
(* what was loaded.  The program asks people to sign in (DISABLE_AUTH is  *)
(* not set): without an account nobody is an administrator.               *)
(***************************************************************************)
EXTENDS Integers, FiniteSets

CONSTANTS
    Admins,         \* administrators at work, each on one request at a time
    Issuers,        \* providers
    Clients,        \* a client id with its secret
    Policies,       \* the rest a fingerprint covers: groups, claims, scopes
    People,         \* subjects, as each provider calls them
    Names,          \* user names
    Casefold,       \* of each name the one that stands for all its spellings
    NoClient,       \* client id and secret are missing
    None,
    MaxAccounts,    \* bound on the ids of accounts
    MaxRequests,    \* bound on configurations saved or registered, and on changes
                    \* of accounts
    MaxRestarts     \* bound on restarts of the program

VARIABLES
    row,            \* the row of auth_oidc_config, or None
    live,           \* the settings people sign in with, or None
    draft,          \* the settings a browser test uses, or None
    job,            \* what each administrator's request waits for
    signing,        \* for each person the settings a sign-in came back to
    accounts,       \* the rows of orm_login by id
    identities,     \* the account of each known subject
    requests, restarts,
    tested,         \* history: the connections a browser test went through
    crossed         \* history: see Register and RegisterEnds

configVars == <<row, live, draft>>
userVars == <<signing, accounts, identities>>
history == <<tested, crossed>>
vars == <<configVars, job, userVars, requests, restarts, history>>

Settings == [issuer: Issuers, client: Clients \cup {NoClient}, policy: Policies]
SettingsOrNone == Settings \cup {None}
Row == [settings: Settings, enabled: BOOLEAN, verified: SettingsOrNone,
        discovery: {"untested", "valid", "failed"}]
Idle == [step |-> "idle"]
Waiting == [step: {"discovering", "registering"}, loaded: Row]
Testing == [step: {"testing", "exchanging"}, expected: Settings, begun: Settings, used: Settings]
Subjects == Issuers \X People
Ids == 1 .. MaxAccounts
ASSUME AccountsAssumption ==
    /\ NoClient \notin Clients
    /\ MaxAccounts \in Nat \ {0}
    /\ {MaxRequests, MaxRestarts} \subseteq Nat
    /\ None \notin Settings /\ None \notin Row /\ None \notin Subjects
ASSUME CasefoldAssumption == Casefold \in [Names -> Names]

\* An account.  origin is history: the subject it was made for, if any.
Roles == {"administrator", "user"}
Account == [name: Names, role: Roles, origin: Subjects \cup {None}]

-----------------------------------------------------------------------------
\* The provider and the client: what a test of the browser goes through.
Connection(settings) == <<settings.issuer, settings.client>>

\* What load_oidc_settings makes of the row, as it is and as if enabled.
DraftOf(r) == IF r # None /\ r.settings.client # NoClient THEN r.settings ELSE None
LiveOf(r) == IF r # None /\ r.enabled THEN DraftOf(r) ELSE None

Reload ==
    /\ live' = LiveOf(row')
    /\ draft' = DraftOf(row')

\* A new row with the settings of a form.
Created(settings) ==
    [settings |-> settings, enabled |-> FALSE, verified |-> None, discovery |-> "untested"]

\* Mutant: a save leaves single sign-on as it was.
SavedEnabled(r, settings) ==
    [r EXCEPT !.settings = settings,
              !.discovery = IF r.settings.issuer = settings.issuer THEN @ ELSE "untested"]

\* The row r after the settings of a form are saved over it.
Saved(r, settings) ==
    LET same == r.settings.client # NoClient /\ r.settings = settings
    IN [settings |-> settings,
        enabled |-> r.enabled /\ same,
        verified |-> IF same THEN r.verified ELSE None,
        discovery |-> IF r.settings.issuer = settings.issuer THEN r.discovery ELSE "untested"]

SaveOver(r, settings) == IF r = None THEN Created(settings) ELSE Saved(r, settings)

\* The session's UPDATE: of the row as it is now, the columns that the request
\* has changed since it loaded them.
Column(now, loaded, new) == IF new = loaded THEN now ELSE new
Flush(now, loaded, new) ==
    [settings |->
        [issuer |-> Column(now.settings.issuer, loaded.settings.issuer, new.settings.issuer),
         client |-> Column(now.settings.client, loaded.settings.client, new.settings.client),
         policy |-> Column(now.settings.policy, loaded.settings.policy, new.settings.policy)],
     enabled |-> Column(now.enabled, loaded.enabled, new.enabled),
     verified |-> Column(now.verified, loaded.verified, new.verified),
     discovery |-> Column(now.discovery, loaded.discovery, new.discovery)]

-----------------------------------------------------------------------------
Init ==
    /\ row = None /\ live = None /\ draft = None
    /\ job = [a \in Admins |-> Idle]
    /\ signing = [p \in People |-> None]
    /\ accounts = [id \in {} |-> None]
    /\ identities = [k \in {} |-> None]
    /\ requests = 0 /\ restarts = 0
    /\ tested = {}
    /\ crossed = FALSE

\* An administrator exists and has nothing else in progress.
AtWork(a) == job[a] = Idle /\ DOMAIN accounts # {}

\* PUT /api/admin/oidc.  A masked secret stands for the one in the row.
Save(a, settings) ==
    /\ AtWork(a) /\ requests < MaxRequests
    /\ settings.client = NoClient => DraftOf(row) = None
    /\ requests' = requests + 1
    /\ row' = SaveOver(row, settings)
    /\ Reload
    /\ UNCHANGED <<job, userVars, restarts, history>>

\* POST /api/admin/oidc/discover, up to the request to the provider.
Discover(a) ==
    /\ AtWork(a) /\ row # None
    /\ job' = [job EXCEPT ![a] = [step |-> "discovering", loaded |-> row]]
    /\ UNCHANGED <<configVars, userVars, requests, restarts, history>>

\* The provider's answer, valid or not, goes to the row there is now; without a
\* row the commit fails.  Only an answer that is valid is followed by _reload.
DiscoveryEnds(a, status) ==
    /\ job[a] # Idle /\ job[a].step = "discovering"
    /\ job' = [job EXCEPT ![a] = Idle]
    /\ IF row = None THEN UNCHANGED configVars
       ELSE /\ row' = Flush(row, job[a].loaded, [job[a].loaded EXCEPT !.discovery = status])
            /\ IF status = "valid" THEN Reload ELSE UNCHANGED <<live, draft>>
    /\ UNCHANGED <<userVars, requests, restarts, history>>

\* A browser test would use other settings than these.
Behind(settings) == draft # None /\ Connection(draft) # Connection(settings)

\* POST /api/admin/oidc/dynamic-register saves the form first, and does not
\* reload.  It is crossed if the settings in memory stay behind.
Register(a, settings) ==
    /\ AtWork(a) /\ requests < MaxRequests
    /\ settings.client = NoClient => DraftOf(row) = None
    /\ requests' = requests + 1
    /\ row' = SaveOver(row, settings)
    /\ job' = [job EXCEPT ![a] = [step |-> "registering", loaded |-> row']]
    /\ crossed' = (crossed \/ Behind(settings))
    /\ UNCHANGED <<live, draft, userVars, restarts, tested>>

\* The provider has given a client: it is saved with the form, over the row as
\* this request knows it, and discovery follows before anything is reloaded.  It
\* is crossed if the settings in memory stay behind, or the row is another one
\* by now.
RegisterEnds(a, client) ==
    /\ job[a] # Idle /\ job[a].step = "registering"
    /\ LET loaded == job[a].loaded
           settings == [loaded.settings EXCEPT !.client = client]
       IN /\ row' = IF row = None THEN Created(settings)
                    ELSE Flush(row, loaded, Saved(loaded, settings))
          /\ crossed' = (crossed \/ Behind(settings) \/ row \notin {None, loaded})
    /\ job' = [job EXCEPT ![a] = [step |-> "discovering", loaded |-> row']]
    /\ UNCHANGED <<live, draft, userVars, requests, restarts, tested>>

\* The provider refuses: the answer is an error, and nothing is reloaded.
RegisterFails(a) ==
    /\ job[a] # Idle /\ job[a].step = "registering"
    /\ job' = [job EXCEPT ![a] = Idle]
    /\ UNCHANGED <<configVars, userVars, requests, restarts, history>>

\* GET /oidc/test/login: the fingerprint of the row goes into the cookie, and
\* the browser to the provider with the settings in memory.
BeginTest(a) ==
    /\ AtWork(a)
    /\ row # None /\ row.discovery = "valid" /\ draft # None
    /\ job' = [job EXCEPT ![a] = [step |-> "testing", expected |-> row.settings,
                                  begun |-> draft, used |-> draft]]
    /\ UNCHANGED <<configVars, userVars, requests, restarts, history>>

\* The browser is back: the settings of now are used to ask for the token.
TestReturns(a) ==
    /\ job[a] # Idle /\ job[a].step = "testing"
    /\ job' = [job EXCEPT ![a] =
                 IF draft = None THEN Idle
                 ELSE [step |-> "exchanging", expected |-> job[a].expected,
                       begun |-> job[a].begun, used |-> draft]]
    /\ UNCHANGED <<configVars, userVars, requests, restarts, history>>

\* The provider gives the token, for the client the test was begun with, and
\* the row is marked if it is the one whose fingerprint is in the cookie.
TestPasses(a) ==
    /\ job[a] # Idle /\ job[a].step = "exchanging"
    /\ Connection(job[a].used) = Connection(job[a].begun)
    /\ job' = [job EXCEPT ![a] = Idle]
    /\ tested' = tested \cup {Connection(job[a].used)}
    /\ IF row # None /\ row.settings = job[a].expected
       THEN row' = [row EXCEPT !.verified = job[a].expected] /\ Reload
       ELSE UNCHANGED configVars
    /\ UNCHANGED <<userVars, requests, restarts, crossed>>

\* The user gives up, or the provider or the group policy refuses.
TestFails(a) ==
    /\ job[a] # Idle /\ job[a].step \in {"testing", "exchanging"}
    /\ job' = [job EXCEPT ![a] = Idle]
    /\ UNCHANGED <<configVars, userVars, requests, restarts, history>>

MayEnable == row.discovery = "valid" /\ row.verified = row.settings

\* POST /api/admin/oidc/enabled.
Enable(a) ==
    /\ AtWork(a) /\ row # None /\ MayEnable
    /\ row' = [row EXCEPT !.enabled = TRUE]
    /\ Reload
    /\ UNCHANGED <<job, userVars, requests, restarts, history>>

Disable(a) ==
    /\ AtWork(a) /\ row # None
    /\ row' = [row EXCEPT !.enabled = FALSE]
    /\ Reload
    /\ UNCHANGED <<job, userVars, requests, restarts, history>>

\* DELETE /api/admin/oidc.
DeleteConfig(a) ==
    /\ AtWork(a) /\ row # None
    /\ row' = None
    /\ Reload
    /\ UNCHANGED <<job, userVars, requests, restarts, history>>

-----------------------------------------------------------------------------
\* SQLite's next id: one more than the greatest there is.
NextId ==
    IF DOMAIN accounts = {} THEN 1
    ELSE 1 + CHOOSE m \in DOMAIN accounts : \A id \in DOMAIN accounts : id <= m

\* get_active_user compares names as they are, _casefold_username_collision does
\* not.
NameFree(name) == \A id \in DOMAIN accounts : accounts[id].name # name
SpellingFree(name) ==
    \A id \in DOMAIN accounts : Casefold[accounts[id].name] # Casefold[name]
IsOidcUser(id) == \E k \in DOMAIN identities : identities[k] = id
WithAccount(id, account) ==
    [i \in DOMAIN accounts \cup {id} |-> IF i = id THEN account ELSE accounts[i]]

\* A request of a person: accounts change, the configuration does not.
Change ==
    /\ requests < MaxRequests
    /\ requests' = requests + 1
    /\ UNCHANGED <<configVars, job, signing, restarts, history>>

\* POST /setup, while there is no account.
Setup(name) ==
    /\ Change
    /\ DOMAIN accounts = {}
    /\ accounts' = WithAccount(NextId, [name |-> name, role |-> "administrator",
                                        origin |-> None])
    /\ UNCHANGED identities

\* POST /api/admin/users.
CreateUser(name, role) ==
    /\ Change
    /\ DOMAIN accounts # {} /\ NextId <= MaxAccounts /\ NameFree(name)
    /\ accounts' = WithAccount(NextId, [name |-> name, role |-> role, origin |-> None])
    /\ UNCHANGED identities

\* POST /api/change-username, and the form of the administration page.
ChangeUsername(id, name) ==
    /\ Change
    /\ ~IsOidcUser(id) /\ NameFree(name)
    /\ accounts' = [accounts EXCEPT ![id].name = name]
    /\ UNCHANGED identities

\* Mutant: the first account is an account like any other.
UpdateAnyRole(id, role) ==
    /\ Change
    /\ ~IsOidcUser(id)
    /\ accounts' = [accounts EXCEPT ![id].role = role]
    /\ UNCHANGED identities

\* PUT /api/admin/users/<id>/role.
UpdateRole(id, role) ==
    /\ Change
    /\ ~IsOidcUser(id) /\ id # 1
    /\ accounts' = [accounts EXCEPT ![id].role = role]
    /\ UNCHANGED identities

\* Mutant: the identity stays behind.
DeleteAccountOnly(by, id) ==
    /\ Change
    /\ accounts[by].role = "administrator" /\ by # id /\ id # 1
    /\ accounts' = [i \in DOMAIN accounts \ {id} |-> accounts[i]]
    /\ UNCHANGED identities

\* DELETE /api/admin/users/<id>, by another administrator: the identity goes
\* with the account, in one commit.
DeleteUser(by, id) ==
    /\ Change
    /\ accounts[by].role = "administrator" /\ by # id /\ id # 1
    /\ accounts' = [i \in DOMAIN accounts \ {id} |-> accounts[i]]
    /\ identities' = [k \in {s \in DOMAIN identities : identities[s] # id} |-> identities[k]]

\* A person is back from the provider: the token is asked for.
SignInReturns(p) ==
    /\ signing[p] = None /\ live # None /\ DOMAIN accounts # {}
    /\ signing' = [signing EXCEPT ![p] = live]
    /\ UNCHANGED <<configVars, job, accounts, identities, requests, restarts, history>>

\* A person the provider does not know, or is in no group that may sign in.
SignInFails(p) ==
    /\ signing[p] # None
    /\ signing' = [signing EXCEPT ![p] = None]
    /\ UNCHANGED <<configVars, job, accounts, identities, requests, restarts, history>>

\* provision_oidc_user of a known subject: the role is the one of the groups.
KnownSignsIn(p, role) ==
    /\ signing[p] # None
    /\ LET subject == <<signing[p].issuer, p>>
       IN /\ subject \in DOMAIN identities /\ identities[subject] \in DOMAIN accounts
          /\ accounts' = [accounts EXCEPT ![identities[subject]].role = role]
    /\ signing' = [signing EXCEPT ![p] = None]
    /\ UNCHANGED <<configVars, job, identities, requests, restarts, history>>

\* provision_oidc_user of a new subject: never while an account has the name,
\* however it is spelled.  An identity left for the new id would make the insert
\* fail.
NewSignsIn(p, name, role) ==
    /\ signing[p] # None /\ NextId <= MaxAccounts
    /\ LET subject == <<signing[p].issuer, p>>
       IN /\ subject \notin DOMAIN identities
          /\ SpellingFree(name) /\ ~IsOidcUser(NextId)
          /\ accounts' = WithAccount(NextId, [name |-> name, role |-> role,
                                              origin |-> subject])
          /\ identities' = [k \in DOMAIN identities \cup {subject} |->
                              IF k = subject THEN NextId ELSE identities[k]]
    /\ signing' = [signing EXCEPT ![p] = None]
    /\ UNCHANGED <<configVars, job, requests, restarts, history>>

\* The program stops and starts: requests end, except tests that are with the
\* provider, whose cookie stays; init_oidc loads the settings.
Restart ==
    /\ restarts < MaxRestarts
    /\ restarts' = restarts + 1
    /\ job' = [a \in Admins |->
                 IF job[a] # Idle /\ job[a].step = "testing" THEN job[a] ELSE Idle]
    /\ signing' = [p \in People |-> None]
    /\ row' = row
    /\ Reload
    /\ UNCHANGED <<accounts, identities, requests, history>>

ConfigStep(a) ==
    \/ \E s \in Settings : Save(a, s) \/ Register(a, s)
    \/ Discover(a)
    \/ \E status \in {"valid", "failed"} : DiscoveryEnds(a, status)
    \/ \E c \in Clients : RegisterEnds(a, c)
    \/ RegisterFails(a)
    \/ BeginTest(a)
    \/ TestReturns(a)
    \/ TestPasses(a)
    \/ TestFails(a)
    \/ Enable(a)
    \/ Disable(a)
    \/ DeleteConfig(a)

UserStep ==
    \/ \E n \in Names : Setup(n)
    \/ \E n \in Names, r \in Roles : CreateUser(n, r)
    \/ \E id \in DOMAIN accounts, n \in Names : ChangeUsername(id, n)
    \/ \E id \in DOMAIN accounts, r \in Roles : UpdateRole(id, r)
    \/ \E by, id \in DOMAIN accounts : DeleteUser(by, id)

SignInStep(p) ==
    \/ SignInReturns(p)
    \/ SignInFails(p)
    \/ \E r \in Roles : KnownSignsIn(p, r)
    \/ \E n \in Names, r \in Roles : NewSignsIn(p, n, r)

Next ==
    \/ \E a \in Admins : ConfigStep(a)
    \/ UserStep
    \/ \E p \in People : SignInStep(p)
    \/ Restart

Spec == Init /\ [][Next]_vars

-----------------------------------------------------------------------------
\* The values of the variables.
TypeOK ==
    /\ row \in Row \cup {None}
    /\ live \in SettingsOrNone /\ draft \in SettingsOrNone
    /\ job \in [Admins -> {Idle} \cup Waiting \cup Testing]
    /\ signing \in [People -> SettingsOrNone]
    /\ DOMAIN accounts \subseteq Ids /\ accounts \in [DOMAIN accounts -> Account]
    /\ DOMAIN identities \subseteq Subjects /\ identities \in [DOMAIN identities -> Ids]
    /\ requests \in 0 .. MaxRequests /\ restarts \in 0 .. MaxRestarts
    /\ tested \subseteq Issuers \X (Clients \cup {NoClient})
    /\ crossed \in BOOLEAN

\* Nobody is ever asked to sign in at a provider, or as a client of it, that no
\* browser test went through: set_enabled asks for the fingerprint that was
\* verified, and every save that changes it switches single sign-on off.  Said
\* of configurations no registration has crossed.
LiveWasTested ==
    crossed \/ live = None \/ Connection(live) \in tested

\* Every identity names an account, the one that was made for it, also after
\* accounts have been deleted and their ids are used again.
IdentitiesMatch ==
    \A k \in DOMAIN identities :
        identities[k] \in DOMAIN accounts /\ accounts[identities[k]].origin = k

\* Once there are accounts one of them is an administrator with a password of
\* its own: whatever provider or groups do, somebody can sign in and repair it.
AdministratorRemains ==
    DOMAIN accounts # {} =>
        \E id \in DOMAIN accounts :
            accounts[id].role = "administrator" /\ accounts[id].origin = None

-----------------------------------------------------------------------------
\* Counterexample: "A successful browser SSO test is required before enabling SSO"
\* (oidc_store.py:312).  A registration that the provider refuses has saved its
\* form, the test goes on with the settings in memory, and verifies the row.
EnabledWasTested == live # None => Connection(live) \in tested

\* Counterexample: reload_oidc_module rebuilds the clients "after source or
\* database changes" (oidc.py:79).  After a registration that is refused single
\* sign-on goes on with what the row no longer says.
LiveMatchesRow == (\A a \in Admins : job[a] = Idle) => live = LiveOf(row)
=============================================================================
