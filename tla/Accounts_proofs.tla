-------------------------- MODULE Accounts_proofs --------------------------
(***************************************************************************)
(* Proofs about Accounts: its types, that an identity names the account    *)
(* made for it, that a local administrator remains, and that nobody signs  *)
(* in at a provider no test went through, for any administrators, people,  *)
(* providers and clients.                                                  *)
(***************************************************************************)
EXTENDS Accounts, NaturalsInduction, WellFoundedInduction, TLAPS

(* Some numbers up to a bound have a greatest one.                         *)
LEMMA GreatestExists ==
    ASSUME NEW M \in Nat, NEW S \in SUBSET (1 .. M), S # {}
    PROVE  \E m \in S : \A x \in S : x <= m
<1> DEFINE R == {ss \in Nat \X Nat : ss[1] < ss[2]}
           T == {n \in Nat : \E x \in S : n = M - x}
<1>1. IsWellFoundedOn(R, Nat)
  BY NatLessThanWellFounded, Zenon DEF OpToRel
<1>2. \A m, n \in Nat : m < n => <<m, n>> \in R
  OBVIOUS
<1>3. T \in SUBSET Nat /\ T # {}
  <2>1. PICK x \in S : TRUE
    OBVIOUS
  <2>2. M - x \in T
    BY <2>1
  <2> QED
    BY <2>2
<1> HIDE DEF R
<1>4. PICK n \in T : \A y \in T : ~ (<<y, n>> \in R)
  BY <1>1, <1>3, WFMin, Zenon
<1>5. PICK m \in S : n = M - m
  BY <1>4
<1>6. ASSUME NEW x \in S PROVE x <= m
  <2>1. M - x \in T /\ M - x \in Nat /\ n \in Nat
    BY <1>4
  <2>2. ~(M - x < n)
    BY <1>2, <1>4, <2>1
  <2> QED
    BY <1>5, <2>1, <2>2
<1> QED
  BY <1>6

(* SQLite's next id names no account.                                      *)
LEMMA NextIdNew ==
    ASSUME TypeOK
    PROVE  /\ NextId \in Nat \ {0}
           /\ NextId \notin DOMAIN accounts
           /\ DOMAIN accounts = {} => NextId = 1
<1> USE AccountsAssumption
<1>1. CASE DOMAIN accounts = {}
  BY <1>1 DEF NextId
<1>2. CASE DOMAIN accounts # {}
  <2>1. DOMAIN accounts \in SUBSET (1 .. MaxAccounts)
    BY DEF TypeOK, Ids
  <2> DEFINE m == CHOOSE m \in DOMAIN accounts : \A id \in DOMAIN accounts : id <= m
  <2>2. m \in DOMAIN accounts /\ \A id \in DOMAIN accounts : id <= m
    BY <1>2, <2>1, GreatestExists
  <2>3. NextId = 1 + m
    BY <1>2 DEF NextId
  <2> HIDE DEF m
  <2> QED
    BY <1>2, <2>1, <2>2, <2>3
<1> QED
  BY <1>1, <1>2

-----------------------------------------------------------------------------
(* Types.                                                                  *)

LEMMA CreatedType ==
    ASSUME NEW s \in Settings
    PROVE  Created(s) \in Row
  BY DEF Created, Row, SettingsOrNone

LEMMA SavedType ==
    ASSUME NEW r \in Row, NEW s \in Settings
    PROVE  Saved(r, s) \in Row
<1>1. /\ r.enabled \in BOOLEAN /\ r.verified \in SettingsOrNone
      /\ r.discovery \in {"untested", "valid", "failed"}
  BY DEF Row
<1> DEFINE same == r.settings.client # NoClient /\ r.settings = s
<1>2. (r.enabled /\ same) \in BOOLEAN
  BY <1>1
<1> QED
  BY <1>1, <1>2 DEF Saved, Row, SettingsOrNone

LEMMA SaveOverType ==
    ASSUME NEW r \in Row \cup {None}, NEW s \in Settings
    PROVE  SaveOver(r, s) \in Row
  BY CreatedType, SavedType DEF SaveOver

LEMMA FlushType ==
    ASSUME NEW now \in Row, NEW loaded \in Row, NEW new \in Row
    PROVE  Flush(now, loaded, new) \in Row
<1>1. /\ now.settings \in Settings /\ new.settings \in Settings
      /\ now.enabled \in BOOLEAN /\ new.enabled \in BOOLEAN
      /\ now.verified \in SettingsOrNone /\ new.verified \in SettingsOrNone
      /\ now.discovery \in {"untested", "valid", "failed"}
      /\ new.discovery \in {"untested", "valid", "failed"}
  BY DEF Row
<1>2. [issuer |-> Column(now.settings.issuer, loaded.settings.issuer, new.settings.issuer),
       client |-> Column(now.settings.client, loaded.settings.client, new.settings.client),
       policy |-> Column(now.settings.policy, loaded.settings.policy, new.settings.policy)]
      \in Settings
  BY <1>1 DEF Settings, Column
<1>3. /\ Column(now.enabled, loaded.enabled, new.enabled) \in BOOLEAN
      /\ Column(now.verified, loaded.verified, new.verified) \in SettingsOrNone
      /\ Column(now.discovery, loaded.discovery, new.discovery)
            \in {"untested", "valid", "failed"}
  BY <1>1, Zenon DEF Column
<1> QED
  BY <1>2, <1>3 DEF Flush, Row

LEMMA LoadedType ==
    ASSUME NEW r \in Row \cup {None}
    PROVE  DraftOf(r) \in SettingsOrNone /\ LiveOf(r) \in SettingsOrNone
  BY DEF DraftOf, LiveOf, SettingsOrNone, Row

(* What a request waits for has the fields of its kind.                    *)
LEMMA WaitingJob ==
    ASSUME TypeOK, NEW a \in Admins, job[a] # Idle,
           job[a].step \in {"discovering", "registering"}
    PROVE  job[a] \in Waiting /\ job[a].loaded \in Row
  BY DEF TypeOK, Waiting, Testing

LEMMA TestingJob ==
    ASSUME TypeOK, NEW a \in Admins, job[a] # Idle,
           job[a].step \in {"testing", "exchanging"}
    PROVE  /\ job[a] \in Testing
           /\ job[a].expected \in Settings /\ job[a].begun \in Settings
           /\ job[a].used \in Settings
  BY DEF TypeOK, Waiting, Testing

LEMMA WithAccountType ==
    ASSUME TypeOK, NEW id \in Ids, NEW account \in Account
    PROVE  /\ DOMAIN WithAccount(id, account) = DOMAIN accounts \cup {id}
           /\ DOMAIN WithAccount(id, account) \subseteq Ids
           /\ WithAccount(id, account) \in [DOMAIN WithAccount(id, account) -> Account]
           /\ \A i \in DOMAIN accounts \cup {id} :
                 WithAccount(id, account)[i] = IF i = id THEN account ELSE accounts[i]
<1>1. WithAccount(id, account) =
        [i \in DOMAIN accounts \cup {id} |-> IF i = id THEN account ELSE accounts[i]]
  BY DEF WithAccount
<1> QED
  BY <1>1 DEF TypeOK

(* The part of TypeOK about the configuration and the requests for it.     *)
ConfigTypes ==
    /\ row \in Row \cup {None}
    /\ live \in SettingsOrNone /\ draft \in SettingsOrNone
    /\ job \in [Admins -> {Idle} \cup Waiting \cup Testing]
    /\ requests \in 0 .. MaxRequests
    /\ tested \subseteq Issuers \X (Clients \cup {NoClient})
    /\ crossed \in BOOLEAN

(* The part about accounts and the people who sign in.                     *)
UserTypes ==
    /\ signing \in [People -> SettingsOrNone]
    /\ DOMAIN accounts \subseteq Ids /\ accounts \in [DOMAIN accounts -> Account]
    /\ DOMAIN identities \subseteq Subjects /\ identities \in [DOMAIN identities -> Ids]
    /\ requests \in 0 .. MaxRequests

LEMMA TypesSplit ==
    TypeOK <=> ConfigTypes /\ UserTypes /\ restarts \in 0 .. MaxRestarts
  BY DEF TypeOK, ConfigTypes, UserTypes

LEMMA ConnectionType ==
    ASSUME NEW s \in Settings
    PROVE  Connection(s) \in Issuers \X (Clients \cup {NoClient})
  BY DEF Connection, Settings

LEMMA ConfigTypesStep ==
    ASSUME TypeOK, NEW a \in Admins, ConfigStep(a)
    PROVE  ConfigTypes'
<1> USE AccountsAssumption
<1>0. /\ row \in Row \cup {None}
      /\ job \in [Admins -> {Idle} \cup Waiting \cup Testing]
      /\ ConfigTypes
  BY DEF TypeOK, ConfigTypes
<1>1. ASSUME NEW s \in Settings, Save(a, s) PROVE ConfigTypes'
  <2>1. row' \in Row
    BY <1>0, <1>1, SaveOverType DEF Save
  <2>2. live' \in SettingsOrNone /\ draft' \in SettingsOrNone
    BY <1>1, <2>1, LoadedType DEF Save, Reload
  <2>3. requests' \in 0 .. MaxRequests /\ UNCHANGED <<job, tested, crossed>>
    BY <1>0, <1>1 DEF Save, history, ConfigTypes
  <2> QED
    BY <1>0, <2>1, <2>2, <2>3 DEF ConfigTypes
<1>2. ASSUME NEW s \in Settings, Register(a, s) PROVE ConfigTypes'
  <2>1. row' \in Row
    BY <1>0, <1>2, SaveOverType DEF Register
  <2>2. job' \in [Admins -> {Idle} \cup Waiting \cup Testing]
    BY <1>0, <1>2, <2>1 DEF Register, Waiting
  <2>3. /\ requests' \in 0 .. MaxRequests /\ crossed' \in BOOLEAN
        /\ UNCHANGED <<live, draft, tested>>
    BY <1>0, <1>2 DEF Register, ConfigTypes
  <2> QED
    BY <1>0, <2>1, <2>2, <2>3 DEF ConfigTypes
<1>3. ASSUME Discover(a) PROVE ConfigTypes'
  <2>1. job' \in [Admins -> {Idle} \cup Waiting \cup Testing]
    BY <1>0, <1>3 DEF Discover, Waiting
  <2> QED
    BY <1>0, <1>3, <2>1 DEF Discover, configVars, history, ConfigTypes
<1>4. ASSUME NEW status \in {"valid", "failed"}, DiscoveryEnds(a, status)
      PROVE  ConfigTypes'
  <2>1. job' \in [Admins -> {Idle} \cup Waiting \cup Testing]
    BY <1>0, <1>4 DEF DiscoveryEnds
  <2>2. UNCHANGED <<requests, tested, crossed>>
    BY <1>4 DEF DiscoveryEnds, history
  <2>3. CASE row = None
    BY <1>0, <1>4, <2>1, <2>2, <2>3 DEF DiscoveryEnds, configVars, ConfigTypes
  <2>4. CASE row # None
    <3>1. job[a].loaded \in Row
      BY <1>4, WaitingJob DEF DiscoveryEnds
    <3>2. [job[a].loaded EXCEPT !.discovery = status] \in Row
      BY <3>1 DEF Row
    <3>3. row' \in Row
      BY <1>0, <1>4, <2>4, <3>1, <3>2, FlushType DEF DiscoveryEnds
    <3>4. live' \in SettingsOrNone /\ draft' \in SettingsOrNone
      BY <1>0, <1>4, <2>4, <3>3, LoadedType DEF DiscoveryEnds, Reload, ConfigTypes
    <3> QED
      BY <1>0, <2>1, <2>2, <3>3, <3>4 DEF ConfigTypes
  <2> QED
    BY <2>3, <2>4
<1>5. ASSUME NEW c \in Clients, RegisterEnds(a, c) PROVE ConfigTypes'
  <2> DEFINE loaded == job[a].loaded
             s == [loaded.settings EXCEPT !.client = c]
  <2>1. loaded \in Row
    BY <1>5, WaitingJob DEF RegisterEnds
  <2>2. s \in Settings
    BY <2>1 DEF Row, Settings
  <2>3. row' = IF row = None THEN Created(s) ELSE Flush(row, loaded, Saved(loaded, s))
    BY <1>5 DEF RegisterEnds
  <2>4. row' \in Row
    BY <1>0, <2>1, <2>2, <2>3, CreatedType, SavedType, FlushType
  <2>5. job' \in [Admins -> {Idle} \cup Waiting \cup Testing]
    BY <1>0, <1>5, <2>4 DEF RegisterEnds, Waiting
  <2>6. crossed' \in BOOLEAN /\ UNCHANGED <<live, draft, requests, tested>>
    BY <1>0, <1>5 DEF RegisterEnds, ConfigTypes
  <2> QED
    BY <1>0, <2>4, <2>5, <2>6 DEF ConfigTypes
<1>6. CASE RegisterFails(a)
  BY <1>0, <1>6 DEF RegisterFails, configVars, history, ConfigTypes
<1>7. CASE BeginTest(a)
  <2>1. row.settings \in Settings /\ draft \in Settings
    BY <1>0, <1>7 DEF BeginTest, Row, ConfigTypes, SettingsOrNone
  <2>2. job' \in [Admins -> {Idle} \cup Waiting \cup Testing]
    BY <1>0, <1>7, <2>1 DEF BeginTest, Testing
  <2> QED
    BY <1>0, <1>7, <2>2 DEF BeginTest, configVars, history, ConfigTypes
<1>8. CASE TestReturns(a)
  <2>1. job[a].expected \in Settings /\ job[a].begun \in Settings
    BY <1>8, TestingJob DEF TestReturns
  <2>2. draft # None => draft \in Settings
    BY <1>0 DEF ConfigTypes, SettingsOrNone
  <2>3. job' \in [Admins -> {Idle} \cup Waiting \cup Testing]
    BY <1>0, <1>8, <2>1, <2>2 DEF TestReturns, Testing
  <2> QED
    BY <1>0, <1>8, <2>3 DEF TestReturns, configVars, history, ConfigTypes
<1>9. CASE TestPasses(a)
  <2>1. job[a].expected \in Settings /\ job[a].used \in Settings
    BY <1>9, TestingJob DEF TestPasses
  <2>2. /\ job' \in [Admins -> {Idle} \cup Waiting \cup Testing]
        /\ tested' \subseteq Issuers \X (Clients \cup {NoClient})
        /\ UNCHANGED <<requests, crossed>>
    BY <1>0, <1>9, <2>1, ConnectionType DEF TestPasses, ConfigTypes
  <2>3. CASE row # None /\ row.settings = job[a].expected
    <3>1. row' \in Row
      BY <1>0, <1>9, <2>1, <2>3 DEF TestPasses, Row, SettingsOrNone
    <3>2. live' \in SettingsOrNone /\ draft' \in SettingsOrNone
      BY <1>9, <2>3, <3>1, LoadedType DEF TestPasses, Reload
    <3> QED
      BY <1>0, <2>2, <3>1, <3>2 DEF ConfigTypes
  <2>4. CASE ~(row # None /\ row.settings = job[a].expected)
    BY <1>0, <1>9, <2>2, <2>4 DEF TestPasses, configVars, ConfigTypes
  <2> QED
    BY <2>3, <2>4
<1>10. CASE TestFails(a)
  BY <1>0, <1>10 DEF TestFails, configVars, history, ConfigTypes
<1>11. CASE Enable(a) \/ Disable(a)
  <2>1. row' \in Row
    BY <1>0, <1>11 DEF Enable, Disable, Row
  <2>2. live' \in SettingsOrNone /\ draft' \in SettingsOrNone
    BY <1>11, <2>1, LoadedType DEF Enable, Disable, Reload
  <2> QED
    BY <1>0, <1>11, <2>1, <2>2 DEF Enable, Disable, history, ConfigTypes
<1>12. CASE DeleteConfig(a)
  <2>1. row' = None
    BY <1>12 DEF DeleteConfig
  <2>2. live' \in SettingsOrNone /\ draft' \in SettingsOrNone
    BY <1>12, <2>1, LoadedType DEF DeleteConfig, Reload
  <2> QED
    BY <1>0, <1>12, <2>1, <2>2 DEF DeleteConfig, history, ConfigTypes
<1> QED
  BY <1>1, <1>2, <1>3, <1>4, <1>5, <1>6, <1>7, <1>8, <1>9, <1>10, <1>11, <1>12
  DEF ConfigStep

LEMMA UserTypesStep ==
    ASSUME TypeOK, UserStep
    PROVE  UserTypes'
<1> USE AccountsAssumption
<1>0. /\ DOMAIN accounts \subseteq Ids /\ accounts \in [DOMAIN accounts -> Account]
      /\ UserTypes
      /\ NextId \in Nat \ {0}
  BY NextIdNew DEF TypeOK, UserTypes
<1>1. ASSUME Change PROVE requests' \in 0 .. MaxRequests /\ signing' = signing
  BY <1>0, <1>1 DEF Change, UserTypes
<1>2. ASSUME NEW n \in Names, Setup(n) PROVE UserTypes'
  <2>1. NextId = 1 /\ NextId \in Ids
    BY <1>2, NextIdNew DEF Setup, Ids
  <2>2. [name |-> n, role |-> "administrator", origin |-> None] \in Account
    BY DEF Account, Roles
  <2>3. /\ accounts' = WithAccount(NextId, [name |-> n, role |-> "administrator",
                                            origin |-> None])
        /\ UNCHANGED identities /\ Change
    BY <1>2 DEF Setup
  <2>4. DOMAIN accounts' \subseteq Ids /\ accounts' \in [DOMAIN accounts' -> Account]
    BY <2>1, <2>2, <2>3, WithAccountType
  <2> QED
    BY <1>0, <1>1, <2>3, <2>4 DEF UserTypes
<1>3. ASSUME NEW n \in Names, NEW r \in Roles, CreateUser(n, r) PROVE UserTypes'
  <2>1. NextId \in Ids
    BY <1>0, <1>3 DEF CreateUser, Ids
  <2>2. [name |-> n, role |-> r, origin |-> None] \in Account
    BY DEF Account
  <2> QED
    BY <1>0, <1>1, <1>3, <2>1, <2>2, WithAccountType DEF CreateUser, UserTypes
<1>4. ASSUME NEW id \in DOMAIN accounts, NEW n \in Names, ChangeUsername(id, n)
      PROVE  UserTypes'
  <2>1. [accounts[id] EXCEPT !.name = n] \in Account
    BY <1>0 DEF Account
  <2> QED
    BY <1>0, <1>1, <1>4, <2>1 DEF ChangeUsername, UserTypes
<1>5. ASSUME NEW id \in DOMAIN accounts, NEW r \in Roles, UpdateRole(id, r)
      PROVE  UserTypes'
  <2>1. [accounts[id] EXCEPT !.role = r] \in Account
    BY <1>0 DEF Account
  <2> QED
    BY <1>0, <1>1, <1>5, <2>1 DEF UpdateRole, UserTypes
<1>6. ASSUME NEW by \in DOMAIN accounts, NEW id \in DOMAIN accounts, DeleteUser(by, id)
      PROVE  UserTypes'
  BY <1>0, <1>1, <1>6 DEF DeleteUser, UserTypes
<1> QED
  BY <1>2, <1>3, <1>4, <1>5, <1>6 DEF UserStep

LEMMA SignInTypesStep ==
    ASSUME TypeOK, NEW p \in People, SignInStep(p)
    PROVE  UserTypes'
<1> USE AccountsAssumption
<1>0. /\ DOMAIN accounts \subseteq Ids /\ accounts \in [DOMAIN accounts -> Account]
      /\ signing \in [People -> SettingsOrNone] /\ live \in SettingsOrNone
      /\ UserTypes
      /\ NextId \in Nat \ {0}
  BY NextIdNew DEF TypeOK, UserTypes
<1>1. CASE SignInReturns(p)
  BY <1>0, <1>1 DEF SignInReturns, UserTypes
<1>2. CASE SignInFails(p)
  BY <1>0, <1>2 DEF SignInFails, UserTypes, SettingsOrNone
<1>3. ASSUME NEW r \in Roles, KnownSignsIn(p, r) PROVE UserTypes'
  <2> DEFINE id == identities[<<signing[p].issuer, p>>]
  <2>1. /\ id \in DOMAIN accounts
        /\ accounts' = [accounts EXCEPT ![id].role = r]
        /\ signing' = [signing EXCEPT ![p] = None]
        /\ UNCHANGED <<identities, requests>>
    BY <1>3 DEF KnownSignsIn
  <2> HIDE DEF id
  <2>2. [accounts[id] EXCEPT !.role = r] \in Account
    BY <1>0, <2>1 DEF Account
  <2>3. signing' \in [People -> SettingsOrNone]
    BY <1>0, <2>1 DEF SettingsOrNone
  <2> QED
    BY <1>0, <2>1, <2>2, <2>3 DEF UserTypes
<1>4. ASSUME NEW n \in Names, NEW r \in Roles, NewSignsIn(p, n, r) PROVE UserTypes'
  <2> DEFINE subject == <<signing[p].issuer, p>>
  <2>1. signing[p] \in Settings /\ subject \in Subjects
    BY <1>0, <1>4 DEF NewSignsIn, SettingsOrNone, Settings, Subjects
  <2>2. NextId \in Ids
    BY <1>0, <1>4 DEF NewSignsIn, Ids
  <2>3. [name |-> n, role |-> r, origin |-> subject] \in Account
    BY <2>1 DEF Account
  <2>4. /\ accounts' = WithAccount(NextId, [name |-> n, role |-> r, origin |-> subject])
        /\ identities' = [k \in DOMAIN identities \cup {subject} |->
                             IF k = subject THEN NextId ELSE identities[k]]
        /\ signing' = [signing EXCEPT ![p] = None]
        /\ requests' = requests
    BY <1>4 DEF NewSignsIn
  <2>5. DOMAIN accounts' \subseteq Ids /\ accounts' \in [DOMAIN accounts' -> Account]
    BY <2>2, <2>3, <2>4, WithAccountType
  <2> HIDE DEF subject
  <2>6. DOMAIN identities' \subseteq Subjects /\ identities' \in [DOMAIN identities' -> Ids]
    BY <1>0, <2>1, <2>2, <2>4 DEF UserTypes
  <2>7. signing' \in [People -> SettingsOrNone]
    BY <1>0, <2>4 DEF SettingsOrNone
  <2> QED
    BY <1>0, <2>4, <2>5, <2>6, <2>7 DEF UserTypes
<1> QED
  BY <1>1, <1>2, <1>3, <1>4 DEF SignInStep

LEMMA TypeInit == Init => TypeOK
<1> USE AccountsAssumption
<1> SUFFICES ASSUME Init PROVE TypeOK
  OBVIOUS
<1>1. accounts \in [DOMAIN accounts -> Account] /\ DOMAIN accounts = {}
  BY DEF Init
<1>2. identities \in [DOMAIN identities -> Ids] /\ DOMAIN identities = {}
  BY DEF Init
<1>3. job \in [Admins -> {Idle} \cup Waiting \cup Testing]
  BY DEF Init
<1>4. signing \in [People -> SettingsOrNone]
  BY DEF Init, SettingsOrNone
<1>5. requests \in 0 .. MaxRequests /\ restarts \in 0 .. MaxRestarts
  BY DEF Init
<1> QED
  BY <1>1, <1>2, <1>3, <1>4, <1>5 DEF Init, TypeOK, SettingsOrNone

LEMMA TypeStep == TypeOK /\ [Next]_vars => TypeOK'
<1> USE AccountsAssumption
<1> SUFFICES ASSUME TypeOK, [Next]_vars PROVE TypeOK'
  OBVIOUS
<1>0. ConfigTypes /\ UserTypes /\ restarts \in 0 .. MaxRestarts
  BY TypesSplit
<1>1. ASSUME NEW a \in Admins, ConfigStep(a) PROVE TypeOK'
  <2>1. UNCHANGED <<signing, accounts, identities, restarts>>
    BY <1>1 DEF ConfigStep, Save, Register, Discover, DiscoveryEnds, RegisterEnds,
                RegisterFails, BeginTest, TestReturns, TestPasses, TestFails, Enable,
                Disable, DeleteConfig, userVars
  <2>2. ConfigTypes'
    BY <1>1, ConfigTypesStep
  <2> QED
    BY <1>0, <2>1, <2>2 DEF TypeOK, ConfigTypes, UserTypes
<1>2. ASSUME UserStep PROVE TypeOK'
  <2>1. UNCHANGED <<configVars, job, restarts, history>>
    BY <1>2 DEF UserStep, Setup, CreateUser, ChangeUsername, UpdateRole, DeleteUser, Change
  <2>2. UserTypes'
    BY <1>2, UserTypesStep
  <2> QED
    BY <1>0, <2>1, <2>2 DEF TypeOK, ConfigTypes, UserTypes, configVars, history
<1>3. ASSUME NEW p \in People, SignInStep(p) PROVE TypeOK'
  <2>1. UNCHANGED <<configVars, job, restarts, history>>
    BY <1>3 DEF SignInStep, SignInReturns, SignInFails, KnownSignsIn, NewSignsIn
  <2>2. UserTypes'
    BY <1>3, SignInTypesStep
  <2> QED
    BY <1>0, <2>1, <2>2 DEF TypeOK, ConfigTypes, UserTypes, configVars, history
<1>4. CASE Restart
  <2>1. job' \in [Admins -> {Idle} \cup Waiting \cup Testing]
    BY <1>4 DEF Restart, TypeOK
  <2>2. signing' \in [People -> SettingsOrNone]
    BY <1>4 DEF Restart, SettingsOrNone
  <2>3. row' \in Row \cup {None} /\ live' \in SettingsOrNone /\ draft' \in SettingsOrNone
    BY <1>4, LoadedType DEF Restart, Reload, TypeOK
  <2>4. restarts' \in 0 .. MaxRestarts
    BY <1>4 DEF Restart, TypeOK
  <2> QED
    BY <1>4, <2>1, <2>2, <2>3, <2>4 DEF Restart, TypeOK, history
<1>5. CASE UNCHANGED vars
  BY <1>5 DEF vars, configVars, userVars, history, TypeOK
<1> QED
  BY <1>1, <1>2, <1>3, <1>4, <1>5 DEF Next

(* The variables of Accounts always have the values TypeOK gives them.     *)
THEOREM TypeCorrect == Spec => []TypeOK
  BY TypeInit, TypeStep, PTL DEF Spec

-----------------------------------------------------------------------------
(* Accounts and identities.                                                *)

(* The first account stays, and is a local administrator.                  *)
FirstStays ==
    DOMAIN accounts # {} =>
        /\ 1 \in DOMAIN accounts
        /\ accounts[1].role = "administrator" /\ accounts[1].origin = None

(* Nobody is back from a provider before there is an account.              *)
NobodyBefore == \A p \in People : signing[p] # None => DOMAIN accounts # {}

UserInv == IdentitiesMatch /\ FirstStays /\ NobodyBefore

LEMMA UserInvInit == Init => UserInv
  BY DEF Init, UserInv, IdentitiesMatch, FirstStays, NobodyBefore

(* An account that is new takes nothing from the others.                   *)
LEMMA AddedInv ==
    ASSUME TypeOK, UserInv, NextId \in Ids, NEW account \in Account,
           accounts' = WithAccount(NextId, account)
    PROVE  /\ \A k \in DOMAIN identities :
                 /\ identities[k] \in DOMAIN accounts'
                 /\ accounts'[identities[k]].origin = k
           /\ NextId \in DOMAIN accounts' /\ accounts'[NextId] = account
           /\ DOMAIN accounts # {} => FirstStays'
<1>1. NextId \notin DOMAIN accounts
  BY NextIdNew
<1>2. /\ DOMAIN accounts' = DOMAIN accounts \cup {NextId}
      /\ \A i \in DOMAIN accounts \cup {NextId} :
            accounts'[i] = IF i = NextId THEN account ELSE accounts[i]
  BY WithAccountType, Zenon
<1> QED
  BY <1>1, <1>2 DEF UserInv, IdentitiesMatch, FirstStays

LEMMA NobodyStep ==
    ASSUME TypeOK, UserInv, [Next]_vars
    PROVE  NobodyBefore'
<1>1. ASSUME UserStep PROVE NobodyBefore'
  <2>1. UNCHANGED signing
    BY <1>1 DEF UserStep, Setup, CreateUser, ChangeUsername, UpdateRole, DeleteUser, Change
  <2>2. DOMAIN accounts # {} => DOMAIN accounts' # {}
    BY <1>1 DEF UserStep, Setup, CreateUser, ChangeUsername, UpdateRole, DeleteUser,
                WithAccount, UserInv, FirstStays
  <2> QED
    BY <2>1, <2>2 DEF UserInv, NobodyBefore
<1>2. ASSUME NEW p \in People, SignInStep(p) PROVE NobodyBefore'
  <2>1. DOMAIN accounts # {} => DOMAIN accounts' # {}
    BY <1>2 DEF SignInStep, SignInReturns, SignInFails, KnownSignsIn, NewSignsIn, WithAccount
  <2>2. \A q \in People : signing'[q] # None => signing[q] # None \/ DOMAIN accounts # {}
    BY <1>2 DEF SignInStep, SignInReturns, SignInFails, KnownSignsIn, NewSignsIn, TypeOK
  <2> QED
    BY <2>1, <2>2 DEF UserInv, NobodyBefore
<1>3. ASSUME NEW a \in Admins, ConfigStep(a) PROVE NobodyBefore'
  <2>1. UNCHANGED <<signing, accounts>>
    BY <1>3 DEF ConfigStep, Save, Register, Discover, DiscoveryEnds, RegisterEnds,
                RegisterFails, BeginTest, TestReturns, TestPasses, TestFails, Enable,
                Disable, DeleteConfig, userVars
  <2> QED
    BY <2>1 DEF UserInv, NobodyBefore
<1>4. CASE Restart
  BY <1>4 DEF Restart, NobodyBefore
<1>5. CASE UNCHANGED vars
  BY <1>5 DEF vars, userVars, UserInv, NobodyBefore
<1> QED
  BY <1>1, <1>2, <1>3, <1>4, <1>5 DEF Next

LEMMA UserInvStep == TypeOK /\ UserInv /\ [Next]_vars => UserInv'
<1> USE AccountsAssumption
<1> SUFFICES ASSUME TypeOK, UserInv, [Next]_vars PROVE UserInv'
  OBVIOUS
<1>0. /\ DOMAIN accounts \subseteq Ids /\ accounts \in [DOMAIN accounts -> Account]
      /\ NextId \in Nat \ {0}
  BY NextIdNew DEF TypeOK
<1> DEFINE Claims == IdentitiesMatch /\ FirstStays
<1>1. ASSUME UNCHANGED <<accounts, identities>> PROVE Claims'
  BY <1>1 DEF UserInv, IdentitiesMatch, FirstStays
<1>2. ASSUME NEW a \in Admins, ConfigStep(a) PROVE Claims'
  <2>1. UNCHANGED <<accounts, identities>>
    BY <1>2 DEF ConfigStep, Save, Register, Discover, DiscoveryEnds, RegisterEnds,
                RegisterFails, BeginTest, TestReturns, TestPasses, TestFails, Enable,
                Disable, DeleteConfig, userVars
  <2> QED
    BY <1>1, <2>1
<1>3. ASSUME NEW n \in Names, Setup(n) PROVE Claims'
  <2> DEFINE account == [name |-> n, role |-> "administrator", origin |-> None]
  <2>1. account \in Account /\ account.role = "administrator" /\ account.origin = None
    BY DEF Account, Roles
  <2>2. NextId = 1 /\ NextId \in Ids
    BY <1>3, NextIdNew DEF Setup, Ids
  <2>3. accounts' = WithAccount(NextId, account) /\ UNCHANGED identities
    BY <1>3 DEF Setup
  <2> HIDE DEF account
  <2> QED
    BY <2>1, <2>2, <2>3, AddedInv DEF UserInv, IdentitiesMatch, FirstStays
<1>4. ASSUME NEW n \in Names, NEW r \in Roles, CreateUser(n, r) PROVE Claims'
  <2> DEFINE account == [name |-> n, role |-> r, origin |-> None]
  <2>1. account \in Account
    BY DEF Account
  <2>2. NextId \in Ids
    BY <1>0, <1>4 DEF CreateUser, Ids
  <2>3. /\ accounts' = WithAccount(NextId, account)
        /\ UNCHANGED identities /\ DOMAIN accounts # {}
    BY <1>4 DEF CreateUser
  <2> HIDE DEF account
  <2> QED
    BY <2>1, <2>2, <2>3, AddedInv DEF UserInv, IdentitiesMatch
<1>5. ASSUME NEW id \in DOMAIN accounts, NEW n \in Names, ChangeUsername(id, n)
      PROVE  Claims'
  <2>1. accounts' = [accounts EXCEPT ![id].name = n] /\ UNCHANGED identities
    BY <1>5 DEF ChangeUsername
  <2>2. /\ DOMAIN accounts' = DOMAIN accounts
        /\ \A i \in DOMAIN accounts :
              accounts'[i].role = accounts[i].role /\ accounts'[i].origin = accounts[i].origin
    BY <1>0, <2>1 DEF Account
  <2> QED
    BY <2>1, <2>2 DEF UserInv, IdentitiesMatch, FirstStays
<1>6. ASSUME NEW id \in DOMAIN accounts, NEW r \in Roles, UpdateRole(id, r)
      PROVE  Claims'
  <2>1. /\ accounts' = [accounts EXCEPT ![id].role = r]
        /\ UNCHANGED identities /\ id # 1
    BY <1>6 DEF UpdateRole
  <2>2. /\ DOMAIN accounts' = DOMAIN accounts
        /\ \A i \in DOMAIN accounts : accounts'[i].origin = accounts[i].origin
        /\ \A i \in DOMAIN accounts : i # id => accounts'[i].role = accounts[i].role
    BY <1>0, <2>1 DEF Account
  <2> QED
    BY <2>1, <2>2 DEF UserInv, IdentitiesMatch, FirstStays
<1>7. ASSUME NEW by \in DOMAIN accounts, NEW id \in DOMAIN accounts, DeleteUser(by, id)
      PROVE  Claims'
  BY <1>7 DEF DeleteUser, UserInv, IdentitiesMatch, FirstStays
<1>8. ASSUME NEW p \in People, SignInReturns(p) \/ SignInFails(p) PROVE Claims'
  BY <1>1, <1>8 DEF SignInReturns, SignInFails
<1>9. ASSUME NEW p \in People, NEW r \in Roles, KnownSignsIn(p, r) PROVE Claims'
  <2> DEFINE subject == <<signing[p].issuer, p>>
             id == identities[subject]
  <2>1. /\ subject \in DOMAIN identities /\ id \in DOMAIN accounts
        /\ accounts' = [accounts EXCEPT ![id].role = r] /\ UNCHANGED identities
    BY <1>9 DEF KnownSignsIn
  <2>2. accounts[id].origin = subject /\ subject \in Subjects
    BY <2>1 DEF UserInv, IdentitiesMatch, TypeOK
  <2> HIDE DEF subject, id
  <2>3. id # 1
    BY <2>1, <2>2 DEF UserInv, FirstStays, Subjects
  <2>4. /\ DOMAIN accounts' = DOMAIN accounts
        /\ \A i \in DOMAIN accounts : accounts'[i].origin = accounts[i].origin
        /\ \A i \in DOMAIN accounts : i # id => accounts'[i].role = accounts[i].role
    BY <1>0, <2>1 DEF Account
  <2> QED
    BY <2>1, <2>3, <2>4 DEF UserInv, IdentitiesMatch, FirstStays
<1>10. ASSUME NEW p \in People, NEW n \in Names, NEW r \in Roles, NewSignsIn(p, n, r)
       PROVE  Claims'
  <2> DEFINE subject == <<signing[p].issuer, p>>
             account == [name |-> n, role |-> r, origin |-> subject]
  <2>1. signing[p] \in Settings /\ subject \in Subjects
    BY <1>10 DEF NewSignsIn, SettingsOrNone, Settings, Subjects, TypeOK
  <2>2. NextId \in Ids
    BY <1>0, <1>10 DEF NewSignsIn, Ids
  <2>3. account \in Account /\ account.origin = subject
    BY <2>1 DEF Account
  <2>4. /\ accounts' = WithAccount(NextId, account)
        /\ identities' = [k \in DOMAIN identities \cup {subject} |->
                             IF k = subject THEN NextId ELSE identities[k]]
    BY <1>10 DEF NewSignsIn
  <2>5. DOMAIN accounts # {}
    BY <1>10 DEF NewSignsIn, UserInv, NobodyBefore
  <2> HIDE DEF subject, account
  <2> QED
    BY <2>2, <2>3, <2>4, <2>5, AddedInv DEF UserInv, IdentitiesMatch
<1>11. ASSUME Restart PROVE Claims'
  BY <1>1, <1>11 DEF Restart
<1>12. ASSUME UNCHANGED vars PROVE Claims'
  BY <1>1, <1>12 DEF vars, userVars
<1>13. Claims'
  <2> HIDE DEF Claims
  <2> QED
    BY <1>2, <1>3, <1>4, <1>5, <1>6, <1>7, <1>8, <1>9, <1>10, <1>11, <1>12
    DEF Next, UserStep, SignInStep
<1>14. NobodyBefore'
  BY NobodyStep
<1> QED
  BY <1>13, <1>14 DEF UserInv

(* Every identity names the account that was made for it, whatever accounts   *)
(* are deleted and whichever ids are used again.                             *)
THEOREM IdentitiesAlwaysMatch == Spec => []IdentitiesMatch
<1>1. UserInv => IdentitiesMatch
  BY DEF UserInv
<1> QED
  BY <1>1, TypeInit, TypeStep, UserInvInit, UserInvStep, PTL DEF Spec

(* A local administrator remains: the first account is never deleted, never   *)
(* loses its role, and never belongs to a subject of a provider.             *)
THEOREM AdministratorAlwaysRemains == Spec => []AdministratorRemains
<1>1. UserInv => AdministratorRemains
  BY DEF UserInv, FirstStays, AdministratorRemains
<1> QED
  BY <1>1, TypeInit, TypeStep, UserInvInit, UserInvStep, PTL DEF Spec

-----------------------------------------------------------------------------
(* What people sign in with has been tested.                               *)

(* As long as no registration has crossed: the settings in memory are those *)
(* of the row, and what is verified or enabled went through a test.        *)
MemoryFollows == draft # None => row # None /\ Connection(draft) = Connection(row.settings)
VerifiedWasTested ==
    row # None /\ row.verified # None => Connection(row.verified) \in tested
EnabledIsVerified ==
    row # None /\ row.enabled => row.verified = row.settings
LiveTested == live # None => Connection(live) \in tested
BegunAlike ==
    \A a \in Admins :
        job[a] # Idle /\ job[a].step \in {"testing", "exchanging"} =>
            Connection(job[a].expected) = Connection(job[a].begun)

ConfigInv ==
    ~crossed => /\ MemoryFollows /\ VerifiedWasTested /\ EnabledIsVerified
                /\ LiveTested /\ BegunAlike

(* After _reload memory follows the row.                                   *)
LEMMA ReloadFollows ==
    ASSUME Reload, row' \in Row \cup {None},
           VerifiedWasTested', EnabledIsVerified'
    PROVE  MemoryFollows' /\ LiveTested'
<1> USE AccountsAssumption
<1>1. row' # None => row'.settings \in Settings
  BY DEF Row
<1>2. row' # None => row'.settings # None
  BY <1>1 DEF Settings
<1> QED
  BY <1>2 DEF Reload, MemoryFollows, LiveTested, LiveOf, DraftOf, VerifiedWasTested,
              EnabledIsVerified

(* A save leaves verified and enabled only what it does not change.        *)
LEMMA SaveKeeps ==
    ASSUME TypeOK, VerifiedWasTested, EnabledIsVerified,
           NEW s \in Settings, row' = SaveOver(row, s), tested' = tested
    PROVE  /\ VerifiedWasTested' /\ EnabledIsVerified'
           /\ row' # None => row'.settings = s
  BY DEF SaveOver, Saved, Created, VerifiedWasTested, EnabledIsVerified, TypeOK, Row

LEMMA ConfigInvStep == TypeOK /\ ConfigInv /\ [Next]_vars => ConfigInv'
<1> USE AccountsAssumption
<1> SUFFICES ASSUME TypeOK, ConfigInv, [Next]_vars, ~crossed' PROVE ConfigInv'
  BY DEF ConfigInv
<1> DEFINE Parts == /\ MemoryFollows /\ VerifiedWasTested /\ EnabledIsVerified
                    /\ LiveTested /\ BegunAlike
<1>0. /\ row \in Row \cup {None} /\ job \in [Admins -> {Idle} \cup Waiting \cup Testing]
      /\ crossed \in BOOLEAN
  BY DEF TypeOK
<1>1. ASSUME UNCHANGED <<configVars, job, history>> PROVE ConfigInv'
  BY <1>1 DEF ConfigInv, configVars, history, MemoryFollows, VerifiedWasTested,
              EnabledIsVerified, LiveTested, BegunAlike
<1>2. ASSUME NEW a \in Admins, ConfigStep(a) PROVE ConfigInv'
  <2>1. ~crossed
    BY <1>0, <1>2 DEF ConfigStep, Save, Register, Discover, DiscoveryEnds, RegisterEnds,
                RegisterFails, BeginTest, TestReturns, TestPasses, TestFails, Enable,
                Disable, DeleteConfig, history
  <2>2. Parts
    BY <2>1 DEF ConfigInv
  <2>3. ASSUME UNCHANGED <<tested>>,
               \A b \in Admins : b # a => job'[b] = job[b],
               job'[a] # Idle => job'[a].step \in {"discovering", "registering"}
                                 \/ job'[a] = job[a]
        PROVE  BegunAlike'
    BY <2>2, <2>3 DEF BegunAlike
  <2>4. ASSUME NEW s \in Settings, Save(a, s) PROVE Parts'
    <3>1. VerifiedWasTested' /\ EnabledIsVerified'
      BY <2>2, <2>4, SaveKeeps DEF Save, history
    <3>2. row' \in Row
      BY <1>0, <2>4, SaveOverType DEF Save
    <3>3. MemoryFollows' /\ LiveTested'
      BY <2>4, <3>1, <3>2, ReloadFollows DEF Save
    <3>4. BegunAlike'
      BY <2>2, <2>4 DEF Save, BegunAlike
    <3> QED
      BY <3>1, <3>3, <3>4
  <2>5. ASSUME NEW s \in Settings, Register(a, s) PROVE Parts'
    <3>1. /\ VerifiedWasTested' /\ EnabledIsVerified'
          /\ row' # None => row'.settings = s
      BY <2>2, <2>5, SaveKeeps DEF Register
    <3>2. row' # None
      BY <1>0, <2>5, SaveOverType DEF Register
    <3>3. ~Behind(s)
      BY <1>0, <2>1, <2>5 DEF Register
    <3>4. MemoryFollows' /\ LiveTested'
      BY <2>2, <2>5, <3>1, <3>2, <3>3
      DEF Register, Behind, MemoryFollows, LiveTested
    <3>5. BegunAlike'
      BY <1>0, <2>2, <2>5 DEF Register, BegunAlike
    <3> QED
      BY <3>1, <3>4, <3>5
  <2>6. ASSUME UNCHANGED <<configVars, tested>>, BegunAlike' PROVE Parts'
    BY <2>2, <2>6 DEF configVars, MemoryFollows, VerifiedWasTested, EnabledIsVerified,
                      LiveTested
  <2>7. ASSUME Discover(a) PROVE Parts'
    <3>1. BegunAlike'
      BY <1>0, <2>3, <2>7 DEF Discover, history
    <3> QED
      BY <2>6, <2>7, <3>1 DEF Discover, history
  <2>8. ASSUME NEW status \in {"valid", "failed"}, DiscoveryEnds(a, status) PROVE Parts'
    <3>1. UNCHANGED tested /\ BegunAlike'
      BY <1>0, <2>3, <2>8 DEF DiscoveryEnds, history
    <3>2. CASE row = None
      BY <2>6, <2>8, <3>1, <3>2 DEF DiscoveryEnds
    <3>3. CASE row # None
      <4>1. job[a].loaded \in Row
        BY <2>8, WaitingJob DEF DiscoveryEnds
      <4> DEFINE loaded == job[a].loaded
                 new == [loaded EXCEPT !.discovery = status]
      <4>2. /\ new \in Row /\ new.settings = loaded.settings
            /\ new.enabled = loaded.enabled /\ new.verified = loaded.verified
        BY <4>1 DEF Row
      <4>3. row' = Flush(row, loaded, new)
        BY <2>8, <3>3 DEF DiscoveryEnds
      <4>4. row' \in Row
        BY <1>0, <3>3, <4>1, <4>2, <4>3, FlushType
      <4>5. row \in Row /\ row.settings \in Settings
        BY <1>0, <3>3 DEF Row
      <4> HIDE DEF loaded, new
      <4>6. /\ row'.settings = row.settings
            /\ row'.enabled = row.enabled /\ row'.verified = row.verified
        BY <4>2, <4>3, <4>5 DEF Flush, Column, Settings
      <4>7. VerifiedWasTested' /\ EnabledIsVerified'
        BY <2>2, <3>1, <3>3, <4>6 DEF VerifiedWasTested, EnabledIsVerified
      <4>8. CASE status = "valid"
        <5>1. MemoryFollows' /\ LiveTested'
          BY <2>8, <3>3, <4>4, <4>7, <4>8, ReloadFollows DEF DiscoveryEnds
        <5> QED
          BY <3>1, <4>7, <5>1
      <4>9. CASE status # "valid"
        <5>1. MemoryFollows' /\ LiveTested'
          BY <1>0, <2>2, <2>8, <3>1, <3>3, <4>4, <4>6, <4>9
          DEF DiscoveryEnds, MemoryFollows, LiveTested, AccountsAssumption
        <5> QED
          BY <3>1, <4>7, <5>1
      <4> QED
        BY <4>8, <4>9
    <3> QED
      BY <3>2, <3>3
  <2>9. ASSUME NEW c \in Clients, RegisterEnds(a, c) PROVE Parts'
    <3> DEFINE loaded == job[a].loaded
               s == [loaded.settings EXCEPT !.client = c]
    <3>1. loaded \in Row /\ s \in Settings
      BY <2>9, WaitingJob DEF RegisterEnds, Row, Settings
    <3>2. /\ row' = IF row = None THEN Created(s) ELSE Flush(row, loaded, Saved(loaded, s))
          /\ crossed' = (crossed \/ Behind(s) \/ row \notin {None, loaded})
          /\ UNCHANGED <<live, draft, tested>>
      BY <2>9 DEF RegisterEnds
    <3>3. ~Behind(s) /\ row \in {None, loaded}
      BY <2>1, <3>2
    <3> HIDE DEF loaded, s
    <3>4. Saved(loaded, s) \in Row
      BY <3>1, SavedType
    <3>5. Flush(loaded, loaded, Saved(loaded, s)) = Saved(loaded, s)
      BY <3>1, <3>4 DEF Flush, Column, Row, Settings
    <3>6. row' = SaveOver(row, s)
      BY <3>2, <3>3, <3>5 DEF SaveOver
    <3>7. /\ VerifiedWasTested' /\ EnabledIsVerified'
          /\ row' # None => row'.settings = s
      BY <2>2, <3>1, <3>2, <3>6, SaveKeeps
    <3>8. row' # None
      BY <1>0, <3>1, <3>6, SaveOverType
    <3>9. MemoryFollows' /\ LiveTested'
      BY <2>2, <3>2, <3>3, <3>7, <3>8 DEF Behind, MemoryFollows, LiveTested
    <3>10. BegunAlike'
      BY <1>0, <2>3, <2>9 DEF RegisterEnds
    <3> QED
      BY <3>7, <3>9, <3>10
  <2>10. ASSUME RegisterFails(a) PROVE Parts'
    <3>1. BegunAlike'
      BY <1>0, <2>3, <2>10 DEF RegisterFails, history
    <3> QED
      BY <2>6, <2>10, <3>1 DEF RegisterFails, history
  <2>11. ASSUME BeginTest(a) PROVE Parts'
    <3>1. /\ job' = [job EXCEPT ![a] = [step |-> "testing", expected |-> row.settings,
                                        begun |-> draft, used |-> draft]]
          /\ draft # None /\ UNCHANGED <<configVars, tested>>
      BY <2>11 DEF BeginTest, history
    <3>2. Connection(row.settings) = Connection(draft)
      BY <2>2, <3>1 DEF MemoryFollows
    <3>3. BegunAlike'
      BY <1>0, <2>2, <3>1, <3>2 DEF BegunAlike
    <3> QED
      BY <2>6, <3>1, <3>3
  <2>12. ASSUME TestReturns(a) PROVE Parts'
    <3>1. /\ job' = [job EXCEPT ![a] =
                       IF draft = None THEN Idle
                       ELSE [step |-> "exchanging", expected |-> job[a].expected,
                             begun |-> job[a].begun, used |-> draft]]
          /\ job[a] # Idle /\ job[a].step = "testing" /\ UNCHANGED <<configVars, tested>>
      BY <2>12 DEF TestReturns, history
    <3>2. Connection(job[a].expected) = Connection(job[a].begun)
      BY <2>2, <3>1 DEF BegunAlike
    <3>3. BegunAlike'
      BY <1>0, <2>2, <3>1, <3>2 DEF BegunAlike
    <3> QED
      BY <2>6, <3>1, <3>3
  <2>13. ASSUME TestPasses(a) PROVE Parts'
    <3>1. /\ Connection(job[a].used) = Connection(job[a].expected)
          /\ tested' = tested \cup {Connection(job[a].used)}
          /\ job[a].expected \in Settings
      BY <2>2, <2>13, TestingJob DEF TestPasses, BegunAlike
    <3>2. BegunAlike'
      BY <1>0, <2>2, <2>13 DEF TestPasses, BegunAlike
    <3>3. CASE row # None /\ row.settings = job[a].expected
      <4>1. row' = [row EXCEPT !.verified = job[a].expected] /\ Reload
        BY <2>13, <3>3 DEF TestPasses
      <4>2. row' \in Row /\ row'.verified = row'.settings /\ row'.settings = job[a].expected
        BY <1>0, <3>1, <3>3, <4>1 DEF Row, SettingsOrNone
      <4>3. VerifiedWasTested' /\ EnabledIsVerified'
        BY <3>1, <4>2 DEF VerifiedWasTested, EnabledIsVerified
      <4>4. MemoryFollows' /\ LiveTested'
        BY <4>1, <4>2, <4>3, ReloadFollows
      <4> QED
        BY <3>2, <4>3, <4>4
    <3>4. CASE ~(row # None /\ row.settings = job[a].expected)
      <4>1. UNCHANGED configVars
        BY <2>13, <3>4 DEF TestPasses
      <4> QED
        BY <2>2, <3>1, <3>2, <4>1 DEF configVars, MemoryFollows, VerifiedWasTested,
                                      EnabledIsVerified, LiveTested
    <3> QED
      BY <3>3, <3>4
  <2>14. ASSUME TestFails(a) PROVE Parts'
    <3>1. BegunAlike'
      BY <1>0, <2>3, <2>14 DEF TestFails, history
    <3> QED
      BY <2>6, <2>14, <3>1 DEF TestFails, history
  <2>15. ASSUME Enable(a) \/ Disable(a) PROVE Parts'
    <3>1. /\ row \in Row /\ row' \in Row /\ Reload /\ UNCHANGED <<job, tested>>
          /\ row'.settings = row.settings /\ row'.verified = row.verified
      BY <1>0, <2>15 DEF Enable, Disable, Row, history
    <3>2. VerifiedWasTested' /\ EnabledIsVerified'
      BY <1>0, <2>2, <2>15, <3>1
      DEF Enable, Disable, MayEnable, VerifiedWasTested, EnabledIsVerified, Row
    <3>3. MemoryFollows' /\ LiveTested'
      BY <3>1, <3>2, ReloadFollows
    <3>4. BegunAlike'
      BY <2>2, <3>1 DEF BegunAlike
    <3> QED
      BY <3>2, <3>3, <3>4
  <2>16. ASSUME DeleteConfig(a) PROVE Parts'
    <3>1. row' = None /\ Reload /\ UNCHANGED <<job, tested>>
      BY <2>16 DEF DeleteConfig, history
    <3>2. VerifiedWasTested' /\ EnabledIsVerified'
      BY <3>1 DEF VerifiedWasTested, EnabledIsVerified
    <3>3. MemoryFollows' /\ LiveTested'
      BY <3>1, <3>2, ReloadFollows
    <3>4. BegunAlike'
      BY <2>2, <3>1 DEF BegunAlike
    <3> QED
      BY <3>2, <3>3, <3>4
  <2>17. Parts'
    <3> HIDE DEF Parts
    <3> QED
      BY <1>2, <2>4, <2>5, <2>7, <2>8, <2>9, <2>10, <2>11, <2>12, <2>13, <2>14, <2>15, <2>16
      DEF ConfigStep
  <2> QED
    BY <2>17 DEF ConfigInv
<1>3. ASSUME UserStep PROVE ConfigInv'
  BY <1>1, <1>3 DEF UserStep, Setup, CreateUser, ChangeUsername, UpdateRole, DeleteUser, Change
<1>4. ASSUME NEW p \in People, SignInStep(p) PROVE ConfigInv'
  BY <1>1, <1>4 DEF SignInStep, SignInReturns, SignInFails, KnownSignsIn, NewSignsIn
<1>5. CASE Restart
  <2>1. /\ UNCHANGED <<row, tested, crossed>> /\ Reload
        /\ job' = [a \in Admins |->
                     IF job[a] # Idle /\ job[a].step = "testing" THEN job[a] ELSE Idle]
    BY <1>5 DEF Restart, history
  <2>2. Parts
    BY <2>1 DEF ConfigInv
  <2>3. VerifiedWasTested' /\ EnabledIsVerified' /\ row' \in Row \cup {None}
    BY <1>0, <2>1, <2>2 DEF VerifiedWasTested, EnabledIsVerified
  <2>4. MemoryFollows' /\ LiveTested'
    BY <2>1, <2>3, ReloadFollows
  <2>5. BegunAlike'
    BY <1>0, <2>1, <2>2 DEF BegunAlike
  <2> QED
    BY <2>3, <2>4, <2>5 DEF ConfigInv
<1>6. CASE UNCHANGED vars
  BY <1>1, <1>6 DEF vars
<1> QED
  BY <1>2, <1>3, <1>4, <1>5, <1>6 DEF Next

(* Nobody signs in at a provider, or as a client of it, that no browser test  *)
(* went through, as long as no registration has crossed.                     *)
THEOREM LiveAlwaysTested == Spec => []LiveWasTested
<1>1. Init => ConfigInv
  BY DEF Init, ConfigInv, MemoryFollows, VerifiedWasTested, EnabledIsVerified, LiveTested,
         BegunAlike
<1>2. ConfigInv => LiveWasTested
  BY DEF ConfigInv, LiveTested, LiveWasTested
<1> QED
  BY <1>1, <1>2, TypeInit, TypeStep, ConfigInvStep, PTL DEF Spec
=============================================================================
