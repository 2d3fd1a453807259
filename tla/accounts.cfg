SPECIFICATION Spec
CONSTANTS
    a1 = a1
    a2 = a2
    i1 = i1
    i2 = i2
    c1 = c1
    c2 = c2
    groups = groups
    person = person
    alice = alice
    bob = bob
    bobby = bobby
    NoClient = NoClient
    None = None
    Admins <- MCAdmins
    Issuers <- MCIssuers
    Clients <- MCClients
    Policies <- MCPolicies
    People <- MCPeople
    Names <- MCSpelled
    Casefold <- MCSpellings
    MaxAccounts = 2
    MaxRequests = 5
    MaxRestarts = 1
SYMMETRY Symmetry
INVARIANT LiveWasTested
INVARIANT IdentitiesMatch
INVARIANT AdministratorRemains
CHECK_DEADLOCK FALSE
