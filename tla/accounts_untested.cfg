SPECIFICATION Spec
CONSTANTS
    a1 = a1
    a2 = a2
    i1 = i1
    i2 = i2
    c1 = c1
    c2 = c2
    groups = groups
    person = person
    alice = alice
    bob = bob
    bobby = bobby
    NoClient = NoClient
    None = None
    Admins <- MCAdmins
    Issuers <- MCOneIssuer
    Clients <- MCTwoClients
    Policies <- MCPolicies
    People <- MCPeople
    Names <- MCNames
    Casefold <- MCCasefold
    MaxAccounts = 2
    MaxRequests = 5
    MaxRestarts = 1
INVARIANT EnabledWasTested
CHECK_DEADLOCK FALSE
