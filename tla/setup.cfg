SPECIFICATION Spec
CONSTANTS
    anna = anna
    ben = ben
    attic = attic
    cellar = cellar
    office = office
    None = None
    Users = {anna, ben}
    Configs = {attic, cellar, office}
    NetClient = {office}
    Unusable <- Disks
    MaxRequests = 3
    MaxFaults = 1
SYMMETRY Symmetry
CHECK_DEADLOCK FALSE
INVARIANTS SavedIsKept NoServerLeftBehind
