SPECIFICATION Spec
CONSTANTS
    Targets = {ups}
    Global = Global
    Events = {COMMBAD, ONBATT}
    CommEvents = {COMMBAD}
    Senders = {s1}
    MaxId = 2
    Window = 1
    Chosen = {ups}
    Configured <- NoneOrAll
    None = None
    MaxEvents = 2
    MaxRequests = 2
    MaxInputs = 3
    Losses <- SomeLosses
    MaxFaults = 1
INVARIANTS ReachesChosen RoutesResolve OneDefault
CHECK_DEADLOCK FALSE
