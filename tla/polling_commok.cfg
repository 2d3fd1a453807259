SPECIFICATION Spec
CONSTANTS
    CommBadThreshold = 2
    NoCommThreshold = 3
    Targets = {1}
    Every <- EveryWakeUp
    Samples <- LineSamples
    MaxFaults = 0
    MaxEscapes = 1
    MaxRestarts = 0
    MaxAsked = 0
INVARIANTS CommOkFollowsCommBad
