SPECIFICATION Spec
CONSTANTS
    CommBadThreshold = 2
    NoCommThreshold = 3
    Targets = {1}
    Every <- EveryWakeUp
    Samples <- LineSamples
    MaxFaults = 1
    MaxEscapes = 0
    MaxRestarts = 0
    MaxAsked = 0
INVARIANTS NoFalseCommBad
