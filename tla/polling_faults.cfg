SPECIFICATION FairSpec
CONSTANTS
    CommBadThreshold = 2
    NoCommThreshold = 3
    Targets = {1}
    Every <- EveryWakeUp
    Samples <- PowerSamples
    MaxFaults = 1
    MaxEscapes = 1
    MaxRestarts = 1
    MaxAsked = 1
INVARIANTS PowerAlternates DownIsShown
PROPERTIES OutageAnnounced
