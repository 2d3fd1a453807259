SPECIFICATION FairSpec
CONSTANTS
    CommBadThreshold = 2
    NoCommThreshold = 3
    Targets = {1, 2}
    Every <- SecondSlow
    Samples <- LineSamples
    MaxFaults = 1
    MaxEscapes = 0
    MaxRestarts = 0
    MaxAsked = 0
INVARIANTS OutageInv Debounced
PROPERTIES ReportsOutages RecoveryAnnounced
