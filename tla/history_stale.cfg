SPECIFICATION Spec
CONSTANTS
    MinutesPerHour = 2
    HoursPerDay = 2
    None = None
    MaxMinute = 3
    MaxSamples = 1
    MaxSnapshots = 1
    MaxLost = 0
    MaxSkipped = 0
INVARIANTS ParentsCurrent
