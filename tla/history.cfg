SPECIFICATION Spec
CONSTANTS
    MinutesPerHour = 2
    HoursPerDay = 2
    None = None
    MaxMinute = 3
    MaxSamples = 2
    MaxSnapshots = 2
    MaxLost = 1
    MaxSkipped = 1
INVARIANTS OneAveragePerMinute SamplesKept AverageWins NoMinuteMissing
