SPECIFICATION Spec
CONSTANTS
    a1 = a1
    a2 = a2
    Agents = {a1, a2}
    Values = {1, 2}
    Minute = 2
    Hour = 4
    MaxLag = 2
    OneMinKeep = 4
    OneHourKeep = 8
    MaxNow = 5
    MaxSamples = 3
    MaxStops = 1
    MaxCrashes = 1
    MaxDbErrors = 1
    MaxDeletes = 0
CHECK_DEADLOCK FALSE
INVARIANTS
    NothingCountedTwice
