SPECIFICATION FairSpec
CONSTANTS
    a1 = a1
    a2 = a2
    Agents = {a1}
    Values = {1, 2}
    Minute = 2
    Hour = 4
    MaxLag = 1
    OneMinKeep = 8
    OneHourKeep = 8
    MaxNow = 9
    MaxSamples = 4
    MaxStops = 0
    MaxCrashes = 0
    MaxDbErrors = 0
    MaxDeletes = 1
CHECK_DEADLOCK FALSE
INVARIANTS
    TypeOK
PROPERTIES
    KeepsLedger
    HourNeverShrinks
    HourCatchesUp
