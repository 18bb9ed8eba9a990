SPECIFICATION MCSpec
CONSTANTS
    t1 = t1
    t2 = t2
    a1 = a1
    a2 = a2
    s1 = s1
    s2 = s2
    boot = boot
    adm = adm
    adm2 = adm2
    Scope <- ForAll
    Boot = boot
    Tasks = {t1}
    Agents = {a1}
    Slots = {s1, s2}
    Admins = {boot, adm, adm2}
    ResultKeep = 0
    MaxRuns = 2
    MaxRequests = 1
    MaxSaves = 2
    MaxCrashes = 1
    MaxDbErrors = 1
    Interval <- One
    Retries <- One
SYMMETRY Requesters
CHECK_DEADLOCK FALSE
INVARIANTS
    TypeOK
    FailureIsFinal
    MemoryAgrees
PROPERTIES
    KeepsProbeLedger
