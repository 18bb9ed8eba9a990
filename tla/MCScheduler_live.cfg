SPECIFICATION MCFairSpec
CONSTANTS
    t1 = t1
    t2 = t2
    a1 = a1
    a2 = a2
    s1 = s1
    s2 = s2
    boot = boot
    adm = adm
    adm2 = adm2
    Scope <- ForAll
    Boot = boot
    Tasks = {t1}
    Agents = {a1}
    Slots = {s1}
    Admins = {boot, adm}
    ResultKeep = 0
    MaxRuns = 2
    MaxRequests = 0
    MaxSaves = 1
    MaxCrashes = 0
    MaxDbErrors = 0
    Interval <- One
    Retries <- NoRetry
CHECK_DEADLOCK FALSE
PROPERTIES
    TickerDelivers
