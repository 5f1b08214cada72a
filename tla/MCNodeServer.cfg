SPECIFICATION HSpec
CONSTANTS
    r1 = r1
    r2 = r2
    u1 = u1
    u2 = u2
    bad = bad
    c0 = c0
    c1 = c1
    c2 = c2
    Requests <- MCRequests
    Updates <- MCUpdates
    Configs <- MCConfigs
    Direction <- MCDirection
    Value <- MCValue
    Default <- MCDefault
    IsLast = FALSE
    MaxRestarts = 1
INVARIANTS
    TypeOK
    CounterExact
    NoLostWakeup
    EarlierRequestsDone
    
    ProbeStartsIdle
PROPERTIES
    NothingHangs
CHECK_DEADLOCK FALSE
