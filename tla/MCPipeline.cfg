SPECIFICATION FairSpec
CONSTANTS
    N = 2
    R = 2
    B = 2
    MaxInFlight = 1
    Restartable = {2}
    MaxRestarts = 1
    MaxFaults = 1
    none = none
    topk50 = topk50
    topk10 = topk10
    int8 = int8
    NoConfig = NoConfig
    Configs <- MCConfigs
    MethodOf <- MCMethodOf
    RunConfig <- MCRunConfig
    Default <- MCDefault
INVARIANTS
    TypeOK
    RecordedUnderRunConfig
    ChainOfCustody
    EveryBatchRecorded
PROPERTIES
    ImplementsSweep
    EndNodesAreNodeServers
    SweepEnds
CHECK_DEADLOCK FALSE
