SPECIFICATION FairSpec
CONSTANTS
    N = 2
    R = 2
    B = 1
    Window = 1
    Restartable = {2}
    MaxRestarts = 1
    MaxFaults = 1
    a = a
    b = b
    none = none
    topk50 = topk50
    topk10 = topk10
    int8 = int8
    NoConfig = NoConfig
    NoCompression = none
    Pipelines <- MCPipelines
    Configs <- MCConfigs
    MethodOf <- MCMethodOf
    RoundConfig <- MCRoundConfig
INVARIANTS
    RecordedUnderRoundConfig
    EveryTaskRecorded
PROPERTIES
    ImplementsSweep
    RoundsEnd
CHECK_DEADLOCK FALSE
