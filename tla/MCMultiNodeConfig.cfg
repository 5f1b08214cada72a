SPECIFICATION HFairSpec
CONSTANTS
    a = a
    b = b
    ghost = ghost
    a1 = a1
    a2 = a2
    b1 = b1
    b2 = b2
    stray = stray
    set1 = set1
    set2 = set2
    setB = setB
    bad = bad
    cNone = cNone
    c1 = c1
    c2 = c2
    NaN = NaN
    Pipelines <- MCPipelines
    PipeOf <- MCTaskPipes
    PipeUpdated <- MCPipeUpdated
    Direction <- MCDirection
    Value <- MCValue
    Configs <- MCConfigs
    NoCompression = cNone
    Weights <- MCWeights
    InitialWeight = 2
    Scale = 4
    Tasks = {a1, b1}
    Updates = {set1, set2, bad}
    WeightCalls = {}
    Costs = {1}
    IsLast = FALSE
    MaxRestarts = 1
INVARIANTS IdleExact EarlierTasksServed 
PROPERTIES NothingHangs
CHECK_DEADLOCK FALSE
