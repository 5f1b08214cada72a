SPECIFICATION FairSpec
CONSTANTS
    i1 = i1
    i2 = i2
    Ids <- MCIds
    Stored <- MCStored
    Kinds = {"single", "multi"}
    NumRuns = 2
    Firsts = {1, 2}
    NumBatches = 1
    Nodes = {n1}
    n1 = n1
    MaxRetries = 2
    MaxStarts = 2
    MaxFaults = 2
INVARIANTS SkipsAreEarned RepeatsAccountedFor
PROPERTIES StartsEnd
CHECK_DEADLOCK FALSE
