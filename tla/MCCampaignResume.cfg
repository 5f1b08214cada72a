SPECIFICATION Spec
CONSTANTS
    i1 = i1
    i2 = i2
    Ids <- MCIds
    Stored = {{}}
    Kinds = {"single"}
    NumRuns = 2
    Firsts = {1, 2}
    NumBatches = 1
    Nodes = {n1}
    n1 = n1
    MaxRetries = 2
    MaxStarts = 1
    MaxFaults = 0
INVARIANTS NeverSilentlyDropped
CHECK_DEADLOCK FALSE
