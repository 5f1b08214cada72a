SPECIFICATION FairSpec
CONSTANTS
    Events <- MCEvents
    BufferSize = 3
    BatchSize = 2
    MaxRetries = 2
INVARIANTS TypeOK Accounted BoundedDuplicates
PROPERTIES StopsAndDrains
CHECK_DEADLOCK FALSE
