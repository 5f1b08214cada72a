\* Generator, deployment and what a run measures.
SPECIFICATION Spec
CONSTANTS
    Text <- MCText
    Scenarios <- MCScenarios
    Edits <- MCEdits
    Filters <- MCFilters
INVARIANT BaselinesResolve
INVARIANT RunsMeasureTheExperiment
INVARIANT SegmentsMatchFlows
CHECK_DEADLOCK FALSE
