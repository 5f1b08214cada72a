\* A sub-experiment's own dataset in a Llama experiment.
SPECIFICATION Spec
CONSTANTS
    Text <- MCText
    Scenarios <- LlamaOnly
    Edits = {}
    Filters <- MCFilters
INVARIANT OwnDataset
CHECK_DEADLOCK FALSE
