SPECIFICATION Spec
CONSTANTS
    n1 = n1
    Nodes = {n1}
    NumPipelines = 2
    Schemes <- MCSchemes
    Subs <- MCSubs
    NumMus = 2
    NumSlots = 3
    Interval = 2
    MaxStarts = 2
    MaxFaults = 1
INVARIANTS DecisionsAreCausal SlotsRunAsDecided ModelsMatchScheme
CHECK_DEADLOCK FALSE
