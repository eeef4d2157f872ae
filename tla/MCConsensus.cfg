SPECIFICATION MCSpec
CONSTANTS
    n1 = n1
    n2 = n2
    n3 = n3
    Node <- NodeMC
    None = None
    MaxTerm = 2
    MaxEvents = 3
    MaxSnapshots = 2
SYMMETRY Symmetry
INVARIANTS
    ElectionsHold
    LogsHold
PROPERTIES
    DeposedForCause
