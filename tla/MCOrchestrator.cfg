SPECIFICATION Spec
CONSTANTS
    MaxSubtasks = 3
    MaxIterations = 20
    MaxRetries = 2
INVARIANTS
    RunHolds
    GuardNeverCutsShort
PROPERTIES
    Terminates
    ImplementsTaskDag
