SPECIFICATION Spec
CONSTANTS
    w1 = w1
    w2 = w2
    Workers <- WorkersMC
    MaxSubtasks = 3
INVARIANTS
    WorkIsKept
    CompleteUnlessGaveUp
PROPERTIES
    Terminates
