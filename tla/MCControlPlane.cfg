SPECIFICATION Spec
CONSTANTS
    n1 = n1
    n2 = n2
    n3 = n3
    j1 = j1
    Nodes <- NodesMC
    NoNode = NoNode
    Rank <- RankMC
    MaxRank = 15
    HeartbeatTimeout = 1
    JobIds <- JobIdsMC
    MaxNow = 3
    MaxTasks = 3
INVARIANTS
    RegistryHolds
PROPERTIES
    NoTaskForTheSilent
