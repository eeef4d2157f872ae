SPECIFICATION Spec
CONSTANTS
    a = a
    b = b
    c = c
    Service <- ServiceMC
    Singleton <- SingletonMC
    SelfMade <- SelfMadeMC
    DepList <- DepListMC
    MaxBoots = 2
INVARIANTS
    BootSafe
PROPERTIES
    DependentsStopFirst
CHECK_DEADLOCK FALSE
