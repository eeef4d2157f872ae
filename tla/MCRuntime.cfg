SPECIFICATION RuntimeSpec
CONSTANTS
    s1 = s1
    s2 = s2
    c1 = c1
    c2 = c2
    Sessions <- SessionsMC
    Consumers <- ConsumersMC
    Peers = {p1}
    Intents <- IntentsMC
    Vetoes <- VetoesMC
    NoNode = NoNode
    MaxMessages = 2
INVARIANTS
    RuntimeHolds
PROPERTIES
    NothingLeftWaiting
CHECK_DEADLOCK FALSE
