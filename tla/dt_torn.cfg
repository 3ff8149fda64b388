SPECIFICATION FairSpec
CONSTANTS
    DT_NODE_NB = 3
    Features <- AllFeatures
    CPUs = {c1, c2}
    Packets <- TornPackets
    NoPacket = NoPacket
    Trained <- MCTrained7
    RingSlots = 1
    TornStores = TRUE
    Garbage = Garbage
INVARIANTS
    LoopReturns
    SettledVerdict
PROPERTIES
    InvocationReturns
    RingRegainsRoom
    QuietShutdown
    ImplementsIds
