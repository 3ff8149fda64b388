SPECIFICATION Spec
CONSTANTS
    DT_NODE_NB = 3
    Features <- ProtocolOnly
    CPUs = {c1}
    Packets <- RingPackets
    NoPacket = NoPacket
    Trained <- MCTrainedProto
    RingSlots = 2
    TornStores = FALSE
    Garbage = Garbage
INVARIANT DebugPortsRetrieved
