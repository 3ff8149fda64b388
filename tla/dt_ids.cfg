SPECIFICATION Spec
CONSTANTS
    DT_NODE_NB = 5
    Features <- AllFeatures
    CPUs = {c1, c2}
    Packets <- IdsPackets
    NoPacket = NoPacket
    Trained <- MCTrained7
    RingSlots = 2
    TornStores = FALSE
    Garbage = Garbage
SYMMETRY MCSymmetry
INVARIANTS
    TypeOK
    PrefixVerdict
    RingBlind
    ReservationsHeld
    LoggedTruth
