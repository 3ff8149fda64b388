SPECIFICATION Spec
CONSTANTS
    c1 = c1
    c2 = c2
    CPUs = {c1, c2}
    Packets <- Steered
    NoPacket = NoPacket
    PortFeatures = FALSE
    MaxEntries = 2
    NsPerMs = 2
    U64 = 64
    U32 = 16
    MaxSize = 7
    MaxPackets = 3
    MaxTime = 4
INVARIANTS
    TypeOK
    FeaturesExact
    DivisorPositive
    FlowSettled
