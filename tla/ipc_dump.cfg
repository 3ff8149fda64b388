SPECIFICATION DumpSpec
CONSTANTS
    CPUs = {c1, c2}
    Packets <- ThreeKeys
    NoPacket = NoPacket
    MaxEntries = 3
    MaxPackets = 4
    NoValue = NoValue
    MaxRows = 4
SYMMETRY MCSymmetry
INVARIANTS
    TypeOK
    UndercountBounded
    BytesLag
    CountedOnce
    DumpComplete
    RowsCurrent
