SPECIFICATION DumpSpec
CONSTANTS
    CPUs = {c1}
    Packets <- ThreeKeys
    NoPacket = NoPacket
    MaxEntries = 2
    MaxPackets = 4
    NoValue = NoValue
    MaxRows = 4
INVARIANT RowsReadFromMap
