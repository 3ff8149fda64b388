SPECIFICATION FairSpec
CONSTANTS
    Hooks = {"xdp", "tc", "tracepoint", "execve"}
    CPUs = {c1, c2}
    Packets <- ByHook
    RingSlots = 2
    MaxPackets = 3
    Garbage = Garbage
INVARIANTS
    TypeOK
    LogInOrder
    LinesTrue
    LinesWritten
    DropsOnlyFullXdp
    StatusTold
PROPERTIES
    EventsPrinted
    StopsWhenQuiet
