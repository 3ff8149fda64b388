SPECIFICATION Spec
CONSTANTS
    Hooks = {"xdp"}
    CPUs = {c1, c2}
    Packets <- ByHook
    RingSlots = 1
    MaxPackets = 3
    Garbage = Garbage
INVARIANT PassesEverything
