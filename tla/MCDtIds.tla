-------------------------------- MODULE MCDtIds --------------------------------
(***************************************************************************)
(* Instances of DtIds for TLC: a small trained tree, the packets that      *)
(* reach each of its leaves, and the packets parsing rejects.              *)
(***************************************************************************)
EXTENDS DtIdsRefinement, TLC

MCSymmetry == Permutations(CPUs)

Inner(index, threshold, left, right) ==
    [threshold |-> threshold,
     feature |-> [left |-> left, right |-> right, defined |-> TRUE, index |-> index]]

AllFeatures == {F_S_PORT, F_D_PORT, F_PROTOCOL, F_PKT_SIZE}

ProtocolOnly == {F_PROTOCOL}

\* Three levels: the walk of a small packet runs off the array at index >= 7,
\* the walk of a large one stops at the undefined node 2.
MCTrained7 ==
    [i \in Index |->
        CASE i = 0 -> Inner(3, 100, TRUE, FALSE)
          [] i = 1 -> Inner(2, 6, FALSE, TRUE)
          [] i = 3 -> Inner(1, 53, TRUE, FALSE)
          [] i = 4 -> Inner(0, 1000, FALSE, TRUE)
          [] OTHER -> ZeroNode]

\* One level, on the protocol.
MCTrained3 ==
    [i \in Index |-> IF i = 0 THEN Inner(2, 6, TRUE, FALSE) ELSE ZeroNode]

\* The same tree when F_PROTOCOL is the only feature.
MCTrainedProto ==
    [i \in Index |-> IF i = 0 THEN Inner(0, 6, TRUE, FALSE) ELSE ZeroNode]

Packet(hdrs, ip, proto, sport, dport, size) ==
    [hdrs |-> hdrs, ip |-> ip, proto |-> proto,
     sport |-> sport, dport |-> dport, size |-> size]

Dns      == Packet(3, TRUE, IPPROTO_TCP, 900, 53, 60)
Web      == Packet(3, TRUE, IPPROTO_TCP, 900, 80, 60)
UdpLow   == Packet(3, TRUE, IPPROTO_UDP, 900, 80, 90)
UdpHigh  == Packet(3, TRUE, IPPROTO_UDP, 2000, 80, 90)
Bulk     == Packet(3, TRUE, IPPROTO_TCP, 900, 80, 1500)
ShortTcp == Packet(2, TRUE, IPPROTO_TCP, 900, 80, 40)
ShortUdp == Packet(2, TRUE, IPPROTO_UDP, 900, 80, 38)
ShortIp  == Packet(1, TRUE, IPPROTO_TCP, 900, 80, 20)
ShortEth == Packet(0, FALSE, 0, 0, 0, 8)
Arp      == Packet(3, FALSE, 0, 0, 0, 60)

IdsPackets  == {Dns, UdpLow, ShortTcp, Arp}
TornPackets == {Dns, Bulk, Arp}
RingPackets == {Web, UdpLow, ShortEth, Arp}
===============================================================================
