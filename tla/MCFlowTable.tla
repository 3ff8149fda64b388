----------------------------- MODULE MCFlowTable -----------------------------
(* Instances of FlowTable for TLC. *)
EXTENDS FlowTable

CONSTANTS c1, c2

Packet(proto, addrs, ports, size, cpus) ==
    [proto |-> proto, addrs |-> addrs, ports |-> ports, size |-> size, cpus |-> cpus]

\* A TCP flow of two sizes, always on the first CPU, and a UDP flow on either.
Steered == {Packet(IPPROTO_TCP, 1, 80, 7, {c1}), Packet(IPPROTO_TCP, 1, 80, 2, {c1}),
            Packet(IPPROTO_UDP, 2, 53, 3, {c1, c2})}
===============================================================================
