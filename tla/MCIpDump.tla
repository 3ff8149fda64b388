------------------------------- MODULE MCIpDump -------------------------------
(* Instances of IpDump for TLC. *)
EXTENDS IpDump, TLC

MCSymmetry == Permutations(CPUs)

Packet(hdrs, ip, pair, size) == [hdrs |-> hdrs, ip |-> ip, pair |-> pair, size |-> size]

\* Two pairs and an error.
ThreeKeys == {Packet(2, TRUE, 1, 10), Packet(2, TRUE, 2, 7), Packet(1, TRUE, 1, 3)}
===============================================================================
