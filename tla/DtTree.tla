-------------------------------- MODULE DtTree --------------------------------
(***************************************************************************)
(* The data side of src/src/dt_xdp.bpf.c: the feature vector, the parsing  *)
(* of one packet, and one step of the decision-tree walk.  All of it is    *)
(* pure: the shared state and the interleavings are in DtIds.              *)
(*                                                                         *)
(* A packet keeps what the code tells apart:                               *)
(*   hdrs   the number of complete headers before data_end (0 none,        *)
(*          1 Ethernet, 2 and IP, 3 and TCP/UDP)                           *)
(*   ip     its EtherType is ETH_P_IP                                      *)
(*   proto, sport, dport, size   the values the features are read from     *)
(*                                                                         *)
(* A node is the dt_node of src/include/ml_dt.h, with the feature byte     *)
(* split into its bits: 7 (pass left), 6 (pass right), 5 (defined, inner   *)
(* node) and 4..0 (index into the feature vector).                         *)
(***************************************************************************)
EXTENDS Integers, Sequences, FiniteSets

CONSTANTS
    DT_NODE_NB,   \* entries of dt_nodes_array
    Features      \* the bits set in FEATURES

\* The bound src/include/ml_dt.h states: "0<DT_NODE_NB<256".
ASSUME NodeNbAssumption == DT_NODE_NB \in 1..255

\* Packet features only: no bit of F_RANGE_FLOW.
ASSUME FeaturesAssumption == Features \subseteq 0..31

F_S_PORT   == 0
F_D_PORT   == 1
F_PROTOCOL == 2
F_PKT_SIZE == 3

FEATURE_NB == Cardinality(Features)

IPPROTO_TCP == 6
IPPROTO_UDP == 17

-------------------------------------------------------------------------------
(* The feature vector. *)

FVIndex == 0..(FEATURE_NB - 1)
ZeroVector == [k \in FVIndex |-> 0]

\* The loop of fvifupdate: chosen features below this one.
FeatureIndex(f) == Cardinality({g \in Features : g < f})

fvifupdate(fv, f, newval) ==
    IF f \in Features THEN [fv EXCEPT ![FeatureIndex(f)] = newval] ELSE fv

-------------------------------------------------------------------------------
(* parse_update; "ne" says whether the event record was reserved. *)

PortFeatures == (Features \cap {F_S_PORT, F_D_PORT}) # {}

\* Mutant: the ports are read for the debug record only.
ReadsPorts_DebugOnly(ne) == ne

ReadsPorts(ne) == PortFeatures \/ ne
ReadsTcp(p, ne) == ReadsPorts(ne) /\ p.proto = IPPROTO_TCP
ReadsUdp(p, ne) == ReadsPorts(ne) /\ PortFeatures /\ p.proto = IPPROTO_UDP

ParseResult(p, ne) ==
    CASE p.hdrs = 0                               -> -1
      [] p.hdrs > 0 /\ ~p.ip                      -> -2
      [] p.hdrs = 1 /\ p.ip                       -> -3
      [] p.hdrs = 2 /\ p.ip /\ ReadsTcp(p, ne)    -> -4
      [] p.hdrs = 2 /\ p.ip /\ ReadsUdp(p, ne)    -> -5
      [] OTHER                                    -> 0

Ports(p, ne) ==
    IF ReadsTcp(p, ne) \/ ReadsUdp(p, ne) THEN <<p.sport, p.dport>> ELSE <<0, 0>>

\* The vector of a packet whose parsing succeeds.
FeatureVector(p, ne) ==
    LET base == fvifupdate(fvifupdate(ZeroVector, F_PROTOCOL, p.proto),
                           F_PKT_SIZE, p.size)
    IN  IF ReadsPorts(ne)
        THEN fvifupdate(fvifupdate(base, F_D_PORT, Ports(p, ne)[2]),
                        F_S_PORT, Ports(p, ne)[1])
        ELSE base

\* What parsing writes into the event "ev" of a packet: the header fields once
\* the IP header is complete, the ports only when no later step fails.
ParsedEvent(p, ne, ev) ==
    [ev EXCEPT !.hdr   = IF p.ip /\ p.hdrs >= 2 THEN <<p.proto, p.size>> ELSE @,
               !.ports = IF ParseResult(p, ne) = 0 THEN Ports(p, ne) ELSE @]

-------------------------------------------------------------------------------
(* One iteration of classify_dt. *)

Index == 0..(DT_NODE_NB - 1)
FeatureByte == [left : BOOLEAN, right : BOOLEAN, defined : BOOLEAN, index : 0..31]
DtNode == [threshold : Nat, feature : FeatureByte]

\* An array map starts zeroed; so does the loader's local copy.
ZeroNode == [threshold |-> 0,
             feature |-> [left |-> FALSE, right |-> FALSE,
                          defined |-> FALSE, index |-> 0]]

\* Past the array, or at a node that is a leaf or undefined (bit 5 clear).
AtEnd(tree, i) == i < DT_NODE_NB => ~tree[i].feature.defined

FeatureValue(node, fv) ==
    IF node.feature.index < FEATURE_NB THEN fv[node.feature.index] ELSE 0

GoesLeft(node, fv) == FeatureValue(node, fv) <= node.threshold

Child(node, i, fv) == IF GoesLeft(node, fv) THEN 2 * i + 1 ELSE 2 * i + 2
BranchPass(node, fv) ==
    IF GoesLeft(node, fv) THEN node.feature.left ELSE node.feature.right

-------------------------------------------------------------------------------
(* What a complete walk is, without the loop: its path through a tree. *)

Follows(tree, fv, path) ==
    /\ path # <<>>
    /\ path[1] = 0
    /\ \A k \in 1..(Len(path) - 1) :
          /\ ~AtEnd(tree, path[k])
          /\ path[k + 1] = Child(tree[path[k]], path[k], fv)

\* The decision a path stands for: the branch its last step took.
PathPass(tree, fv, path) ==
    IF Len(path) = 1 THEN TRUE
    ELSE BranchPass(tree[path[Len(path) - 1]], fv)

\* The decision of a tree, computed by following it: "from" of a node and the
\* decision so far, the loop's i and pass, is the decision at the end.
Walk(tree, fv) ==
    LET from[s \in (0..(2 * DT_NODE_NB)) \X BOOLEAN] ==
            IF AtEnd(tree, s[1]) THEN s[2]
            ELSE from[<<Child(tree[s[1]], s[1], fv), BranchPass(tree[s[1]], fv)>>]
    IN  from

TreeVerdict(tree, fv) == Walk(tree, fv)[<<0, TRUE>>]
===============================================================================
