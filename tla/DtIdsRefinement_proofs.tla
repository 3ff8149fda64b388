------------------------ MODULE DtIdsRefinement_proofs ------------------------
(***************************************************************************)
(* What TLAPS proves of the verdicts of DtIds against what they are        *)
(* computed from, for every number of CPUs, every tree, every set of       *)
(* packets and every ring size: a settled packet gets the decision         *)
(* TreeVerdict computes from the trained tree, the log tells that          *)
(* decision, the ring has no say in it, and DtIds implements IdsVerdict.   *)
(*                                                                         *)
(* The walk is a recursive function; that its recursion ends is proved     *)
(* here from the numbering of the nodes.                                   *)
(***************************************************************************)
EXTENDS DtIdsRefinement, DtIds_proofs, SumTheorems

-------------------------------------------------------------------------------
(* The recursion of Walk. *)

\* w is the function of Walk on the nodes from lo on.
WalksFrom(tree, fv, w, lo) ==
    w = [s \in (lo..(2 * DT_NODE_NB)) \X BOOLEAN |->
            IF AtEnd(tree, s[1]) THEN s[2]
            ELSE w[<<Child(tree[s[1]], s[1], fv), BranchPass(tree[s[1]], fv)>>]]

LEMMA WalkIsChosen ==
    ASSUME NEW tree, NEW fv, \E w : WalksFrom(tree, fv, w, 0)
    PROVE  WalksFrom(tree, fv, Walk(tree, fv), 0)
BY DEF WalksFrom, Walk

\* A child of an inner node of the array is a later place, at most twice as far.
LEMMA ChildIsLater ==
    ASSUME NEW tree \in [Index -> DtNode], NEW fv, NEW i \in Nat, ~AtEnd(tree, i)
    PROVE  /\ i \in Index
           /\ Child(tree[i], i, fv) \in (2 * i + 1)..(2 * DT_NODE_NB)
           /\ BranchPass(tree[i], fv) \in BOOLEAN
<1>1. i \in Index /\ i < DT_NODE_NB
    BY NodeNbAssumption DEF AtEnd, Index
<1>2. Child(tree[i], i, fv) \in (2 * i + 1)..(2 * DT_NODE_NB)
    BY <1>1, NodeNbAssumption DEF Child
<1>3. tree[i] \in DtNode
    BY <1>1
<1> QED
    BY <1>1, <1>2, <1>3 DEF BranchPass, DtNode, FeatureByte

\* One node more at the front.
LEMMA WalkExtends ==
    ASSUME NEW tree \in [Index -> DtNode], NEW fv, NEW n \in 1..(2 * DT_NODE_NB + 1),
           NEW w, WalksFrom(tree, fv, w, n)
    PROVE  \E v : WalksFrom(tree, fv, v, n - 1)
<1> DEFINE D == ((n - 1)..(2 * DT_NODE_NB)) \X BOOLEAN
           next(s) == <<Child(tree[s[1]], s[1], fv), BranchPass(tree[s[1]], fv)>>
           v == [s \in D |->
                    IF s[1] = n - 1
                    THEN IF AtEnd(tree, s[1]) THEN s[2] ELSE w[next(s)]
                    ELSE w[s]]
<1>1. DT_NODE_NB \in Nat /\ n \in Nat /\ n >= 1
    BY NodeNbAssumption
<1>2. ASSUME NEW s \in D, ~AtEnd(tree, s[1])
      PROVE  v[next(s)] = w[next(s)]
    <2>1. s[1] \in Nat /\ s[1] >= n - 1
        BY <1>1
    <2>2. /\ Child(tree[s[1]], s[1], fv) \in n..(2 * DT_NODE_NB)
          /\ BranchPass(tree[s[1]], fv) \in BOOLEAN
        <3> DEFINE i == s[1]
        <3> HIDE DEF i
        <3>1. /\ Child(tree[i], i, fv) \in (2 * i + 1)..(2 * DT_NODE_NB)
              /\ BranchPass(tree[i], fv) \in BOOLEAN
            BY <1>2, <2>1, ChildIsLater DEF i
        <3>2. Child(tree[i], i, fv) \in n..(2 * DT_NODE_NB)
            BY <1>1, <2>1, <3>1 DEF i
        <3> QED
            BY <3>1, <3>2 DEF i
    <2>3. next(s) \in D /\ next(s)[1] # n - 1
        BY <1>1, <2>2
    <2> HIDE DEF D, next
    <2> QED
        BY <2>3
<1>3. ASSUME NEW s \in D
      PROVE  v[s] = IF AtEnd(tree, s[1]) THEN s[2] ELSE v[next(s)]
    <2>1. CASE s[1] = n - 1
        <3>1. v[s] = IF AtEnd(tree, s[1]) THEN s[2] ELSE w[next(s)]
            BY <2>1
        <3> HIDE DEF D, next, v
        <3> QED
            BY <1>2, <3>1
    <2>2. CASE s[1] # n - 1
        <3>1. s \in (n..(2 * DT_NODE_NB)) \X BOOLEAN
            BY <1>1, <2>2
        <3>2. w[s] = IF AtEnd(tree, s[1]) THEN s[2] ELSE w[next(s)]
            BY <3>1 DEF WalksFrom
        <3>3. v[s] = w[s]
            BY <2>2
        <3> HIDE DEF D, next, v
        <3> QED
            BY <1>2, <3>2, <3>3
    <2> QED
        BY <2>1, <2>2
<1>4. v = [s \in D |-> IF AtEnd(tree, s[1]) THEN s[2] ELSE v[next(s)]]
    <2>1. v = [s \in D |-> v[s]]
        OBVIOUS
    <2> HIDE DEF D, next, v
    <2> QED
        BY <1>3, <2>1
<1> QED
    BY <1>4 DEF WalksFrom

\* Walk is what its definition says: its recursion is on later places of the array.
LEMMA WalkDefined ==
    ASSUME NEW tree \in [Index -> DtNode], NEW fv
    PROVE  WalksFrom(tree, fv, Walk(tree, fv), 0)
<1> DEFINE T == {n \in Nat : n <= 2 * DT_NODE_NB + 1 /\ \E w : WalksFrom(tree, fv, w, n)}
           end == 2 * DT_NODE_NB + 1
<1>1. DT_NODE_NB \in Nat /\ end \in Nat
    BY NodeNbAssumption
<1>2. end \in T
    <2>1. end..(2 * DT_NODE_NB) = {}
        BY <1>1
    <2>2. (end..(2 * DT_NODE_NB)) \X BOOLEAN = {}
        BY <2>1
    <2>3. WalksFrom(tree, fv, [s \in {} |-> 0], end)
        BY <2>2 DEF WalksFrom
    <2> QED
        BY <1>1, <2>3
<1>3. PICK n \in T : \A m \in T : n <= m
    <2>1. T \in SUBSET Nat /\ T # {}
        BY <1>2
    <2> HIDE DEF T
    <2> QED
        BY <2>1, LeastNumber
<1>4. n = 0
    <2> SUFFICES ASSUME n # 0 PROVE FALSE
        OBVIOUS
    <2>1. n \in 1..(2 * DT_NODE_NB + 1) /\ \E w : WalksFrom(tree, fv, w, n)
        BY <1>1
    <2>2. \E v : WalksFrom(tree, fv, v, n - 1)
        BY <2>1, WalkExtends
    <2>3. n - 1 \in T
        BY <1>1, <2>1, <2>2
    <2> QED
        BY <1>3, <2>1, <2>3
<1>5. \E w : WalksFrom(tree, fv, w, 0)
    BY <1>4
<1> QED
    BY <1>5, WalkIsChosen

\* One iteration of classify_dt does not change what the walk will decide.
LEMMA WalkStep ==
    ASSUME NEW tree \in [Index -> DtNode], NEW fv, NEW i \in Nat, NEW d \in BOOLEAN
    PROVE  /\ i <= 2 * DT_NODE_NB /\ AtEnd(tree, i) => Walk(tree, fv)[<<i, d>>] = d
           /\ ~AtEnd(tree, i) =>
                 Walk(tree, fv)[<<i, d>>]
                    = Walk(tree, fv)[<<Child(tree[i], i, fv), BranchPass(tree[i], fv)>>]
<1> DEFINE w == Walk(tree, fv)
<1>1. ~AtEnd(tree, i) => i <= 2 * DT_NODE_NB
    BY NodeNbAssumption DEF AtEnd
<1>2. SUFFICES ASSUME i <= 2 * DT_NODE_NB
               PROVE  w[<<i, d>>] = IF AtEnd(tree, i) THEN d
                                    ELSE w[<<Child(tree[i], i, fv), BranchPass(tree[i], fv)>>]
    BY <1>1
<1>3. <<i, d>> \in (0..(2 * DT_NODE_NB)) \X BOOLEAN /\ <<i, d>>[1] = i /\ <<i, d>>[2] = d
    BY <1>2, NodeNbAssumption
<1>4. WalksFrom(tree, fv, w, 0)
    BY WalkDefined
<1> HIDE DEF w
<1> QED
    BY <1>3, <1>4 DEF WalksFrom

\* The walk ends with a decision, from wherever it is started.
LEMMA WalkBoolean ==
    ASSUME NEW tree \in [Index -> DtNode], NEW fv,
           NEW i \in 0..(2 * DT_NODE_NB), NEW d \in BOOLEAN
    PROVE  Walk(tree, fv)[<<i, d>>] \in BOOLEAN
<1> DEFINE w == Walk(tree, fv)
           end == 2 * DT_NODE_NB
           bad == {n \in Nat : n <= end /\ \E b \in BOOLEAN : w[<<end - n, b>>] \notin BOOLEAN}
<1>0. end \in Nat /\ DT_NODE_NB \in Nat
    BY NodeNbAssumption
<1>1. ASSUME NEW n \in bad, \A m \in bad : n <= m
      PROVE  FALSE
    <2> DEFINE j == end - n
    <2>1. j \in Nat /\ n \in Nat /\ n <= end
        BY <1>0
    <2>2. PICK b \in BOOLEAN : w[<<j, b>>] \notin BOOLEAN
        OBVIOUS
    <2>3. ~AtEnd(tree, j)
        <3>1. j <= 2 * DT_NODE_NB /\ AtEnd(tree, j) => w[<<j, b>>] = b
            <4> HIDE DEF j, bad
            <4> QED
                BY <2>1, WalkStep
        <3> HIDE DEF w
        <3> QED
            BY <1>0, <2>1, <2>2, <3>1
    <2> DEFINE kid == Child(tree[j], j, fv)
               e == BranchPass(tree[j], fv)
    <2>4. w[<<j, b>>] = w[<<kid, e>>]
        BY <2>1, <2>3, WalkStep
    <2>5. kid \in (2 * j + 1)..end /\ e \in BOOLEAN
        BY <2>1, <2>3, ChildIsLater
    <2> HIDE DEF w, kid, e, j
    <2>6. end - kid \in Nat /\ end - kid < n /\ end - kid <= end /\ end - (end - kid) = kid
        BY <1>0, <2>1, <2>5 DEF j
    <2>7. end - kid \in bad
        BY <2>2, <2>4, <2>5, <2>6
    <2> HIDE DEF bad
    <2> QED
        BY <1>1, <2>1, <2>6, <2>7
<1>2. bad = {}
    <2>1. bad \in SUBSET Nat
        OBVIOUS
    <2> HIDE DEF bad
    <2> QED
        BY <1>1, <2>1, LeastNumber
<1>3. end - i \in Nat /\ end - i <= end /\ end - (end - i) = i
    BY <1>0
<1> HIDE DEF w
<1> QED
    BY <1>2, <1>3 DEF w

LEMMA TreeVerdictBoolean ==
    ASSUME NEW fv
    PROVE  TreeVerdict(Trained, fv) \in BOOLEAN
<1>1. 0 \in 0..(2 * DT_NODE_NB)
    BY NodeNbAssumption
<1> QED
    BY <1>1, WalkBoolean, TrainedAssumption DEF TreeVerdict

-------------------------------------------------------------------------------
(* The verdict of every invocation. *)

\* What is said of the invocation of c: a packet that parsing rejects is judged at
\* once, one it parses by a walk, which for a settled packet still leads where the
\* whole walk leads, and which ended with the decision of the trained tree.
Judged(c) ==
    LET parsed == ParseResult(pkt[c], ne[c]) = 0
        computed == TreeVerdict(Trained, Vector(c))
    IN  IF pc[c] = "idle" THEN pkt[c] = NoPacket /\ settled[c] = FALSE
        ELSE /\ ~parsed => pc[c] = AfterParse(pkt[c], ne[c])
             /\ parsed => pc[c] \in {"walk", "drop", "pass"}
             /\ parsed /\ settled[c] /\ pc[c] = "walk" =>
                   /\ At(c) \in 0..(2 * DT_NODE_NB)
                   /\ Walk(Trained, Vector(c))[<<At(c), pass[c]>>] = computed
             /\ parsed /\ settled[c] /\ pc[c] # "walk" =>
                   pc[c] = IF computed THEN "pass" ELSE "drop"

LEMMA JudgedFrame ==
    ASSUME NEW c \in CPUs, Judged(c),
           pc'[c] = pc[c], pkt'[c] = pkt[c], ne'[c] = ne[c],
           trail'[c] = trail[c], pass'[c] = pass[c], settled'[c] = settled[c]
    PROVE  Judged(c)'
BY DEF Judged, Vector, At

LEMMA JudgedReceive ==
    ASSUME TypeInv, Fresh, NEW c \in CPUs, NEW p \in Packets, Receive(c, p)
    PROVE  Judged(c)'
<1> DEFINE r == CanReserve(ring, RingSlots)
<1>1. /\ pc'[c] = AfterParse(p, r) /\ pkt'[c] = p /\ ne'[c] = r
      /\ ParseResult(p, r) = 0 => trail'[c] = <<0>>
      /\ pass'[c] = TRUE
    BY DEF Receive, Fresh, TypeInv, TypeOK
<1>2. /\ pc'[c] \in {"walk", "drop", "passsilent"}
      /\ pc'[c] = "walk" <=> ParseResult(p, r) = 0
    BY <1>1 DEF AfterParse
<1>3. ParseResult(p, r) = 0 => At(c)' = 0 /\ Walk(Trained, Vector(c)')[<<At(c)', pass'[c]>>]
                                                = TreeVerdict(Trained, Vector(c)')
    <2>1. Len(<<0>>) = 1 /\ <<0>>[1] = 0
        OBVIOUS
    <2>2. ParseResult(p, r) = 0 => At(c)' = 0
        BY <1>1, <2>1, Zenon DEF At
    <2> QED
        BY <1>1, <2>2, Zenon DEF TreeVerdict
<1>4. 0 \in 0..(2 * DT_NODE_NB)
    BY NodeNbAssumption
<1> HIDE DEF r
<1> QED
    BY <1>1, <1>2, <1>3, <1>4 DEF Judged

\* One iteration of the walk of a settled packet.
LEMMA JudgedDown ==
    ASSUME TypeInv, NEW c \in CPUs, Judged(c), WalkDown(c),
           settled[c] => nodes = Trained
    PROVE  Judged(c)'
<1> DEFINE fv == Vector(c)
           i == At(c)
           kid == Child(nodes[i], i, fv)
           d == BranchPass(nodes[i], fv)
<1>1. /\ pc[c] = "walk" /\ pc'[c] = "walk" /\ pkt'[c] = pkt[c] /\ ne'[c] = ne[c]
      /\ settled'[c] = settled[c] /\ Vector(c)' = fv
      /\ trail[c] \in Seq(Nat) /\ trail[c] # <<>>
      /\ trail'[c] = Append(trail[c], kid)
      /\ pass'[c] = d /\ pass[c] \in BOOLEAN
    BY DEF WalkDown, InLoop, TypeInv, TypeOK, Walking, Vector
<1>2. At(c)' = kid
    BY <1>1 DEF At
<1>3. i \in Nat /\ ~AtEnd(nodes, i)
    BY <1>1 DEF WalkDown, At
<1>4. ASSUME ParseResult(pkt[c], ne[c]) = 0, settled[c]
      PROVE  /\ kid \in 0..(2 * DT_NODE_NB)
             /\ Walk(Trained, fv)[<<kid, d>>] = TreeVerdict(Trained, fv)
    <2>1. nodes = Trained
        BY <1>4
    <2>2. Walk(Trained, fv)[<<i, pass[c]>>] = TreeVerdict(Trained, fv)
        BY <1>1, <1>4 DEF Judged
    <2>3. kid \in (2 * i + 1)..(2 * DT_NODE_NB)
        BY <1>3, <2>1, ChildIsLater, TrainedAssumption
    <2>4. Walk(Trained, fv)[<<i, pass[c]>>] = Walk(Trained, fv)[<<kid, d>>]
        BY <1>1, <1>3, <2>1, WalkStep, TrainedAssumption
    <2> HIDE DEF kid, i, d, fv
    <2> QED
        BY <1>3, <2>2, <2>3, <2>4, NodeNbAssumption
<1> HIDE DEF kid, i, d, fv
<1> QED
    BY <1>1, <1>2, <1>4 DEF Judged, fv

LEMMA JudgedEnd ==
    ASSUME TypeInv, NEW c \in CPUs, Judged(c), WalkEnd(c),
           settled[c] => nodes = Trained
    PROVE  Judged(c)'
<1>1. /\ pc[c] = "walk" /\ pc'[c] = IF pass[c] THEN "pass" ELSE "drop"
      /\ pkt'[c] = pkt[c] /\ ne'[c] = ne[c] /\ settled'[c] = settled[c]
      /\ Vector(c)' = Vector(c) /\ pass[c] \in BOOLEAN /\ AtEnd(nodes, At(c))
    BY DEF WalkEnd, InLoop, TypeInv, TypeOK, Vector
<1>2. ParseResult(pkt[c], ne[c]) = 0
    BY <1>1 DEF Judged, AfterParse
<1>3. settled[c] => pass[c] = TreeVerdict(Trained, Vector(c))
    <2> SUFFICES ASSUME settled[c] PROVE pass[c] = TreeVerdict(Trained, Vector(c))
        OBVIOUS
    <2>1. /\ At(c) \in 0..(2 * DT_NODE_NB)
          /\ Walk(Trained, Vector(c))[<<At(c), pass[c]>>] = TreeVerdict(Trained, Vector(c))
        BY <1>1, <1>2 DEF Judged
    <2>2. At(c) \in Nat /\ At(c) <= 2 * DT_NODE_NB /\ AtEnd(Trained, At(c))
        BY <1>1, <2>1, NodeNbAssumption
    <2>3. Walk(Trained, Vector(c))[<<At(c), pass[c]>>] = pass[c]
        BY <1>1, <2>2, WalkStep, TrainedAssumption
    <2> QED
        BY <2>1, <2>3
<1> QED
    BY <1>1, <1>2, <1>3 DEF Judged

VerdictInv == \A c \in CPUs : Judged(c)

\* The parts it needs of the invariants of DtIds_proofs.
BaseInv == TypeInv /\ Fresh /\ LoadInv /\ SettledInv

LEMMA BaseInvariant == Spec => []BaseInv
BY VerdictInit, TypeInvariant, FreshStep, LoadStep, SettledStep, PTL DEF Spec, BaseInv

LEMMA VerdictStep == BaseInv /\ VerdictInv /\ [Next]_vars => VerdictInv'
<1> SUFFICES ASSUME BaseInv, VerdictInv, [Next]_vars, NEW d \in CPUs PROVE Judged(d)'
    BY DEF VerdictInv
<1>0. Judged(d)
    BY DEF VerdictInv
<1>1. CASE UNCHANGED kernel
    BY <1>0, <1>1, JudgedFrame DEF kernel
<1>2. ASSUME NEW c \in CPUs, c # d,
             \/ \E p \in Packets : Receive(c, p)
             \/ WalkEnd(c) \/ WalkDown(c) \/ Release(c)
      PROVE  Judged(d)'
    BY <1>0, <1>2, OthersAlone, JudgedFrame DEF BaseInv
<1>3. ASSUME NEW p \in Packets, Receive(d, p)
      PROVE  Judged(d)'
    BY <1>3, JudgedReceive DEF BaseInv
<1>4. settled[d] => nodes = Trained
    BY LoadedStays DEF BaseInv, SettledInv
<1>5. CASE WalkDown(d)
    BY <1>0, <1>4, <1>5, JudgedDown DEF BaseInv
<1>6. CASE WalkEnd(d)
    BY <1>0, <1>4, <1>6, JudgedEnd DEF BaseInv
<1>7. CASE Release(d)
    BY <1>7 DEF Release, Judged, BaseInv, TypeInv, TypeOK
<1> QED
    BY <1>1, <1>2, <1>3, <1>5, <1>6, <1>7, KernelSteps

LEMMA VerdictInvariant == Spec => []VerdictInv
<1>1. Init => VerdictInv
    BY DEF Init, VerdictInv, Judged
<1> QED
    BY <1>1, BaseInvariant, VerdictStep, PTL DEF Spec

VerdictComputed ==
    \A c \in CPUs : Decided(c) /\ settled[c] =>
        pc[c] = IF TreeVerdict(Trained, Vector(c)) THEN "pass" ELSE "drop"

\* A packet that arrives after the last store gets the decision that following the
\* whole trained tree computes for its features, and no other verdict.
THEOREM SettledVerdictComputed == Spec => []VerdictComputed
<1>1. VerdictInv => VerdictComputed
    BY DEF VerdictInv, VerdictComputed, Judged, Decided, Classified
<1> QED
    BY <1>1, VerdictInvariant, PTL

-------------------------------------------------------------------------------
(* The ring and the log.  A port among the features, as in the shipped         *)
(* dt_features.h, makes parsing read the ports whether or not there is a       *)
(* record; without one it reads them for the record, of TCP only.              *)

\* Then neither the result of parsing nor the vector depends on the record.
LEMMA PortsReadAnyway ==
    ASSUME PortFeatures, NEW p, NEW a \in BOOLEAN, NEW b \in BOOLEAN
    PROVE  /\ ParseResult(p, a) = ParseResult(p, b)
           /\ FeatureVector(p, a) = FeatureVector(p, b)
           /\ AfterParse(p, a) = AfterParse(p, b)
<1>1. \A x \in BOOLEAN : /\ ReadsPorts(x) = TRUE
                         /\ ReadsTcp(p, x) = (p.proto = IPPROTO_TCP)
                         /\ ReadsUdp(p, x) = (p.proto = IPPROTO_UDP)
    BY DEF ReadsPorts, ReadsTcp, ReadsUdp, PortFeatures
<1>2. ParseResult(p, a) = ParseResult(p, b)
    BY <1>1 DEF ParseResult
<1>3. FeatureVector(p, a) = FeatureVector(p, b)
    BY <1>1 DEF FeatureVector, Ports
<1>4. AfterParse(p, a) = AfterParse(p, b)
    BY <1>2 DEF AfterParse
<1> QED
    BY <1>2, <1>3, <1>4

\* What an invocation decides is the same with a record in the ring and without.
THEOREM RingAlwaysBlind ==
    ASSUME PortFeatures
    PROVE  Spec => []RingBlind
<1>1. VerdictInv /\ BaseInv => RingBlind
    <2> SUFFICES ASSUME VerdictInv, BaseInv, NEW c \in CPUs, NEW d \in CPUs,
                        pkt[c] = pkt[d], settled[c], settled[d],
                        {pc[c], pc[d]} \subseteq {"drop", "pass", "passsilent"}
                 PROVE  pc[c] = pc[d]
        BY DEF RingBlind
    <2>1. ne[c] \in BOOLEAN /\ ne[d] \in BOOLEAN
        BY DEF BaseInv, TypeInv, TypeOK
    <2>2. /\ ParseResult(pkt[c], ne[c]) = ParseResult(pkt[d], ne[d])
          /\ AfterParse(pkt[c], ne[c]) = AfterParse(pkt[d], ne[d])
          /\ Vector(c) = Vector(d)
        BY <2>1, PortsReadAnyway DEF Vector
    <2>3. Judged(c) /\ Judged(d)
        BY DEF VerdictInv
    <2> QED
        BY <2>2, <2>3 DEF Judged
<1> QED
    BY <1>1, BaseInvariant, VerdictInvariant, PTL

\* LoggedTruth, for one event.
TrueEvent(ev) ==
    LET p == ev.of
    IN  p.ip /\ p.hdrs = 3 =>
          /\ ev.hdr = <<p.proto, p.size>>
          /\ ev.ports = IF p.proto \in {IPPROTO_TCP, IPPROTO_UDP}
                        THEN <<p.sport, p.dport>> ELSE <<0, 0>>
          /\ ev.after => ev.decision = TreeVerdict(Trained, FeatureVector(p, TRUE))

AllTrue(r) == \A k \in 1..Len(r) : r[k].state = "submitted" => TrueEvent(r[k].ev)

LEMMA LoggedTrueEvents == AllTrue(ring) => LoggedTruth
BY Zenon DEF LoggedTruth, TrueEvent, AllTrue

\* The operations of the ring keep that, if what is submitted is true.
LEMMA RingKeepsTrue ==
    ASSUME NEW r \in Seq(SlotType), AllTrue(r), NEW c, NEW e
    PROVE  /\ AllTrue(Reserve(r, c, e))
           /\ AllTrue(Discard(r, c, e))
           /\ TrueEvent(e) => AllTrue(Submit(r, c, e))
           /\ r # <<>> => AllTrue(Tail(r))
<1> DEFINE Good(x) == x.state = "submitted" => TrueEvent(x.ev)
           busy == Slot(c, "busy", e)
           q == Append(r, busy)
<1>1. /\ Good(busy) /\ Good(Slot(c, "discarded", e))
      /\ TrueEvent(e) => Good(Slot(c, "submitted", e))
    BY DEF Slot
<1>2. \A k \in 1..Len(r) : Good(r[k])
    BY DEF AllTrue
<1>3. AllTrue(Reserve(r, c, e))
    <2>1. /\ Len(r) \in Nat /\ Len(q) = Len(r) + 1 /\ q[Len(r) + 1] = busy
          /\ \A k \in 1..Len(r) : q[k] = r[k]
        OBVIOUS
    <2> HIDE DEF Good, q, busy
    <2>2. \A k \in 1..Len(q) : Good(q[k])
        BY <1>1, <1>2, <2>1
    <2> QED
        BY <2>2 DEF AllTrue, Good, Reserve, q, busy
<1>4. ASSUME NEW s, Good(Slot(c, s, e)) PROVE AllTrue(Settle(r, c, s, e))
    <2> DEFINE t == Settle(r, c, s, e)
    <2>1. /\ Len(r) \in Nat /\ Len(t) = Len(r)
          /\ \A k \in 1..Len(r) : t[k] = Slot(c, s, e) \/ t[k] = r[k]
        BY DEF Settle
    <2> HIDE DEF t, Good
    <2>2. \A k \in 1..Len(t) : Good(t[k])
        BY <1>2, <1>4, <2>1
    <2> QED
        BY <2>2 DEF AllTrue, Good, t
<1>5. ASSUME r # <<>> PROVE AllTrue(Tail(r))
    <2> DEFINE t == Tail(r)
    <2>1. /\ Len(r) \in Nat \ {0} /\ Len(t) = Len(r) - 1
          /\ \A k \in 1..Len(t) : t[k] = r[k + 1]
        BY <1>5
    <2> HIDE DEF t, Good
    <2>2. \A k \in 1..Len(t) : Good(t[k])
        <3> SUFFICES ASSUME NEW k \in 1..Len(t) PROVE Good(t[k])
            OBVIOUS
        <3>1. k + 1 \in 1..Len(r) /\ t[k] = r[k + 1]
            BY <2>1
        <3> QED
            BY <1>2, <3>1
    <2> QED
        BY <2>2 DEF AllTrue, Good, t
<1> HIDE DEF Good
<1> QED
    BY <1>1, <1>3, <1>4, <1>5 DEF Submit, Discard

\* The event of an invocation that ends with a decision tells the truth.
LEMMA ReleasedTrueEvent ==
    ASSUME PortFeatures, BaseInv, VerdictInv, NEW c \in CPUs, ne[c],
           NEW d \in BOOLEAN, pc[c] = IF d THEN "pass" ELSE "drop"
    PROVE  TrueEvent(Event(c, d))
<1> DEFINE p == pkt[c]
           ev == Event(c, d)
<1>1. p \in Packets /\ Judged(c) /\ ne[c] = TRUE
    BY DEF BaseInv, TypeInv, TypeOK, Busy, VerdictInv
<1>2. p.proto \in Nat /\ p.size \in Nat /\ p.hdrs \in 0..3 /\ p.ip \in BOOLEAN
    BY <1>1, PacketsAssumption
<1>3. /\ ev.hdr = ParsedEvent(p, TRUE, Unwritten).hdr
      /\ ev.ports = ParsedEvent(p, TRUE, Unwritten).ports
      /\ ev.decision = d /\ ev.of = p /\ ev.after = settled[c]
    BY DEF Event, ParsedEvent, Unwritten
<1> HIDE DEF ev, p
<1>4. ASSUME p.ip, p.hdrs = 3
      PROVE  /\ ParseResult(p, TRUE) = 0
             /\ ev.hdr = <<p.proto, p.size>>
             /\ ev.ports = IF p.proto \in {IPPROTO_TCP, IPPROTO_UDP}
                           THEN <<p.sport, p.dport>> ELSE <<0, 0>>
    <2>1. ParseResult(p, TRUE) = 0
        BY <1>4 DEF ParseResult
    <2>2. ev.hdr = <<p.proto, p.size>> /\ ev.ports = Ports(p, TRUE)
        BY <1>3, <1>4, <2>1 DEF ParsedEvent, Unwritten
    <2> QED
        BY <2>1, <2>2 DEF Ports, ReadsTcp, ReadsUdp, ReadsPorts
<1>5. ParseResult(p, TRUE) = 0 /\ settled[c] =>
         d = TreeVerdict(Trained, FeatureVector(p, TRUE))
    <2> SUFFICES ASSUME ParseResult(p, TRUE) = 0, settled[c]
                 PROVE  d = TreeVerdict(Trained, FeatureVector(p, TRUE))
        OBVIOUS
    <2> DEFINE v == TreeVerdict(Trained, FeatureVector(p, TRUE))
    <2>1. pc[c] = IF v THEN "pass" ELSE "drop"
        BY <1>1 DEF Judged, Vector, p
    <2>2. v \in BOOLEAN
        BY TreeVerdictBoolean
    <2> HIDE DEF v
    <2>3. d = v
        BY <2>1, <2>2
    <2> QED
        BY <2>3 DEF v
<1>6. TrueEvent(ev)
    BY <1>3, <1>4, <1>5, Zenon DEF TrueEvent
<1> QED
    BY <1>6 DEF ev

LEMMA LogStep ==
    ASSUME PortFeatures, BaseInv, VerdictInv, AllTrue(ring), [Next]_vars
    PROVE  AllTrue(ring')
<1>0. ring \in Seq(SlotType)
    BY DEF BaseInv, TypeInv, TypeOK
<1>1. ASSUME NEW c \in CPUs, NEW p \in Packets, Receive(c, p) PROVE AllTrue(ring')
    BY <1>0, <1>1, RingKeepsTrue DEF Receive
<1>2. ASSUME NEW c \in CPUs, Release(c) PROVE AllTrue(ring')
    <2>1. CASE ~ne[c]
        BY <1>2, <2>1 DEF Release
    <2>2. CASE ne[c] /\ pc[c] = "drop"
        <3>1. ring' = Submit(ring, c, Event(c, FALSE))
            BY <1>2, <2>2 DEF Release
        <3>2. TrueEvent(Event(c, FALSE))
            BY <2>2, ReleasedTrueEvent
        <3> QED
            BY <1>0, <3>1, <3>2, RingKeepsTrue
    <2>3. CASE ne[c] /\ pc[c] = "pass"
        <3>1. ring' = Submit(ring, c, Event(c, TRUE))
            BY <1>2, <2>3 DEF Release
        <3>2. TrueEvent(Event(c, TRUE))
            BY <2>3, ReleasedTrueEvent
        <3> QED
            BY <1>0, <3>1, <3>2, RingKeepsTrue
    <2>4. CASE ne[c] /\ pc[c] = "passsilent"
        <3>1. ring' = Discard(ring, c, Unwritten)
            BY <1>2, <2>4 DEF Release
        <3> QED
            BY <1>0, <3>1, RingKeepsTrue
    <2> QED
        BY <1>2, <2>1, <2>2, <2>3, <2>4 DEF Release
<1>3. CASE Drain \/ DrainError
    <2>1. ring # <<>> /\ ring' = Tail(ring)
        BY <1>3 DEF Drain, DrainError, HeadReady, HeadLogged
    <2> QED
        BY <1>0, <2>1, RingKeepsTrue
<1>4. ASSUME NEW c \in CPUs, WalkEnd(c) \/ WalkDown(c) PROVE AllTrue(ring')
    BY <1>4 DEF WalkEnd, WalkDown
<1>5. CASE UNCHANGED <<kernel, ring>>
    BY <1>5
<1> QED
    BY <1>1, <1>2, <1>3, <1>4, <1>5, RingSteps

\* What the loader prints of a well-formed packet is its own header, its own ports
\* and, once the tree is loaded, the decision of the trained tree about it: the
\* records never mix, on any number of CPUs, and none shows what it held before.
THEOREM LogAlwaysTrue ==
    ASSUME PortFeatures
    PROVE  Spec => []LoggedTruth
<1>1. Init => AllTrue(ring)
    BY DEF Init, AllTrue
<1>2. AllTrue(ring) /\ BaseInv /\ VerdictInv /\ [Next]_vars => AllTrue(ring)'
    <2>1. AllTrue(ring') <=> AllTrue(ring)'
        BY DEF AllTrue, TrueEvent
    <2> QED
        BY <2>1, LogStep
<1> QED
    BY <1>1, <1>2, LoggedTrueEvents, BaseInvariant, VerdictInvariant, PTL DEF Spec

-------------------------------------------------------------------------------
(* DtIds implements IdsVerdict. *)

verdict == [c \in CPUs |-> IF pc[c] \in {"idle", "walk"} THEN "none" ELSE pc[c]]

\* The loader's last store is Load, every other one is invisible.
LEMMA LoaderRefines ==
    ASSUME BaseInv, [Next]_vars, UNCHANGED kernel
    PROVE  Ids!Load \/ UNCHANGED Ids!vars
<1>1. pkt' = pkt /\ settled' = settled /\ verdict' = verdict
    BY DEF kernel, verdict
<1>2. Loaded' = TRUE \/ Loaded' = Loaded
    <2>1. CASE Loaded
        BY <2>1, LoadedStays DEF BaseInv, Loaded
    <2>2. CASE ~Loaded
        BY <2>2 DEF Loaded
    <2> QED
        BY <2>1, <2>2
<1> QED
    BY <1>1, <1>2 DEF Ids!Load, Ids!vars, verdict

LEMMA ReceiveRefines ==
    ASSUME PortFeatures, BaseInv, VerdictInv, NEW c \in CPUs, NEW p \in Packets, Receive(c, p)
    PROVE  Ids!Accept(c, p)
<1> DEFINE r == CanReserve(ring, RingSlots)
<1>1. /\ pc[c] = "idle" /\ pc' = [pc EXCEPT ![c] = AfterParse(p, r)]
      /\ pkt' = [pkt EXCEPT ![c] = p] /\ settled' = [settled EXCEPT ![c] = Loaded]
      /\ Loaded' = Loaded /\ r \in BOOLEAN /\ pc \in [CPUs -> {"idle", "walk", "drop", "pass", "passsilent"}]
    BY DEF Receive, loader, Loaded, CanReserve, BaseInv, TypeInv, TypeOK
<1>2. pkt[c] = NoPacket
    BY <1>1 DEF VerdictInv, Judged
<1>3. AfterParse(p, r) = AfterParse(p, TRUE) /\ ParseResult(p, r) = ParseResult(p, TRUE)
    BY <1>1, PortsReadAnyway
<1> HIDE DEF r
<1>4. verdict' = [verdict EXCEPT ![c] = IF p \in ParsedPackets THEN "none" ELSE ExpectedVerdict[p]]
    <2>1. CASE p \in ParsedPackets
        <3>1. AfterParse(p, r) = "walk"
            BY <1>3, <2>1 DEF ParsedPackets, AfterParse
        <3> QED
            BY <1>1, <2>1, <3>1 DEF verdict
    <2>2. CASE p \notin ParsedPackets
        <3>1. ParseResult(p, TRUE) # 0 /\ ExpectedVerdict[p] = AfterParse(p, TRUE)
            BY <2>2 DEF ParsedPackets, ExpectedVerdict
        <3>2. AfterParse(p, r) = ExpectedVerdict[p] /\ ExpectedVerdict[p] \in {"passsilent", "drop"}
            BY <1>3, <3>1 DEF AfterParse
        <3> HIDE DEF ExpectedVerdict
        <3> QED
            BY <1>1, <2>2, <3>2 DEF verdict
    <2> QED
        BY <2>1, <2>2
<1> QED
    BY <1>1, <1>2, <1>4 DEF Ids!Accept, verdict

LEMMA DecideRefines ==
    ASSUME PortFeatures, BaseInv, VerdictInv, NEW c \in CPUs, WalkEnd(c), Judged(c)'
    PROVE  Ids!Decide(c)
<1> DEFINE p == pkt[c]
           v == IF pass[c] THEN "pass" ELSE "drop"
<1>1. /\ pc[c] = "walk" /\ pc' = [pc EXCEPT ![c] = v]
      /\ pkt' = pkt /\ settled' = settled /\ ne' = ne /\ Loaded' = Loaded
      /\ p \in Packets /\ ne[c] \in BOOLEAN
      /\ pc \in [CPUs -> {"idle", "walk", "drop", "pass", "passsilent"}]
    BY DEF WalkEnd, InLoop, loader, Loaded, BaseInv, TypeInv, TypeOK, Busy
<1>2. p # NoPacket
    BY <1>1, PacketsAssumption
<1>3. ParseResult(p, ne[c]) = 0
    BY <1>1 DEF VerdictInv, Judged, AfterParse
<1>4. ParseResult(p, TRUE) = 0 /\ FeatureVector(p, TRUE) = Vector(c)
    BY <1>1, <1>3, PortsReadAnyway DEF Vector
<1>5. settled[c] => v = ExpectedVerdict[p]
    <2> SUFFICES ASSUME settled[c] PROVE v = ExpectedVerdict[p]
        OBVIOUS
    <2>1. ExpectedVerdict[p] = IF TreeVerdict(Trained, Vector(c)) THEN "pass" ELSE "drop"
        BY <1>1, <1>4 DEF ExpectedVerdict, ParsedPackets
    <2>2. pc'[c] = IF TreeVerdict(Trained, Vector(c)) THEN "pass" ELSE "drop"
        <3>1. Vector(c)' = Vector(c) /\ pc'[c] = v
            BY <1>1 DEF Vector
        <3> QED
            BY <1>1, <1>3, <3>1 DEF Judged
    <2> QED
        BY <1>1, <2>1, <2>2
<1>6. /\ verdict[c] = "none" /\ verdict' = [verdict EXCEPT ![c] = v]
      /\ v \in {"drop", "pass", "passsilent"}
    BY <1>1 DEF verdict
<1> HIDE DEF v
<1> QED
    BY <1>1, <1>2, <1>5, <1>6 DEF Ids!Decide, verdict

LEMMA ReleaseRefines ==
    ASSUME BaseInv, NEW c \in CPUs, Release(c)
    PROVE  Ids!Return(c)
<1>1. /\ pc[c] \in {"drop", "pass", "passsilent"} /\ pc' = [pc EXCEPT ![c] = "idle"]
      /\ pkt' = [pkt EXCEPT ![c] = NoPacket] /\ settled' = [settled EXCEPT ![c] = FALSE]
      /\ Loaded' = Loaded
      /\ pc \in [CPUs -> {"idle", "walk", "drop", "pass", "passsilent"}]
    BY DEF Release, loader, Loaded, BaseInv, TypeInv, TypeOK
<1>2. verdict[c] # "none" /\ verdict' = [verdict EXCEPT ![c] = "none"]
    BY <1>1 DEF verdict
<1> QED
    BY <1>1, <1>2 DEF Ids!Return, verdict

LEMMA NextRefines ==
    ASSUME PortFeatures, BaseInv, VerdictInv, VerdictInv', [Next]_vars
    PROVE  [Ids!Next]_(Ids!vars)
<1>1. CASE UNCHANGED kernel
    BY <1>1, LoaderRefines DEF Ids!Next
<1>2. ASSUME NEW c \in CPUs, NEW p \in Packets, Receive(c, p) PROVE Ids!Next
    BY <1>2, ReceiveRefines DEF Ids!Next
<1>3. ASSUME NEW c \in CPUs, WalkEnd(c) PROVE Ids!Next
    <2>1. Judged(c)'
        BY DEF VerdictInv
    <2> QED
        BY <1>3, <2>1, DecideRefines DEF Ids!Next
<1>4. ASSUME NEW c \in CPUs, WalkDown(c) PROVE UNCHANGED Ids!vars
    BY <1>4 DEF WalkDown, loader, Loaded, Ids!vars
<1>5. ASSUME NEW c \in CPUs, Release(c) PROVE Ids!Next
    BY <1>5, ReleaseRefines DEF Ids!Next
<1> QED
    BY <1>1, <1>2, <1>3, <1>4, <1>5, KernelSteps

\* Every behaviour of the XDP program on its CPUs and of its loader is one of the
\* abstract IDS, as long as only safety is asked: a packet is accepted, judged by
\* the loaded model if it is due, and returned, in this order and once.
THEOREM ImplementsIdsSafely ==
    ASSUME PortFeatures
    PROVE  Spec => Ids!Spec
<1>1. Init => Ids!Init
    BY NodeNbAssumption DEF Init, Ids!Init, Loaded
<1>2. BaseInv /\ VerdictInv /\ VerdictInv' /\ [Next]_vars => [Ids!Next]_(Ids!vars)
    BY NextRefines
<1> QED
    BY <1>1, <1>2, BaseInvariant, VerdictInvariant, PTL DEF Spec, Ids!Spec
===============================================================================
