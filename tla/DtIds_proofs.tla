----------------------------- MODULE DtIds_proofs -----------------------------
(***************************************************************************)
(* What TLAPS proves of DtIds for every number of CPUs, every tree, every  *)
(* set of packets and every ring size.                                     *)
(***************************************************************************)
EXTENDS DtIds, FiniteSetTheorems, TLAPS

-------------------------------------------------------------------------------
(* Lemmas on the operators. *)

\* A typed packet yields a typed event, whatever of it was parsed.
LEMMA EventTyped ==
    ASSUME NEW c \in CPUs, NEW d \in BOOLEAN, TypeOK, pkt[c] \in Packets
    PROVE  Event(c, d) \in EventType
<1> DEFINE p == pkt[c]
<1>1. /\ p.proto \in Nat /\ p.size \in Nat /\ p.sport \in Nat /\ p.dport \in Nat
    BY PacketsAssumption
<1>2. Ports(p, TRUE) \in Nat \X Nat
    BY <1>1 DEF Ports
<1>3. Unwritten \in EventType
    BY DEF Unwritten, EventType
<1>4. ParsedEvent(p, TRUE, Unwritten) \in EventType
    BY <1>1, <1>2, <1>3 DEF ParsedEvent, EventType
<1>5. settled[c] \in BOOLEAN
    BY DEF TypeOK
<1> QED
    BY <1>4, <1>5 DEF Event, EventType

\* Settling a record keeps the ring typed.
LEMMA SettleTyped ==
    ASSUME NEW r \in Seq(SlotType), NEW c \in CPUs, NEW e \in EventType,
           NEW s \in {"submitted", "discarded"}
    PROVE  Settle(r, c, s, e) \in Seq(SlotType)
<1>1. Slot(c, s, e) \in SlotType
    BY DEF Slot, SlotType
<1>2. \A k \in 1..Len(r) :
         (IF Holds(r[k], c) THEN Slot(c, s, e) ELSE r[k]) \in SlotType
    BY <1>1
<1> QED
    BY <1>2 DEF Settle

\* Extending a path by the child of its last node extends the walk.
LEMMA FollowsAppend ==
    ASSUME NEW tree, NEW fv, NEW path \in Seq(Nat),
           Follows(tree, fv, path), ~AtEnd(tree, path[Len(path)])
    PROVE  LET last == path[Len(path)]
               longer == Append(path, Child(tree[last], last, fv))
           IN  /\ Follows(tree, fv, longer)
               /\ PathPass(tree, fv, longer) = BranchPass(tree[last], fv)
<1> DEFINE last == path[Len(path)]
           n == Len(path)
           kid == Child(tree[last], last, fv)
           longer == Append(path, kid)
<1>1. n \in Nat /\ n >= 1
    BY DEF Follows
<1>2. last \in Nat
    BY <1>1
<1>3. kid \in Nat
    BY <1>2 DEF Child
<1>4. /\ Len(longer) = n + 1
      /\ longer[n + 1] = kid
      /\ \A k \in 1..n : longer[k] = path[k]
    BY <1>1, <1>3
<1>5. Follows(tree, fv, longer)
  <2>1. longer # <<>> /\ longer[1] = 0
    BY <1>1, <1>4 DEF Follows
  <2>2. ASSUME NEW k \in 1..(Len(longer) - 1)
        PROVE  /\ ~AtEnd(tree, longer[k])
               /\ longer[k + 1] = Child(tree[longer[k]], longer[k], fv)
    <3>1. CASE k < n
      <4>1. k \in 1..(n - 1) /\ k \in 1..n /\ k + 1 \in 1..n
        BY <1>1, <1>4, <3>1
      <4>2. longer[k] = path[k] /\ longer[k + 1] = path[k + 1]
        BY <1>4, <4>1
      <4> QED BY <4>1, <4>2 DEF Follows
    <3>2. CASE k = n
      BY <1>1, <1>4, <3>2
    <3> QED BY <1>1, <1>4, <3>1, <3>2
  <2> HIDE DEF longer
  <2> QED BY <2>1, <2>2 DEF Follows
<1>6. PathPass(tree, fv, longer) = BranchPass(tree[last], fv)
  <2>1. Len(longer) # 1 /\ Len(longer) - 1 = n /\ longer[n] = last
    BY <1>1, <1>4
  <2> HIDE DEF longer
  <2> QED BY <2>1 DEF PathPass
<1> QED BY <1>5, <1>6

-------------------------------------------------------------------------------
(* Type correctness. *)

\* A CPU works on a packet exactly while an invocation is in progress.
Busy == \A c \in CPUs : pc[c] # "idle" => pkt[c] \in Packets /\ trail[c] \in Seq(Nat)
Walking == \A c \in CPUs : pc[c] = "walk" => trail[c] # <<>>
\* A torn store is in progress only within the filling loop.
Filling == /\ upc \in {"start", "attached", "setup"} => fillIdx = 0
           /\ upc = "fill" => fillIdx \in Index
           /\ half # "none" => upc = "fill"

TypeInv == TypeOK /\ Busy /\ Walking /\ Filling

LEMMA TypeInit == Init => TypeInv
<1> SUFFICES ASSUME Init PROVE TypeInv
    OBVIOUS
<1>1. ZeroNode \in DtNode
    BY DEF ZeroNode, DtNode, FeatureByte
<1>2. DT_NODE_NB \in Nat /\ 0 \in Index
    BY NodeNbAssumption DEF Index
<1>3. <<>> \in Seq(Nat) /\ <<>> \in Seq(SlotType)
    OBVIOUS
<1>4. nodes \in [Index -> DtNode] /\ fillIdx \in 0..DT_NODE_NB
    BY <1>1, <1>2 DEF Init
<1>5. trail \in [CPUs -> Seq(Nat)] /\ ring \in Seq(SlotType)
    BY <1>3 DEF Init
<1>6. TypeOK
    BY <1>4, <1>5 DEF Init, TypeOK
<1> QED
    BY <1>2, <1>6 DEF Init, TypeInv, Busy, Walking, Filling

LEMMA TypeReceive ==
    ASSUME TypeInv, NEW c \in CPUs, NEW p \in Packets, Receive(c, p)
    PROVE  TypeInv'
<1> USE DEF TypeInv
<1> DEFINE r == CanReserve(ring, RingSlots)
<1>1. r \in BOOLEAN
    BY DEF CanReserve
<1>2. AfterParse(p, r) \in {"passsilent", "walk", "drop"}
    BY DEF AfterParse
<1>3. <<0>> \in Seq(Nat) /\ <<>> \in Seq(Nat)
    OBVIOUS
<1>4. (IF r THEN Reserve(ring, c, Unwritten) ELSE ring) \in Seq(SlotType)
    <2>1. Slot(c, "busy", Unwritten) \in SlotType
        BY DEF Slot, SlotType, EventType, Unwritten
    <2> QED BY <2>1 DEF TypeOK, Reserve
<1>5. AfterParse(p, r) = "walk" => ParseResult(p, r) = 0
    BY DEF AfterParse
<1>6. Loaded \in BOOLEAN
    BY DEF Loaded
<1> HIDE DEF r
<1>7. /\ pc' = [pc EXCEPT ![c] = AfterParse(p, r)]
      /\ pkt' = [pkt EXCEPT ![c] = p]
      /\ ne' = [ne EXCEPT ![c] = r]
      /\ trail' = [trail EXCEPT ![c] = IF ParseResult(p, r) = 0 THEN <<0>> ELSE <<>>]
      /\ settled' = [settled EXCEPT ![c] = Loaded]
      /\ ring' = IF r THEN Reserve(ring, c, Unwritten) ELSE ring
      /\ UNCHANGED <<pass, nodes, fillIdx, half, upc, exiting>>
    BY DEF Receive, loader, r
<1>8. TypeOK'
    BY <1>1, <1>2, <1>3, <1>4, <1>6, <1>7 DEF TypeOK
<1>9. Busy' /\ Walking'
    BY <1>2, <1>3, <1>5, <1>7 DEF TypeOK, Busy, Walking
<1> QED
    BY <1>7, <1>8, <1>9 DEF Filling

LEMMA TypeCpu ==
    ASSUME TypeInv, NEW c \in CPUs, Cpu(c)
    PROVE  TypeInv'
<1> USE DEF TypeInv
<1>1. CASE WalkEnd(c)
    BY <1>1 DEF WalkEnd, InLoop, TypeOK, Busy, Walking, Filling, loader
<1>2. CASE WalkDown(c)
  <2> DEFINE fv == FeatureVector(pkt[c], ne[c])
             node == nodes[At(c)]
             kid == Child(node, At(c), fv)
  <2>1. pc[c] = "walk" /\ trail[c] # <<>> /\ trail[c] \in Seq(Nat)
      BY <1>2 DEF WalkDown, InLoop, Walking, TypeOK
  <2>2. At(c) \in Nat
      BY <2>1 DEF At
  <2>3. node \in DtNode
    <3>1. At(c) \in Index
        BY <1>2, <2>2, NodeNbAssumption DEF WalkDown, AtEnd, Index
    <3> QED BY <3>1 DEF TypeOK
  <2>4. kid \in Nat
      BY <2>2 DEF Child
  <2>5. Append(trail[c], kid) \in Seq(Nat) /\ Append(trail[c], kid) # <<>>
      BY <2>1, <2>4
  <2>6. BranchPass(node, fv) \in BOOLEAN
      BY <2>3 DEF BranchPass, DtNode, FeatureByte
  <2> HIDE DEF fv, node, kid
  <2>7. /\ trail' = [trail EXCEPT ![c] = Append(trail[c], kid)]
        /\ pass' = [pass EXCEPT ![c] = BranchPass(node, fv)]
        /\ UNCHANGED <<pc, pkt, ne, settled, ring, nodes, fillIdx, half, upc, exiting>>
      BY <1>2 DEF WalkDown, loader, fv, node, kid
  <2> QED
      BY <2>5, <2>6, <2>7 DEF TypeOK, Busy, Walking, Filling
<1>3. CASE Release(c)
  <2>1. pkt[c] \in Packets
      BY <1>3 DEF Release, Busy
  <2>2. Event(c, TRUE) \in EventType /\ Event(c, FALSE) \in EventType
      BY <2>1, EventTyped
  <2>3. Unwritten \in EventType
      BY DEF Unwritten, EventType
  <2>4. ring' \in Seq(SlotType)
      <3>1. ring \in Seq(SlotType)
          BY DEF TypeOK
      <3>2. /\ Submit(ring, c, Event(c, FALSE)) \in Seq(SlotType)
            /\ Submit(ring, c, Event(c, TRUE)) \in Seq(SlotType)
            /\ Discard(ring, c, Unwritten) \in Seq(SlotType)
          BY <2>2, <2>3, <3>1, SettleTyped DEF Submit, Discard
      <3> QED BY <1>3, <3>1, <3>2 DEF Release
  <2>5. <<>> \in Seq(Nat)
      OBVIOUS
  <2> QED
      BY <1>3, <2>4, <2>5 DEF Release, TypeOK, Busy, Walking, Filling, loader
<1> QED
    BY <1>1, <1>2, <1>3 DEF Cpu

\* A store of a node, or of one of its fields, keeps the array typed.
LEMMA TypeStore ==
    ASSUME TypeInv, FillNode \/ \E field \in {"threshold", "feature"} : FillHalf(field)
    PROVE  TypeInv'
<1> USE DEF TypeInv
<1>1. upc = "fill" /\ fillIdx \in Index /\ Trained[fillIdx] \in DtNode
    BY TrainedAssumption DEF FillNode, FillHalf, Filling
<1>2. nodes[fillIdx] \in DtNode
    BY <1>1 DEF TypeOK
<1>3. CASE FillNode
  <2>1. nodes' \in [Index -> DtNode]
      BY <1>1, <1>3 DEF FillNode, TypeOK
  <2>2. /\ fillIdx' = fillIdx + 1 /\ fillIdx' \in 0..DT_NODE_NB /\ half' = "none"
        /\ upc' = IF fillIdx' = DT_NODE_NB THEN "check" ELSE "fill"
      BY <1>1, <1>3, NodeNbAssumption DEF FillNode, AfterStore, GoTo, Index
  <2>3. Filling' /\ upc' \in {"check", "fill"}
      BY <2>2, NodeNbAssumption DEF Filling, Index
  <2> QED
      BY <1>3, <2>1, <2>2, <2>3
      DEF FillNode, AfterStore, TypeOK, Busy, Walking, kernel
<1>4. ASSUME NEW field \in {"threshold", "feature"}, FillHalf(field)
      PROVE  TypeInv'
  <2>1. /\ [nodes[fillIdx] EXCEPT !.threshold = Trained[fillIdx].threshold] \in DtNode
        /\ [nodes[fillIdx] EXCEPT !.feature = Trained[fillIdx].feature] \in DtNode
      BY <1>1, <1>2 DEF DtNode
  <2>2. nodes' \in [Index -> DtNode]
      BY <1>1, <1>4, <2>1 DEF FillHalf, TypeOK
  <2> QED
      BY <1>1, <1>4, <2>2 DEF FillHalf, TypeOK, Busy, Walking, Filling, kernel
<1> QED BY <1>3, <1>4

LEMMA TypeLoader ==
    ASSUME TypeInv, Loader \/ Fail \/ DrainError \/ Signal \/ Terminated \/ UNCHANGED vars
    PROVE  TypeInv'
<1> USE DEF TypeInv, GoTo, kernel, loader
<1>1. CASE FillNode \/ \E field \in {"threshold", "feature"} : FillHalf(field)
    BY <1>1, TypeStore
<1>2. CASE Attach \/ InstallHandlers \/ LoopCheck \/ PollReturn \/ Fail \/ Signal
    BY <1>2 DEF Attach, InstallHandlers, LoopCheck, PollReturn, Fail, Signal,
                TypeOK, Busy, Walking, Filling
<1>3. CASE Setup
  <2>1. fillIdx' = 0 /\ 0 \in Index
      BY <1>3, NodeNbAssumption DEF Setup, Filling, Index
  <2> QED
      BY <1>3, <2>1 DEF Setup, TypeOK, Busy, Walking, Filling
<1>4. CASE Drain \/ DrainError
  <2>1. ring # <<>> /\ ring \in Seq(SlotType)
      BY <1>4 DEF Drain, DrainError, HeadReady, HeadLogged, TypeOK
  <2>2. Tail(ring) \in Seq(SlotType)
      BY <2>1
  <2> QED
      BY <1>4, <2>2 DEF Drain, DrainError, TypeOK, Busy, Walking, Filling
<1>5. CASE Terminated \/ UNCHANGED vars
    BY <1>5 DEF Terminated, vars, TypeOK, Busy, Walking, Filling
<1> QED
    BY <1>1, <1>2, <1>3, <1>4, <1>5 DEF Loader

LEMMA TypeStep == TypeInv /\ [Next]_vars => TypeInv'
BY TypeReceive, TypeCpu, TypeLoader DEF Next

LEMMA TypeInvariant == Spec => []TypeInv
BY TypeInit, TypeStep, PTL DEF Spec

\* Every variable keeps its type on every machine, with every trained tree.
THEOREM TypeCorrect == Spec => []TypeOK
BY TypeInvariant, PTL DEF TypeInv

-------------------------------------------------------------------------------
(* The bounded loop.  After k - 1 steps down, the index is at least            *)
(* 2^(k-1) - 1; the array has at most 255 entries, so the ninth is outside.    *)

ReachedBy(n, i) ==
    /\ n \in 1..9 /\ i \in Nat
    /\ n >= 2 => i >= 1
    /\ n >= 3 => i >= 3
    /\ n >= 4 => i >= 7
    /\ n >= 5 => i >= 15
    /\ n >= 6 => i >= 31
    /\ n >= 7 => i >= 63
    /\ n >= 8 => i >= 127
    /\ n >= 9 => i >= 255

LoopInv == \A c \in CPUs : pc[c] = "walk" => ReachedBy(Len(trail[c]), At(c))

\* One step down from inside the array.
LEMMA ReachedByChild ==
    ASSUME NEW n, NEW i, NEW j, ReachedBy(n, i), i < 255, j \in {2 * i + 1, 2 * i + 2}
    PROVE  ReachedBy(n + 1, j)
BY DEF ReachedBy

LEMMA LoopStep == TypeInv /\ LoopInv /\ [Next]_vars => LoopInv'
<1> SUFFICES ASSUME TypeInv, LoopInv, [Next]_vars PROVE LoopInv'
    OBVIOUS
<1>1. ASSUME NEW c \in CPUs, WalkDown(c)
      PROVE  LoopInv'
  <2> DEFINE kid == Child(nodes[At(c)], At(c), FeatureVector(pkt[c], ne[c]))
             n == Len(trail[c])
  <2>1. /\ pc[c] = "walk" /\ trail[c] \in Seq(Nat) /\ trail[c] # <<>>
        /\ ReachedBy(n, At(c))
      BY <1>1 DEF WalkDown, InLoop, TypeInv, TypeOK, Walking, LoopInv
  <2>2. n \in Nat /\ At(c) \in Nat
      BY <2>1 DEF ReachedBy
  <2>3. At(c) < 255
      BY <1>1, <2>2, NodeNbAssumption DEF WalkDown, AtEnd
  <2>4. kid \in Nat /\ ReachedBy(n + 1, kid)
    <3>1. kid \in {2 * At(c) + 1, 2 * At(c) + 2}
        BY DEF Child
    <3>2. kid \in Nat
        BY <2>2, <3>1
    <3> QED BY <2>1, <2>3, <3>1, <3>2, ReachedByChild
  <2> HIDE DEF kid
  <2>5. trail' = [trail EXCEPT ![c] = Append(trail[c], kid)] /\ pc' = pc
      BY <1>1 DEF WalkDown, kid
  <2>6. /\ trail'[c] = Append(trail[c], kid)
        /\ Len(trail'[c]) = n + 1
        /\ trail'[c][n + 1] = kid
      BY <2>1, <2>4, <2>5 DEF TypeInv, TypeOK
  <2>7. \A d \in CPUs : d # c => trail'[d] = trail[d]
      BY <2>5 DEF TypeInv, TypeOK
  <2> QED
      BY <2>4, <2>5, <2>6, <2>7 DEF LoopInv, At
<1>2. ASSUME NEW c \in CPUs, NEW p \in Packets, Receive(c, p)
      PROVE  LoopInv'
  <2>1. pc'[c] = "walk" => trail'[c] = <<0>>
      BY <1>2 DEF Receive, AfterParse, TypeInv, TypeOK
  <2>2. \A d \in CPUs : d # c => trail'[d] = trail[d] /\ pc'[d] = pc[d]
      BY <1>2 DEF Receive, TypeInv, TypeOK
  <2>3. ReachedBy(1, 0)
      BY DEF ReachedBy
  <2>4. pc'[c] = "walk" => ReachedBy(Len(trail'[c]), trail'[c][Len(trail'[c])])
    <3>1. Len(<<0>>) = 1 /\ <<0>>[1] = 0
        OBVIOUS
    <3> QED BY <2>1, <2>3, <3>1, Zenon
  <2> QED
      BY <2>2, <2>4, Zenon DEF LoopInv, At
<1>3. ASSUME NEW c \in CPUs, WalkEnd(c) \/ Release(c)
      PROVE  LoopInv'
  <2>1. pc'[c] # "walk"
      BY <1>3 DEF WalkEnd, Release, TypeInv, TypeOK
  <2>2. \A d \in CPUs : d # c => trail'[d] = trail[d] /\ pc'[d] = pc[d]
      BY <1>3 DEF WalkEnd, Release, TypeInv, TypeOK
  <2> QED
      BY <2>1, <2>2 DEF LoopInv, At
<1>4. CASE UNCHANGED kernel
    BY <1>4 DEF kernel, LoopInv, At
<1>5. CASE Loader \/ Fail \/ DrainError \/ Signal \/ Terminated \/ UNCHANGED vars
    BY <1>4, <1>5 DEF Loader, Attach, InstallHandlers, Setup, FillNode, FillHalf,
        AfterStore, LoopCheck, Drain, PollReturn, Fail, DrainError, Signal,
        Terminated, vars, kernel
<1> QED
    BY <1>1, <1>2, <1>3, <1>5 DEF Next, Cpu

\* classify_dt returns from inside its loop, after at most nine iterations: the
\* 17 the code allows are enough for every tree of at most 255 nodes.
THEOREM LoopAlwaysReturns == Spec => []LoopReturns
<1>1. Init => LoopInv
    BY DEF Init, LoopInv
<1>2. LoopInv => LoopReturns
  <2>1. \A n, i : ReachedBy(n, i) => n <= 17
      BY DEF ReachedBy
  <2> QED BY <2>1, Zenon DEF LoopInv, LoopReturns, InLoop
<1> QED
    BY <1>1, <1>2, TypeInvariant, LoopStep, PTL DEF Spec

-------------------------------------------------------------------------------
(* Verdicts. *)

\* PrefixVerdict for one CPU.
OnPath(c) ==
    Classified(c) =>
        /\ Follows(Trained, Vector(c), trail[c])
        /\ pass[c] = PathPass(Trained, Vector(c), trail[c])
        /\ Decided(c) => pc[c] = IF pass[c] THEN "pass" ELSE "drop"

\* An idle CPU's "pass" is the default the next walk starts from.
Fresh == \A c \in CPUs : pc[c] = "idle" => pass[c] = TRUE

\* A loaded tree is the trained one, and no store is left to do.
LoadInv ==
    /\ \A i \in Index : i < fillIdx => nodes[i] = Trained[i]
    /\ upc = "check" \/ upc = "poll" => Loaded

\* A step that leaves the invocation of c alone leaves its path alone.
LEMMA OnPathFrame ==
    ASSUME NEW c \in CPUs, OnPath(c),
           pc'[c] = pc[c], pkt'[c] = pkt[c], ne'[c] = ne[c],
           trail'[c] = trail[c], pass'[c] = pass[c]
    PROVE  OnPath(c)'
BY DEF OnPath, Classified, Decided, Vector

LEMMA OnPathReceive ==
    ASSUME TypeInv, Fresh, NEW c \in CPUs, NEW p \in Packets, Receive(c, p)
    PROVE  OnPath(c)'
<1> DEFINE r == CanReserve(ring, RingSlots)
<1>1. /\ pc'[c] = AfterParse(p, r) /\ pkt'[c] = p /\ ne'[c] = r
      /\ trail'[c] = IF ParseResult(p, r) = 0 THEN <<0>> ELSE <<>>
      /\ pass'[c] = TRUE
    BY DEF Receive, Fresh, TypeInv, TypeOK
<1> HIDE DEF r
<1> SUFFICES ASSUME Classified(c)'
             PROVE  /\ Follows(Trained, Vector(c), trail[c])'
                    /\ (pass[c] = PathPass(Trained, Vector(c), trail[c]))'
                    /\ ~Decided(c)'
    BY DEF OnPath
<1>2. ParseResult(p, r) = 0 /\ trail'[c] = <<0>>
    BY <1>1 DEF Classified
<1>3. pc'[c] = "walk"
    BY <1>1, <1>2 DEF AfterParse
<1>4. Len(<<0>>) = 1 /\ <<0>>[1] = 0 /\ <<0>> # <<>>
    OBVIOUS
<1>5. \A fv : Follows(Trained, fv, <<0>>) /\ PathPass(Trained, fv, <<0>>) = TRUE
    BY <1>4 DEF Follows, PathPass
<1> QED
    BY <1>1, <1>2, <1>3, <1>5 DEF Decided

\* One iteration on a node that is already the trained one.
LEMMA OnPathDown ==
    ASSUME TypeInv, NEW c \in CPUs, OnPath(c), WalkDown(c),
           nodes[At(c)] = Trained[At(c)]
    PROVE  OnPath(c)'
<1> DEFINE fv == Vector(c)
           kid == Child(Trained[At(c)], At(c), fv)
           longer == Append(trail[c], kid)
<1>1. /\ trail[c] \in Seq(Nat) /\ pc[c] = "walk" /\ pc'[c] = "walk"
      /\ pkt'[c] = pkt[c] /\ ne'[c] = ne[c]
      /\ trail'[c] = longer
      /\ pass'[c] = BranchPass(Trained[At(c)], fv)
    BY DEF WalkDown, InLoop, TypeInv, TypeOK, Vector
<1>2. ~AtEnd(Trained, At(c))
    BY DEF WalkDown, AtEnd
<1>3. Vector(c)' = fv /\ (Classified(c)' => Classified(c)) /\ ~Decided(c)'
    BY <1>1 DEF Vector, Classified, Decided
<1>4. Classified(c) =>
         /\ Follows(Trained, fv, longer)
         /\ PathPass(Trained, fv, longer) = BranchPass(Trained[At(c)], fv)
    BY <1>1, <1>2, FollowsAppend DEF OnPath, At
<1> QED
    BY <1>1, <1>3, <1>4 DEF OnPath

LEMMA OnPathEnd ==
    ASSUME TypeInv, NEW c \in CPUs, OnPath(c), WalkEnd(c)
    PROVE  OnPath(c)'
<1>1. /\ pc[c] = "walk" /\ pc'[c] = IF pass[c] THEN "pass" ELSE "drop"
      /\ UNCHANGED <<pkt, ne, trail, pass>>
    BY DEF WalkEnd, InLoop, TypeInv, TypeOK
<1>2. Vector(c)' = Vector(c) /\ (Classified(c)' => Classified(c))
    BY <1>1 DEF Vector, Classified
<1> QED
    BY <1>1, <1>2 DEF OnPath

\* Every step leaves the invocations alone, or is one of these five.
LEMMA KernelSteps ==
    ASSUME [Next]_vars
    PROVE  \/ UNCHANGED kernel
           \/ \E c \in CPUs : \/ \E p \in Packets : Receive(c, p)
                             \/ WalkEnd(c) \/ WalkDown(c) \/ Release(c)
BY DEF Next, Cpu, Loader, Attach, InstallHandlers, Setup, FillNode, FillHalf,
    AfterStore, LoopCheck, Drain, PollReturn, Fail, DrainError, Signal,
    Terminated, vars, kernel

\* The same for the ring.
LEMMA RingSteps ==
    ASSUME [Next]_vars
    PROVE  \/ UNCHANGED <<kernel, ring>> \/ Drain \/ DrainError
           \/ \E c \in CPUs : \/ \E p \in Packets : Receive(c, p)
                             \/ WalkEnd(c) \/ WalkDown(c) \/ Release(c)
BY DEF Next, Cpu, Loader, Attach, InstallHandlers, Setup, FillNode, FillHalf,
    AfterStore, LoopCheck, PollReturn, Fail, Signal, Terminated, vars, kernel

\* A CPU's step leaves the invocations of the others alone.
LEMMA OthersAlone ==
    ASSUME TypeInv, NEW c \in CPUs, NEW d \in CPUs, d # c,
           \/ \E p \in Packets : Receive(c, p)
           \/ WalkEnd(c) \/ WalkDown(c) \/ Release(c)
    PROVE  /\ pc'[d] = pc[d] /\ pkt'[d] = pkt[d] /\ ne'[d] = ne[d]
           /\ trail'[d] = trail[d] /\ pass'[d] = pass[d] /\ settled'[d] = settled[d]
BY DEF Receive, WalkEnd, WalkDown, Release, TypeInv, TypeOK

LEMMA FreshStep == TypeInv /\ Fresh /\ [Next]_vars => Fresh'
<1> SUFFICES ASSUME TypeInv, Fresh, [Next]_vars, NEW d \in CPUs, pc'[d] = "idle"
             PROVE  pass'[d] = TRUE
    BY DEF Fresh
<1>1. CASE UNCHANGED kernel
    BY <1>1 DEF kernel, Fresh
<1>2. ASSUME NEW c \in CPUs,
             \/ \E p \in Packets : Receive(c, p)
             \/ WalkEnd(c) \/ WalkDown(c) \/ Release(c)
      PROVE  pass'[d] = TRUE
  <2>1. CASE d # c
      BY <1>2, <2>1, OthersAlone DEF Fresh
  <2>2. CASE d = c /\ Release(c)
      BY <2>2 DEF Release, TypeInv, TypeOK
  <2>3. CASE d = c /\ (WalkEnd(c) \/ WalkDown(c))
      BY <2>3 DEF WalkEnd, WalkDown, InLoop, TypeInv, TypeOK
  <2>4. ASSUME d = c, NEW p \in Packets, Receive(c, p)
        PROVE  pass'[d] = TRUE
      BY <2>4 DEF Receive, Fresh
  <2> QED BY <1>2, <2>1, <2>2, <2>3, <2>4
<1> QED BY <1>1, <1>2, KernelSteps

-------------------------------------------------------------------------------
(* Loading. *)

LEMMA LoadStep == TypeInv /\ LoadInv /\ [Next]_vars => LoadInv'
<1> SUFFICES ASSUME TypeInv, LoadInv, [Next]_vars PROVE LoadInv'
    OBVIOUS
<1> USE DEF GoTo
<1>1. CASE FillNode
  <2>1. fillIdx \in Index /\ upc = "fill" /\ nodes \in [Index -> DtNode]
      BY <1>1 DEF FillNode, TypeInv, TypeOK, Filling
  <2>2. /\ nodes' = [nodes EXCEPT ![fillIdx] = Trained[fillIdx]]
        /\ fillIdx' = fillIdx + 1
        /\ upc' = IF fillIdx + 1 = DT_NODE_NB THEN "check" ELSE "fill"
      BY <1>1 DEF FillNode, AfterStore
  <2>3. ASSUME NEW i \in Index, i < fillIdx'
        PROVE  nodes'[i] = Trained[i]
    <3>1. i < fillIdx \/ i = fillIdx
        BY <2>1, <2>2, <2>3, NodeNbAssumption DEF Index
    <3> QED BY <2>1, <2>2, <3>1 DEF LoadInv
  <2> QED BY <2>2, <2>3 DEF LoadInv, Loaded
<1>2. ASSUME NEW field \in {"threshold", "feature"}, FillHalf(field)
      PROVE  LoadInv'
  <2>1. /\ fillIdx \in Index /\ upc = "fill" /\ nodes \in [Index -> DtNode]
        /\ fillIdx' = fillIdx /\ upc' = upc
      BY <1>2 DEF FillHalf, TypeInv, TypeOK, Filling
  <2>2. \A i \in Index : i < fillIdx => nodes'[i] = nodes[i]
      BY <1>2, <2>1, NodeNbAssumption DEF FillHalf, Index
  <2> QED BY <2>1, <2>2 DEF LoadInv
<1>3. CASE UNCHANGED loader
    BY <1>3 DEF loader, LoadInv, Loaded
<1>4. CASE \E c \in CPUs : Cpu(c) \/ \E p \in Packets : Receive(c, p)
    BY <1>3, <1>4 DEF Cpu, Receive, WalkEnd, WalkDown, Release
<1>5. CASE UNCHANGED <<nodes, fillIdx>> /\ (upc' \in {"check", "poll"} => upc \in {"check", "poll"})
    BY <1>5 DEF LoadInv, Loaded
<1>6. CASE Attach \/ InstallHandlers \/ Setup \/ LoopCheck \/ Drain \/ PollReturn
             \/ Fail \/ DrainError \/ Signal \/ Terminated \/ UNCHANGED vars
    BY <1>5, <1>6 DEF Attach, InstallHandlers, Setup, LoopCheck, Drain, PollReturn,
        Fail, DrainError, Signal, Terminated, vars, loader
<1> QED
    BY <1>1, <1>2, <1>4, <1>6 DEF Next, Loader

\* Once loaded the array is the trained tree, and it stays loaded.
LEMMA LoadedStays ==
    ASSUME TypeInv, LoadInv, Loaded, [Next]_vars
    PROVE  nodes = Trained /\ Loaded'
<1>1. nodes = Trained
  <2>1. \A i \in Index : nodes[i] = Trained[i]
      BY NodeNbAssumption DEF LoadInv, Loaded, Index
  <2> QED BY <2>1, TrainedAssumption DEF TypeInv, TypeOK
<1>2. upc # "fill"
    BY NodeNbAssumption DEF TypeInv, Filling, Loaded, Index
<1>3. fillIdx' = fillIdx
    BY <1>2 DEF Next, Cpu, Receive, WalkEnd, WalkDown, Release, Loader, Attach,
        InstallHandlers, Setup, FillNode, FillHalf, LoopCheck, Drain, PollReturn,
        Fail, DrainError, Signal, Terminated, vars, loader
<1> QED BY <1>1, <1>3 DEF Loaded

-------------------------------------------------------------------------------
(* Packets that arrive after the tree is loaded. *)

SettledInv ==
    \A c \in CPUs : settled[c] =>
        /\ Loaded
        /\ OnPath(c)
        /\ Decided(c) => AtEnd(Trained, At(c))

LEMMA SettledStep ==
    TypeInv /\ Fresh /\ LoadInv /\ SettledInv /\ [Next]_vars => SettledInv'
<1> SUFFICES ASSUME TypeInv, Fresh, LoadInv, SettledInv, [Next]_vars,
                    NEW d \in CPUs, settled'[d]
             PROVE  Loaded' /\ OnPath(d)' /\ (Decided(d)' => AtEnd(Trained, At(d))')
    BY DEF SettledInv
<1> DEFINE Goal == Loaded' /\ OnPath(d)' /\ (Decided(d)' => AtEnd(Trained, At(d))')
<1>1. ASSUME settled[d], pc'[d] = pc[d], pkt'[d] = pkt[d], ne'[d] = ne[d],
             trail'[d] = trail[d], pass'[d] = pass[d]
      PROVE  Goal
  <2>1. Loaded' /\ OnPath(d)'
      BY <1>1, LoadedStays, OnPathFrame DEF SettledInv
  <2>2. (Decided(d)' => Decided(d)) /\ At(d)' = At(d)
      BY <1>1 DEF Decided, Classified, At
  <2> QED BY <1>1, <2>1, <2>2 DEF SettledInv, AtEnd
<1>2. CASE UNCHANGED kernel
    BY <1>1, <1>2 DEF kernel
<1>3. ASSUME NEW c \in CPUs, c # d,
             \/ \E p \in Packets : Receive(c, p)
             \/ WalkEnd(c) \/ WalkDown(c) \/ Release(c)
      PROVE  Goal
    BY <1>1, <1>3, OthersAlone
<1>4. ASSUME NEW p \in Packets, Receive(d, p)
      PROVE  Goal
  <2>1. Loaded
      BY <1>4 DEF Receive, TypeInv, TypeOK
  <2>2. OnPath(d)'
      BY <1>4, OnPathReceive
  <2>3. ~Decided(d)'
      BY <1>4 DEF Receive, AfterParse, Decided, Classified, TypeInv, TypeOK
  <2> QED BY <2>1, <2>2, <2>3, LoadedStays
<1>5. CASE WalkDown(d)
  <2>1. settled[d] /\ pc'[d] = "walk"
      BY <1>5 DEF WalkDown, InLoop, TypeInv, TypeOK
  <2>2. nodes = Trained /\ Loaded'
      BY <2>1, LoadedStays DEF SettledInv
  <2>3. OnPath(d)'
      BY <1>5, <2>1, <2>2, OnPathDown DEF SettledInv
  <2> QED BY <2>1, <2>2, <2>3 DEF Decided
<1>6. CASE WalkEnd(d)
  <2>1. settled[d] /\ At(d)' = At(d) /\ AtEnd(nodes, At(d))
      BY <1>6 DEF WalkEnd, At
  <2>2. nodes = Trained /\ Loaded'
      BY <2>1, LoadedStays DEF SettledInv
  <2>3. OnPath(d)'
      BY <1>6, <2>1, OnPathEnd DEF SettledInv
  <2> QED BY <2>1, <2>2, <2>3 DEF AtEnd
<1>7. CASE Release(d)
    BY <1>7 DEF Release, TypeInv, TypeOK
<1> QED
    BY <1>2, <1>3, <1>4, <1>5, <1>6, <1>7, KernelSteps

LEMMA VerdictInit == Init => Fresh /\ LoadInv /\ SettledInv /\ \A c \in CPUs : OnPath(c)
<1> SUFFICES ASSUME Init
             PROVE  Fresh /\ LoadInv /\ SettledInv /\ \A c \in CPUs : OnPath(c)
    OBVIOUS
<1>1. Fresh /\ SettledInv
    BY DEF Init, Fresh, SettledInv
<1>2. LoadInv
    BY NodeNbAssumption DEF Init, LoadInv, Index
<1>3. \A c \in CPUs : OnPath(c)
    BY DEF Init, OnPath, Classified
<1> QED BY <1>1, <1>2, <1>3

\* A packet that arrives after the last store is classified by the whole trained
\* tree, whatever the other CPUs and the loader do and whether or not stores tear.
THEOREM SettledVerdictCorrect == Spec => []SettledVerdict
<1>1. SettledInv => SettledVerdict
  <2> SUFFICES ASSUME SettledInv, NEW c \in CPUs, Decided(c), settled[c]
               PROVE  /\ Follows(Trained, Vector(c), trail[c])
                      /\ AtEnd(Trained, At(c))
                      /\ pc[c] = IF PathPass(Trained, Vector(c), trail[c])
                                 THEN "pass" ELSE "drop"
      BY DEF SettledVerdict
  <2> QED BY DEF SettledInv, OnPath, Decided
<1> QED
    BY <1>1, VerdictInit, TypeInvariant, FreshStep, LoadStep, SettledStep, PTL DEF Spec

-------------------------------------------------------------------------------
(* Packets classified while the tree is being loaded, by stores that do not    *)
(* tear: a node is undefined or complete.                                      *)

WholeNodes == \A i \in Index : nodes[i].feature.defined => nodes[i] = Trained[i]

LEMMA WholeNodesStep ==
    ASSUME TornStores = FALSE, TypeInv, WholeNodes, [Next]_vars
    PROVE  WholeNodes'
<1>1. CASE FillNode
  <2>1. fillIdx \in Index /\ nodes \in [Index -> DtNode]
      BY <1>1 DEF FillNode, TypeInv, TypeOK, Filling
  <2>2. nodes' = [nodes EXCEPT ![fillIdx] = Trained[fillIdx]]
      BY <1>1 DEF FillNode
  <2> QED BY <2>1, <2>2 DEF WholeNodes
<1>2. CASE UNCHANGED nodes
    BY <1>2 DEF WholeNodes
<1>3. ~\E field \in {"threshold", "feature"} : FillHalf(field)
    BY DEF FillHalf
<1>4. FillNode \/ UNCHANGED nodes
    BY <1>3 DEF Next, Cpu, Receive, WalkEnd, WalkDown, Release, Loader, Attach,
        InstallHandlers, Setup, LoopCheck, Drain, PollReturn, Fail, DrainError,
        Signal, Terminated, vars, loader
<1> QED BY <1>1, <1>2, <1>4

LEMMA PrefixStep ==
    ASSUME TypeInv, Fresh, WholeNodes, \A c \in CPUs : OnPath(c), [Next]_vars
    PROVE  \A d \in CPUs : OnPath(d)'
<1> SUFFICES ASSUME NEW d \in CPUs PROVE OnPath(d)'
    OBVIOUS
<1>1. CASE UNCHANGED kernel
    BY <1>1, OnPathFrame DEF kernel
<1>2. ASSUME NEW c \in CPUs, c # d,
             \/ \E p \in Packets : Receive(c, p)
             \/ WalkEnd(c) \/ WalkDown(c) \/ Release(c)
      PROVE  OnPath(d)'
    BY <1>2, OthersAlone, OnPathFrame
<1>3. ASSUME NEW p \in Packets, Receive(d, p)
      PROVE  OnPath(d)'
    BY <1>3, OnPathReceive
<1>4. CASE WalkDown(d)
  <2>1. At(d) \in Nat
      BY <1>4 DEF WalkDown, InLoop, At, TypeInv, TypeOK, Walking
  <2>2. At(d) \in Index /\ nodes[At(d)].feature.defined
      BY <1>4, <2>1, NodeNbAssumption DEF WalkDown, AtEnd, Index
  <2>3. nodes[At(d)] = Trained[At(d)]
      BY <2>2 DEF WholeNodes
  <2> QED BY <1>4, <2>3, OnPathDown
<1>5. CASE WalkEnd(d)
    BY <1>5, OnPathEnd
<1>6. CASE Release(d)
    BY <1>6 DEF Release, OnPath, Classified, TypeInv, TypeOK
<1> QED
    BY <1>1, <1>2, <1>3, <1>4, <1>5, <1>6, KernelSteps

\* Before the tree is complete a walk may stop early and never takes a branch
\* the trained tree would not take, if a store of a node is atomic.
THEOREM PrefixVerdictCorrect ==
    ASSUME TornStores = FALSE
    PROVE  Spec => []PrefixVerdict
<1> DEFINE Inv == WholeNodes /\ \A c \in CPUs : OnPath(c)
<1>1. Init => Inv
  <2>1. Init => WholeNodes
      BY DEF Init, WholeNodes, ZeroNode
  <2> QED BY <2>1, VerdictInit
<1>2. TypeInv /\ Fresh /\ Inv /\ [Next]_vars => Inv'
    BY WholeNodesStep, PrefixStep
<1>3. Inv => PrefixVerdict
    BY DEF PrefixVerdict, OnPath
<1>4. Init => Fresh
    BY VerdictInit
<1> HIDE DEF Inv
<1> QED
    BY <1>1, <1>2, <1>3, <1>4, TypeInvariant, FreshStep, PTL DEF Spec

-------------------------------------------------------------------------------
(* The feature vector: fvifupdate writes inside it, and no two chosen features *)
(* share an entry.                                                             *)

LEMMA BelowFinite ==
    ASSUME NEW f
    PROVE  /\ IsFiniteSet(Features) /\ Cardinality(Features) \in Nat
           /\ IsFiniteSet({g \in Features : g < f})
           /\ Cardinality({g \in Features : g < f}) \in Nat
<1>1. IsFiniteSet(0..31)
  <2>1. 0 \in Int /\ 31 \in Int
      OBVIOUS
  <2> QED BY <2>1, FS_Interval
<1>2. IsFiniteSet(Features)
    BY <1>1, FeaturesAssumption, FS_Subset
<1>3. {g \in Features : g < f} \subseteq Features
    OBVIOUS
<1>4. IsFiniteSet({g \in Features : g < f})
    BY <1>2, <1>3, FS_Subset
<1> QED BY <1>2, <1>4, FS_CardinalityType

\* The index of a chosen feature is inside the vector.
THEOREM FeatureIndexInRange ==
    ASSUME NEW f \in Features
    PROVE  FeatureIndex(f) \in FVIndex
<1> DEFINE below == {g \in Features : g < f}
<1>1. below \subseteq Features /\ below # Features
  <2>1. f \notin below
      BY FeaturesAssumption
  <2> QED BY <2>1
<1>2. Cardinality(below) < Cardinality(Features)
  <2>1. Cardinality(below) \in Nat /\ Cardinality(Features) \in Nat
      BY BelowFinite
  <2> HIDE DEF below
  <2>2. Cardinality(below) <= Cardinality(Features) /\ Cardinality(below) # Cardinality(Features)
      BY <1>1, BelowFinite, FS_Subset
  <2> QED BY <2>1, <2>2
<1> QED
    BY <1>2, BelowFinite DEF FeatureIndex, FVIndex, FEATURE_NB

\* Two chosen features never overwrite each other's entry, and the entries are
\* in the order of the features' bits, which is what main.py relies on.
THEOREM FeatureIndexIncreases ==
    ASSUME NEW f \in Features, NEW g \in Features, f < g
    PROVE  FeatureIndex(f) < FeatureIndex(g)
<1> DEFINE bf == {h \in Features : h < f}
           bg == {h \in Features : h < g}
<1>1. bf \subseteq bg /\ bf # bg
  <2>1. f \notin bf /\ f \in bg
      BY FeaturesAssumption
  <2>2. \A h \in bf : h \in bg
      BY FeaturesAssumption
  <2> QED BY <2>1, <2>2
<1>2. IsFiniteSet(bg)
    BY BelowFinite
<1>3. Cardinality(bf) < Cardinality(bg)
  <2>1. Cardinality(bf) \in Nat /\ Cardinality(bg) \in Nat
      BY BelowFinite
  <2> HIDE DEF bf, bg
  <2>2. Cardinality(bf) <= Cardinality(bg) /\ Cardinality(bf) # Cardinality(bg)
      BY <1>1, <1>2, FS_Subset
  <2> QED BY <2>1, <2>2
<1> QED BY <1>3 DEF FeatureIndex

-------------------------------------------------------------------------------
(* The records of the ring.                                                    *)

HoldsSome(r, c) == \E k \in 1..Len(r) : Holds(r[k], c)
HoldsOnce(r, c) == \A j, k \in 1..Len(r) : Holds(r[j], c) /\ Holds(r[k], c) => j = k

\* A reservation gives its producer a record and the others none.
LEMMA ReserveHeld ==
    ASSUME NEW r \in Seq(SlotType), NEW c \in CPUs, NEW e, NEW d \in CPUs, HoldsOnce(r, d)
    PROVE  /\ d # c => (HoldsSome(Reserve(r, c, e), d) <=> HoldsSome(r, d))
           /\ d = c => HoldsSome(Reserve(r, c, e), d)
           /\ (d # c \/ ~HoldsSome(r, d)) => HoldsOnce(Reserve(r, c, e), d)
<1> DEFINE new == Slot(c, "busy", e)
           q == Append(r, new)
<1>1. /\ Len(r) \in Nat /\ Len(q) = Len(r) + 1 /\ q[Len(r) + 1] = new
      /\ \A k \in 1..Len(r) : q[k] = r[k]
    OBVIOUS
<1>2. Holds(new, d) <=> d = c
    BY DEF Slot, Holds
<1> HIDE DEF new, q
<1> QED
    BY <1>1, <1>2 DEF HoldsSome, HoldsOnce, Reserve, q, new

\* Giving a record back leaves its producer without one and the others alone.
LEMMA SettleHeld ==
    ASSUME NEW r \in Seq(SlotType), NEW c \in CPUs, NEW e, NEW s \in {"submitted", "discarded"},
           NEW d \in CPUs, HoldsOnce(r, d)
    PROVE  /\ d # c => (HoldsSome(Settle(r, c, s, e), d) <=> HoldsSome(r, d))
           /\ d = c => ~HoldsSome(Settle(r, c, s, e), d)
           /\ HoldsOnce(Settle(r, c, s, e), d)
<1> DEFINE old == Slot(c, s, e)
           q == Settle(r, c, s, e)
<1>1. /\ Len(r) \in Nat /\ Len(q) = Len(r)
      /\ \A k \in 1..Len(r) : q[k] = IF Holds(r[k], c) THEN old ELSE r[k]
    BY DEF Settle
<1>2. ~Holds(old, d)
    BY DEF Slot, Holds
<1>3. \A k \in 1..Len(r) : Holds(r[k], c) /\ Holds(r[k], d) => c = d
    BY DEF Holds
<1> HIDE DEF old, q
<1>4. \A k \in 1..Len(r) : Holds(q[k], d) <=> Holds(r[k], d) /\ d # c
    BY <1>1, <1>2, <1>3
<1> QED
    BY <1>1, <1>4 DEF HoldsSome, HoldsOnce, q

\* The consumer never takes a record somebody holds.
LEMMA TailHeld ==
    ASSUME NEW r \in Seq(SlotType), HeadReady(r), NEW d \in CPUs, HoldsOnce(r, d)
    PROVE  /\ HoldsSome(Tail(r), d) <=> HoldsSome(r, d)
           /\ HoldsOnce(Tail(r), d)
<1> DEFINE q == Tail(r)
<1>1. /\ Len(r) \in Nat \ {0} /\ Len(q) = Len(r) - 1
      /\ \A k \in 1..Len(q) : q[k] = r[k + 1]
    BY DEF HeadReady
<1>2. ~Holds(r[1], d)
    BY <1>1 DEF HeadReady, Holds
<1> HIDE DEF q
<1>3. HoldsOnce(q, d)
    <2> SUFFICES ASSUME NEW j \in 1..Len(q), NEW k \in 1..Len(q), Holds(q[j], d), Holds(q[k], d)
                 PROVE  j = k
        BY DEF HoldsOnce
    <2>1. j + 1 \in 1..Len(r) /\ k + 1 \in 1..Len(r) /\ q[j] = r[j + 1] /\ q[k] = r[k + 1]
        BY <1>1
    <2> QED
        BY <2>1 DEF HoldsOnce
<1>4. HoldsSome(q, d) => HoldsSome(r, d)
    <2> SUFFICES ASSUME NEW k \in 1..Len(q), Holds(q[k], d) PROVE HoldsSome(r, d)
        BY DEF HoldsSome
    <2>1. k + 1 \in 1..Len(r) /\ q[k] = r[k + 1]
        BY <1>1
    <2> QED
        BY <2>1 DEF HoldsSome
<1>5. HoldsSome(r, d) => HoldsSome(q, d)
    <2> SUFFICES ASSUME NEW k \in 1..Len(r), Holds(r[k], d) PROVE HoldsSome(q, d)
        BY DEF HoldsSome
    <2>1. k - 1 \in 1..Len(q) /\ r[k] = q[k - 1]
        BY <1>1, <1>2
    <2> QED
        BY <2>1 DEF HoldsSome
<1> QED
    BY <1>3, <1>4, <1>5 DEF q

\* A CPU's ne says whether the ring has a record of it, which is one.
HeldInv ==
    \A c \in CPUs : /\ HoldsOnce(ring, c)
                    /\ HoldsSome(ring, c) <=> ne[c]
                    /\ pc[c] = "idle" => ~ne[c]

LEMMA HeldReceive ==
    ASSUME TypeInv, HeldInv, NEW c \in CPUs, NEW p \in Packets, Receive(c, p)
    PROVE  HeldInv'
<1> DEFINE r == CanReserve(ring, RingSlots)
<1>1. /\ pc[c] = "idle" /\ pc'[c] # "idle" /\ ne' = [ne EXCEPT ![c] = r]
      /\ ring' = IF r THEN Reserve(ring, c, Unwritten) ELSE ring
      /\ r \in BOOLEAN /\ ne \in [CPUs -> BOOLEAN] /\ ring \in Seq(SlotType)
    BY DEF Receive, AfterParse, CanReserve, TypeInv, TypeOK
<1> HIDE DEF r
<1> SUFFICES ASSUME NEW d \in CPUs
             PROVE  /\ HoldsOnce(ring', d)
                    /\ HoldsSome(ring', d) <=> ne'[d]
                    /\ pc'[d] = "idle" => ~ne'[d]
    BY DEF HeldInv
<1>2. HoldsOnce(ring, d) /\ (HoldsSome(ring, d) <=> ne[d]) /\ (pc[d] = "idle" => ~ne[d])
    BY DEF HeldInv
<1>3. d # c => ne'[d] = ne[d] /\ pc'[d] = pc[d]
    BY <1>1, OthersAlone
<1>4. d = c => ne'[d] = r
    BY <1>1
<1>5. /\ d # c => (HoldsSome(Reserve(ring, c, Unwritten), d) <=> HoldsSome(ring, d))
      /\ d = c => HoldsSome(Reserve(ring, c, Unwritten), d)
      /\ (d # c \/ ~HoldsSome(ring, d)) => HoldsOnce(Reserve(ring, c, Unwritten), d)
    BY <1>1, <1>2, ReserveHeld
<1> QED
    BY <1>1, <1>2, <1>3, <1>4, <1>5

LEMMA HeldRelease ==
    ASSUME TypeInv, HeldInv, NEW c \in CPUs, Release(c)
    PROVE  HeldInv'
<1>1. /\ pc'[c] = "idle" /\ ne' = [ne EXCEPT ![c] = FALSE]
      /\ ne \in [CPUs -> BOOLEAN] /\ ring \in Seq(SlotType)
    BY DEF Release, TypeInv, TypeOK
<1> SUFFICES ASSUME NEW d \in CPUs
             PROVE  /\ HoldsOnce(ring', d)
                    /\ HoldsSome(ring', d) <=> ne'[d]
                    /\ pc'[d] = "idle" => ~ne'[d]
    BY DEF HeldInv
<1>2. HoldsOnce(ring, d) /\ (HoldsSome(ring, d) <=> ne[d]) /\ (pc[d] = "idle" => ~ne[d])
    BY DEF HeldInv
<1>3. d # c => ne'[d] = ne[d] /\ pc'[d] = pc[d]
    BY OthersAlone
<1>4. d = c => ne'[d] = FALSE
    BY <1>1
<1>5. CASE ~ne[c]
    <2>1. ring' = ring
        BY <1>5 DEF Release
    <2> QED
        BY <1>2, <1>3, <1>4, <1>5, <2>1
<1>6. CASE ne[c]
    <2>1. PICK s \in {"submitted", "discarded"} : \E e : ring' = Settle(ring, c, s, e)
        BY <1>6 DEF Release, Submit, Discard
    <2>2. /\ d # c => (HoldsSome(ring', d) <=> HoldsSome(ring, d))
          /\ d = c => ~HoldsSome(ring', d)
          /\ HoldsOnce(ring', d)
        BY <1>1, <1>2, <2>1, SettleHeld
    <2> QED
        BY <1>2, <1>3, <1>4, <2>2
<1> QED
    BY <1>5, <1>6

LEMMA HeldStep == TypeInv /\ HeldInv /\ [Next]_vars => HeldInv'
<1> SUFFICES ASSUME TypeInv, HeldInv, [Next]_vars PROVE HeldInv'
    OBVIOUS
<1>1. ASSUME NEW c \in CPUs, NEW p \in Packets, Receive(c, p) PROVE HeldInv'
    BY <1>1, HeldReceive
<1>2. ASSUME NEW c \in CPUs, Release(c) PROVE HeldInv'
    BY <1>2, HeldRelease
<1>3. ASSUME NEW c \in CPUs, WalkEnd(c) \/ WalkDown(c) PROVE HeldInv'
    <2>1. /\ ring' = ring /\ ne' = ne
          /\ \A d \in CPUs : pc'[d] = "idle" => pc[d] = "idle"
        BY <1>3 DEF WalkEnd, WalkDown, TypeInv, TypeOK
    <2> QED
        BY <2>1 DEF HeldInv
<1>4. CASE Drain \/ DrainError
    <2>1. /\ ring \in Seq(SlotType) /\ HeadReady(ring) /\ ring' = Tail(ring)
          /\ UNCHANGED kernel
        BY <1>4 DEF Drain, DrainError, HeadLogged, TypeInv, TypeOK
    <2>2. \A d \in CPUs : /\ HoldsSome(ring', d) <=> HoldsSome(ring, d)
                          /\ HoldsOnce(ring', d)
        BY <2>1, TailHeld DEF HeldInv
    <2> QED
        BY <2>1, <2>2 DEF HeldInv, kernel
<1>5. CASE UNCHANGED <<kernel, ring>>
    BY <1>5 DEF HeldInv, kernel
<1> QED
    BY <1>1, <1>2, <1>3, <1>4, <1>5, RingSteps

\* As many as ne says.
LEMMA HeldCounts == HeldInv => ReservationsHeld
<1> SUFFICES ASSUME HeldInv, NEW c \in CPUs
             PROVE  Cardinality({k \in 1..Len(ring) : Holds(ring[k], c)}) = IF ne[c] THEN 1 ELSE 0
    BY DEF ReservationsHeld
<1> DEFINE held == {k \in 1..Len(ring) : Holds(ring[k], c)}
<1>1. CASE ne[c]
    <2>1. PICK k \in 1..Len(ring) : Holds(ring[k], c)
        BY <1>1 DEF HeldInv, HoldsSome
    <2>2. held = {k}
        BY <2>1 DEF HeldInv, HoldsOnce
    <2> HIDE DEF held
    <2>3. Cardinality(held) = 1
        BY <2>2, FS_Singleton, Zenon
    <2> QED
        BY <1>1, <2>3 DEF held
<1>2. CASE ~ne[c]
    <2>1. held = {}
        BY <1>2 DEF HeldInv, HoldsSome
    <2> HIDE DEF held
    <2>2. Cardinality(held) = 0
        BY <2>1, FS_EmptySet, Zenon
    <2> QED
        BY <1>2, <2>2 DEF held
<1> QED
    BY <1>1, <1>2

\* Every reserved record is submitted or discarded exactly once: on every path of
\* the program the busy records of the ring are those of the invocations in
\* progress that reserved one, one each, however the consumer interleaves.
THEOREM ReservationsAlwaysHeld == Spec => []ReservationsHeld
<1>1. Init => HeldInv
    BY DEF Init, HeldInv, HoldsOnce, HoldsSome
<1> QED
    BY <1>1, HeldStep, HeldCounts, TypeInvariant, PTL DEF Spec
===============================================================================
