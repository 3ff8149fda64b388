------------------------------- MODULE MCDtExport -------------------------------
(***************************************************************************)
(* Trained trees for TLC: every tree of depth 1 or 2 over two features with *)
(* small thresholds, and chains as deep as the array allows and deeper.    *)
(***************************************************************************)
EXTENDS DtExport, TLC

TwoFeatures == {F_S_PORT, F_D_PORT}

\* Packets with all small ports, and one that has none.
SmallPackets ==
    [hdrs : {3}, ip : {TRUE}, proto : {IPPROTO_TCP}, sport : 0..3, dport : 0..3, size : {60}]
        \cup [hdrs : {3}, ip : {TRUE}, proto : {1}, sport : {0}, dport : {0}, size : {60}]

\* Trees of a shape; no leaf has a tie between its classes.
TreesOf(left, right, depth, thr2s) ==
    LET ids == DOMAIN left
        inner == {id \in ids : left[id] # -1}
        level[id \in ids] ==
            IF id = 0 THEN 0
            ELSE 1 + level[CHOOSE q \in inner : id \in {left[q], right[q]}]
    IN  {[left |-> left, right |-> right, depth |-> depth, level |-> level,
          feature |-> [id \in ids |-> IF id \in inner THEN f[id] ELSE -2],
          thr2 |-> [id \in ids |-> IF id \in inner THEN t[id] ELSE -4],
          benign |-> [id \in ids |-> IF b[id] THEN 3 ELSE 1],
          malicious |-> [id \in ids |-> IF b[id] THEN 1 ELSE 3]] :
            f \in [inner -> {0, 1}], t \in [inner -> thr2s],
            b \in {g \in [ids -> BOOLEAN] : g[0]}}

Array(s) == [id \in 0..(Len(s) - 1) |-> s[id + 1]]

\* A tree that is one leaf, benign: the array is empty and everything passes.
SingleLeaf == TreesOf(Array(<<-1>>), Array(<<-1>>), 0, {0})

Stump(thr2s) == TreesOf(Array(<<1, -1, -1>>), Array(<<2, -1, -1>>), 1, thr2s)
LeftTree(thr2s) ==
    TreesOf(Array(<<1, 2, -1, -1, -1>>), Array(<<4, 3, -1, -1, -1>>), 2, thr2s)
RightTree(thr2s) ==
    TreesOf(Array(<<1, -1, 3, -1, -1>>), Array(<<2, -1, 4, -1, -1>>), 2, thr2s)
FullTree(thr2s) ==
    TreesOf(Array(<<1, 2, -1, -1, 5, -1, -1>>), Array(<<4, 3, -1, -1, 6, -1, -1>>), 2, thr2s)

\* Half-integers and even integers: 1.5, 2, 2.5.
Exact == {3, 4, 5}
SmallTrees ==
    SingleLeaf \cup Stump(Exact) \cup LeftTree(Exact) \cup RightTree(Exact) \cup FullTree({3, 4})

\* The odd integer 1 among them.
AllStumps == Stump({1, 2, 3})

\* The chain of a depth: every right child is a leaf.
Chain(depth) ==
    LET ids == 0..(2 * depth)
    IN  [left |-> [id \in ids |-> IF id < depth THEN id + 1 ELSE -1],
         right |-> [id \in ids |-> IF id < depth THEN depth + 1 + id ELSE -1],
         depth |-> depth,
         level |-> [id \in ids |-> IF id <= depth THEN id ELSE id - depth],
         feature |-> [id \in ids |-> IF id < depth THEN id % 2 ELSE -2],
         thr2 |-> [id \in ids |-> IF id < depth THEN 2 * (depth - id) + 1 ELSE -4],
         benign |-> [id \in ids |-> IF id % 2 = 0 THEN 3 ELSE 1],
         malicious |-> [id \in ids |-> IF id % 2 = 0 THEN 1 ELSE 3]]
Chains == {Chain(d) : d \in 1..8}

AllTrees == SmallTrees \cup Chains
===============================================================================
