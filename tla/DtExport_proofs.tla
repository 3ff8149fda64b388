---------------------------- MODULE DtExport_proofs ----------------------------
(***************************************************************************)
(* What TLAPS proves of the exporter, for every trained tree, every        *)
(* max_depth and every packet: every variable keeps its type and no        *)
(* position is exported twice; with the 128 nodes of ml_dt.h, a tree       *)
(* exported without a warning fits the loader's array; and the XDP program,*)
(* walking what the loader copied, decides as scikit-learn does.           *)
(*                                                                         *)
(* The invariant EInv says where the breadth-first search is: there is a   *)
(* map from positions to nodes of the tree under which the root is at 0,   *)
(* the children of the node at i are at 2i + 1 and 2i + 2, and whatever is *)
(* exported or waits in the queue agrees with it.  A position whose parent *)
(* is exported is exported itself, waits, or is outside the array; as a    *)
(* tree of depth d has its inner nodes at positions below 2^d - 1, those       *)
(* outside are leaves, whose class the parent's pass bit keeps.            *)
(*                                                                         *)
(* The two classifiers are recursions: the walk over growing positions, the*)
(* descent over growing node numbers.  That both end is proved, and that   *)
(* they agree from every position on, by the least counterexample.         *)
(***************************************************************************)
EXTENDS DtExport, SumTheorems

-------------------------------------------------------------------------------
(* The size of the complete tree. *)

\* One more number doubles the subsets.
LEMMA SubsetsDouble ==
    ASSUME NEW d \in Nat
    PROVE  /\ 2 ^ d \in Nat /\ 2 ^ (d + 1) = 2 * 2 ^ d
           /\ \A e \in Nat : d <= e => 2 ^ d <= 2 ^ e
<1> DEFINE sets(n) == SUBSET (1..n)
<1>1. ASSUME NEW n \in Nat
      PROVE  IsFiniteSet(sets(n)) /\ Cardinality(sets(n)) = 2 ^ n /\ 2 ^ n \in Nat
    <2>1. IsFiniteSet(1..n) /\ Cardinality(1..n) = n
        BY FS_Interval
    <2>2. IsFiniteSet(sets(n)) /\ Cardinality(sets(n)) = 2 ^ n
        BY <2>1, FS_SUBSET
    <2> QED
        BY <2>2, FS_CardinalityType
<1>2. \A e \in Nat : d <= e => 2 ^ d <= 2 ^ e
    <2> SUFFICES ASSUME NEW e \in Nat, d <= e PROVE 2 ^ d <= 2 ^ e
        OBVIOUS
    <2>1. sets(d) \in SUBSET sets(e)
        OBVIOUS
    <2>2. Cardinality(sets(d)) <= Cardinality(sets(e))
        <3> HIDE DEF sets
        <3> QED
            BY <1>1, <2>1, FS_Subset
    <2> QED
        BY <1>1, <2>2
<1>3. 2 ^ (d + 1) = 2 * 2 ^ d
    <2> DEFINE old == sets(d)
               new == {s \cup {d + 1} : s \in old}
               grow == [s \in old |-> s \cup {d + 1}]
    <2>1. IsFiniteSet(old) /\ Cardinality(old) = 2 ^ d /\ 2 ^ d \in Nat
        BY <1>1
    <2>2. \A s \in old : d + 1 \notin s
        OBVIOUS
    <2>3. sets(d + 1) = old \cup new
        <3>1. sets(d + 1) \subseteq old \cup new
            <4> SUFFICES ASSUME NEW s \in sets(d + 1), s \notin old
                         PROVE  s \in new
                OBVIOUS
            <4>1. s \ {d + 1} \in old
                OBVIOUS
            <4>2. d + 1 \in s
                OBVIOUS
            <4>3. s = (s \ {d + 1}) \cup {d + 1}
                BY <4>2
            <4> QED
                BY <4>1, <4>3
        <3>2. old \cup new \subseteq sets(d + 1)
            <4>1. 1..d \subseteq 1..(d + 1) /\ d + 1 \in 1..(d + 1)
                OBVIOUS
            <4>2. \A s \in old : s \subseteq 1..(d + 1) /\ s \cup {d + 1} \subseteq 1..(d + 1)
                BY <4>1
            <4> QED
                BY <4>2
        <3> QED
            BY <3>1, <3>2
    <2>4. old \cap new = {}
        BY <2>2
    <2>5. grow \in Bijection(old, new)
        <3>1. grow \in [old -> new]
            OBVIOUS
        <3>2. \A s, t \in old : grow[s] = grow[t] => s = t
            <4> SUFFICES ASSUME NEW s \in old, NEW t \in old, s \cup {d + 1} = t \cup {d + 1}
                         PROVE  s = t
                OBVIOUS
            <4> QED
                BY <2>2
        <3>3. \A u \in new : \E s \in old : grow[s] = u
            OBVIOUS
        <3> QED
            BY <3>1, <3>2, <3>3 DEF Bijection, Injection, Surjection, IsInjective
    <2>6. IsFiniteSet(new) /\ Cardinality(new) = Cardinality(old)
        <3> HIDE DEF old, new, grow
        <3> QED
            BY <2>1, <2>5, FS_Bijection DEF ExistsBijection
    <2>7. Cardinality(old \cup new) = Cardinality(old) + Cardinality(new) - Cardinality({})
        <3> HIDE DEF old, new
        <3> QED
            BY <2>1, <2>4, <2>6, FS_Union
    <2>8. Cardinality({}) = 0
        BY FS_EmptySet
    <2>9. Cardinality(sets(d + 1)) = 2 ^ (d + 1)
        <3>1. d + 1 \in Nat
            OBVIOUS
        <3> HIDE DEF sets
        <3> QED
            BY <1>1, <3>1
    <2> HIDE DEF old, new, sets
    <2> QED
        BY <2>1, <2>3, <2>6, <2>7, <2>8, <2>9
<1> QED
    BY <1>1, <1>2, <1>3

\* A tree one level deeper has a root and twice the nodes; a deeper tree has no
\* fewer nodes.
LEMMA SizeGrows ==
    /\ Size(0) = 0
    /\ \A d \in Nat : Size(d) \in Nat /\ Size(d + 1) = 2 * Size(d) + 1
    /\ \A d, e \in Nat : d <= e => Size(d) <= Size(e)
<1>1. 2 ^ 0 = 1
    <2>1. IsFiniteSet({}) /\ Cardinality({}) = 0
        BY FS_EmptySet
    <2>2. Cardinality(SUBSET {}) = 2 ^ 0
        BY <2>1, FS_SUBSET
    <2>3. SUBSET {} = {{}}
        OBVIOUS
    <2>4. Cardinality({{}}) = 1
        BY FS_Singleton
    <2> QED
        BY <2>2, <2>3, <2>4
<1>2. \A d \in Nat : /\ 2 ^ d \in Nat /\ 2 ^ (d + 1) = 2 * 2 ^ d
                     /\ \A e \in Nat : d <= e => 2 ^ d <= 2 ^ e
    BY SubsetsDouble
<1>3. \A d \in Nat : 1 <= 2 ^ d
    <2>1. \A d \in Nat : 0 \in Nat /\ 0 <= d
        OBVIOUS
    <2>2. \A d \in Nat : 2 ^ 0 <= 2 ^ d
        BY <1>2, <2>1
    <2> QED
        BY <1>1, <2>2
<1> QED
    BY <1>1, <1>2, <1>3 DEF Size

-------------------------------------------------------------------------------
(* Two recursions that go on at one place until they end. *)

\* f goes on from s at next[s], until an end, whose value it has.
GoesOn(f, S, ends, value, next) ==
    \A s \in S : f[s] = IF s \in ends THEN value[s] ELSE f[next[s]]

\* Each step lowers a rank of at most N.
Descends(S, ends, next, N, rank) ==
    /\ N \in Nat /\ rank \in [S -> 0..N]
    /\ \A s \in S \ ends : next[s] \in S /\ rank[next[s]] < rank[s]

\* There is such a function when each step lowers a bounded rank.
LEMMA RecursionDefined ==
    ASSUME NEW S, NEW ends, NEW value, NEW next, NEW N, NEW rank,
           Descends(S, ends, next, N, rank)
    PROVE  \E f : f = [s \in S |-> IF s \in ends THEN value[s] ELSE f[next[s]]]
<1> USE DEF Descends
<1> DEFINE below(n) == {s \in S : rank[s] < n}
           bad == {n \in Nat : ~\E f : GoesOn(f, below(n), ends, value, next)}
<1>1. bad = {}
    <2> SUFFICES ASSUME bad # {} PROVE FALSE
        OBVIOUS
    <2>1. PICK n \in bad : \A m \in bad : n <= m
        <3>1. bad \in SUBSET Nat
            OBVIOUS
        <3> HIDE DEF bad
        <3> QED
            BY <3>1, LeastNumber
    <2>2. n # 0
        <3>1. below(0) = {}
            OBVIOUS
        <3>2. GoesOn(next, below(0), ends, value, next)
            BY <3>1 DEF GoesOn
        <3> QED
            BY <3>2
    <2>3. n - 1 \in Nat /\ n - 1 \notin bad
        <3>1. n \in Nat
            OBVIOUS
        <3> HIDE DEF bad
        <3> QED
            BY <2>1, <2>2, <3>1
    <2>4. PICK g : GoesOn(g, below(n - 1), ends, value, next)
        BY <2>3
    <2> DEFINE f == [s \in S |-> IF rank[s] = n - 1 /\ s \notin ends THEN g[next[s]]
                                ELSE IF s \in ends THEN value[s] ELSE g[s]]
    <2>5. ASSUME NEW s \in below(n)
          PROVE  f[s] = IF s \in ends THEN value[s] ELSE f[next[s]]
        <3>1. CASE s \in ends
            BY <3>1
        <3>2. CASE s \notin ends
            <4>1. next[s] \in S /\ rank[next[s]] < n - 1 /\ s \in S /\ rank[s] \in 0..N /\ rank[next[s]] \in 0..N
                BY <2>3, <3>2
            <4>2. next[s] \in below(n - 1)
                BY <4>1
            <4>3. f[next[s]] = g[next[s]]
                <5>1. g[next[s]] = IF next[s] \in ends THEN value[next[s]] ELSE g[next[next[s]]]
                    BY <2>4, <4>2 DEF GoesOn
                <5>2. f[next[s]] = IF next[s] \in ends THEN value[next[s]] ELSE g[next[s]]
                    BY <4>1
                <5> QED
                    BY <5>1, <5>2
            <4>4. CASE rank[s] = n - 1
                BY <3>2, <4>1, <4>3, <4>4
            <4>5. CASE rank[s] # n - 1
                <5>1. s \in below(n - 1)
                    BY <2>3, <4>1, <4>5
                <5>2. g[s] = g[next[s]]
                    BY <2>4, <3>2, <5>1 DEF GoesOn
                <5>3. f[s] = g[s]
                    BY <3>2, <4>1, <4>5
                <5> QED
                    BY <3>2, <4>3, <5>2, <5>3
            <4> QED
                BY <4>4, <4>5
        <3> QED
            BY <3>1, <3>2
    <2> HIDE DEF f
    <2>6. GoesOn(f, below(n), ends, value, next)
        BY <2>5 DEF GoesOn
    <2> QED
        BY <2>6
<1>2. PICK g : GoesOn(g, below(N + 1), ends, value, next)
    <2>1. N + 1 \in Nat /\ N + 1 \notin bad
        BY <1>1
    <2> QED
        BY <2>1
<1>3. \A s \in S : g[s] = IF s \in ends THEN value[s] ELSE g[next[s]]
    <2>1. \A s \in S : s \in below(N + 1)
        OBVIOUS
    <2> QED
        BY <1>2, <2>1 DEF GoesOn
<1> DEFINE f == [s \in S |-> g[s]]
<1>4. f = [s \in S |-> IF s \in ends THEN value[s] ELSE f[next[s]]]
    BY <1>3
<1> HIDE DEF f
<1> QED
    BY <1>4

\* The walk of the XDP program goes on at later places of the array.
LEMMA WalkGoesOn ==
    ASSUME NEW a \in [Index -> DtNode], NEW fv \in [FVIndex -> Nat],
           NEW i \in 0..(2 * DT_NODE_NB), NEW b \in BOOLEAN
    PROVE  Walk(a, fv)[<<i, b>>] =
              IF AtEnd(a, i) THEN b
              ELSE Walk(a, fv)[<<Child(a[i], i, fv), BranchPass(a[i], fv)>>]
<1> DEFINE S == (0..(2 * DT_NODE_NB)) \X BOOLEAN
           ends == {s \in S : AtEnd(a, s[1])}
           value == [s \in S |-> s[2]]
           next == [s \in S |-> <<Child(a[s[1]], s[1], fv), BranchPass(a[s[1]], fv)>>]
           rank == [s \in S |-> 2 * DT_NODE_NB - s[1]]
           From(w) == w = [s \in S |-> IF AtEnd(a, s[1]) THEN s[2]
                                       ELSE w[<<Child(a[s[1]], s[1], fv), BranchPass(a[s[1]], fv)>>]]
<1>1. rank \in [S -> 0..(2 * DT_NODE_NB)] /\ 2 * DT_NODE_NB \in Nat
    BY NodeNbAssumption
<1>2. ASSUME NEW s \in S \ ends
      PROVE  next[s] \in S /\ rank[next[s]] < rank[s]
    <2>1. s[1] \in 0..(2 * DT_NODE_NB) /\ ~AtEnd(a, s[1]) /\ DT_NODE_NB \in 1..255
        BY NodeNbAssumption
    <2>2. s[1] \in Index /\ a[s[1]] \in DtNode
        <3> DEFINE j == s[1]
        <3>1. j \in 0..(2 * DT_NODE_NB) /\ ~AtEnd(a, j) /\ DT_NODE_NB \in 1..255
            BY <2>1
        <3> HIDE DEF j
        <3>2. j < DT_NODE_NB
            BY <3>1 DEF AtEnd
        <3>3. j \in Index
            BY <3>1, <3>2 DEF Index
        <3> QED
            BY <3>3 DEF j
    <2>3. BranchPass(a[s[1]], fv) \in BOOLEAN
        BY <2>2 DEF BranchPass, DtNode, FeatureByte
    <2>4. Child(a[s[1]], s[1], fv) \in 0..(2 * DT_NODE_NB) /\ Child(a[s[1]], s[1], fv) > s[1]
        BY <2>1, <2>2 DEF Child, Index
    <2>5. next[s] = <<Child(a[s[1]], s[1], fv), BranchPass(a[s[1]], fv)>> /\ next[s] \in S
        BY <2>3, <2>4
    <2>6. rank[next[s]] = 2 * DT_NODE_NB - Child(a[s[1]], s[1], fv)
        BY <2>5
    <2> QED
        BY <2>1, <2>4, <2>5, <2>6
<1>3. PICK w : w = [s \in S |-> IF s \in ends THEN value[s] ELSE w[next[s]]]
    <2> HIDE DEF S, ends, value, next, rank
    <2>1. Descends(S, ends, next, 2 * DT_NODE_NB, rank)
        BY <1>1, <1>2 DEF Descends
    <2> QED
        BY <2>1, RecursionDefined
<1>4. From(w)
    <2>1. \A s \in S : (s \in ends <=> AtEnd(a, s[1])) /\ value[s] = s[2]
                      /\ next[s] = <<Child(a[s[1]], s[1], fv), BranchPass(a[s[1]], fv)>>
        OBVIOUS
    <2> HIDE DEF S, ends, value, next
    <2> QED
        BY <1>3, <2>1
<1>5. From(CHOOSE x : From(x))
    <2> HIDE DEF From
    <2> QED
        BY <1>4
<1>6. Walk(a, fv) = CHOOSE x : From(x)
    BY DEF Walk
<1>7. From(Walk(a, fv))
    BY <1>5, <1>6
<1>8. <<i, b>> \in S /\ <<i, b>>[1] = i /\ <<i, b>>[2] = b
    OBVIOUS
<1> HIDE DEF S
<1> QED
    BY <1>7, <1>8

\* The recursion of LeafOf.
Down(t, fv) ==
    CHOOSE down : down = [id \in Ids(t) |->
        IF Leaf(t, id) THEN id
        ELSE IF 2 * fv[t.feature[id]] <= t.thr2[id]
             THEN down[t.left[id]] ELSE down[t.right[id]]]

\* scikit-learn's descent goes on at nodes of larger numbers.
LEMMA DownGoesOn ==
    ASSUME NEW t \in Trees, NEW fv, NEW id \in Ids(t)
    PROVE  Down(t, fv)[id] =
              IF Leaf(t, id) THEN id
              ELSE IF 2 * fv[t.feature[id]] <= t.thr2[id]
                   THEN Down(t, fv)[t.left[id]] ELSE Down(t, fv)[t.right[id]]
<1> DEFINE S == Ids(t)
           N == Cardinality(S)
           ends == {q \in S : Leaf(t, q)}
           value == [q \in S |-> q]
           next == [q \in S |-> IF 2 * fv[t.feature[q]] <= t.thr2[q] THEN t.left[q] ELSE t.right[q]]
           rank == [q \in S |-> N - q]
           From(w) == w = [q \in S |-> IF Leaf(t, q) THEN q
                                       ELSE IF 2 * fv[t.feature[q]] <= t.thr2[q]
                                            THEN w[t.left[q]] ELSE w[t.right[q]]]
<1>1. IsTree(t)
    BY TreesAssumption
<1>2. N \in Nat /\ S = 0..(N - 1)
    BY <1>1, FS_CardinalityType DEF IsTree
<1> HIDE DEF S, N
<1>3. rank \in [S -> 0..N]
    BY <1>2
<1>4. ASSUME NEW q \in S \ ends
      PROVE  next[q] \in S /\ rank[next[q]] < rank[q]
    <2>1. t.left[q] \in S /\ q < t.left[q] /\ t.right[q] \in S /\ q < t.right[q]
        BY <1>1 DEF IsTree, S
    <2>2. next[q] \in S /\ q < next[q]
        BY <2>1
    <2> QED
        BY <1>2, <2>2
<1>5. PICK w : w = [q \in S |-> IF q \in ends THEN value[q] ELSE w[next[q]]]
    <2> HIDE DEF ends, value, next, rank
    <2>1. Descends(S, ends, next, N, rank)
        BY <1>2, <1>3, <1>4 DEF Descends
    <2> QED
        BY <2>1, RecursionDefined
<1>6. From(w)
    <2>1. \A q \in S : /\ q \in ends <=> Leaf(t, q)
                      /\ value[q] = q
                      /\ w[next[q]] = IF 2 * fv[t.feature[q]] <= t.thr2[q]
                                      THEN w[t.left[q]] ELSE w[t.right[q]]
        OBVIOUS
    <2> HIDE DEF ends, value, next
    <2> QED
        BY <1>5, <2>1
<1>7. From(CHOOSE x : From(x))
    <2> HIDE DEF From
    <2> QED
        BY <1>6
<1>8. Down(t, fv) = CHOOSE x : From(x)
    BY DEF Down, S
<1>9. From(Down(t, fv))
    BY <1>7, <1>8
<1> QED
    BY <1>9 DEF S

\* The descent ends at a leaf.
LEMMA DownEnds ==
    ASSUME NEW t \in Trees, NEW fv, NEW root \in Ids(t)
    PROVE  Down(t, fv)[root] \in Ids(t) /\ Leaf(t, Down(t, fv)[root])
<1> DEFINE d == Down(t, fv)
           fine(id) == d[id] \in Ids(t) /\ Leaf(t, d[id])
<1>1. IsTree(t)
    BY TreesAssumption
<1>2. PICK N \in Nat : Ids(t) = 0..(N - 1)
    BY <1>1, FS_CardinalityType DEF IsTree
<1> DEFINE bad == {n \in Nat : \E id \in Ids(t) : ~fine(id) /\ n = N - id}
<1> SUFFICES ASSUME ~fine(root) PROVE FALSE
    OBVIOUS
<1>3. N - root \in bad
    BY <1>2
<1>4. PICK n \in bad : \A m \in bad : n <= m
    <2>1. bad \in SUBSET Nat /\ bad # {}
        BY <1>3
    <2> HIDE DEF bad
    <2> QED
        BY <2>1, LeastNumber
<1>5. PICK id \in Ids(t) : ~fine(id) /\ n = N - id
    OBVIOUS
<1>6. ~Leaf(t, id)
    BY <1>5, DownGoesOn
<1>7. \A kid \in {t.left[id], t.right[id]} : kid \in Ids(t) /\ id < kid
    BY <1>1, <1>6 DEF IsTree
<1>8. \A kid \in {t.left[id], t.right[id]} : fine(kid)
    <2> SUFFICES ASSUME NEW kid \in {t.left[id], t.right[id]}, ~fine(kid) PROVE FALSE
        OBVIOUS
    <2>1. kid \in Ids(t) /\ id < kid
        BY <1>7
    <2> HIDE DEF fine
    <2>2. N - kid \in bad /\ N - kid < n /\ n \in Nat /\ N - kid \in Nat
        BY <1>2, <1>5, <2>1
    <2> HIDE DEF bad
    <2> QED
        BY <1>4, <2>2
<1>9. d[id] = d[t.left[id]] \/ d[id] = d[t.right[id]]
    BY <1>6, DownGoesOn
<1> QED
    BY <1>5, <1>8, <1>9
-------------------------------------------------------------------------------
(* The queue. *)

LEMMA HeadTaken ==
    ASSUME NEW T, NEW q \in Seq(T), q # <<>>
    PROVE  /\ Len(q) \in Nat \ {0} /\ Head(q) = q[1] /\ q[1] \in T
           /\ Tail(q) \in Seq(T) /\ Len(Tail(q)) = Len(q) - 1
           /\ \A n \in 1..(Len(q) - 1) : Tail(q)[n] = q[n + 1]
OBVIOUS

LEMMA TwoAppended ==
    ASSUME NEW T, NEW q \in Seq(T), NEW x \in T, NEW y \in T
    PROVE  /\ q \o <<x, y>> \in Seq(T) /\ Len(q \o <<x, y>>) = Len(q) + 2
           /\ \A n \in 1..Len(q) : (q \o <<x, y>>)[n] = q[n]
           /\ (q \o <<x, y>>)[Len(q) + 1] = x /\ (q \o <<x, y>>)[Len(q) + 2] = y
OBVIOUS

-------------------------------------------------------------------------------
(* The invariant. *)

Places == {queue[n][1] : n \in 1..Len(queue)}
Parent(i) == (i - 1) \div 2

\* Positions wait once, and of every position that waits or is exported, but the
\* root's, the parent is exported.
QueueInv ==
    /\ \A m, n \in 1..Len(queue) : queue[m][1] = queue[n][1] => m = n
    /\ ~written => \A i \in (DOMAIN nodes \cup Places) \ {0} : Parent(i) \in DOMAIN nodes
    /\ written => queue = <<>>

\* Exported, waiting, or outside the array.
Open(done) == done \cup Places \cup {i \in Nat : i >= MaxNodes}

\* The positions of a node's level and of the levels above.
Reach(id) == Size(tree.level[id] + 1)

\* at is the tree's node at each position, and done the positions that were exported.
Laid(at, done) ==
    /\ done \subseteq DOMAIN nodes /\ (~written => done = DOMAIN nodes)
    /\ at[0] = 0 /\ 0 \in Open(done)
    /\ \A n \in 1..Len(queue) : /\ at[queue[n][1]] = queue[n][2]
                                /\ queue[n][1] < Reach(queue[n][2])
    /\ \A i \in done : /\ i < Reach(at[i])
                       /\ nodes[i] = IF Leaf(tree, at[i]) THEN ZeroNode ELSE ExportedNode(at[i])
    /\ \A i \in done : ~Leaf(tree, at[i]) =>
          /\ at[2 * i + 1] = tree.left[at[i]] /\ 2 * i + 1 \in Open(done)
          /\ at[2 * i + 2] = tree.right[at[i]] /\ 2 * i + 2 \in Open(done)

EInv == TypeOK /\ QueueInv /\ \E at \in [Nat -> Ids(tree)], done \in SUBSET Nat : Laid(at, done)

LEMMA SizeTyped ==
    ASSUME TypeOK
    PROVE  /\ IsTree(tree) /\ MaxNodes \in Nat
           /\ \A id \in Ids(tree) : Reach(id) \in Nat \ {0}
           /\ \A id \in Ids(tree) : ~Leaf(tree, id) =>
                 /\ Reach(id) <= MaxNodes
                 /\ Reach(tree.left[id]) = 2 * Reach(id) + 1
                 /\ Reach(tree.right[id]) = 2 * Reach(id) + 1
<1>1. IsTree(tree)
    BY TreesAssumption DEF TypeOK
<1>2. tree.depth \in Nat /\ \A id \in Ids(tree) : tree.level[id] \in 0..tree.depth
    BY <1>1 DEF IsTree
<1>3. MaxNodes \in Nat
    BY <1>2, SizeGrows DEF MaxNodes
<1>4. \A id \in Ids(tree) : Reach(id) \in Nat \ {0}
    <2>1. \A d \in Nat : Size(d) \in Nat /\ Size(d + 1) = 2 * Size(d) + 1
        BY SizeGrows
    <2>2. ASSUME NEW d \in Nat PROVE Size(d + 1) \in Nat \ {0}
        <3>1. Size(d) \in Nat /\ Size(d + 1) = 2 * Size(d) + 1
            BY <2>1
        <3> QED
            BY <3>1
    <2> QED
        BY <1>2, <2>2 DEF Reach
<1>5. ASSUME NEW id \in Ids(tree), ~Leaf(tree, id)
      PROVE  /\ Reach(id) <= MaxNodes
             /\ Reach(tree.left[id]) = 2 * Reach(id) + 1
             /\ Reach(tree.right[id]) = 2 * Reach(id) + 1
    <2> DEFINE l == tree.level[id]
    <2>1. /\ tree.left[id] \in Ids(tree) /\ tree.level[tree.left[id]] = l + 1
          /\ tree.right[id] \in Ids(tree) /\ tree.level[tree.right[id]] = l + 1
        BY <1>1, <1>5 DEF IsTree
    <2>2. l \in Nat /\ l + 1 <= tree.depth /\ l + 1 \in Nat
        BY <1>2, <2>1
    <2>3. Reach(id) <= MaxNodes
        BY <1>2, <2>2, SizeGrows DEF Reach, MaxNodes
    <2>4. Size((l + 1) + 1) = 2 * Size(l + 1) + 1
        <3> HIDE DEF l
        <3> QED
            BY <2>2, SizeGrows
    <2> QED
        BY <2>1, <2>3, <2>4 DEF Reach
<1> QED
    BY <1>1, <1>3, <1>4, <1>5

\* Exported nodes fit the struct of the XDP program.
LEMMA NodesTyped ==
    ASSUME TypeOK
    PROVE  /\ ZeroNode \in DtNode
           /\ \A id \in Ids(tree) : ~Leaf(tree, id) => ExportedNode(id) \in DtNode
<1>1. ZeroNode \in DtNode
    BY DEF ZeroNode, DtNode, FeatureByte
<1>2. ASSUME NEW id \in Ids(tree), ~Leaf(tree, id)
      PROVE  ExportedNode(id) \in DtNode
    <2>1. IsTree(tree)
        BY SizeTyped
    <2>2. tree.thr2[id] \in Nat /\ tree.feature[id] \in FVIndex
        BY <1>2, <2>1 DEF IsTree
    <2>3. Threshold(id) \in Nat
        <3> DEFINE x == tree.thr2[id] - 1
        <3>1. x \in Int /\ x >= -1
            BY <2>2
        <3> HIDE DEF x
        <3>2. Round2(x) \in Nat
            BY <3>1 DEF Round2
        <3> QED
            BY <3>2 DEF Threshold, x
    <2>4. tree.feature[id] % 32 \in 0..31
        <3>1. tree.feature[id] \in Int
            BY <2>2 DEF FVIndex
        <3> QED
            BY <3>1
    <2>5. MostlyBenign(tree.left[id]) \in BOOLEAN /\ MostlyBenign(tree.right[id]) \in BOOLEAN
        BY DEF MostlyBenign
    <2> QED
        BY <2>3, <2>4, <2>5 DEF ExportedNode, DtNode, FeatureByte
<1> QED
    BY <1>1, <1>2

LEMMA InitEInv == Init => EInv
<1> SUFFICES ASSUME Init PROVE EInv
    OBVIOUS
<1>1. IsTree(tree) /\ tree \in Trees
    BY TreesAssumption DEF Init
<1>2. 0 \in Ids(tree) /\ Len(queue) = 1 /\ queue[1] = <<0, 0>> /\ queue \in Seq(Nat \X Ids(tree))
    BY <1>1 DEF Init, IsTree
<1>3. DOMAIN nodes = {} /\ ~written /\ written \in BOOLEAN
    <2>1. nodes = <<>> /\ written = FALSE
        BY DEF Init
    <2>2. DOMAIN nodes = {}
        <3>1. DOMAIN <<>> = {}
            OBVIOUS
        <3> QED
            BY <2>1, <3>1, Zenon
    <2> QED
        BY <2>1, <2>2
<1>4. TypeOK
    BY <1>1, <1>2, <1>3 DEF TypeOK, Init
<1>5. Places = {0}
    BY <1>2 DEF Places
<1>6. QueueInv
    BY <1>2, <1>3, <1>5 DEF QueueInv
<1>7. \E at \in [Nat -> Ids(tree)], done \in SUBSET Nat : Laid(at, done)
    <2> DEFINE at == [i \in Nat |-> 0]
    <2>1. at \in [Nat -> Ids(tree)]
        BY <1>2
    <2>2. 0 < Reach(0)
        BY <1>2, <1>4, SizeTyped
    <2>3. Laid(at, {})
        BY <1>2, <1>3, <1>5, <2>2 DEF Laid, Open
    <2> QED
        BY <2>1, <2>3
<1> QED
    BY <1>4, <1>6, <1>7 DEF EInv

\* What a turn of the loop takes from the queue.
LEMMA TurnTakes ==
    ASSUME TypeOK, QueueInv, queue # <<>>, NEW p, NEW id, p = Head(queue)[1], id = Head(queue)[2]
    PROVE  /\ p \in Nat /\ id \in Ids(tree) /\ p \in Places /\ p \notin DOMAIN nodes /\ ~written
           /\ 1 \in 1..Len(queue) /\ queue[1][1] = p /\ queue[1][2] = id /\ Places \subseteq Nat
           /\ Len(queue) \in Nat \ {0}
           /\ Tail(queue) \in Seq(Nat \X Ids(tree)) /\ Len(Tail(queue)) = Len(queue) - 1
           /\ \A n \in 1..(Len(queue) - 1) :
                 /\ n + 1 \in 1..Len(queue) /\ Tail(queue)[n] = queue[n + 1]
                 /\ queue[n + 1][1] # p
           /\ Places = {p} \cup {Tail(queue)[n][1] : n \in 1..(Len(queue) - 1)}
<1>1. queue \in Seq(Nat \X Ids(tree))
    BY DEF TypeOK
<1>2. /\ Len(queue) \in Nat \ {0} /\ Head(queue) = queue[1] /\ queue[1] \in Nat \X Ids(tree)
      /\ Tail(queue) \in Seq(Nat \X Ids(tree)) /\ Len(Tail(queue)) = Len(queue) - 1
      /\ \A n \in 1..(Len(queue) - 1) : Tail(queue)[n] = queue[n + 1]
    BY <1>1, HeadTaken
<1>3. 1 \in 1..Len(queue) /\ queue[1][1] = p /\ queue[1][2] = id /\ p \in Nat /\ id \in Ids(tree)
    BY <1>2
<1>4. p \in Places /\ p \notin DOMAIN nodes /\ ~written
    BY <1>3 DEF Places, TypeOK, QueueInv
<1>5. Places \subseteq Nat
    BY <1>1 DEF Places
<1>6. ASSUME NEW n \in 1..(Len(queue) - 1)
      PROVE  n + 1 \in 1..Len(queue) /\ queue[n + 1][1] # p
    <2>1. n + 1 \in 1..Len(queue) /\ n + 1 # 1
        BY <1>2
    <2> QED
        BY <1>3, <2>1 DEF QueueInv
<1>7. Places = {p} \cup {Tail(queue)[n][1] : n \in 1..(Len(queue) - 1)}
    <2> DEFINE rest == {Tail(queue)[n][1] : n \in 1..(Len(queue) - 1)}
    <2>1. \A m \in 1..Len(queue) : m = 1 \/ (m - 1 \in 1..(Len(queue) - 1) /\ (m - 1) + 1 = m)
        BY <1>2
    <2>2. \A m \in 1..Len(queue) : queue[m][1] \in {p} \cup rest
        <3> SUFFICES ASSUME NEW m \in 1..Len(queue), m # 1 PROVE queue[m][1] \in rest
            BY <1>3
        <3>1. m - 1 \in 1..(Len(queue) - 1) /\ Tail(queue)[m - 1] = queue[m]
            BY <1>2, <2>1
        <3> QED
            BY <3>1
    <2>3. {p} \cup rest \subseteq Places
        BY <1>2, <1>4, <1>6 DEF Places
    <2> HIDE DEF rest
    <2>4. Places \subseteq {p} \cup rest
        BY <2>2 DEF Places
    <2> QED
        BY <2>3, <2>4 DEF rest
<1> QED
    BY <1>2, <1>3, <1>4, <1>5, <1>6, <1>7

\* A turn that appends nothing.
LEMMA TurnDrops ==
    ASSUME TypeOK, QueueInv, queue # <<>>, queue' = Tail(queue),
           NEW p, NEW id, p = Head(queue)[1], id = Head(queue)[2]
    PROVE  /\ p \in Nat /\ id \in Ids(tree) /\ p \in Places /\ p \notin DOMAIN nodes /\ ~written
           /\ Places \subseteq Nat /\ Len(queue) \in Nat \ {0}
           /\ queue' \in Seq(Nat \X Ids(tree)) /\ Len(queue') = Len(queue) - 1
           /\ \A n \in 1..(Len(queue) - 1) :
                 n + 1 \in 1..Len(queue) /\ queue'[n] = queue[n + 1] /\ queue[n + 1][1] # p
           /\ Places = {p} \cup Places'
           /\ \A m, n \in 1..Len(queue') : queue'[m][1] = queue'[n][1] => m = n
<1>1. /\ p \in Nat /\ id \in Ids(tree) /\ p \in Places /\ p \notin DOMAIN nodes /\ ~written
      /\ Places \subseteq Nat /\ Len(queue) \in Nat \ {0}
    BY TurnTakes
<1>2. /\ Tail(queue) \in Seq(Nat \X Ids(tree)) /\ Len(Tail(queue)) = Len(queue) - 1
      /\ \A n \in 1..(Len(queue) - 1) :
            n + 1 \in 1..Len(queue) /\ Tail(queue)[n] = queue[n + 1] /\ queue[n + 1][1] # p
    BY TurnTakes
<1>3. Places = {p} \cup {Tail(queue)[n][1] : n \in 1..(Len(queue) - 1)}
    BY TurnTakes
<1>4. Places' = {Tail(queue)[n][1] : n \in 1..(Len(queue) - 1)}
    BY <1>2 DEF Places
<1>5. \A m, n \in 1..Len(queue') : queue'[m][1] = queue'[n][1] => m = n
    <2> SUFFICES ASSUME NEW m \in 1..Len(queue'), NEW n \in 1..Len(queue'),
                        queue'[m][1] = queue'[n][1]
                 PROVE  m = n
        OBVIOUS
    <2>1. m + 1 \in 1..Len(queue) /\ n + 1 \in 1..Len(queue) /\ queue[m + 1][1] = queue[n + 1][1]
        BY <1>1, <1>2
    <2>2. m + 1 = n + 1
        BY <2>1 DEF QueueInv
    <2> QED
        BY <1>1, <1>2, <2>2
<1> QED
    BY <1>1, <1>2, <1>3, <1>4, <1>5

LEMMA SkipEInv == ASSUME EInv, Skip PROVE EInv'
<1>1. /\ queue # <<>> /\ Head(queue)[1] >= MaxNodes /\ queue' = Tail(queue)
      /\ tree' = tree /\ depthArg' = depthArg /\ nodes' = nodes /\ written' = written
    BY DEF Skip
<1>2. TypeOK /\ QueueInv
    BY DEF EInv
<1>3. PICK p, id : p = Head(queue)[1] /\ id = Head(queue)[2]
    OBVIOUS
<1>4. /\ p \in Nat /\ id \in Ids(tree) /\ p \in Places /\ p \notin DOMAIN nodes /\ ~written
      /\ Places \subseteq Nat /\ Len(queue) \in Nat \ {0}
      /\ queue' \in Seq(Nat \X Ids(tree)) /\ Len(queue') = Len(queue) - 1
      /\ \A n \in 1..(Len(queue) - 1) :
            n + 1 \in 1..Len(queue) /\ queue'[n] = queue[n + 1] /\ queue[n + 1][1] # p
      /\ Places = {p} \cup Places'
    BY <1>1, <1>2, <1>3, TurnDrops
<1>5. TypeOK'
    BY <1>1, <1>2, <1>4 DEF TypeOK, Ids, MaxNodes
<1>6. QueueInv'
    <2>1. \A m, n \in 1..Len(queue') : queue'[m][1] = queue'[n][1] => m = n
        BY <1>1, <1>2, <1>3, TurnDrops
    <2>2. \A i \in (DOMAIN nodes' \cup Places') \ {0} : Parent(i) \in DOMAIN nodes'
        BY <1>1, <1>2, <1>4 DEF QueueInv
    <2> QED
        BY <1>1, <1>4, <2>1, <2>2 DEF QueueInv, Parent
<1>7. PICK at \in [Nat -> Ids(tree)], done \in SUBSET Nat : Laid(at, done)
    BY DEF EInv
<1>8. Open(done)' = Open(done)
    BY <1>1, <1>3, <1>4 DEF Open, MaxNodes
<1>9. Laid(at, done)'
    BY <1>1, <1>4, <1>7, <1>8 DEF Laid, Reach, Leaf, ExportedNode, Threshold, MostlyBenign
<1> QED
    BY <1>1, <1>5, <1>6, <1>7, <1>9 DEF EInv, Ids

\* What an export of the head does to the array.
LEMMA PutKeeps ==
    ASSUME TypeOK, NEW p \in Nat, p < MaxNodes, p \notin DOMAIN nodes, NEW node \in DtNode,
           nodes' = Put(p, node), tree' = tree
    PROVE  /\ DOMAIN nodes' = DOMAIN nodes \cup {p} /\ nodes'[p] = node
           /\ \A i \in DOMAIN nodes : nodes'[i] = nodes[i]
           /\ DOMAIN nodes' \subseteq 0..(MaxNodes' - 1) /\ \A i \in DOMAIN nodes' : nodes'[i] \in DtNode
<1>1. DOMAIN nodes' = DOMAIN nodes \cup {p} /\ nodes'[p] = node
      /\ \A i \in DOMAIN nodes : nodes'[i] = nodes[i]
    BY DEF Put
<1>2. DOMAIN nodes \subseteq 0..(MaxNodes - 1) /\ \A i \in DOMAIN nodes : nodes[i] \in DtNode
    BY DEF TypeOK
<1>3. MaxNodes' = MaxNodes /\ MaxNodes \in Nat
    BY SizeTyped DEF MaxNodes
<1> QED
    BY <1>1, <1>2, <1>3

LEMMA ExportLeafEInv == ASSUME EInv, ExportLeaf PROVE EInv'
<1>0. PICK p, id : p = Head(queue)[1] /\ id = Head(queue)[2]
    OBVIOUS
<1>1. /\ queue # <<>> /\ p < MaxNodes /\ Leaf(tree, id) /\ queue' = Tail(queue)
      /\ tree' = tree /\ depthArg' = depthArg /\ nodes' = Put(p, ZeroNode) /\ written' = written
    BY <1>0 DEF ExportLeaf
<1>2. TypeOK /\ QueueInv
    BY DEF EInv
<1>4. /\ p \in Nat /\ id \in Ids(tree) /\ p \in Places /\ p \notin DOMAIN nodes /\ ~written
      /\ Places \subseteq Nat /\ Len(queue) \in Nat \ {0}
      /\ queue' \in Seq(Nat \X Ids(tree)) /\ Len(queue') = Len(queue) - 1
      /\ \A n \in 1..(Len(queue) - 1) :
            n + 1 \in 1..Len(queue) /\ queue'[n] = queue[n + 1] /\ queue[n + 1][1] # p
      /\ Places = {p} \cup Places'
    BY <1>0, <1>1, <1>2, TurnDrops
<1>3. /\ DOMAIN nodes' = DOMAIN nodes \cup {p} /\ nodes'[p] = ZeroNode
      /\ \A i \in DOMAIN nodes : nodes'[i] = nodes[i]
      /\ DOMAIN nodes' \subseteq 0..(MaxNodes' - 1) /\ \A i \in DOMAIN nodes' : nodes'[i] \in DtNode
    BY <1>1, <1>2, <1>4, NodesTyped, PutKeeps
<1>5. TypeOK'
    <2>1. \A n \in 1..Len(queue') : queue'[n][1] \notin DOMAIN nodes'
        BY <1>2, <1>3, <1>4 DEF TypeOK
    <2>2. queue' \in Seq(Nat \X Ids(tree)')
        BY <1>1, <1>4 DEF Ids
    <2>3. tree' \in Trees /\ depthArg' \in DepthArgs /\ written' \in BOOLEAN
        BY <1>1, <1>2 DEF TypeOK
    <2> QED
        BY <1>3, <2>1, <2>2, <2>3 DEF TypeOK
<1>6. QueueInv'
    <2>1. \A m, n \in 1..Len(queue') : queue'[m][1] = queue'[n][1] => m = n
        BY <1>0, <1>1, <1>2, TurnDrops
    <2>2. \A i \in (DOMAIN nodes' \cup Places') \ {0} : Parent(i) \in DOMAIN nodes'
        BY <1>2, <1>3, <1>4 DEF QueueInv
    <2> QED
        BY <1>1, <1>4, <2>1, <2>2 DEF QueueInv, Parent
<1>7. PICK at \in [Nat -> Ids(tree)], done \in SUBSET Nat : Laid(at, done)
    BY DEF EInv
<1>8. PICK now \in SUBSET Nat : now = done \cup {p}
    <2>1. done \cup {p} \in SUBSET Nat
        BY <1>4
    <2> QED
        BY <2>1
<1>9. Open(now)' = Open(done)
    BY <1>1, <1>4, <1>8 DEF Open, MaxNodes
<1>10. done = DOMAIN nodes /\ at[p] = id /\ p < Reach(id)
    <2>1. 1 \in 1..Len(queue) /\ queue[1][1] = p /\ queue[1][2] = id
        BY <1>0, <1>1, <1>2, TurnTakes
    <2> QED
        BY <1>4, <1>7, <2>1 DEF Laid
<1>11. Laid(at, now)'
    <2>1. at[0] = 0 /\ 0 \in Open(now)' /\ now = DOMAIN nodes'
        BY <1>3, <1>7, <1>8, <1>9, <1>10 DEF Laid
    <2>2. ASSUME NEW n \in 1..Len(queue')
          PROVE  /\ at[queue'[n][1]] = queue'[n][2]
                 /\ queue'[n][1] < Size(tree'.level[queue'[n][2]] + 1)
        <3>1. n + 1 \in 1..Len(queue) /\ queue'[n] = queue[n + 1]
            BY <1>4
        <3>2. at[queue[n + 1][1]] = queue[n + 1][2] /\ queue[n + 1][1] < Reach(queue[n + 1][2])
            BY <1>7, <3>1 DEF Laid
        <3> QED
            BY <1>1, <3>1, <3>2 DEF Reach
    <2>3. \A i \in now : /\ i < Reach(at[i])'
                         /\ nodes'[i] = IF Leaf(tree', at[i]) THEN ZeroNode ELSE ExportedNode(at[i])'
        <3>1. \A x : Reach(x)' = Reach(x) /\ ExportedNode(x)' = ExportedNode(x)
            BY <1>1 DEF Reach, ExportedNode, Threshold, MostlyBenign
        <3>2. \A i \in done : /\ i < Reach(at[i]) /\ nodes'[i] = nodes[i]
                              /\ nodes[i] = IF Leaf(tree, at[i]) THEN ZeroNode ELSE ExportedNode(at[i])
            BY <1>3, <1>7, <1>10 DEF Laid
        <3> QED
            BY <1>1, <1>3, <1>8, <1>10, <3>1, <3>2
    <2>4. \A i \in now : ~Leaf(tree', at[i]) =>
             /\ at[2 * i + 1] = tree'.left[at[i]] /\ 2 * i + 1 \in Open(now)'
             /\ at[2 * i + 2] = tree'.right[at[i]] /\ 2 * i + 2 \in Open(now)'
        BY <1>1, <1>7, <1>8, <1>9, <1>10 DEF Laid, Leaf
    <2> QED
        BY <2>1, <2>2, <2>3, <2>4 DEF Laid, Reach
<1> QED
    BY <1>1, <1>5, <1>6, <1>7, <1>8, <1>11 DEF EInv, Ids

LEMMA Halves == ASSUME NEW p \in Nat PROVE (2 * p) \div 2 = p /\ (2 * p + 1) \div 2 = p
OBVIOUS

\* A turn that takes position p and appends its two children.
Appends(p, l, r) ==
    /\ queue' \in Seq(Nat \X Ids(tree)) /\ Len(queue') = Len(queue) + 1
    /\ \A n \in 1..(Len(queue) - 1) :
          n + 1 \in 1..Len(queue) /\ queue'[n] = queue[n + 1] /\ queue[n + 1][1] # p
    /\ queue'[Len(queue)] = <<2 * p + 1, l>> /\ queue'[Len(queue) + 1] = <<2 * p + 2, r>>
    /\ {p} \cup Places' = Places \cup {p, 2 * p + 1, 2 * p + 2}
    /\ p \notin Places' /\ 2 * p + 1 \notin Places \cup DOMAIN nodes
    /\ 2 * p + 2 \notin Places \cup DOMAIN nodes
    /\ \A m, n \in 1..Len(queue') : queue'[m][1] = queue'[n][1] => m = n

LEMMA TurnAppends ==
    ASSUME TypeOK, QueueInv, queue # <<>>, NEW p, NEW id, p = Head(queue)[1], id = Head(queue)[2],
           NEW l \in Ids(tree), NEW r \in Ids(tree),
           queue' = Tail(queue) \o << <<2 * p + 1, l>>, <<2 * p + 2, r>> >>
    PROVE  Appends(p, l, r)
<1> DEFINE L == Len(queue)
           x == <<2 * p + 1, l>>
           y == <<2 * p + 2, r>>
           rest == {Tail(queue)[n][1] : n \in 1..(L - 1)}
<1>1. /\ p \in Nat /\ p \in Places /\ p \notin DOMAIN nodes /\ ~written
      /\ Places \subseteq Nat /\ L \in Nat \ {0}
    BY TurnTakes
<1>2. /\ Tail(queue) \in Seq(Nat \X Ids(tree)) /\ Len(Tail(queue)) = L - 1
      /\ \A n \in 1..(L - 1) :
            n + 1 \in 1..L /\ Tail(queue)[n] = queue[n + 1] /\ queue[n + 1][1] # p
      /\ Places = {p} \cup rest
    BY TurnTakes
<1>3. x \in Nat \X Ids(tree) /\ y \in Nat \X Ids(tree)
    BY <1>1
<1>4. /\ queue' \in Seq(Nat \X Ids(tree)) /\ Len(queue') = L + 1
      /\ \A n \in 1..(L - 1) : queue'[n] = Tail(queue)[n]
      /\ queue'[L] = x /\ queue'[L + 1] = y
    <2> DEFINE q == Tail(queue)
               T == Nat \X Ids(tree)
    <2>1. /\ q \o <<x, y>> \in Seq(T) /\ Len(q \o <<x, y>>) = Len(q) + 2
          /\ \A n \in 1..Len(q) : (q \o <<x, y>>)[n] = q[n]
          /\ (q \o <<x, y>>)[Len(q) + 1] = x /\ (q \o <<x, y>>)[Len(q) + 2] = y
        <3>1. q \in Seq(T) /\ x \in T /\ y \in T
            BY <1>2, <1>3
        <3> HIDE DEF q, T, x, y
        <3> QED
            BY <3>1, TwoAppended
    <2>2. queue' = q \o <<x, y>> /\ Len(q) = L - 1
        BY <1>2
    <2>3. Len(q) + 1 = L /\ Len(q) + 2 = L + 1
        BY <1>1, <2>2
    <2> HIDE DEF q, x, y, L
    <2>4. /\ queue' \in Seq(T) /\ Len(queue') = L + 1
          /\ queue'[L] = x /\ queue'[L + 1] = y
        BY <2>1, <2>2, <2>3
    <2>5. \A n \in 1..(L - 1) : queue'[n] = q[n]
        BY <2>1, <2>2
    <2> QED
        BY <2>4, <2>5 DEF q
<1>5. \A i \in Nat : (i = 2 * p + 1 \/ i = 2 * p + 2) => Parent(i) = p /\ i # 0 /\ i # p
    <2>1. (2 * p) \div 2 = p /\ (2 * p + 1) \div 2 = p
        BY <1>1, Halves
    <2>2. (2 * p + 1) - 1 = 2 * p /\ (2 * p + 2) - 1 = 2 * p + 1
        BY <1>1
    <2>3. Parent(2 * p + 1) = p /\ Parent(2 * p + 2) = p
        BY <2>1, <2>2 DEF Parent
    <2>4. 2 * p + 1 # 0 /\ 2 * p + 1 # p /\ 2 * p + 2 # 0 /\ 2 * p + 2 # p
        BY <1>1
    <2> QED
        BY <2>3, <2>4
<1>6. 2 * p + 1 \notin Places \cup DOMAIN nodes /\ 2 * p + 2 \notin Places \cup DOMAIN nodes
    <2>1. 2 * p + 1 \in Nat /\ 2 * p + 2 \in Nat
        BY <1>1
    <2> QED
        BY <1>1, <1>5, <2>1 DEF QueueInv
<1>7. \A n \in 1..(L - 1) : queue'[n][1] \in Places /\ queue'[n][1] # p
    BY <1>2, <1>4 DEF Places
<1>8. Places' = rest \cup {2 * p + 1, 2 * p + 2}
    <2>1. \A n \in 1..(L + 1) : n \in 1..(L - 1) \/ n = L \/ n = L + 1
        BY <1>1
    <2>2. L \in 1..(L + 1) /\ L + 1 \in 1..(L + 1) /\ \A n \in 1..(L - 1) : n \in 1..(L + 1)
        BY <1>1
    <2>3. Places' = {queue'[n][1] : n \in 1..(L + 1)}
        BY <1>4 DEF Places
    <2>4. x[1] = 2 * p + 1 /\ y[1] = 2 * p + 2
        OBVIOUS
    <2> HIDE DEF L, x, y
    <2>5. Places' \subseteq rest \cup {2 * p + 1, 2 * p + 2}
        BY <1>4, <2>1, <2>3, <2>4
    <2>6. rest \subseteq Places' /\ 2 * p + 1 \in Places' /\ 2 * p + 2 \in Places'
        BY <1>4, <2>2, <2>3, <2>4
    <2> QED
        BY <2>5, <2>6
<1>9. \A m, n \in 1..(L + 1) : queue'[m][1] = queue'[n][1] => m = n
    <2> SUFFICES ASSUME NEW m \in 1..(L + 1), NEW n \in 1..(L + 1), queue'[m][1] = queue'[n][1]
                 PROVE  m = n
        OBVIOUS
    <2>1. queue'[L][1] = 2 * p + 1 /\ queue'[L + 1][1] = 2 * p + 2 /\ 2 * p + 1 # 2 * p + 2
        <3>1. x[1] = 2 * p + 1 /\ y[1] = 2 * p + 2 /\ 2 * p + 1 # 2 * p + 2
            BY <1>1
        <3> HIDE DEF x, y, L
        <3> QED
            BY <1>4, <3>1
    <2>2. \A k \in 1..(L + 1) : k \in 1..(L - 1) \/ k = L \/ k = L + 1
        BY <1>1
    <2>3. CASE m \in 1..(L - 1) /\ n \in 1..(L - 1)
        <3>1. m + 1 \in 1..L /\ n + 1 \in 1..L /\ queue[m + 1][1] = queue[n + 1][1]
            BY <1>2, <1>4, <2>3
        <3>2. m + 1 = n + 1
            BY <3>1 DEF QueueInv
        <3> QED
            BY <1>1, <3>2
    <2>4. CASE m \notin 1..(L - 1) \/ n \notin 1..(L - 1)
        BY <1>6, <1>7, <2>1, <2>2, <2>4
    <2> QED
        BY <2>3, <2>4
<1>10. p \notin Places'
    <2>1. p \notin rest
        BY <1>2
    <2>2. p # 2 * p + 1 /\ p # 2 * p + 2
        BY <1>1
    <2> QED
        BY <1>8, <2>1, <2>2
<1>11. {p} \cup Places' = Places \cup {p, 2 * p + 1, 2 * p + 2}
    <2> HIDE DEF rest
    <2> QED
        BY <1>2, <1>8
<1>12. \A n \in 1..(L - 1) : n + 1 \in 1..L /\ queue'[n] = queue[n + 1] /\ queue[n + 1][1] # p
    BY <1>2, <1>4
<1> QED
    BY <1>4, <1>6, <1>9, <1>10, <1>11, <1>12 DEF Appends

LEMMA ExportInnerEInv == ASSUME EInv, ExportInner PROVE EInv'
<1>0. PICK p, id : p = Head(queue)[1] /\ id = Head(queue)[2]
    OBVIOUS
<1>1. PICK l, r : l = tree.left[id] /\ r = tree.right[id]
    OBVIOUS
<1>2. /\ queue # <<>> /\ p < MaxNodes /\ ~Leaf(tree, id)
      /\ queue' = Tail(queue) \o << <<2 * p + 1, l>>, <<2 * p + 2, r>> >>
      /\ tree' = tree /\ depthArg' = depthArg /\ nodes' = Put(p, ExportedNode(id)) /\ written' = written
    BY <1>0, <1>1 DEF ExportInner
<1>3. TypeOK /\ QueueInv
    BY DEF EInv
<1>4. /\ p \in Nat /\ id \in Ids(tree) /\ p \in Places /\ p \notin DOMAIN nodes /\ ~written
      /\ Places \subseteq Nat /\ Len(queue) \in Nat \ {0}
      /\ 1 \in 1..Len(queue) /\ queue[1][1] = p /\ queue[1][2] = id
    BY <1>0, <1>2, <1>3, TurnTakes
<1>5. l \in Ids(tree) /\ r \in Ids(tree)
    BY <1>1, <1>2, <1>3, <1>4, SizeTyped DEF IsTree
<1>6. /\ queue' \in Seq(Nat \X Ids(tree)) /\ Len(queue') = Len(queue) + 1
      /\ \A n \in 1..(Len(queue) - 1) :
            n + 1 \in 1..Len(queue) /\ queue'[n] = queue[n + 1] /\ queue[n + 1][1] # p
      /\ queue'[Len(queue)] = <<2 * p + 1, l>> /\ queue'[Len(queue) + 1] = <<2 * p + 2, r>>
      /\ {p} \cup Places' = Places \cup {p, 2 * p + 1, 2 * p + 2}
      /\ p \notin Places' /\ 2 * p + 1 \notin Places \cup DOMAIN nodes
      /\ 2 * p + 2 \notin Places \cup DOMAIN nodes
      /\ \A m, n \in 1..Len(queue') : queue'[m][1] = queue'[n][1] => m = n
    <2>1. Appends(p, l, r)
        BY <1>0, <1>2, <1>3, <1>5, TurnAppends
    <2> QED
        BY <2>1 DEF Appends
<1>7. /\ DOMAIN nodes' = DOMAIN nodes \cup {p} /\ nodes'[p] = ExportedNode(id)
      /\ \A i \in DOMAIN nodes : nodes'[i] = nodes[i]
      /\ DOMAIN nodes' \subseteq 0..(MaxNodes' - 1) /\ \A i \in DOMAIN nodes' : nodes'[i] \in DtNode
    BY <1>2, <1>3, <1>4, NodesTyped, PutKeeps
<1>8. \A n \in 1..Len(queue') : n \in 1..(Len(queue) - 1) \/ n = Len(queue) \/ n = Len(queue) + 1
    BY <1>4, <1>6
<1>9. TypeOK'
    <2>1. \A n \in 1..Len(queue') : queue'[n][1] \in Places'
        BY DEF Places
    <2>2. \A i \in Places' : i \notin DOMAIN nodes
        <3>1. \A i \in Places : i \notin DOMAIN nodes
            BY <1>3 DEF TypeOK, Places
        <3> QED
            BY <1>4, <1>6, <3>1
    <2>3. \A n \in 1..Len(queue') : queue'[n][1] \notin DOMAIN nodes'
        BY <1>6, <1>7, <2>1, <2>2
    <2>4. queue' \in Seq(Nat \X Ids(tree)')
        BY <1>2, <1>6 DEF Ids
    <2>5. tree' \in Trees /\ depthArg' \in DepthArgs /\ written' \in BOOLEAN
        BY <1>2, <1>3 DEF TypeOK
    <2> QED
        BY <1>7, <2>3, <2>4, <2>5 DEF TypeOK
<1>10. QueueInv'
    <2>1. ASSUME NEW i \in (DOMAIN nodes' \cup Places') \ {0}
          PROVE  Parent(i) \in DOMAIN nodes'
        <3>1. CASE i \in DOMAIN nodes \cup Places
            BY <1>3, <1>4, <1>7, <3>1 DEF QueueInv
        <3>2. CASE i \in {2 * p + 1, 2 * p + 2}
            <4>1. Parent(i) = p
                BY <1>4, <3>2 DEF Parent
            <4> QED
                BY <1>7, <4>1
        <3>3. i \in DOMAIN nodes \cup Places \cup {2 * p + 1, 2 * p + 2}
            BY <1>4, <1>6, <1>7
        <3> QED
            BY <3>1, <3>2, <3>3
    <2> QED
        BY <1>2, <1>4, <1>6, <2>1 DEF QueueInv, Parent
<1>11. PICK at \in [Nat -> Ids(tree)], done \in SUBSET Nat : Laid(at, done)
    BY DEF EInv
<1>12. done = DOMAIN nodes /\ at[p] = id /\ p < Reach(id)
    BY <1>4, <1>11 DEF Laid
<1>13. PICK now \in SUBSET Nat : now = done \cup {p}
    <2>1. done \cup {p} \in SUBSET Nat
        BY <1>4
    <2> QED
        BY <2>1
<1>14. PICK aft \in [Nat -> Ids(tree)] : aft = [at EXCEPT ![2 * p + 1] = l, ![2 * p + 2] = r]
    <2>1. [at EXCEPT ![2 * p + 1] = l, ![2 * p + 2] = r] \in [Nat -> Ids(tree)]
        BY <1>4, <1>5
    <2> QED
        BY <2>1
<1>15. /\ aft[2 * p + 1] = l /\ aft[2 * p + 2] = r
       /\ \A i \in Nat : i \notin {2 * p + 1, 2 * p + 2} => aft[i] = at[i]
    BY <1>4, <1>5, <1>14
<1>16. Open(now)' = Open(done) \cup {2 * p + 1, 2 * p + 2}
    <2>1. MaxNodes' = MaxNodes
        BY <1>2 DEF MaxNodes
    <2>2. now \cup Places' = done \cup Places \cup {2 * p + 1, 2 * p + 2}
        BY <1>4, <1>6, <1>13
    <2> QED
        BY <2>1, <2>2 DEF Open
<1>17. \A i \in done \cup Places : i \in Nat /\ aft[i] = at[i]
    BY <1>4, <1>6, <1>12, <1>15
<1>18. \A x : Reach(x)' = Reach(x) /\ ExportedNode(x)' = ExportedNode(x)
    BY <1>2 DEF Reach, ExportedNode, Threshold, MostlyBenign
<1>19. aft[0] = 0 /\ 0 \in Open(now)' /\ now = DOMAIN nodes'
    <2>1. at[0] = 0 /\ 0 \in Open(done)
        BY <1>11 DEF Laid
    <2>2. 0 \notin {2 * p + 1, 2 * p + 2} /\ 0 \in Nat
        BY <1>4
    <2> QED
        BY <1>7, <1>12, <1>13, <1>15, <1>16, <2>1, <2>2
<1>20. ASSUME NEW n \in 1..Len(queue')
       PROVE  /\ aft[queue'[n][1]] = queue'[n][2]
              /\ queue'[n][1] < Size(tree'.level[queue'[n][2]] + 1)
    <2>1. Reach(l) = 2 * Reach(id) + 1 /\ Reach(r) = 2 * Reach(id) + 1 /\ Reach(id) \in Nat
        BY <1>1, <1>2, <1>3, <1>4, SizeTyped
    <2>2. 2 * p + 1 < Reach(l) /\ 2 * p + 2 < Reach(r)
        BY <1>4, <1>12, <2>1
    <2>3. CASE n \in 1..(Len(queue) - 1)
        <3>1. n + 1 \in 1..Len(queue) /\ queue'[n] = queue[n + 1]
            BY <1>6, <2>3
        <3>2. at[queue[n + 1][1]] = queue[n + 1][2] /\ queue[n + 1][1] < Reach(queue[n + 1][2])
            BY <1>11, <3>1 DEF Laid
        <3>3. aft[queue[n + 1][1]] = at[queue[n + 1][1]]
            BY <1>17, <3>1 DEF Places
        <3> QED
            BY <1>2, <3>1, <3>2, <3>3 DEF Reach
    <2>4. CASE n = Len(queue)
        BY <1>2, <1>6, <1>15, <2>2, <2>4 DEF Reach
    <2>5. CASE n = Len(queue) + 1
        BY <1>2, <1>6, <1>15, <2>2, <2>5 DEF Reach
    <2> QED
        BY <1>8, <2>3, <2>4, <2>5
<1>21. \A i \in now : /\ i < Reach(aft[i])'
                      /\ nodes'[i] = IF Leaf(tree', aft[i]) THEN ZeroNode ELSE ExportedNode(aft[i])'
    <2>1. \A i \in done : /\ i < Reach(at[i]) /\ nodes'[i] = nodes[i] /\ aft[i] = at[i]
                          /\ nodes[i] = IF Leaf(tree, at[i]) THEN ZeroNode ELSE ExportedNode(at[i])
        BY <1>7, <1>11, <1>12, <1>17 DEF Laid
    <2>2. aft[p] = id
        BY <1>4, <1>12, <1>17
    <2> QED
        BY <1>2, <1>7, <1>12, <1>13, <1>18, <2>1, <2>2
<1>22. ASSUME NEW i \in now, ~Leaf(tree', aft[i])
       PROVE  /\ aft[2 * i + 1] = tree'.left[aft[i]] /\ 2 * i + 1 \in Open(now)'
              /\ aft[2 * i + 2] = tree'.right[aft[i]] /\ 2 * i + 2 \in Open(now)'
    <2>1. CASE i = p
        <3>1. aft[p] = id
            BY <1>4, <1>12, <1>17
        <3> QED
            BY <1>1, <1>2, <1>15, <1>16, <2>1, <3>1
    <2>2. CASE i # p
        <3>1. i \in done /\ aft[i] = at[i] /\ i \in Nat
            BY <1>13, <1>17, <2>2
        <3>2. /\ at[2 * i + 1] = tree.left[at[i]] /\ 2 * i + 1 \in Open(done)
              /\ at[2 * i + 2] = tree.right[at[i]] /\ 2 * i + 2 \in Open(done)
            BY <1>2, <1>11, <1>22, <3>1 DEF Laid
        <3>3. 2 * i + 1 \notin {2 * p + 1, 2 * p + 2} /\ 2 * i + 2 \notin {2 * p + 1, 2 * p + 2}
            BY <1>4, <2>2, <3>1
        <3>4. aft[2 * i + 1] = at[2 * i + 1] /\ aft[2 * i + 2] = at[2 * i + 2]
            BY <1>15, <3>1, <3>3
        <3> QED
            BY <1>2, <1>16, <3>1, <3>2, <3>4
    <2> QED
        BY <2>1, <2>2
<1>23. Laid(aft, now)'
    BY <1>19, <1>20, <1>21, <1>22 DEF Laid, Reach
<1> QED
    BY <1>2, <1>9, <1>10, <1>13, <1>14, <1>23 DEF EInv, Ids

\* The header's array has every position.
LEMMA WriteEInv == ASSUME EInv, Write PROVE EInv'
<1>1. /\ queue = <<>> /\ ~written /\ written' = TRUE /\ queue' = queue
      /\ tree' = tree /\ depthArg' = depthArg
      /\ nodes' = [i \in 0..(MaxNodes - 1) |-> IF i \in DOMAIN nodes THEN nodes[i] ELSE ZeroNode]
    BY DEF Write
<1>2. TypeOK /\ QueueInv
    BY DEF EInv
<1>3. MaxNodes' = MaxNodes /\ MaxNodes \in Nat
    BY <1>1, <1>2, SizeTyped DEF MaxNodes
<1>4. /\ DOMAIN nodes' = 0..(MaxNodes - 1) /\ DOMAIN nodes \subseteq DOMAIN nodes'
      /\ \A i \in DOMAIN nodes : nodes'[i] = nodes[i]
      /\ \A i \in DOMAIN nodes' : nodes'[i] \in DtNode
    BY <1>1, <1>2, NodesTyped DEF TypeOK
<1>5. 1..Len(queue) = {}
    BY <1>1
<1>6. TypeOK'
    BY <1>1, <1>2, <1>3, <1>4, <1>5 DEF TypeOK, Ids
<1>7. QueueInv'
    BY <1>1, <1>2 DEF QueueInv
<1>8. PICK at \in [Nat -> Ids(tree)], done \in SUBSET Nat : Laid(at, done)
    BY DEF EInv
<1>9. done = DOMAIN nodes /\ Places' = Places
    BY <1>1, <1>8 DEF Laid, Places
<1>10. Open(done)' = Open(done)
    BY <1>3, <1>9 DEF Open
<1>11. \A x : Reach(x)' = Reach(x) /\ ExportedNode(x)' = ExportedNode(x)
    BY <1>1 DEF Reach, ExportedNode, Threshold, MostlyBenign
<1>12. \A i \in done : /\ i < Reach(at[i])'
                       /\ nodes'[i] = IF Leaf(tree', at[i]) THEN ZeroNode ELSE ExportedNode(at[i])'
    BY <1>1, <1>4, <1>8, <1>9, <1>11 DEF Laid
<1>13. \A i \in done : ~Leaf(tree', at[i]) =>
          /\ at[2 * i + 1] = tree'.left[at[i]] /\ 2 * i + 1 \in Open(done)'
          /\ at[2 * i + 2] = tree'.right[at[i]] /\ 2 * i + 2 \in Open(done)'
    BY <1>1, <1>8, <1>10 DEF Laid
<1>14. Laid(at, done)'
    BY <1>1, <1>4, <1>5, <1>8, <1>9, <1>10, <1>12, <1>13 DEF Laid, Reach
<1> QED
    BY <1>1, <1>6, <1>7, <1>8, <1>14 DEF EInv, Ids

LEMMA NextEInv == EInv /\ [Next]_vars => EInv'
<1> SUFFICES ASSUME EInv, [Next]_vars PROVE EInv'
    OBVIOUS
<1>1. CASE UNCHANGED vars
    <2>1. /\ tree' = tree /\ depthArg' = depthArg /\ queue' = queue
          /\ nodes' = nodes /\ written' = written
        BY <1>1 DEF vars
    <2> QED
        <3>1. TypeOK'
            BY <2>1 DEF EInv, TypeOK, MaxNodes, Ids
        <3>2. Places' = Places /\ MaxNodes' = MaxNodes
            BY <2>1 DEF Places, MaxNodes
        <3>3. QueueInv'
            BY <2>1, <3>2 DEF EInv, QueueInv, Parent
        <3>4. PICK at \in [Nat -> Ids(tree)], done \in SUBSET Nat : Laid(at, done)
            BY DEF EInv
        <3>5. Open(done)' = Open(done)
            BY <3>2 DEF Open
        <3>6. \A x : Reach(x)' = Reach(x) /\ ExportedNode(x)' = ExportedNode(x)
            BY <2>1 DEF Reach, ExportedNode, Threshold, MostlyBenign
        <3>7. Laid(at, done)'
            BY <2>1, <3>4, <3>5, <3>6 DEF Laid, Reach
        <3> QED
            BY <2>1, <3>1, <3>3, <3>4, <3>7 DEF EInv, Ids
<1> QED
    BY <1>1, SkipEInv, ExportLeafEInv, ExportInnerEInv, WriteEInv DEF Next, Finished

\* Every variable keeps its type, and no position is exported twice.
THEOREM TypeCorrect == Spec => []TypeOK
<1>1. EInv => TypeOK
    BY DEF EInv
<1> QED
    BY <1>1, InitEInv, NextEInv, PTL DEF Spec

\* With the 128 nodes of ml_dt.h, whatever is exported without the warning of main
\* fits the array that the loader copies it to.
THEOREM UnwarnedAlwaysFits == ASSUME DT_NODE_NB = 128 PROVE Spec => []UnwarnedFits
<1> DEFINE Bounded == tree.depth <= depthArg /\ tree.depth \in Nat /\ depthArg \in Nat
<1>1. Init => Bounded
    BY TreesAssumption, ArgumentsAssumption DEF Init, IsTree
<1>2. Bounded /\ [Next]_vars => Bounded'
    <2> SUFFICES ASSUME Bounded, [Next]_vars PROVE Bounded'
        OBVIOUS
    <2>1. tree' = tree /\ depthArg' = depthArg
        BY DEF Next, vars, Skip, ExportLeaf, ExportInner, Write, Finished
    <2> QED
        BY <2>1
<1>3. Bounded => UnwarnedFits
    <2> SUFFICES ASSUME Bounded, Size(depthArg + 1) <= 255 PROVE Size(tree.depth) <= 128
        <3>1. Bounded => Size(depthArg + 1) \in Int
            BY SizeGrows
        <3> QED
            BY <3>1 DEF UnwarnedFits, Warned, Fits, MaxNodes
    <2>1. Size(depthArg) \in Nat /\ Size(depthArg + 1) = 2 * Size(depthArg) + 1
        BY SizeGrows
    <2>2. Size(tree.depth) <= Size(depthArg) /\ Size(tree.depth) \in Nat
        BY SizeGrows
    <2> QED
        BY <2>1, <2>2
<1> HIDE DEF Bounded
<1> QED
    BY <1>1, <1>2, <1>3, PTL DEF Spec

-------------------------------------------------------------------------------
(* The two classifiers. *)

\* The threshold is rounded down, but at odd integers, and a natural number is at
\* most the one exactly if it is at most the other.
LEMMA RoundedDown ==
    ASSUME NEW x \in Nat, x % 4 # 2, NEW v \in Nat
    PROVE  v <= Round2(x - 1) <=> 2 * v <= x
<1>1. PICK q \in Nat, s \in 0..3 : x = 4 * q + s
    <2>1. x = 4 * (x \div 4) + (x % 4) /\ x \div 4 \in Nat /\ x % 4 \in 0..3
        OBVIOUS
    <2> QED
        BY <2>1
<1>2. s # 2
    BY <1>1
<1>3. Round2(x - 1) = 2 * q + (s \div 2)
    <2>1. CASE s = 0
        BY <1>1, <2>1 DEF Round2
    <2>2. CASE s = 1
        BY <1>1, <2>2 DEF Round2
    <2>3. CASE s = 3
        BY <1>1, <2>3 DEF Round2
    <2> QED
        BY <1>2, <2>1, <2>2, <2>3
<1>4. s = 0 \/ s = 1 \/ s = 3
    BY <1>2
<1> QED
    BY <1>1, <1>3, <1>4

\* Of the tree's node at a position, what the walk decides from there on.
Decides(fv, at, i) ==
    \A b \in BOOLEAN : Walk(Retrieved, fv)[<<i, b>>] =
        IF Leaf(tree, at[i]) THEN b ELSE MostlyBenign(Down(tree, fv)[at[i]])

\* The positions the walk may come to.
Met(at, done, i) ==
    i \in Open(done) /\ i \in 0..(2 * DT_NODE_NB) /\ i < Reach(at[i])

LEMMA RetrievedTyped == ASSUME TypeOK PROVE Retrieved \in [Index -> DtNode]
BY NodesTyped DEF TypeOK, Retrieved

LEMMA LeafDecides ==
    ASSUME EInv, written, Fits, NEW fv \in [FVIndex -> Nat],
           NEW at \in [Nat -> Ids(tree)], NEW done \in SUBSET Nat, Laid(at, done),
           NEW i, Met(at, done, i), Leaf(tree, at[i])
    PROVE  Decides(fv, at, i)
<1>1. TypeOK /\ queue = <<>>
    BY DEF EInv, QueueInv
<1>2. i \in 0..(2 * DT_NODE_NB) /\ (i \in done \/ i >= MaxNodes) /\ i \in Nat
    <2>1. Places = {}
        BY <1>1 DEF Places
    <2> QED
        BY <2>1, NodeNbAssumption DEF Met, Open
<1>3. AtEnd(Retrieved, i)
    <2> SUFFICES ASSUME i \in Index PROVE Retrieved[i] = ZeroNode
        BY <1>2, NodeNbAssumption DEF AtEnd, Index, ZeroNode
    <2>1. CASE i \in done
        BY <2>1 DEF Laid, Retrieved
    <2>2. CASE i >= MaxNodes
        <3>1. i \notin DOMAIN nodes
            BY <1>1, <1>2, <2>2, SizeTyped DEF TypeOK
        <3> QED
            BY <3>1 DEF Retrieved
    <2> QED
        BY <1>2, <2>1, <2>2
<1>4. \A b \in BOOLEAN : Walk(Retrieved, fv)[<<i, b>>] = b
    BY <1>1, <1>2, <1>3, RetrievedTyped, WalkGoesOn
<1> QED
    BY <1>4 DEF Decides

\* One step of the walk is one step of scikit-learn's descent.
LEMMA InnerDecides ==
    ASSUME EInv, written, Fits, Exportable(tree), NEW fv \in [FVIndex -> Nat],
           NEW at \in [Nat -> Ids(tree)], NEW done \in SUBSET Nat, Laid(at, done),
           NEW i, Met(at, done, i), ~Leaf(tree, at[i]),
           \A j \in Nat : Met(at, done, j) /\ at[j] > at[i] => Decides(fv, at, j)
    PROVE  Decides(fv, at, i)
<1> DEFINE id == at[i]
           node == Retrieved[i]
           left == 2 * fv[tree.feature[id]] <= tree.thr2[id]
           kid == IF left THEN tree.left[id] ELSE tree.right[id]
           j == IF left THEN 2 * i + 1 ELSE 2 * i + 2
<1>1. TypeOK /\ queue = <<>> /\ IsTree(tree) /\ tree \in Trees
    BY SizeTyped DEF EInv, QueueInv, TypeOK
<1>2. i \in Nat /\ i < MaxNodes /\ i \in Index /\ MaxNodes \in Nat /\ id \in Ids(tree)
      /\ Reach(id) \in Nat /\ i < Reach(id) /\ DT_NODE_NB \in Nat
    <2>1. i \in Nat /\ i < Reach(id) /\ id \in Ids(tree)
        BY NodeNbAssumption DEF Met
    <2>2. Reach(id) <= MaxNodes /\ Reach(id) \in Nat /\ MaxNodes \in Nat
        BY <1>1, <2>1, SizeTyped
    <2>3. MaxNodes <= DT_NODE_NB
        BY DEF Fits
    <2> QED
        BY <2>1, <2>2, <2>3, NodeNbAssumption DEF Index
<1>3. i \in done
    <2>1. Places = {}
        BY <1>1 DEF Places
    <2> QED
        BY <1>2, <2>1 DEF Met, Open
<1>4. node = ExportedNode(id) /\ node \in DtNode
    <2>1. nodes[i] = ExportedNode(id) /\ i \in DOMAIN nodes
        BY <1>3 DEF Laid
    <2> QED
        BY <1>1, <1>2, <2>1, NodesTyped DEF Retrieved
<1>5. /\ tree.feature[id] \in FVIndex /\ tree.thr2[id] \in Nat /\ tree.thr2[id] % 4 # 2
      /\ tree.left[id] \in Ids(tree) /\ tree.left[id] > id
      /\ tree.right[id] \in Ids(tree) /\ tree.right[id] > id
    BY <1>1, <1>2 DEF IsTree, Exportable
<1>6. FeatureValue(node, fv) = fv[tree.feature[id]] /\ fv[tree.feature[id]] \in Nat
    <2>1. FEATURE_NB \in Nat /\ FEATURE_NB <= 32
        <3>1. IsFiniteSet(0..31) /\ Cardinality(0..31) = 32
            <4>1. 0 \in Int /\ 31 \in Int
                OBVIOUS
            <4>2. IsFiniteSet(0..31) /\ Cardinality(0..31) = IF 0 > 31 THEN 0 ELSE 31 - 0 + 1
                BY <4>1, FS_Interval, Zenon
            <4> QED
                BY <4>2
        <3> QED
            BY <3>1, FeaturesAssumption, FS_Subset, FS_CardinalityType DEF FEATURE_NB
    <2>2. tree.feature[id] \in 0..31 /\ tree.feature[id] < FEATURE_NB
        <3> DEFINE f == tree.feature[id]
        <3>1. f \in 0..(FEATURE_NB - 1)
            BY <1>5 DEF FVIndex
        <3> HIDE DEF f
        <3>2. f \in 0..31 /\ f < FEATURE_NB
            BY <2>1, <3>1
        <3> QED
            BY <3>2 DEF f
    <2>3. tree.feature[id] % 32 = tree.feature[id]
        BY <2>2
    <2>4. node.feature.index = tree.feature[id]
        BY <1>4, <2>3 DEF ExportedNode
    <2> QED
        BY <1>5, <2>2, <2>4 DEF FeatureValue
<1>7. GoesLeft(node, fv) <=> left
    <2>1. node.threshold = Round2(tree.thr2[id] - 1)
        BY <1>4 DEF ExportedNode, Threshold
    <2>2. fv[tree.feature[id]] <= Round2(tree.thr2[id] - 1) <=> left
        BY <1>5, <1>6, RoundedDown
    <2> QED
        BY <1>6, <2>1, <2>2 DEF GoesLeft
<1>8. Child(node, i, fv) = j /\ BranchPass(node, fv) = MostlyBenign(kid) /\ node.feature.defined
    BY <1>4, <1>7 DEF Child, BranchPass, ExportedNode
<1>9. kid \in Ids(tree) /\ kid > id /\ j \in Nat /\ j <= 2 * i + 2
    BY <1>2, <1>5
<1>10. at[j] = kid /\ j \in Open(done)
    BY <1>3 DEF Laid
<1>11. Met(at, done, j)
    <2>1. Reach(kid) = 2 * Reach(id) + 1
        BY <1>1, <1>2, SizeTyped
    <2>2. j < Reach(kid)
        BY <1>2, <1>9, <2>1
    <2>3. j \in 0..(2 * DT_NODE_NB)
        BY <1>2, <1>9 DEF Index
    <2> HIDE DEF j, kid
    <2> QED
        BY <1>10, <2>2, <2>3 DEF Met
<1>12. Decides(fv, at, j)
    <2> HIDE DEF j, kid
    <2> QED
        BY <1>9, <1>10, <1>11
<1>13. ~AtEnd(Retrieved, i)
    BY <1>2, <1>8 DEF AtEnd, Index
<1>14. \A b \in BOOLEAN : Walk(Retrieved, fv)[<<i, b>>] = Walk(Retrieved, fv)[<<j, MostlyBenign(kid)>>]
    <2>1. i \in 0..(2 * DT_NODE_NB)
        BY DEF Met
    <2>2. \A b \in BOOLEAN : Walk(Retrieved, fv)[<<i, b>>]
              = Walk(Retrieved, fv)[<<Child(node, i, fv), BranchPass(node, fv)>>]
        BY <1>1, <1>13, <2>1, RetrievedTyped, WalkGoesOn
    <2> HIDE DEF j, kid, node
    <2> QED
        BY <1>8, <2>2
<1>15. Down(tree, fv)[id] = Down(tree, fv)[kid]
    BY <1>1, <1>2, DownGoesOn
<1>16. Leaf(tree, kid) => Down(tree, fv)[kid] = kid
    <2> HIDE DEF kid
    <2> QED
        BY <1>1, <1>9, DownGoesOn
<1>17. MostlyBenign(kid) \in BOOLEAN
    BY DEF MostlyBenign
<1> HIDE DEF j, kid
<1>18. Walk(Retrieved, fv)[<<j, MostlyBenign(kid)>>] = MostlyBenign(Down(tree, fv)[kid])
    BY <1>10, <1>12, <1>16, <1>17 DEF Decides
<1> QED
    BY <1>14, <1>15, <1>18 DEF Decides

\* From every position the walk may come to, it decides as the descent does.
LEMMA AllDecide ==
    ASSUME EInv, written, Fits, Exportable(tree), NEW fv \in [FVIndex -> Nat],
           NEW at \in [Nat -> Ids(tree)], NEW done \in SUBSET Nat, Laid(at, done)
    PROVE  \A i \in Nat : Met(at, done, i) => Decides(fv, at, i)
<1> SUFFICES ASSUME NEW k \in Nat, Met(at, done, k), ~Decides(fv, at, k) PROVE FALSE
    OBVIOUS
<1>1. PICK N \in Nat : Ids(tree) = 0..(N - 1)
    <2>1. IsTree(tree)
        BY SizeTyped DEF EInv
    <2> QED
        BY <2>1, FS_CardinalityType DEF IsTree
<1> DEFINE bad == {n \in Nat : \E i \in Nat : Met(at, done, i) /\ ~Decides(fv, at, i) /\ n = N - at[i]}
<1>2. \A i \in Nat : at[i] \in 0..(N - 1)
    BY <1>1
<1>3. N - at[k] \in bad
    BY <1>2
<1>4. PICK n \in bad : \A m \in bad : n <= m
    <2>1. bad \in SUBSET Nat /\ bad # {}
        BY <1>3
    <2> HIDE DEF bad
    <2> QED
        BY <2>1, LeastNumber
<1>5. PICK i \in Nat : Met(at, done, i) /\ ~Decides(fv, at, i) /\ n = N - at[i]
    OBVIOUS
<1>6. ASSUME NEW j \in Nat, Met(at, done, j), at[j] > at[i], ~Decides(fv, at, j)
      PROVE  FALSE
    <2>1. N - at[j] \in bad
        BY <1>2, <1>6
    <2>2. N - at[j] < n
        BY <1>2, <1>5, <1>6
    <2>3. n \in Nat /\ N - at[j] \in Nat
        BY <1>2, <1>5
    <2> HIDE DEF bad
    <2> QED
        BY <1>4, <2>1, <2>2, <2>3
<1>7. Decides(fv, at, i)
    <2>1. CASE Leaf(tree, at[i])
        BY <1>5, <2>1, LeafDecides
    <2>2. CASE ~Leaf(tree, at[i])
        BY <1>5, <1>6, <2>2, InnerDecides
    <2> QED
        BY <2>1, <2>2
<1> QED
    BY <1>5, <1>7

\* fvifupdate puts each feature where the training data has its column.
LEMMA IndexIsColumn ==
    /\ Features = FVIndex /\ FVIndex \subseteq 0..3
    /\ \A f \in Features : FEATURE_IDX(f) = f /\ FeatureIndex(f) = f
<1> USE DEF F_S_PORT, F_D_PORT, F_PROTOCOL, F_PKT_SIZE
<1>1. Features \subseteq 0..3
    BY FeatureIdxAssumption
<1>2. \A f \in Features : FEATURE_IDX(f) = f
    BY <1>1 DEF FEATURE_IDX
<1>3. Features = FVIndex
    BY <1>2, FeatureIdxAssumption
<1>4. FEATURE_NB \in Nat
    <2>1. IsFiniteSet(0..3)
        <3>1. 0 \in Int /\ 3 \in Int
            OBVIOUS
        <3> QED
            BY <3>1, FS_Interval, Zenon
    <2> QED
        BY <1>1, <2>1, FS_Subset, FS_CardinalityType DEF FEATURE_NB
<1>5. ASSUME NEW f \in Features PROVE FeatureIndex(f) = f
    <2>1. f \in 0..3 /\ f < FEATURE_NB
        BY <1>1, <1>3, <1>4 DEF FVIndex
    <2>2. {g \in Features : g < f} = 0..(f - 1)
        BY <1>3, <1>4, <2>1 DEF FVIndex
    <2>3. Cardinality(0..(f - 1)) = IF 0 > f - 1 THEN 0 ELSE (f - 1) - 0 + 1
        <3>1. 0 \in Int /\ f - 1 \in Int
            BY <2>1
        <3> QED
            BY <3>1, FS_Interval
    <2>4. FeatureIndex(f) = Cardinality(0..(f - 1))
        BY <2>2, Zenon DEF FeatureIndex
    <2>5. (IF 0 > f - 1 THEN 0 ELSE (f - 1) - 0 + 1) = f
        BY <2>1
    <2> QED
        BY <2>3, <2>4, <2>5, Zenon
<1> QED
    BY <1>1, <1>2, <1>3, <1>5

\* So the vector the XDP program builds of a packet is the packet's row.
LEMMA VectorIsRow ==
    ASSUME NEW p \in Samples
    PROVE  FeatureVector(p, FALSE) = Row(p) /\ Row(p) \in [FVIndex -> Nat]
<1> USE DEF F_S_PORT, F_D_PORT, F_PROTOCOL, F_PKT_SIZE
<1>1. /\ p.proto \in Nat /\ p.sport \in Nat /\ p.dport \in Nat /\ p.size \in Nat
      /\ p.proto \notin {IPPROTO_TCP, IPPROTO_UDP} => p.sport = 0 /\ p.dport = 0
    BY SamplesAssumption
<1>2. ASSUME NEW k \in FVIndex PROVE Row(p)[k] = FeatureOf(p, k)
    <2>1. (CHOOSE f \in Features : FEATURE_IDX(f) = k) = k
        BY IndexIsColumn
    <2> QED
        BY <2>1 DEF Row
<1>3. \A k \in FVIndex : FeatureOf(p, k) \in Nat
    BY <1>1, IndexIsColumn DEF FeatureOf
<1>4. Row(p) \in [FVIndex -> Nat]
    <2>1. Row(p) = [k \in FVIndex |-> Row(p)[k]]
        BY DEF Row
    <2> QED
        BY <1>2, <1>3, <2>1
\* The writes of parse_update one after the other.
<1> DEFINE Sets(new, fv, f, v) ==
               new \in [FVIndex -> Nat] /\ \A k \in FVIndex : new[k] = IF k = f THEN v ELSE fv[k]
<1>5. \A fv \in [FVIndex -> Nat], f \in 0..3, v \in Nat : Sets(fvifupdate(fv, f, v), fv, f, v)
    BY IndexIsColumn DEF fvifupdate
<1> HIDE DEF Sets
<1> DEFINE one == fvifupdate(ZeroVector, F_PROTOCOL, p.proto)
           two == fvifupdate(one, F_PKT_SIZE, p.size)
           three == fvifupdate(two, F_D_PORT, p.dport)
           four == fvifupdate(three, F_S_PORT, p.sport)
<1>6. ZeroVector \in [FVIndex -> Nat] /\ \A k \in FVIndex : ZeroVector[k] = 0
    BY DEF ZeroVector
<1>7. Sets(one, ZeroVector, 2, p.proto) /\ one \in [FVIndex -> Nat]
    <2>1. Sets(one, ZeroVector, 2, p.proto)
        BY <1>1, <1>5, <1>6
    <2> QED
        BY <2>1 DEF Sets
<1> HIDE DEF one
<1>8. Sets(two, one, 3, p.size) /\ two \in [FVIndex -> Nat]
    <2>1. Sets(two, one, 3, p.size)
        BY <1>1, <1>5, <1>7
    <2> QED
        BY <2>1 DEF Sets
<1> HIDE DEF two
<1>9. Sets(three, two, 1, p.dport) /\ three \in [FVIndex -> Nat]
    <2>1. Sets(three, two, 1, p.dport)
        BY <1>1, <1>5, <1>8
    <2> QED
        BY <2>1 DEF Sets
<1> HIDE DEF three
<1>10. Sets(four, three, 0, p.sport) /\ four \in [FVIndex -> Nat]
    <2>1. Sets(four, three, 0, p.sport)
        BY <1>1, <1>5, <1>9
    <2> QED
        BY <2>1 DEF Sets
<1> HIDE DEF four
\* Vectors with equal entries are equal.
<1>11. ASSUME NEW fv \in [FVIndex -> Nat], \A k \in FVIndex : fv[k] = Row(p)[k]
       PROVE  fv = Row(p)
    BY <1>4, <1>11
<1>12. \A k \in FVIndex : two[k] = IF k = 3 THEN p.size ELSE IF k = 2 THEN p.proto ELSE 0
    BY <1>6, <1>7, <1>8 DEF Sets
<1>13. CASE PortFeatures
    <2>1. Ports(p, FALSE)[1] = p.sport /\ Ports(p, FALSE)[2] = p.dport
        BY <1>1, <1>13 DEF Ports, ReadsTcp, ReadsUdp, ReadsPorts
    <2>2. FeatureVector(p, FALSE) = four
        BY <1>13, <2>1 DEF FeatureVector, ReadsPorts, one, two, three, four
    <2>3. \A k \in FVIndex : four[k] = Row(p)[k]
        BY <1>2, <1>9, <1>10, <1>12, IndexIsColumn DEF FeatureOf, Sets
    <2> QED
        BY <1>4, <1>10, <1>11, <2>2, <2>3, Zenon
<1>14. CASE ~PortFeatures
    <2>1. FeatureVector(p, FALSE) = two
        BY <1>14 DEF FeatureVector, ReadsPorts, one, two
    <2>2. \A k \in FVIndex : two[k] = Row(p)[k]
        BY <1>2, <1>12, <1>14, IndexIsColumn DEF FeatureOf, PortFeatures
    <2> QED
        BY <1>4, <1>8, <1>11, <2>1, <2>2, Zenon
<1> QED
    BY <1>13, <1>14

\* Whatever tree is exported and fits, the XDP program's walk of the loaded array, with
\* the vector it builds, decides on every packet as scikit-learn does on its row, if no
\* threshold is an odd integer, no leaf has equal class weights, and a lone leaf is benign.
THEOREM ExportAlwaysFaithful == Spec => []ExportFaithful
<1>1. EInv => ExportFaithful
    <2> SUFFICES ASSUME EInv, written, Fits, Exportable(tree), NEW p \in Samples
                 PROVE  TreeVerdict(Retrieved, FeatureVector(p, FALSE)) = PredictsBenign(tree, Row(p))
        BY DEF ExportFaithful
    <2> DEFINE fv == Row(p)
    <2>1. FeatureVector(p, FALSE) = fv /\ fv \in [FVIndex -> Nat]
        BY VectorIsRow
    <2> SUFFICES TreeVerdict(Retrieved, fv) = PredictsBenign(tree, fv)
        BY <2>1
    <2> HIDE DEF fv
    <2>2. PICK at \in [Nat -> Ids(tree)], done \in SUBSET Nat : Laid(at, done)
        BY DEF EInv
    <2>3. TypeOK /\ IsTree(tree) /\ tree \in Trees
        BY SizeTyped DEF EInv, TypeOK
    <2>4. at[0] = 0 /\ 0 \in Ids(tree)
        BY <2>2, <2>3 DEF Laid, IsTree
    <2>5. Met(at, done, 0)
        BY <2>2, <2>3, <2>4, SizeTyped, NodeNbAssumption DEF Met, Laid
    <2>6. Decides(fv, at, 0)
        BY <2>1, <2>2, <2>5, AllDecide
    <2> DEFINE leaf == Down(tree, fv)[0]
    <2>7. TreeVerdict(Retrieved, fv) = IF Leaf(tree, 0) THEN TRUE ELSE MostlyBenign(leaf)
        BY <2>4, <2>6 DEF TreeVerdict, Decides
    <2>8. PredictsBenign(tree, fv) = (tree.benign[leaf] >= tree.malicious[leaf])
        BY DEF PredictsBenign, LeafOf, Down
    <2>9. Leaf(tree, 0) => leaf = 0
        BY <2>3, <2>4, DownGoesOn
    <2>10. leaf \in Ids(tree) /\ Leaf(tree, leaf)
        BY <2>1, <2>3, <2>4, DownEnds
    <2>11. /\ tree.benign[leaf] # tree.malicious[leaf]
           /\ tree.benign[leaf] \in Nat /\ tree.malicious[leaf] \in Nat
        BY <2>3, <2>10 DEF IsTree, Exportable
    <2>12. Leaf(tree, 0) => tree.benign[0] > tree.malicious[0]
        BY DEF Exportable
    <2> HIDE DEF leaf
    <2>13. CASE Leaf(tree, 0)
        <3>1. tree.benign[leaf] >= tree.malicious[leaf]
            BY <2>9, <2>11, <2>12, <2>13
        <3> QED
            BY <2>7, <2>8, <2>13, <3>1
    <2>14. CASE ~Leaf(tree, 0)
        <3>1. MostlyBenign(leaf) = (tree.benign[leaf] >= tree.malicious[leaf])
            BY <2>11 DEF MostlyBenign
        <3> QED
            BY <2>7, <2>8, <2>14, <3>1
    <2> QED
        BY <2>13, <2>14
<1> QED
    BY <1>1, InitEInv, NextEInv, PTL DEF Spec
===============================================================================
