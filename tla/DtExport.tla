-------------------------------- MODULE DtExport --------------------------------
(***************************************************************************)
(* From the trained scikit-learn tree to the array the XDP program walks:  *)
(* DT_export_c_header of src/ML/DT/main.py, which lays the tree out by a   *)
(* breadth-first search, and the loader's copy of its output.              *)
(*                                                                         *)
(* A trained tree is the arrays of sklearn's tree_ over its node ids:      *)
(* left, right (-1 at a leaf), feature, benign and malicious (the class    *)
(* weights of "value"), and twice the threshold ("thr2"): the thresholds   *)
(* of interest are the integers and the half-integers, and any other       *)
(* rounds like the half-integer between its neighbours.  "level" is how    *)
(* deep the builder made each node, and "depth" the tree's get_depth().    *)
(***************************************************************************)
EXTENDS DtTree

CONSTANTS
    Trees,       \* the trained trees
    DepthArgs,   \* the values of the command-line argument max_depth
    Samples      \* packets to compare the two classifiers on

VARIABLES
    tree,       \* clf.tree_
    depthArg,   \* sys.argv[1]
    queue,      \* bfs_queue
    nodes,      \* the output array: positions not None
    written     \* the header is written

vars == <<tree, depthArg, queue, nodes, written>>

-------------------------------------------------------------------------------
(* scikit-learn, from how main.py uses it. *)

Leaf(t, id) == t.left[id] = -1

Ids(t) == DOMAIN t.left

\* The builder numbers the nodes from 0, a child after its parent, and a child is
\* one level deeper.  It splits on a feature of the vector, in the order of
\* FEATURE_IDX, between two naturals.
IsTree(t) ==
    /\ t.depth \in Nat /\ t.level \in [Ids(t) -> 0..t.depth]
    /\ IsFiniteSet(Ids(t)) /\ Ids(t) = 0..(Cardinality(Ids(t)) - 1)
    /\ 0 \in Ids(t) /\ t.level[0] = 0
    /\ t.benign \in [Ids(t) -> Nat] /\ t.malicious \in [Ids(t) -> Nat]
    /\ \A id \in Ids(t) : ~Leaf(t, id) =>
          /\ \A kid \in {t.left[id], t.right[id]} :
                kid \in Ids(t) /\ id < kid /\ t.level[kid] = t.level[id] + 1
          /\ t.feature[id] \in FVIndex /\ t.thr2[id] \in Nat

ASSUME TreesAssumption == \A t \in Trees : IsTree(t)
ASSUME ArgumentsAssumption == DepthArgs \subseteq Nat

\* A sample is a whole packet; one that is neither TCP nor UDP has no ports.
ASSUME SamplesAssumption ==
    /\ Samples \subseteq [hdrs : {3}, ip : {TRUE}, proto : Nat, sport : Nat, dport : Nat,
                         size : Nat]
    /\ \A p \in Samples :
          p.proto \notin {IPPROTO_TCP, IPPROTO_UDP} => p.sport = 0 /\ p.dport = 0

\* Mutant: the destination port comes first.
FEATURE_IDX_DstFirst(f) ==
    CASE f = F_D_PORT -> 0 [] f = F_S_PORT -> 1 [] f = F_PROTOCOL -> 2 [] f = F_PKT_SIZE -> 3

\* The dictionary that gives each feature its column of the training data.
FEATURE_IDX(f) ==
    CASE f = F_S_PORT -> 0 [] f = F_D_PORT -> 1 [] f = F_PROTOCOL -> 2 [] f = F_PKT_SIZE -> 3

\* Its comment: the numbers of the features that are used are 0 to FEATURES_NB - 1.
ASSUME FeatureIdxAssumption ==
    /\ Features \subseteq {F_S_PORT, F_D_PORT, F_PROTOCOL, F_PKT_SIZE}
    /\ {FEATURE_IDX(f) : f \in Features} = FVIndex

\* A packet as a row of that data.
FeatureOf(p, f) ==
    CASE f = F_S_PORT -> p.sport [] f = F_D_PORT -> p.dport
      [] f = F_PROTOCOL -> p.proto [] f = F_PKT_SIZE -> p.size
Row(p) == [k \in FVIndex |-> FeatureOf(p, CHOOSE f \in Features : FEATURE_IDX(f) = k)]

\* The leaf a sample falls in: left if its feature is <= the threshold.
LeafOf(t, fv) ==
    LET down[id \in Ids(t)] ==
            IF Leaf(t, id) THEN id
            ELSE IF 2 * fv[t.feature[id]] <= t.thr2[id]
                 THEN down[t.left[id]] ELSE down[t.right[id]]
    IN  down[0]

\* predict: the first of the classes of largest weight; 0 is benign.
PredictsBenign(t, fv) ==
    LET leaf == LeafOf(t, fv) IN t.benign[leaf] >= t.malicious[leaf]

-------------------------------------------------------------------------------
(* The export. *)

\* The array of the complete tree without its last level; main passes
\* get_depth() - 1 as max_depth.
Size(depth) == 2 ^ depth - 1
\* Mutant: main passes get_depth() itself.
MaxNodes_WholeTree == Size(tree.depth + 1)

MaxNodes == Size(tree.depth)

\* Python's round: to the nearest integer, and to the even one of two.  "x2" is
\* twice the number.
Round2(x2) ==
    IF x2 % 2 = 0 THEN x2 \div 2
    ELSE IF (x2 \div 2) % 2 = 0 THEN x2 \div 2 ELSE x2 \div 2 + 1

\* round(threshold - 0.5)
Threshold(id) == Round2(tree.thr2[id] - 1)

\* A branch passes when its child's benign weight is the larger.
MostlyBenign(id) == tree.benign[id] > tree.malicious[id]

ExportedNode(id) ==
    [threshold |-> Threshold(id),
     feature |-> [left    |-> MostlyBenign(tree.left[id]),
                  right   |-> MostlyBenign(tree.right[id]),
                  defined |-> TRUE,
                  index   |-> tree.feature[id] % 32]]

Put(pos, node) == [i \in DOMAIN nodes \cup {pos} |-> IF i = pos THEN node ELSE nodes[i]]

Init ==
    /\ tree \in Trees
    /\ depthArg \in DepthArgs
    /\ depthArg >= tree.depth
    /\ queue = << <<0, 0>> >>
    /\ nodes = <<>>
    /\ written = FALSE

\* Mutant: a position outside the array stays in the queue.
Skip_KeepsHead ==
    /\ queue # <<>>
    /\ Head(queue)[1] >= MaxNodes
    /\ UNCHANGED vars

\* One turn of the loop: a position outside the array, a leaf, an inner node.
Skip ==
    /\ queue # <<>>
    /\ Head(queue)[1] >= MaxNodes
    /\ queue' = Tail(queue)
    /\ UNCHANGED <<tree, depthArg, nodes, written>>

ExportLeaf ==
    LET pos == Head(queue)[1] IN
    /\ queue # <<>>
    /\ pos < MaxNodes
    /\ Leaf(tree, Head(queue)[2])
    /\ nodes' = Put(pos, ZeroNode)
    /\ queue' = Tail(queue)
    /\ UNCHANGED <<tree, depthArg, written>>

\* Mutant: both children at the left position.
ExportInner_SamePosition ==
    LET pos == Head(queue)[1]
        id == Head(queue)[2]
    IN  /\ queue # <<>>
        /\ pos < MaxNodes
        /\ ~Leaf(tree, id)
        /\ nodes' = Put(pos, ExportedNode(id))
        /\ queue' = Tail(queue) \o << <<2 * pos + 1, tree.left[id]>>,
                                      <<2 * pos + 1, tree.right[id]>> >>
        /\ UNCHANGED <<tree, depthArg, written>>

ExportInner ==
    LET pos == Head(queue)[1]
        id == Head(queue)[2]
    IN  /\ queue # <<>>
        /\ pos < MaxNodes
        /\ ~Leaf(tree, id)
        /\ nodes' = Put(pos, ExportedNode(id))
        /\ queue' = Tail(queue) \o << <<2 * pos + 1, tree.left[id]>>,
                                      <<2 * pos + 2, tree.right[id]>> >>
        /\ UNCHANGED <<tree, depthArg, written>>

\* The positions still None become undefined nodes, and the header is written.
Write ==
    /\ queue = <<>>
    /\ ~written
    /\ nodes' = [i \in 0..(MaxNodes - 1) |-> IF i \in DOMAIN nodes THEN nodes[i] ELSE ZeroNode]
    /\ written' = TRUE
    /\ UNCHANGED <<tree, depthArg, queue>>

Finished == written /\ UNCHANGED vars

Next == Skip \/ ExportLeaf \/ ExportInner \/ Write \/ Finished
Spec == Init /\ [][Next]_vars /\ WF_vars(Next)

-------------------------------------------------------------------------------
(* The loader. *)

\* retrieve_dt_parameters copies the header's array over DT_NODE_NB zeroed nodes.
Fits == MaxNodes <= DT_NODE_NB
Retrieved == [i \in Index |-> IF i \in DOMAIN nodes THEN nodes[i] ELSE ZeroNode]

\* main warns of a max_depth whose complete tree has more than 255 nodes, and
\* advises max_depth <= 8.
Warned == Size(depthArg + 1) > 255
Advised == depthArg <= 8

-------------------------------------------------------------------------------
(* Properties. *)

\* Every variable keeps its type; a position is exported at most once.
TypeOK ==
    /\ tree \in Trees /\ depthArg \in DepthArgs /\ written \in BOOLEAN
    /\ queue \in Seq(Nat \X Ids(tree))
    /\ \A n \in 1..Len(queue) : queue[n][1] \notin DOMAIN nodes
    /\ DOMAIN nodes \subseteq 0..(MaxNodes - 1)
    /\ \A i \in DOMAIN nodes : nodes[i] \in DtNode

\* What the export does not keep of a tree: an odd integer threshold, a leaf with
\* equal class weights, and a tree that is one malicious leaf.
Exportable(t) ==
    /\ \A id \in Ids(t) : IF Leaf(t, id) THEN t.benign[id] # t.malicious[id]
                          ELSE t.thr2[id] % 4 # 2
    /\ Leaf(t, 0) => t.benign[0] > t.malicious[0]

\* End to end: on every packet the XDP program's walk of the loaded array, with the
\* feature vector it builds of the packet, decides as scikit-learn's predict does on
\* the packet's row.
ExportFaithful ==
    (written /\ Fits /\ Exportable(tree)) =>
        \A p \in Samples :
            TreeVerdict(Retrieved, FeatureVector(p, FALSE)) = PredictsBenign(tree, Row(p))

\* The array the loader copies fits when main gave no warning.
UnwarnedFits == ~Warned => Fits

\* The export ends, whatever the shape of the tree.
ExportEnds == <>written

-------------------------------------------------------------------------------
(* What the comments and messages of main.py promise and the code does not     *)
(* keep.                                                                       *)

\* main.py:202: the threshold is rounded down.
ThresholdRoundsDown ==
    written => \A id \in Ids(tree) :
        ~Leaf(tree, id) => Threshold(id) = tree.thr2[id] \div 2

\* main.py:277: a max_depth of at most 8 suits the eBPF array.
AdvisedDepthFits == Advised => Fits
===============================================================================
