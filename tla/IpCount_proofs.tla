---------------------------- MODULE IpCount_proofs ----------------------------
(***************************************************************************)
(* What TLAPS proves of the IP-pair counters, for any number of CPUs, any  *)
(* packets, any map size and any evictions: no packet is counted twice; as *)
(* long as nothing is evicted, what the counters miss is bounded and the   *)
(* two counters of an entry are together.                                  *)
(***************************************************************************)
EXTENDS IpCount, SumTheorems

-------------------------------------------------------------------------------
(* Lemmas on keys and on the map. *)

\* The key of a packet is never that of a free element.
LEMMA KeysUsed == NoKey \notin Keys /\ Keys \subseteq Int
<1>1. ASSUME NEW p \in Packets PROVE Key(p) \in Int /\ Key(p) # 0
    <2>1. p.pair \in Nat \ {0} /\ p.hdrs \in 0..2 /\ p.ip \in BOOLEAN
        BY PacketsAssumption
    <2>2. ParseResult(p) \in {-1, -2, -3, 0}
        BY <2>1 DEF ParseResult
    <2> QED
        BY <2>1, <2>2 DEF Key
<1> QED
    BY <1>1 DEF Keys, NoKey

\* No two elements of a map hold the same key.
OneHolder(map) ==
    \A s, t \in Elems : map[s].key # NoKey /\ map[s].key = map[t].key => s = t

\* Evicting entries and inserting a key that is not there keep that true.
LEMMA InsertionKeepsOneHolder ==
    ASSUME NEW map \in [Elems -> Entry], OneHolder(map),
           NEW victims \in SUBSET Elems, NEW new \in Entry, new.key # NoKey,
           NEW s \in Holding(Evict(map, victims), NoKey)
    PROVE  LET after == InsertAt(Evict(map, victims), s, new)
           IN  after \in [Elems -> Entry] /\ OneHolder(after)
<1> DEFINE left == Evict(map, victims)
           after == InsertAt(left, s, new)
<1>1. /\ left \in [Elems -> Entry]
      /\ \A t \in Elems : left[t].key = IF t \in victims THEN NoKey ELSE map[t].key
    BY DEF Evict, Unkeyed, Entry
<1>2. s \in Elems /\ left[s].key = NoKey
    BY <1>1 DEF Holding
<1>3. /\ Unkeyed(new) \in Entry /\ Unkeyed(new).key = NoKey
    BY DEF Unkeyed, Entry
<1>4. /\ after \in [Elems -> Entry]
      /\ \A t \in Elems \ {s} : after[t] = left[t]
      /\ after[s] = IF Present(left, new.key) THEN Unkeyed(new) ELSE new
    BY <1>1, <1>2, <1>3 DEF InsertAt
<1>5. OneHolder(left)
    BY <1>1 DEF OneHolder
<1>6. CASE Present(left, new.key)
    <2>1. after[s].key = NoKey
        BY <1>3, <1>4, <1>6
    <2> QED
        BY <1>4, <1>5, <2>1 DEF OneHolder
<1>7. CASE ~Present(left, new.key)
    <2>1. after[s].key = new.key
        BY <1>4, <1>7
    <2>2. \A t \in Elems : left[t].key # new.key
        BY <1>1, <1>7 DEF Present, Holding
    <2> QED
        BY <1>4, <1>5, <2>1, <2>2 DEF OneHolder
<1> QED
    BY <1>4, <1>6, <1>7

-------------------------------------------------------------------------------
(* The inductive invariant: a CPU between two steps holds a packet. *)

BusyHasPacket == \A c \in CPUs : pc[c] # "idle" => job[c] \in Packets

IInv == TypeOK /\ BusyHasPacket /\ OneHolder(elem)

LEMMA InitIInv == Init => IInv
<1> SUFFICES ASSUME Init PROVE IInv
    OBVIOUS
<1> USE DEF Init
<1>1. 1 \in Elems
    BY BoundsAssumption DEF Elems
<1>2. Unused \in Entry
    BY DEF Unused, Entry
<1>3. TypeOK
    BY <1>1, <1>2 DEF TypeOK
<1> QED
    BY <1>3 DEF IInv, BusyHasPacket, OneHolder, Unused

\* An idle CPU again.
LEMMA ReturnTyped ==
    ASSUME IInv, NEW c \in CPUs, Return(c)
    PROVE  /\ pc' \in [CPUs -> {"idle", "count", "bytes", "insert"}]
           /\ job' \in [CPUs -> Packets \cup {NoPacket}]
           /\ ptr' \in [CPUs -> Elems]
           /\ BusyHasPacket'
<1>1. 1 \in Elems
    BY BoundsAssumption DEF Elems
<1> QED
    BY <1>1 DEF IInv, TypeOK, BusyHasPacket, Return

LEMMA ReceiveIInv ==
    ASSUME IInv, NEW c \in CPUs, NEW p \in Packets, Receive(c, p)
    PROVE  IInv'
<1> USE DEF IInv, TypeOK
<1>1. Key(p) \in Keys
    BY DEF Keys
<1>2. seen' \in [Keys -> Nat]
    BY <1>1 DEF Receive
<1>3. job' \in [CPUs -> Packets \cup {NoPacket}]
    BY DEF Receive
<1>4. Holding(elem, Key(p)) \subseteq Elems
    BY DEF Holding
<1>5. /\ pc' \in [CPUs -> {"idle", "count", "bytes", "insert"}]
      /\ ptr' \in [CPUs -> Elems]
    BY <1>4 DEF Receive
<1>6. BusyHasPacket'
    <2> SUFFICES ASSUME NEW d \in CPUs, pc'[d] # "idle" PROVE job'[d] \in Packets
        BY DEF BusyHasPacket
    <2>1. CASE d = c
        BY <2>1 DEF Receive
    <2>2. CASE d # c
        BY <2>2 DEF Receive, BusyHasPacket
    <2> QED
        BY <2>1, <2>2
<1>7. elem' = elem /\ evicted' = evicted
    BY DEF Receive
<1> QED
    BY <1>2, <1>3, <1>5, <1>6, <1>7 DEF OneHolder

\* The adds leave the keys alone.
LEMMA AddIInv ==
    ASSUME IInv, NEW c \in CPUs, AddCount(c) \/ AddBytes(c)
    PROVE  IInv'
<1> DEFINE s == ptr[c]
<1>1. s \in Elems
    BY DEF IInv, TypeOK
<1>2. /\ elem' \in [Elems -> Entry]
      /\ \A t \in Elems : elem'[t].key = elem[t].key
    <2>1. CASE AddCount(c)
        <3>1. [elem[s] EXCEPT !.count = @ + 1] \in Entry
            BY <1>1 DEF IInv, TypeOK, Entry
        <3>2. elem' = [elem EXCEPT ![s] = [elem[s] EXCEPT !.count = @ + 1]]
            BY <2>1 DEF AddCount
        <3> QED
            BY <1>1, <3>1, <3>2 DEF IInv, TypeOK, Entry
    <2>2. CASE AddBytes(c)
        <3>1. job[c].size \in Nat
            BY <2>2, PacketsAssumption DEF AddBytes, IInv, BusyHasPacket
        <3>2. [elem[s] EXCEPT !.bytes = @ + job[c].size] \in Entry
            BY <1>1, <3>1 DEF IInv, TypeOK, Entry
        <3>3. elem' = [elem EXCEPT ![s] = [elem[s] EXCEPT !.bytes = @ + job[c].size]]
            BY <2>2 DEF AddBytes
        <3> QED
            BY <1>1, <3>2, <3>3 DEF IInv, TypeOK, Entry
    <2> QED
        BY <2>1, <2>2
<1>3. OneHolder(elem')
    BY <1>2 DEF IInv, OneHolder
<1>4. seen' = seen /\ evicted' = evicted
    BY DEF AddCount, AddBytes
<1>5. CASE AddCount(c)
    <2>1. /\ pc' \in [CPUs -> {"idle", "count", "bytes", "insert"}]
          /\ job' = job /\ ptr' = ptr
          /\ \A d \in CPUs : pc'[d] # "idle" => pc[d] # "idle"
        BY <1>5 DEF AddCount, IInv, TypeOK
    <2> QED
        BY <1>2, <1>3, <1>4, <2>1 DEF IInv, TypeOK, BusyHasPacket
<1>6. CASE AddBytes(c)
    BY <1>2, <1>3, <1>4, <1>6, ReturnTyped DEF AddBytes, IInv, TypeOK
<1> QED
    BY <1>5, <1>6

LEMMA InsertIInv ==
    ASSUME IInv, NEW c \in CPUs, Insert(c)
    PROVE  IInv'
<1>1. job[c] \in Packets
    BY DEF Insert, IInv, BusyHasPacket
<1>2. Handled(c) \in Keys /\ Handled(c) # NoKey
    BY <1>1, KeysUsed DEF Handled, Keys
<1>3. NewEntry(c) \in Entry /\ NewEntry(c).key # NoKey
    BY <1>1, <1>2, PacketsAssumption DEF NewEntry, Entry
<1>4. PICK victims \in SUBSET Occupied(elem) :
        /\ \E s \in Holding(Evict(elem, victims), NoKey) :
              elem' = InsertAt(Evict(elem, victims), s, NewEntry(c))
        /\ evicted' = (evicted \/ victims # {})
    BY DEF Insert
<1>5. victims \subseteq Elems
    BY DEF Occupied, IInv, TypeOK
<1>6. elem' \in [Elems -> Entry] /\ OneHolder(elem')
    BY <1>3, <1>4, <1>5, InsertionKeepsOneHolder DEF IInv, TypeOK
<1>7. evicted' \in BOOLEAN /\ seen' = seen
    BY <1>4 DEF Insert, IInv, TypeOK
<1> QED
    BY <1>6, <1>7, ReturnTyped DEF Insert, IInv, TypeOK

LEMMA NextIInv == IInv /\ [CountNext \/ AllSeen]_cvars => IInv'
<1> SUFFICES ASSUME IInv, [CountNext \/ AllSeen]_cvars PROVE IInv'
    OBVIOUS
<1>1. ASSUME NEW c \in CPUs, Cpu(c) PROVE IInv'
    BY <1>1, AddIInv, InsertIInv DEF Cpu
<1>2. ASSUME NEW c \in CPUs, NEW p \in Packets, Receive(c, p) PROVE IInv'
    BY <1>2, ReceiveIInv
<1>3. CASE UNCHANGED cvars
    BY <1>3 DEF cvars, IInv, TypeOK, BusyHasPacket, OneHolder
<1> QED
    BY <1>1, <1>2, <1>3 DEF CountNext, AllSeen

\* Every variable keeps its type.
THEOREM TypeCorrect == Spec => []TypeOK
<1>1. IInv => TypeOK
    BY DEF IInv
<1> QED
    BY <1>1, InitIInv, NextIInv, PTL DEF Spec

-------------------------------------------------------------------------------
(* The sums. *)

LEMMA Finite == IsFiniteSet(Keys) /\ IsFiniteSet(Elems)
<1>1. IsFiniteSet(Keys)
    <2> DEFINE f == [p \in Packets |-> Key(p)]
    <2>1. f \in [Packets -> Keys]
        BY DEF Keys
    <2>2. \A k \in Keys : \E p \in Packets : f[p] = k
        BY DEF Keys
    <2> HIDE DEF f
    <2>3. f \in Surjection(Packets, Keys)
        BY <2>1, <2>2 DEF Surjection
    <2> QED
        BY <2>3, PacketsAssumption, FS_Surjection
<1>2. IsFiniteSet(Elems)
    <2>1. 1 \in Int /\ MaxEntries \in Int
        BY BoundsAssumption
    <2> QED
        BY <2>1, FS_Interval DEF Elems
<1> QED
    BY <1>1, <1>2

LEMMA TotalIsSum == ASSUME NEW S, NEW f \in [S -> Int] PROVE Total(f) = Sum(f, S)
<1>1. DOMAIN f = S
    OBVIOUS
<1> QED
    BY <1>1 DEF Total, Sum

\* What is received is counted in "seen".
LEMMA ReceiveSeen ==
    ASSUME IInv, NEW c \in CPUs, NEW p \in Packets, Receive(c, p)
    PROVE  Total(seen') = Total(seen) + 1
<1> DEFINE k == Key(p)
<1>1. /\ k \in Keys /\ seen \in [Keys -> Int] /\ seen' = [seen EXCEPT ![k] = seen[k] + 1]
      /\ seen[k] \in Nat
    BY DEF Keys, Receive, IInv, TypeOK
<1> HIDE DEF k
<1>2. /\ seen' \in [Keys -> Int] /\ seen'[k] - seen[k] = 1
      /\ \A j \in Keys \ {k} : seen'[j] = seen[j]
    BY <1>1
<1>3. Sum(seen', Keys) = Sum(seen, Keys) + (seen'[k] - seen[k])
    <2> DEFINE f == seen
               g == seen'
    <2>1. /\ f \in [Keys -> Int] /\ g \in [Keys -> Int]
          /\ \A j \in Keys \ {k} : g[j] = f[j]
        BY <1>1, <1>2
    <2> HIDE DEF f, g
    <2>2. Sum(g, Keys) = Sum(f, Keys) + (g[k] - f[k])
        BY <1>1, <2>1, Finite, SumChanges
    <2> QED
        BY <2>2 DEF f, g
<1> QED
    BY <1>1, <1>2, <1>3, TotalIsSum

-------------------------------------------------------------------------------
(* No packet is counted twice. *)

\* The CPUs whose packet is still to be counted, after a step of one of them.
LEMMA UncountedMoves ==
    ASSUME NEW c \in CPUs, IInv, \A d \in CPUs \ {c} : pc'[d] = pc[d]
    PROVE  /\ Cardinality(Uncounted) \in Nat /\ Cardinality(Uncounted') \in Nat
           /\ c \notin Uncounted /\ c \in Uncounted' =>
                 Cardinality(Uncounted') = Cardinality(Uncounted) + 1
           /\ c \in Uncounted /\ c \notin Uncounted' =>
                 Cardinality(Uncounted') = Cardinality(Uncounted) - 1
           /\ (c \in Uncounted <=> c \in Uncounted') =>
                 Cardinality(Uncounted') = Cardinality(Uncounted)
<1> DEFINE U == Uncounted
           V == Uncounted'
<1>1. U \subseteq CPUs /\ V \subseteq CPUs /\ \A d \in CPUs \ {c} : d \in U <=> d \in V
    BY DEF Uncounted
<1> HIDE DEF U, V
<1>2. IsFiniteSet(U) /\ IsFiniteSet(V)
    BY <1>1, BoundsAssumption, FS_Subset
<1>3. Cardinality(U) \in Nat /\ Cardinality(V) \in Nat
    BY <1>2, FS_CardinalityType
<1>4. c \notin U /\ c \in V => Cardinality(V) = Cardinality(U) + 1
    <2>1. c \notin U /\ c \in V => V = U \cup {c}
        BY <1>1
    <2> QED
        BY <1>2, <2>1, FS_AddElement
<1>5. c \in U /\ c \notin V => Cardinality(V) = Cardinality(U) - 1
    <2>1. c \in U /\ c \notin V => V = U \ {c}
        BY <1>1
    <2> QED
        BY <1>2, <2>1, FS_RemoveElement
<1>6. (c \in U <=> c \in V) => V = U
    BY <1>1
<1> QED
    BY <1>3, <1>4, <1>5, <1>6 DEF U, V

\* One entry's counter changes, and others only disappear.
LEMMA CountedGrows ==
    ASSUME IInv, IInv', NEW s \in Elems,
           \A t \in Elems \ {s} : Counted'[t] <= Counted[t]
    PROVE  /\ Total(Counted) \in Int /\ Total(Counted') \in Int
           /\ Total(Counted') <= Total(Counted) + (Counted'[s] - Counted[s])
<1> DEFINE f == Counted
           g == Counted'
<1>1. f \in [Elems -> Int] /\ g \in [Elems -> Int]
    BY DEF Counted, IInv, TypeOK, Entry
<1> HIDE DEF f, g
<1>2. Sum(g, Elems) <= Sum(f, Elems) + (g[s] - f[s])
    <2>1. \A t \in Elems \ {s} : g[t] <= f[t]
        BY DEF f, g
    <2> QED
        BY <1>1, <2>1, Finite, SumGrows
<1>3. Sum(f, Elems) \in Int /\ Sum(g, Elems) \in Int
    BY <1>1, Finite, SumTyped
<1>4. Total(f) = Sum(f, Elems) /\ Total(g) = Sum(g, Elems)
    BY <1>1, TotalIsSum
<1>5. Total(Counted') = Total(g) /\ Total(Counted) = Total(f)
    BY DEF f, g
<1> QED
    BY <1>2, <1>3, <1>4, <1>5 DEF f, g

LEMMA SeenTyped == IInv => Total(seen) \in Nat
<1> SUFFICES ASSUME IInv PROVE Total(seen) \in Nat
    OBVIOUS
<1>1. seen \in [Keys -> Int] /\ \A k \in Keys : seen[k] >= 0
    BY DEF IInv, TypeOK
<1>2. Sum(seen, Keys) \in Int /\ Sum(seen, Keys) >= 0
    BY <1>1, Finite, SumTyped
<1> QED
    BY <1>1, <1>2, TotalIsSum

\* Inserting an entry for a packet, and evicting others.
LEMMA InsertCounted ==
    ASSUME IInv, NEW c \in CPUs, Insert(c)
    PROVE  \E s \in Elems : /\ \A t \in Elems \ {s} : Counted'[t] <= Counted[t]
                            /\ Counted'[s] <= Counted[s] + 1
<1>0. PICK victims \in SUBSET Occupied(elem) :
         \E s \in Holding(Evict(elem, victims), NoKey) :
             elem' = InsertAt(Evict(elem, victims), s, NewEntry(c))
    BY DEF Insert
<1>1. PICK s \in Holding(Evict(elem, victims), NoKey) :
         elem' = InsertAt(Evict(elem, victims), s, NewEntry(c))
    BY <1>0
<1> DEFINE left == Evict(elem, victims)
<1>2. /\ elem \in [Elems -> Entry] /\ s \in Elems
      /\ left \in [Elems -> Entry]
      /\ \A t \in Elems : left[t] = IF t \in victims THEN Unkeyed(elem[t]) ELSE elem[t]
    BY <1>1 DEF IInv, TypeOK, Evict, Holding, Unkeyed, Entry
<1>3. \A t \in Elems \ {s} : elem'[t] = left[t]
    BY <1>1, <1>2 DEF InsertAt
<1>4. elem'[s] = Unkeyed(NewEntry(c)) \/ elem'[s] = NewEntry(c)
    BY <1>1, <1>2 DEF InsertAt
<1>5. Counted'[s] <= 1
    BY <1>2, <1>4 DEF Counted, NewEntry, Unkeyed
<1>6. Counted[s] \in Nat
    BY <1>2 DEF Counted, Entry
<1>7. ASSUME NEW t \in Elems \ {s} PROVE Counted'[t] <= Counted[t]
    <2>1. elem[t].count \in Nat
        BY <1>2 DEF Entry
    <2>2. Unkeyed(elem[t]).key = NoKey
        BY <1>2 DEF Unkeyed, Entry
    <2> QED
        BY <1>2, <1>3, <2>1, <2>2 DEF Counted
<1>8. Counted'[s] \in Nat
    BY <1>2, <1>4 DEF Counted, NewEntry, Unkeyed
<1> QED
    BY <1>2, <1>5, <1>6, <1>7, <1>8

LEMMA CountStep == IInv /\ IInv' /\ CountedOnce /\ [CountNext \/ AllSeen]_cvars => CountedOnce'
<1> SUFFICES ASSUME IInv, IInv', CountedOnce, [CountNext \/ AllSeen]_cvars PROVE CountedOnce'
    OBVIOUS
<1> DEFINE counted == Total(Counted)
           left == Cardinality(Uncounted)
<1>1. counted + left <= Total(seen)
    BY DEF CountedOnce
<1>2. Total(seen) \in Nat
    BY SeenTyped
<1>3. ASSUME NEW c \in CPUs, NEW p \in Packets, Receive(c, p) PROVE CountedOnce'
    <2>1. Total(seen') = Total(seen) + 1
        BY <1>3, ReceiveSeen
    <2>2. Counted' = Counted
        BY <1>3 DEF Receive, Counted
    <2>3. c \notin Uncounted /\ c \in Uncounted' /\ \A d \in CPUs \ {c} : pc'[d] = pc[d]
        BY <1>3 DEF Receive, Uncounted, IInv, TypeOK
    <2>4. left' = left + 1 /\ left \in Nat
        BY <2>3, UncountedMoves
    <2>5. Total(Counted') = counted /\ counted \in Int
        <3>1. 1 \in Elems
            BY BoundsAssumption DEF Elems
        <3>2. \A t \in Elems \ {1} : Counted'[t] <= Counted[t]
            BY <2>2 DEF Counted, IInv, TypeOK, Entry
        <3> QED
            BY <2>2, <3>1, <3>2, CountedGrows
    <2> HIDE DEF counted, left
    <2>6. Total(Counted') + left' <= Total(seen')
        BY <1>1, <1>2, <2>1, <2>4, <2>5
    <2> QED
        BY <2>6 DEF CountedOnce, left
<1>4. ASSUME NEW c \in CPUs, NEW s \in Elems, NEW n \in {0, 1},
             \A t \in Elems \ {s} : Counted'[t] <= Counted[t],
             Counted'[s] <= Counted[s] + n,
             n = 1 => c \in Uncounted /\ c \notin Uncounted',
             n = 0 => (c \in Uncounted <=> c \in Uncounted'),
             \A d \in CPUs \ {c} : pc'[d] = pc[d],
             seen' = seen
      PROVE  CountedOnce'
    <2>1. /\ counted \in Int /\ Total(Counted') \in Int
          /\ Total(Counted') <= counted + (Counted'[s] - Counted[s])
        BY <1>4, CountedGrows
    <2>2. Counted'[s] \in Int /\ Counted[s] \in Int
        BY DEF Counted, IInv, TypeOK, Entry
    <2>3. left' = left - n /\ left \in Nat
        BY <1>4, UncountedMoves
    <2> HIDE DEF counted, left
    <2>4. Total(Counted') + left' <= Total(seen)
        BY <1>1, <1>2, <1>4, <2>1, <2>2, <2>3
    <2> QED
        BY <1>4, <2>4 DEF CountedOnce, left
<1>5. ASSUME NEW c \in CPUs, AddCount(c) PROVE CountedOnce'
    <2> DEFINE s == ptr[c]
    <2>1. /\ s \in Elems /\ seen' = seen
          /\ elem' = [elem EXCEPT ![s].count = @ + 1]
          /\ pc[c] = "count" /\ pc'[c] = "bytes" /\ \A d \in CPUs \ {c} : pc'[d] = pc[d]
        BY <1>5 DEF AddCount, IInv, TypeOK
    <2> HIDE DEF s
    <2>2. /\ \A t \in Elems \ {s} : elem'[t] = elem[t]
          /\ elem'[s].key = elem[s].key /\ elem'[s].count = elem[s].count + 1
        BY <2>1 DEF IInv, TypeOK, Entry
    <2>3. \A t \in Elems : elem[t].count \in Nat
        BY DEF IInv, TypeOK, Entry
    <2>4. /\ \A t \in Elems \ {s} : Counted'[t] <= Counted[t]
          /\ Counted'[s] <= Counted[s] + 1
        BY <2>1, <2>2, <2>3 DEF Counted
    <2>5. c \in Uncounted /\ c \notin Uncounted'
        BY <2>1 DEF Uncounted
    <2> QED
        BY <1>4, <2>1, <2>4, <2>5
<1>6. ASSUME NEW c \in CPUs, AddBytes(c) PROVE CountedOnce'
    <2> DEFINE s == ptr[c]
    <2>1. /\ s \in Elems /\ seen' = seen
          /\ elem' = [elem EXCEPT ![s].bytes = @ + job[c].size]
          /\ pc[c] = "bytes" /\ pc'[c] = "idle" /\ \A d \in CPUs \ {c} : pc'[d] = pc[d]
        BY <1>6 DEF AddBytes, Return, IInv, TypeOK
    <2> HIDE DEF s
    <2>2. \A t \in Elems : elem'[t].key = elem[t].key /\ elem'[t].count = elem[t].count
        BY <2>1 DEF IInv, TypeOK, Entry
    <2>3. \A t \in Elems : elem[t].count \in Nat
        BY DEF IInv, TypeOK, Entry
    <2>4. /\ \A t \in Elems \ {s} : Counted'[t] <= Counted[t]
          /\ Counted'[s] <= Counted[s] + 0
        BY <2>1, <2>2, <2>3 DEF Counted
    <2>5. c \notin Uncounted /\ c \notin Uncounted'
        BY <2>1 DEF Uncounted
    <2> QED
        BY <1>4, <2>1, <2>4, <2>5
<1>7. ASSUME NEW c \in CPUs, Insert(c) PROVE CountedOnce'
    <2>1. PICK s \in Elems : /\ \A t \in Elems \ {s} : Counted'[t] <= Counted[t]
                             /\ Counted'[s] <= Counted[s] + 1
        BY <1>7, InsertCounted
    <2>2. /\ seen' = seen /\ pc[c] = "insert" /\ pc'[c] = "idle"
          /\ \A d \in CPUs \ {c} : pc'[d] = pc[d]
        BY <1>7 DEF Insert, Return, IInv, TypeOK
    <2>3. c \in Uncounted /\ c \notin Uncounted'
        BY <2>2 DEF Uncounted
    <2> QED
        BY <1>4, <2>1, <2>2, <2>3
<1>8. CASE UNCHANGED cvars
    BY <1>8 DEF cvars, CountedOnce, Counted, Uncounted
<1> QED
    BY <1>3, <1>5, <1>6, <1>7, <1>8 DEF CountNext, Cpu, AllSeen

\* Whatever is evicted, and although an add may land in an element recycled for
\* another pair, the map never holds more packets than were received.
THEOREM NeverCountedTwice == Spec => []CountedOnce
<1>1. Init => CountedOnce
    <2> SUFFICES ASSUME Init PROVE CountedOnce
        OBVIOUS
    <2>1. /\ Counted \in [Elems -> Int] /\ \A s \in Elems : Counted[s] = 0
          /\ seen \in [Keys -> Int] /\ \A k \in Keys : seen[k] = 0
        BY DEF Init, Counted, Unused
    <2>2. Total(Counted) = 0 /\ Total(seen) = 0
        BY <2>1, Finite, SumOfZeros, TotalIsSum
    <2>3. Uncounted = {}
        BY DEF Init, Uncounted
    <2>4. Cardinality(Uncounted) = 0
        BY <2>3, FS_EmptySet, Zenon
    <2> QED
        BY <2>2, <2>4 DEF CountedOnce
<1> QED
    BY <1>1, CountStep, InitIInv, NextIInv, PTL DEF Spec

-------------------------------------------------------------------------------
(* As long as nothing is evicted. *)

Num(place, k) == Cardinality(Doing(place, k))
Is(c, place, k) == IF pc[c] = place /\ Handled(c) = k THEN 1 ELSE 0

LEMMA NumTyped ==
    ASSUME NEW place, NEW k
    PROVE  Num(place, k) \in Nat /\ Num(place, k) <= Cardinality(CPUs) /\ Cardinality(CPUs) \in Nat
<1>1. Doing(place, k) \subseteq CPUs
    BY DEF Doing
<1> QED
    BY <1>1, BoundsAssumption, FS_Subset, FS_CardinalityType DEF Num

\* A step of c takes c out of one of these sets and puts it into another.
LEMMA NumMoves ==
    ASSUME NEW c \in CPUs, \A d \in CPUs \ {c} : pc'[d] = pc[d] /\ job'[d] = job[d],
           NEW place, NEW k
    PROVE  /\ Num(place, k)' \in Nat
           /\ Num(place, k)' = Num(place, k) - Is(c, place, k) + Is(c, place, k)'
<1> DEFINE D == Doing(place, k)
           E == Doing(place, k)'
<1>1. /\ D \subseteq CPUs /\ E \subseteq CPUs
      /\ \A d \in CPUs \ {c} : d \in D <=> d \in E
      /\ Is(c, place, k) = (IF c \in D THEN 1 ELSE 0)
      /\ Is(c, place, k)' = (IF c \in E THEN 1 ELSE 0)
    BY DEF Doing, Handled, Is
<1>2. Num(place, k) = Cardinality(D) /\ Num(place, k)' = Cardinality(E)
    BY DEF Num
<1> HIDE DEF D, E
<1>3. IsFiniteSet(D) /\ IsFiniteSet(E)
    BY <1>1, BoundsAssumption, FS_Subset
<1>4. Cardinality(D) \in Nat /\ Cardinality(E) \in Nat
    BY <1>3, FS_CardinalityType
<1>5. CASE c \notin D /\ c \in E
    <2>1. E = D \cup {c}
        BY <1>1, <1>5
    <2>2. Cardinality(E) = Cardinality(D) + 1
        BY <1>3, <1>5, <2>1, FS_AddElement
    <2> QED
        BY <1>1, <1>2, <1>4, <1>5, <2>2
<1>6. CASE c \in D /\ c \notin E
    <2>1. E = D \ {c}
        BY <1>1, <1>6
    <2>2. Cardinality(E) = Cardinality(D) - 1
        BY <1>3, <1>6, <2>1, FS_RemoveElement
    <2> QED
        BY <1>1, <1>2, <1>4, <1>6, <2>2
<1>7. CASE c \in D <=> c \in E
    <2>1. E = D
        BY <1>1, <1>7
    <2> QED
        BY <1>1, <1>2, <1>4, <1>7, <2>1
<1> QED
    BY <1>5, <1>6, <1>7

\* The pointer of a CPU between two adds leads to the entry of its key.
PointersHold == \A c \in CPUs : pc[c] \in {"count", "bytes"} => elem[ptr[c]].key = Handled(c)

\* The packets of a key that is not there yet are all about to insert it.
AbsentSeen ==
    \A k \in Keys : (\A s \in Elems : elem[s].key # k) => seen[k] = Num("insert", k)

\* UndercountBounded and BytesLag, for an entry.
Short(s, k) ==
    /\ seen[k] - elem[s].count - Num("count", k) >= Num("insert", k)
    /\ seen[k] - elem[s].count - Num("count", k) <= Cardinality(CPUs) - 1
OneSize(k) == \A p, q \in Packets : Key(p) = k /\ Key(q) = k => p.size = q.size
Lag(s, k) ==
    OneSize(k) => \A p \in Packets : Key(p) = k =>
                      elem[s].bytes = p.size * (elem[s].count - Num("bytes", k))

Entries == \A s \in Elems, k \in Keys : elem[s].key = k => Short(s, k) /\ Lag(s, k)

Steady == ~evicted => PointersHold /\ AbsentSeen /\ Entries

LEMMA SteadyReceive ==
    ASSUME IInv, PointersHold, AbsentSeen, Entries, NEW c \in CPUs, NEW p \in Packets, Receive(c, p)
    PROVE  PointersHold' /\ AbsentSeen' /\ Entries'
<1> DEFINE k == Key(p)
<1>1. /\ k \in Keys /\ elem' = elem /\ seen \in [Keys -> Nat]
      /\ seen' = [seen EXCEPT ![k] = seen[k] + 1]
      /\ pc[c] = "idle" /\ Handled(c)' = k
      /\ \A d \in CPUs \ {c} : pc'[d] = pc[d] /\ job'[d] = job[d] /\ ptr'[d] = ptr[d]
    BY DEF Receive, Keys, Handled, IInv, TypeOK
<1>2. \/ /\ pc'[c] = "count" /\ ptr'[c] \in Elems /\ elem[ptr'[c]].key = k
      \/ /\ pc'[c] = "insert" /\ \A s \in Elems : elem[s].key # k
    BY DEF Receive, Present, Holding, IInv, TypeOK
<1> HIDE DEF k
<1>3. PointersHold'
    BY <1>1, <1>2 DEF PointersHold, Handled
<1>4. \A j : /\ Is(c, "insert", j) = 0 /\ Is(c, "count", j) = 0 /\ Is(c, "bytes", j) = 0
             /\ Is(c, "insert", j)' = IF pc'[c] = "insert" /\ j = k THEN 1 ELSE 0
             /\ Is(c, "count", j)' = IF pc'[c] = "count" /\ j = k THEN 1 ELSE 0
             /\ Is(c, "bytes", j)' = 0
    BY <1>1, <1>2 DEF Is
<1>5. \A j : /\ Num("insert", j)' = Num("insert", j) + (IF pc'[c] = "insert" /\ j = k THEN 1 ELSE 0)
             /\ Num("count", j)' = Num("count", j) + (IF pc'[c] = "count" /\ j = k THEN 1 ELSE 0)
             /\ Num("bytes", j)' = Num("bytes", j)
    BY <1>1, <1>4, NumMoves, NumTyped
<1>6. AbsentSeen'
    <2> SUFFICES ASSUME NEW j \in Keys, \A s \in Elems : elem[s].key # j
                 PROVE  seen'[j] = Num("insert", j)'
        BY <1>1 DEF AbsentSeen
    <2>1. seen[j] = Num("insert", j)
        BY DEF AbsentSeen
    <2> QED
        BY <1>1, <1>2, <1>5, <2>1
<1>7. Entries'
    <2> SUFFICES ASSUME NEW s \in Elems, NEW j \in Keys, elem[s].key = j
                 PROVE  Short(s, j)' /\ Lag(s, j)'
        BY <1>1 DEF Entries
    <2>1. Short(s, j) /\ Lag(s, j)
        BY DEF Entries
    <2>2. Lag(s, j)'
        BY <1>1, <1>5, <2>1 DEF Lag, OneSize
    <2>3. /\ elem[s].count \in Nat /\ seen[j] \in Nat /\ Cardinality(CPUs) \in Nat
          /\ Num("insert", j) \in Nat /\ Num("count", j) \in Nat
        BY <1>1, NumTyped DEF IInv, TypeOK, Entry
    <2>4. CASE j # k
        <3>1. seen'[j] = seen[j] /\ Num("count", j)' = Num("count", j)
              /\ Num("insert", j)' = Num("insert", j)
            BY <1>1, <1>5, <2>3, <2>4
        <3> QED
            BY <1>1, <2>1, <2>2, <3>1 DEF Short
    <2>5. CASE j = k
        <3>1. seen'[j] = seen[j] + 1 /\ Num("count", j)' = Num("count", j) + 1
              /\ Num("insert", j)' = Num("insert", j)
            BY <1>1, <1>2, <1>5, <2>3, <2>5
        <3> QED
            BY <1>1, <2>1, <2>2, <2>3, <3>1 DEF Short
    <2> QED
        BY <2>4, <2>5
<1> QED
    BY <1>3, <1>6, <1>7

\* Only one entry has the key that a pointer leads to.
LEMMA SteadyAdds ==
    ASSUME IInv, PointersHold, AbsentSeen, Entries, NEW c \in CPUs, AddCount(c) \/ AddBytes(c)
    PROVE  PointersHold' /\ AbsentSeen' /\ Entries'
<1>0. PICK k \in Keys, t \in Elems, size \in Nat :
         k = Handled(c) /\ t = ptr[c] /\ size = job[c].size
    BY PacketsAssumption DEF AddCount, AddBytes, IInv, TypeOK, BusyHasPacket, Handled, Keys
<1>1. /\ elem[t].key = k /\ k # NoKey /\ job[c] \in Packets /\ Key(job[c]) = k
      /\ elem[t].count \in Nat /\ elem[t].bytes \in Nat
    BY <1>0, KeysUsed
    DEF AddCount, AddBytes, PointersHold, IInv, TypeOK, Entry, BusyHasPacket, Handled
<1>2. /\ seen' = seen
      /\ \A d \in CPUs \ {c} : pc'[d] = pc[d] /\ job'[d] = job[d] /\ ptr'[d] = ptr[d]
      /\ \A s \in Elems \ {t} : elem'[s] = elem[s]
      /\ elem'[t].key = elem[t].key
    BY <1>0 DEF AddCount, AddBytes, Return, IInv, TypeOK, Entry
<1>3. \/ /\ pc[c] = "count" /\ pc'[c] = "bytes" /\ ptr'[c] = t /\ Handled(c)' = k
         /\ elem'[t].count = elem[t].count + 1 /\ elem'[t].bytes = elem[t].bytes
      \/ /\ pc[c] = "bytes" /\ pc'[c] = "idle"
         /\ elem'[t].count = elem[t].count /\ elem'[t].bytes = elem[t].bytes + size
    BY <1>0 DEF AddCount, AddBytes, Return, Handled, IInv, TypeOK, Entry
<1>4. \A s \in Elems : elem'[s].key = elem[s].key
    BY <1>2
<1>5. PointersHold'
    <2> SUFFICES ASSUME NEW d \in CPUs, pc'[d] \in {"count", "bytes"}
                 PROVE  elem'[ptr'[d]].key = Handled(d)'
        BY DEF PointersHold
    <2>1. CASE d # c
        <3>1. ptr[d] \in Elems /\ elem[ptr[d]].key = Handled(d) /\ Handled(d)' = Handled(d)
            BY <1>2, <2>1 DEF PointersHold, Handled, IInv, TypeOK
        <3> QED
            BY <1>2, <1>4, <2>1, <3>1
    <2>2. CASE d = c
        BY <1>0, <1>1, <1>2, <1>3, <2>2
    <2> QED
        BY <2>1, <2>2
<1>6. \A j \in Keys : j # k => /\ Num("insert", j)' = Num("insert", j)
                              /\ Num("count", j)' = Num("count", j)
                              /\ Num("bytes", j)' = Num("bytes", j)
    <2> SUFFICES ASSUME NEW j \in Keys, j # k, NEW place \in {"insert", "count", "bytes"}
                 PROVE  Num(place, j)' = Num(place, j)
        OBVIOUS
    <2>1. Is(c, place, j) = 0 /\ Is(c, place, j)' = 0
        BY <1>0, <1>3 DEF Is
    <2> QED
        BY <1>2, <2>1, NumMoves, NumTyped
<1>7. AbsentSeen'
    <2> SUFFICES ASSUME NEW j \in Keys, \A s \in Elems : elem'[s].key # j
                 PROVE  seen'[j] = Num("insert", j)'
        BY DEF AbsentSeen
    <2>1. j # k /\ \A s \in Elems : elem[s].key # j
        BY <1>1, <1>4
    <2> QED
        BY <1>2, <1>6, <2>1 DEF AbsentSeen
<1>8. ASSUME NEW s \in Elems, NEW j \in Keys, elem'[s].key = j
      PROVE  Short(s, j)' /\ Lag(s, j)'
    <2>1. elem[s].key = j /\ Short(s, j) /\ Lag(s, j)
        BY <1>4, <1>8 DEF Entries
    <2>2. CASE s # t
        <3>1. j # k
            BY <1>1, <2>1, <2>2, KeysUsed DEF IInv, OneHolder
        <3>2. elem'[s] = elem[s]
            BY <1>2, <2>2
        <3> QED
            BY <1>2, <1>6, <2>1, <3>1, <3>2 DEF Short, Lag, OneSize
    <2>3. CASE s = t
        <3>1. j = k
            BY <1>1, <2>1, <2>3
        <3>2. /\ seen[k] \in Nat /\ Cardinality(CPUs) \in Nat
              /\ Num("insert", k) \in Nat /\ Num("count", k) \in Nat /\ Num("bytes", k) \in Nat
            BY <1>1, NumTyped DEF IInv, TypeOK
        <3>3. CASE pc[c] = "count"
            <4>1. /\ Is(c, "insert", k) = 0 /\ Is(c, "insert", k)' = 0
                  /\ Is(c, "count", k) = 1 /\ Is(c, "count", k)' = 0
                  /\ Is(c, "bytes", k) = 0 /\ Is(c, "bytes", k)' = 1
                BY <1>0, <1>3, <3>3 DEF Is
            <4>2. /\ Num("insert", k)' = Num("insert", k)
                  /\ Num("count", k)' = Num("count", k) - 1
                  /\ Num("bytes", k)' = Num("bytes", k) + 1
                BY <1>2, <3>2, <4>1, NumMoves
            <4>3. Short(s, j)'
                BY <1>1, <1>2, <1>3, <2>1, <2>3, <3>1, <3>2, <3>3, <4>2 DEF Short
            <4>4. elem'[t].count - Num("bytes", k)' = elem[t].count - Num("bytes", k)
                BY <1>1, <1>3, <3>2, <3>3, <4>2
            <4>5. Lag(s, j)'
                BY <1>3, <2>1, <2>3, <3>1, <3>3, <4>4 DEF Lag, OneSize
            <4> QED
                BY <4>3, <4>5
        <3>4. CASE pc[c] = "bytes"
            <4>1. /\ Is(c, "insert", k) = 0 /\ Is(c, "insert", k)' = 0
                  /\ Is(c, "count", k) = 0 /\ Is(c, "count", k)' = 0
                  /\ Is(c, "bytes", k) = 1 /\ Is(c, "bytes", k)' = 0
                BY <1>0, <1>3, <3>4 DEF Is
            <4>2. /\ Num("insert", k)' = Num("insert", k)
                  /\ Num("count", k)' = Num("count", k)
                  /\ Num("bytes", k)' = Num("bytes", k) - 1
                BY <1>2, <3>2, <4>1, NumMoves
            <4>3. Short(s, j)'
                BY <1>1, <1>2, <1>3, <2>1, <2>3, <3>1, <3>2, <3>4, <4>2 DEF Short
            <4>4. ASSUME OneSize(k), NEW p \in Packets, Key(p) = k
                  PROVE  elem'[t].bytes = p.size * (elem'[t].count - Num("bytes", k)')
                <5> DEFINE n == elem[t].count - Num("bytes", k)
                <5>1. p.size = size
                    BY <1>0, <1>1, <4>4 DEF OneSize
                <5>2. elem[t].bytes = size * n
                    BY <2>1, <2>3, <3>1, <4>4, <5>1 DEF Lag
                <5>3. elem'[t].count - Num("bytes", k)' = n + 1 /\ n \in Int
                    BY <1>1, <1>3, <3>2, <3>4, <4>2
                <5>4. elem'[t].bytes = elem[t].bytes + size
                    BY <1>3, <3>4
                <5> HIDE DEF n
                <5>5. size * (n + 1) = size * n + size
                    BY <1>1, <5>3
                <5> QED
                    BY <5>1, <5>2, <5>3, <5>4, <5>5
            <4>5. Lag(s, j)'
                BY <2>3, <3>1, <4>4 DEF Lag, OneSize
            <4> QED
                BY <4>3, <4>5
        <3> QED
            BY <1>3, <3>3, <3>4
    <2> QED
        BY <2>2, <2>3
<1> QED
    BY <1>5, <1>7, <1>8 DEF Entries

\* An insertion without eviction: the first one of a key fills an element with it,
\* a later one leaves the entries alone.
LEMMA InsertSteady ==
    ASSUME IInv, NEW c \in CPUs, Insert(c), ~evicted'
    PROVE  \E s \in Elems :
              /\ elem[s].key = NoKey
              /\ \A t \in Elems \ {s} : elem'[t] = elem[t]
              /\ IF Present(elem, Handled(c)) THEN elem'[s].key = NoKey ELSE elem'[s] = NewEntry(c)
<1>1. PICK victims \in SUBSET Occupied(elem) :
         /\ \E s \in Holding(Evict(elem, victims), NoKey) :
               elem' = InsertAt(Evict(elem, victims), s, NewEntry(c))
         /\ evicted' = (evicted \/ victims # {})
    BY DEF Insert
<1>2. victims = {}
    BY <1>1 DEF IInv, TypeOK
<1>3. elem = Evict(elem, victims)
    BY <1>2 DEF Evict, IInv, TypeOK
<1>4. PICK s \in Holding(elem, NoKey) : elem' = InsertAt(elem, s, NewEntry(c))
    BY <1>1, <1>3
<1>5. s \in Elems /\ elem[s].key = NoKey /\ NewEntry(c).key = Handled(c)
    BY <1>4 DEF Holding, NewEntry, IInv, TypeOK
<1>6. Unkeyed(NewEntry(c)).key = NoKey
    BY DEF Unkeyed, NewEntry
<1>7. /\ \A t \in Elems \ {s} : elem'[t] = elem[t]
      /\ elem'[s] = IF Present(elem, Handled(c)) THEN Unkeyed(NewEntry(c)) ELSE NewEntry(c)
    BY <1>4, <1>5 DEF InsertAt, IInv, TypeOK
<1> QED
    BY <1>5, <1>6, <1>7

LEMMA SteadyInsert ==
    ASSUME IInv, PointersHold, AbsentSeen, Entries, NEW c \in CPUs, Insert(c), ~evicted'
    PROVE  PointersHold' /\ AbsentSeen' /\ Entries'
<1>0. PICK k \in Keys, size \in Nat : k = Handled(c) /\ size = job[c].size
    BY PacketsAssumption DEF Insert, IInv, TypeOK, BusyHasPacket, Handled, Keys
<1>1. /\ k # NoKey /\ job[c] \in Packets /\ Key(job[c]) = k
      /\ pc[c] = "insert" /\ pc'[c] = "idle" /\ seen' = seen /\ seen \in [Keys -> Nat]
      /\ \A d \in CPUs \ {c} : pc'[d] = pc[d] /\ job'[d] = job[d] /\ ptr'[d] = ptr[d]
    BY <1>0, KeysUsed
    DEF Insert, Return, IInv, TypeOK, BusyHasPacket, Handled, Keys
<1>2. PICK s \in Elems :
        /\ elem[s].key = NoKey
        /\ \A t \in Elems \ {s} : elem'[t] = elem[t]
        /\ IF Present(elem, k) THEN elem'[s].key = NoKey ELSE elem'[s] = NewEntry(c)
    BY <1>0, InsertSteady
<1>3. NewEntry(c).key = k /\ NewEntry(c).count = 1 /\ NewEntry(c).bytes = size
    BY <1>0 DEF NewEntry
<1>4. Present(elem, k) <=> \E t \in Elems : elem[t].key = k
    BY DEF Present, Holding, IInv, TypeOK
<1>5. /\ \A j : j # k => Num("insert", j)' = Num("insert", j)
      /\ Num("insert", k)' = Num("insert", k) - 1
      /\ \A j : Num("count", j)' = Num("count", j) /\ Num("bytes", j)' = Num("bytes", j)
    <2>1. \A j : /\ Is(c, "insert", j) = (IF j = k THEN 1 ELSE 0) /\ Is(c, "insert", j)' = 0
                 /\ Is(c, "count", j) = 0 /\ Is(c, "count", j)' = 0
                 /\ Is(c, "bytes", j) = 0 /\ Is(c, "bytes", j)' = 0
        BY <1>0, <1>1 DEF Is
    <2> QED
        BY <1>1, <2>1, NumMoves, NumTyped
<1>6. PointersHold'
    <2> SUFFICES ASSUME NEW d \in CPUs, pc'[d] \in {"count", "bytes"}
                 PROVE  elem'[ptr'[d]].key = Handled(d)'
        BY DEF PointersHold
    <2>1. d # c
        BY <1>1
    <2>2. /\ ptr'[d] = ptr[d] /\ ptr[d] \in Elems /\ elem[ptr[d]].key = Handled(d)
          /\ Handled(d)' = Handled(d) /\ Handled(d) \in Keys
        BY <1>1, <2>1 DEF PointersHold, Handled, IInv, TypeOK, BusyHasPacket, Keys
    <2>3. ptr[d] # s
        BY <1>2, <2>2, KeysUsed
    <2> QED
        BY <1>2, <2>2, <2>3
<1>7. AbsentSeen'
    <2> SUFFICES ASSUME NEW j \in Keys, \A t \in Elems : elem'[t].key # j
                 PROVE  seen'[j] = Num("insert", j)'
        BY DEF AbsentSeen
    <2>1. \A t \in Elems : elem[t].key # j
        BY <1>2, KeysUsed
    <2>2. j # k
        BY <1>2, <1>3, <1>4, <2>1
    <2> QED
        BY <1>1, <1>5, <2>1, <2>2 DEF AbsentSeen
<1>8. ASSUME NEW t \in Elems, NEW j \in Keys, elem'[t].key = j
      PROVE  Short(t, j)' /\ Lag(t, j)'
    <2>0. /\ seen[j] \in Nat /\ Cardinality(CPUs) \in Nat
          /\ Num("insert", j) \in Nat /\ Num("count", j) \in Nat /\ Num("bytes", j) \in Nat
        BY <1>1, NumTyped
    <2>1. CASE t # s
        <3>1. elem'[t] = elem[t] /\ elem[t].key = j
            BY <1>2, <1>8, <2>1
        <3>2. Short(t, j) /\ Lag(t, j) /\ elem[t].count \in Nat
            BY <3>1 DEF Entries, IInv, TypeOK, Entry
        <3>3. Lag(t, j)'
            BY <1>5, <3>1, <3>2 DEF Lag, OneSize
        <3>4. Num("insert", j)' = Num("insert", j) \/ Num("insert", j)' = Num("insert", j) - 1
            BY <1>5
        <3>5. Short(t, j)'
            BY <1>1, <1>5, <2>0, <3>1, <3>2, <3>4 DEF Short
        <3> QED
            BY <3>3, <3>5
    <2>2. CASE t = s
        <3>1. ~Present(elem, k) /\ elem'[s] = NewEntry(c) /\ j = k
            BY <1>2, <1>3, <1>8, <2>2, KeysUsed
        <3>2. seen[k] = Num("insert", k)
            BY <1>1, <1>4, <3>1 DEF AbsentSeen
        <3>3. Num("count", k) = 0 /\ Num("bytes", k) = 0
            <4>1. Doing("count", k) = {} /\ Doing("bytes", k) = {}
                BY <1>4, <3>1 DEF Doing, PointersHold, IInv, TypeOK
            <4> QED
                BY <4>1, FS_EmptySet, Zenon DEF Num
        <3>4. Short(t, j)'
            <4>1. Num("insert", k) <= Cardinality(CPUs)
                BY NumTyped
            <4> QED
                BY <1>1, <1>3, <1>5, <2>0, <2>2, <3>1, <3>2, <3>3, <4>1 DEF Short
        <3>5. Lag(t, j)'
            <4> SUFFICES ASSUME OneSize(k), NEW p \in Packets, Key(p) = k
                         PROVE  elem'[s].bytes = p.size * (elem'[s].count - Num("bytes", k)')
                BY <2>2, <3>1 DEF Lag, OneSize
            <4>1. p.size = size
                BY <1>0, <1>1 DEF OneSize
            <4>2. elem'[s].bytes = size /\ elem'[s].count - Num("bytes", k)' = 1
                BY <1>3, <1>5, <3>1, <3>3
            <4>3. size * 1 = size
                BY <1>1
            <4> QED
                BY <4>1, <4>2, <4>3
        <3> QED
            BY <3>4, <3>5
    <2> QED
        BY <2>1, <2>2
<1> QED
    BY <1>6, <1>7, <1>8 DEF Entries

LEMMA SteadyStep == IInv /\ Steady /\ [CountNext \/ AllSeen]_cvars => Steady'
<1> SUFFICES ASSUME IInv, Steady, [CountNext \/ AllSeen]_cvars, ~evicted'
             PROVE  PointersHold' /\ AbsentSeen' /\ Entries'
    BY DEF Steady
<1>1. ~evicted
    BY DEF CountNext, Cpu, Receive, AddCount, AddBytes, Insert, AllSeen, cvars
<1>2. PointersHold /\ AbsentSeen /\ Entries
    BY <1>1 DEF Steady
<1>3. ASSUME NEW c \in CPUs, NEW p \in Packets, Receive(c, p)
      PROVE  PointersHold' /\ AbsentSeen' /\ Entries'
    BY <1>2, <1>3, SteadyReceive
<1>4. ASSUME NEW c \in CPUs, AddCount(c) \/ AddBytes(c)
      PROVE  PointersHold' /\ AbsentSeen' /\ Entries'
    BY <1>2, <1>4, SteadyAdds
<1>5. ASSUME NEW c \in CPUs, Insert(c)
      PROVE  PointersHold' /\ AbsentSeen' /\ Entries'
    BY <1>2, <1>5, SteadyInsert
<1>6. CASE UNCHANGED cvars
    <2>1. /\ PointersHold' <=> PointersHold
          /\ \A place, k : Num(place, k)' = Num(place, k)
        BY <1>6 DEF cvars, PointersHold, Handled, Num, Doing
    <2>2. elem' = elem /\ seen' = seen
        BY <1>6 DEF cvars
    <2>3. AbsentSeen'
        BY <1>2, <2>1, <2>2 DEF AbsentSeen
    <2>4. Entries'
        BY <1>2, <2>1, <2>2 DEF Entries, Short, Lag, OneSize
    <2> QED
        BY <1>2, <2>1, <2>3, <2>4
<1> QED
    BY <1>3, <1>4, <1>5, <1>6 DEF CountNext, Cpu, AllSeen

LEMMA SteadyInit == Init => Steady
<1> SUFFICES ASSUME Init PROVE PointersHold /\ AbsentSeen /\ Entries
    BY DEF Steady
<1>1. PointersHold
    BY DEF Init, PointersHold
<1>2. ASSUME NEW k PROVE Num("insert", k) = 0
    <2>1. Doing("insert", k) = {}
        BY DEF Init, Doing
    <2> QED
        BY <2>1, FS_EmptySet, Zenon DEF Num
<1>3. AbsentSeen
    BY <1>2 DEF Init, AbsentSeen
<1>4. Entries
    BY KeysUsed DEF Init, Entries, Unused
<1> QED
    BY <1>1, <1>3, <1>4

\* While nothing is evicted, an entry misses at most one packet for every other
\* CPU: those whose insertion came second, and those still in progress.
THEOREM UndercountAlwaysBounded == Spec => []UndercountBounded
<1>1. IInv /\ Steady => UndercountBounded
    <2> SUFFICES ASSUME IInv, Steady, ~evicted, NEW s \in Elems, elem[s].key # NoKey
                 PROVE  LET k == elem[s].key
                            short == seen[k] - elem[s].count - Cardinality(Doing("count", k))
                        IN  /\ short >= Cardinality(Doing("insert", k))
                            /\ short <= Cardinality(CPUs) - 1
        BY DEF UndercountBounded
    <2>1. elem[s].key \in Keys
        BY DEF IInv, TypeOK, Entry
    <2>2. Short(s, elem[s].key)
        BY <2>1 DEF Steady, Entries
    <2> QED
        BY <2>2 DEF Short, Num
<1> QED
    BY <1>1, InitIInv, NextIInv, SteadyInit, SteadyStep, PTL DEF Spec

\* While nothing is evicted, the bytes of an entry whose packets have one size are
\* those of its packets, but for the CPUs between the two adds.
THEOREM BytesAlwaysLag == Spec => []BytesLag
<1>1. IInv /\ Steady => BytesLag
    <2> SUFFICES ASSUME IInv, Steady, ~evicted, NEW s \in Elems, elem[s].key # NoKey,
                        OneSize(elem[s].key), NEW p \in Packets, Key(p) = elem[s].key
                 PROVE  elem[s].bytes
                           = p.size * (elem[s].count - Cardinality(Doing("bytes", elem[s].key)))
        BY DEF BytesLag, OneSize
    <2>1. elem[s].key \in Keys
        BY DEF IInv, TypeOK, Entry
    <2>2. Lag(s, elem[s].key)
        BY <2>1 DEF Steady, Entries
    <2> QED
        BY <2>2 DEF Lag, Num
<1> QED
    BY <1>1, InitIInv, NextIInv, SteadyInit, SteadyStep, PTL DEF Spec
===============================================================================
