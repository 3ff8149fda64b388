--------------------------- MODULE FlowTable_proofs ---------------------------
(***************************************************************************)
(* What TLAPS proves of the flow features for any number of CPUs, any      *)
(* packets, any map size and any evictions: every variable keeps its type, *)
(* no mean is computed from a count of 0, the features of a flow steered   *)
(* to one CPU are exact, and an entry at rest misses no more than one      *)
(* packet per CPU but one.                                                 *)
(*                                                                         *)
(* DivisorPositive needs two other facts: an element that was ever filled  *)
(* has a positive count, also after it was given to another flow, and no   *)
(* count exceeds the packets received, so that it does not wrap to 0       *)
(* (IInv).                                                                 *)
(*                                                                         *)
(* The other two hold while nothing is evicted.  HInv says where the       *)
(* packets of a flow are: its history ascends in time, a flow has one      *)
(* element, and the pointer of a CPU leads to the element of its own       *)
(* packet.  XInv then relates, for a flow steered to one CPU, the element  *)
(* to the history, by the place of that CPU.  SInv does it for the flows   *)
(* that come to several: a set of counted packets, and a packet for every  *)
(* CPU at work, explain the element.                                       *)
(***************************************************************************)
EXTENDS FlowTable, SumTheorems

-------------------------------------------------------------------------------
(* Lemmas on the operators. *)

\* The key of a packet is a number other than NoKey.
LEMMA KeyUsed ==
    ASSUME NEW p \in Packets
    PROVE  /\ flow_key(p) \in Keys /\ flow_key(p) \in Nat \ {0}
           /\ p.size \in 0..MaxSize /\ p.size \in 0..(U64 - 1)
<1>1. /\ p.addrs \in Nat \ {0} /\ p.ports \in 0..99 /\ p.size \in 0..MaxSize
    BY PacketsAssumption
<1>2. Ports(p) \in 0..99
    BY <1>1 DEF Ports
<1>3. MaxSize \in Nat /\ MaxSize < U64 /\ U64 \in Nat
    BY NumbersAssumption
<1> QED
    BY <1>1, <1>2, <1>3 DEF flow_key, Keys

\* A remainder is below its modulus, and a quotient is a natural number.
LEMMA Remainder == ASSUME NEW a \in Int, NEW n \in Nat \ {0} PROVE a % n \in 0..(n - 1) /\ a % n \in Nat
    OBVIOUS

LEMMA Quotient == ASSUME NEW a \in Nat, NEW n \in Nat \ {0} PROVE a \div n \in Nat
    OBVIOUS

\* Every feature fits 32 bits.
LEMMA FeaturesTyped ==
    ASSUME NEW k \in Keys, NEW bytes \in Nat, NEW total \in Nat, NEW n \in 0..(U32 - 1),
           NEW iat \in Nat
    PROVE  FeaturesOf(k, bytes, total, n, iat) \in FlowFeatures
<1>1. U32 \in Nat \ {0, 1}
    BY NumbersAssumption
<1>2. \A a \in Nat : Mean(a, n) \in 0..(U32 - 1)
    <2> SUFFICES ASSUME NEW a \in Nat, n # 0 PROVE (a \div n) % U32 \in 0..(U32 - 1)
        BY <1>1 DEF Mean
    <2>1. a \div n \in Int
        OBVIOUS
    <2> QED
        BY <1>1, <2>1, Remainder
<1>3. bytes % U32 \in 0..(U32 - 1) /\ total % U32 \in 0..(U32 - 1)
    BY <1>1, Remainder
<1>4. (IF iat < U32 THEN iat ELSE U32 - 1) \in 0..(U32 - 1)
    BY <1>1
<1> QED
    BY <1>2, <1>3, <1>4 DEF FeaturesOf, FlowFeatures

\* Inserting a flow keeps every element typed, and changes only a free one.
LEMMA InsertionTyped ==
    ASSUME NEW map \in [Elems -> FlowInfo], NEW victims \in SUBSET Elems,
           NEW new \in FlowInfo, NEW s \in Holding(Evict(map, victims), NoKey),
           NEW after, after = InsertAt(Evict(map, victims), s, new)
    PROVE  /\ s \in Elems
           /\ after \in [Elems -> FlowInfo]
           /\ after[s].count = new.count
           /\ \A t \in Elems : t # s => after[t].count = map[t].count
           /\ \A t \in Elems : t # s /\ after[t].key # NoKey => map[t].key # NoKey
<1> DEFINE left == Evict(map, victims)
<1>1. \A e \in FlowInfo : Unkeyed(e) \in FlowInfo /\ Unkeyed(e).key = NoKey
                          /\ Unkeyed(e).count = e.count
    BY DEF Unkeyed, FlowInfo
<1>2. \A t \in Elems : map[t] \in FlowInfo
    OBVIOUS
<1>3. /\ left \in [Elems -> FlowInfo]
      /\ \A t \in Elems : left[t].count = map[t].count
      /\ \A t \in Elems : left[t].key # NoKey => map[t].key # NoKey
    BY <1>1, <1>2 DEF Evict
<1>4. s \in Elems
    BY <1>3 DEF Holding
<1>5. after = [left EXCEPT ![s] = IF Present(left, new.key) THEN Unkeyed(new) ELSE new]
    BY DEF InsertAt
<1>6. (IF Present(left, new.key) THEN Unkeyed(new) ELSE new) \in FlowInfo
    BY <1>1
<1>7. after \in [Elems -> FlowInfo] /\ after[s].count = new.count
    BY <1>1, <1>3, <1>4, <1>5, <1>6
<1>8. \A t \in Elems : t # s => after[t] = left[t]
    BY <1>3, <1>5
<1> QED
    BY <1>3, <1>4, <1>7, <1>8

-------------------------------------------------------------------------------
(* The inductive invariant. *)

\* A CPU between two steps holds a packet and its time.
BusyHasPacket == \A c \in CPUs : pc[c] # "idle" => job[c].pkt \in Packets

\* An element that holds a flow, or that a CPU's pointer leads to, was filled.
FilledPositive ==
    /\ \A s \in Elems : flow[s].key # NoKey => flow[s].count > 0
    /\ \A c \in CPUs : pc[c] \in {"elapsed", "seen", "count", "bytes", "total", "load"}
                       => flow[fi[c]].count > 0

\* Every packet is counted in one element at most, and not before "count".
Uncounted == {c \in CPUs : pc[c] \in {"lookup", "elapsed", "seen", "count", "insert"}}
CountsReceived == \A s \in Elems : flow[s].count + Cardinality(Uncounted) <= received

IInv == TypeOK /\ BusyHasPacket /\ FilledPositive /\ CountsReceived /\ DivisorPositive

LEMMA InitIInv == Init => IInv
<1> SUFFICES ASSUME Init PROVE IInv
    OBVIOUS
<1> USE DEF Init
<1>1. 1 \in Elems /\ U32 \in Nat \ {0, 1} /\ U64 \in Nat \ {0} /\ MaxTime \in Nat /\ MaxPackets \in Nat
    BY NumbersAssumption, BoundAssumption DEF Elems
<1>2. Unused \in FlowInfo
    BY <1>1 DEF Unused, FlowInfo
<1>3. Idle \in [pkt : Packets \cup {NoPacket}, at : 0..MaxTime]
    BY <1>1 DEF Idle
<1>4. NothingLoaded \in [Fields -> Nat \cup {NotRead}]
    BY DEF NothingLoaded, NotRead
<1>5. TypeOK
    <2>1. pc \in [CPUs -> Steps] /\ job \in [CPUs -> [pkt : Packets \cup {NoPacket}, at : 0..MaxTime]]
        BY <1>3 DEF Steps
    <2>2. loaded \in [CPUs -> [Fields -> Nat \cup {NotRead}]] /\ \A c \in CPUs : loaded[c].count < U32
        BY <1>1, <1>4 DEF NothingLoaded, NotRead, Fields
    <2>3. flow \in [Elems -> FlowInfo] /\ fi \in [CPUs -> Elems] /\ iat_ms \in [CPUs -> Nat]
        BY <1>1, <1>2
    <2>4. now \in 0..MaxTime /\ received \in 0..MaxPackets
        BY <1>1
    <2> QED
        BY <2>1, <2>2, <2>3, <2>4 DEF TypeOK
<1>6. Uncounted = {}
    <2>1. \A c \in CPUs : pc[c] = "idle"
        OBVIOUS
    <2> QED
        BY <2>1 DEF Uncounted
<1>7. CountsReceived
    <2>1. Cardinality(Uncounted) = 0
        BY <1>6, FS_EmptySet, Zenon
    <2>2. \A s \in Elems : flow[s].count = 0
        BY DEF Unused
    <2> QED
        BY <2>1, <2>2 DEF CountsReceived
<1>8. DivisorPositive
    BY DEF DivisorPositive, NothingLoaded, NotRead, Fields
<1> QED
    BY <1>5, <1>7, <1>8 DEF IInv, BusyHasPacket, FilledPositive, Unused

\* The counts are below the width of the field, and the sets of CPUs are finite.
LEMMA CountsBelowU32 ==
    ASSUME IInv
    PROVE  /\ U32 \in Nat \ {0, 1} /\ received \in Nat /\ received < U32
           /\ Cardinality(Uncounted) \in Nat /\ IsFiniteSet(Uncounted)
           /\ Cardinality(Uncounted) <= received
           /\ \A s \in Elems : flow[s] \in FlowInfo /\ flow[s].count \in Nat
<1>1. IsFiniteSet(Uncounted) /\ Cardinality(Uncounted) \in Nat
    BY NumbersAssumption, FS_Subset, FS_CardinalityType DEF Uncounted
<1>2. /\ U32 \in Nat \ {0, 1} /\ received \in Nat /\ received < U32
    BY NumbersAssumption, BoundAssumption DEF IInv, TypeOK
<1>3. \A s \in Elems : flow[s] \in FlowInfo /\ flow[s].count \in Nat
    BY <1>2 DEF IInv, TypeOK, FlowInfo
<1>4. 1 \in Elems
    BY NumbersAssumption DEF Elems
<1>5. Cardinality(Uncounted) <= received
    BY <1>1, <1>2, <1>3, <1>4 DEF IInv, CountsReceived
<1> QED
    BY <1>1, <1>2, <1>3, <1>5
-------------------------------------------------------------------------------
(* The steps that leave the counts alone. *)

\* Where they do, and no CPU passes "count", nothing changes for the counters.
LEMMA CountsKept ==
    ASSUME IInv, received' = received, Uncounted' = Uncounted,
           \A s \in Elems : flow'[s].count = flow[s].count
    PROVE  CountsReceived'
BY DEF IInv, CountsReceived

LEMMA TickIInv == ASSUME IInv, Tick PROVE IInv'
<1>1. now' \in 0..MaxTime
    BY DEF Tick, IInv, TypeOK
<1>2. UNCHANGED <<flow, pc, job, fi, iat_ms, loaded, features, received, evicted>>
    BY DEF Tick
<1> QED
    BY <1>1, <1>2 DEF IInv, TypeOK, BusyHasPacket, FilledPositive, CountsReceived, Uncounted,
                      DivisorPositive

LEMMA ReceiveIInv ==
    ASSUME IInv, NEW c \in CPUs, NEW p \in Packets, Receive(c, p)
    PROVE  IInv'
<1>1. /\ pc[c] = "idle" /\ received < MaxPackets /\ received' = received + 1
      /\ job' = [job EXCEPT ![c] = [pkt |-> p, at |-> now]]
      /\ pc' = [pc EXCEPT ![c] = "lookup"]
      /\ features' = [features EXCEPT ![c] = NoFeatures]
      /\ UNCHANGED <<flow, now, fi, iat_ms, loaded, evicted>>
    BY DEF Receive
<1>2. received \in Nat /\ received' \in 0..MaxPackets
    BY <1>1, BoundAssumption DEF IInv, TypeOK
<1>3. [pkt |-> p, at |-> now] \in [pkt : Packets \cup {NoPacket}, at : 0..MaxTime]
    BY DEF IInv, TypeOK
<1>4. TypeOK'
    BY <1>1, <1>2, <1>3 DEF IInv, TypeOK, Steps
<1>5. BusyHasPacket'
    BY <1>1 DEF IInv, TypeOK, BusyHasPacket
<1>6. FilledPositive'
    BY <1>1 DEF IInv, TypeOK, FilledPositive
<1>7. CountsReceived'
    <2>1. Uncounted' = Uncounted \cup {c} /\ c \notin Uncounted
        BY <1>1 DEF Uncounted, IInv, TypeOK
    <2>2. Cardinality(Uncounted') = Cardinality(Uncounted) + 1
        BY <2>1, CountsBelowU32, FS_AddElement
    <2> QED
        BY <1>1, <2>2, CountsBelowU32 DEF CountsReceived, IInv
<1>8. DivisorPositive'
    BY <1>1 DEF IInv, DivisorPositive
<1> QED
    BY <1>4, <1>5, <1>6, <1>7, <1>8 DEF IInv

LEMMA LookupIInv == ASSUME IInv, NEW c \in CPUs, Lookup(c) PROVE IInv'
<1>1. /\ pc[c] = "lookup"
      /\ \/ /\ pc' = [pc EXCEPT ![c] = "elapsed"]
            /\ \E s \in Holding(flow, Key(c)) : fi' = [fi EXCEPT ![c] = s]
         \/ pc' = [pc EXCEPT ![c] = "insert"] /\ fi' = fi
      /\ UNCHANGED <<flow, now, job, iat_ms, loaded, features, received, evicted>>
    BY DEF Lookup, GoTo
<1>2. job[c].pkt \in Packets
    BY <1>1 DEF IInv, BusyHasPacket
<1>3. \A s \in Holding(flow, Key(c)) : s \in Elems /\ flow[s].count > 0
    BY <1>2, KeyUsed DEF Holding, Key, NoKey, IInv, TypeOK, FilledPositive
<1>4. TypeOK'
    BY <1>1, <1>3 DEF IInv, TypeOK, Steps
<1>5. BusyHasPacket'
    BY <1>1, <1>2 DEF IInv, TypeOK, BusyHasPacket
<1>6. FilledPositive'
    BY <1>1, <1>3 DEF IInv, TypeOK, FilledPositive
<1>7. Uncounted' = Uncounted
    BY <1>1 DEF Uncounted, IInv, TypeOK
<1>8. CountsReceived'
    BY <1>1, <1>7, CountsKept
<1>9. DivisorPositive'
    BY <1>1 DEF IInv, DivisorPositive
<1> QED
    BY <1>4, <1>5, <1>6, <1>8, <1>9 DEF IInv

LEMMA ElapsedIInv == ASSUME IInv, NEW c \in CPUs, Elapsed(c) PROVE IInv'
<1> DEFINE ms == ((job[c].at - flow[fi[c]].last_seen) % U64) \div NsPerMs
<1>1. /\ pc[c] = "elapsed" /\ pc' = [pc EXCEPT ![c] = "seen"]
      /\ iat_ms' = [iat_ms EXCEPT ![c] = ms]
      /\ UNCHANGED <<flow, now, job, fi, loaded, features, received, evicted>>
    BY DEF Elapsed, GoTo
<1>2. ms \in Nat
    <2>1. job[c].at \in Int /\ flow[fi[c]].last_seen \in Int
        BY DEF IInv, TypeOK, FlowInfo
    <2>2. U64 \in Nat \ {0} /\ NsPerMs \in Nat \ {0}
        BY NumbersAssumption
    <2>3. job[c].at - flow[fi[c]].last_seen \in Int
        BY <2>1
    <2>4. ((job[c].at - flow[fi[c]].last_seen) % U64) \in Nat
        BY <2>2, <2>3, Remainder, Zenon
    <2> QED
        BY <2>2, <2>4, Quotient, Zenon
<1> HIDE DEF ms
<1>3. TypeOK'
    BY <1>1, <1>2 DEF IInv, TypeOK, Steps
<1>4. BusyHasPacket' /\ FilledPositive' /\ DivisorPositive'
    BY <1>1 DEF IInv, TypeOK, BusyHasPacket, FilledPositive, DivisorPositive
<1>5. Uncounted' = Uncounted
    BY <1>1 DEF Uncounted, IInv, TypeOK
<1>6. CountsReceived'
    BY <1>1, <1>5, CountsKept
<1> QED
    BY <1>3, <1>4, <1>6 DEF IInv

LEMMA LoadIInv == ASSUME IInv, NEW c \in CPUs, NEW f \in Fields, Load(c, f) PROVE IInv'
<1>1. /\ pc[c] = "load"
      /\ loaded' = [loaded EXCEPT ![c][f] = flow[fi[c]][f]]
      /\ UNCHANGED <<flow, now, pc, job, fi, iat_ms, features, received, evicted>>
    BY DEF Load
<1>2. fi[c] \in Elems /\ flow[fi[c]] \in FlowInfo /\ flow[fi[c]].count > 0
    BY <1>1 DEF IInv, TypeOK, FilledPositive
<1>3. /\ flow[fi[c]][f] \in Nat
      /\ f = "count" => flow[fi[c]][f] # 0 /\ flow[fi[c]][f] < U32
    BY <1>2, NumbersAssumption DEF FlowInfo, Fields
<1>4. TypeOK'
    <2>1. "count" \in Fields
        BY DEF Fields
    <2>2. \A d \in CPUs : loaded'[d]["count"] < U32
        BY <1>1, <1>3, <2>1 DEF IInv, TypeOK
    <2>3. loaded' \in [CPUs -> [Fields -> Nat \cup {NotRead}]]
        BY <1>1, <1>3 DEF IInv, TypeOK
    <2> QED
        BY <1>1, <2>2, <2>3 DEF IInv, TypeOK
<1>5. DivisorPositive'
    <2> SUFFICES ASSUME NEW d \in CPUs PROVE loaded'[d]["count"] # 0
        BY DEF DivisorPositive
    <2>1. "count" \in Fields
        BY DEF Fields
    <2>2. loaded[d]["count"] # 0
        BY DEF IInv, DivisorPositive
    <2> QED
        BY <1>1, <1>3, <2>1, <2>2 DEF IInv, TypeOK
<1>6. BusyHasPacket' /\ FilledPositive'
    BY <1>1 DEF IInv, BusyHasPacket, FilledPositive
<1>7. CountsReceived'
    BY <1>1, CountsKept DEF Uncounted
<1> QED
    BY <1>4, <1>5, <1>6, <1>7 DEF IInv

LEMMA SeenIInv == ASSUME IInv, NEW c \in CPUs, Seen(c) PROVE IInv'
<1> DEFINE s == fi[c]
           e == [flow[s] EXCEPT !.last_seen = job[c].at]
<1>1. /\ pc[c] = "seen" /\ pc' = [pc EXCEPT ![c] = "count"]
      /\ flow' = [flow EXCEPT ![s] = e]
      /\ UNCHANGED <<now, job, fi, iat_ms, loaded, features, received, evicted>>
    BY DEF Seen, GoTo
<1>2. s \in Elems /\ flow[s] \in FlowInfo /\ job[c].at \in 0..MaxTime
    BY DEF IInv, TypeOK
<1>3. e \in FlowInfo /\ e.key = flow[s].key /\ e.count = flow[s].count
    BY <1>2 DEF FlowInfo
<1> HIDE DEF e
<1>4. /\ flow' \in [Elems -> FlowInfo]
      /\ \A t \in Elems : flow'[t].key = flow[t].key /\ flow'[t].count = flow[t].count
    BY <1>1, <1>2, <1>3 DEF IInv, TypeOK
<1>5. TypeOK'
    BY <1>1, <1>4 DEF IInv, TypeOK, Steps
<1>6. BusyHasPacket' /\ DivisorPositive'
    BY <1>1 DEF IInv, TypeOK, BusyHasPacket, DivisorPositive
<1>7. FilledPositive'
    BY <1>1, <1>4 DEF IInv, TypeOK, FilledPositive
<1>8. Uncounted' = Uncounted
    BY <1>1 DEF Uncounted, IInv, TypeOK
<1>9. CountsReceived'
    BY <1>1, <1>4, <1>8, CountsKept
<1> QED
    BY <1>5, <1>6, <1>7, <1>9 DEF IInv

-------------------------------------------------------------------------------
(* The steps that count. *)

\* Where one more packet is counted in one element, the CPU that counts it leaves
\* those that have not.
LEMMA CountsMoved ==
    ASSUME IInv, NEW c \in Uncounted, NEW s \in Elems,
           received' = received, Uncounted' = Uncounted \ {c},
           \A t \in Elems : t # s => flow'[t].count = flow[t].count,
           flow'[s].count \in {1, flow[s].count + 1}
    PROVE  CountsReceived'
<1>1. Cardinality(Uncounted') = Cardinality(Uncounted) - 1
    BY CountsBelowU32, FS_RemoveElement
<1> SUFFICES ASSUME NEW t \in Elems
             PROVE  flow'[t].count + Cardinality(Uncounted') <= received'
    BY DEF CountsReceived
<1>2. flow[t].count + Cardinality(Uncounted) <= received
    BY DEF IInv, CountsReceived
<1>3. CASE t = s
    BY <1>1, <1>2, <1>3, CountsBelowU32
<1>4. CASE t # s
    BY <1>1, <1>2, <1>4, CountsBelowU32
<1> QED
    BY <1>3, <1>4

\* The other two adds change neither keys nor counts.
LEMMA AddIInv == ASSUME IInv, NEW c \in CPUs, Add(c) PROVE IInv'
<1> DEFINE s == fi[c]
<1>1. s \in Elems /\ flow[s] \in FlowInfo
    BY DEF IInv, TypeOK
<1>2. UNCHANGED <<now, job, fi, iat_ms, loaded, features, received, evicted>>
    BY DEF Add
<1>3. pc[c] \in {"count", "bytes", "total"} /\ \E to \in {"bytes", "total", "load"} :
          pc' = [pc EXCEPT ![c] = to]
    BY DEF Add, GoTo
<1>4. BusyHasPacket' /\ DivisorPositive'
    BY <1>2, <1>3 DEF IInv, TypeOK, BusyHasPacket, DivisorPositive
<1>5. job[c].pkt \in Packets
    BY <1>3 DEF IInv, BusyHasPacket
<1>6. CASE GoTo(c, "count", "bytes") /\ flow' = [flow EXCEPT ![fi[c]].count = (@ + 1) % U32]
    <2> DEFINE e == [flow[s] EXCEPT !.count = (flow[s].count + 1) % U32]
    <2>1. c \in Uncounted /\ Uncounted' = Uncounted \ {c}
        BY <1>6 DEF GoTo, Uncounted, IInv, TypeOK
    <2>2. flow[s].count + 1 < U32
        <3>1. Cardinality(Uncounted) # 0
            BY <2>1, CountsBelowU32, FS_EmptySet
        <3> QED
            BY <1>1, <3>1, CountsBelowU32 DEF IInv, CountsReceived
    <2>3. (flow[s].count + 1) % U32 = flow[s].count + 1
        BY <1>1, <2>2, CountsBelowU32
    <2>4. /\ e \in FlowInfo /\ e.key = flow[s].key
          /\ e.count = flow[s].count + 1 /\ e.count > 0
        BY <1>1, <2>2, <2>3, CountsBelowU32 DEF FlowInfo
    <2>5. flow' = [flow EXCEPT ![s] = e]
        BY <1>6
    <2> HIDE DEF e
    <2>6. /\ flow' \in [Elems -> FlowInfo]
          /\ \A t \in Elems : flow'[t].key = flow[t].key
          /\ \A t \in Elems : t # s => flow'[t].count = flow[t].count
          /\ flow'[s].count = flow[s].count + 1 /\ flow'[s].count > 0
        BY <1>1, <2>4, <2>5 DEF IInv, TypeOK
    <2>7. CountsReceived'
        BY <1>1, <1>2, <2>1, <2>6, CountsMoved
    <2>8. TypeOK'
        BY <1>2, <1>3, <2>6 DEF IInv, TypeOK, Steps
    <2>9. FilledPositive'
        BY <1>2, <1>6, <2>6 DEF GoTo, IInv, TypeOK, FilledPositive
    <2> QED
        BY <1>4, <2>7, <2>8, <2>9 DEF IInv
<1>7. CASE \/ GoTo(c, "bytes", "total") /\ flow' = [flow EXCEPT ![fi[c]].tot_bytes = (@ + Size(c)) % U64]
           \/ GoTo(c, "total", "load") /\ flow' = [flow EXCEPT ![fi[c]].tot_IAT = (@ + iat_ms[c]) % U64]
    <2>1. PICK e \in FlowInfo : /\ e.key = flow[s].key /\ e.count = flow[s].count
                                /\ flow' = [flow EXCEPT ![s] = e]
        <3>1. U64 \in Nat \ {0} /\ Size(c) \in Int /\ iat_ms[c] \in Int
              /\ flow[s].tot_bytes \in Int /\ flow[s].tot_IAT \in Int
            BY <1>1, <1>5, KeyUsed, NumbersAssumption DEF Size, FlowInfo, IInv, TypeOK
        <3>2. /\ (flow[s].tot_bytes + Size(c)) % U64 \in 0..(U64 - 1)
              /\ (flow[s].tot_IAT + iat_ms[c]) % U64 \in 0..(U64 - 1)
            <4>1. flow[s].tot_bytes + Size(c) \in Int /\ flow[s].tot_IAT + iat_ms[c] \in Int
                BY <3>1
            <4> QED
                BY <3>1, <4>1, Remainder, Zenon
        <3>3. CASE flow' = [flow EXCEPT ![fi[c]].tot_bytes = (@ + Size(c)) % U64]
            <4> DEFINE e == [flow[s] EXCEPT !.tot_bytes = (flow[s].tot_bytes + Size(c)) % U64]
            <4>1. e \in FlowInfo /\ e.key = flow[s].key /\ e.count = flow[s].count
                BY <1>1, <3>2 DEF FlowInfo
            <4>2. flow' = [flow EXCEPT ![s] = e]
                BY <3>3
            <4> QED
                BY <4>1, <4>2
        <3>4. CASE flow' = [flow EXCEPT ![fi[c]].tot_IAT = (@ + iat_ms[c]) % U64]
            <4> DEFINE e == [flow[s] EXCEPT !.tot_IAT = (flow[s].tot_IAT + iat_ms[c]) % U64]
            <4>1. e \in FlowInfo /\ e.key = flow[s].key /\ e.count = flow[s].count
                BY <1>1, <3>2 DEF FlowInfo
            <4>2. flow' = [flow EXCEPT ![s] = e]
                BY <3>4
            <4> QED
                BY <4>1, <4>2
        <3> QED
            BY <1>7, <3>3, <3>4
    <2>2. /\ flow' \in [Elems -> FlowInfo]
          /\ \A t \in Elems : flow'[t].key = flow[t].key /\ flow'[t].count = flow[t].count
        BY <1>1, <2>1 DEF IInv, TypeOK
    <2>3. Uncounted' = Uncounted
        BY <1>7 DEF GoTo, Uncounted, IInv, TypeOK
    <2>4. CountsReceived'
        BY <1>2, <2>2, <2>3, CountsKept
    <2>5. TypeOK'
        BY <1>2, <1>3, <2>2 DEF IInv, TypeOK, Steps
    <2>6. FilledPositive'
        BY <1>2, <1>7, <2>2 DEF GoTo, IInv, TypeOK, FilledPositive
    <2> QED
        BY <1>4, <2>4, <2>5, <2>6 DEF IInv
<1> QED
    BY <1>6, <1>7 DEF Add

-------------------------------------------------------------------------------
(* The steps that end an invocation. *)

\* An idle CPU again; its step from a place that is counted or not is added below.
LEMMA ReturnTyped ==
    ASSUME IInv, NEW c \in CPUs, Return(c), pc' = [pc EXCEPT ![c] = "idle"]
    PROVE  /\ job' \in [CPUs -> [pkt : Packets \cup {NoPacket}, at : 0..MaxTime]]
           /\ fi' \in [CPUs -> Elems] /\ iat_ms' \in [CPUs -> Nat]
           /\ loaded' \in [CPUs -> [Fields -> Nat \cup {NotRead}]]
           /\ \A d \in CPUs : loaded'[d].count < U32
           /\ pc' \in [CPUs -> Steps]
           /\ now' = now /\ received' = received
           /\ BusyHasPacket' /\ DivisorPositive'
<1>1. 1 \in Elems /\ MaxTime \in Nat
    BY NumbersAssumption DEF Elems
<1>2. Idle \in [pkt : Packets \cup {NoPacket}, at : 0..MaxTime]
    BY <1>1 DEF Idle
<1>3. NothingLoaded \in [Fields -> Nat \cup {NotRead}]
    BY DEF NothingLoaded, NotRead
<1>4. /\ job' = [job EXCEPT ![c] = Idle] /\ fi' = [fi EXCEPT ![c] = 1]
      /\ iat_ms' = [iat_ms EXCEPT ![c] = 0] /\ loaded' = [loaded EXCEPT ![c] = NothingLoaded]
      /\ now' = now /\ received' = received
    BY DEF Return
<1>5. /\ job' \in [CPUs -> [pkt : Packets \cup {NoPacket}, at : 0..MaxTime]]
      /\ fi' \in [CPUs -> Elems] /\ iat_ms' \in [CPUs -> Nat]
    BY <1>1, <1>2, <1>4 DEF IInv, TypeOK
<1>6. loaded' \in [CPUs -> [Fields -> Nat \cup {NotRead}]] /\ \A d \in CPUs : loaded'[d].count < U32
    <2>1. NothingLoaded["count"] < U32
        BY NumbersAssumption DEF NothingLoaded, NotRead, Fields
    <2> QED
        BY <1>3, <1>4, <2>1 DEF IInv, TypeOK
<1>7. pc' \in [CPUs -> Steps]
    BY DEF IInv, TypeOK, Steps
<1>8. BusyHasPacket'
    BY <1>4 DEF IInv, TypeOK, BusyHasPacket
<1>9. DivisorPositive'
    <2>1. NothingLoaded["count"] # 0
        BY DEF NothingLoaded, NotRead, Fields
    <2> QED
        BY <1>4, <2>1 DEF IInv, TypeOK, DivisorPositive
<1> QED
    BY <1>4, <1>5, <1>6, <1>7, <1>8, <1>9

LEMMA UpdateIInv == ASSUME IInv, NEW c \in CPUs, Update(c) PROVE IInv'
<1> DEFINE l == loaded[c]
           f == FeaturesOf(Key(c), l.tot_bytes, l.tot_IAT, l.count, iat_ms[c])
<1>1. /\ pc[c] = "load" /\ pc' = [pc EXCEPT ![c] = "idle"]
      /\ Return(c) /\ flow' = flow /\ evicted' = evicted
      /\ features' = [features EXCEPT ![c] = f]
    BY DEF Update, GoTo
<1>2. flow' \in [Elems -> FlowInfo] /\ evicted' \in BOOLEAN
    BY <1>1 DEF IInv, TypeOK
<1>3. features' \in [CPUs -> FlowFeatures \cup {NoFeatures}]
    <2>1. Key(c) \in Keys
        BY <1>1, KeyUsed DEF Key, IInv, BusyHasPacket
    <2>2. l.tot_bytes \in Nat /\ l.tot_IAT \in Nat /\ l.count \in 0..(U32 - 1) /\ iat_ms[c] \in Nat
        <3>1. \A field \in Fields : l[field] # NotRead /\ l[field] \in Nat \cup {NotRead}
            BY DEF Update, IInv, TypeOK
        <3>2. l.count < U32 /\ iat_ms[c] \in Nat
            BY DEF IInv, TypeOK
        <3> QED
            BY <3>1, <3>2, NumbersAssumption DEF Fields
    <2> HIDE DEF l
    <2>3. f \in FlowFeatures
        BY <2>1, <2>2, FeaturesTyped
    <2> QED
        BY <1>1, <2>3 DEF IInv, TypeOK
<1> HIDE DEF f
<1>4. TypeOK'
    BY <1>1, <1>2, <1>3, ReturnTyped DEF IInv, TypeOK
<1>5. FilledPositive'
    BY <1>1 DEF Return, IInv, TypeOK, FilledPositive
<1>6. Uncounted' = Uncounted
    BY <1>1 DEF Uncounted, IInv, TypeOK
<1>7. CountsReceived'
    BY <1>1, <1>6, CountsKept, ReturnTyped
<1> QED
    BY <1>1, <1>4, <1>5, <1>7, ReturnTyped DEF IInv

LEMMA InsertIInv == ASSUME IInv, NEW c \in CPUs, Insert(c) PROVE IInv'
<1> DEFINE f == FeaturesOf(Key(c), Size(c), 0, 1, 0)
<1>1. /\ pc[c] = "insert" /\ pc' = [pc EXCEPT ![c] = "idle"] /\ Return(c)
      /\ features' = [features EXCEPT ![c] = f]
    BY DEF Insert, GoTo
<1>2. job[c].pkt \in Packets /\ job[c].at \in 0..MaxTime
    BY <1>1 DEF IInv, BusyHasPacket, TypeOK
<1>3. Key(c) \in Keys /\ Size(c) \in 0..(U64 - 1) /\ Size(c) \in Nat
    BY <1>2, KeyUsed, NumbersAssumption DEF Key, Size
<1>4. NewFlow(c) \in FlowInfo /\ NewFlow(c).count = 1
    BY <1>2, <1>3, NumbersAssumption DEF NewFlow, FlowInfo
<1>5. PICK victims \in SUBSET Occupied(flow) :
          /\ \E s \in Holding(Evict(flow, victims), NoKey) :
                flow' = InsertAt(Evict(flow, victims), s, NewFlow(c))
          /\ evicted' = (evicted \/ victims # {})
    BY DEF Insert
<1>6. PICK s \in Holding(Evict(flow, victims), NoKey) :
          flow' = InsertAt(Evict(flow, victims), s, NewFlow(c))
    BY <1>5
<1>7. victims \subseteq Elems
    BY DEF Occupied, IInv, TypeOK
<1>8. /\ s \in Elems /\ flow' \in [Elems -> FlowInfo] /\ flow'[s].count = 1
      /\ \A t \in Elems : t # s => flow'[t].count = flow[t].count
      /\ \A t \in Elems : t # s /\ flow'[t].key # NoKey => flow[t].key # NoKey
    <2>1. flow \in [Elems -> FlowInfo] /\ victims \in SUBSET Elems
        BY <1>7 DEF IInv, TypeOK
    <2>2. NewFlow(c) \in FlowInfo
        BY <1>4
    <2>3. s \in Holding(Evict(flow, victims), NoKey)
        BY <1>6
    <2>4. flow' = InsertAt(Evict(flow, victims), s, NewFlow(c))
        BY <1>6
    <2> QED
        BY <2>1, <2>2, <2>3, <2>4, <1>4, InsertionTyped
<1>9. f \in FlowFeatures
    BY <1>3, NumbersAssumption, FeaturesTyped
<1> HIDE DEF f
<1>10. features' \in [CPUs -> FlowFeatures \cup {NoFeatures}] /\ evicted' \in BOOLEAN
    BY <1>1, <1>5, <1>9 DEF IInv, TypeOK
<1>11. TypeOK'
    BY <1>1, <1>8, <1>10, ReturnTyped DEF IInv, TypeOK
<1>12. FilledPositive'
    <2>1. \A t \in Elems : flow[t].count > 0 => flow'[t].count > 0
        BY <1>8
    <2>2. \A t \in Elems : flow'[t].key # NoKey => flow'[t].count > 0
        BY <1>8 DEF IInv, FilledPositive
    <2>3. \A d \in CPUs : d # c => pc'[d] = pc[d] /\ fi'[d] = fi[d] /\ fi[d] \in Elems
        BY <1>1 DEF Return, IInv, TypeOK
    <2>4. pc'[c] = "idle"
        BY <1>1 DEF IInv, TypeOK
    <2> QED
        BY <2>1, <2>2, <2>3, <2>4 DEF IInv, FilledPositive
<1>13. c \in Uncounted /\ Uncounted' = Uncounted \ {c}
    BY <1>1 DEF Uncounted, IInv, TypeOK
<1>14. CountsReceived'
    BY <1>1, <1>8, <1>13, CountsMoved, ReturnTyped
<1> QED
    BY <1>1, <1>11, <1>12, <1>14, ReturnTyped DEF IInv

-------------------------------------------------------------------------------
(* The theorems. *)

LEMMA NextIInv == IInv /\ [Next]_vars => IInv'
<1> SUFFICES ASSUME IInv, [Next]_vars PROVE IInv'
    OBVIOUS
<1>1. ASSUME NEW c \in CPUs, Cpu(c) PROVE IInv'
    BY <1>1, LookupIInv, ElapsedIInv, SeenIInv, AddIInv, LoadIInv, UpdateIInv, InsertIInv DEF Cpu
<1>2. ASSUME NEW c \in CPUs, NEW p \in Packets, Receive(c, p) PROVE IInv'
    BY <1>2, ReceiveIInv
<1>3. CASE UNCHANGED vars
    BY <1>3 DEF vars, IInv, TypeOK, BusyHasPacket, FilledPositive, CountsReceived, Uncounted,
                DivisorPositive
<1> QED
    BY <1>1, <1>2, <1>3, TickIInv DEF Next, Finished

\* Every variable keeps its type: the unsigned fields and features stay in their
\* widths.
THEOREM TypeCorrect == Spec => []TypeOK
<1>1. IInv => TypeOK
    BY DEF IInv
<1> QED
    BY <1>1, InitIInv, NextIInv, PTL DEF Spec

\* As long as fewer than 2^32 packets come, no mean is divided by 0, whatever
\* flows take each other's elements between an add and a read.
THEOREM DivisorAlwaysPositive == Spec => []DivisorPositive
<1>1. IInv => DivisorPositive
    BY DEF IInv
<1> QED
    BY <1>1, InitIInv, NextIInv, PTL DEF Spec
-------------------------------------------------------------------------------
(* Where the counters of a flow come from: what holds of the history, of the *)
(* CPUs and of the keys in the map.                                          *)

Pointing == {"elapsed", "seen", "count", "bytes", "total", "load"}

Arrival == [at : 0..MaxTime, size : 0..MaxSize]
HistoryTyped == history \in [Keys -> Seq(Arrival)] /\ \A k \in Keys : Len(history[k]) <= received

TimesAscend ==
    \A k \in Keys : \A j \in 1..Len(history[k]) :
        history[k][j].at <= now /\ \A i \in 1..j : history[k][i].at <= history[k][j].at

\* A CPU handles, and has features of, packets that may come to it.
WhereSent ==
    \A c \in CPUs :
        /\ pc[c] # "idle" => c \in job[c].pkt.cpus /\ features[c] = NoFeatures
        /\ features[c] # NoFeatures => \E p \in Packets : flow_key(p) = features[c].of /\ c \in p.cpus

ReadWhere == \A c \in CPUs : pc[c] # "load" => loaded[c] = NothingLoaded

\* No two elements hold the same flow.
OneHolder == \A s, t \in Elems : flow[s].key # NoKey /\ flow[s].key = flow[t].key => s = t

\* Until something is evicted, a pointer leads to the flow that was looked up.
PointersHold == ~evicted => \A c \in CPUs : pc[c] \in Pointing => flow[fi[c]].key = Key(c)

HInv == HistoryTyped /\ TimesAscend /\ WhereSent /\ ReadWhere /\ OneHolder /\ PointersHold

LEMMA InitHInv == Init => HInv
<1> SUFFICES ASSUME Init PROVE HInv
    OBVIOUS
<1> USE DEF Init
<1>1. HistoryTyped
    BY DEF HistoryTyped
<1>2. TimesAscend
    BY DEF TimesAscend
<1>3. WhereSent /\ ReadWhere
    BY DEF WhereSent, ReadWhere
<1>4. OneHolder
    BY DEF OneHolder, Unused
<1>5. PointersHold
    BY DEF PointersHold, Pointing
<1> QED
    BY <1>1, <1>2, <1>3, <1>4, <1>5 DEF HInv

\* The packet a CPU works on.
LEMMA AtWork ==
    ASSUME IInv, NEW c \in CPUs, pc[c] # "idle"
    PROVE  /\ job[c].pkt \in Packets /\ job[c].at \in 0..MaxTime
           /\ Key(c) \in Keys /\ Key(c) # NoKey /\ Size(c) \in 0..MaxSize
BY KeyUsed DEF Key, Size, NoKey, IInv, TypeOK, BusyHasPacket

\* What every step of parse_update leaves alone.
LEMMA StepFrame ==
    ASSUME IInv, NEW c \in CPUs, Cpu(c)
    PROVE  /\ pc[c] # "idle"
           /\ history' = history /\ received' = received /\ now' = now
           /\ \A d \in CPUs \ {c} :
                 /\ pc'[d] = pc[d] /\ job'[d] = job[d] /\ fi'[d] = fi[d]
                 /\ iat_ms'[d] = iat_ms[d] /\ loaded'[d] = loaded[d] /\ features'[d] = features[d]
           /\ pc'[c] # "idle" => job'[c] = job[c] /\ features'[c] = features[c]
<1> USE DEF IInv, TypeOK
<1>1. CASE Lookup(c)
    BY <1>1 DEF Lookup, GoTo
<1>2. CASE Elapsed(c) \/ Seen(c) \/ Add(c)
    BY <1>2 DEF Elapsed, Seen, Add, GoTo
<1>3. CASE \E f \in Fields : Load(c, f)
    BY <1>3 DEF Load
<1>4. CASE Update(c) \/ Insert(c)
    BY <1>4 DEF Update, Insert, Return, GoTo
<1> QED
    BY <1>1, <1>2, <1>3, <1>4 DEF Cpu

\* A step that does not insert changes at most the element the CPU's pointer
\* leads to, and no key.
LEMMA StepKeepsKeys ==
    ASSUME IInv, NEW c \in CPUs, Cpu(c), ~Insert(c)
    PROVE  /\ evicted' = evicted
           /\ \A s \in Elems : flow'[s].key = flow[s].key
           /\ \A s \in Elems : s # fi[c] \/ pc[c] \notin Pointing => flow'[s] = flow[s]
           /\ pc'[c] \in Pointing => \/ pc[c] \in Pointing /\ fi'[c] = fi[c]
                                     \/ flow'[fi'[c]].key = Key(c)
<1> USE DEF IInv, TypeOK
<1>0. fi[c] \in Elems /\ flow[fi[c]] \in FlowInfo
    OBVIOUS
<1>1. CASE Lookup(c)
    BY <1>1 DEF Lookup, GoTo, Holding, Pointing
<1>2. CASE Elapsed(c)
    BY <1>2 DEF Elapsed, GoTo, Pointing
<1>3. CASE Seen(c)
    BY <1>0, <1>3 DEF Seen, GoTo, Pointing, FlowInfo
<1>4. CASE Add(c)
    <2>1. pc[c] \in {"count", "bytes", "total"} /\ fi' = fi /\ evicted' = evicted
        BY <1>4 DEF Add, GoTo
    <2>2. \E field \in Fields : \E x : flow' = [flow EXCEPT ![fi[c]] = [flow[fi[c]] EXCEPT ![field] = x]]
        <3>1. Fields = {"count", "tot_bytes", "tot_IAT"}
            BY DEF Fields
        <3>2. CASE flow' = [flow EXCEPT ![fi[c]].count = (@ + 1) % U32]
            BY <3>1, <3>2
        <3>3. CASE flow' = [flow EXCEPT ![fi[c]].tot_bytes = (@ + Size(c)) % U64]
            BY <3>1, <3>3
        <3>4. CASE flow' = [flow EXCEPT ![fi[c]].tot_IAT = (@ + iat_ms[c]) % U64]
            BY <3>1, <3>4
        <3> QED
            BY <1>4, <3>2, <3>3, <3>4 DEF Add
    <2>3. \A field \in Fields : \A x : [flow[fi[c]] EXCEPT ![field] = x].key = flow[fi[c]].key
        BY <1>0 DEF FlowInfo, Fields
    <2>4. /\ \A s \in Elems : s # fi[c] => flow'[s] = flow[s]
          /\ flow'[fi[c]].key = flow[fi[c]].key
        <3>0. PICK field \in Fields : \E x : flow' = [flow EXCEPT ![fi[c]] = [flow[fi[c]] EXCEPT ![field] = x]]
            BY <2>2
        <3>1. PICK x : flow' = [flow EXCEPT ![fi[c]] = [flow[fi[c]] EXCEPT ![field] = x]]
            BY <3>0
        <3> DEFINE e == [flow[fi[c]] EXCEPT ![field] = x]
        <3>2. e.key = flow[fi[c]].key /\ flow' = [flow EXCEPT ![fi[c]] = e]
            BY <2>3, <3>1
        <3> HIDE DEF e
        <3> QED
            BY <1>0, <3>2
    <2> QED
        BY <1>0, <2>1, <2>4 DEF Pointing
<1>5. CASE \E f \in Fields : Load(c, f)
    BY <1>5 DEF Load, Pointing
<1>6. CASE Update(c)
    BY <1>6 DEF Update, Return, GoTo, Pointing
<1> QED
    BY <1>1, <1>2, <1>3, <1>4, <1>5, <1>6 DEF Cpu

\* An insertion takes a free element, gives it to the flow unless the flow has one,
\* and evicts or leaves alone the others.
LEMMA InsertShape ==
    ASSUME IInv, NEW c \in CPUs, Insert(c)
    PROVE  \E s \in Elems :
              /\ \A t \in Elems \ {s} : flow'[t].key \in {flow[t].key, NoKey}
              /\ flow'[s].key = NoKey \/ \A t \in Elems \ {s} : flow'[t].key # flow'[s].key
              /\ ~evicted' =>
                    /\ ~evicted /\ flow[s].key = NoKey
                    /\ \A t \in Elems \ {s} : flow'[t] = flow[t]
                    /\ IF Present(flow, Key(c)) THEN flow'[s].key = NoKey ELSE flow'[s] = NewFlow(c)
<1>1. PICK victims \in SUBSET Occupied(flow) :
          /\ \E s \in Holding(Evict(flow, victims), NoKey) :
                flow' = InsertAt(Evict(flow, victims), s, NewFlow(c))
          /\ evicted' = (evicted \/ victims # {})
    BY DEF Insert
<1> DEFINE left == Evict(flow, victims)
           new == NewFlow(c)
<1>2. PICK s \in Holding(left, NoKey) : flow' = InsertAt(left, s, new)
    BY <1>1
<1>3. flow \in [Elems -> FlowInfo] /\ evicted \in BOOLEAN
    BY DEF IInv, TypeOK
<1>4. /\ DOMAIN left = Elems
      /\ \A t \in Elems : left[t] = IF t \in victims THEN Unkeyed(flow[t]) ELSE flow[t]
      /\ \A t \in Elems : Unkeyed(flow[t]).key = NoKey
    BY <1>3 DEF Evict, Unkeyed, FlowInfo
<1>5. s \in Elems /\ left[s].key = NoKey
    BY <1>4 DEF Holding
<1>6. new.key = Key(c) /\ Unkeyed(new).key = NoKey
    BY DEF NewFlow, Unkeyed
<1>7. /\ \A t \in Elems \ {s} : flow'[t] = left[t]
      /\ flow'[s] = IF Present(left, Key(c)) THEN Unkeyed(new) ELSE new
    BY <1>2, <1>4, <1>5, <1>6 DEF InsertAt, Evict
<1>8. \A t \in Elems \ {s} : flow'[t].key \in {flow[t].key, NoKey}
    BY <1>4, <1>7
<1>9. flow'[s].key = NoKey \/ \A t \in Elems \ {s} : flow'[t].key # flow'[s].key
    <2>1. CASE Present(left, Key(c))
        BY <1>6, <1>7, <2>1
    <2>2. CASE ~Present(left, Key(c))
        <3>1. \A t \in Elems : left[t].key # Key(c)
            BY <1>4, <2>2 DEF Present, Holding
        <3> QED
            BY <1>6, <1>7, <2>2, <3>1
    <2> QED
        BY <2>1, <2>2
<1>10. ASSUME ~evicted'
       PROVE  /\ ~evicted /\ flow[s].key = NoKey
              /\ \A t \in Elems \ {s} : flow'[t] = flow[t]
              /\ IF Present(flow, Key(c)) THEN flow'[s].key = NoKey ELSE flow'[s] = NewFlow(c)
    <2>1. ~evicted /\ victims = {}
        BY <1>1, <1>3, <1>10
    <2>2. \A t \in Elems : left[t] = flow[t]
        BY <1>4, <2>1
    <2>3. Present(left, Key(c)) <=> Present(flow, Key(c))
        BY <1>3, <1>4, <2>2 DEF Present, Holding
    <2> QED
        BY <1>5, <1>6, <1>7, <2>1, <2>2, <2>3
<1> QED
    BY <1>5, <1>8, <1>9, <1>10

\* Whoever works on another flow leaves this one's entry alone.
FlowKept(k) == \A s \in Elems : /\ flow'[s].key = k <=> flow[s].key = k
                                /\ flow[s].key = k => flow'[s] = flow[s]

LEMMA OtherFlowsKept ==
    ASSUME IInv, HInv, NEW c \in CPUs, Cpu(c), ~evicted', NEW k \in Keys, k # Key(c), k # NoKey
    PROVE  FlowKept(k) /\ ~evicted
<1>1. CASE Insert(c)
    <2>1. PICK s \in Elems :
              /\ ~evicted /\ flow[s].key = NoKey
              /\ \A t \in Elems \ {s} : flow'[t] = flow[t]
              /\ IF Present(flow, Key(c)) THEN flow'[s].key = NoKey ELSE flow'[s] = NewFlow(c)
        BY <1>1, InsertShape
    <2>2. flow'[s].key \in {NoKey, Key(c)}
        BY <2>1 DEF NewFlow
    <2> QED
        BY <2>1, <2>2 DEF FlowKept
<1>2. CASE ~Insert(c)
    <2>1. ~evicted
        BY <1>2, StepKeepsKeys
    <2>2. pc[c] \in Pointing => flow[fi[c]].key # k
        BY <2>1 DEF HInv, PointersHold
    <2> QED
        BY <1>2, <2>1, <2>2, StepKeepsKeys DEF FlowKept
<1> QED
    BY <1>1, <1>2

LEMMA TickHInv == ASSUME IInv, HInv, Tick PROVE HInv'
<1>1. /\ UNCHANGED <<flow, pc, job, fi, iat_ms, loaded, features, received, history, evicted>>
      /\ now <= now' /\ now \in Nat /\ now' \in Nat
    BY NumbersAssumption DEF Tick, IInv, TypeOK
<1>2. ASSUME NEW k \in Keys, NEW j \in 1..Len(history[k]) PROVE history[k][j].at \in Nat
    <2>1. history[k] \in Seq(Arrival)
        BY DEF HInv, HistoryTyped
    <2>2. history[k][j] \in Arrival
        BY <2>1
    <2> QED
        BY <2>2, NumbersAssumption DEF Arrival
<1>3. TimesAscend'
    BY <1>1, <1>2 DEF HInv, TimesAscend
<1> QED
    BY <1>1, <1>3 DEF HInv, HistoryTyped, WhereSent, ReadWhere, OneHolder, PointersHold, Key

\* What Append does.
LEMMA Appended ==
    ASSUME NEW T, NEW s \in Seq(T), NEW e \in T
    PROVE  /\ Append(s, e) \in Seq(T) /\ Len(Append(s, e)) = Len(s) + 1 /\ Len(s) \in Nat
           /\ Append(s, e)[Len(s) + 1] = e
           /\ \A i \in 1..Len(s) : Append(s, e)[i] = s[i] /\ s[i] \in T
           /\ DOMAIN s = 1..Len(s) /\ DOMAIN Append(s, e) = 1..(Len(s) + 1)
OBVIOUS

\* What a new packet does to the history.
LEMMA Arrives ==
    ASSUME IInv, HistoryTyped, NEW c \in CPUs, NEW p \in Packets, Receive(c, p)
    PROVE  LET k == flow_key(p) IN
           /\ k \in Keys /\ [at |-> now, size |-> p.size] \in Arrival
           /\ \A l \in Keys \ {k} : history'[l] = history[l]
           /\ history'[k] = Append(history[k], [at |-> now, size |-> p.size])
           /\ \A l \in Keys : history[l] \in Seq(Arrival)
           /\ history' \in [Keys -> Seq(Arrival)]
<1> DEFINE k == flow_key(p)
           a == [at |-> now, size |-> p.size]
<1>1. k \in Keys /\ a \in Arrival
    BY KeyUsed DEF IInv, TypeOK, Arrival
<1>2. history \in [Keys -> Seq(Arrival)]
    BY DEF HistoryTyped
<1>3. history' = [history EXCEPT ![k] = Append(history[k], a)]
    BY DEF Receive
<1> HIDE DEF k, a
<1>4. Append(history[k], a) \in Seq(Arrival)
    BY <1>1, <1>2
<1> QED
    BY <1>1, <1>2, <1>3, <1>4 DEF k, a

LEMMA ReceiveHInv ==
    ASSUME IInv, HInv, NEW c \in CPUs, NEW p \in Packets, Receive(c, p)
    PROVE  HInv'
<1> DEFINE k == flow_key(p)
           a == [at |-> now, size |-> p.size]
<1>1. /\ pc[c] = "idle" /\ c \in p.cpus /\ received' = received + 1 /\ received \in Nat
      /\ job' = [job EXCEPT ![c] = [pkt |-> p, at |-> now]]
      /\ pc' = [pc EXCEPT ![c] = "lookup"]
      /\ features' = [features EXCEPT ![c] = NoFeatures]
      /\ UNCHANGED <<flow, now, fi, iat_ms, loaded, evicted>>
      /\ now \in Nat
    BY BoundAssumption, NumbersAssumption DEF Receive, IInv, TypeOK
<1>2. /\ k \in Keys /\ a \in Arrival
      /\ \A l \in Keys \ {k} : history'[l] = history[l]
      /\ history'[k] = Append(history[k], a)
      /\ \A l \in Keys : history[l] \in Seq(Arrival)
      /\ history' \in [Keys -> Seq(Arrival)]
    BY Arrives DEF HInv
<1>3. a.at = now
    OBVIOUS
<1> HIDE DEF k, a
<1>4. /\ Len(history'[k]) = Len(history[k]) + 1 /\ Len(history[k]) \in Nat
      /\ history'[k][Len(history[k]) + 1] = a
      /\ \A i \in 1..Len(history[k]) : history'[k][i] = history[k][i]
    BY <1>2, Appended
<1>5. \A l \in Keys : Len(history[l]) \in Nat
    BY <1>2
<1>6. HistoryTyped'
    BY <1>1, <1>2, <1>4, <1>5 DEF HInv, HistoryTyped
<1>7. TimesAscend'
    <2> SUFFICES ASSUME NEW l \in Keys, NEW j \in 1..Len(history'[l])
                 PROVE  history'[l][j].at <= now' /\ \A i \in 1..j : history'[l][i].at <= history'[l][j].at
        BY DEF TimesAscend
    <2>1. CASE l # k
        BY <1>1, <1>2, <2>1 DEF HInv, TimesAscend
    <2>2. CASE l = k /\ j \in 1..Len(history[k])
        <3>1. history[k][j].at <= now /\ \A i \in 1..j : history[k][i].at <= history[k][j].at
            BY <1>2, <2>2 DEF HInv, TimesAscend
        <3>2. \A i \in 1..j : i \in 1..Len(history[k])
            BY <1>4, <2>2
        <3> QED
            BY <1>1, <1>4, <2>2, <3>1, <3>2
    <2>3. CASE l = k /\ j = Len(history[k]) + 1
        <3>1. \A i \in 1..Len(history[k]) : history[k][i].at <= now
            BY <1>2 DEF HInv, TimesAscend
        <3>2. \A i \in 1..j : i \in 1..Len(history[k]) \/ i = j
            BY <1>4, <2>3
        <3>3. history'[k][j].at = now /\ now <= now
            BY <1>1, <1>3, <1>4, <2>3
        <3> QED
            BY <1>1, <1>4, <2>3, <3>1, <3>2, <3>3
    <2> QED
        BY <1>4, <2>1, <2>2, <2>3
<1>8. WhereSent' /\ ReadWhere'
    BY <1>1 DEF HInv, WhereSent, ReadWhere, IInv, TypeOK
<1>9. OneHolder' /\ PointersHold'
    BY <1>1 DEF HInv, OneHolder, PointersHold, Pointing, IInv, TypeOK, Key
<1> QED
    BY <1>6, <1>7, <1>8, <1>9 DEF HInv

\* The features a step writes are those of its flow, and it reads only at "load".
LEMMA StepFeatures ==
    ASSUME IInv, ReadWhere, NEW c \in CPUs, Cpu(c)
    PROVE  /\ features'[c] = features[c] \/ features'[c].of = Key(c)
           /\ pc'[c] # "load" => loaded'[c] = NothingLoaded
<1> USE DEF IInv, TypeOK, ReadWhere
<1>1. CASE Lookup(c)
    BY <1>1 DEF Lookup, GoTo
<1>2. CASE Elapsed(c) \/ Seen(c) \/ Add(c)
    BY <1>2 DEF Elapsed, Seen, Add, GoTo
<1>3. CASE \E f \in Fields : Load(c, f)
    BY <1>3 DEF Load
<1>4. CASE Update(c) \/ Insert(c)
    BY <1>4 DEF Update, Insert, Return, GoTo, FeaturesOf
<1> QED
    BY <1>1, <1>2, <1>3, <1>4 DEF Cpu

LEMMA StepHInv == ASSUME IInv, HInv, NEW c \in CPUs, Cpu(c) PROVE HInv'
<1>1. HistoryTyped' /\ TimesAscend'
    BY StepFrame DEF HInv, HistoryTyped, TimesAscend
<1>2. WhereSent'
    <2> SUFFICES ASSUME NEW d \in CPUs
                 PROVE  /\ pc'[d] # "idle" => d \in job'[d].pkt.cpus /\ features'[d] = NoFeatures
                        /\ features'[d] # NoFeatures =>
                              \E p \in Packets : flow_key(p) = features'[d].of /\ d \in p.cpus
        BY DEF WhereSent
    <2>1. CASE d # c
        BY <2>1, StepFrame DEF HInv, WhereSent
    <2>2. CASE d = c
        <3>1. /\ pc[c] # "idle"
              /\ pc'[c] # "idle" => job'[c] = job[c] /\ features'[c] = features[c]
              /\ features'[c] = features[c] \/ features'[c].of = Key(c)
            BY StepFrame, StepFeatures DEF HInv
        <3>2. job[c].pkt \in Packets /\ c \in job[c].pkt.cpus /\ features[c] = NoFeatures
            BY <3>1, AtWork DEF HInv, WhereSent
        <3> QED
            BY <2>2, <3>1, <3>2 DEF Key
    <2> QED
        BY <2>1, <2>2
<1>3. ReadWhere'
    <2>1. \A d \in CPUs \ {c} : pc'[d] = pc[d] /\ loaded'[d] = loaded[d]
        BY StepFrame
    <2> QED
        BY <2>1, StepFeatures DEF HInv, ReadWhere
<1>4. CASE Insert(c)
    <2>1. PICK s \in Elems :
              /\ \A t \in Elems \ {s} : flow'[t].key \in {flow[t].key, NoKey}
              /\ flow'[s].key = NoKey \/ \A t \in Elems \ {s} : flow'[t].key # flow'[s].key
              /\ ~evicted' =>
                    /\ ~evicted /\ flow[s].key = NoKey
                    /\ \A t \in Elems \ {s} : flow'[t] = flow[t]
        BY <1>4, InsertShape
    <2>2. OneHolder'
        BY <2>1 DEF HInv, OneHolder
    <2>3. PointersHold'
        <3> SUFFICES ASSUME ~evicted', NEW d \in CPUs, pc'[d] \in Pointing
                     PROVE  flow'[fi'[d]].key = Key(d)'
            BY DEF PointersHold
        <3>1. pc'[c] = "idle"
            BY <1>4 DEF Insert, GoTo, IInv, TypeOK
        <3>2. d # c
            BY <3>1 DEF Pointing
        <3>3. pc[d] \in Pointing /\ fi'[d] = fi[d] /\ job'[d] = job[d]
            BY <3>2, StepFrame
        <3>4. flow[fi[d]].key = Key(d) /\ Key(d) # NoKey /\ fi[d] \in Elems
            BY <2>1, <3>3, AtWork DEF HInv, PointersHold, Pointing, IInv, TypeOK
        <3>5. flow'[fi[d]] = flow[fi[d]]
            BY <2>1, <3>4
        <3> QED
            BY <3>3, <3>4, <3>5 DEF Key
    <2> QED
        BY <1>1, <1>2, <1>3, <2>2, <2>3 DEF HInv
<1>5. CASE ~Insert(c)
    <2>1. OneHolder'
        BY <1>5, StepKeepsKeys DEF HInv, OneHolder
    <2>2. PointersHold'
        <3> SUFFICES ASSUME ~evicted', NEW d \in CPUs, pc'[d] \in Pointing
                     PROVE  flow'[fi'[d]].key = Key(d)'
            BY DEF PointersHold
        <3>1. ~evicted /\ \A s \in Elems : flow'[s].key = flow[s].key
            BY <1>5, StepKeepsKeys
        <3>2. job'[d] = job[d]
            BY StepFrame DEF Pointing
        <3>3. CASE pc[d] \in Pointing /\ fi'[d] = fi[d]
            <4>1. fi[d] \in Elems /\ flow[fi[d]].key = Key(d)
                BY <3>1, <3>3 DEF HInv, PointersHold, IInv, TypeOK
            <4> QED
                BY <3>1, <3>2, <3>3, <4>1 DEF Key
        <3>4. CASE ~(pc[d] \in Pointing /\ fi'[d] = fi[d])
            <4>1. d = c
                BY <3>4, StepFrame
            <4> QED
                BY <1>5, <3>2, <3>4, <4>1, StepKeepsKeys DEF Key
        <3> QED
            BY <3>3, <3>4
    <2> QED
        BY <1>1, <1>2, <1>3, <2>1, <2>2 DEF HInv
<1> QED
    BY <1>4, <1>5

LEMMA NextHInv == IInv /\ HInv /\ [Next]_vars => HInv'
<1> SUFFICES ASSUME IInv, HInv, [Next]_vars PROVE HInv'
    OBVIOUS
<1>1. CASE UNCHANGED vars
    BY <1>1 DEF vars, HInv, HistoryTyped, TimesAscend, WhereSent, ReadWhere, OneHolder,
                PointersHold, Key
<1> QED
    BY <1>1, TickHInv, ReceiveHInv, StepHInv DEF Next, Finished
-------------------------------------------------------------------------------
(* Totals over the first packets of a flow. *)

LEMMA TotalIsSum == ASSUME NEW f, NEW S PROVE Total(f, S) = Sum(f, S)
BY DEF Total, Sum

LEMMA FirstNumbers ==
    ASSUME NEW n \in Nat
    PROVE  /\ IsFiniteSet(1..n) /\ Cardinality(1..n) = n
           /\ 1..(n + 1) = (1..n) \cup {n + 1} /\ n + 1 \notin 1..n
BY FS_Interval

LEMMA TotalNone == ASSUME NEW f PROVE Total(f, 1..0) = 0
<1>1. 1..0 = {}
    OBVIOUS
<1> QED
    BY <1>1, SumEmpty, TotalIsSum

LEMMA TotalNext ==
    ASSUME NEW n \in Nat, NEW f, \A i \in 1..(n + 1) : f[i] \in Int
    PROVE  Total(f, 1..(n + 1)) = Total(f, 1..n) + f[n + 1]
<1>1. (\A i \in 1..n : f[i] \in Int) /\ f[n + 1] \in Int
    OBVIOUS
<1>2. Sum(f, (1..n) \cup {n + 1}) = Sum(f, 1..n) + f[n + 1]
    <2> DEFINE S == 1..n
               x == n + 1
    <2>1. IsFiniteSet(S) /\ x \notin S /\ (\A i \in S : f[i] \in Int) /\ f[x] \in Int
        BY <1>1, FirstNumbers
    <2> HIDE DEF S, x
    <2>2. Sum(f, S \cup {x}) = Sum(f, S) + f[x]
        BY <2>1, SumAdds
    <2> QED
        BY <2>2 DEF S, x
<1> QED
    BY <1>2, FirstNumbers, TotalIsSum

LEMMA TotalSame ==
    ASSUME NEW n \in Nat, NEW f, NEW g, \A i \in 1..n : f[i] = g[i]
    PROVE  Total(f, 1..n) = Total(g, 1..n)
BY FirstNumbers, SumSame, TotalIsSum

\* A quotient is no larger than the number divided.
LEMMA QuotientSmaller ==
    ASSUME NEW a \in Nat, NEW b \in Nat \ {0}
    PROVE  a \div b \in Nat /\ a \div b <= a
OBVIOUS

\* The sizes and the gaps of a history are natural numbers.
Ascending(h) == \A j \in 1..Len(h) : \A i \in 1..j : h[i].at <= h[j].at

LEMMA SizesTyped ==
    ASSUME NEW h \in Seq(Arrival)
    PROVE  /\ DOMAIN Sizes(h) = 1..Len(h)
           /\ \A i \in 1..Len(h) : /\ Sizes(h)[i] = h[i].size /\ Sizes(h)[i] \in Nat
                                   /\ Sizes(h)[i] <= MaxSize
<1>1. \A i \in 1..Len(h) : h[i] \in Arrival
    OBVIOUS
<1>2. DOMAIN h = 1..Len(h)
    OBVIOUS
<1> QED
    BY <1>1, <1>2, NumbersAssumption DEF Sizes, Arrival

LEMMA GapsTyped ==
    ASSUME NEW h \in Seq(Arrival), Ascending(h)
    PROVE  /\ DOMAIN Gaps(h) = 1..Len(h)
           /\ Len(h) > 0 => Gaps(h)[1] = 0
           /\ \A i \in 1..Len(h) :
                 /\ i > 1 => /\ i - 1 \in 1..Len(h)
                             /\ Gaps(h)[i] = (h[i].at - h[i - 1].at) \div NsPerMs
                             /\ h[i].at - h[i - 1].at \in 0..MaxTime
                             /\ Gaps(h)[i] <= h[i].at - h[i - 1].at
                 /\ Gaps(h)[i] \in Nat
<1>0. NsPerMs \in Nat \ {0} /\ MaxTime \in Nat
    BY NumbersAssumption
<1>1. \A i \in 1..Len(h) : h[i].at \in 0..MaxTime
    <2>1. \A i \in 1..Len(h) : h[i] \in Arrival
        OBVIOUS
    <2> QED
        BY <2>1 DEF Arrival
<1>2. DOMAIN h = 1..Len(h) /\ Len(h) \in Nat
    OBVIOUS
<1>3. DOMAIN Gaps(h) = 1..Len(h) /\ (Len(h) > 0 => Gaps(h)[1] = 0)
    BY <1>2 DEF Gaps
<1>4. ASSUME NEW i \in 1..Len(h), i > 1
      PROVE  /\ i - 1 \in 1..Len(h)
             /\ Gaps(h)[i] = (h[i].at - h[i - 1].at) \div NsPerMs
             /\ h[i].at - h[i - 1].at \in 0..MaxTime
             /\ Gaps(h)[i] <= h[i].at - h[i - 1].at
             /\ Gaps(h)[i] \in Nat
    <2>1. i - 1 \in 1..Len(h) /\ i - 1 \in 1..i
        BY <1>2, <1>4
    <2>2. h[i - 1].at <= h[i].at
        BY <2>1 DEF Ascending
    <2> DEFINE gap == h[i].at - h[i - 1].at
    <2>3. gap \in 0..MaxTime
        BY <1>0, <1>1, <2>1, <2>2
    <2>4. Gaps(h)[i] = gap \div NsPerMs
        BY <1>2, <1>4 DEF Gaps
    <2>5. gap \div NsPerMs \in Nat /\ gap \div NsPerMs <= gap
        <3> HIDE DEF gap
        <3> QED
            BY <1>0, <2>3, QuotientSmaller
    <2> QED
        BY <2>1, <2>3, <2>4, <2>5
<1>5. \A i \in 1..Len(h) : i = 1 \/ i > 1
    OBVIOUS
<1> QED
    BY <1>2, <1>3, <1>4, <1>5

\* The bytes of some packets do not overflow 64 bits.
LEMMA BytesBounded ==
    ASSUME NEW h \in Seq(Arrival), Len(h) <= MaxPackets, NEW S \in SUBSET (1..Len(h))
    PROVE  Total(Sizes(h), S) \in Nat /\ Total(Sizes(h), S) < U64 /\ IsFiniteSet(S)
<1> DEFINE f == [i \in S |-> Sizes(h)[i]]
<1>1. Len(h) \in Nat /\ MaxSize \in Nat /\ MaxPackets \in Nat /\ MaxSize * MaxPackets < U64 /\ U64 \in Nat
    BY NumbersAssumption, BoundAssumption
<1>2. IsFiniteSet(S) /\ Cardinality(S) \in Nat /\ Cardinality(S) <= Len(h)
    <2> DEFINE all == 1..Len(h)
    <2>1. IsFiniteSet(all) /\ Cardinality(all) = Len(h)
        BY <1>1, FirstNumbers
    <2>2. S \in SUBSET all
        OBVIOUS
    <2> HIDE DEF all
    <2> QED
        BY <2>1, <2>2, FS_Subset, FS_CardinalityType
<1>3. f \in [S -> Int] /\ \A i \in S : f[i] <= MaxSize /\ f[i] >= 0
    BY SizesTyped
<1> HIDE DEF f
<1>4. Sum(f, S) <= MaxSize * Cardinality(S)
    BY <1>1, <1>2, <1>3, SumBounded
<1>5. Sum(f, S) \in Nat
    BY <1>2, <1>3, SumTyped
<1>6. MaxSize * Cardinality(S) <= MaxSize * MaxPackets
    BY <1>1, <1>2
<1>7. Sum(f, S) = Total(Sizes(h), S)
    <2>1. \A i \in S : f[i] = Sizes(h)[i]
        BY DEF f
    <2> QED
        BY <1>2, <2>1, SumSame, TotalIsSum
<1>8. MaxSize * Cardinality(S) \in Nat /\ MaxSize * MaxPackets \in Nat
    BY <1>1, <1>2
<1> QED
    BY <1>1, <1>2, <1>4, <1>5, <1>6, <1>7, <1>8

\* The gaps up to a packet add up to no more than the time from the first one.
LEMMA GapsBounded ==
    ASSUME NEW h \in Seq(Arrival), Ascending(h), NEW n \in 1..Len(h)
    PROVE  Total(Gaps(h), 1..n) \in Nat /\ Total(Gaps(h), 1..n) <= h[n].at - h[1].at
<1> DEFINE T(m) == Total(Gaps(h), 1..m)
           Good(m) == T(m) \in Nat /\ T(m) <= h[m].at - h[1].at
           bad == {m \in 1..Len(h) : ~Good(m)}
<1>0. \A i \in 1..Len(h) : h[i].at \in Nat
    <2>1. \A i \in 1..Len(h) : h[i] \in Arrival
        OBVIOUS
    <2> QED
        BY <2>1, NumbersAssumption DEF Arrival
<1>1. ASSUME NEW m \in bad, \A l \in bad : m <= l
      PROVE  FALSE
    <2>0. m \in 1..Len(h) /\ ~Good(m)
        OBVIOUS
    <2>1. CASE m = 1
        <3>1. T(0) = 0
            BY TotalNone
        <3>2. Gaps(h)[1] = 0
            BY <2>0, <2>1, GapsTyped
        <3>3. T(0 + 1) = T(0) + Gaps(h)[0 + 1]
            <4>1. \A i \in 1..(0 + 1) : Gaps(h)[i] \in Int
                BY <3>2
            <4> HIDE DEF T
            <4> QED
                BY <4>1, TotalNext DEF T
        <3>4. T(1) = 0
            <4> HIDE DEF T
            <4> QED
                BY <3>1, <3>2, <3>3
        <3> HIDE DEF T
        <3> QED
            BY <1>0, <2>0, <2>1, <3>4
    <2>2. CASE m # 1
        <3> DEFINE l == m - 1
        <3>1. /\ l \in Nat /\ l \in 1..Len(h) /\ l + 1 = m /\ l < m
            BY <2>0, <2>2
        <3>2. Good(l)
            <4> HIDE DEF Good, l
            <4> QED
                BY <1>1, <2>0, <3>1
        <3>3. /\ Gaps(h)[m] \in Nat /\ Gaps(h)[m] <= h[m].at - h[m - 1].at
            BY <2>0, <2>2, GapsTyped
        <3>4. T(l + 1) = T(l) + Gaps(h)[l + 1]
            <4>1. \A i \in 1..(l + 1) : i \in 1..Len(h)
                BY <2>0, <3>1
            <4>2. \A i \in 1..(l + 1) : Gaps(h)[i] \in Int
                BY <4>1, GapsTyped
            <4> HIDE DEF T, l
            <4> QED
                BY <3>1, <4>2, TotalNext DEF T
        <3>5. T(m) = T(l) + Gaps(h)[m]
            <4> HIDE DEF T, l
            <4> QED
                BY <3>1, <3>4
        <3>6. h[m].at \in Nat /\ h[l].at \in Nat /\ h[1].at \in Nat
            BY <1>0, <2>0, <3>1
        <3>7. T(l) \in Nat /\ T(l) <= h[l].at - h[1].at /\ Gaps(h)[m] <= h[m].at - h[l].at
            BY <3>2, <3>3
        <3>8. ~(T(m) \in Nat /\ T(m) <= h[m].at - h[1].at)
            BY <2>0
        <3> DEFINE a == h[m].at
                   b == h[l].at
                   d == h[1].at
                   g == Gaps(h)[m]
                   t == T(l)
        <3>9. a \in Nat /\ b \in Nat /\ d \in Nat /\ g \in Nat /\ t \in Nat /\ t <= b - d /\ g <= a - b
            <4> HIDE DEF T, l
            <4> QED
                BY <3>3, <3>6, <3>7
        <3>10. t + g \in Nat /\ t + g <= a - d
            <4> HIDE DEF a, b, d, g, t
            <4> QED
                BY <3>9
        <3> HIDE DEF T, l
        <3> QED
            BY <3>5, <3>8, <3>10
    <2> QED
        BY <2>1, <2>2
<1>2. bad = {}
    <2>1. bad \in SUBSET Nat
        OBVIOUS
    <2> HIDE DEF bad
    <2> QED
        BY <1>1, <2>1, LeastNumber
<1> QED
    BY <1>2
-------------------------------------------------------------------------------
(* A flow that always comes to one CPU. *)

PinnedTo(k, c) == \A p \in Packets : flow_key(p) = k => p.cpus = {c}

BeforeSeen == {"lookup", "elapsed", "seen"}
BeforeCount == BeforeSeen \cup {"count"}
BeforeBytes == BeforeCount \cup {"bytes"}
BeforeTotal == BeforeBytes \cup {"total"}
Working == Pointing \cup {"lookup", "insert"}

\* CPU c works on flow k, at one of these places.
On(k, c, places) == pc[c] \in places /\ Key(c) = k

\* How many packets of k have passed the places, if all come to CPU c.
Upto(k, c, places) == IF On(k, c, places) THEN Len(history[k]) - 1 ELSE Len(history[k])

\* Every field of the entry is that of the packets that have passed its step.
EntryExact(k, c, e) ==
    /\ e.last_seen = history[k][Upto(k, c, BeforeSeen)].at
    /\ e.count = Upto(k, c, BeforeCount)
    /\ e.tot_bytes = Total(Sizes(history[k]), 1..Upto(k, c, BeforeBytes))
    /\ e.tot_IAT = Total(Gaps(history[k]), 1..Upto(k, c, BeforeTotal))
    /\ On(k, c, {"load"}) => \A f \in Fields : loaded[c][f] \in {NotRead, e[f]}

LastArrived(k, c) ==
    /\ Len(history[k]) > 0
    /\ history[k][Len(history[k])] = [at |-> job[c].at, size |-> Size(c)]

Exact(k, c) ==
    /\ On(k, c, Working) => LastArrived(k, c)
    /\ Present(flow, k) <=> Upto(k, c, Working) > 0
    /\ On(k, c, {"insert"}) => ~Present(flow, k)
    /\ \A s \in Elems : flow[s].key = k => EntryExact(k, c, flow[s])
    /\ On(k, c, Pointing \ {"elapsed"}) => iat_ms[c] = Gaps(history[k])[Len(history[k])]
    /\ features[c].of = k => features[c] = Reference(k)

XInv == ~evicted => \A k \in Keys, c \in CPUs : PinnedTo(k, c) => Exact(k, c)

\* The keys are not those of free elements, and the history of one is typed.
LEMMA KeyHistory ==
    ASSUME IInv, HInv, NEW k \in Keys
    PROVE  /\ k # NoKey
           /\ history[k] \in Seq(Arrival) /\ Ascending(history[k])
           /\ Len(history[k]) \in Nat /\ Len(history[k]) <= MaxPackets
           /\ MaxPackets \in Nat /\ MaxPackets < U32 /\ U32 \in Nat /\ U64 \in Nat
<1>1. k # NoKey
    BY KeyUsed DEF Keys, NoKey
<1>2. history[k] \in Seq(Arrival) /\ Len(history[k]) <= received
    BY DEF HInv, HistoryTyped
<1>3. Len(history[k]) \in Nat
    BY <1>2
<1>4. received \in Nat /\ received <= MaxPackets /\ MaxPackets \in Nat /\ MaxPackets < U32
      /\ U32 \in Nat /\ U64 \in Nat
    BY BoundAssumption, NumbersAssumption DEF IInv, TypeOK
<1>5. Ascending(history[k])
    BY DEF HInv, TimesAscend, Ascending
<1> QED
    BY <1>1, <1>2, <1>3, <1>4, <1>5

LEMMA PresentMeans ==
    ASSUME IInv, NEW k PROVE Present(flow, k) <=> \E s \in Elems : flow[s].key = k
BY DEF Present, Holding, IInv, TypeOK

LEMMA InitXInv == Init => XInv
<1> SUFFICES ASSUME Init, NEW k \in Keys, NEW c \in CPUs, PinnedTo(k, c) PROVE Exact(k, c)
    BY DEF XInv
<1>1. k # NoKey
    BY KeyUsed DEF Keys, NoKey
<1>2. pc[c] = "idle" /\ features[c].of = NoKey /\ \A s \in Elems : flow[s].key = NoKey
    BY DEF Init, Unused, NoFeatures
<1>3. history[k] = <<>> /\ Len(history[k]) = 0
    BY DEF Init
<1>4. \A places \in SUBSET Working : ~On(k, c, places)
    BY <1>2 DEF On, Working, Pointing
<1>5. ~On(k, c, Working) /\ ~On(k, c, {"insert"}) /\ ~On(k, c, Pointing \ {"elapsed"})
    BY <1>2 DEF On, Working, Pointing
<1>6. Upto(k, c, Working) = 0
    BY <1>3, <1>5 DEF Upto
<1>7. ~Present(flow, k)
    BY <1>1, <1>2, InitIInv, PresentMeans
<1> QED
    BY <1>1, <1>2, <1>5, <1>6, <1>7 DEF Exact

\* A step about another flow: the CPU of k does nothing, or is not on k.
LEMMA ExactKept ==
    ASSUME IInv, IInv', NEW k \in Keys, NEW c \in CPUs, Exact(k, c), k # NoKey,
           history'[k] = history[k], FlowKept(k),
           \/ /\ pc'[c] = pc[c] /\ job'[c] = job[c] /\ iat_ms'[c] = iat_ms[c]
              /\ loaded'[c] = loaded[c] /\ features'[c] = features[c]
           \/ /\ ~On(k, c, Working) /\ ~On(k, c, Working)'
              /\ features'[c] = features[c] \/ features'[c].of # k
    PROVE  Exact(k, c)'
<1>1. Present(flow, k)' <=> Present(flow, k)
    <2>1. Present(flow, k)' <=> \E s \in Elems : flow'[s].key = k
        BY PresentMeans DEF Present, Holding, IInv, TypeOK
    <2> QED
        BY <2>1, PresentMeans DEF FlowKept
<1>2. ASSUME NEW places \in SUBSET Working
      PROVE  /\ Upto(k, c, places)' = Upto(k, c, places)
             /\ On(k, c, places)' <=> On(k, c, places)
    BY <1>2 DEF Upto, On, Key
<1>3. /\ BeforeSeen \in SUBSET Working /\ BeforeCount \in SUBSET Working
      /\ BeforeBytes \in SUBSET Working /\ BeforeTotal \in SUBSET Working
      /\ Working \in SUBSET Working /\ {"insert"} \in SUBSET Working /\ {"load"} \in SUBSET Working
      /\ Pointing \ {"elapsed"} \in SUBSET Working
    BY DEF Working, BeforeSeen, BeforeCount, BeforeBytes, BeforeTotal, Pointing
<1>4. ASSUME NEW places \in SUBSET Working, On(k, c, places)
      PROVE  /\ job'[c] = job[c] /\ iat_ms'[c] = iat_ms[c] /\ loaded'[c] = loaded[c]
    BY <1>4 DEF On
<1>5. ASSUME NEW s \in Elems, flow'[s].key = k PROVE EntryExact(k, c, flow[s])'
    <2>1. flow[s].key = k /\ flow'[s] = flow[s]
        BY <1>5 DEF FlowKept
    <2>2. EntryExact(k, c, flow[s])
        BY <2>1 DEF Exact
    <2>3. On(k, c, {"load"})' => On(k, c, {"load"}) /\ loaded'[c] = loaded[c]
        BY <1>2, <1>3, <1>4
    <2>4. /\ Upto(k, c, BeforeSeen)' = Upto(k, c, BeforeSeen)
          /\ Upto(k, c, BeforeCount)' = Upto(k, c, BeforeCount)
          /\ Upto(k, c, BeforeBytes)' = Upto(k, c, BeforeBytes)
          /\ Upto(k, c, BeforeTotal)' = Upto(k, c, BeforeTotal)
        BY <1>2, <1>3
    <2> QED
        BY <2>1, <2>2, <2>3, <2>4 DEF EntryExact
<1>6. Upto(k, c, Working)' = Upto(k, c, Working)
    BY <1>2, <1>3
<1>7. On(k, c, Working)' => LastArrived(k, c)'
    <2>1. On(k, c, Working)' => On(k, c, Working) /\ job'[c] = job[c]
        BY <1>2, <1>3, <1>4
    <2> QED
        BY <2>1 DEF Exact, LastArrived, Size
<1>8. On(k, c, {"insert"})' => ~Present(flow, k)'
    BY <1>1, <1>2, <1>3 DEF Exact
<1>9. On(k, c, Pointing \ {"elapsed"})' => iat_ms'[c] = Gaps(history'[k])[Len(history'[k])]
    BY <1>2, <1>3, <1>4 DEF Exact
<1>10. features'[c].of = k => features'[c] = Reference(k)'
    BY DEF Exact, Reference
<1> QED
    BY <1>1, <1>5, <1>6, <1>7, <1>8, <1>9, <1>10 DEF Exact
\* A step of parse_update about k itself that does not end it.
LEMMA ExactOwn ==
    ASSUME IInv, IInv', HInv, NEW k \in Keys, NEW c \in CPUs, Exact(k, c), k # NoKey,
           Key(c) = k, pc[c] \in Working, pc'[c] \in Working, job'[c] = job[c],
           history'[k] = history[k], features'[c] = features[c],
           \A s \in Elems : flow'[s].key = flow[s].key,
           pc'[c] = "insert" => ~Present(flow, k),
           \A s \in Elems : flow[s].key = k => EntryExact(k, c, flow[s])',
           pc'[c] \in Pointing \ {"elapsed"} => iat_ms'[c] = Gaps(history[k])[Len(history[k])]
    PROVE  Exact(k, c)'
<1>1. Present(flow, k)' <=> Present(flow, k)
    <2>1. Present(flow, k)' <=> \E s \in Elems : flow'[s].key = k
        BY PresentMeans DEF Present, Holding, IInv, TypeOK
    <2> QED
        BY <2>1, PresentMeans
<1>2. Key(c)' = k /\ Size(c)' = Size(c)
    BY DEF Key, Size
<1>3. On(k, c, Working) /\ On(k, c, Working)'
    BY <1>2 DEF On
<1>4. Upto(k, c, Working)' = Upto(k, c, Working)
    BY <1>3 DEF Upto
<1>5. features'[c].of # k
    BY DEF HInv, WhereSent, NoFeatures, Working, Pointing
<1>6. LastArrived(k, c)'
    BY <1>2, <1>3 DEF Exact, LastArrived
<1> QED
    BY <1>1, <1>3, <1>4, <1>5, <1>6 DEF Exact, On

\* Where c points to the entry of k, it is the only one.
LEMMA OwnEntry ==
    ASSUME IInv, HInv, ~evicted, NEW k \in Keys, NEW c \in CPUs, Exact(k, c), Key(c) = k,
           pc[c] \in Pointing
    PROVE  /\ fi[c] \in Elems /\ flow[fi[c]].key = k /\ flow[fi[c]] \in FlowInfo
           /\ \A s \in Elems : flow[s].key = k => s = fi[c]
           /\ EntryExact(k, c, flow[fi[c]])
           /\ Len(history[k]) - 1 \in 1..Len(history[k])
           /\ LastArrived(k, c)
           /\ pc[c] # "elapsed" => iat_ms[c] = Gaps(history[k])[Len(history[k])]
<1>1. fi[c] \in Elems /\ flow[fi[c]].key = k /\ flow[fi[c]] \in FlowInfo /\ k # NoKey
    BY KeyHistory DEF HInv, PointersHold, IInv, TypeOK
<1>2. \A s \in Elems : flow[s].key = k => s = fi[c]
    BY <1>1 DEF HInv, OneHolder
<1>3. EntryExact(k, c, flow[fi[c]])
    BY <1>1 DEF Exact
<1>4. On(k, c, Working) /\ (pc[c] # "elapsed" => On(k, c, Pointing \ {"elapsed"}))
    BY DEF On, Working
<1>5. Upto(k, c, Working) > 0
    BY <1>1, PresentMeans DEF Exact
<1>6. Len(history[k]) - 1 > 0 /\ Len(history[k]) \in Nat
    BY <1>4, <1>5, KeyHistory DEF Upto
<1>7. Len(history[k]) - 1 \in 1..Len(history[k])
    BY <1>6
<1> QED
    BY <1>1, <1>2, <1>3, <1>4, <1>7 DEF Exact

LEMMA LookupExact ==
    ASSUME IInv, IInv', HInv, ~evicted, NEW k \in Keys, NEW c \in CPUs, Exact(k, c), Key(c) = k,
           Lookup(c)
    PROVE  Exact(k, c)'
<1>1. /\ pc[c] = "lookup" /\ pc'[c] \in {"elapsed", "insert"}
      /\ pc'[c] = "insert" => ~Present(flow, k)
      /\ UNCHANGED <<flow, job, loaded, features, history>>
    BY DEF Lookup, GoTo, IInv, TypeOK
<1>2. k # NoKey
    BY KeyHistory
<1>3. ASSUME NEW s \in Elems, flow[s].key = k PROVE EntryExact(k, c, flow[s])'
    <2>1. pc'[c] = "elapsed"
        BY <1>1, <1>3, PresentMeans
    <2>2. EntryExact(k, c, flow[s])
        BY <1>3 DEF Exact
    <2> QED
        BY <1>1, <2>1, <2>2
        DEF EntryExact, Upto, On, Key, BeforeSeen, BeforeCount, BeforeBytes, BeforeTotal
<1>4. pc[c] \in Working /\ pc'[c] \in Working /\ pc'[c] \notin Pointing \ {"elapsed"}
    BY <1>1 DEF Working, Pointing
<1>5. /\ job'[c] = job[c] /\ history'[k] = history[k] /\ features'[c] = features[c]
      /\ \A s \in Elems : flow'[s].key = flow[s].key
    BY <1>1
<1> QED
    BY <1>1, <1>2, <1>3, <1>4, <1>5, ExactOwn

LEMMA ElapsedExact ==
    ASSUME IInv, IInv', HInv, ~evicted, NEW k \in Keys, NEW c \in CPUs, Exact(k, c), Key(c) = k,
           Elapsed(c)
    PROVE  Exact(k, c)'
<1> DEFINE h == history[k]
           n == Len(h)
           gap == h[n].at - h[n - 1].at
<1>1. /\ pc[c] = "elapsed" /\ pc'[c] = "seen"
      /\ UNCHANGED <<flow, job, loaded, features, history>>
      /\ iat_ms'[c] = ((job[c].at - flow[fi[c]].last_seen) % U64) \div NsPerMs
    BY DEF Elapsed, GoTo, IInv, TypeOK
<1>2. k # NoKey /\ h \in Seq(Arrival) /\ Ascending(h) /\ n \in Nat
    BY KeyHistory
<1>3. ASSUME NEW s \in Elems, flow[s].key = k PROVE EntryExact(k, c, flow[s])'
    <2>1. EntryExact(k, c, flow[s])
        BY <1>3 DEF Exact
    <2> QED
        BY <1>1, <2>1
        DEF EntryExact, Upto, On, Key, BeforeSeen, BeforeCount, BeforeBytes, BeforeTotal
<1>4. pc[c] \in Working /\ pc[c] \in Pointing /\ pc'[c] \in Working /\ pc'[c] # "insert"
    BY <1>1 DEF Working, Pointing
<1>5. EntryExact(k, c, flow[fi[c]]) /\ n - 1 \in 1..n /\ LastArrived(k, c)
    BY <1>4, OwnEntry
<1>6. job[c].at = h[n].at /\ flow[fi[c]].last_seen = h[n - 1].at
    BY <1>1, <1>5 DEF LastArrived, EntryExact, Upto, On, BeforeSeen
<1>7. n \in 1..Len(h) /\ n > 1
    BY <1>2, <1>5
<1>8. gap \in 0..MaxTime /\ Gaps(h)[n] = gap \div NsPerMs
    <2> HIDE DEF h
    <2> QED
        BY <1>2, <1>7, GapsTyped
<1>9. gap % U64 = gap
    <2> HIDE DEF gap
    <2> QED
        BY <1>8, NumbersAssumption
<1>10. iat_ms'[c] = Gaps(h)[n]
    <2>1. iat_ms'[c] = (gap % U64) \div NsPerMs
        BY <1>1, <1>6
    <2> QED
        BY <1>8, <1>9, <2>1
<1>11. /\ job'[c] = job[c] /\ history'[k] = history[k] /\ features'[c] = features[c]
       /\ \A s \in Elems : flow'[s].key = flow[s].key
    BY <1>1
<1> QED
    BY <1>2, <1>3, <1>4, <1>10, <1>11, ExactOwn

LEMMA SeenExact ==
    ASSUME IInv, IInv', HInv, ~evicted, NEW k \in Keys, NEW c \in CPUs, Exact(k, c), Key(c) = k,
           Seen(c)
    PROVE  Exact(k, c)'
<1>1. /\ pc[c] = "seen" /\ pc'[c] = "count"
      /\ UNCHANGED <<job, iat_ms, loaded, features, history>>
      /\ flow' = [flow EXCEPT ![fi[c]].last_seen = job[c].at]
    BY DEF Seen, GoTo, IInv, TypeOK
<1>2. k # NoKey
    BY KeyHistory
<1>3. pc[c] \in Working /\ pc[c] \in Pointing /\ pc'[c] \in Working /\ pc'[c] # "insert"
    BY <1>1 DEF Working, Pointing
<1>4. /\ fi[c] \in Elems /\ flow[fi[c]] \in FlowInfo
      /\ \A s \in Elems : flow[s].key = k => s = fi[c]
      /\ EntryExact(k, c, flow[fi[c]]) /\ LastArrived(k, c)
      /\ iat_ms[c] = Gaps(history[k])[Len(history[k])]
    BY <1>1, <1>3, OwnEntry
<1>5. /\ \A s \in Elems : flow'[s].key = flow[s].key
      /\ flow'[fi[c]].last_seen = job[c].at
      /\ \A f \in Fields : flow'[fi[c]][f] = flow[fi[c]][f]
    BY <1>1, <1>4 DEF FlowInfo, IInv, TypeOK, Fields
<1>6. ASSUME NEW s \in Elems, flow[s].key = k PROVE EntryExact(k, c, flow[s])'
    <2>1. s = fi[c] /\ job[c].at = history[k][Len(history[k])].at
        BY <1>4, <1>6 DEF LastArrived
    <2>2. /\ flow'[s].count = flow[s].count /\ flow'[s].tot_bytes = flow[s].tot_bytes
          /\ flow'[s].tot_IAT = flow[s].tot_IAT
        BY <1>5, <2>1 DEF Fields
    <2> QED
        BY <1>1, <1>4, <1>5, <2>1, <2>2
        DEF EntryExact, Upto, On, Key, BeforeSeen, BeforeCount, BeforeBytes, BeforeTotal
<1>7. job'[c] = job[c] /\ history'[k] = history[k] /\ features'[c] = features[c] /\ iat_ms'[c] = iat_ms[c]
    BY <1>1
<1> QED
    BY <1>2, <1>3, <1>4, <1>5, <1>6, <1>7, ExactOwn

\* The next total of a flow.
LEMMA NextTotals ==
    ASSUME IInv, HInv, NEW k \in Keys, Len(history[k]) > 0
    PROVE  LET h == history[k]
               n == Len(h)
           IN  /\ Total(Sizes(h), 1..n) = (Total(Sizes(h), 1..(n - 1)) + h[n].size) % U64
               /\ Total(Gaps(h), 1..n) = (Total(Gaps(h), 1..(n - 1)) + Gaps(h)[n]) % U64
               /\ n = ((n - 1) + 1) % U32
<1> DEFINE h == history[k]
           n == Len(h)
           m == n - 1
<1>1. /\ h \in Seq(Arrival) /\ Ascending(h) /\ n \in Nat /\ n > 0 /\ n <= MaxPackets
      /\ MaxPackets \in Nat /\ MaxPackets < U32 /\ U32 \in Nat /\ U64 \in Nat
    BY KeyHistory
<1>2. m \in Nat /\ m + 1 = n /\ n \in 1..Len(h)
    BY <1>1
<1>3. n = (m + 1) % U32
    <2>1. n \in Nat /\ n < U32 /\ U32 \in Nat
        BY <1>1
    <2> HIDE DEF n, m
    <2>2. n % U32 = n
        BY <2>1
    <2> QED
        BY <1>2, <2>2
<1>4. Total(Sizes(h), 1..n) = Total(Sizes(h), 1..m) + h[n].size
    <2>1. \A i \in 1..(m + 1) : Sizes(h)[i] \in Int
        <3> HIDE DEF h
        <3> QED
            BY <1>1, <1>2, SizesTyped
    <2>2. Sizes(h)[n] = h[n].size
        <3> HIDE DEF h
        <3> QED
            BY <1>1, <1>2, SizesTyped
    <2>3. Total(Sizes(h), 1..(m + 1)) = Total(Sizes(h), 1..m) + Sizes(h)[m + 1]
        <3> HIDE DEF h, m
        <3> QED
            BY <1>2, <2>1, TotalNext
    <2> HIDE DEF h, n, m
    <2> QED
        BY <1>2, <2>2, <2>3
<1>5. Total(Sizes(h), 1..n) \in Nat /\ Total(Sizes(h), 1..n) < U64
    <2>1. 1..n \in SUBSET (1..Len(h))
        OBVIOUS
    <2> HIDE DEF h
    <2> QED
        BY <1>1, <2>1, BytesBounded
<1>6. Total(Gaps(h), 1..n) = Total(Gaps(h), 1..m) + Gaps(h)[n]
    <2>1. \A i \in 1..(m + 1) : Gaps(h)[i] \in Int
        <3> HIDE DEF h
        <3> QED
            BY <1>1, <1>2, GapsTyped
    <2>2. Total(Gaps(h), 1..(m + 1)) = Total(Gaps(h), 1..m) + Gaps(h)[m + 1]
        <3> HIDE DEF h, m
        <3> QED
            BY <1>2, <2>1, TotalNext
    <2> HIDE DEF h, n, m
    <2> QED
        BY <1>2, <2>2
<1>7. Total(Gaps(h), 1..n) \in Nat /\ Total(Gaps(h), 1..n) < U64
    <2>1. Total(Gaps(h), 1..n) \in Nat /\ Total(Gaps(h), 1..n) <= h[n].at - h[1].at
        <3> HIDE DEF h
        <3> QED
            BY <1>1, <1>2, GapsBounded
    <2>2. h[n].at \in 0..MaxTime /\ h[1].at \in 0..MaxTime
        <3>1. h[n] \in Arrival /\ h[1] \in Arrival
            BY <1>1, <1>2
        <3> HIDE DEF h
        <3> QED
            BY <3>1 DEF Arrival
    <2> HIDE DEF h, n
    <2> QED
        BY <2>1, <2>2, NumbersAssumption
<1>8. \A a \in Nat : a < U64 => a = a % U64
    BY <1>1
<1> HIDE DEF h, n
<1>9. /\ Total(Sizes(h), 1..n) = (Total(Sizes(h), 1..m) + h[n].size) % U64
      /\ Total(Gaps(h), 1..n) = (Total(Gaps(h), 1..m) + Gaps(h)[n]) % U64
    BY <1>4, <1>5, <1>6, <1>7, <1>8
<1> QED
    BY <1>3, <1>9 DEF h, n

LEMMA AddExact ==
    ASSUME IInv, IInv', HInv, ~evicted, NEW k \in Keys, NEW c \in CPUs, Exact(k, c), Key(c) = k,
           Add(c)
    PROVE  Exact(k, c)'
<1> DEFINE h == history[k]
           n == Len(h)
           old == flow[fi[c]]
           new == flow'[fi[c]]
<1>1. /\ pc[c] \in {"count", "bytes", "total"} /\ pc'[c] \in {"bytes", "total", "load"}
      /\ UNCHANGED <<job, iat_ms, loaded, features, history>>
    BY DEF Add, GoTo, IInv, TypeOK
<1>2. k # NoKey /\ n \in Nat
    BY KeyHistory
<1>3. pc[c] \in Working /\ pc[c] \in Pointing /\ pc'[c] \in Working /\ pc'[c] # "insert"
    BY <1>1 DEF Working, Pointing
<1>4. /\ fi[c] \in Elems /\ old \in FlowInfo
      /\ \A s \in Elems : flow[s].key = k => s = fi[c]
      /\ EntryExact(k, c, old) /\ LastArrived(k, c)
      /\ iat_ms[c] = Gaps(h)[n]
    BY <1>1, <1>3, OwnEntry
<1>5. h[n].size = Size(c) /\ n > 0
    BY <1>4 DEF LastArrived
<1>6. /\ Total(Sizes(h), 1..n) = (Total(Sizes(h), 1..(n - 1)) + Size(c)) % U64
      /\ Total(Gaps(h), 1..n) = (Total(Gaps(h), 1..(n - 1)) + iat_ms[c]) % U64
      /\ n = ((n - 1) + 1) % U32
    BY <1>4, <1>5, NextTotals
<1>7. \A s \in Elems : flow'[s].key = flow[s].key
    BY <1>3, StepKeepsKeys DEF Cpu, Insert, GoTo, Working, Pointing
<1>8. ~On(k, c, {"load"}) /\ loaded'[c] = NothingLoaded
    BY <1>1 DEF On, HInv, ReadWhere
<1>9. EntryExact(k, c, flow[fi[c]])'
    <2>1. \A f \in Fields : loaded'[c][f] = NotRead
        BY <1>8 DEF NothingLoaded
    <2>2. CASE GoTo(c, "count", "bytes") /\ flow' = [flow EXCEPT ![fi[c]].count = (@ + 1) % U32]
        <3>1. pc[c] = "count" /\ pc'[c] = "bytes"
            BY <2>2 DEF GoTo, IInv, TypeOK
        <3>2. /\ new.last_seen = old.last_seen /\ new.tot_bytes = old.tot_bytes
              /\ new.tot_IAT = old.tot_IAT /\ new.count = (old.count + 1) % U32
            BY <1>4, <2>2 DEF FlowInfo, IInv, TypeOK
        <3>3. fi'[c] = fi[c] /\ Key(c)' = k
            BY <1>1 DEF Add, Key
        <3>4. /\ old.last_seen = h[n].at /\ old.count = n - 1
              /\ old.tot_bytes = Total(Sizes(h), 1..(n - 1)) /\ old.tot_IAT = Total(Gaps(h), 1..(n - 1))
            BY <1>4, <3>1
            DEF EntryExact, Upto, On, BeforeSeen, BeforeCount, BeforeBytes, BeforeTotal
        <3>5. /\ new.last_seen = h[n].at /\ new.count = n
              /\ new.tot_bytes = Total(Sizes(h), 1..(n - 1)) /\ new.tot_IAT = Total(Gaps(h), 1..(n - 1))
            BY <1>6, <3>2, <3>4
        <3> QED
            BY <1>1, <2>1, <3>1, <3>3, <3>5
            DEF EntryExact, Upto, On, BeforeSeen, BeforeCount, BeforeBytes, BeforeTotal
    <2>3. CASE GoTo(c, "bytes", "total") /\ flow' = [flow EXCEPT ![fi[c]].tot_bytes = (@ + Size(c)) % U64]
        <3>1. pc[c] = "bytes" /\ pc'[c] = "total"
            BY <2>3 DEF GoTo, IInv, TypeOK
        <3>2. /\ new.last_seen = old.last_seen /\ new.tot_bytes = (old.tot_bytes + Size(c)) % U64
              /\ new.tot_IAT = old.tot_IAT /\ new.count = old.count
            BY <1>4, <2>3 DEF FlowInfo, IInv, TypeOK
        <3>3. fi'[c] = fi[c] /\ Key(c)' = k
            BY <1>1 DEF Add, Key
        <3>4. /\ old.last_seen = h[n].at /\ old.count = n
              /\ old.tot_bytes = Total(Sizes(h), 1..(n - 1)) /\ old.tot_IAT = Total(Gaps(h), 1..(n - 1))
            BY <1>4, <3>1
            DEF EntryExact, Upto, On, BeforeSeen, BeforeCount, BeforeBytes, BeforeTotal
        <3>5. /\ new.last_seen = h[n].at /\ new.count = n
              /\ new.tot_bytes = Total(Sizes(h), 1..n) /\ new.tot_IAT = Total(Gaps(h), 1..(n - 1))
            BY <1>6, <3>2, <3>4
        <3> QED
            BY <1>1, <2>1, <3>1, <3>3, <3>5
            DEF EntryExact, Upto, On, BeforeSeen, BeforeCount, BeforeBytes, BeforeTotal
    <2>4. CASE GoTo(c, "total", "load") /\ flow' = [flow EXCEPT ![fi[c]].tot_IAT = (@ + iat_ms[c]) % U64]
        <3>1. pc[c] = "total" /\ pc'[c] = "load"
            BY <2>4 DEF GoTo, IInv, TypeOK
        <3>2. /\ new.last_seen = old.last_seen /\ new.tot_IAT = (old.tot_IAT + iat_ms[c]) % U64
              /\ new.tot_bytes = old.tot_bytes /\ new.count = old.count
            BY <1>4, <2>4 DEF FlowInfo, IInv, TypeOK
        <3>3. fi'[c] = fi[c] /\ Key(c)' = k
            BY <1>1 DEF Add, Key
        <3>4. /\ old.last_seen = h[n].at /\ old.count = n
              /\ old.tot_bytes = Total(Sizes(h), 1..n) /\ old.tot_IAT = Total(Gaps(h), 1..(n - 1))
            BY <1>4, <3>1
            DEF EntryExact, Upto, On, BeforeSeen, BeforeCount, BeforeBytes, BeforeTotal
        <3>5. /\ new.last_seen = h[n].at /\ new.count = n
              /\ new.tot_bytes = Total(Sizes(h), 1..n) /\ new.tot_IAT = Total(Gaps(h), 1..n)
            BY <1>6, <3>2, <3>4
        <3> QED
            BY <1>1, <2>1, <3>1, <3>3, <3>5
            DEF EntryExact, Upto, On, BeforeSeen, BeforeCount, BeforeBytes, BeforeTotal
    <2> QED
        BY <2>2, <2>3, <2>4 DEF Add
<1>10. /\ job'[c] = job[c] /\ history'[k] = history[k] /\ features'[c] = features[c]
       /\ iat_ms'[c] = iat_ms[c] /\ fi' = fi
    BY <1>1 DEF Add
<1>11. \A s \in Elems : flow[s].key = k => EntryExact(k, c, flow[s])'
    BY <1>4, <1>9, <1>10 DEF EntryExact
<1> QED
    BY <1>2, <1>3, <1>4, <1>7, <1>10, <1>11, ExactOwn

LEMMA LoadExact ==
    ASSUME IInv, IInv', HInv, ~evicted, NEW k \in Keys, NEW c \in CPUs, Exact(k, c), Key(c) = k,
           NEW field \in Fields, Load(c, field)
    PROVE  Exact(k, c)'
<1>1. /\ pc[c] = "load" /\ pc' = pc
      /\ UNCHANGED <<flow, job, iat_ms, features, history>>
      /\ loaded' = [loaded EXCEPT ![c][field] = flow[fi[c]][field]]
    BY DEF Load
<1>2. k # NoKey
    BY KeyHistory
<1>3. pc[c] \in Working /\ pc[c] \in Pointing /\ pc'[c] \in Working /\ pc'[c] # "insert"
    BY <1>1 DEF Working, Pointing
<1>4. /\ \A s \in Elems : flow[s].key = k => s = fi[c]
      /\ EntryExact(k, c, flow[fi[c]])
      /\ iat_ms[c] = Gaps(history[k])[Len(history[k])]
    BY <1>1, <1>3, OwnEntry
<1>5. ASSUME NEW s \in Elems, flow[s].key = k PROVE EntryExact(k, c, flow[s])'
    <2>1. s = fi[c] /\ EntryExact(k, c, flow[s])
        BY <1>4, <1>5
    <2>2. \A f \in Fields : loaded[c][f] \in {NotRead, flow[s][f]}
        BY <1>1, <2>1 DEF EntryExact, On
    <2>3. \A f \in Fields : loaded'[c][f] \in {NotRead, flow[s][f]}
        BY <1>1, <2>1, <2>2 DEF IInv, TypeOK
    <2> QED
        BY <1>1, <2>1, <2>3 DEF EntryExact, Upto, On, Key
<1>6. /\ job'[c] = job[c] /\ history'[k] = history[k] /\ features'[c] = features[c]
      /\ iat_ms'[c] = iat_ms[c] /\ \A s \in Elems : flow'[s].key = flow[s].key
    BY <1>1
<1> QED
    BY <1>2, <1>3, <1>4, <1>5, <1>6, ExactOwn

LEMMA UpdateExact ==
    ASSUME IInv, IInv', HInv, HInv', ~evicted, NEW k \in Keys, NEW c \in CPUs, Exact(k, c),
           Key(c) = k, Update(c)
    PROVE  Exact(k, c)'
<1> DEFINE h == history[k]
           n == Len(h)
           e == flow[fi[c]]
<1>1. /\ pc[c] = "load" /\ pc'[c] = "idle" /\ UNCHANGED <<flow, history>>
      /\ \A field \in Fields : loaded[c][field] # NotRead
      /\ features'[c] = FeaturesOf(k, loaded[c].tot_bytes, loaded[c].tot_IAT, loaded[c].count, iat_ms[c])
    BY DEF Update, Return, GoTo, IInv, TypeOK
<1>2. k # NoKey /\ n \in Nat
    BY KeyHistory
<1>3. pc[c] \in Pointing
    BY <1>1 DEF Pointing
<1>4. /\ \A s \in Elems : flow[s].key = k => s = fi[c]
      /\ fi[c] \in Elems /\ e.key = k /\ EntryExact(k, c, e) /\ n - 1 \in 1..n
      /\ iat_ms[c] = Gaps(h)[n]
    BY <1>1, <1>3, OwnEntry
<1>5. /\ e.last_seen = h[n].at /\ e.count = n
      /\ e.tot_bytes = Total(Sizes(h), 1..n) /\ e.tot_IAT = Total(Gaps(h), 1..n)
    BY <1>1, <1>4
    DEF EntryExact, Upto, On, BeforeSeen, BeforeCount, BeforeBytes, BeforeTotal
<1>6. loaded[c].count = e.count /\ loaded[c].tot_bytes = e.tot_bytes /\ loaded[c].tot_IAT = e.tot_IAT
    BY <1>1, <1>4 DEF EntryExact, On, Fields
<1>7. features'[c] = Reference(k)'
    BY <1>1, <1>4, <1>5, <1>6 DEF Reference
<1>8. \A places \in SUBSET Working : ~On(k, c, places)'
    BY <1>1 DEF On, Working, Pointing
<1>9. ~On(k, c, Working)' /\ ~On(k, c, {"insert"})' /\ ~On(k, c, Pointing \ {"elapsed"})'
      /\ ~On(k, c, {"load"})' /\ ~On(k, c, BeforeSeen)' /\ ~On(k, c, BeforeCount)'
      /\ ~On(k, c, BeforeBytes)' /\ ~On(k, c, BeforeTotal)'
    BY <1>1 DEF On, Working, Pointing, BeforeSeen, BeforeCount, BeforeBytes, BeforeTotal
<1>10. Present(flow, k)' /\ Upto(k, c, Working)' > 0
    <2>1. Present(flow, k)
        BY <1>4, PresentMeans
    <2> QED
        BY <1>1, <1>2, <1>4, <1>9, <2>1 DEF Upto, Present, Holding
<1>11. \A s \in Elems : flow'[s].key = k => EntryExact(k, c, flow[s])'
    BY <1>1, <1>4, <1>5, <1>9 DEF EntryExact, Upto
<1> QED
    BY <1>7, <1>9, <1>10, <1>11 DEF Exact

LEMMA InsertExact ==
    ASSUME IInv, IInv', HInv, HInv', ~evicted, ~evicted', NEW k \in Keys, NEW c \in CPUs,
           Exact(k, c), Key(c) = k, Insert(c)
    PROVE  Exact(k, c)'
<1> DEFINE h == history[k]
           n == Len(h)
<1>1. /\ pc[c] = "insert" /\ pc'[c] = "idle" /\ history' = history
      /\ features'[c] = FeaturesOf(k, Size(c), 0, 1, 0)
    BY DEF Insert, Return, GoTo, IInv, TypeOK
<1>2. k # NoKey /\ n \in Nat /\ h \in Seq(Arrival) /\ Ascending(h)
    BY KeyHistory
<1>3. On(k, c, Working) /\ On(k, c, {"insert"})
    BY <1>1 DEF On, Working
<1>4. /\ ~Present(flow, k) /\ n > 0 /\ n - 1 <= 0 /\ LastArrived(k, c)
    BY <1>2, <1>3 DEF Exact, Upto, LastArrived
<1>5. n = 1 /\ n - 1 = 0 /\ h[1].at = job[c].at /\ h[1].size = Size(c)
    <2>1. n = 1 /\ n - 1 = 0
        <3> HIDE DEF n
        <3> QED
            BY <1>2, <1>4
    <2>2. h[n] = [at |-> job[c].at, size |-> Size(c)]
        BY <1>4 DEF LastArrived
    <2> QED
        BY <2>1, <2>2
<1>6. PICK s \in Elems : /\ flow[s].key = NoKey
                         /\ \A t \in Elems \ {s} : flow'[t] = flow[t]
                         /\ flow'[s] = NewFlow(c)
    BY <1>4, InsertShape
<1>7. Total(Sizes(h), 1..n) = Size(c) /\ Total(Gaps(h), 1..n) = 0 /\ Gaps(h)[n] = 0
    <2>1. Gaps(h)[1] = 0
        <3> HIDE DEF h
        <3> QED
            BY <1>2, <1>5, GapsTyped
    <2>2. Size(c) \in Nat /\ Size(c) < U64 /\ 0 < U64 /\ U64 \in Nat
        BY <1>1, AtWork, NumbersAssumption
    <2>3. Total(Sizes(h), 1..0) = 0 /\ Total(Gaps(h), 1..0) = 0
        BY TotalNone
    <2>4. /\ Total(Sizes(h), 1..n) = (0 + Size(c)) % U64
          /\ Total(Gaps(h), 1..n) = (0 + 0) % U64
        BY <1>4, <1>5, <2>1, <2>3, NextTotals
    <2> QED
        BY <1>5, <2>1, <2>2, <2>4
<1>8. features'[c] = Reference(k)'
    BY <1>1, <1>5, <1>7 DEF Reference
<1>9. ~On(k, c, Working)' /\ ~On(k, c, {"insert"})' /\ ~On(k, c, Pointing \ {"elapsed"})'
      /\ ~On(k, c, {"load"})' /\ ~On(k, c, BeforeSeen)' /\ ~On(k, c, BeforeCount)'
      /\ ~On(k, c, BeforeBytes)' /\ ~On(k, c, BeforeTotal)'
    BY <1>1 DEF On, Working, Pointing, BeforeSeen, BeforeCount, BeforeBytes, BeforeTotal
<1>10. flow'[s].key = k /\ \A t \in Elems \ {s} : flow'[t].key # k
    <2>1. \A t \in Elems : flow[t].key # k
        BY <1>4, PresentMeans
    <2> QED
        BY <1>6, <2>1 DEF NewFlow
<1>11. Present(flow, k)' /\ Upto(k, c, Working)' > 0
    BY <1>1, <1>4, <1>9, <1>10 DEF Upto, Present, Holding, IInv, TypeOK
<1>12. EntryExact(k, c, flow[s])'
    BY <1>1, <1>5, <1>6, <1>7, <1>9 DEF EntryExact, Upto, NewFlow
<1> QED
    BY <1>8, <1>9, <1>10, <1>11, <1>12 DEF Exact

LEMMA ReceiveExact ==
    ASSUME IInv, IInv', HInv, HInv', NEW c \in CPUs, NEW p \in Packets, Receive(c, p),
           NEW k \in Keys, k = flow_key(p), Exact(k, c)
    PROVE  Exact(k, c)'
<1> DEFINE h == history[k]
           n == Len(h)
           g == history'[k]
           a == [at |-> now, size |-> p.size]
<1>1. /\ pc[c] = "idle" /\ pc'[c] = "lookup" /\ flow' = flow
      /\ job'[c] = [pkt |-> p, at |-> now] /\ features'[c] = NoFeatures
    BY DEF Receive, IInv, TypeOK
<1>2. k # NoKey /\ n \in Nat /\ h \in Seq(Arrival) /\ Ascending(h)
    BY KeyHistory
<1>3. /\ a \in Arrival /\ g = Append(h, a)
      /\ g \in Seq(Arrival) /\ Ascending(g)
    BY Arrives DEF HInv, HistoryTyped, TimesAscend, Ascending
<1>4. /\ Len(g) = n + 1 /\ g[n + 1] = a
      /\ \A i \in 1..n : g[i] = h[i]
    <2> HIDE DEF a, h, g
    <2> QED
        BY <1>2, <1>3, Appended
<1>5. Key(c)' = k /\ Size(c)' = p.size
    BY <1>1 DEF Key, Size
<1>6. LastArrived(k, c)'
    BY <1>1, <1>2, <1>4, <1>5 DEF LastArrived
<1>7. /\ On(k, c, Working)' /\ On(k, c, BeforeSeen)' /\ On(k, c, BeforeCount)'
      /\ On(k, c, BeforeBytes)' /\ On(k, c, BeforeTotal)'
      /\ ~On(k, c, {"insert"})' /\ ~On(k, c, {"load"})' /\ ~On(k, c, Pointing \ {"elapsed"})'
    BY <1>1, <1>5 DEF On, Working, Pointing, BeforeSeen, BeforeCount, BeforeBytes, BeforeTotal
<1>8. /\ ~On(k, c, Working) /\ ~On(k, c, BeforeSeen) /\ ~On(k, c, BeforeCount)
      /\ ~On(k, c, BeforeBytes) /\ ~On(k, c, BeforeTotal)
    BY <1>1 DEF On, Working, Pointing, BeforeSeen, BeforeCount, BeforeBytes, BeforeTotal
<1>9. Len(g) - 1 = n
    BY <1>2, <1>4
<1>10. /\ Total(Sizes(g), 1..n) = Total(Sizes(h), 1..n)
       /\ Total(Gaps(g), 1..n) = Total(Gaps(h), 1..n)
    <2>1. \A i \in 1..n : i \in 1..Len(g)
        BY <1>2, <1>4
    <2>2. \A i \in 1..n : Sizes(g)[i] = Sizes(h)[i]
        <3>1. \A i \in 1..n : Sizes(g)[i] = g[i].size /\ Sizes(h)[i] = h[i].size
            <4> HIDE DEF g, h
            <4> QED
                BY <1>2, <1>3, <2>1, SizesTyped
        <3> QED
            BY <1>4, <3>1
    <2>3. \A i \in 1..n : Gaps(g)[i] = Gaps(h)[i]
        <3>1. ASSUME NEW i \in 1..n, i > 1 PROVE Gaps(g)[i] = Gaps(h)[i]
            <4>1. /\ Gaps(g)[i] = (g[i].at - g[i - 1].at) \div NsPerMs
                  /\ Gaps(h)[i] = (h[i].at - h[i - 1].at) \div NsPerMs
                  /\ i - 1 \in 1..n
                <5> HIDE DEF g, h
                <5> QED
                    BY <1>2, <1>3, <2>1, <3>1, GapsTyped
            <4> QED
                BY <1>4, <4>1
        <3>2. n > 0 => Gaps(g)[1] = 0 /\ Gaps(h)[1] = 0
            <4>1. n > 0 => Len(g) > 0 /\ Len(h) > 0
                BY <1>2, <1>4
            <4> HIDE DEF g, h, n
            <4> QED
                BY <1>2, <1>3, <4>1, GapsTyped
        <3>3. \A i \in 1..n : n > 0 /\ (i = 1 \/ i > 1)
            BY <1>2
        <3> QED
            BY <3>1, <3>2, <3>3
    <2> HIDE DEF g, h
    <2> QED
        BY <1>2, <2>2, <2>3, TotalSame
<1>11. ASSUME NEW s \in Elems, flow[s].key = k PROVE EntryExact(k, c, flow[s])'
    <2>1. n \in 1..n
        <3>1. Upto(k, c, Working) > 0
            BY <1>11, PresentMeans DEF Exact
        <3> QED
            BY <1>2, <1>8, <3>1 DEF Upto
    <2>2. /\ flow[s].last_seen = h[n].at /\ flow[s].count = n
          /\ flow[s].tot_bytes = Total(Sizes(h), 1..n) /\ flow[s].tot_IAT = Total(Gaps(h), 1..n)
        BY <1>8, <1>11 DEF Exact, EntryExact, Upto
    <2>3. h[n].at = g[n].at
        BY <1>4, <2>1
    <2> QED
        BY <1>1, <1>7, <1>9, <1>10, <2>2, <2>3 DEF EntryExact, Upto
<1>12. Present(flow, k)' <=> Upto(k, c, Working)' > 0
    <2>1. Upto(k, c, Working)' = n /\ Upto(k, c, Working) = n
        BY <1>7, <1>8, <1>9 DEF Upto
    <2> QED
        BY <1>1, <2>1 DEF Exact, Present, Holding
<1> QED
    BY <1>1, <1>2, <1>6, <1>7, <1>11, <1>12 DEF Exact, NoFeatures

\* A step that is about another flow, or about none.
LEMMA StepExactOther ==
    ASSUME IInv, IInv', HInv, HInv', NEW d \in CPUs, Cpu(d), ~evicted',
           NEW k \in Keys, NEW c \in CPUs, k # Key(d), Exact(k, c)
    PROVE  Exact(k, c)'
<1>1. k # NoKey
    BY KeyHistory
<1>2. FlowKept(k) /\ history' = history
    BY <1>1, OtherFlowsKept, StepFrame
<1>3. CASE c # d
    BY <1>1, <1>2, <1>3, StepFrame, ExactKept
<1>4. CASE c = d
    <2>1. ~On(k, c, Working)
        BY <1>4 DEF On
    <2>2. ~On(k, c, Working)'
        <3>1. pc'[c] # "idle" => job'[c] = job[c]
            BY <1>4, StepFrame
        <3> QED
            BY <1>4, <3>1 DEF On, Working, Pointing, Key
    <2>3. features'[c] = features[c] \/ features'[c].of # k
        BY <1>4, StepFeatures DEF HInv
    <2> QED
        BY <1>1, <1>2, <2>1, <2>2, <2>3, ExactKept
<1> QED
    BY <1>3, <1>4

LEMMA StepXInv ==
    ASSUME IInv, IInv', HInv, HInv', XInv, NEW d \in CPUs, Cpu(d)
    PROVE  XInv'
<1> SUFFICES ASSUME ~evicted', NEW k \in Keys, NEW c \in CPUs, PinnedTo(k, c)
             PROVE  Exact(k, c)'
    BY DEF XInv, PinnedTo
<1>1. ~evicted
    <2>1. CASE Insert(d)
        BY <2>1, InsertShape
    <2>2. CASE ~Insert(d)
        BY <2>2, StepKeepsKeys
    <2> QED
        BY <2>1, <2>2
<1>2. Exact(k, c)
    BY <1>1 DEF XInv
<1>3. CASE k # Key(d)
    BY <1>2, <1>3, StepExactOther
<1>4. CASE k = Key(d)
    <2>1. d = c
        <3>1. pc[d] # "idle"
            BY StepFrame
        <3>2. job[d].pkt \in Packets /\ d \in job[d].pkt.cpus
            BY <3>1, AtWork DEF HInv, WhereSent
        <3> QED
            BY <1>4, <3>2 DEF PinnedTo, Key
    <2>2. CASE Lookup(c)
        BY <1>1, <1>2, <1>4, <2>1, <2>2, LookupExact
    <2>3. CASE Elapsed(c)
        BY <1>1, <1>2, <1>4, <2>1, <2>3, ElapsedExact
    <2>4. CASE Seen(c)
        BY <1>1, <1>2, <1>4, <2>1, <2>4, SeenExact
    <2>5. CASE Add(c)
        BY <1>1, <1>2, <1>4, <2>1, <2>5, AddExact
    <2>6. CASE \E field \in Fields : Load(c, field)
        BY <1>1, <1>2, <1>4, <2>1, <2>6, LoadExact
    <2>7. CASE Update(c)
        BY <1>1, <1>2, <1>4, <2>1, <2>7, UpdateExact
    <2>8. CASE Insert(c)
        BY <1>1, <1>2, <1>4, <2>1, <2>8, InsertExact
    <2> QED
        BY <2>1, <2>2, <2>3, <2>4, <2>5, <2>6, <2>7, <2>8 DEF Cpu
<1> QED
    BY <1>3, <1>4

LEMMA ReceiveXInv ==
    ASSUME IInv, IInv', HInv, HInv', XInv, NEW d \in CPUs, NEW p \in Packets, Receive(d, p)
    PROVE  XInv'
<1> SUFFICES ASSUME ~evicted', NEW k \in Keys, NEW c \in CPUs, PinnedTo(k, c)
             PROVE  Exact(k, c)'
    BY DEF XInv, PinnedTo
<1>1. /\ d \in p.cpus /\ pc[d] = "idle" /\ evicted' = evicted /\ flow' = flow
      /\ job' = [job EXCEPT ![d] = [pkt |-> p, at |-> now]]
      /\ pc' = [pc EXCEPT ![d] = "lookup"]
      /\ features' = [features EXCEPT ![d] = NoFeatures]
      /\ UNCHANGED <<iat_ms, loaded>>
    BY DEF Receive
<1>2. Exact(k, c) /\ k # NoKey
    BY <1>1, KeyHistory DEF XInv
<1>3. CASE k = flow_key(p)
    <2>1. c = d
        BY <1>1, <1>3 DEF PinnedTo
    <2> QED
        BY <1>2, <1>3, <2>1, ReceiveExact
<1>4. CASE k # flow_key(p)
    <2>1. history'[k] = history[k]
        BY <1>4, Arrives DEF HInv
    <2>2. FlowKept(k)
        BY <1>1 DEF FlowKept
    <2>3. CASE c # d
        <3>1. pc'[c] = pc[c] /\ job'[c] = job[c] /\ iat_ms'[c] = iat_ms[c]
              /\ loaded'[c] = loaded[c] /\ features'[c] = features[c]
            BY <1>1, <2>3 DEF IInv, TypeOK
        <3> QED
            BY <1>2, <2>1, <2>2, <3>1, ExactKept
    <2>4. CASE c = d
        <3>1. /\ ~On(k, c, Working) /\ ~On(k, c, Working)'
              /\ features'[c].of # k
            BY <1>1, <1>2, <1>4, <2>4 DEF On, Key, Working, Pointing, NoFeatures, IInv, TypeOK
        <3> QED
            BY <1>2, <2>1, <2>2, <3>1, ExactKept
    <2> QED
        BY <2>3, <2>4
<1> QED
    BY <1>3, <1>4

LEMMA NextXInv == IInv /\ IInv' /\ HInv /\ HInv' /\ XInv /\ [Next]_vars => XInv'
<1> SUFFICES ASSUME IInv, IInv', HInv, HInv', XInv, [Next]_vars PROVE XInv'
    OBVIOUS
<1>1. CASE Tick \/ UNCHANGED vars
    <2> SUFFICES ASSUME ~evicted', NEW k \in Keys, NEW c \in CPUs, PinnedTo(k, c)
                 PROVE  Exact(k, c)'
        BY DEF XInv, PinnedTo
    <2>1. UNCHANGED <<flow, pc, job, fi, iat_ms, loaded, features, received, history, evicted>>
        BY <1>1 DEF Tick, vars
    <2>2. Exact(k, c) /\ k # NoKey
        BY <2>1, KeyHistory DEF XInv
    <2>3. history'[k] = history[k] /\ FlowKept(k)
        BY <2>1 DEF FlowKept
    <2> QED
        BY <2>1, <2>2, <2>3, ExactKept
<1> QED
    BY <1>1, ReceiveXInv, StepXInv DEF Next, Finished

\* A flow whose packets all come to one CPU gets exactly the features of its
\* packets, while nothing is evicted: whatever the other CPUs do between its
\* lookup, its adds and its reads, and without overflow of a 64-bit total.
THEOREM FeaturesAlwaysExact == Spec => []FeaturesExact
<1>1. IInv /\ HInv /\ XInv => FeaturesExact
    <2> SUFFICES ASSUME IInv, HInv, XInv, ~evicted, NEW c \in CPUs, features[c] # NoFeatures,
                        Pinned(features[c].of)
                 PROVE  features[c] = Reference(features[c].of)
        BY DEF FeaturesExact
    <2>1. PICK p \in Packets : flow_key(p) = features[c].of /\ c \in p.cpus
        BY DEF HInv, WhereSent
    <2>2. PICK d \in CPUs : PinnedTo(features[c].of, d)
        BY DEF Pinned, PinnedTo
    <2>3. d = c /\ features[c].of \in Keys
        BY <2>1, <2>2, KeyUsed DEF PinnedTo
    <2> QED
        BY <2>2, <2>3 DEF XInv, Exact
<1> QED
    BY <1>1, InitIInv, NextIInv, InitHInv, NextHInv, InitXInv, NextXInv, PTL DEF Spec
-------------------------------------------------------------------------------
(* A flow that may come to several CPUs. *)

At(k, places) == {c \in CPUs : On(k, c, places)}
CountedPlaces == {"bytes", "total", "load"}

\* The packets of k that are counted without their bytes.
Half(k, nr) == {nr[c] : c \in At(k, {"bytes"})}

\* M are the packets of k that its entry counts, and nr[c] the one that CPU c works
\* on.  Those that the entry misses came before it was there, to other CPUs than the
\* one that inserted it; BeforeCount may still be counted.
Settles(k, M, nr) ==
    /\ M \subseteq 1..Len(history[k])
    /\ \A c \in Busy(k) : /\ nr[c] \in 1..Len(history[k])
                          /\ history[k][nr[c]].size = Size(c)
                          /\ nr[c] \in M <=> pc[c] \in CountedPlaces
    /\ \A c, d \in Busy(k) : nr[c] = nr[d] => c = d
    /\ \A s \in Elems : flow[s].key = k =>
          /\ flow[s].count = Cardinality(M)
          /\ flow[s].tot_bytes = Total(Sizes(history[k]), M \ Half(k, nr))
          /\ Len(history[k]) <= Cardinality(M) + Cardinality(At(k, BeforeCount)) + Cardinality(CPUs) - 1
    /\ ~Present(flow, k) =>
          Len(history[k]) <= Cardinality(At(k, {"lookup"})) + Cardinality(At(k, {"insert"}))

SInv == ~evicted => \A k \in Keys : \E M \in SUBSET Nat, nr \in [CPUs -> Nat] : Settles(k, M, nr)

LEMMA InitSInv == Init => SInv
<1> SUFFICES ASSUME Init, NEW k \in Keys
             PROVE  \E M \in SUBSET Nat, nr \in [CPUs -> Nat] : Settles(k, M, nr)
    BY DEF SInv
<1> DEFINE M == {}
           nr == [c \in CPUs |-> 0]
<1>1. k # NoKey
    BY KeyUsed DEF Keys, NoKey
<1>2. Busy(k) = {} /\ \A s \in Elems : flow[s].key # k
    BY <1>1 DEF Init, Unused, Busy
<1>3. Len(history[k]) = 0
    BY DEF Init
<1>4. Len(history[k]) <= Cardinality(At(k, {"lookup"})) + Cardinality(At(k, {"insert"}))
    <2>1. At(k, {"lookup"}) = {} /\ At(k, {"insert"}) = {}
        BY DEF Init, At, On
    <2>2. Cardinality(At(k, {"lookup"})) = 0 /\ Cardinality(At(k, {"insert"})) = 0
        BY <2>1, FS_EmptySet, Zenon
    <2> QED
        BY <1>3, <2>2
<1>5. Settles(k, M, nr)
    BY <1>2, <1>4 DEF Settles
<1> QED
    BY <1>5

\* The CPUs at some places are finitely many.
LEMMA AtFinite ==
    ASSUME NEW k, NEW places
    PROVE  /\ IsFiniteSet(At(k, places)) /\ Cardinality(At(k, places)) \in Nat
           /\ Cardinality(At(k, places)) <= Cardinality(CPUs) /\ Cardinality(CPUs) \in Nat
BY NumbersAssumption, FS_Subset, FS_CardinalityType DEF At

LEMMA BusyWorks == ASSUME IInv, NEW k PROVE Busy(k) = At(k, Working)
BY DEF Busy, At, On, Working, Pointing, IInv, TypeOK, Steps

\* A step that neither counts nor adds bytes to k, and after which k is still
\* present or its CPUs are still where they were.
LEMMA SettlesKept ==
    ASSUME IInv, IInv', NEW k \in Keys, NEW M, NEW nr, Settles(k, M, nr),
           history'[k] = history[k],
           \A s \in Elems : flow'[s].key = k <=> flow[s].key = k,
           \A s \in Elems : flow[s].key = k =>
              flow'[s].count = flow[s].count /\ flow'[s].tot_bytes = flow[s].tot_bytes,
           At(k, BeforeCount)' = At(k, BeforeCount), At(k, {"bytes"})' = At(k, {"bytes"}),
           Busy(k)' \subseteq Busy(k),
           \A c \in Busy(k)' : job'[c] = job[c] /\ (pc'[c] \in CountedPlaces <=> pc[c] \in CountedPlaces),
           \/ Present(flow, k)
           \/ At(k, {"lookup"})' = At(k, {"lookup"}) /\ At(k, {"insert"})' = At(k, {"insert"})
    PROVE  Settles(k, M, nr)'
<1>1. Present(flow, k)' <=> Present(flow, k)
    <2>1. Present(flow, k)' <=> \E s \in Elems : flow'[s].key = k
        BY PresentMeans DEF Present, Holding, IInv, TypeOK
    <2> QED
        BY <2>1, PresentMeans
<1>2. Half(k, nr)' = Half(k, nr)
    BY DEF Half
<1>3. \A c \in Busy(k)' : Size(c)' = Size(c)
    BY DEF Size
<1>4. \A c \in Busy(k)' : /\ nr[c] \in 1..Len(history'[k])
                          /\ history'[k][nr[c]].size = Size(c)'
                          /\ nr[c] \in M <=> pc'[c] \in CountedPlaces
    BY <1>3 DEF Settles
<1>5. \A c, d \in Busy(k)' : nr[c] = nr[d] => c = d
    BY DEF Settles
<1>6. \A s \in Elems : flow'[s].key = k =>
          /\ flow'[s].count = Cardinality(M)
          /\ flow'[s].tot_bytes = Total(Sizes(history'[k]), M \ Half(k, nr)')
          /\ Len(history'[k]) <= Cardinality(M) + Cardinality(At(k, BeforeCount)') + Cardinality(CPUs) - 1
    BY <1>2 DEF Settles
<1>7. ~Present(flow, k)' =>
          Len(history'[k]) <= Cardinality(At(k, {"lookup"})') + Cardinality(At(k, {"insert"})')
    BY <1>1 DEF Settles
<1>8. M \subseteq 1..Len(history'[k])
    BY DEF Settles
<1> QED
    BY <1>4, <1>5, <1>6, <1>7, <1>8 DEF Settles

\* A step about another flow.
LEMMA SettlesOther ==
    ASSUME IInv, IInv', NEW k \in Keys, NEW M, NEW nr, Settles(k, M, nr),
           history'[k] = history[k], FlowKept(k),
           \A c \in CPUs : \/ pc'[c] = pc[c] /\ job'[c] = job[c]
                           \/ ~On(k, c, Working) /\ ~On(k, c, Working)'
    PROVE  Settles(k, M, nr)'
<1>1. ASSUME NEW places \in SUBSET Working
      PROVE  At(k, places)' = At(k, places)
    BY <1>1 DEF At, On, Key
<1>2. /\ BeforeCount \in SUBSET Working /\ {"bytes"} \in SUBSET Working
      /\ {"lookup"} \in SUBSET Working /\ {"insert"} \in SUBSET Working /\ Working \in SUBSET Working
    BY DEF Working, BeforeSeen, BeforeCount, Pointing
<1>3. Busy(k)' = At(k, Working)' /\ Busy(k) = At(k, Working)
    BY BusyWorks DEF Busy, At, On, Working, Pointing, IInv, TypeOK, Steps
<1>4. \A c \in Busy(k)' : pc'[c] = pc[c] /\ job'[c] = job[c]
    BY <1>3 DEF At
<1>5. Busy(k)' = Busy(k)
    BY <1>1, <1>2, <1>3
<1>6. /\ At(k, BeforeCount)' = At(k, BeforeCount) /\ At(k, {"bytes"})' = At(k, {"bytes"})
      /\ At(k, {"lookup"})' = At(k, {"lookup"}) /\ At(k, {"insert"})' = At(k, {"insert"})
    BY <1>1, <1>2
<1> QED
    BY <1>4, <1>5, <1>6, SettlesKept DEF FlowKept

\* Where the CPUs of k are after a step of one of them.
LEMMA OwnPlaces ==
    ASSUME IInv, IInv', NEW c \in CPUs, Cpu(c), NEW k \in Keys, Key(c) = k
    PROVE  /\ \A places \in SUBSET Working :
                 /\ At(k, places)' = IF pc'[c] \in places THEN At(k, places) \cup {c}
                                     ELSE At(k, places) \ {c}
                 /\ c \in At(k, places) <=> pc[c] \in places
           /\ Busy(k)' = IF pc'[c] = "idle" THEN Busy(k) \ {c} ELSE Busy(k)
           /\ c \in Busy(k)
           /\ \A d \in Busy(k)' : job'[d] = job[d]
           /\ \A d \in Busy(k)' \ {c} : pc'[d] = pc[d]
<1>1. /\ pc[c] # "idle"
      /\ pc'[c] # "idle" => job'[c] = job[c]
      /\ \A d \in CPUs \ {c} : pc'[d] = pc[d] /\ job'[d] = job[d]
    BY StepFrame
<1>0. pc'[c] # "idle" => Key(c)' = k
    BY <1>1 DEF Key
<1>2. ASSUME NEW places \in SUBSET Working
      PROVE  /\ At(k, places)' = IF pc'[c] \in places THEN At(k, places) \cup {c}
                                 ELSE At(k, places) \ {c}
             /\ c \in At(k, places) <=> pc[c] \in places
    <2>1. "idle" \notin places
        BY DEF Working, Pointing
    <2>2. \A d \in CPUs \ {c} : On(k, d, places)' <=> On(k, d, places)
        BY <1>1 DEF On, Key
    <2>3. (On(k, c, places)' <=> pc'[c] \in places) /\ (On(k, c, places) <=> pc[c] \in places)
        <3>1. pc'[c] \in places => Key(c)' = k
            BY <1>0, <2>1
        <3> QED
            BY <3>1 DEF On
    <2>4. CASE pc'[c] \in places
        <3>1. At(k, places)' = At(k, places) \cup {c}
            BY <2>2, <2>3, <2>4 DEF At
        <3> QED
            BY <2>3, <2>4, <3>1 DEF At
    <2>5. CASE pc'[c] \notin places
        <3>1. At(k, places)' = At(k, places) \ {c}
            BY <2>2, <2>3, <2>5 DEF At
        <3> QED
            BY <2>3, <2>5, <3>1 DEF At
    <2> QED
        BY <2>4, <2>5
<1>3. /\ Busy(k)' = IF pc'[c] = "idle" THEN Busy(k) \ {c} ELSE Busy(k)
      /\ c \in Busy(k)
      /\ \A d \in Busy(k)' : job'[d] = job[d]
      /\ \A d \in Busy(k)' \ {c} : pc'[d] = pc[d]
    <2> DEFINE works(d) == pc[d] # "idle" /\ Key(d) = k
    <2>0. \A d \in CPUs : d \in Busy(k) <=> works(d)
        BY DEF Busy
    <2>1. works(c) /\ c \in Busy(k)
        BY <1>1, <2>0
    <2>2. \A d \in CPUs \ {c} : d \in Busy(k)' <=> works(d)
        <3>1. \A d \in CPUs \ {c} : pc'[d] = pc[d] /\ Key(d)' = Key(d)
            BY <1>1 DEF Key
        <3>2. \A d \in CPUs : d \in Busy(k)' <=> pc'[d] # "idle" /\ Key(d)' = k
            BY DEF Busy
        <3> QED
            BY <3>1, <3>2
    <2>3. c \in Busy(k)' <=> pc'[c] # "idle"
        BY <1>0 DEF Busy
    <2>4. Busy(k)' \subseteq CPUs /\ Busy(k) \subseteq CPUs
        BY DEF Busy
    <2> HIDE DEF works
    <2>5. CASE pc'[c] = "idle"
        <3>1. Busy(k)' = Busy(k) \ {c}
            BY <2>0, <2>1, <2>2, <2>3, <2>4, <2>5
        <3> QED
            BY <1>1, <2>1, <2>4, <2>5, <3>1
    <2>6. CASE pc'[c] # "idle"
        <3>1. Busy(k)' = Busy(k)
            BY <2>0, <2>1, <2>2, <2>3, <2>4, <2>6
        <3>2. \A d \in CPUs : job'[d] = job[d] /\ (d # c => pc'[d] = pc[d])
            BY <1>1, <2>6
        <3> QED
            BY <2>1, <2>4, <2>6, <3>1, <3>2
    <2> QED
        BY <2>5, <2>6
<1> QED
    BY <1>2, <1>3

LEMMA PlaceSets ==
    /\ BeforeCount \in SUBSET Working /\ {"bytes"} \in SUBSET Working
    /\ {"lookup"} \in SUBSET Working /\ {"insert"} \in SUBSET Working
    /\ BeforeCount = {"lookup", "elapsed", "seen", "count"}
BY DEF Working, BeforeSeen, BeforeCount, Pointing

\* While nothing is evicted, a pointer of c leads to the only entry of its flow.
LEMMA PointedEntry ==
    ASSUME IInv, HInv, ~evicted, NEW c \in CPUs, pc[c] \in Pointing, NEW k \in Keys, Key(c) = k
    PROVE  /\ fi[c] \in Elems /\ flow[fi[c]].key = k /\ flow[fi[c]] \in FlowInfo
           /\ \A s \in Elems : flow[s].key = k => s = fi[c]
           /\ Present(flow, k)
<1>1. fi[c] \in Elems /\ flow[fi[c]].key = k /\ flow[fi[c]] \in FlowInfo /\ k # NoKey
    BY KeyHistory DEF HInv, PointersHold, IInv, TypeOK
<1> QED
    BY <1>1, PresentMeans DEF HInv, OneHolder

\* The steps about k itself that count nothing and add no bytes.
LEMMA QuietSettles ==
    ASSUME IInv, IInv', HInv, ~evicted, NEW c \in CPUs, Cpu(c), NEW k \in Keys, Key(c) = k,
           NEW M, NEW nr, Settles(k, M, nr), Present(flow, k), ~Insert(c),
           pc[c] \notin {"count", "bytes"}
    PROVE  Settles(k, M, nr)'
<1>1. history'[k] = history[k] /\ \A s \in Elems : flow'[s].key = flow[s].key
    BY StepFrame, StepKeepsKeys
<1>2. /\ \A s \in Elems : flow'[s].count = flow[s].count /\ flow'[s].tot_bytes = flow[s].tot_bytes
      /\ pc[c] = "lookup" => pc'[c] \in {"elapsed", "insert"}
      /\ pc[c] = "lookup" => pc'[c] # "insert"
      /\ pc[c] = "elapsed" => pc'[c] = "seen"
      /\ pc[c] = "seen" => pc'[c] = "count"
      /\ pc[c] = "total" => pc'[c] = "load"
      /\ pc[c] = "load" => pc'[c] \in {"load", "idle"}
      /\ pc[c] \in {"lookup", "elapsed", "seen", "total", "load"}
    <2> USE DEF IInv, TypeOK, GoTo
    <2>1. CASE Lookup(c) \/ Elapsed(c)
        BY <2>1 DEF Lookup, Elapsed
    <2>2. CASE Seen(c)
        BY <2>2 DEF Seen, FlowInfo
    <2>3. CASE Add(c)
        <3>1. /\ GoTo(c, "total", "load")
              /\ flow' = [flow EXCEPT ![fi[c]].tot_IAT = (@ + iat_ms[c]) % U64]
            BY <2>3 DEF Add
        <3>2. \A s \in Elems : flow'[s].count = flow[s].count /\ flow'[s].tot_bytes = flow[s].tot_bytes
            BY <3>1 DEF FlowInfo
        <3> QED
            BY <3>1, <3>2
    <2>4. CASE \E f \in Fields : Load(c, f)
        BY <2>4 DEF Load
    <2>5. CASE Update(c)
        BY <2>5 DEF Update, Return
    <2> QED
        BY <2>1, <2>2, <2>3, <2>4, <2>5 DEF Cpu
<1>3. At(k, BeforeCount)' = At(k, BeforeCount) /\ At(k, {"bytes"})' = At(k, {"bytes"})
    <2>1. pc'[c] \in BeforeCount <=> pc[c] \in BeforeCount
        BY <1>2, PlaceSets
    <2>2. pc'[c] # "bytes" /\ pc[c] # "bytes"
        BY <1>2
    <2>3. /\ At(k, BeforeCount)' = IF pc'[c] \in BeforeCount THEN At(k, BeforeCount) \cup {c}
                                   ELSE At(k, BeforeCount) \ {c}
          /\ c \in At(k, BeforeCount) <=> pc[c] \in BeforeCount
        <3>1. BeforeCount \in SUBSET Working
            BY PlaceSets
        <3> QED
            BY <3>1, OwnPlaces
    <2>4. /\ At(k, {"bytes"})' = IF pc'[c] \in {"bytes"} THEN At(k, {"bytes"}) \cup {c}
                                ELSE At(k, {"bytes"}) \ {c}
          /\ c \in At(k, {"bytes"}) <=> pc[c] \in {"bytes"}
        BY OwnPlaces, PlaceSets
    <2>5. At(k, BeforeCount)' = At(k, BeforeCount)
        BY <2>1, <2>3
    <2>6. At(k, {"bytes"})' = At(k, {"bytes"})
        BY <2>2, <2>4
    <2> QED
        BY <2>5, <2>6
<1>4. /\ Busy(k)' \subseteq Busy(k)
      /\ \A d \in Busy(k)' : job'[d] = job[d] /\ (pc'[d] \in CountedPlaces <=> pc[d] \in CountedPlaces)
    <2>1. pc'[c] # "idle" => (pc'[c] \in CountedPlaces <=> pc[c] \in CountedPlaces)
        BY <1>2 DEF CountedPlaces
    <2> QED
        BY <2>1, OwnPlaces
<1> QED
    BY <1>1, <1>2, <1>3, <1>4, SettlesKept

\* A lookup that finds no entry.
LEMMA MissSettles ==
    ASSUME IInv, IInv', HInv, ~evicted, NEW c \in CPUs, Cpu(c), NEW k \in Keys, Key(c) = k,
           NEW M, NEW nr, Settles(k, M, nr), ~Present(flow, k), Lookup(c)
    PROVE  Settles(k, M, nr)'
<1>1. /\ pc[c] = "lookup" /\ pc'[c] = "insert" /\ flow' = flow /\ history' = history
    BY DEF Lookup, GoTo, Present, Holding, IInv, TypeOK
<1>2. /\ At(k, {"lookup"})' = At(k, {"lookup"}) \ {c} /\ c \in At(k, {"lookup"})
      /\ At(k, {"insert"})' = At(k, {"insert"}) \cup {c} /\ c \notin At(k, {"insert"})
    BY <1>1, OwnPlaces, PlaceSets
<1>3. /\ Cardinality(At(k, {"lookup"})') = Cardinality(At(k, {"lookup"})) - 1
      /\ Cardinality(At(k, {"insert"})') = Cardinality(At(k, {"insert"})) + 1
    <2> DEFINE L == At(k, {"lookup"})
               I == At(k, {"insert"})
    <2>1. IsFiniteSet(L) /\ IsFiniteSet(I)
        BY AtFinite
    <2> HIDE DEF L, I
    <2>2. Cardinality(L \ {c}) = Cardinality(L) - 1 /\ Cardinality(I \cup {c}) = Cardinality(I) + 1
        BY <1>2, <2>1, FS_RemoveElement, FS_AddElement DEF L, I
    <2> QED
        BY <1>2, <2>2 DEF L, I
<1>4. /\ Busy(k)' = Busy(k)
      /\ \A d \in Busy(k) : Size(d)' = Size(d) /\ (pc'[d] \in CountedPlaces <=> pc[d] \in CountedPlaces)
    BY <1>1, OwnPlaces DEF CountedPlaces, Size
<1>5. \A s \in Elems : flow'[s].key = k =>
          /\ flow'[s].count = Cardinality(M)
          /\ flow'[s].tot_bytes = Total(Sizes(history'[k]), M \ Half(k, nr)')
          /\ Len(history'[k]) <= Cardinality(M) + Cardinality(At(k, BeforeCount)') + Cardinality(CPUs) - 1
    BY <1>1, PresentMeans
<1>6. Len(history'[k]) <= Cardinality(At(k, {"lookup"})') + Cardinality(At(k, {"insert"})')
    <2>1. Len(history[k]) <= Cardinality(At(k, {"lookup"})) + Cardinality(At(k, {"insert"}))
        BY DEF Settles
    <2> QED
        BY <1>1, <1>3, <2>1, AtFinite, KeyHistory
<1>7. \A d \in Busy(k)' : /\ nr[d] \in 1..Len(history'[k])
                          /\ history'[k][nr[d]].size = Size(d)'
                          /\ nr[d] \in M <=> pc'[d] \in CountedPlaces
    BY <1>1, <1>4 DEF Settles
<1>8. \A d, e \in Busy(k)' : nr[d] = nr[e] => d = e
    BY <1>4 DEF Settles
<1>9. M \subseteq 1..Len(history'[k])
    BY <1>1 DEF Settles
<1>10. ~Present(flow, k)' =>
          Len(history'[k]) <= Cardinality(At(k, {"lookup"})') + Cardinality(At(k, {"insert"})')
    BY <1>6
<1> QED
    BY <1>5, <1>7, <1>8, <1>9, <1>10 DEF Settles
\* The CPUs at one place of those that have counted no bytes of k yet.
LEMMA AtChanges ==
    ASSUME IInv, IInv', NEW c \in CPUs, Cpu(c), NEW k \in Keys, Key(c) = k,
           NEW places \in SUBSET Working
    PROVE  /\ pc'[c] \in places => At(k, places)' = At(k, places) \cup {c}
           /\ pc'[c] \notin places => At(k, places)' = At(k, places) \ {c}
           /\ c \in At(k, places) <=> pc[c] \in places
BY OwnPlaces

\* The packets that the CPUs of k work on, as far as they are counted.
LEMMA CountedPackets ==
    ASSUME IInv, HInv, NEW k \in Keys, NEW M, NEW nr, Settles(k, M, nr)
    PROVE  /\ M \in SUBSET (1..Len(history[k])) /\ IsFiniteSet(M)
           /\ Cardinality(M) \in Nat /\ Cardinality(M) <= Len(history[k])
           /\ Len(history[k]) \in Nat
           /\ Half(k, nr) \subseteq M
<1>1. M \in SUBSET (1..Len(history[k])) /\ Len(history[k]) \in Nat
    BY KeyHistory DEF Settles
<1>2. IsFiniteSet(1..Len(history[k])) /\ Cardinality(1..Len(history[k])) = Len(history[k])
    BY <1>1, FirstNumbers
<1>3. IsFiniteSet(M) /\ Cardinality(M) \in Nat /\ Cardinality(M) <= Len(history[k])
    <2> DEFINE all == 1..Len(history[k])
    <2>1. IsFiniteSet(all) /\ M \in SUBSET all /\ Cardinality(all) = Len(history[k])
        BY <1>1, <1>2
    <2> HIDE DEF all
    <2> QED
        BY <2>1, FS_Subset, FS_CardinalityType
<1>4. \A c \in At(k, {"bytes"}) : c \in Busy(k) /\ pc[c] \in CountedPlaces
    BY DEF At, On, Busy, CountedPlaces
<1>5. Half(k, nr) \subseteq M
    BY <1>4 DEF Half, Settles
<1> QED
    BY <1>1, <1>3, <1>5

LEMMA CountSettles ==
    ASSUME IInv, IInv', HInv, ~evicted, NEW c \in CPUs, Cpu(c), NEW k \in Keys, Key(c) = k,
           NEW M, NEW nr, Settles(k, M, nr), pc[c] = "count"
    PROVE  Settles(k, M \cup {nr[c]}, nr)'
<1> DEFINE n == Len(history[k])
           x == nr[c]
           N == M \cup {x}
<1>1. Add(c)
    BY DEF Cpu, Lookup, Elapsed, Seen, Load, Update, Insert, GoTo
<1>2. /\ pc'[c] = "bytes" /\ fi' = fi /\ history' = history
      /\ flow' = [flow EXCEPT ![fi[c]].count = (@ + 1) % U32]
    BY <1>1 DEF Add, GoTo, IInv, TypeOK
<1>3. /\ fi[c] \in Elems /\ flow[fi[c]].key = k /\ flow[fi[c]] \in FlowInfo
      /\ \A s \in Elems : flow[s].key = k => s = fi[c]
    BY PointedEntry DEF Pointing
<1>4. /\ \A s \in Elems : flow'[s].key = flow[s].key
      /\ flow'[fi[c]].count = (flow[fi[c]].count + 1) % U32
      /\ flow'[fi[c]].tot_bytes = flow[fi[c]].tot_bytes
    BY <1>2, <1>3 DEF FlowInfo, IInv, TypeOK
<1>5. c \in Busy(k) /\ Busy(k)' = Busy(k)
    BY <1>2, OwnPlaces
<1>6. x \in 1..n /\ x \notin M /\ \A d \in Busy(k) \ {c} : nr[d] # x
    BY <1>5 DEF Settles, CountedPlaces
<1>7. /\ M \in SUBSET (1..n) /\ IsFiniteSet(M) /\ Cardinality(M) \in Nat /\ n \in Nat
      /\ Half(k, nr) \subseteq M
    BY CountedPackets
<1>8. N \subseteq 1..n /\ Cardinality(N) = Cardinality(M) + 1 /\ Cardinality(N) <= n
    <2>1. N \subseteq 1..n
        BY <1>6, <1>7
    <2>2. Cardinality(N) = Cardinality(M) + 1
        BY <1>6, <1>7, FS_AddElement
    <2>3. IsFiniteSet(1..n) /\ Cardinality(1..n) = n
        BY <1>7, FirstNumbers
    <2>4. Cardinality(N) <= n
        <3> DEFINE all == 1..n
        <3>1. N \in SUBSET all /\ IsFiniteSet(all) /\ Cardinality(all) = n
            BY <2>1, <2>3
        <3> HIDE DEF all, N, n
        <3> QED
            BY <3>1, FS_Subset
    <2> QED
        BY <2>1, <2>2, <2>4
<1>9. /\ At(k, {"bytes"})' = At(k, {"bytes"}) \cup {c}
      /\ At(k, BeforeCount)' = At(k, BeforeCount) \ {c} /\ c \in At(k, BeforeCount)
    <2>1. BeforeCount \in SUBSET Working /\ {"bytes"} \in SUBSET Working
          /\ "count" \in BeforeCount /\ "bytes" \notin BeforeCount
        BY PlaceSets
    <2> QED
        BY <1>2, <2>1, AtChanges
<1>10. N \ Half(k, nr)' = M \ Half(k, nr)
    <2>1. Half(k, nr)' = Half(k, nr) \cup {x}
        BY <1>9 DEF Half
    <2> QED
        BY <1>6, <2>1
<1>11. Cardinality(At(k, BeforeCount)') = Cardinality(At(k, BeforeCount)) - 1
    BY <1>9, AtFinite, FS_RemoveElement
<1>12. \A d \in Busy(k) : Size(d)' = Size(d) /\ (d # c => pc'[d] = pc[d])
    BY <1>5, OwnPlaces DEF Size
<1>13. ASSUME NEW s \in Elems, flow'[s].key = k
       PROVE  /\ flow'[s].count = Cardinality(N)
              /\ flow'[s].tot_bytes = Total(Sizes(history'[k]), N \ Half(k, nr)')
              /\ Len(history'[k]) <= Cardinality(N) + Cardinality(At(k, BeforeCount)') + Cardinality(CPUs) - 1
    <2>1. s = fi[c]
        BY <1>3, <1>4, <1>13
    <2>2. /\ flow[s].count = Cardinality(M)
          /\ flow[s].tot_bytes = Total(Sizes(history[k]), M \ Half(k, nr))
          /\ n <= Cardinality(M) + Cardinality(At(k, BeforeCount)) + Cardinality(CPUs) - 1
        BY <1>3, <2>1 DEF Settles
    <2>3. flow'[s].count = Cardinality(N)
        <3>1. Cardinality(N) < U32 /\ U32 \in Nat /\ Cardinality(N) \in Nat
            BY <1>7, <1>8, KeyHistory
        <3>2. flow'[s].count = Cardinality(N) % U32
            BY <1>4, <1>8, <2>1, <2>2
        <3> HIDE DEF N
        <3> QED
            BY <3>1, <3>2
    <2>4. flow'[s].tot_bytes = Total(Sizes(history'[k]), N \ Half(k, nr)')
        BY <1>2, <1>4, <1>10, <2>1, <2>2
    <2>5. n <= Cardinality(N) + Cardinality(At(k, BeforeCount)') + Cardinality(CPUs) - 1
        BY <1>7, <1>8, <1>11, <2>2, AtFinite
    <2> QED
        BY <1>2, <2>3, <2>4, <2>5
<1>14. \A d \in Busy(k)' : /\ nr[d] \in 1..Len(history'[k])
                           /\ history'[k][nr[d]].size = Size(d)'
                           /\ nr[d] \in N <=> pc'[d] \in CountedPlaces
    BY <1>2, <1>5, <1>6, <1>12 DEF Settles, CountedPlaces
<1>15. \A d, e \in Busy(k)' : nr[d] = nr[e] => d = e
    BY <1>5 DEF Settles
<1>16. Present(flow, k)'
    BY <1>3, <1>4 DEF Present, Holding, IInv, TypeOK
<1>17. N \subseteq 1..Len(history'[k])
    BY <1>2, <1>8
<1> HIDE DEF N
<1>18. Settles(k, N, nr)'
    BY <1>13, <1>14, <1>15, <1>16, <1>17 DEF Settles
<1> QED
    BY <1>18 DEF N

LEMMA BytesSettles ==
    ASSUME IInv, IInv', HInv, ~evicted, NEW c \in CPUs, Cpu(c), NEW k \in Keys, Key(c) = k,
           NEW M, NEW nr, Settles(k, M, nr), pc[c] = "bytes"
    PROVE  Settles(k, M, nr)'
<1> DEFINE h == history[k]
           n == Len(h)
           x == nr[c]
           old == M \ Half(k, nr)
           new == M \ Half(k, nr)'
<1>1. Add(c)
    BY DEF Cpu, Lookup, Elapsed, Seen, Load, Update, Insert, GoTo
<1>2. /\ pc'[c] = "total" /\ fi' = fi /\ history' = history
      /\ flow' = [flow EXCEPT ![fi[c]].tot_bytes = (@ + Size(c)) % U64]
    BY <1>1 DEF Add, GoTo, IInv, TypeOK
<1>3. /\ fi[c] \in Elems /\ flow[fi[c]].key = k /\ flow[fi[c]] \in FlowInfo
      /\ \A s \in Elems : flow[s].key = k => s = fi[c]
    BY PointedEntry DEF Pointing
<1>4. /\ \A s \in Elems : flow'[s].key = flow[s].key
      /\ flow'[fi[c]].count = flow[fi[c]].count
      /\ flow'[fi[c]].tot_bytes = (flow[fi[c]].tot_bytes + Size(c)) % U64
    BY <1>2, <1>3 DEF FlowInfo, IInv, TypeOK
<1>5. c \in Busy(k) /\ Busy(k)' = Busy(k)
    BY <1>2, OwnPlaces
<1>6. x \in 1..n /\ x \in M /\ h[x].size = Size(c) /\ \A d \in Busy(k) \ {c} : nr[d] # x
    BY <1>5 DEF Settles, CountedPlaces
<1>7. /\ M \in SUBSET (1..n) /\ IsFiniteSet(M) /\ n \in Nat
      /\ Half(k, nr) \subseteq M /\ h \in Seq(Arrival) /\ n <= MaxPackets
    BY CountedPackets, KeyHistory
<1>8. /\ At(k, {"bytes"})' = At(k, {"bytes"}) \ {c} /\ c \in At(k, {"bytes"})
      /\ At(k, BeforeCount)' = At(k, BeforeCount)
    <2>1. BeforeCount \in SUBSET Working /\ {"bytes"} \in SUBSET Working
          /\ "total" \notin BeforeCount /\ "bytes" \notin BeforeCount
        BY PlaceSets
    <2>2. At(k, BeforeCount)' = At(k, BeforeCount) \ {c} /\ c \notin At(k, BeforeCount)
        BY <1>2, <2>1, AtChanges
    <2>3. At(k, {"bytes"})' = At(k, {"bytes"}) \ {c} /\ c \in At(k, {"bytes"})
        BY <1>2, <2>1, AtChanges
    <2> QED
        BY <2>2, <2>3
<1>9. new = old \cup {x} /\ x \notin old
    <2>1. At(k, {"bytes"}) \subseteq Busy(k)
        BY DEF At, On, Busy
    <2>2. Half(k, nr)' = Half(k, nr) \ {x} /\ x \in Half(k, nr)
        BY <1>6, <1>8, <2>1 DEF Half
    <2> QED
        BY <1>6, <2>2
<1>10. Total(Sizes(h), new) = (Total(Sizes(h), old) + Size(c)) % U64
    <2>1. old \in SUBSET (1..n) /\ new \in SUBSET (1..n) /\ x \in 1..n
        BY <1>6, <1>7
    <2> HIDE DEF h, old, new, x
    <2>2. IsFiniteSet(old) /\ Total(Sizes(h), old) \in Nat
        BY <1>7, <2>1, BytesBounded
    <2>3. Total(Sizes(h), new) \in Nat /\ Total(Sizes(h), new) < U64 /\ U64 \in Nat
        BY <1>7, <2>1, BytesBounded, NumbersAssumption
    <2>4. (\A i \in old : Sizes(h)[i] \in Int) /\ Sizes(h)[x] \in Int /\ Sizes(h)[x] = h[x].size
        BY <1>7, <2>1, SizesTyped
    <2>5. Sum(Sizes(h), old \cup {x}) = Sum(Sizes(h), old) + Sizes(h)[x]
        BY <1>9, <2>2, <2>4, SumAdds
    <2>6. Total(Sizes(h), new) = Total(Sizes(h), old) + Size(c)
        BY <1>6, <1>9, <2>4, <2>5, TotalIsSum
    <2>7. \A a \in Nat : a < U64 => a = a % U64
        BY <2>3
    <2> QED
        BY <2>3, <2>6, <2>7
<1>11. \A d \in Busy(k) : Size(d)' = Size(d) /\ (d # c => pc'[d] = pc[d])
    BY <1>5, OwnPlaces DEF Size
<1>12. ASSUME NEW s \in Elems, flow'[s].key = k
       PROVE  /\ flow'[s].count = Cardinality(M)
              /\ flow'[s].tot_bytes = Total(Sizes(history'[k]), M \ Half(k, nr)')
              /\ Len(history'[k]) <= Cardinality(M) + Cardinality(At(k, BeforeCount)') + Cardinality(CPUs) - 1
    <2>1. s = fi[c]
        BY <1>3, <1>4, <1>12
    <2>2. /\ flow[s].count = Cardinality(M)
          /\ flow[s].tot_bytes = Total(Sizes(h), old)
          /\ n <= Cardinality(M) + Cardinality(At(k, BeforeCount)) + Cardinality(CPUs) - 1
        BY <1>3, <2>1 DEF Settles
    <2> QED
        BY <1>2, <1>4, <1>8, <1>10, <2>1, <2>2
<1>13. \A d \in Busy(k)' : /\ nr[d] \in 1..Len(history'[k])
                           /\ history'[k][nr[d]].size = Size(d)'
                           /\ nr[d] \in M <=> pc'[d] \in CountedPlaces
    BY <1>2, <1>5, <1>6, <1>11 DEF Settles, CountedPlaces
<1>14. \A d, e \in Busy(k)' : nr[d] = nr[e] => d = e
    BY <1>5 DEF Settles
<1>15. Present(flow, k)'
    BY <1>3, <1>4 DEF Present, Holding, IInv, TypeOK
<1>16. M \subseteq 1..Len(history'[k])
    BY <1>2, <1>7
<1> QED
    BY <1>12, <1>13, <1>14, <1>15, <1>16 DEF Settles

\* An insertion that finds the flow there: the packet stays uncounted.
LEMMA LateSettles ==
    ASSUME IInv, IInv', HInv, ~evicted', NEW c \in CPUs, Cpu(c), NEW k \in Keys, Key(c) = k,
           NEW M, NEW nr, Settles(k, M, nr), Insert(c), Present(flow, k)
    PROVE  Settles(k, M, nr)'
<1>1. PICK s \in Elems : /\ flow[s].key = NoKey /\ flow'[s].key = NoKey
                         /\ \A t \in Elems \ {s} : flow'[t] = flow[t]
    BY InsertShape
<1>2. pc[c] = "insert" /\ pc'[c] = "idle" /\ history' = history /\ k # NoKey
    BY KeyHistory DEF Insert, Return, GoTo, IInv, TypeOK
<1>3. /\ \A t \in Elems : flow'[t].key = k <=> flow[t].key = k
      /\ \A t \in Elems : flow[t].key = k =>
            flow'[t].count = flow[t].count /\ flow'[t].tot_bytes = flow[t].tot_bytes
    BY <1>1, <1>2
<1>4. At(k, BeforeCount)' = At(k, BeforeCount) /\ At(k, {"bytes"})' = At(k, {"bytes"})
    <2>1. BeforeCount \in SUBSET Working /\ {"bytes"} \in SUBSET Working
          /\ "insert" \notin BeforeCount /\ "idle" \notin BeforeCount
        BY PlaceSets
    <2>2. At(k, BeforeCount)' = At(k, BeforeCount) \ {c} /\ c \notin At(k, BeforeCount)
        BY <1>2, <2>1, AtChanges
    <2>3. At(k, {"bytes"})' = At(k, {"bytes"}) \ {c} /\ c \notin At(k, {"bytes"})
        BY <1>2, <2>1, AtChanges
    <2> QED
        BY <2>2, <2>3
<1>5. /\ Busy(k)' \subseteq Busy(k)
      /\ \A d \in Busy(k)' : job'[d] = job[d] /\ (pc'[d] \in CountedPlaces <=> pc[d] \in CountedPlaces)
    BY <1>2, OwnPlaces
<1>6. history'[k] = history[k]
    BY <1>2
<1> QED
    BY <1>3, <1>4, <1>5, <1>6, SettlesKept

\* An insertion that makes the flow's entry, with the CPU's own packet.
LEMMA FirstSettles ==
    ASSUME IInv, IInv', HInv, ~evicted, ~evicted', NEW c \in CPUs, Cpu(c), NEW k \in Keys, Key(c) = k,
           NEW M, NEW nr, Settles(k, M, nr), Insert(c), ~Present(flow, k)
    PROVE  Settles(k, {nr[c]}, nr)'
<1> DEFINE h == history[k]
           n == Len(h)
           x == nr[c]
           N == {x}
<1>1. PICK s \in Elems : /\ \A t \in Elems \ {s} : flow'[t] = flow[t]
                         /\ flow'[s] = NewFlow(c)
    BY InsertShape
<1>2. pc[c] = "insert" /\ pc'[c] = "idle" /\ history' = history
    BY DEF Insert, Return, GoTo, IInv, TypeOK
<1>3. h \in Seq(Arrival) /\ n \in Nat
    BY KeyHistory
<1>4. flow'[s].key = k /\ \A t \in Elems \ {s} : flow'[t].key # k
    <2>1. \A t \in Elems : flow[t].key # k
        BY PresentMeans
    <2> QED
        BY <1>1, <2>1 DEF NewFlow
<1>5. /\ c \in Busy(k) /\ Busy(k)' = Busy(k) \ {c}
      /\ \A d \in Busy(k)' : Size(d)' = Size(d) /\ pc'[d] = pc[d]
    BY <1>2, OwnPlaces DEF Size
<1>6. x \in 1..n /\ h[x].size = Size(c) /\ \A d \in Busy(k) \ {c} : nr[d] # x
    BY <1>5 DEF Settles
<1>7. \A d \in CPUs : On(k, d, Pointing) => FALSE
    <2> SUFFICES ASSUME NEW d \in CPUs, On(k, d, Pointing) PROVE FALSE
        OBVIOUS
    <2>1. Present(flow, k)
        BY PointedEntry DEF On
    <2> QED
        BY <2>1
<1>8. \A d \in Busy(k) : pc[d] \notin CountedPlaces
    BY <1>7 DEF Busy, On, Pointing, CountedPlaces
<1>9. Half(k, nr)' = {}
    <2>1. At(k, {"bytes"})' = At(k, {"bytes"}) \ {c}
        BY <1>2, AtChanges, PlaceSets
    <2>2. At(k, {"bytes"}) = {}
        BY <1>7 DEF At, On, Pointing
    <2> QED
        BY <2>1, <2>2 DEF Half
<1>10. Total(Sizes(h), N) = Size(c)
    <2>1. Sizes(h)[x] = h[x].size /\ Sizes(h)[x] \in Nat
        <3> HIDE DEF h, x
        <3> QED
            BY <1>3, <1>6, SizesTyped
    <2>2. Sum(Sizes(h), {} \cup {x}) = Sum(Sizes(h), {}) + Sizes(h)[x]
        <3>1. IsFiniteSet({})
            BY FS_EmptySet
        <3> HIDE DEF h, x
        <3> QED
            BY <2>1, <3>1, SumAdds
    <2>3. Sum(Sizes(h), {}) = 0
        BY SumEmpty
    <2>4. Sum(Sizes(h), {} \cup {x}) = Sum(Sizes(h), N)
        <3>1. {} \cup {x} = N
            OBVIOUS
        <3> HIDE DEF h, x, N
        <3> QED
            BY <3>1, Zenon
    <2>5. Sum(Sizes(h), N) = Sizes(h)[x]
        <3>1. Sum(Sizes(h), N) = 0 + Sizes(h)[x]
            <4> HIDE DEF h, x, N
            <4> QED
                BY <2>2, <2>3, <2>4
        <3> HIDE DEF h, x, N
        <3> QED
            BY <2>1, <3>1
    <2> QED
        BY <1>6, <2>1, <2>5, TotalIsSum
<1>11. Cardinality(N) = 1
    BY FS_Singleton
<1>12. n <= Cardinality(N) + Cardinality(At(k, BeforeCount)') + Cardinality(CPUs) - 1
    <2>1. n <= Cardinality(At(k, {"lookup"})) + Cardinality(At(k, {"insert"}))
        BY DEF Settles
    <2>2. Cardinality(At(k, {"lookup"})) <= Cardinality(At(k, BeforeCount)')
        <3>1. BeforeCount \in SUBSET Working /\ "lookup" \in BeforeCount
              /\ "insert" \notin BeforeCount /\ "idle" \notin BeforeCount
            BY PlaceSets
        <3>2. At(k, BeforeCount)' = At(k, BeforeCount) \ {c} /\ c \notin At(k, BeforeCount)
            BY <1>2, <3>1, AtChanges
        <3>3. At(k, BeforeCount)' = At(k, BeforeCount)
            BY <3>2
        <3>4. At(k, {"lookup"}) \in SUBSET At(k, BeforeCount)
            BY <3>1 DEF At, On
        <3>5. Cardinality(At(k, {"lookup"})) <= Cardinality(At(k, BeforeCount))
            BY <3>4, AtFinite, FS_Subset
        <3> QED
            BY <3>3, <3>5
    <2>3. Cardinality(At(k, {"insert"})) <= Cardinality(CPUs) /\ Cardinality(At(k, {"insert"})) \in Nat
          /\ Cardinality(At(k, {"lookup"})) \in Nat /\ Cardinality(CPUs) \in Nat
        BY AtFinite
    <2>4. Cardinality(At(k, BeforeCount)') \in Nat
        <3>1. IsFiniteSet(At(k, BeforeCount)')
            BY NumbersAssumption, FS_Subset DEF At
        <3> QED
            BY <3>1, FS_CardinalityType
    <2> QED
        BY <1>3, <1>11, <2>1, <2>2, <2>3, <2>4
<1>13. ASSUME NEW t \in Elems, flow'[t].key = k
       PROVE  /\ flow'[t].count = Cardinality(N)
              /\ flow'[t].tot_bytes = Total(Sizes(history'[k]), N \ Half(k, nr)')
              /\ Len(history'[k]) <= Cardinality(N) + Cardinality(At(k, BeforeCount)') + Cardinality(CPUs) - 1
    <2>1. t = s
        BY <1>4, <1>13
    <2>2. N \ Half(k, nr)' = N
        BY <1>9
    <2>3. flow'[t].count = 1 /\ flow'[t].tot_bytes = Size(c)
        BY <1>1, <2>1 DEF NewFlow
    <2>4. Size(c) = Total(Sizes(history'[k]), N \ Half(k, nr)')
        BY <1>2, <1>10, <2>2
    <2>5. Len(history'[k]) <= Cardinality(N) + Cardinality(At(k, BeforeCount)') + Cardinality(CPUs) - 1
        BY <1>2, <1>12
    <2> QED
        BY <1>11, <2>3, <2>4, <2>5
<1>14. \A d \in Busy(k)' : /\ nr[d] \in 1..Len(history'[k])
                           /\ history'[k][nr[d]].size = Size(d)'
                           /\ nr[d] \in N <=> pc'[d] \in CountedPlaces
    BY <1>2, <1>5, <1>6, <1>8 DEF Settles
<1>15. \A d, e \in Busy(k)' : nr[d] = nr[e] => d = e
    BY <1>5 DEF Settles
<1>16. Present(flow, k)'
    BY <1>4 DEF Present, Holding, IInv, TypeOK
<1>17. N \subseteq 1..Len(history'[k])
    BY <1>2, <1>6
<1> HIDE DEF N
<1>18. Settles(k, N, nr)'
    BY <1>13, <1>14, <1>15, <1>16, <1>17 DEF Settles
<1> QED
    BY <1>18 DEF N

\* A new packet of k.
LEMMA ReceiveSettles ==
    ASSUME IInv, IInv', HInv, HInv', NEW c \in CPUs, NEW p \in Packets, Receive(c, p),
           NEW k \in Keys, k = flow_key(p), NEW M, NEW nr \in [CPUs -> Nat], Settles(k, M, nr),
           NEW n \in Nat, n = Len(history[k]), NEW mr, mr = [nr EXCEPT ![c] = n + 1]
    PROVE  Settles(k, M, mr)'
<1> DEFINE h == history[k]
           g == history'[k]
           a == [at |-> now, size |-> p.size]
<1>1. /\ pc[c] = "idle" /\ flow' = flow
      /\ job' = [job EXCEPT ![c] = [pkt |-> p, at |-> now]]
      /\ pc' = [pc EXCEPT ![c] = "lookup"]
    BY DEF Receive
<1>2. n = Len(h) /\ h \in Seq(Arrival)
    BY KeyHistory
<1>3. a \in Arrival /\ g = Append(h, a) /\ g \in Seq(Arrival)
    BY Arrives DEF HInv, HistoryTyped
<1>4. /\ Len(g) = n + 1 /\ g[n + 1] = a /\ \A i \in 1..n : g[i] = h[i]
    <2> HIDE DEF a, h, g
    <2> QED
        BY <1>2, <1>3, Appended
<1>5. /\ \A d \in CPUs \ {c} : pc'[d] = pc[d] /\ job'[d] = job[d]
      /\ pc'[c] = "lookup" /\ job'[c].pkt = p
    BY <1>1 DEF IInv, TypeOK
<1>6. ASSUME NEW places
      PROVE  /\ \A d \in CPUs \ {c} : On(k, d, places)' <=> On(k, d, places)
             /\ On(k, c, places)' <=> "lookup" \in places
    BY <1>5 DEF On, Key
<1>7. /\ At(k, BeforeCount)' = At(k, BeforeCount) \cup {c} /\ c \notin At(k, BeforeCount)
      /\ At(k, {"lookup"})' = At(k, {"lookup"}) \cup {c} /\ c \notin At(k, {"lookup"})
      /\ At(k, {"insert"})' = At(k, {"insert"}) /\ At(k, {"bytes"})' = At(k, {"bytes"})
      /\ c \notin At(k, {"bytes"})
    <2>1. /\ ~On(k, c, BeforeCount) /\ ~On(k, c, {"lookup"}) /\ ~On(k, c, {"insert"})
          /\ ~On(k, c, {"bytes"}) /\ "lookup" \in BeforeCount
        BY <1>1, PlaceSets DEF On
    <2>2. At(k, BeforeCount)' = At(k, BeforeCount) \cup {c}
        BY <1>6, <2>1 DEF At
    <2>3. At(k, {"lookup"})' = At(k, {"lookup"}) \cup {c}
        BY <1>6, <2>1 DEF At
    <2>4. At(k, {"insert"})' = At(k, {"insert"})
        BY <1>6, <2>1 DEF At
    <2>5. At(k, {"bytes"})' = At(k, {"bytes"})
        BY <1>6, <2>1 DEF At
    <2> QED
        BY <2>1, <2>2, <2>3, <2>4, <2>5 DEF At
<1>8. Busy(k)' = Busy(k) \cup {c} /\ c \notin Busy(k)
    <2>1. \A d \in CPUs \ {c} : d \in Busy(k)' <=> d \in Busy(k)
        <3>1. \A d \in CPUs \ {c} : Key(d)' = Key(d)
            BY <1>5 DEF Key
        <3> QED
            BY <1>5, <3>1 DEF Busy
    <2>2. c \in Busy(k)'
        BY <1>5 DEF Busy, Key
    <2>3. c \notin Busy(k) /\ Busy(k) \subseteq CPUs /\ Busy(k)' \subseteq CPUs
        BY <1>1 DEF Busy
    <2> QED
        BY <2>1, <2>2, <2>3
<1>9. /\ Cardinality(At(k, BeforeCount)') = Cardinality(At(k, BeforeCount)) + 1
      /\ Cardinality(At(k, {"lookup"})') = Cardinality(At(k, {"lookup"})) + 1
    <2> DEFINE B == At(k, BeforeCount)
               L == At(k, {"lookup"})
    <2>1. IsFiniteSet(B) /\ IsFiniteSet(L)
        BY AtFinite
    <2> HIDE DEF B, L
    <2>2. Cardinality(B \cup {c}) = Cardinality(B) + 1 /\ Cardinality(L \cup {c}) = Cardinality(L) + 1
        BY <1>7, <2>1, FS_AddElement DEF B, L
    <2> QED
        BY <1>7, <2>2 DEF B, L
<1>10. /\ M \in SUBSET (1..n) /\ IsFiniteSet(M) /\ \A i \in 1..n : i # n + 1 /\ i \in 1..(n + 1)
       /\ n + 1 \in 1..(n + 1)
    BY <1>2, CountedPackets
<1>11. mr[c] = n + 1 /\ \A d \in CPUs \ {c} : mr[d] = nr[d]
    OBVIOUS
<1>12. Half(k, mr)' = Half(k, nr)
    <2>1. At(k, {"bytes"}) \subseteq CPUs \ {c}
        BY <1>7 DEF At
    <2>2. \A d \in At(k, {"bytes"}) : mr[d] = nr[d]
        BY <1>11, <2>1
    <2> QED
        BY <1>7, <2>2 DEF Half
<1>13. Total(Sizes(g), M \ Half(k, nr)) = Total(Sizes(h), M \ Half(k, nr))
    <2> DEFINE S == M \ Half(k, nr)
    <2>1. S \in SUBSET (1..n) /\ IsFiniteSet(S)
        BY <1>10, FS_Subset
    <2>2. \A i \in S : i \in 1..n /\ i \in 1..Len(g)
        BY <1>4, <1>10, <2>1
    <2> HIDE DEF S
    <2>3. \A i \in S : Sizes(g)[i] = g[i].size /\ Sizes(h)[i] = h[i].size
        <3> HIDE DEF g, h
        <3> QED
            BY <1>2, <1>3, <2>2, SizesTyped DEF h
    <2>4. \A i \in S : Sizes(g)[i] = Sizes(h)[i]
        BY <1>4, <2>2, <2>3
    <2>5. Total(Sizes(g), S) = Total(Sizes(h), S)
        BY <2>1, <2>4, SumSame, TotalIsSum
    <2> QED
        BY <2>5 DEF S
<1>14. ASSUME NEW s \in Elems, flow'[s].key = k
       PROVE  /\ flow'[s].count = Cardinality(M)
              /\ flow'[s].tot_bytes = Total(Sizes(history'[k]), M \ Half(k, mr)')
              /\ Len(history'[k]) <= Cardinality(M) + Cardinality(At(k, BeforeCount)') + Cardinality(CPUs) - 1
    <2>1. /\ flow[s].count = Cardinality(M)
          /\ flow[s].tot_bytes = Total(Sizes(h), M \ Half(k, nr))
          /\ n <= Cardinality(M) + Cardinality(At(k, BeforeCount)) + Cardinality(CPUs) - 1
        BY <1>1, <1>14 DEF Settles
    <2>2. n + 1 <= Cardinality(M) + (Cardinality(At(k, BeforeCount)) + 1) + Cardinality(CPUs) - 1
        <3>1. /\ Cardinality(M) \in Nat /\ Cardinality(At(k, BeforeCount)) \in Nat /\ Cardinality(CPUs) \in Nat
            BY CountedPackets, AtFinite
        <3> QED
            BY <1>2, <2>1, <3>1
    <2> QED
        BY <1>1, <1>4, <1>9, <1>12, <1>13, <2>1, <2>2
<1>15. \A d \in Busy(k)' : /\ mr[d] \in 1..Len(history'[k])
                           /\ history'[k][mr[d]].size = Size(d)'
                           /\ mr[d] \in M <=> pc'[d] \in CountedPlaces
    <2> SUFFICES ASSUME NEW d \in Busy(k)'
                 PROVE  /\ mr[d] \in 1..Len(g)
                        /\ g[mr[d]].size = Size(d)'
                        /\ mr[d] \in M <=> pc'[d] \in CountedPlaces
        OBVIOUS
    <2>1. CASE d = c
        <3>1. Size(c)' = p.size /\ a.size = p.size
            BY <1>5 DEF Size
        <3>2. mr[c] \notin M /\ pc'[c] \notin CountedPlaces
            BY <1>5, <1>10, <1>11 DEF CountedPlaces
        <3> QED
            BY <1>4, <1>10, <1>11, <2>1, <3>1, <3>2
    <2>2. CASE d # c
        <3>1. d \in Busy(k) /\ d \in CPUs \ {c}
            BY <1>8, <2>2 DEF Busy
        <3>2. /\ nr[d] \in 1..n /\ h[nr[d]].size = Size(d)
              /\ nr[d] \in M <=> pc[d] \in CountedPlaces
            BY <3>1 DEF Settles
        <3>3. mr[d] = nr[d] /\ pc'[d] = pc[d] /\ Size(d)' = Size(d)
            BY <1>5, <1>11, <3>1 DEF Size
        <3> QED
            BY <1>4, <1>10, <3>2, <3>3
    <2> QED
        BY <2>1, <2>2
<1>16. \A d, e \in Busy(k)' : mr[d] = mr[e] => d = e
    <2>1. \A d \in Busy(k) : d \in CPUs \ {c} /\ nr[d] \in 1..n
        BY <1>8 DEF Settles, Busy
    <2>2. \A d, e \in Busy(k) : nr[d] = nr[e] => d = e
        BY DEF Settles
    <2> QED
        BY <1>8, <1>10, <1>11, <2>1, <2>2
<1>17. ~Present(flow, k)' =>
          Len(history'[k]) <= Cardinality(At(k, {"lookup"})') + Cardinality(At(k, {"insert"})')
    <2>1. Present(flow, k)' <=> Present(flow, k)
        BY <1>1 DEF Present, Holding
    <2>2. ~Present(flow, k) => n <= Cardinality(At(k, {"lookup"})) + Cardinality(At(k, {"insert"}))
        BY DEF Settles
    <2>3. Cardinality(At(k, {"lookup"})) \in Nat /\ Cardinality(At(k, {"insert"})) \in Nat
        BY AtFinite
    <2> QED
        BY <1>2, <1>4, <1>7, <1>9, <2>1, <2>2, <2>3
<1>18. M \subseteq 1..Len(history'[k])
    BY <1>4, <1>10
<1> QED
    BY <1>14, <1>15, <1>16, <1>17, <1>18 DEF Settles

LEMMA StepSInv ==
    ASSUME IInv, IInv', HInv, HInv', SInv, NEW c \in CPUs, Cpu(c)
    PROVE  SInv'
<1> SUFFICES ASSUME ~evicted', NEW k \in Keys
             PROVE  \E M \in SUBSET Nat, nr \in [CPUs -> Nat] : Settles(k, M, nr)'
    BY DEF SInv
<1>1. ~evicted
    <2>1. CASE Insert(c)
        BY <2>1, InsertShape
    <2>2. CASE ~Insert(c)
        BY <2>2, StepKeepsKeys
    <2> QED
        BY <2>1, <2>2
<1>2. PICK M \in SUBSET Nat, nr \in [CPUs -> Nat] : Settles(k, M, nr)
    BY <1>1 DEF SInv
<1>3. CASE Key(c) # k
    <2>1. FlowKept(k) /\ history'[k] = history[k]
        BY <1>3, KeyHistory, OtherFlowsKept, StepFrame
    <2>2. \A d \in CPUs : \/ pc'[d] = pc[d] /\ job'[d] = job[d]
                          \/ ~On(k, d, Working) /\ ~On(k, d, Working)'
        <3>1. \A d \in CPUs \ {c} : pc'[d] = pc[d] /\ job'[d] = job[d]
            BY StepFrame
        <3>2. pc'[c] # "idle" => Key(c)' = Key(c)
            BY StepFrame DEF Key
        <3>3. ~On(k, c, Working) /\ ~On(k, c, Working)'
            BY <1>3, <3>2 DEF On, Working, Pointing
        <3> QED
            BY <3>1, <3>3
    <2> QED
        BY <1>2, <2>1, <2>2, SettlesOther
<1>4. CASE Key(c) = k /\ Insert(c)
    <2>1. nr[c] \in Nat
        OBVIOUS
    <2>2. CASE Present(flow, k)
        BY <1>2, <1>4, <2>2, LateSettles
    <2>3. CASE ~Present(flow, k)
        <3>1. Settles(k, {nr[c]}, nr)'
            BY <1>1, <1>2, <1>4, <2>3, FirstSettles
        <3> QED
            BY <2>1, <3>1
    <2> QED
        BY <2>2, <2>3
<1>5. CASE Key(c) = k /\ ~Insert(c)
    <2>1. CASE pc[c] = "count"
        <3>1. Settles(k, M \cup {nr[c]}, nr)'
            BY <1>1, <1>2, <1>5, <2>1, CountSettles
        <3>2. M \cup {nr[c]} \in SUBSET Nat
            OBVIOUS
        <3> QED
            BY <3>1, <3>2
    <2>2. CASE pc[c] = "bytes"
        BY <1>1, <1>2, <1>5, <2>2, BytesSettles
    <2>3. CASE pc[c] \notin {"count", "bytes"} /\ Present(flow, k)
        BY <1>1, <1>2, <1>5, <2>3, QuietSettles
    <2>4. CASE pc[c] \notin {"count", "bytes"} /\ ~Present(flow, k)
        <3>1. pc[c] \notin Pointing
            BY <1>1, <1>5, <2>4, PointedEntry
        <3>2. Lookup(c)
            BY <1>5, <3>1 DEF Cpu, Elapsed, Seen, Add, Load, Update, GoTo, Pointing
        <3> QED
            BY <1>1, <1>2, <1>5, <2>4, <3>2, MissSettles
    <2> QED
        BY <2>1, <2>2, <2>3, <2>4
<1> QED
    BY <1>3, <1>4, <1>5

LEMMA ReceiveSInv ==
    ASSUME IInv, IInv', HInv, HInv', SInv, NEW c \in CPUs, NEW p \in Packets, Receive(c, p)
    PROVE  SInv'
<1> SUFFICES ASSUME ~evicted', NEW k \in Keys
             PROVE  \E M \in SUBSET Nat, nr \in [CPUs -> Nat] : Settles(k, M, nr)'
    BY DEF SInv
<1>1. /\ pc[c] = "idle" /\ evicted' = evicted /\ flow' = flow
      /\ job' = [job EXCEPT ![c] = [pkt |-> p, at |-> now]]
      /\ pc' = [pc EXCEPT ![c] = "lookup"]
    BY DEF Receive
<1>2. PICK M \in SUBSET Nat, nr \in [CPUs -> Nat] : Settles(k, M, nr)
    BY <1>1 DEF SInv
<1>3. CASE k = flow_key(p)
    <2>1. PICK n \in Nat : n = Len(history[k])
        BY KeyHistory
    <2>2. PICK mr \in [CPUs -> Nat] : mr = [nr EXCEPT ![c] = n + 1]
        <3>1. [nr EXCEPT ![c] = n + 1] \in [CPUs -> Nat]
            OBVIOUS
        <3> QED
            BY <3>1
    <2>3. Settles(k, M, mr)'
        BY <1>2, <1>3, <2>1, <2>2, ReceiveSettles
    <2> QED
        BY <1>2, <2>2, <2>3
<1>4. CASE k # flow_key(p)
    <2>1. FlowKept(k) /\ history'[k] = history[k]
        BY <1>1, <1>4, Arrives DEF FlowKept, HInv
    <2>2. \A d \in CPUs : \/ pc'[d] = pc[d] /\ job'[d] = job[d]
                          \/ ~On(k, d, Working) /\ ~On(k, d, Working)'
        <3>1. \A d \in CPUs \ {c} : pc'[d] = pc[d] /\ job'[d] = job[d]
            BY <1>1 DEF IInv, TypeOK
        <3>2. ~On(k, c, Working) /\ ~On(k, c, Working)'
            BY <1>1, <1>4 DEF On, Key, Working, Pointing, IInv, TypeOK
        <3> QED
            BY <3>1, <3>2
    <2> QED
        BY <1>2, <2>1, <2>2, SettlesOther
<1> QED
    BY <1>3, <1>4

LEMMA NextSInv == IInv /\ IInv' /\ HInv /\ HInv' /\ SInv /\ [Next]_vars => SInv'
<1> SUFFICES ASSUME IInv, IInv', HInv, HInv', SInv, [Next]_vars PROVE SInv'
    OBVIOUS
<1>1. CASE Tick \/ UNCHANGED vars
    <2> SUFFICES ASSUME ~evicted', NEW k \in Keys
                 PROVE  \E M \in SUBSET Nat, nr \in [CPUs -> Nat] : Settles(k, M, nr)'
        BY DEF SInv
    <2>1. UNCHANGED <<flow, pc, job, fi, iat_ms, loaded, features, received, history, evicted>>
        BY <1>1 DEF Tick, vars
    <2>2. PICK M \in SUBSET Nat, nr \in [CPUs -> Nat] : Settles(k, M, nr)
        BY <2>1 DEF SInv
    <2>3. FlowKept(k) /\ history'[k] = history[k] /\ \A d \in CPUs : pc'[d] = pc[d] /\ job'[d] = job[d]
        BY <2>1 DEF FlowKept
    <2> QED
        BY <2>2, <2>3, SettlesOther
<1> QED
    BY <1>1, ReceiveSInv, StepSInv DEF Next, Finished

\* An entry that no CPU is updating counts each of its packets with all of its
\* bytes, and misses at most one packet for every CPU but the one that inserted it,
\* however many packets came, while nothing is evicted.
THEOREM FlowAlwaysSettles == Spec => []FlowSettled
<1>1. IInv /\ HInv /\ SInv => FlowSettled
    <2> SUFFICES ASSUME IInv, HInv, SInv, ~evicted, NEW s \in Elems, NEW k \in Keys, flow[s].key = k,
                        Busy(k) = {}
                 PROVE  /\ flow[s].count \in (Len(history[k]) - Cardinality(CPUs) + 1)..Len(history[k])
                        /\ \E counted \in SUBSET (1..Len(history[k])) :
                              /\ Cardinality(counted) = flow[s].count
                              /\ flow[s].tot_bytes = Total(Sizes(history[k]), counted)
        <3>1. IInv => \A t \in Elems : flow[t] \in FlowInfo
            BY DEF IInv, TypeOK
        <3>2. IInv => \A t \in Elems : flow[t].key # NoKey => flow[t].key \in Keys
            BY <3>1 DEF FlowInfo
        <3> QED
            BY <3>2 DEF FlowSettled
    <2>1. PICK M \in SUBSET Nat, nr \in [CPUs -> Nat] : Settles(k, M, nr)
        BY DEF SInv
    <2>2. \A places \in SUBSET Working : At(k, places) = {}
        BY DEF At, On, Busy, Working, Pointing
    <2>3. At(k, BeforeCount) = {} /\ At(k, {"bytes"}) = {}
        BY <2>2, PlaceSets
    <2>4. Half(k, nr) = {} /\ Cardinality(At(k, BeforeCount)) = 0
        BY <2>3, FS_EmptySet DEF Half
    <2>5. /\ M \in SUBSET (1..Len(history[k])) /\ Cardinality(M) \in Nat
          /\ Cardinality(M) <= Len(history[k]) /\ Len(history[k]) \in Nat
        BY <2>1, CountedPackets
    <2>6. /\ flow[s].count = Cardinality(M)
          /\ flow[s].tot_bytes = Total(Sizes(history[k]), M \ Half(k, nr))
          /\ Len(history[k]) <= Cardinality(M) + Cardinality(At(k, BeforeCount)) + Cardinality(CPUs) - 1
        BY <2>1 DEF Settles
    <2>7. M \ Half(k, nr) = M
        BY <2>4
    <2>8. flow[s].count \in (Len(history[k]) - Cardinality(CPUs) + 1)..Len(history[k])
        BY <2>4, <2>5, <2>6, AtFinite
    <2> QED
        BY <2>5, <2>6, <2>7, <2>8
<1> QED
    BY <1>1, InitIInv, NextIInv, InitHInv, NextHInv, InitSInv, NextSInv, PTL DEF Spec
===============================================================================
