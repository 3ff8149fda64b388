------------------------------ MODULE FlowTable ------------------------------
(***************************************************************************)
(* The flow features of src/src/dt_xdp.bpf.c, section 6 of parse_update:   *)
(* several CPUs keep the counters of each flow in flow_info_map and read   *)
(* the flow's features back from it.  The shipped FEATURES has no flow     *)
(* feature, so this is the program built with all six of them, and with    *)
(* the feature bits where project_features.h numbers them (32 and up).     *)
(*                                                                         *)
(* A packet is one parse_update does not reject.  "cpus" are the CPUs that *)
(* may receive it: one, for a flow the network card always steers to the   *)
(* same queue, or several.  XDP does not interrupt itself on a CPU.        *)
(*                                                                         *)
(* Times are in ns; NsPerMs and the two moduli are smaller than the        *)
(* 1000000, 2^64 and 2^32 of the code, in the same order.                  *)
(***************************************************************************)
EXTENDS Sequences, FiniteSetsExt, LruHash

CONSTANTS
    CPUs,
    Packets,
    NoPacket,       \* what an idle CPU is working on
    PortFeatures,   \* a port is among FEATURES
    MaxEntries,     \* max_entries of flow_info_map
    NsPerMs,        \* 1000000
    U64,            \* 2^64
    U32,            \* 2^32
    MaxSize,        \* the size of the longest packet
    MaxPackets,     \* bound: packets of one behaviour
    MaxTime         \* bound: the clock

ASSUME PacketsAssumption ==
    /\ \A p \in Packets : /\ p.addrs \in Nat \ {0} /\ p.ports \in 0..99
                          /\ p.size \in 0..MaxSize /\ p.cpus \subseteq CPUs
    /\ NoPacket \notin Packets
ASSUME NumbersAssumption ==
    /\ IsFiniteSet(CPUs) /\ MaxEntries \in Nat \ {0} /\ MaxTime \in Nat /\ MaxSize \in Nat
    /\ NsPerMs \in Nat \ {0} /\ U32 \in Nat \ {0, 1} /\ U64 \in Nat \ {0}
    /\ MaxTime < U64 /\ MaxSize < U64 /\ U32 * NsPerMs < U64
\* A flow's u32 count does not wrap, and neither do its bytes: 2^32 packets of
\* 2^16 bytes are far from 2^64.
ASSUME BoundAssumption ==
    MaxPackets \in Nat /\ MaxPackets < U32 /\ MaxSize * MaxPackets < U64

VARIABLES
    flow,      \* flow_info_map: the elements, each free or holding a flow
    now,       \* bpf_ktime_get_ns
    pc,        \* where each CPU is in parse_update
    job,       \* the packet it handles, and its time_now
    fi,        \* the element its lookup returned
    iat_ms,
    loaded,    \* the fields of the element it has read back
    features,  \* the flow features of the packet it handled last
    received,  \* how many packets have come
    history,   \* history: those packets, by flow key, with their times
    evicted    \* history: some entry has been evicted

vars == <<flow, now, pc, job, fi, iat_ms, loaded, features, received, history, evicted>>

-------------------------------------------------------------------------------
IPPROTO_TCP == 6
IPPROTO_UDP == 17

\* sport and dport: those of UDP are read only for a port feature.
Ports(p) ==
    IF p.proto = IPPROTO_TCP \/ (PortFeatures /\ p.proto = IPPROTO_UDP) THEN p.ports ELSE 0

\* The protocol is not part of the key.
flow_key(p) == 100 * p.addrs + Ports(p)
Keys == {flow_key(p) : p \in Packets}

Elems == 1..MaxEntries
Unused == [key |-> NoKey, last_seen |-> 0, tot_bytes |-> 0, tot_IAT |-> 0, count |-> 0]

Fields == {"tot_bytes", "tot_IAT", "count"}

Idle == [pkt |-> NoPacket, at |-> 0]
NotRead == -1
NothingLoaded == [field \in Fields |-> NotRead]
NoFeatures == [of |-> NoKey]

Key(c) == flow_key(job[c].pkt)
Size(c) == job[c].pkt.size

Init ==
    /\ flow = [s \in Elems |-> Unused]
    /\ now = 0
    /\ pc = [c \in CPUs |-> "idle"]
    /\ job = [c \in CPUs |-> Idle]
    /\ fi = [c \in CPUs |-> 1]
    /\ iat_ms = [c \in CPUs |-> 0]
    /\ loaded = [c \in CPUs |-> NothingLoaded]
    /\ features = [c \in CPUs |-> NoFeatures]
    /\ received = 0
    /\ history = [k \in Keys |-> <<>>]
    /\ evicted = FALSE

\* Bound: up to MaxTime.
Tick ==
    /\ now' \in (now + 1)..MaxTime
    /\ UNCHANGED <<flow, pc, job, fi, iat_ms, loaded, features, received, history, evicted>>

\* Sections 1 to 5 take the time and parse.  Bound: MaxPackets packets.
Receive(c, p) ==
    LET k == flow_key(p) IN
    /\ pc[c] = "idle"
    /\ c \in p.cpus
    /\ received < MaxPackets
    /\ received' = received + 1
    /\ job' = [job EXCEPT ![c] = [pkt |-> p, at |-> now]]
    /\ history' = [history EXCEPT ![k] = Append(@, [at |-> now, size |-> p.size])]
    /\ pc' = [pc EXCEPT ![c] = "lookup"]
    /\ features' = [features EXCEPT ![c] = NoFeatures]
    /\ UNCHANGED <<flow, now, fi, iat_ms, loaded, evicted>>

GoTo(c, from, to) == pc[c] = from /\ pc' = [pc EXCEPT ![c] = to]

Lookup(c) ==
    /\ \/ /\ GoTo(c, "lookup", "elapsed")
          /\ \E s \in Holding(flow, Key(c)) : fi' = [fi EXCEPT ![c] = s]
       \/ /\ GoTo(c, "lookup", "insert")
          /\ ~Present(flow, Key(c))
          /\ UNCHANGED fi
    /\ UNCHANGED <<flow, now, job, iat_ms, loaded, features, received, history, evicted>>

-------------------------------------------------------------------------------
(* The flow exists: five accesses through the pointer ... *)

\* Mutant: the difference is signed.
Elapsed_Signed(c) ==
    /\ GoTo(c, "elapsed", "seen")
    /\ iat_ms' = [iat_ms EXCEPT ![c] = (job[c].at - flow[fi[c]].last_seen) \div NsPerMs]
    /\ UNCHANGED <<flow, now, job, fi, loaded, features, received, history, evicted>>

\* The difference is unsigned.
Elapsed(c) ==
    /\ GoTo(c, "elapsed", "seen")
    /\ iat_ms' = [iat_ms EXCEPT ![c] =
                     ((job[c].at - flow[fi[c]].last_seen) % U64) \div NsPerMs]
    /\ UNCHANGED <<flow, now, job, fi, loaded, features, received, history, evicted>>

\* Mutant: last_seen keeps the time of the flow's first packet.
Seen_Kept(c) ==
    /\ GoTo(c, "seen", "count")
    /\ UNCHANGED <<flow, now, job, fi, iat_ms, loaded, features, received, history, evicted>>

Seen(c) ==
    /\ GoTo(c, "seen", "count")
    /\ flow' = [flow EXCEPT ![fi[c]].last_seen = job[c].at]
    /\ UNCHANGED <<now, job, fi, iat_ms, loaded, features, received, history, evicted>>

\* Three times __sync_fetch_and_add.
Add(c) ==
    /\ \/ /\ GoTo(c, "count", "bytes")
          /\ flow' = [flow EXCEPT ![fi[c]].count = (@ + 1) % U32]
       \/ /\ GoTo(c, "bytes", "total")
          /\ flow' = [flow EXCEPT ![fi[c]].tot_bytes = (@ + Size(c)) % U64]
       \/ /\ GoTo(c, "total", "load")
          /\ flow' = [flow EXCEPT ![fi[c]].tot_IAT = (@ + iat_ms[c]) % U64]
    /\ UNCHANGED <<now, job, fi, iat_ms, loaded, features, received, history, evicted>>

(* ... and the features, from plain reads in the order the compiler chooses. *)
Load(c, field) ==
    /\ pc[c] = "load"
    /\ loaded[c][field] = NotRead
    /\ loaded' = [loaded EXCEPT ![c][field] = flow[fi[c]][field]]
    /\ UNCHANGED <<flow, now, pc, job, fi, iat_ms, features, received, history, evicted>>

\* A division by zero is 0 in BPF.
Mean(total, n) == IF n = 0 THEN 0 ELSE (total \div n) % U32

FeaturesOf(k, bytes, total, n, iat) ==
    [of        |-> k,
     SIZE_MEAN |-> Mean(bytes, n),
     SIZE_TOT  |-> bytes % U32,
     PKT_NB    |-> n,
     IAT       |-> IF iat < U32 THEN iat ELSE U32 - 1,
     IAT_TOT   |-> total % U32,
     IAT_MEAN  |-> Mean(total, n)]

Return(c) ==
    /\ job' = [job EXCEPT ![c] = Idle]
    /\ fi' = [fi EXCEPT ![c] = 1]
    /\ iat_ms' = [iat_ms EXCEPT ![c] = 0]
    /\ loaded' = [loaded EXCEPT ![c] = NothingLoaded]
    /\ UNCHANGED <<now, received, history>>

Update(c) ==
    /\ GoTo(c, "load", "idle")
    /\ \A field \in Fields : loaded[c][field] # NotRead
    /\ features' = [features EXCEPT ![c] =
          LET l == loaded[c]
          IN  FeaturesOf(Key(c), l.tot_bytes, l.tot_IAT, l.count, iat_ms[c])]
    /\ Return(c)
    /\ UNCHANGED <<flow, evicted>>

-------------------------------------------------------------------------------
(* The flow does not exist. *)

\* Mutant: a new flow has no packet yet.
NewFlow_Empty(c) ==
    [key |-> Key(c), last_seen |-> job[c].at, tot_bytes |-> Size(c), tot_IAT |-> 0, count |-> 0]

NewFlow(c) ==
    [key |-> Key(c), last_seen |-> job[c].at, tot_bytes |-> Size(c), tot_IAT |-> 0, count |-> 1]

\* Mutant: with BPF_ANY, which replaces an entry that another CPU has inserted.
Insert_Any(c) ==
    /\ GoTo(c, "insert", "idle")
    /\ \E victims \in SUBSET Occupied(flow) :
          LET left == Evict(flow, victims \cup Holding(flow, Key(c))) IN
          /\ \E s \in Holding(left, NoKey) : flow' = InsertAt(left, s, NewFlow(c))
          /\ evicted' = (evicted \/ victims # {})
    /\ features' = [features EXCEPT ![c] = FeaturesOf(Key(c), Size(c), 0, 1, 0)]
    /\ Return(c)

\* bpf_map_update_elem with BPF_NOEXIST, its result ignored.
Insert(c) ==
    /\ GoTo(c, "insert", "idle")
    /\ \E victims \in SUBSET Occupied(flow) :
          LET left == Evict(flow, victims) IN
          /\ \E s \in Holding(left, NoKey) : flow' = InsertAt(left, s, NewFlow(c))
          /\ evicted' = (evicted \/ victims # {})
    /\ features' = [features EXCEPT ![c] = FeaturesOf(Key(c), Size(c), 0, 1, 0)]
    /\ Return(c)

-------------------------------------------------------------------------------
Cpu(c) ==
    \/ Lookup(c) \/ Elapsed(c) \/ Seen(c) \/ Add(c)
    \/ \E field \in Fields : Load(c, field)
    \/ Update(c) \/ Insert(c)

\* The bounds stop the model, not the program.
Finished ==
    /\ now = MaxTime /\ received = MaxPackets
    /\ \A c \in CPUs : pc[c] = "idle"
    /\ UNCHANGED vars

Next ==
    \/ Tick
    \/ \E c \in CPUs : Cpu(c) \/ \E p \in Packets : Receive(c, p)
    \/ Finished

Spec == Init /\ [][Next]_vars

-------------------------------------------------------------------------------
(* Properties. *)

FlowInfo == [key : Keys \cup {NoKey}, last_seen : 0..MaxTime, tot_bytes : 0..(U64 - 1),
             tot_IAT : 0..(U64 - 1), count : 0..(U32 - 1)]
FlowFeatures == [of : Keys, SIZE_MEAN : 0..(U32 - 1), SIZE_TOT : 0..(U32 - 1), PKT_NB : 0..(U32 - 1),
                 IAT : 0..(U32 - 1), IAT_TOT : 0..(U32 - 1), IAT_MEAN : 0..(U32 - 1)]
Steps == {"idle", "lookup", "elapsed", "seen", "count", "bytes", "total", "load", "insert"}

\* Every variable keeps its type.
TypeOK ==
    /\ flow \in [Elems -> FlowInfo]
    /\ now \in 0..MaxTime
    /\ pc \in [CPUs -> Steps]
    /\ job \in [CPUs -> [pkt : Packets \cup {NoPacket}, at : 0..MaxTime]]
    /\ fi \in [CPUs -> Elems]
    /\ iat_ms \in [CPUs -> Nat]
    /\ loaded \in [CPUs -> [Fields -> Nat \cup {NotRead}]]
    /\ \A c \in CPUs : loaded[c].count < U32
    /\ features \in [CPUs -> FlowFeatures \cup {NoFeatures}]
    /\ received \in 0..MaxPackets
    /\ evicted \in BOOLEAN

Pinned(k) == \E c \in CPUs : \A p \in Packets : flow_key(p) = k => p.cpus = {c}

\* What the features are to be after the packets of a flow.
Total(f, S) == MapThenSumSet(LAMBDA i : f[i], S)
Sizes(h) == [i \in DOMAIN h |-> h[i].size]
Gaps(h) == [i \in DOMAIN h |-> IF i = 1 THEN 0 ELSE (h[i].at - h[i - 1].at) \div NsPerMs]
Reference(k) ==
    LET h == history[k]
        n == Len(h)
    IN  FeaturesOf(k, Total(Sizes(h), 1..n), Total(Gaps(h), 1..n), n, Gaps(h)[n])

\* A flow whose packets all come to one CPU gets exactly the features of its
\* packets so far, whatever other CPUs insert and update meanwhile, until the
\* map evicts something.
FeaturesExact ==
    ~evicted => \A c \in CPUs :
        LET f == features[c] IN f # NoFeatures /\ Pinned(f.of) => f = Reference(f.of)

\* The count that the means divide by is never 0, also when the element was
\* given to another flow between the adds and the reads.
DivisorPositive ==
    \A c \in CPUs : loaded[c].count # 0

\* While nothing is evicted, an entry that no CPU is updating counts every byte of
\* the packets it counts, and misses of its flow's packets at most one for every
\* CPU but the one that inserted it.
Busy(k) == {c \in CPUs : pc[c] # "idle" /\ Key(c) = k}
FlowSettled ==
    ~evicted => \A s \in Elems : LET e == flow[s] IN
        e.key # NoKey /\ Busy(e.key) = {} =>
            LET n == Len(history[e.key]) IN
            /\ e.count \in (n - Cardinality(CPUs) + 1)..n
            /\ \E counted \in SUBSET (1..n) :
                  /\ Cardinality(counted) = e.count
                  /\ e.tot_bytes = Total(Sizes(history[e.key]), counted)

-------------------------------------------------------------------------------
(* What common.h:61 promises and the code does not keep. *)

\* "counter for the total IAT observed along the flow": it is never more than
\* the time that has passed.
IatWithinUptime ==
    ~evicted => \A s \in Elems : flow[s].tot_IAT <= now \div NsPerMs
===============================================================================
