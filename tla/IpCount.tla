-------------------------------- MODULE IpCount --------------------------------
(***************************************************************************)
(* The per-IP-pair counters of src/src/count_IPs_xdp.bpf.c: one XDP        *)
(* program run by several CPUs on one BPF_MAP_TYPE_LRU_HASH map.           *)
(*                                                                         *)
(* A map entry lives in one of MaxEntries preallocated elements.  The      *)
(* program updates an entry through the pointer a lookup returned, in two  *)
(* separate atomic adds; nothing keeps the element from being recycled for *)
(* another key meanwhile.                                                  *)
(***************************************************************************)
EXTENDS FiniteSetsExt, LruHash

CONSTANTS
    CPUs,
    Packets,      \* the packets that may arrive
    NoPacket,     \* what an idle CPU is working on
    MaxEntries,   \* max_entries of ip_count_map
    MaxPackets    \* bound: packets of one behaviour

\* pair is the u64 key of a packet's addresses; hdrs counts complete headers.
\* There are only so many keys and sizes, however many packets arrive.
ASSUME PacketsAssumption ==
    /\ Packets \subseteq [hdrs : 0..2, ip : BOOLEAN, pair : Nat \ {0}, size : Nat]
    /\ IsFiniteSet(Packets)
    /\ NoPacket \notin Packets
ASSUME BoundsAssumption ==
    MaxEntries \in Nat \ {0} /\ MaxPackets \in Nat /\ IsFiniteSet(CPUs)

VARIABLES
    elem,    \* ip_count_map: the elements, each free or holding one entry
    pc,      \* where each CPU is in xdp_trace_net_event
    job,     \* the packet it handles
    ptr,     \* ipc, the element its lookup returned
    seen,    \* history: the packets received, by key
    evicted  \* history: some entry has been evicted

cvars == <<elem, pc, job, ptr, seen, evicted>>

-------------------------------------------------------------------------------
(* parse_update and the error pairs. *)

ParseResult(p) ==
    CASE p.hdrs = 0             -> -1
      [] p.hdrs > 0 /\ ~p.ip    -> -2
      [] p.hdrs = 1 /\ p.ip     -> -3
      [] OTHER                  -> 0

\* An error is counted under a pair of its own: its code stands for it here.
Key(p) == IF ParseResult(p) < 0 THEN ParseResult(p) ELSE p.pair

Keys == {Key(p) : p \in Packets}

-------------------------------------------------------------------------------
(* ip_count_map. *)

Elems == 1..MaxEntries
Unused == [key |-> NoKey, count |-> 0, bytes |-> 0]

-------------------------------------------------------------------------------
Init ==
    /\ elem = [s \in Elems |-> Unused]
    /\ pc = [c \in CPUs |-> "idle"]
    /\ job = [c \in CPUs |-> NoPacket]
    /\ ptr = [c \in CPUs |-> 1]
    /\ seen = [k \in Keys |-> 0]
    /\ evicted = FALSE

Handled(c) == Key(job[c])
Total(counts) == MapThenSumSet(LAMBDA k : counts[k], DOMAIN counts)

\* Mutant: the result of the lookup is used without the NULL check.
Receive_NoNullCheck(c, p) ==
    LET k == Key(p) IN
    /\ pc[c] = "idle"
    /\ Total(seen) < MaxPackets
    /\ job' = [job EXCEPT ![c] = p]
    /\ seen' = [seen EXCEPT ![k] = @ + 1]
    /\ ptr' = [ptr EXCEPT ![c] = IF Present(elem, k) THEN CHOOSE s \in Holding(elem, k) : TRUE ELSE 0]
    /\ pc' = [pc EXCEPT ![c] = "count"]
    /\ UNCHANGED <<elem, evicted>>

\* Parse and look up.  Bound: fewer than MaxPackets packets so far.
Receive(c, p) ==
    LET k == Key(p) IN
    /\ pc[c] = "idle"
    /\ Total(seen) < MaxPackets
    /\ job' = [job EXCEPT ![c] = p]
    /\ seen' = [seen EXCEPT ![k] = @ + 1]
    /\ \/ /\ Present(elem, k)
          /\ \E s \in Holding(elem, k) : ptr' = [ptr EXCEPT ![c] = s]
          /\ pc' = [pc EXCEPT ![c] = "count"]
       \/ /\ ~Present(elem, k)
          /\ pc' = [pc EXCEPT ![c] = "insert"]
          /\ UNCHANGED ptr
    /\ UNCHANGED <<elem, evicted>>

\* The two __sync_fetch_and_add, through the pointer.
AddCount(c) ==
    /\ pc[c] = "count"
    /\ elem' = [elem EXCEPT ![ptr[c]].count = @ + 1]
    /\ pc' = [pc EXCEPT ![c] = "bytes"]
    /\ UNCHANGED <<job, ptr, seen, evicted>>

Return(c) ==
    /\ pc' = [pc EXCEPT ![c] = "idle"]
    /\ job' = [job EXCEPT ![c] = NoPacket]
    /\ ptr' = [ptr EXCEPT ![c] = 1]

\* Mutant: the bytes are assigned, not added.
AddBytes_Assigns(c) ==
    /\ pc[c] = "bytes"
    /\ elem' = [elem EXCEPT ![ptr[c]].bytes = job[c].size]
    /\ Return(c)
    /\ UNCHANGED <<seen, evicted>>

AddBytes(c) ==
    /\ pc[c] = "bytes"
    /\ elem' = [elem EXCEPT ![ptr[c]].bytes = @ + job[c].size]
    /\ Return(c)
    /\ UNCHANGED <<seen, evicted>>

\* Mutant: the new entry counts from 0.
NewEntry_FromZero(c) == [key |-> Handled(c), count |-> 0, bytes |-> job[c].size]

NewEntry(c) == [key |-> Handled(c), count |-> 1, bytes |-> job[c].size]

\* Mutant: the program goes on to the two adds.
Insert_FallsThrough(c) ==
    /\ pc[c] = "insert"
    /\ \E victims \in SUBSET Occupied(elem) :
          LET left == Evict(elem, victims) IN
          /\ \E s \in Holding(left, NoKey) :
                /\ elem' = InsertAt(left, s, NewEntry(c))
                /\ ptr' = [ptr EXCEPT ![c] = s]
          /\ evicted' = (evicted \/ victims # {})
    /\ pc' = [pc EXCEPT ![c] = "count"]
    /\ UNCHANGED <<job, seen>>

\* bpf_map_update_elem with BPF_NOEXIST, its result ignored: when another CPU has
\* inserted the key by now, this packet is not counted.
Insert(c) ==
    /\ pc[c] = "insert"
    /\ \E victims \in SUBSET Occupied(elem) :
          LET left == Evict(elem, victims) IN
          /\ \E s \in Holding(left, NoKey) : elem' = InsertAt(left, s, NewEntry(c))
          /\ evicted' = (evicted \/ victims # {})
    /\ Return(c)
    /\ UNCHANGED seen

Cpu(c) == AddCount(c) \/ AddBytes(c) \/ Insert(c)
CountNext == \E c \in CPUs : Cpu(c) \/ \E p \in Packets : Receive(c, p)

\* The bound on the packets stops the model, not the program.
AllSeen == /\ \A c \in CPUs : pc[c] = "idle"
           /\ Total(seen) = MaxPackets
           /\ UNCHANGED cvars

Spec == Init /\ [][CountNext \/ AllSeen]_cvars

-------------------------------------------------------------------------------
(* Properties. *)

Entry == [key : Keys \cup {NoKey}, count : Nat, bytes : Nat]

\* Every variable keeps its type.
TypeOK ==
    /\ elem \in [Elems -> Entry]
    /\ pc \in [CPUs -> {"idle", "count", "bytes", "insert"}]
    /\ job \in [CPUs -> Packets \cup {NoPacket}]
    /\ ptr \in [CPUs -> Elems]
    /\ seen \in [Keys -> Nat]
    /\ evicted \in BOOLEAN

Doing(place, k) == {c \in CPUs : pc[c] = place /\ Handled(c) = k}

\* While nothing is evicted, the counter of an entry falls short of the packets
\* received for its key by those in progress and by at most one packet for
\* every other CPU: those that missed the key while the first one inserted it.
UndercountBounded ==
    ~evicted => \A s \in Elems : LET k == elem[s].key IN
        k # NoKey =>
            LET short == seen[k] - elem[s].count - Cardinality(Doing("count", k))
            IN  /\ short >= Cardinality(Doing("insert", k))
                /\ short <= Cardinality(CPUs) - 1

\* While nothing is evicted, the two counters of an entry are never far apart: the
\* bytes lag behind the packets by exactly those of the CPUs between the two adds.
BytesLag ==
    ~evicted => \A s \in Elems : LET k == elem[s].key IN
        (k # NoKey /\ \A p, q \in Packets : Key(p) = k /\ Key(q) = k => p.size = q.size) =>
            \A p \in Packets : Key(p) = k =>
                elem[s].bytes = p.size * (elem[s].count - Cardinality(Doing("bytes", k)))

\* The packets the map holds, and the CPUs whose packet it does not hold yet.
Counted == [s \in Elems |-> IF elem[s].key = NoKey THEN 0 ELSE elem[s].count]
Uncounted == {c \in CPUs : pc[c] \in {"count", "insert"}}

\* Whatever is evicted and recycled under a CPU's pointer, no packet is counted
\* twice: an update that lands in another pair's entry makes that entry too big,
\* but the map never holds more packets than were received.
CountedOnce == Total(Counted) + Cardinality(Uncounted) <= Total(seen)
===============================================================================
