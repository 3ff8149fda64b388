# A TLA+ verification of ebpf_NN_IDS

The repository is an intrusion detection system in eBPF: an XDP program parses
each packet and classifies it with a decision tree trained off-line, and a user
space loader fills the tree and prints a log. Beside it are a per-IP-pair packet
counter, three network listeners and a tracer of execve calls. This directory models
those programs in TLA+, checks them with TLC, and proves the main results with TLAPS.

The code is small, but the programs run on every CPU at once, against maps and
ring buffers that a loader fills and drains at the same time, and nothing in the
repository tests that. That is what the models are for.

## Inventory

| component | state | operations | interacts with |
|---|---|---|---|
| IDS, kernel side: `src/dt_xdp.bpf.c` | `dt_nodes_array` (array map), `events_ring`, per invocation: packet, feature vector, `i`, `j`, `pass`, reserved record | `xdp_trace_net_event`: reserve, `parse_update`, `classify_dt`, submit or discard | loader, through the two maps |
| IDS, loader: `src/dt_xdp.usr.c` | `exiting`, the position of the filling loop | attach, install handlers, open maps, fill the tree, poll until the flag is raised, clean up | attaches the program *before* it fills the tree |
| IDS, flow features: `dt_xdp.bpf.c:141-179` | `flow_info_map` (LRU hash) | look up, three adds, insert | all CPUs |
| IP-pair counter: `src/count_IPs_xdp.bpf.c` | `ip_count_map` (LRU hash of `{count, tot_bytes}`) | look up, two adds, or insert with `BPF_NOEXIST` | all CPUs, its loader |
| its loader: `src/count_IPs_xdp.usr.c` | cursor `key`, `value`, `map_fd` | attach, wait, iterate over the map and print | reads the map while it changes |
| listeners: `src/net_listener{,_xdp,_tc}.bpf.c` | `events_ring` | reserve, `parse_pack`, submit or discard, return the hook's "pass" | their loaders |
| their loaders: `src/net_listener*.usr.c`, `common_usr_net_listener.h` | `err`, `exiting` | attach, poll and print, exit status | ring, signals |
| execve tracer: `src/first*.c` | `events` | reserve, fill, submit; poll and print | |
| exporter: `ML/DT/main.py:151-263` | BFS queue, output array | lay the scikit-learn tree out as a complete binary tree | its header is compiled into the loader |
| training: `ML/DT/main.py:47-148`, `print_hist.py`, `Makefile`, `tex/`, `benchmarks/` | | | |

What is hard, and what makes each component correct:

* **IDS.** Packets arrive from the moment of attachment, while the tree is still
  empty or half stored, and a store of a 5-byte node is not atomic. The verdict of
  a packet must be that of the trained tree once the tree is loaded, and that of an
  ancestor on the same path before; it must not depend on whether the debug ring
  had room; every path must give its ring record back; the log must tell the truth.
* **Counter.** Two CPUs miss the same key at once; an element is recycled between
  the lookup and the add; `count` and `tot_bytes` are two separate adds. What may be
  lost must be bounded, and no packet may be counted twice.
* **Its dump.** The map changes during the iteration. Each entry is to be printed
  once, with a value it really had.
* **Flow features.** Several CPUs update one flow through pointers into an LRU map,
  with times each took earlier, and read the means back in separate reads. A flow
  handled by one CPU must get exactly its features; no mean may divide by zero.
* **Listeners and tracer.** Records are submitted out of order; the ring may be full; a
  monitor must not drop packets; a failure must be told apart from an interrupt.
* **Exporter.** The array, after rounding, truncation of the last level and the
  loader's `memcpy`, must classify as scikit-learn does.

`PROJECT.json` lists every hazard with its line and the properties that cover it.

## Modules

| module | models | how state and actions correspond |
|---|---|---|
| `BpfRing` | BPF ring buffer and libbpf's consumer (external) | operators only: a ring is the sequence of reserved records, busy until submitted or discarded; the consumer stops at a busy head |
| `DtTree` | the pure part of `dt_xdp.bpf.c` | `ParseResult`, `FeatureVector`, `ParsedEvent` are `parse_update`; `AtEnd`, `Child`, `BranchPass` one turn of `classify_dt`; `Follows`, `PathPass`, `TreeVerdict` are the reference definition of a walk |
| `DtIds` | `dt_xdp.bpf.c` on several CPUs and `dt_xdp.usr.c` | `nodes` and `ring` are the maps, `pc`, `pkt`, `ne`, `trail`, `pass` the locals of an invocation (`i` is the last element of `trail`, `j` its length minus 1), `upc`, `fillIdx`, `half`, `exiting` the loader. `Receive` runs up to `classify_dt`, `WalkDown` and `WalkEnd` are one turn of its loop, i.e. one map lookup, `Release` the labels `drop`, `pass`, `passsilent`. `FillNode` is one `bpf_map_update_elem`, `FillHalf` the middle of one |
| `IdsVerdict` | the abstract IDS | accept, decide, return; no tree, no ring |
| `DtIdsRefinement` | `DtIds` implements `IdsVerdict` | the refinement mapping |
| `DtIds_proofs` | theorems about `DtIds` and `DtTree` | |
| `DtIdsRefinement_proofs` | theorems about its verdicts, its log and the refinement | |
| `LruHash` | `BPF_MAP_TYPE_LRU_HASH` (external) | operators only: a map is its preallocated elements, which are recycled with their old content |
| `IpCount` | `count_IPs_xdp.bpf.c` | `elem` are the map's preallocated elements; a lookup gives an element (`ptr`), not a value; `AddCount`, `AddBytes`, `Insert` are its three updates |
| `IpDump` | `count_IPs_xdp.usr.c`, composed with `IpCount` | `NextKey`, `PrintRow`, `EndLoop` are the printing loop |
| `IpCount_proofs` | theorems about `IpCount` | |
| `IpDump_proofs` | theorems about `IpCount` composed with `IpDump` | |
| `FlowTable` | section 6 of `parse_update`, `dt_xdp.bpf.c:141-179` | `flow` is `flow_info_map`, `fi` the pointer a lookup returned, `job` the packet and its `time_now`; one action per access through the pointer (`Elapsed`, `Seen`, `Add`, `Load`), `Update` writes the features, `Insert` is the other branch |
| `FlowTable_proofs` | theorems about `FlowTable` | |
| `NetListener` | the three listeners, the execve tracer and their loaders | the variable `hook` says which of the four programs runs; `Receive` reserves, `Handle` parses (`ParseXdp`, `ParseTc`, `ParseTracepoint`, none for execve) and gives the record back; one action per step of `main` |
| `NetListener_proofs` | theorems about `NetListener` | |
| `DtExport` | `DT_export_c_header`, the warning of `main`, the loader's copy | one action per kind of turn of the BFS loop; uses `DtTree`'s walk on the result |
| `DtExport_proofs` | theorems about `DtExport` | |
| `SumTheorems` | lemmas for the proofs | least elements, the sum over a finite set, how two sums compare |
| `MC*` | instances for TLC | |

Operators named `X_Something` next to an `X` are mutants: plausible bugs of `X` that
the properties are shown to catch (`PROJECT.json`, "mutants").

### Abstractions

* A packet of `DtTree` says how many headers are complete and which values the
  features are read from. IP options and later fragments make `dt_xdp.bpf.c` read the
  ports at the wrong place, like the XDP listener; there `sport` and `dport` are what is
  read, and the difference is modelled in `NetListener`.
* A packet of `NetListener` keeps its length apart from that of its linear buffer, all that XDP
  and TC can see of it: at TC `data_end - data` is the latter, while an XDP program without
  fragment support gets the whole packet in one buffer. It keeps apart what is read 20 bytes
  and `4 * ihl` bytes behind the start of the IP header, where `ihl` may be anything from 0
  to 15, and whether it is a later fragment, which no hook tests. The tracepoint reads memory
  at the offsets in the skb: the model says which of the two places can be read (`mapped`),
  whether they are the packet's own headers (`placed`) and what is there, and never compares with
  the packet's end, as the code does not.
* Invocations interleave at the map accesses and ring calls. Parsing is local to a
  CPU and part of the step that reserves (IDS) or gives back (listeners).
* Poll timeouts and `sleep` only delay the loader; the end of the benchmark time, a
  signal, `-EINTR` and failures may come at any moment.
* A threshold of a trained tree is an integer or a half-integer: any other real
  rounds like the half-integer between its neighbours. What scikit-learn guarantees of a
  tree is `IsTree`: a child has a larger number than its parent and is one level
  deeper, and the thresholds, lying between feature values, are not negative.
* The export does not keep everything: an odd integer threshold (`exp_rounding`), a leaf
  with equal class weights and a tree that is one malicious leaf are exported
  otherwise than predicted. `Exportable` names these three, and `ExportFaithful`
  speaks of all other trees.
* `print_log` is called through a pointer to a function that returns `int`, while it
  is `void`; what libbpf reads is arbitrary, so a poll may end with an error at any
  record (`DrainError`).
* Atomic 64-bit counters do not overflow within any realistic run; they are naturals.
* An LRU map may evict any set of its entries at any insertion, full or not: the kernel
  evicts in batches, keeps free elements on per-CPU lists, and approximates the order of
  use. `BPF_NOEXIST` takes (and maybe evicts) an element before it looks whether the
  key exists, as the kernel does, and an evicted element keeps its content. Properties that
  no counter can keep under eviction are stated up to the first one (`~evicted`); the
  others (`CountedOnce`, `DivisorPositive`) hold through all of them.
* `FlowTable` has times in ns with smaller moduli (`U64`, `U32`, `NsPerMs`) in the same
  order; the wrap of the unsigned difference and of the sums is kept. It is the program
  built with all six flow features, whose bits are where `project_features.h` numbers
  them in its comments; what the constants give as written is undefined behaviour. Packets are at
  most `MaxSize` bytes, and `MaxSize * MaxPackets` is below 2^64 as `MaxPackets` is below
  2^32: in the code a size is 16 bits, so that 2^32 packets do not overflow a total.
* An execve call is a packet of `NetListener` whose addresses stand for pid, uid and
  command name and whose ports stand for the filename.

## Runs

Bounds are in the cfg files. Two CPUs suffice for the races between two invocations
and the loader: each race of these programs is between two of the three.

| run | question | bounds | result |
|---|---|---|---|
| `dt_torn` | with torn stores and a ring that is mostly full: is the loop left by a return, is a settled packet classified right, does every invocation return, is a full ring drained, does a signal end the loader, is `IdsVerdict` implemented? | 2 CPUs, 3 nodes, ring of 1, 3 packets (both branches of the root, one rejected) | pass |
| `dt_ids` | with whole stores: is a verdict during loading an ancestor's, is it independent of the ring, are reservations given back, is the log true? | 2 CPUs, 5 nodes (3 levels, the last one cut), ring of 2, 4 packets (both branches of two levels, one too short, one rejected) | pass |
| `dt_debug_ports` | are the ports retrieved for a debug record? | 1 CPU, `F_PROTOCOL` only | violated |
| `ipc_dump` | is each packet counted at most once, whatever is evicted; until then, is the undercount bounded, are the two counters together, is each entry printed once and with a current value? | 2 CPUs, 3 keys (two pairs, one error), 4 packets, 3 elements: two CPUs can miss the same key, and an element can be recycled under a pointer | pass |
| `ipc_stale_row` | is each row read from the map? | 1 CPU, 2 elements for 3 keys: eviction | violated |
| `exp_export` | does the exported tree decide on the vector the XDP program builds as scikit-learn does on the columns of `FEATURE_IDX`, does an unwarned tree fit, does the export end? | a benign single leaf, every tree of depth 1 and 2 over the two ports, all leaf classes, thresholds 1.5 to 2.5, no ties; chains of depth 1 to 8 with `-d` 2, 7 and 8; the real 128 nodes | pass |
| `exp_rounding`, `exp_depth` | is the threshold rounded down, does the advised depth fit? | odd integer thresholds; chains up to depth 8 | violated |
| `net_listeners` | at all four hooks: log in order, its lines true where the hook reads in the right place, no unwritten memory printed by the tracepoints, drops by a full XDP ring only, exit status right, every event printed, a signal ends the loader | 2 CPUs, 3 packets out of 2 to 6 kinds per hook (one per outcome of parsing; among them a packet with IP options, a later fragment, one partly outside the linear buffer, a cut one), ring of 2 | pass |
| `net_xdp_full` | is no packet dropped (XDP)? | 2 CPUs, ring of 1 | violated |
| `flow_table` | does a flow steered to one CPU get exactly its features, is no count a zero divisor, does an idle entry count what it says? | 2 CPUs, a TCP flow of two sizes on one of them and a UDP flow on both, 3 packets, 2 elements, times 0 to 4 in units of half a millisecond, 2^4 and 2^6 for 2^32 and 2^64 | pass |
| `flow_iat` | is a flow's total inter-arrival time at most the time that has passed? | the same | violated |

The runs without symmetry are those with liveness properties. Where the models
bound a counter (`MaxPackets`, `MaxRows`, `MaxTime`) the bound is in a guard and named there.
`DtIds` needs no bound at all: its state is finite.

`PrefixVerdict` is false when stores tear (its mutant is exactly that): a packet
classified while a node is half stored may take a branch the trained tree does not
have. `SettledVerdict` does not need whole stores.

### What the code does otherwise than it says

The violated runs are the findings of `PROJECT.json`; each quotes the comment or
message it contradicts. The gravest: the XDP listener **drops** packets when its ring
is full, because `TCX_PASS` is 0, which is `XDP_ABORTED`; the advised `max_depth` of 8
overflows the loader's array; odd integer thresholds are exported one too low; with flow
features, an inter-arrival time between two CPUs wraps to 2^64.

Others are in the models without a run of their own:

* `dt_xdp.bpf.c:263`: a packet too short for its IP header is logged with the fields an
  earlier record left in the ring (`Unwritten` of `DtIds`). The TC and XDP listeners do
  the same with the addresses and ports of a rejected packet.
* `dt_xdp.usr.c:193`: a raised flag does not end the loop while packets keep
  `ring_buffer__poll` busy (`QuietShutdown` assumes that packets stop).
* `count_IPs_xdp.bpf.c:122`: two CPUs that both miss a new pair count one packet
  (`UndercountBounded` says that it is never worse than one packet per other CPU).
* `count_IPs_xdp.bpf.c:118`: with eviction, an add may land in an element that now
  belongs to another pair; `CountedOnce` says that it is at least not counted twice.
* `count_IPs_xdp.usr.c:143`: when the cursor's key is evicted the iteration starts again;
  under sustained eviction the printing repeats rows and need not end.
* `net_listener_xdp.bpf.c:80`: the transport header is taken to start 20 bytes behind the start
  of the IP header, so that of a packet with IP options the ports are bytes of the options. No
  hook tests `frag_off`: of a later fragment, payload is logged as ports. `dt_xdp.bpf.c:118` does
  both and decides on them.
* `net_listener_tc.bpf.c:41`, "retrieve packet size": `data_end - data` is the linear part of
  the packet only, and a header outside it is an error "too short".
* `net_listener.bpf.c:53`: the tracepoint takes `data_len`, what is outside the linear buffer, for
  the size: 0 for a packet in one buffer.
* `net_listener.bpf.c:71`, "packet too short for TCP header": `bpf_probe_read_kernel` fails where
  memory cannot be read, not where the packet ends; of a cut packet the bytes behind its end are
  logged, without an error code.
* `net_listener.bpf.c:60`: the EtherType is not tested, so a frame that is not IP and has a 4 in its
  first nibble is logged as IP. `LinesTrue` excepts these five by name, and every one of them occurs in
  `net_listeners`.
* `net_listener_tc.usr.c:83`, `net_listener_xdp.usr.c:89`: a failed attachment exits with 0, and
  `dt_xdp.usr.c` always does. `StatusTold` is claimed of the two tracepoint loaders only.
* `main.py:284`: a tree that is one malicious leaf is exported as an empty array, which
  passes everything (`Exportable` excepts it).
* `main.py`, in the comments of `dt_params.h`: `pass_left` and `pass_right` show a bit of the
  feature number, not of the pass bits; only the comments are wrong.
* `dt_xdp.bpf.c:143`: the protocol is not part of the flow key, and UDP ports are 0 in it
  unless a port is a feature, so different flows share an entry.
* `dt_xdp.bpf.c:154`: a flow whose packets come to several CPUs gets means of counters from
  different moments; `FeaturesExact` is claimed of flows steered to one CPU.

### Fairness

An invocation of an XDP program runs to its end on its CPU, hence weak fairness of
each CPU's steps. The loader is a thread the scheduler runs, hence weak fairness of
its own steps as a whole. Packets, signals, the end of the benchmark and failures have
none. `QuietShutdown` assumes that packets stop, in the property itself: without that
the loop may not end, since a poll goes on while it finds records. In `net_listeners`
the bound on packets stops them.

## Proofs

Every safety property of the passing runs is proved, each for every value of the
constants. Liveness stays with TLC.

Two techniques recur. The prover cannot use the library's induction theorems, so every
induction is a least counterexample (`SumTheorems!LeastNumber`: a set of naturals that is
not empty has a least element). And where a model has a recursive function, it is
first proved that such a function exists, before its equation is used.

The constants are restricted by the named assumptions of the modules only: the array has 1
to 255 entries (`ml_dt.h:6`), only packet features are chosen, packets carry naturals, the
bounds are naturals. The theorems that need more state it.

### The IDS: `DtIds_proofs`

* `TypeCorrect`, with the strengthening `TypeInv`: a CPU that is not idle has a packet and
  a path, a walking one a path that is not empty, and the loader's position fits its
  label.
* `LoopAlwaysReturns`: the bound `j <= 16` is never what ends the loop. Inductive
  invariant: after n nodes the index is at least 2^(n-1) - 1 (`ReachedBy`), so that it is
  past an array of 255 entries long before n = 17. It needs nothing of the array's
  content, which is why it also holds while the array is being filled.
* `SettledVerdictCorrect`: a packet that arrives after the last store is classified along
  the trained tree's path to its end. The invariant says that the entries below
  `fillIdx` are the trained ones, that a loader past the filling has filled all, and that
  a settled walk has followed the trained path so far.
* `PrefixVerdictCorrect`: the same path, during the filling, under the assumption
  that stores do not tear (then a defined node is the trained node).
* `ReservationsAlwaysHeld`: the busy records of the ring are those of the invocations that
  reserved one. The invariant `HeldInv` is on places: a CPU holds at most one place of
  the ring, and holds one exactly while `ne` is set. The number of busy records follows by
  a bijection between places and CPUs.
* `FeatureIndexInRange`, `FeatureIndexIncreases`: `fvifupdate` stays inside the vector and
  gives each chosen feature an entry of its own, in the order of the bits.

### The verdict, the log and the refinement: `DtIdsRefinement_proofs`

* `SettledVerdictComputed`: the verdict of a settled packet is `TreeVerdict`, the value of
  the recursive walk over the trained tree. The walk's recursion ends because a child
  has a larger index than its node; the invariant `VerdictInv` says that what remains to be
  walked from the current place decides the same as the whole walk.
* `RingAlwaysBlind`: two invocations on the same packet, one with a record and one without,
  decide alike.
* `LogAlwaysTrue`: what is logged of a well-formed packet is its own header, ports and verdict.
  Invariant: every submitted record of the ring is true (`AllTrue`); what an invocation
  submits is true by `VerdictInv`.
* `ImplementsIdsSafely`: every step of the XDP program or its loader is a step of `IdsVerdict`
  or a stutter. This is the safety part of `ImplementsIds`; the fairness of `IdsVerdict` stays
  with the run `dt_torn`.

The last three assume `PortFeatures`: a port is among the features. The shipped `FEATURES` has
both (`dt_features.h:5`). Without one the code reads the ports only if it has a record, and only of
TCP: a TCP packet cut before its ports is then an error -4 with a record and classified
without one, so that `RingBlind` is false. The same condition in the code makes
`dt_debug_ports` a finding.

### The counters: `IpCount_proofs`, `IpDump_proofs`

Any number of CPUs, any packets, map size and evictions.

* `TypeCorrect`, with the invariant `IInv`: a busy CPU has a packet, and two elements with one
  key are the same, which is what the map promises and the other proofs need.
* `NeverCountedTwice`: whatever is evicted and recycled under a pointer, the entries together
  never hold more packets than were received and are not in progress. The property is
  one of sums over the elements and over the CPUs, and each step changes one term of
  each.
* `UndercountAlwaysBounded`, `BytesAlwaysLag`: until the first eviction, an entry misses
  at most one packet for every other CPU, and its bytes lag behind its packets by the CPUs
  between the two adds. The invariant `Steady` says that a pointer still leads to the element of
  its packet's key, that a key without an entry was seen only by CPUs that are at work on
  it, and what each entry misses.
* `DumpOnlyReads`: `DumpSpec => Spec`, the counters with their loader are a behaviour of
  the counters alone, since every action of the loader leaves `cvars` unchanged; hence
  `CountersWhilePrinted`, all of the above while the loader prints.
* `DumpAlwaysComplete`, `RowsAlwaysCurrent`: until the first eviction the printing shows every
  entry it began with, no key twice, and counts that were read for their row and are between
  the counter at the beginning and now. The invariant `DumpInv` says that the printed keys are
  those before the cursor in the map's order, and that the other entries are still to come.

### The flow features: `FlowTable_proofs`

Any number of CPUs, packets, map size and evictions.

* `TypeCorrect`: counters and features stay in their unsigned widths.
* `DivisorAlwaysPositive`: no count that a mean divides by is 0. The count must not wrap,
  so the invariant `IInv` bounds every count, plus the CPUs that have not counted yet, by the
  packets received (`CountsReceived`), which `BoundAssumption` keeps below 2^32; and a
  pointer leads to an element that was filled once, whose count stays positive when it
  is recycled (`FilledPositive`).
* `FeaturesAlwaysExact`: until the first eviction, a flow steered to one CPU gets exactly
  its features. `HInv` says where the packets of a flow are: its history ascends in
  time, a flow has one element, and a CPU's pointer leads to its own packet's element.
  `XInv` gives for every place of that CPU in `parse_update` what the element holds:
  which of the three adds are done, and when the element was last seen. That the totals do
  not wrap follows from `BoundAssumption`.
* `FlowAlwaysSettles`: until the first eviction, an entry at rest counts each of its
  packets with all of its bytes, and misses at most one for every CPU but the one that
  inserted it. `SInv` has a witness, the set of counted packets and a packet for every CPU at
  work, that explains the element at every moment; each step extends the witness.

### The listeners and the tracer: `NetListener_proofs`

Any number of CPUs, packets and ring size.

* `TypeCorrect`, `LogAlwaysInOrder`, `LinesAlwaysTrue`, `LinesAlwaysWritten`: the log and the ring
  are the recorded packets that got an event, once each and in the order of their arrival;
  a line without an error code shows its own packet; no line of a tracepoint shows memory
  that nobody wrote. What such a line is proved to show depends on what the hook can know: protocol
  and addresses, at the tracepoint if the skb's offsets lead to the packet's headers (`Readable`);
  the ports, if there is a header and the hook looks for it where it is (`HasPorts`,
  `WellPlaced`); and of XDP and TC that all headers are in the linear buffer, and the size if
  nothing is outside it (`HeadersThere`). Invariant `IInv`: a busy record is that of the packet its CPU works on
  (`SlotsKept`), a line given back is what `Handle` writes of its packet (`LinesFilled`), and the
  order of the log and the ring, place by place (`Order`).
* `DropsOnlyAtFullXdp`: only the XDP listener drops, and only packets that found the ring
  full; the property is inductive as it stands.
* `StatusAlwaysTold`: the exit status of the tracepoints' loaders. The invariant says
  that `err` tells a failure at every place of `main` before its end.

### The exporter: `DtExport_proofs`

Every tree with `IsTree`, every `max_depth` and every packet.

* `TypeCorrect`: types, and no position is exported twice.
* `UnwarnedAlwaysFits`: with `DT_NODE_NB = 128`, a tree exported without the warning fits the
  loader's array. 2^d doubles with d because the subsets of 1..d do.
* `ExportAlwaysFaithful`: if the tree is `Exportable` and fits, the XDP program's walk of
  the loaded array, with the vector `parse_update` builds of a packet, decides as `predict` does
  on the packet's row of training data. The vector is the row because `fvifupdate` counts the
  bits in the order of `FEATURE_IDX` (`IndexIsColumn`, `VectorIsRow`), which is assumed to number
  the features that are used from 0, as its comment demands. The invariant `EInv` says where the breadth-first
  search is: some map from positions to nodes of the tree agrees with all that is exported
  or waits, and sends the children of position i to 2i + 1 and 2i + 2 (`Laid`); a
  child of an exported node is exported, waits, or is outside the array
  (`Open`); and a node's position comes before the end of its level (`Reach`), so that what is
  outside is a leaf, whose class its parent's pass bit keeps. The theorem then
  compares two recursions, the walk along growing positions and the descent along growing
  node numbers, step by step.

### Only model-checked

* Liveness, and what needs ENABLED, is beyond the prover: `InvocationReturns`, `RingRegainsRoom`,
  `QuietShutdown`, `ExportEnds`, the two liveness properties of `NetListener`, and the fairness of
  `IdsVerdict` in `ImplementsIds`.
* That the code violates what a finding quotes: a counterexample is for TLC to show.

## Plan

1. An abstract log (a queue of recorded packets) that `NetListener` implements.
2. The shipped tree of `dt_params.h` as a value of `Trained`.
3. Proofs: that `IpCount` and `FlowTable` implement a per-key counter up to the stated
   losses; the exactness of `DtExport` with ties, as the verdict the pass bits do give.

## Not modelled

Formatting of the log and of the rows (`dt_xdp.usr.c:196` never prints its header again, and
`count_IPs_xdp.usr.c:177` falls through to `UNKNOWN`), the command-line options, the measured times,
`print_hist.py`, the Makefile, and the training (library calls on random data). The
nodes of `dt_params.h` are generated data: the theorems about the walk hold for every tree.
