--------------------------------- MODULE DtIds ---------------------------------
(***************************************************************************)
(* The decision-tree IDS: the XDP program src/src/dt_xdp.bpf.c, run by     *)
(* several CPUs at once, and its loader src/src/dt_xdp.usr.c, which        *)
(* attaches the program first and fills the tree afterwards, node by node. *)
(* They share the array map dt_nodes_array ("nodes") and the ring buffer   *)
(* events_ring ("ring").                                                   *)
(***************************************************************************)
EXTENDS DtTree, BpfRing

CONSTANTS
    CPUs,
    Packets,      \* the packets that may arrive
    NoPacket,     \* what an idle CPU is working on
    Trained,      \* trained_dt_nodes, zero-padded to DT_NODE_NB entries
    RingSlots,    \* records events_ring holds; 0 stands for DEBUG = false
    TornStores,   \* may another CPU see half of a node being stored?
    Garbage       \* a field of an event nobody has written

ASSUME PacketsAssumption ==
    /\ Packets \subseteq [hdrs : 0..3, ip : BOOLEAN, proto : Nat,
                          sport : Nat, dport : Nat, size : Nat]
    /\ NoPacket \notin Packets
ASSUME TrainedAssumption == Trained \in [Index -> DtNode]
ASSUME RingAssumption == RingSlots \in Nat /\ TornStores \in BOOLEAN

VARIABLES
    nodes,     \* dt_nodes_array, the shared map
    fillIdx,   \* fill_dt_nodes_array: the loop's i
    half,      \* the field of node fillIdx already stored when a store tears
    upc,       \* where the loader is
    exiting,   \* the loader's flag
    pc,        \* where each CPU is in xdp_trace_net_event
    pkt,       \* the packet it handles
    ne,        \* whether its bpf_ringbuf_reserve succeeded
    trail,     \* the nodes its walk has reached: i is the last, j = Len - 1
    pass,      \* the walk's current decision
    settled,   \* history: the packet arrived after the tree was loaded
    ring       \* events_ring

kernel == <<pc, pkt, ne, trail, pass, settled>>
loader == <<nodes, fillIdx, half, upc, exiting>>
vars == <<kernel, loader, ring>>

Attached == upc \in {"attached", "setup", "fill", "check", "poll"}
Loaded == fillIdx = DT_NODE_NB

-------------------------------------------------------------------------------
(* The events a CPU writes. *)

\* "of" and "after" are history: whose event it is, and its "settled".
Unwritten == [hdr |-> Garbage, ports |-> Garbage, decision |-> Garbage,
              of |-> NoPacket, after |-> FALSE]

\* Mutant: "drop" writes the decision of "pass".
Event_AlwaysPass(c, decision) ==
    [ParsedEvent(pkt[c], TRUE, Unwritten) EXCEPT
        !.decision = TRUE, !.of = pkt[c], !.after = settled[c]]

Event(c, decision) ==
    [ParsedEvent(pkt[c], TRUE, Unwritten) EXCEPT
        !.decision = decision, !.of = pkt[c], !.after = settled[c]]

-------------------------------------------------------------------------------
Init ==
    /\ nodes = [i \in Index |-> ZeroNode]
    /\ fillIdx = 0
    /\ half = "none"
    /\ upc = "start"
    /\ exiting = FALSE
    /\ pc = [c \in CPUs |-> "idle"]
    /\ pkt = [c \in CPUs |-> NoPacket]
    /\ ne = [c \in CPUs |-> FALSE]
    /\ trail = [c \in CPUs |-> <<>>]
    /\ pass = [c \in CPUs |-> TRUE]
    /\ settled = [c \in CPUs |-> FALSE]
    /\ ring = <<>>

(* The XDP program. *)

\* Mutants: the errors go to a label of their own, which nothing handles; a
\* packet without a record is passed at once, as the listeners do.
AfterParse_ErrorLabel(p, reserved) ==
    CASE ParseResult(p, reserved) = -2 -> "passsilent"
      [] ParseResult(p, reserved) = 0  -> "walk"
      [] OTHER                         -> "error"
AfterParse_NeedsRecord(p, reserved) ==
    CASE ParseResult(p, reserved) = -2 \/ ~reserved -> "passsilent"
      [] ParseResult(p, reserved) = 0 /\ reserved   -> "walk"
      [] OTHER                                      -> "drop"

\* Where the switch on parse_update's result sends the packet.
AfterParse(p, reserved) ==
    CASE ParseResult(p, reserved) = -2 -> "passsilent"
      [] ParseResult(p, reserved) = 0  -> "walk"
      [] OTHER                         -> "drop"

\* A packet arrives: the event is reserved if the ring has room, the packet is
\* parsed, and a parsed packet enters classify_dt at the root, "pass" true.
Receive(c, p) ==
    LET reserved == CanReserve(ring, RingSlots) IN
    /\ Attached
    /\ pc[c] = "idle"
    /\ pc' = [pc EXCEPT ![c] = AfterParse(p, reserved)]
    /\ pkt' = [pkt EXCEPT ![c] = p]
    /\ ne' = [ne EXCEPT ![c] = reserved]
    /\ trail' = [trail EXCEPT ![c] =
                    IF ParseResult(p, reserved) = 0 THEN <<0>> ELSE <<>>]
    /\ settled' = [settled EXCEPT ![c] = Loaded]
    /\ ring' = IF reserved THEN Reserve(ring, c, Unwritten) ELSE ring
    /\ UNCHANGED <<pass, loader>>

\* Mutant: one iteration per level, none for the step past the last one.
InLoop_PerLevel(c) == pc[c] = "walk" /\ 2 ^ (Len(trail[c]) - 1) <= DT_NODE_NB

\* The body of the bounded loop, j <= 16.  Nothing is modelled after the loop:
\* falling out of it returns no value, and LoopReturns says it never happens.
InLoop(c) == pc[c] = "walk" /\ Len(trail[c]) <= 17
At(c) == trail[c][Len(trail[c])]

WalkEnd(c) ==
    /\ InLoop(c)
    /\ AtEnd(nodes, At(c))
    /\ pc' = [pc EXCEPT ![c] = IF pass[c] THEN "pass" ELSE "drop"]
    /\ UNCHANGED <<pkt, ne, trail, pass, settled, loader, ring>>

\* Mutants: the two pass bits swapped; i not advanced.
WalkDown_SwapsBits(c) ==
    LET fv == FeatureVector(pkt[c], ne[c])
        node == nodes[At(c)]
    IN  /\ InLoop(c)
        /\ ~AtEnd(nodes, At(c))
        /\ trail' = [trail EXCEPT ![c] = Append(@, Child(node, At(c), fv))]
        /\ pass' = [pass EXCEPT ![c] = IF GoesLeft(node, fv)
                                       THEN node.feature.right ELSE node.feature.left]
        /\ UNCHANGED <<pc, pkt, ne, settled, loader, ring>>
WalkDown_Stays(c) ==
    LET fv == FeatureVector(pkt[c], ne[c])
        node == nodes[At(c)]
    IN  /\ InLoop(c)
        /\ ~AtEnd(nodes, At(c))
        /\ pass' = [pass EXCEPT ![c] = BranchPass(node, fv)]
        /\ UNCHANGED <<pc, pkt, ne, trail, settled, loader, ring>>

\* One array element is read once: a torn store shows the old threshold with
\* the new feature byte, or an old feature byte, which ends the walk.
WalkDown(c) ==
    LET fv == FeatureVector(pkt[c], ne[c])
        node == nodes[At(c)]
    IN  /\ InLoop(c)
        /\ ~AtEnd(nodes, At(c))
        /\ trail' = [trail EXCEPT ![c] = Append(@, Child(node, At(c), fv))]
        /\ pass' = [pass EXCEPT ![c] = BranchPass(node, fv)]
        /\ UNCHANGED <<pc, pkt, ne, settled, loader, ring>>

\* Mutant: "passsilent" returns without discarding its record.
Release_Leaks(c) ==
    /\ pc[c] \in {"drop", "pass", "passsilent"}
    /\ ring' = CASE ne[c] /\ pc[c] = "drop" -> Submit(ring, c, Event(c, FALSE))
                 [] ne[c] /\ pc[c] = "pass" -> Submit(ring, c, Event(c, TRUE))
                 [] OTHER                   -> ring
    /\ pc' = [pc EXCEPT ![c] = "idle"]
    /\ pkt' = [pkt EXCEPT ![c] = NoPacket]
    /\ ne' = [ne EXCEPT ![c] = FALSE]
    /\ trail' = [trail EXCEPT ![c] = <<>>]
    /\ pass' = [pass EXCEPT ![c] = TRUE]
    /\ settled' = [settled EXCEPT ![c] = FALSE]
    /\ UNCHANGED loader

\* The three labels in use: the record is submitted or discarded if there is
\* one, and the invocation returns XDP_PASS.
Release(c) ==
    /\ pc[c] \in {"drop", "pass", "passsilent"}
    /\ ring' = CASE ~ne[c] -> ring
                 [] ne[c] /\ pc[c] = "drop" -> Submit(ring, c, Event(c, FALSE))
                 [] ne[c] /\ pc[c] = "pass" -> Submit(ring, c, Event(c, TRUE))
                 [] OTHER                   -> Discard(ring, c, Unwritten)
    /\ pc' = [pc EXCEPT ![c] = "idle"]
    /\ pkt' = [pkt EXCEPT ![c] = NoPacket]
    /\ ne' = [ne EXCEPT ![c] = FALSE]
    /\ trail' = [trail EXCEPT ![c] = <<>>]
    /\ pass' = [pass EXCEPT ![c] = TRUE]
    /\ settled' = [settled EXCEPT ![c] = FALSE]
    /\ UNCHANGED loader

Cpu(c) == WalkEnd(c) \/ WalkDown(c) \/ Release(c)

-------------------------------------------------------------------------------
(* The loader. *)

GoTo(place) == upc' = place

\* open, load, if_nametoindex, attach
Attach ==
    /\ upc = "start"
    /\ GoTo("attached")
    /\ UNCHANGED <<nodes, fillIdx, half, exiting, kernel, ring>>

\* The two calls of signal().
InstallHandlers ==
    /\ upc = "attached"
    /\ GoTo("setup")
    /\ UNCHANGED <<nodes, fillIdx, half, exiting, kernel, ring>>

\* ring_buffer__new and the two map descriptors
Setup ==
    /\ upc = "setup"
    /\ GoTo("fill")
    /\ UNCHANGED <<nodes, fillIdx, half, exiting, kernel, ring>>

\* Any of these calls, or a bpf_map_update_elem, may fail: goto cleanup.
Fail ==
    /\ \/ upc \in {"start", "setup"}
       \/ upc = "fill" /\ half = "none"
    /\ GoTo("done")
    /\ UNCHANGED <<nodes, fillIdx, half, exiting, kernel, ring>>

AfterStore ==
    /\ fillIdx' = fillIdx + 1
    /\ half' = "none"
    /\ GoTo(IF fillIdx + 1 = DT_NODE_NB THEN "check" ELSE "fill")
    /\ UNCHANGED <<exiting, kernel, ring>>

FillNode ==
    /\ upc = "fill"
    /\ nodes' = [nodes EXCEPT ![fillIdx] = Trained[fillIdx]]
    /\ AfterStore

\* Mutant: a node is stored in two updates, one field each.
FillHalf_Always(field) ==
    /\ upc = "fill"
    /\ half = "none"
    /\ nodes' = [nodes EXCEPT ![fillIdx] =
                    IF field = "threshold"
                    THEN [@ EXCEPT !.threshold = Trained[fillIdx].threshold]
                    ELSE [@ EXCEPT !.feature = Trained[fillIdx].feature]]
    /\ half' = field
    /\ UNCHANGED <<fillIdx, upc, exiting, kernel, ring>>

\* The update of an array element is a memcpy under no lock the XDP program
\* takes: a build may store the two fields one after the other, either first.
FillHalf(field) ==
    /\ TornStores
    /\ upc = "fill"
    /\ half = "none"
    /\ nodes' = [nodes EXCEPT ![fillIdx] =
                    IF field = "threshold"
                    THEN [@ EXCEPT !.threshold = Trained[fillIdx].threshold]
                    ELSE [@ EXCEPT !.feature = Trained[fillIdx].feature]]
    /\ half' = field
    /\ UNCHANGED <<fillIdx, upc, exiting, kernel, ring>>

\* Mutant: while (1)
LoopCheck_Forever ==
    /\ upc = "check"
    /\ GoTo("poll")
    /\ UNCHANGED <<nodes, fillIdx, half, exiting, kernel, ring>>

\* while (!exiting)
LoopCheck ==
    /\ upc = "check"
    /\ GoTo(IF exiting THEN "done" ELSE "poll")
    /\ UNCHANGED <<nodes, fillIdx, half, exiting, kernel, ring>>

\* ring_buffer__poll processes the head and looks again while it finds data.
Drain ==
    /\ upc = "poll"
    /\ HeadReady(ring)
    /\ ring' = Tail(ring)
    /\ UNCHANGED <<loader, kernel>>

\* print_log is a void function called through a pointer that returns int: what
\* it leaves may be negative, which ends the poll with an error.
DrainError ==
    /\ upc = "poll"
    /\ HeadLogged(ring)
    /\ ring' = Tail(ring)
    /\ exiting' = TRUE
    /\ GoTo("check")
    /\ UNCHANGED <<nodes, fillIdx, half, kernel>>

\* The poll returns when no record is ready; an interrupted epoll_wait and the
\* end of the benchmark set the flag.  sleep(1) only delays the next check.
PollReturn ==
    /\ upc = "poll"
    /\ ~HeadReady(ring)
    /\ exiting' \in {exiting, TRUE}
    /\ GoTo("check")
    /\ UNCHANGED <<nodes, fillIdx, half, kernel, ring>>

\* SIGINT or SIGTERM: the handler sets the flag; before it is installed the
\* signal kills the loader, and the closed link detaches the program.
Signal ==
    /\ \/ /\ upc \in {"start", "attached"}
          /\ GoTo("done")
          /\ UNCHANGED exiting
       \/ /\ upc \in {"setup", "fill", "check", "poll"}
          /\ exiting' = TRUE
          /\ UNCHANGED upc
    /\ UNCHANGED <<nodes, fillIdx, half, kernel, ring>>

Loader ==
    \/ Attach \/ InstallHandlers \/ Setup
    \/ FillNode \/ \E field \in {"threshold", "feature"} : FillHalf(field)
    \/ LoopCheck \/ Drain \/ PollReturn

\* The loader has exited and the last invocations have returned.
Terminated ==
    /\ upc = "done"
    /\ \A c \in CPUs : pc[c] = "idle"
    /\ UNCHANGED vars

-------------------------------------------------------------------------------
Next ==
    \/ \E c \in CPUs : Cpu(c) \/ \E p \in Packets : Receive(c, p)
    \/ Loader \/ Fail \/ DrainError \/ Signal \/ Terminated

Spec == Init /\ [][Next]_vars

\* An invocation runs to its return; the loader keeps running.  Packets,
\* signals and failures may come or not.
FairSpec == Spec /\ (\A c \in CPUs : WF_vars(Cpu(c))) /\ WF_vars(Loader)

-------------------------------------------------------------------------------
(* Properties. *)

EventType == [hdr      : (Nat \X Nat) \cup {Garbage},
              ports    : (Nat \X Nat) \cup {Garbage},
              decision : BOOLEAN \cup {Garbage},
              of       : Packets \cup {NoPacket},
              after    : BOOLEAN]
SlotType == [by : CPUs, state : {"busy", "submitted", "discarded"}, ev : EventType]

\* Every variable keeps its type: the array holds dt_node values, a walk's
\* indexes are natural numbers, the ring holds events.
TypeOK ==
    /\ nodes \in [Index -> DtNode]
    /\ fillIdx \in 0..DT_NODE_NB
    /\ half \in {"none", "threshold", "feature"}
    /\ upc \in {"start", "attached", "setup", "fill", "check", "poll", "done"}
    /\ exiting \in BOOLEAN
    /\ pc \in [CPUs -> {"idle", "walk", "drop", "pass", "passsilent"}]
    /\ pkt \in [CPUs -> Packets \cup {NoPacket}]
    /\ ne \in [CPUs -> BOOLEAN]
    /\ trail \in [CPUs -> Seq(Nat)]
    /\ pass \in [CPUs -> BOOLEAN]
    /\ settled \in [CPUs -> BOOLEAN]
    /\ ring \in Seq(SlotType)

\* classify_dt always leaves its loop by a return: an iteration j <= 16 finds
\* the end of the tree, whatever part of the tree is loaded meanwhile.
LoopReturns == \A c \in CPUs : pc[c] = "walk" => InLoop(c)

Vector(c) == FeatureVector(pkt[c], ne[c])
Classified(c) == pc[c] \in {"walk", "drop", "pass"} /\ ParseResult(pkt[c], ne[c]) = 0
Decided(c) == Classified(c) /\ pc[c] # "walk"

\* A packet that arrives after fill_dt_nodes_array is classified by the whole
\* trained tree: its walk is the tree's path for its features, down to the
\* end, and the label it reaches is the branch of the last inner node.
SettledVerdict ==
    \A c \in CPUs : Decided(c) /\ settled[c] =>
        /\ Follows(Trained, Vector(c), trail[c])
        /\ AtEnd(Trained, At(c))
        /\ pc[c] = IF PathPass(Trained, Vector(c), trail[c]) THEN "pass" ELSE "drop"

\* With stores that do not tear, a packet classified while the loader is still
\* filling the array is classified by an ancestor of the node that would have
\* decided: its walk may stop early and never leaves the trained tree's path.
PrefixVerdict ==
    \A c \in CPUs : Classified(c) =>
        /\ Follows(Trained, Vector(c), trail[c])
        /\ pass[c] = PathPass(Trained, Vector(c), trail[c])
        /\ Decided(c) => pc[c] = IF pass[c] THEN "pass" ELSE "drop"

\* What an invocation decides about a packet depends on the packet and the tree
\* alone, not on whether the event ring had room for its record.
RingBlind ==
    \A c, d \in CPUs :
        (/\ pkt[c] = pkt[d]
         /\ settled[c] /\ settled[d]
         /\ {pc[c], pc[d]} \subseteq {"drop", "pass", "passsilent"}) => pc[c] = pc[d]

\* Every reserved record is given back exactly once: the busy records of the
\* ring are those of the invocations in progress, one each.  A record nobody
\* will submit or discard blocks the consumer for ever.
ReservationsHeld ==
    \A c \in CPUs :
        Cardinality({k \in 1..Len(ring) : Holds(ring[k], c)}) = IF ne[c] THEN 1 ELSE 0

\* The log line of a well-formed packet tells the truth about that packet:
\* its own header fields and ports and, once the tree is loaded, the decision
\* of the trained tree, however the records of the CPUs interleave.
LoggedTruth ==
    \A k \in 1..Len(ring) :
        LET ev == ring[k].ev
            p == ev.of
        IN  (ring[k].state = "submitted" /\ p.ip /\ p.hdrs = 3) =>
                /\ ev.hdr = <<p.proto, p.size>>
                /\ ev.ports = IF p.proto \in {IPPROTO_TCP, IPPROTO_UDP}
                              THEN <<p.sport, p.dport>> ELSE <<0, 0>>
                /\ ev.after => ev.decision = TreeVerdict(Trained, FeatureVector(p, TRUE))

\* No invocation is stuck: from any point it reaches its return.
InvocationReturns == \A c \in CPUs : (pc[c] # "idle") ~> (pc[c] = "idle")

\* A full ring loses events only for a while: the loader drains it, unless it
\* has exited, so that a later packet finds room for its record.
RingRegainsRoom ==
    (Len(ring) = RingSlots) ~> (Len(ring) < RingSlots \/ upc = "done")

\* A raised flag ends the loader if packets stop arriving.
Arrival == \E c \in CPUs, p \in Packets : Receive(c, p)
QuietShutdown == []<><<Arrival>>_vars \/ (exiting ~> (upc = "done"))

-------------------------------------------------------------------------------
(* What a comment promises and the code does not keep. *)

\* dt_xdp.bpf.c:113: TCP and UDP ports are retrieved for the debug log also
\* when no chosen feature needs them.
DebugPortsRetrieved ==
    \A k \in 1..Len(ring) :
        LET p == ring[k].ev.of IN
        (ring[k].state = "submitted" /\ p.ip /\ p.hdrs = 3
            /\ p.proto \in {IPPROTO_TCP, IPPROTO_UDP})
        => ring[k].ev.ports = <<p.sport, p.dport>>
===============================================================================
