------------------------------ MODULE NetListener ------------------------------
(***************************************************************************)
(* One monitor in four forms: the network listener attached at the XDP     *)
(* hook (src/src/net_listener_xdp.bpf.c), at the TC hook                   *)
(* (net_listener_tc.bpf.c) or at the netif_receive_skb tracepoint          *)
(* (net_listener.bpf.c), and the tracer of execve calls (first.bpf.c),     *)
(* each with its loader (.usr.c).  The CPUs put one event per packet or    *)
(* call into the ring, the loader prints what it takes out.  "hook" says   *)
(* which of the four.                                                      *)
(*                                                                         *)
(* A packet keeps what the programs tell apart, and what is true of it:    *)
(*   size, len      its length, and how much of it is in the linear buffer *)
(*   ip             its EtherType is ETH_P_IP                              *)
(*   v4, ihl        the version read is 4, and the IP header's length in   *)
(*                  words                                                  *)
(*   proto, addrs   the protocol and the addresses                         *)
(*   later          it is a fragment but not the first                     *)
(*   fixed, behind  what is read for its ports 20 bytes behind the start   *)
(*                  of the IP header, and 4 * ihl bytes behind it          *)
(* The tracepoint reads the memory at the offsets that the skb names, of   *)
(* which it cannot tell what they lead to: there v4, proto, addrs and      *)
(* behind are what is in that memory, and                                  *)
(*   mapped         0: there is no skb; 1, 2, 3: none, the first or both   *)
(*                  of the two places can be read                          *)
(*   placed         they are the packet's own headers                      *)
(* Of an execve call, addrs is the pid, uid and comm, behind the filename, *)
(* and mapped is 0 when the filename cannot be read.                       *)
(***************************************************************************)
EXTENDS FiniteSets, BpfRing

CONSTANTS
    Hooks,         \* the programs of this instance
    CPUs,
    Packets,       \* for each of them, what it may receive
    RingSlots,     \* records the ring holds
    MaxPackets,    \* bound: packets of one behaviour
    Garbage        \* a field of an event nobody has written

ASSUME HooksAssumption == Hooks \subseteq {"xdp", "tc", "tracepoint", "execve"}
\* An XDP program without fragment support gets each packet in one buffer.
ASSUME PacketsAssumption ==
    \A h \in Hooks :
        /\ Packets[h] \subseteq [size : Nat, len : Nat, ip : BOOLEAN, v4 : BOOLEAN, ihl : 0..15,
                                 proto : Nat, addrs : Nat, later : BOOLEAN, fixed : Nat,
                                 behind : Nat, mapped : 0..3, placed : BOOLEAN]
        /\ \A p \in Packets[h] :
              /\ p.len <= p.size
              /\ h = "xdp" => p.len = p.size
              /\ p.ihl = 5 => p.fixed = p.behind
ASSUME BoundsAssumption == RingSlots \in Nat /\ MaxPackets \in Nat
ASSUME GarbageAssumption == Garbage \notin Nat

VARIABLES
    hook,      \* which program runs
    arrived,   \* history: the packets received; a packet is named by its place
    lost,      \* history: those whose bpf_ringbuf_reserve failed
    dropped,   \* history: those the network stack dropped
    work,      \* the packet each CPU handles, 0 if none
    ring,      \* events_ring
    upc,       \* where the loader is
    linked,    \* the program is attached
    err,       \* main's err
    exiting,   \* the loader's flag
    status,    \* exit status
    failed,    \* history: a step of the loader failed
    log        \* the printed events

kernel == <<hook, arrived, lost, dropped, work>>
loader == <<upc, linked, err, exiting, status, failed, log>>
vars == <<kernel, ring, loader>>

-------------------------------------------------------------------------------
(* parse_pack of the three listeners. *)

IPPROTO_TCP == 6
IPPROTO_UDP == 17

ETH_HLEN == 14
IP_HLEN == 20

\* The TCP or UDP header that starts behind so many bytes is not all there.
TooShort(p, start) ==
    CASE p.proto = IPPROTO_TCP /\ p.len < start + 20 -> -4
      [] p.proto = IPPROTO_UDP /\ p.len < start + 8  -> -5
      [] OTHER                                       -> 0

\* What XDP and TC test before they read the IP header.
ParseEth(p) ==
    CASE p.len < ETH_HLEN                              -> -1
      [] p.len >= ETH_HLEN /\ ~p.ip                    -> -2
      [] p.len \in ETH_HLEN..ETH_HLEN+IP_HLEN-1 /\ p.ip -> -3
      [] OTHER                                         -> 0

\* XDP reads the transport header behind 20 bytes of IP header.
ParseXdp(p) ==
    IF ParseEth(p) # 0 THEN ParseEth(p) ELSE TooShort(p, ETH_HLEN + IP_HLEN)

\* TC tests the version too, and uses ihl, as it finds it.
ParseTc(p) ==
    IF ParseEth(p) # 0 THEN ParseEth(p)
    ELSE IF ~p.v4 THEN -2 ELSE TooShort(p, ETH_HLEN + 4 * p.ihl)

\* The tracepoint fails only where memory cannot be read: it tests the version,
\* but neither the EtherType nor where the packet ends.
ParseTracepoint(p) ==
    CASE p.mapped = 0                                             -> -1
      [] p.mapped = 1 \/ (p.mapped > 1 /\ ~p.v4)                   -> -2
      [] p.mapped = 2 /\ p.v4 /\ p.proto = IPPROTO_TCP             -> -4
      [] p.mapped = 2 /\ p.v4 /\ p.proto = IPPROTO_UDP             -> -5
      [] OTHER                                                    -> 0

ParseError(p) ==
    CASE hook = "xdp"        -> ParseXdp(p)
      [] hook = "tc"         -> ParseTc(p)
      [] hook = "tracepoint" -> ParseTracepoint(p)
      [] hook = "execve"     -> 0

\* Mutant: the tracepoint does not clear it either.
Blank_NotCleared == Garbage

\* Only the tracepoint clears the record first.
Blank == IF hook = "tracepoint" THEN 0 ELSE Garbage

\* Mutant: every hook reads behind 20 bytes of IP header.
ReadPorts_Fixed(p) == IF p.proto \notin {IPPROTO_TCP, IPPROTO_UDP} THEN 0 ELSE p.fixed

ReadPorts(p) ==
    IF p.proto \notin {IPPROTO_TCP, IPPROTO_UDP} THEN 0
    ELSE IF hook = "xdp" THEN p.fixed ELSE p.behind

\* What the event calls packet_size: XDP and TC take data_end - data for it, the
\* tracepoint data_len, which is what is outside the linear buffer.
PacketSize(p) == IF hook # "tracepoint" THEN p.len
                 ELSE IF p.mapped = 0 THEN 0 ELSE p.size - p.len

\* Mutant: the error itself is stored for the protocol.
FilledPacket_ErrorAsProtocol(i) ==
    [of |-> i, size |-> PacketSize(arrived[i]), addrs |-> arrived[i].addrs,
     ports |-> ReadPorts(arrived[i]), protocol |-> ParseError(arrived[i])]

\* The event of packet i: an error code replaces the protocol.
FilledPacket(i) ==
    LET p == arrived[i]
        e == ParseError(p)
    IN  [of       |-> i,
         size     |-> PacketSize(p),
         addrs    |-> IF e \in {0, -4, -5} THEN p.addrs ELSE Blank,
         ports    |-> IF e = 0 THEN ReadPorts(p) ELSE Blank,
         protocol |-> IF e < 0 THEN 200 - e ELSE p.proto]

\* The event of call i; the helper that reads a filename clears it if it fails.
FilledExec(i) ==
    LET call == arrived[i]
    IN  [of |-> i, addrs |-> call.addrs, size |-> 0, protocol |-> 0,
         ports |-> IF call.mapped = 0 THEN 0 ELSE call.behind]

Filled(i) == IF hook = "execve" THEN FilledExec(i) ELSE FilledPacket(i)

Unwritten(i) == [of |-> i, size |-> Garbage, addrs |-> Garbage,
                 ports |-> Garbage, protocol |-> Garbage]

Recorded(i) == ParseError(arrived[i]) # -2

-------------------------------------------------------------------------------
(* The program. *)

XDP_PASS == 2
TCX_PASS == 0

\* What the stack does with a return value: an XDP 0 is XDP_ABORTED, a TCX 0 is
\* TCX_PASS, a tracepoint's is ignored.
Drops(value) ==
    \/ hook = "xdp" /\ value # XDP_PASS
    \/ hook = "tc" /\ value # TCX_PASS

ReturnFull == IF hook \in {"xdp", "tc"} THEN TCX_PASS ELSE 0

\* Mutant: the value of XDP at every hook.
ReturnDone_Xdp == XDP_PASS

ReturnDone == IF hook = "xdp" THEN XDP_PASS ELSE IF hook = "tc" THEN TCX_PASS ELSE 0

\* Reserve an event; without one the program returns at once.
\* Bound: fewer than MaxPackets packets so far.
Receive(c, p) ==
    LET i == Len(arrived) + 1 IN
    /\ linked
    /\ work[c] = 0
    /\ Len(arrived) < MaxPackets
    /\ arrived' = Append(arrived, p)
    /\ \/ /\ CanReserve(ring, RingSlots)
          /\ ring' = Reserve(ring, c, Unwritten(i))
          /\ work' = [work EXCEPT ![c] = i]
          /\ UNCHANGED <<lost, dropped>>
       \/ /\ ~CanReserve(ring, RingSlots)
          /\ lost' = lost \cup {i}
          /\ dropped' = IF Drops(ReturnFull) THEN dropped \cup {i} ELSE dropped
          /\ UNCHANGED <<ring, work>>
    /\ UNCHANGED <<hook, loader>>

\* Mutants: every error is discarded; a packet that is not IP keeps its event.
Handle_DiscardsErrors(c) ==
    LET i == work[c] IN
    /\ i # 0
    /\ ring' = IF ParseError(arrived[i]) = 0 THEN Submit(ring, c, Filled(i))
                                             ELSE Discard(ring, c, Filled(i))
    /\ work' = [work EXCEPT ![c] = 0]
    /\ dropped' = IF Drops(ReturnDone) THEN dropped \cup {i} ELSE dropped
    /\ UNCHANGED <<hook, arrived, lost, loader>>
Handle_Leaks(c) ==
    LET i == work[c] IN
    /\ i # 0
    /\ ring' = IF Recorded(i) THEN Submit(ring, c, Filled(i)) ELSE ring
    /\ work' = [work EXCEPT ![c] = 0]
    /\ dropped' = IF Drops(ReturnDone) THEN dropped \cup {i} ELSE dropped
    /\ UNCHANGED <<hook, arrived, lost, loader>>

\* Parse, then submit the event or, for anything but IP, discard it.
Handle(c) ==
    LET i == work[c] IN
    /\ i # 0
    /\ ring' = IF Recorded(i) THEN Submit(ring, c, Filled(i))
                              ELSE Discard(ring, c, Filled(i))
    /\ work' = [work EXCEPT ![c] = 0]
    /\ dropped' = IF Drops(ReturnDone) THEN dropped \cup {i} ELSE dropped
    /\ UNCHANGED <<hook, arrived, lost, loader>>

-------------------------------------------------------------------------------
(* The loader. *)

Init ==
    /\ hook \in Hooks
    /\ arrived = <<>>
    /\ lost = {}
    /\ dropped = {}
    /\ work = [c \in CPUs |-> 0]
    /\ ring = <<>>
    /\ upc = "open"
    /\ linked = FALSE
    /\ err = 0
    /\ exiting = FALSE
    /\ status = "running"
    /\ failed = FALSE
    /\ log = <<>>

Step(from, to) == upc = from /\ upc' = to /\ UNCHANGED <<kernel, exiting>>

Open == /\ Step("open", "load")
        /\ UNCHANGED <<ring, linked, err, status, failed, log>>
Load == /\ Step("load", "attach")
        /\ err' = 0
        /\ UNCHANGED <<ring, linked, status, failed, log>>
Attach == /\ Step("attach", "signals")
          /\ linked' = TRUE
          /\ UNCHANGED <<ring, err, status, failed, log>>
InstallHandlers == /\ Step("signals", "newring")
                   /\ UNCHANGED <<ring, linked, err, status, failed, log>>
NewRing == /\ Step("newring", "check")
           /\ UNCHANGED <<ring, linked, err, status, failed, log>>

\* A failed open returns 1 at once; the others go to cleanup.
OpenFails == /\ Step("open", "done")
             /\ status' = "1"
             /\ failed' = TRUE
             /\ UNCHANGED <<ring, linked, err, log>>

\* XDP and TC attach without assigning err, which is still 0 from the load.
AttachError == IF hook \in {"xdp", "tc"} THEN err ELSE -1

StepFails ==
    /\ \/ Step("load", "cleanup") /\ err' = -1
       \/ Step("attach", "cleanup") /\ err' = AttachError
       \/ Step("newring", "cleanup") /\ err' = -1
    /\ failed' = TRUE
    /\ UNCHANGED <<ring, linked, status, log>>

\* Mutant: while (1)
LoopCheck_Forever ==
    /\ Step("check", "poll")
    /\ UNCHANGED <<ring, linked, err, status, failed, log>>

LoopCheck ==
    /\ Step("check", IF exiting THEN "cleanup" ELSE "poll")
    /\ UNCHANGED <<ring, linked, err, status, failed, log>>

\* ring_buffer__poll prints the head (print_netevent always returns 0) and
\* looks again while it finds data.
Drain ==
    /\ Step("poll", "poll")
    /\ HeadReady(ring)
    /\ log' = IF HeadLogged(ring) THEN Append(log, Head(ring).ev) ELSE log
    /\ ring' = Tail(ring)
    /\ UNCHANGED <<linked, err, status, failed>>

\* It returns a count, never negative: the loop goes on, unless the benchmark's
\* time is over; the tracer of execve has no such time.
PollReturn ==
    /\ \/ Step("poll", "check")
       \/ hook # "execve" /\ Step("poll", "cleanup")
    /\ ~HeadReady(ring)
    /\ err' = 0
    /\ UNCHANGED <<ring, linked, status, failed, log>>

\* Mutant: err is not reset after -EINTR.
PollFails_Interrupted ==
    /\ Step("poll", "cleanup")
    /\ ~HeadReady(ring)
    /\ err' = -1
    /\ failed' \in {failed, TRUE}
    /\ UNCHANGED <<ring, linked, status, log>>

\* It returns an error: -EINTR is none, the others end the loop.
PollFails ==
    /\ Step("poll", "cleanup")
    /\ ~HeadReady(ring)
    /\ \/ err' = 0 /\ UNCHANGED failed
       \/ err' = -1 /\ failed' = TRUE
    /\ UNCHANGED <<ring, linked, status, log>>

\* Free the ring, destroy the skeleton (which detaches) and return.
Cleanup ==
    /\ Step("cleanup", "done")
    /\ linked' = FALSE
    /\ status' = IF err < 0 THEN "1" ELSE "0"
    /\ UNCHANGED <<ring, err, failed, log>>

\* SIGINT or SIGTERM: fatal before the handlers are installed.
Signal ==
    /\ \/ /\ upc \in {"newring", "check", "poll", "cleanup"}
          /\ exiting' = TRUE
          /\ UNCHANGED <<upc, linked, status>>
       \/ /\ upc \in {"open", "load", "attach", "signals"}
          /\ upc' = "done"
          /\ linked' = FALSE
          /\ status' = "killed"
          /\ UNCHANGED exiting
    /\ UNCHANGED <<kernel, ring, err, failed, log>>

Proceed ==
    \/ Open \/ Load \/ Attach \/ InstallHandlers \/ NewRing
    \/ LoopCheck \/ Drain \/ PollReturn \/ Cleanup

Finished == /\ upc = "done"
            /\ \A c \in CPUs : work[c] = 0
            /\ UNCHANGED vars

-------------------------------------------------------------------------------
Next ==
    \/ \E c \in CPUs : Handle(c) \/ \E p \in Packets[hook] : Receive(c, p)
    \/ Proceed \/ OpenFails \/ StepFails \/ PollFails \/ Signal \/ Finished

Spec == Init /\ [][Next]_vars
FairSpec == Spec /\ (\A c \in CPUs : WF_vars(Handle(c))) /\ WF_vars(Proceed)

-------------------------------------------------------------------------------
(* Properties. *)

Value == Nat \cup {Garbage}
EventType == [of : 1..MaxPackets, size : Value, addrs : Value, ports : Value,
              protocol : Value]

\* Every variable keeps its type.
TypeOK ==
    /\ hook \in Hooks
    /\ arrived \in Seq(Packets[hook]) /\ Len(arrived) <= MaxPackets
    /\ lost \subseteq DOMAIN arrived /\ dropped \subseteq DOMAIN arrived
    /\ work \in [CPUs -> 0..Len(arrived)]
    /\ ring \in Seq([by : CPUs, state : {"busy", "submitted", "discarded"},
                     ev : EventType])
    /\ upc \in {"open", "load", "attach", "signals", "newring", "check", "poll",
                "cleanup", "done"}
    /\ linked \in BOOLEAN /\ exiting \in BOOLEAN /\ failed \in BOOLEAN
    /\ err \in -1..0
    /\ status \in {"running", "0", "1", "killed"}
    /\ log \in Seq(EventType)

OfLog == [k \in 1..Len(log) |-> log[k].of]
OfRing == [k \in 1..Len(ring) |-> ring[k].ev.of]
Ascending(s) == \A j, k \in DOMAIN s : j < k => s[j] < s[k]

Logged == {OfLog[k] : k \in DOMAIN OfLog}
Reserved == {OfRing[k] : k \in DOMAIN OfRing}
Pending == {i \in Reserved : Recorded(i)}
Due == {i \in 1..Len(arrived) : i \notin lost /\ Recorded(i)}

\* The log and what is still in the ring are together, in the order of arrival,
\* the recorded packets that got an event: each exactly once, although the CPUs
\* finish in any order and some give their event back.
LogInOrder ==
    /\ Ascending(OfLog) /\ Ascending(OfRing)
    /\ \A i \in Logged, j \in Reserved : i < j
    /\ Logged \cup Pending = Due

IsTransport(p) == p.proto \in {IPPROTO_TCP, IPPROTO_UDP}

\* What the hook takes for the IP header is the packet's: XDP and TC look for it
\* themselves, the tracepoint depends on the offsets in the skb.
Readable(p) == hook = "tracepoint" => p.placed /\ p.len >= ETH_HLEN + IP_HLEN

\* The linear buffer holds a TCP or UDP header where its IP header says.
HasPorts(p) ==
    /\ IsTransport(p) /\ ~p.later /\ p.ihl >= 5
    /\ p.len >= ETH_HLEN + 4 * p.ihl + (IF p.proto = IPPROTO_TCP THEN 20 ELSE 8)

\* The ports of a packet, 0 for one that has none.
Ports(p) == IF HasPorts(p) THEN p.behind ELSE 0

\* The hook looks for the ports where such a packet has them.
WellPlaced(p) == ~p.later /\ p.ihl >= 5 /\ (hook = "xdp" => p.ihl = 5)

\* What a packet's line without an error code shows.  Excepted are, because the code is
\* wrong there: the ports of a later fragment and, at XDP, of a packet with IP options;
\* the size at the tracepoint, and at TC if part of the packet is outside the linear
\* buffer; and at the tracepoint whatever the offsets in the skb do not lead to, be the
\* frame not IP or cut before its end.
TrueLine(p, line) ==
    /\ Readable(p) => <<line.protocol, line.addrs>> = <<p.proto, p.addrs>>
    /\ Readable(p) /\ (IsTransport(p) => HasPorts(p) /\ WellPlaced(p))
          => line.ports = Ports(p)
    /\ hook # "tracepoint" =>
          /\ p.ip /\ p.len >= ETH_HLEN + IP_HLEN
          /\ IsTransport(p) /\ WellPlaced(p) => HasPorts(p)
          /\ p.len = p.size => line.size = p.size

\* Every line shows its own packet or call, although several CPUs write at once: what
\* a parser without an error took from a header that was there.
LinesTrue ==
    \A k \in 1..Len(log) :
        LET p == arrived[log[k].of] IN
        IF hook = "execve"
        THEN log[k].addrs = p.addrs /\ log[k].ports \in {p.behind, 0}
        ELSE log[k].protocol < 200 => TrueLine(p, log[k])

\* Where the record is cleared or filled completely, by the tracepoints, no line
\* shows memory the program did not write.
LinesWritten ==
    hook \in {"tracepoint", "execve"} =>
        \A k \in 1..Len(log) : Garbage \notin {log[k].addrs, log[k].ports, log[k].size}

\* The listeners only monitor: whatever fails, no packet is dropped.
PassesEverything == dropped = {}

\* The only packets ever dropped are those for which XDP found the ring full.
DropsOnlyFullXdp == dropped = {} \/ (hook = "xdp" /\ dropped \subseteq lost)

\* The exit status of the tracepoints' loaders tells a failure from a normal end,
\* an interrupt included.
StatusTold ==
    hook \in {"tracepoint", "execve"} /\ status \in {"0", "1"} => (status = "1" <=> failed)

\* Every event that was reserved for a recorded packet is printed, unless the
\* loader ends first.
EventsPrinted ==
    \A i \in 1..MaxPackets : (i \in Pending) ~> (i \in Logged \/ upc = "done")

\* Once a signal has set the flag, and the packets have stopped (MaxPackets are
\* all there are), the loader ends, detaches the program and returns.
StopsWhenQuiet == exiting ~> (upc = "done" /\ ~linked /\ status # "running")
===============================================================================
