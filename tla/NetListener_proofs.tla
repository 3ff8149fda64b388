-------------------------- MODULE NetListener_proofs --------------------------
(***************************************************************************)
(* What TLAPS proves of the four monitors for any number of CPUs, any      *)
(* packets, any size of the ring and any number of packets: the log is the *)
(* recorded packets in the order of their arrival; a line without an error *)
(* code is true of its packet where the hook looks for the headers and the *)
(* ports in the right place; no line of a tracepoint shows memory nobody   *)
(* wrote; only an XDP listener with a full ring drops; and the exit status *)
(* of the tracepoints' loaders tells a failure from a normal end.          *)
(*                                                                         *)
(* The invariant of the first three (IInv) follows a record from its       *)
(* reservation to the log: a CPU at work holds the busy record of its own  *)
(* packet (SlotsKept), a line that was given back is what Handle wrote of  *)
(* its packet (LinesFilled), and log and ring together are the recorded    *)
(* packets, in order (Order).                                              *)
(***************************************************************************)
EXTENDS NetListener, TLAPS

\* What a step of the kernel's side leaves alone, and what one of the loader's does.
LEMMA NextCases ==
    ASSUME Next
    PROVE  \/ \E c \in CPUs : Handle(c) \/ \E p \in Packets[hook] : Receive(c, p)
           \/ /\ UNCHANGED kernel
              /\ Proceed \/ OpenFails \/ StepFails \/ PollFails \/ Signal \/ UNCHANGED vars
<1>1. ASSUME Proceed \/ OpenFails \/ StepFails \/ PollFails PROVE UNCHANGED kernel
    BY <1>1 DEF Proceed, OpenFails, StepFails, PollFails, Open, Load, Attach, InstallHandlers,
                NewRing, LoopCheck, Drain, PollReturn, Cleanup, Step
<1>2. ASSUME Signal \/ UNCHANGED vars PROVE UNCHANGED kernel
    BY <1>2 DEF Signal, vars
<1> QED
    BY <1>1, <1>2 DEF Next, Finished

-------------------------------------------------------------------------------
(* Drops. *)

\* A packet that got its event is passed on, whatever becomes of the event.
LEMMA HandleDropsNothing == ASSUME NEW c \in CPUs, Handle(c)
                            PROVE  dropped' = dropped /\ lost' = lost /\ hook' = hook
<1>1. ~Drops(ReturnDone)
    BY DEF Drops, ReturnDone, XDP_PASS, TCX_PASS
<1> QED
    BY <1>1 DEF Handle

\* A full ring drops the packet at the XDP hook only.
LEMMA ReceiveDropsAtXdp ==
    ASSUME NEW c \in CPUs, NEW p, Receive(c, p)
    PROVE  /\ hook' = hook
           /\ \/ dropped' = dropped /\ lost \subseteq lost'
              \/ hook = "xdp" /\ \E i : dropped' = dropped \cup {i} /\ lost' = lost \cup {i}
<1>1. Drops(ReturnFull) => hook = "xdp"
    BY DEF Drops, ReturnFull, XDP_PASS, TCX_PASS
<1> QED
    BY <1>1, Zenon DEF Receive

\* The only packets ever dropped are those for which the XDP program found the ring
\* full: TC passes them by the same return value, the tracepoints' is ignored.
THEOREM DropsOnlyAtFullXdp == Spec => []DropsOnlyFullXdp
<1>1. Init => DropsOnlyFullXdp
    BY DEF Init, DropsOnlyFullXdp
<1>2. DropsOnlyFullXdp /\ [Next]_vars => DropsOnlyFullXdp'
    <2> SUFFICES ASSUME DropsOnlyFullXdp, [Next]_vars PROVE DropsOnlyFullXdp'
        OBVIOUS
    <2>1. ASSUME NEW c \in CPUs, Handle(c) PROVE DropsOnlyFullXdp'
        BY <2>1, HandleDropsNothing DEF DropsOnlyFullXdp
    <2>2. ASSUME NEW c \in CPUs, NEW p \in Packets[hook], Receive(c, p) PROVE DropsOnlyFullXdp'
        BY <2>2, ReceiveDropsAtXdp DEF DropsOnlyFullXdp
    <2>3. CASE UNCHANGED kernel
        BY <2>3 DEF kernel, DropsOnlyFullXdp
    <2>4. CASE UNCHANGED vars
        BY <2>3, <2>4 DEF vars
    <2> QED
        BY <2>1, <2>2, <2>3, <2>4, NextCases
<1> QED
    BY <1>1, <1>2, PTL DEF Spec

-------------------------------------------------------------------------------
(* The exit status. *)

\* While the loader runs, a failure of its steps is what err says; at the end it is
\* what the status says.
FailureInErr ==
    /\ failed = FALSE \/ failed = TRUE
    /\ upc # "done" => /\ status = "running"
                       /\ (failed = FALSE /\ err = 0) \/ (failed = TRUE /\ err = -1)
    /\ upc \notin {"cleanup", "done"} => failed = FALSE

StatusInv == hook \in {"tracepoint", "execve"} => FailureInErr /\ StatusTold

\* The loader's steps keep it, at the hooks that assign err when they attach.
LEMMA LoaderStatus ==
    ASSUME hook \in {"tracepoint", "execve"}, FailureInErr, StatusTold, UNCHANGED kernel,
           Proceed \/ OpenFails \/ StepFails \/ PollFails \/ Signal
    PROVE  FailureInErr' /\ StatusTold'
<1> USE DEF FailureInErr, StatusTold, Step
<1>1. hook' = hook
    BY DEF kernel
<1>2. CASE Open \/ Load \/ Attach \/ InstallHandlers \/ NewRing \/ LoopCheck \/ Drain
    BY <1>1, <1>2 DEF Open, Load, Attach, InstallHandlers, NewRing, LoopCheck, Drain
<1>3. CASE PollReturn \/ PollFails
    <2>1. upc = "poll" /\ upc' \in {"check", "cleanup"} /\ status' = status
        BY <1>3 DEF PollReturn, PollFails
    <2>2. (failed' = FALSE /\ err' = 0) \/ (failed' = TRUE /\ err' = -1)
        BY <1>3, <2>1 DEF PollReturn, PollFails
    <2>3. upc' = "check" => failed' = FALSE
        BY <1>3, <2>1 DEF PollReturn, PollFails
    <2> QED
        BY <2>1, <2>2, <2>3
<1>4. CASE OpenFails
    BY <1>1, <1>4 DEF OpenFails
<1>5. CASE StepFails
    BY <1>1, <1>5 DEF StepFails, AttachError
<1>6. CASE Cleanup
    BY <1>1, <1>6 DEF Cleanup
<1>7. CASE Signal
    BY <1>1, <1>7 DEF Signal
<1> QED
    BY <1>2, <1>3, <1>4, <1>5, <1>6, <1>7 DEF Proceed

\* However the loader of a tracepoint ends, unless a signal kills it, its exit status
\* is 1 exactly if one of its steps failed; -EINTR is not a failure.
THEOREM StatusAlwaysTold == Spec => []StatusTold
<1>1. Init => StatusInv
    BY DEF Init, StatusInv, FailureInErr, StatusTold
<1>2. StatusInv /\ [Next]_vars => StatusInv'
    <2> SUFFICES ASSUME StatusInv, [Next]_vars PROVE StatusInv'
        OBVIOUS
    <2>1. ASSUME NEW c \in CPUs, Handle(c) PROVE StatusInv'
        BY <2>1 DEF Handle, loader, StatusInv, FailureInErr, StatusTold
    <2>2. ASSUME NEW c \in CPUs, NEW p \in Packets[hook], Receive(c, p) PROVE StatusInv'
        BY <2>2 DEF Receive, loader, StatusInv, FailureInErr, StatusTold
    <2>3. CASE UNCHANGED kernel /\ (Proceed \/ OpenFails \/ StepFails \/ PollFails \/ Signal)
        <3>1. hook' = hook
            BY <2>3 DEF kernel
        <3> QED
            BY <2>3, <3>1, LoaderStatus DEF StatusInv
    <2>4. CASE UNCHANGED vars
        BY <2>4 DEF vars, kernel, loader, StatusInv, FailureInErr, StatusTold
    <2> QED
        BY <2>1, <2>2, <2>3, <2>4, NextCases
<1>3. StatusInv => StatusTold
    BY DEF StatusInv, StatusTold
<1> QED
    BY <1>1, <1>2, <1>3, PTL DEF Spec

-------------------------------------------------------------------------------
(* Sequences, record by record. *)

LEMMA Appended ==
    ASSUME NEW T, NEW s \in Seq(T), NEW x \in T
    PROVE  /\ Append(s, x) \in Seq(T)
           /\ Len(Append(s, x)) = Len(s) + 1
           /\ Append(s, x)[Len(s) + 1] = x
           /\ \A k \in 1..Len(s) : Append(s, x)[k] = s[k]
           /\ \A k \in 1..Len(Append(s, x)) : k \in 1..Len(s) \/ k = Len(s) + 1
OBVIOUS

LEMMA ElementIn == ASSUME NEW T, NEW s \in Seq(T), NEW k \in 1..Len(s) PROVE s[k] \in T
OBVIOUS

LEMMA TailTaken ==
    ASSUME NEW T, NEW s \in Seq(T), s # <<>>
    PROVE  /\ Tail(s) \in Seq(T)
           /\ Len(s) >= 1 /\ Len(Tail(s)) = Len(s) - 1
           /\ Head(s) = s[1] /\ s[1] \in T
           /\ \A k \in 1..Len(Tail(s)) : k + 1 \in 1..Len(s) /\ Tail(s)[k] = s[k + 1]
OBVIOUS

SlotType == [by : CPUs, state : {"busy", "submitted", "discarded"}, ev : EventType]

LEMMA Settled ==
    ASSUME NEW r \in Seq(SlotType), NEW c \in CPUs, NEW ev \in EventType,
           NEW state \in {"submitted", "discarded"}
    PROVE  /\ Settle(r, c, state, ev) \in Seq(SlotType)
           /\ Len(Settle(r, c, state, ev)) = Len(r)
           /\ \A k \in 1..Len(r) :
                 Settle(r, c, state, ev)[k] = IF r[k].by = c /\ r[k].state = "busy"
                                              THEN Slot(c, state, ev) ELSE r[k]
<1> DEFINE At(k) == IF r[k].by = c /\ r[k].state = "busy" THEN Slot(c, state, ev) ELSE r[k]
<1>1. Settle(r, c, state, ev) = [k \in 1..Len(r) |-> At(k)]
    BY DEF Settle, Holds
<1>2. Len(r) \in Nat
    OBVIOUS
<1>3. \A k \in 1..Len(r) : At(k) \in SlotType
    <2>1. Slot(c, state, ev) \in SlotType
        BY DEF Slot, SlotType
    <2>2. \A k \in 1..Len(r) : r[k] \in SlotType
        OBVIOUS
    <2> QED
        BY <2>1, <2>2
<1> HIDE DEF At
<1>4. [k \in 1..Len(r) |-> At(k)] \in Seq(SlotType) /\ Len([k \in 1..Len(r) |-> At(k)]) = Len(r)
    BY <1>2, <1>3
<1>5. \A k \in 1..Len(r) : Settle(r, c, state, ev)[k] = At(k)
    BY <1>1
<1> QED
    BY <1>1, <1>4, <1>5 DEF At

-------------------------------------------------------------------------------
(* The events. *)

PacketType == [size : Nat, len : Nat, ip : BOOLEAN, v4 : BOOLEAN, ihl : 0..15, proto : Nat,
               addrs : Nat, later : BOOLEAN, fixed : Nat, behind : Nat, mapped : 0..3,
               placed : BOOLEAN]

LEMMA PacketsTyped == ASSUME hook \in Hooks PROVE Packets[hook] \subseteq PacketType
BY PacketsAssumption DEF PacketType

\* What is assumed of a packet that may be received.
LEMMA PacketAssumed ==
    ASSUME hook \in Hooks, NEW p \in Packets[hook]
    PROVE  /\ p \in PacketType
           /\ p.size \in Nat /\ p.len \in Nat /\ p.len <= p.size
           /\ p.proto \in Nat /\ p.addrs \in Nat /\ p.fixed \in Nat /\ p.behind \in Nat
           /\ p.ihl = 5 => p.fixed = p.behind
<1>1. p \in PacketType
    BY PacketsTyped
<1>2. p.len <= p.size /\ (p.ihl = 5 => p.fixed = p.behind)
    BY PacketsAssumption
<1> QED
    BY <1>1, <1>2 DEF PacketType

LEMMA ParseErrorRange ==
    ASSUME hook \in Hooks, NEW p \in PacketType
    PROVE  ParseError(p) \in {0, -1, -2, -3, -4, -5}
<1>1. hook \in {"xdp", "tc", "tracepoint", "execve"}
    BY HooksAssumption
<1>2. \A start \in Nat : TooShort(p, start) \in {0, -4, -5}
    BY DEF TooShort
<1>3. p.len \in Nat /\ p.ihl \in Nat /\ p.ip \in BOOLEAN /\ p.v4 \in BOOLEAN
      /\ p.mapped \in 0..3
    BY DEF PacketType
<1>7. ParseEth(p) \in {0, -1, -2, -3}
    BY <1>3 DEF ParseEth, ETH_HLEN, IP_HLEN
<1>4. ParseXdp(p) \in {0, -1, -2, -3, -4, -5}
    BY <1>2, <1>7 DEF ParseXdp, ETH_HLEN, IP_HLEN
<1>5. ParseTc(p) \in {0, -1, -2, -3, -4, -5}
    BY <1>2, <1>3, <1>7 DEF ParseTc, ETH_HLEN
<1>6. ParseTracepoint(p) \in {0, -1, -2, -3, -4, -5}
    BY <1>3 DEF ParseTracepoint
<1> QED
    BY <1>1, <1>4, <1>5, <1>6 DEF ParseError

\* An event is of its packet, and only what the program writes or leaves unwritten.
LEMMA FilledTyped ==
    ASSUME hook \in Hooks, NEW i \in 1..MaxPackets, arrived[i] \in Packets[hook]
    PROVE  Filled(i) \in EventType /\ Filled(i).of = i /\ Unwritten(i) \in EventType
<1> DEFINE p == arrived[i]
           e == ParseError(p)
<1>1. /\ p.addrs \in Nat /\ p.behind \in Nat /\ p.fixed \in Nat /\ p.proto \in Nat
      /\ p.size \in Nat /\ p.len \in Nat /\ p.len <= p.size
    <2>1. arrived[i] \in Packets[hook]
        OBVIOUS
    <2> QED
        BY <2>1, PacketAssumed
<1>2. e \in {0, -1, -2, -3, -4, -5}
    BY PacketAssumed, ParseErrorRange
<1>3. PacketSize(p) \in Nat
    BY <1>1 DEF PacketSize
<1>4. ReadPorts(p) \in Nat
    BY <1>1 DEF ReadPorts
<1>5. Blank \in Value
    BY DEF Blank, Value
<1>6. (IF e < 0 THEN 200 - e ELSE p.proto) \in Nat
    BY <1>1, <1>2
<1>7. FilledPacket(i) \in EventType /\ FilledPacket(i).of = i
    <2> HIDE DEF p, e
    <2>1. FilledPacket(i) = [of |-> i, size |-> PacketSize(p),
                             addrs |-> IF e \in {0, -4, -5} THEN p.addrs ELSE Blank,
                             ports |-> IF e = 0 THEN ReadPorts(p) ELSE Blank,
                             protocol |-> IF e < 0 THEN 200 - e ELSE p.proto]
        BY DEF FilledPacket, p, e
    <2> QED
        BY <1>1, <1>3, <1>4, <1>5, <1>6, <2>1 DEF EventType, Value
<1>8. FilledExec(i) \in EventType /\ FilledExec(i).of = i
    BY <1>1 DEF FilledExec, EventType, Value
<1>9. Unwritten(i) \in EventType
    BY DEF Unwritten, EventType, Value
<1> QED
    BY <1>7, <1>8, <1>9 DEF Filled

\* What packet i is and becomes stays while the hook and the packet do.
LEMMA FilledStays ==
    ASSUME NEW i, hook' = hook, arrived'[i] = arrived[i]
    PROVE  Filled(i)' = Filled(i) /\ (Recorded(i)' <=> Recorded(i))
<1>1. /\ ParseError(arrived[i])' = ParseError(arrived[i])
      /\ PacketSize(arrived[i])' = PacketSize(arrived[i])
      /\ ReadPorts(arrived[i])' = ReadPorts(arrived[i])
      /\ Blank' = Blank
    BY DEF ParseError, ParseXdp, ParseTc, ParseTracepoint, ParseEth, TooShort, PacketSize, ReadPorts, Blank
<1> QED
    BY <1>1 DEF Filled, FilledPacket, FilledExec, Recorded

-------------------------------------------------------------------------------
(* The inductive invariant of the ring and the log. *)

\* A reserved event is its CPU's until it is settled as its packet deserves.
SlotsKept ==
    \A k \in 1..Len(ring), i \in 1..MaxPackets : ring[k].ev.of = i =>
        /\ i <= Len(arrived)
        /\ ring[k].state = "busy" => work[ring[k].by] = i
        /\ ring[k].state = "submitted" => Recorded(i) /\ ring[k].ev = Filled(i)
        /\ ring[k].state = "discarded" => ~Recorded(i)

LinesFilled ==
    \A k \in 1..Len(log), i \in 1..MaxPackets : log[k].of = i =>
        i <= Len(arrived) /\ log[k] = Filled(i)

InLog(i) == \E k \in 1..Len(log) : log[k].of = i
InRing(i) == \E k \in 1..Len(ring) : ring[k].ev.of = i

\* LogInOrder, place by place.
Order ==
    /\ \A j, k \in 1..Len(log) : j < k => log[j].of < log[k].of
    /\ \A j, k \in 1..Len(ring) : j < k => ring[j].ev.of < ring[k].ev.of
    /\ \A j \in 1..Len(log), k \in 1..Len(ring) : log[j].of < ring[k].ev.of
    /\ \A i \in 1..Len(arrived) :
          (i \notin lost /\ Recorded(i)) <=> (InLog(i) \/ (InRing(i) /\ Recorded(i)))

IInv == TypeOK /\ SlotsKept /\ LinesFilled /\ Order

\* The types of what the sequences hold.
LEMMA Held ==
    ASSUME TypeOK
    PROVE  /\ ring \in Seq(SlotType) /\ log \in Seq(EventType) /\ arrived \in Seq(PacketType)
           /\ Len(ring) \in Nat /\ Len(log) \in Nat /\ Len(arrived) \in 0..MaxPackets
           /\ \A k \in 1..Len(ring) : ring[k] \in SlotType /\ ring[k].ev.of \in 1..MaxPackets
           /\ \A k \in 1..Len(log) : log[k] \in EventType /\ log[k].of \in 1..MaxPackets
           /\ \A i \in 1..Len(arrived) : arrived[i] \in PacketType /\ i \in 1..MaxPackets
<1>1. ring \in Seq(SlotType) /\ log \in Seq(EventType)
    BY DEF TypeOK, SlotType
<1>2. hook \in Hooks /\ arrived \in Seq(Packets[hook]) /\ Packets[hook] \subseteq PacketType
    BY PacketsTyped DEF TypeOK
<1>3. arrived \in Seq(PacketType)
    BY <1>2
<1>4. Len(ring) \in Nat /\ Len(log) \in Nat /\ Len(arrived) \in 0..MaxPackets
    BY <1>1, <1>3, BoundsAssumption DEF TypeOK
<1>5. \A k \in 1..Len(ring) : ring[k] \in SlotType
    BY <1>1
<1>6. \A k \in 1..Len(log) : log[k] \in EventType
    BY <1>1
<1>7. \A i \in 1..Len(arrived) : arrived[i] \in PacketType /\ i \in 1..MaxPackets
    BY <1>3, <1>4, BoundsAssumption
<1> QED
    BY <1>1, <1>3, <1>4, <1>5, <1>6, <1>7 DEF SlotType, EventType

LEMMA InitIInv == Init => IInv
<1> SUFFICES ASSUME Init PROVE IInv
    OBVIOUS
<1>1. /\ ring = <<>> /\ log = <<>> /\ arrived = <<>>
      /\ Len(ring) = 0 /\ Len(log) = 0 /\ Len(arrived) = 0
    BY DEF Init
<1>2. ring \in Seq([by : CPUs, state : {"busy", "submitted", "discarded"}, ev : EventType])
    BY <1>1
<1>3. log \in Seq(EventType) /\ arrived \in Seq(Packets[hook])
    BY <1>1
<1>4. work \in [CPUs -> 0..Len(arrived)]
    BY <1>1 DEF Init
<1>5. TypeOK
    <2>1. /\ lost = {} /\ dropped = {} /\ Len(arrived) <= MaxPackets
          /\ hook \in Hooks /\ upc = "open" /\ status = "running"
          /\ linked = FALSE /\ exiting = FALSE /\ failed = FALSE /\ err = 0
        BY <1>1, BoundsAssumption DEF Init
    <2>2. lost \subseteq DOMAIN arrived /\ dropped \subseteq DOMAIN arrived
        BY <2>1
    <2>3. err \in -1..0
        BY <2>1
    <2> QED
        BY <1>2, <1>3, <1>4, <2>1, <2>2, <2>3 DEF TypeOK
<1>6. SlotsKept /\ LinesFilled /\ Order
    BY <1>1 DEF SlotsKept, LinesFilled, Order
<1> QED
    BY <1>5, <1>6 DEF IInv

\* What the loader's control does besides is typed.
LoaderTyped ==
    /\ upc \in {"open", "load", "attach", "signals", "newring", "check", "poll", "cleanup", "done"}
    /\ linked \in BOOLEAN /\ exiting \in BOOLEAN /\ failed \in BOOLEAN
    /\ err \in -1..0
    /\ status \in {"running", "0", "1", "killed"}

\* A packet arrives: its event is the last of the ring, or it is lost.
LEMMA ReceiveIInv ==
    ASSUME IInv, NEW c \in CPUs, NEW p \in Packets[hook], Receive(c, p)
    PROVE  IInv'
<1> DEFINE new == Len(arrived) + 1
           slot == Slot(c, "busy", Unwritten(new))
<1>1. TypeOK /\ SlotsKept /\ LinesFilled /\ Order
    BY DEF IInv
<1>2. /\ ring \in Seq(SlotType) /\ log \in Seq(EventType)
      /\ Len(ring) \in Nat /\ Len(log) \in Nat /\ Len(arrived) \in 0..MaxPackets
      /\ \A k \in 1..Len(ring) : ring[k] \in SlotType /\ ring[k].ev.of \in 1..MaxPackets
      /\ \A k \in 1..Len(log) : log[k] \in EventType /\ log[k].of \in 1..MaxPackets
      /\ \A i \in 1..Len(arrived) : i \in 1..MaxPackets
    BY <1>1, Held
<1>3. /\ hook \in Hooks /\ hook' = hook /\ work[c] = 0 /\ Len(arrived) < MaxPackets
      /\ arrived' = Append(arrived, p) /\ UNCHANGED loader
    BY <1>1 DEF Receive, TypeOK
<1>4. /\ arrived' \in Seq(Packets[hook])
      /\ Len(arrived') = new
      /\ \A i \in 1..Len(arrived) : arrived'[i] = arrived[i]
      /\ arrived'[new] \in PacketType
    BY <1>1, <1>3, Appended, PacketsTyped DEF TypeOK
<1>5. new \in 1..MaxPackets /\ new \notin 1..Len(arrived)
    BY <1>2, <1>3, BoundsAssumption
<1>6. \A i \in 1..Len(arrived) : Filled(i)' = Filled(i) /\ (Recorded(i)' <=> Recorded(i))
    BY <1>3, <1>4, FilledStays
<1>7. slot \in SlotType /\ slot.ev.of = new /\ slot.by = c /\ slot.state = "busy"
    <2>1. Unwritten(new) \in EventType /\ Unwritten(new).of = new
        BY <1>5 DEF Unwritten, EventType, Value
    <2> QED
        BY <2>1 DEF Slot, SlotType
<1>8. \/ /\ ring' = Append(ring, slot)
         /\ work' = [work EXCEPT ![c] = new]
         /\ UNCHANGED <<lost, dropped>>
      \/ /\ lost' = lost \cup {new}
         /\ dropped' \in {dropped, dropped \cup {new}}
         /\ UNCHANGED <<ring, work>>
    BY DEF Receive, Reserve
<1> HIDE DEF slot, new
<1>9. LinesFilled'
    <2>1. log' = log
        BY <1>3 DEF loader
    <2> SUFFICES ASSUME NEW k \in 1..Len(log), NEW i \in 1..MaxPackets, log[k].of = i
                 PROVE  i <= Len(arrived') /\ log[k] = Filled(i)'
        BY <2>1 DEF LinesFilled
    <2>2. i <= Len(arrived) /\ log[k] = Filled(i)
        BY <1>1 DEF LinesFilled
    <2> QED
        BY <1>2, <1>4, <1>6, <2>2 DEF new
<1>10. TypeOK' /\ SlotsKept' /\ Order'
    <2>1. LoaderTyped'
        BY <1>1, <1>3 DEF TypeOK, LoaderTyped, loader
    <2>2. log' = log /\ log' \in Seq(EventType)
        BY <1>2, <1>3 DEF loader
    <2>3. ASSUME NEW k \in 1..Len(ring), NEW i \in 1..MaxPackets, ring[k].ev.of = i
          PROVE  /\ ring[k].by # c \/ ring[k].state # "busy"
                 /\ i \in 1..Len(arrived)
                 /\ ring[k].state = "busy" => work[ring[k].by] = i
                 /\ ring[k].state = "submitted" => Recorded(i)' /\ ring[k].ev = Filled(i)'
                 /\ ring[k].state = "discarded" => ~Recorded(i)'
        <3>1. /\ i <= Len(arrived)
              /\ ring[k].state = "busy" => work[ring[k].by] = i
              /\ ring[k].state = "submitted" => Recorded(i) /\ ring[k].ev = Filled(i)
              /\ ring[k].state = "discarded" => ~Recorded(i)
            BY <1>1, <2>3 DEF SlotsKept
        <3>2. i \in 1..Len(arrived)
            BY <1>2, <3>1
        <3>3. i # 0
            BY <1>2
        <3> QED
            BY <1>3, <1>6, <3>1, <3>2, <3>3
    <2>4. \A i \in 1..Len(arrived) : i # new
        BY <1>5
    <2>5. lost \subseteq 1..Len(arrived) /\ dropped \subseteq 1..Len(arrived)
        BY <1>1, <1>2, Held DEF TypeOK
    <2>6. \A i \in 1..Len(arrived') : i \in 1..Len(arrived) \/ i = new
        BY <1>2, <1>4 DEF new
    <2>7. \A j \in 1..Len(log), i \in 1..MaxPackets : log[j].of = i => i \in 1..Len(arrived)
        BY <1>1, <1>2 DEF LinesFilled
    <2>8. \A i \in 1..Len(arrived) : i < new
        BY <1>2 DEF new
    <2>9. InLog(new) <=> FALSE
        BY <1>2, <1>5, <2>7 DEF InLog
    <2>10. InRing(new) <=> FALSE
        BY <1>2, <1>5, <2>3 DEF InRing
    <2>11. DOMAIN arrived' = 1..Len(arrived')
        BY <1>4
    <2>12. 1..Len(arrived) \subseteq 1..Len(arrived') /\ new \in 1..Len(arrived') /\ 0..Len(arrived) \subseteq 0..Len(arrived')
        BY <1>2, <1>4 DEF new
    <2>13. Len(arrived') <= MaxPackets
        BY <1>4, <1>5
    <2>14. CASE /\ ring' = Append(ring, slot)
                /\ work' = [work EXCEPT ![c] = new]
                /\ UNCHANGED <<lost, dropped>>
        <3>1. /\ ring' \in Seq(SlotType)
              /\ Len(ring') = Len(ring) + 1
              /\ ring'[Len(ring) + 1] = slot
              /\ \A k \in 1..Len(ring) : ring'[k] = ring[k]
              /\ \A k \in 1..Len(ring') : k \in 1..Len(ring) \/ k = Len(ring) + 1
            BY <1>2, <1>7, <2>14, Appended
        <3>2. work' \in [CPUs -> 0..Len(arrived')]
            <4>1. work \in [CPUs -> 0..Len(arrived')]
                BY <1>1, <2>12 DEF TypeOK
            <4>2. new \in 0..Len(arrived')
                BY <1>4, <1>5
            <4> QED
                BY <2>14, <4>1, <4>2
        <3>3. TypeOK'
            BY <1>3, <1>4, <2>1, <2>2, <2>5, <2>11, <2>12, <2>13, <2>14, <3>1, <3>2
            DEF TypeOK, LoaderTyped, SlotType
        <3>4. SlotsKept'
            <4> SUFFICES ASSUME NEW k \in 1..Len(ring'), NEW i \in 1..MaxPackets, ring'[k].ev.of = i
                         PROVE  /\ i <= Len(arrived')
                                /\ ring'[k].state = "busy" => work'[ring'[k].by] = i
                                /\ ring'[k].state = "submitted" => Recorded(i)' /\ ring'[k].ev = Filled(i)'
                                /\ ring'[k].state = "discarded" => ~Recorded(i)'
                BY DEF SlotsKept
            <4>1. CASE k \in 1..Len(ring)
                <5>1. ring'[k] = ring[k] /\ ring[k].by \in CPUs
                    BY <1>2, <3>1, <4>1 DEF SlotType
                <5>2. ring[k].state = "busy" => ring[k].by # c
                    BY <2>3, <4>1, <5>1
                <5>3. ring[k].state = "busy" => work'[ring[k].by] = work[ring[k].by]
                    BY <1>1, <2>14, <5>1, <5>2 DEF TypeOK
                <5>4. i <= Len(arrived')
                    BY <2>3, <2>12, <4>1, <5>1, <1>4, <1>2
                <5> QED
                    BY <2>3, <4>1, <5>1, <5>3, <5>4
            <4>2. CASE k = Len(ring) + 1
                <5>1. ring'[k] = slot /\ i = new
                    BY <1>7, <3>1, <4>2
                <5>2. work'[c] = new /\ new <= Len(arrived')
                    BY <1>1, <1>2, <1>4, <2>14 DEF TypeOK, new
                <5> QED
                    BY <1>7, <5>1, <5>2
            <4> QED
                BY <3>1, <4>1, <4>2
        <3>5. Order'
            <4>1. \A j, k \in 1..Len(log') : j < k => log'[j].of < log'[k].of
                BY <1>1, <2>2 DEF Order
            <4>2. \A k \in 1..Len(ring) : ring[k].ev.of \in 1..Len(arrived)
                BY <1>2, <2>3
            <4>3. ASSUME NEW j \in 1..Len(ring'), NEW k \in 1..Len(ring'), j < k
                  PROVE  ring'[j].ev.of < ring'[k].ev.of
                <5>1. j \in 1..Len(ring)
                    BY <1>2, <3>1, <4>3
                <5> QED
                    BY <1>1, <1>7, <2>8, <3>1, <4>2, <4>3, <5>1 DEF Order
            <4>4. ASSUME NEW j \in 1..Len(log), NEW k \in 1..Len(ring')
                  PROVE  log[j].of < ring'[k].ev.of
                <5>1. log[j].of < new
                    BY <1>2, <2>7, <2>8
                <5> QED
                    BY <1>1, <1>7, <3>1, <5>1 DEF Order
            <4>5. ASSUME NEW i \in 1..Len(arrived')
                  PROVE  (i \notin lost' /\ Recorded(i)') <=> (InLog(i)' \/ (InRing(i)' /\ Recorded(i)'))
                <5>1. InLog(i)' <=> InLog(i)
                    BY <2>2 DEF InLog
                <5>2. CASE i \in 1..Len(arrived)
                    <6>1. InRing(i)' <=> InRing(i)
                        BY <1>7, <2>4, <3>1, <5>2, <1>2 DEF InRing
                    <6> QED
                        BY <1>1, <1>6, <2>14, <5>1, <5>2, <6>1 DEF Order
                <5>3. CASE i = new
                    <6>1. InRing(i)'
                        <7>1. Len(ring) + 1 \in 1..Len(ring')
                            BY <1>2, <3>1
                        <7>2. ring'[Len(ring) + 1].ev.of = new
                            BY <1>7, <3>1
                        <7> QED
                            BY <5>3, <7>1, <7>2 DEF InRing
                    <6>2. i \notin lost'
                        BY <1>5, <2>5, <2>14, <5>3
                    <6>3. ~InLog(i)
                        BY <2>9, <5>3 DEF InLog
                    <6> QED
                        BY <5>1, <6>1, <6>2, <6>3
                <5> QED
                    BY <2>6, <5>2, <5>3
            <4> QED
                BY <2>2, <4>1, <4>3, <4>4, <4>5 DEF Order
        <3> QED
            BY <3>3, <3>4, <3>5
    <2>15. CASE /\ lost' = lost \cup {new}
                /\ dropped' \in {dropped, dropped \cup {new}}
                /\ UNCHANGED <<ring, work>>
        <3>1. work' \in [CPUs -> 0..Len(arrived')]
            BY <1>1, <2>12, <2>15 DEF TypeOK
        <3>2. lost' \subseteq 1..Len(arrived') /\ dropped' \subseteq 1..Len(arrived')
            BY <2>5, <2>12, <2>15
        <3>3. TypeOK'
            BY <1>2, <1>3, <1>4, <2>1, <2>2, <2>11, <2>13, <2>15, <3>1, <3>2 DEF TypeOK, LoaderTyped, SlotType
        <3>4. SlotsKept'
            <4> SUFFICES ASSUME NEW k \in 1..Len(ring), NEW i \in 1..MaxPackets, ring[k].ev.of = i
                         PROVE  /\ i <= Len(arrived')
                                /\ ring[k].state = "busy" => work[ring[k].by] = i
                                /\ ring[k].state = "submitted" => Recorded(i)' /\ ring[k].ev = Filled(i)'
                                /\ ring[k].state = "discarded" => ~Recorded(i)'
                BY <2>15 DEF SlotsKept
            <4>1. i <= Len(arrived')
                <5>1. i \in 1..Len(arrived) /\ Len(arrived) \in Nat
                    BY <1>2, <2>3
                <5>2. i \in 1..Len(arrived')
                    BY <2>12, <5>1
                <5> QED
                    BY <5>2
            <4> QED
                BY <2>3, <4>1
        <3>5. Order'
            <4>1. ASSUME NEW i \in 1..Len(arrived')
                  PROVE  (i \notin lost' /\ Recorded(i)') <=> (InLog(i)' \/ (InRing(i)' /\ Recorded(i)'))
                <5>1. (InLog(i)' <=> InLog(i)) /\ (InRing(i)' <=> InRing(i))
                    BY <2>2, <2>15 DEF InLog, InRing
                <5>2. CASE i \in 1..Len(arrived)
                    BY <1>1, <1>6, <2>4, <2>15, <5>1, <5>2 DEF Order
                <5>3. CASE i = new
                    BY <2>9, <2>10, <2>15, <5>1, <5>3
                <5> QED
                    BY <2>6, <5>2, <5>3
            <4> QED
                BY <1>1, <2>2, <2>15, <4>1 DEF Order
        <3> QED
            BY <3>3, <3>4, <3>5
    <2> QED
        BY <1>8, <2>14, <2>15
<1> QED
    BY <1>9, <1>10 DEF IInv

\* The CPU that handles packet i settles its event and no other.
LEMMA HandleIInv ==
    ASSUME IInv, NEW c \in CPUs, Handle(c)
    PROVE  IInv'
<1>1. TypeOK /\ SlotsKept /\ LinesFilled /\ Order
    BY DEF IInv
<1>2. /\ ring \in Seq(SlotType) /\ log \in Seq(EventType)
      /\ Len(ring) \in Nat /\ Len(log) \in Nat /\ Len(arrived) \in 0..MaxPackets
      /\ \A k \in 1..Len(ring) : ring[k] \in SlotType /\ ring[k].ev.of \in 1..MaxPackets
      /\ \A i \in 1..Len(arrived) : arrived[i] \in PacketType /\ i \in 1..MaxPackets
    BY <1>1, Held
<1>3. PICK i : i = work[c]
    OBVIOUS
<1>4. /\ i # 0 /\ work' = [work EXCEPT ![c] = 0] /\ UNCHANGED <<hook, arrived, lost, loader>>
      /\ dropped' \in {dropped, dropped \cup {i}}
      /\ ring' = IF Recorded(i) THEN Submit(ring, c, Filled(i)) ELSE Discard(ring, c, Filled(i))
    BY <1>3 DEF Handle
<1>5. i \in 1..Len(arrived)
    BY <1>1, <1>3, <1>4 DEF TypeOK
<1>6. Filled(i) \in EventType /\ Filled(i).of = i
    <2>1. hook \in Hooks /\ arrived \in Seq(Packets[hook]) /\ i \in 1..MaxPackets
        BY <1>1, <1>2, <1>5 DEF TypeOK
    <2>2. arrived[i] \in Packets[hook]
        BY <1>5, <2>1, ElementIn
    <2> QED
        BY <2>1, <2>2, FilledTyped
<1>7. PICK state \in {"submitted", "discarded"} :
        /\ ring' = Settle(ring, c, state, Filled(i))
        /\ state = "submitted" <=> Recorded(i)
    BY <1>4 DEF Submit, Discard
<1> DEFINE slot == Slot(c, state, Filled(i))
<1>8. /\ ring' \in Seq(SlotType)
      /\ Len(ring') = Len(ring)
      /\ \A k \in 1..Len(ring) :
            ring'[k] = IF ring[k].by = c /\ ring[k].state = "busy" THEN slot ELSE ring[k]
    BY <1>2, <1>6, <1>7, Settled
<1>9. slot.by = c /\ slot.state = state /\ slot.ev = Filled(i)
    BY DEF Slot
<1> HIDE DEF slot
<1>10. \A j \in 1..MaxPackets : Filled(j)' = Filled(j) /\ (Recorded(j)' <=> Recorded(j))
    BY <1>4, FilledStays
\* The event that is settled is the packet's.
<1>11. \A k \in 1..Len(ring) : ring[k].by = c /\ ring[k].state = "busy" => ring[k].ev.of = i
    BY <1>1, <1>2, <1>3 DEF SlotsKept
<1>12. \A k \in 1..Len(ring) : ring'[k].ev.of = ring[k].ev.of
    BY <1>6, <1>8, <1>9, <1>11
<1>13. log' = log /\ arrived' = arrived /\ lost' = lost /\ hook' = hook
    BY <1>4 DEF loader
<1>14. TypeOK'
    <2>1. LoaderTyped'
        BY <1>1, <1>4 DEF TypeOK, LoaderTyped, loader
    <2>2. work' \in [CPUs -> 0..Len(arrived)]
        BY <1>1, <1>2, <1>4 DEF TypeOK
    <2>3. dropped' \subseteq DOMAIN arrived
        BY <1>1, <1>4, <1>5 DEF TypeOK
    <2> QED
        BY <1>1, <1>8, <1>13, <2>1, <2>2, <2>3 DEF TypeOK, LoaderTyped, SlotType
<1>15. SlotsKept'
    <2> SUFFICES ASSUME NEW k \in 1..Len(ring), NEW j \in 1..MaxPackets, ring[k].ev.of = j
                 PROVE  /\ j <= Len(arrived)
                        /\ ring'[k].state = "busy" => work'[ring'[k].by] = j
                        /\ ring'[k].state = "submitted" => Recorded(j) /\ ring'[k].ev = Filled(j)
                        /\ ring'[k].state = "discarded" => ~Recorded(j)
        BY <1>8, <1>10, <1>12, <1>13 DEF SlotsKept
    <2>1. /\ j <= Len(arrived)
          /\ ring[k].state = "busy" => work[ring[k].by] = j
          /\ ring[k].state = "submitted" => Recorded(j) /\ ring[k].ev = Filled(j)
          /\ ring[k].state = "discarded" => ~Recorded(j)
        BY <1>1 DEF SlotsKept
    <2>2. CASE ring[k].by = c /\ ring[k].state = "busy"
        <3>1. ring'[k] = slot /\ j = i
            BY <1>8, <1>11, <2>2
        <3> QED
            BY <1>7, <1>9, <2>1, <3>1
    <2>3. CASE ~(ring[k].by = c /\ ring[k].state = "busy")
        <3>1. ring'[k] = ring[k] /\ ring[k].by \in CPUs
            BY <1>2, <1>8, <2>3 DEF SlotType
        <3>2. ring[k].state = "busy" => work'[ring[k].by] = work[ring[k].by]
            BY <1>1, <1>4, <2>3, <3>1 DEF TypeOK
        <3> QED
            BY <2>1, <3>1, <3>2
    <2> QED
        BY <2>2, <2>3
<1>16. LinesFilled'
    BY <1>1, <1>10, <1>13 DEF LinesFilled
<1>17. Order'
    <2>1. ASSUME NEW j \in 1..Len(arrived)
          PROVE  /\ (InLog(j)' <=> InLog(j)) /\ (InRing(j)' <=> InRing(j))
                 /\ Recorded(j)' <=> Recorded(j)
        <3>1. InLog(j)' <=> InLog(j)
            BY <1>13 DEF InLog
        <3>2. InRing(j)' <=> InRing(j)
            BY <1>8, <1>12 DEF InRing
        <3> QED
            BY <1>2, <1>10, <3>1, <3>2
    <2>2. ASSUME NEW j \in 1..Len(arrived')
          PROVE  (j \notin lost' /\ Recorded(j)') <=> (InLog(j)' \/ (InRing(j)' /\ Recorded(j)'))
        BY <1>1, <1>13, <2>1 DEF Order
    <2> QED
        BY <1>1, <1>8, <1>12, <1>13, <2>2 DEF Order
<1> QED
    BY <1>14, <1>15, <1>16, <1>17 DEF IInv

\* The loader takes the head out and prints it, unless it was discarded.
LEMMA DrainIInv ==
    ASSUME IInv, Drain
    PROVE  IInv'
<1>1. TypeOK /\ SlotsKept /\ LinesFilled /\ Order
    BY DEF IInv
<1>2. /\ ring \in Seq(SlotType) /\ log \in Seq(EventType)
      /\ Len(ring) \in Nat /\ Len(log) \in Nat /\ Len(arrived) \in 0..MaxPackets
      /\ \A k \in 1..Len(ring) : ring[k] \in SlotType /\ ring[k].ev.of \in 1..MaxPackets
      /\ \A k \in 1..Len(log) : log[k] \in EventType /\ log[k].of \in 1..MaxPackets
      /\ \A i \in 1..Len(arrived) : i \in 1..MaxPackets
    BY <1>1, Held
<1>3. /\ ring # <<>> /\ Head(ring).state # "busy" /\ ring' = Tail(ring)
      /\ log' = IF Head(ring).state = "submitted" THEN Append(log, Head(ring).ev) ELSE log
      /\ UNCHANGED <<kernel, exiting, linked, err, status, failed>> /\ upc' = upc
    BY DEF Drain, HeadReady, HeadLogged, Step
<1>4. /\ ring' \in Seq(SlotType)
      /\ Len(ring) >= 1 /\ Len(ring') = Len(ring) - 1
      /\ Head(ring) = ring[1] /\ ring[1] \in SlotType
      /\ \A k \in 1..Len(ring') : k + 1 \in 1..Len(ring) /\ ring'[k] = ring[k + 1]
    BY <1>2, <1>3, TailTaken
<1>5. 1 \in 1..Len(ring)
    BY <1>2, <1>4
<1>6. PICK h \in 1..MaxPackets : h = ring[1].ev.of
    BY <1>2, <1>5
<1>7. /\ h \in 1..Len(arrived)
      /\ ring[1].state = "submitted" => Recorded(h) /\ ring[1].ev = Filled(h)
      /\ ring[1].state # "submitted" => ~Recorded(h)
      /\ ring[1].ev \in EventType
    <2>1. /\ h <= Len(arrived)
          /\ ring[1].state = "submitted" => Recorded(h) /\ ring[1].ev = Filled(h)
          /\ ring[1].state = "discarded" => ~Recorded(h)
        BY <1>1, <1>5, <1>6 DEF SlotsKept
    <2>2. ring[1].state \in {"submitted", "discarded"} /\ ring[1].ev \in EventType
        BY <1>3, <1>4 DEF SlotType
    <2> QED
        BY <1>2, <2>1, <2>2
<1>8. hook' = hook /\ arrived' = arrived /\ lost' = lost /\ work' = work /\ dropped' = dropped
    BY <1>3 DEF kernel
<1>9. \A j \in 1..MaxPackets : Filled(j)' = Filled(j) /\ (Recorded(j)' <=> Recorded(j))
    BY <1>8, FilledStays
\* The log afterwards: what it was and, if it was submitted, the head.
<1>10. /\ log' \in Seq(EventType)
       /\ \A k \in 1..Len(log) : k \in 1..Len(log') /\ log'[k] = log[k]
       /\ Len(log') = Len(log) \/ Len(log') = Len(log) + 1
       /\ \A k \in 1..Len(log') : k \notin 1..Len(log) =>
             k = Len(log) + 1 /\ log'[k] = ring[1].ev /\ ring[1].state = "submitted"
       /\ ring[1].state = "submitted" => Len(log') = Len(log) + 1 /\ log'[Len(log) + 1] = ring[1].ev
    <2>1. CASE ring[1].state = "submitted"
        <3>1. log' = Append(log, ring[1].ev)
            BY <1>3, <1>4, <2>1
        <3> QED
            BY <1>2, <1>7, <2>1, <3>1, Appended
    <2>2. CASE ring[1].state # "submitted"
        <3>1. log' = log
            BY <1>3, <1>4, <2>2
        <3> QED
            BY <1>2, <2>2, <3>1
    <2> QED
        BY <2>1, <2>2
<1>11. TypeOK'
    <2>1. LoaderTyped'
        BY <1>1, <1>3 DEF TypeOK, LoaderTyped
    <2> QED
        BY <1>1, <1>4, <1>8, <1>10, <2>1 DEF TypeOK, LoaderTyped, SlotType
<1>12. SlotsKept'
    <2> SUFFICES ASSUME NEW k \in 1..Len(ring'), NEW j \in 1..MaxPackets, ring'[k].ev.of = j
                 PROVE  /\ j <= Len(arrived)
                        /\ ring'[k].state = "busy" => work[ring'[k].by] = j
                        /\ ring'[k].state = "submitted" => Recorded(j) /\ ring'[k].ev = Filled(j)
                        /\ ring'[k].state = "discarded" => ~Recorded(j)
        BY <1>8, <1>9 DEF SlotsKept
    <2>1. k + 1 \in 1..Len(ring) /\ ring'[k] = ring[k + 1]
        BY <1>4
    <2> QED
        BY <1>1, <2>1 DEF SlotsKept
<1>13. LinesFilled'
    <2> SUFFICES ASSUME NEW k \in 1..Len(log'), NEW j \in 1..MaxPackets, log'[k].of = j
                 PROVE  j <= Len(arrived) /\ log'[k] = Filled(j)
        BY <1>8, <1>9 DEF LinesFilled
    <2>1. CASE k \in 1..Len(log)
        BY <1>1, <1>10, <2>1 DEF LinesFilled
    <2>2. CASE k \notin 1..Len(log)
        <3>1. log'[k] = ring[1].ev /\ ring[1].state = "submitted"
            BY <1>10, <2>2
        <3> QED
            BY <1>2, <1>6, <1>7, <3>1
    <2> QED
        BY <2>1, <2>2
<1>14. Order'
    <2>1. \A k \in 1..Len(log) : log[k].of < h
        BY <1>1, <1>5, <1>6 DEF Order
    <2>2. \A k \in 1..Len(ring') : h < ring'[k].ev.of
        <3> SUFFICES ASSUME NEW k \in 1..Len(ring') PROVE h < ring[k + 1].ev.of
            BY <1>4
        <3>1. k + 1 \in 1..Len(ring) /\ 1 < k + 1
            BY <1>4
        <3> QED
            BY <1>1, <1>5, <1>6, <3>1 DEF Order
    <2>3. ASSUME NEW j \in 1..Len(log'), NEW k \in 1..Len(log'), j < k PROVE log'[j].of < log'[k].of
        <3>1. CASE k \in 1..Len(log)
            <4>1. j \in 1..Len(log)
                BY <1>2, <2>3, <3>1
            <4> QED
                BY <1>1, <1>10, <2>3, <3>1, <4>1 DEF Order
        <3>2. CASE k \notin 1..Len(log)
            <4>1. k = Len(log) + 1 /\ log'[k] = ring[1].ev
                BY <1>10, <3>2
            <4>2. j \in 1..Len(log)
                BY <1>2, <2>3, <4>1
            <4> QED
                BY <1>6, <1>10, <2>1, <4>1, <4>2
        <3> QED
            BY <3>1, <3>2
    <2>4. ASSUME NEW j \in 1..Len(ring'), NEW k \in 1..Len(ring'), j < k
          PROVE  ring'[j].ev.of < ring'[k].ev.of
        <3>1. /\ j + 1 \in 1..Len(ring) /\ k + 1 \in 1..Len(ring) /\ j + 1 < k + 1
              /\ ring'[j] = ring[j + 1] /\ ring'[k] = ring[k + 1]
            BY <1>4, <2>4
        <3> QED
            BY <1>1, <3>1 DEF Order
    <2>5. ASSUME NEW j \in 1..Len(log'), NEW k \in 1..Len(ring') PROVE log'[j].of < ring'[k].ev.of
        <3>1. CASE j \in 1..Len(log)
            <4>1. k + 1 \in 1..Len(ring) /\ ring'[k] = ring[k + 1]
                BY <1>4
            <4> QED
                BY <1>1, <1>10, <3>1, <4>1 DEF Order
        <3>2. CASE j \notin 1..Len(log)
            BY <1>6, <1>10, <2>2, <3>2
        <3> QED
            BY <3>1, <3>2
    <2>6. ASSUME NEW i \in 1..Len(arrived)
          PROVE  (InLog(i) \/ (InRing(i) /\ Recorded(i))) <=> (InLog(i)' \/ (InRing(i)' /\ Recorded(i)))
        <3>1. InLog(i)' <=> InLog(i) \/ (i = h /\ ring[1].state = "submitted")
            <4>1. InLog(i) => InLog(i)'
                <5> SUFFICES ASSUME InLog(i) PROVE InLog(i)'
                    OBVIOUS
                <5>1. PICK k \in 1..Len(log) : log[k].of = i
                    BY DEF InLog
                <5>2. k \in 1..Len(log') /\ log'[k].of = i
                    BY <1>10, <5>1
                <5> QED
                    BY <5>2 DEF InLog
            <4>2. i = h /\ ring[1].state = "submitted" => InLog(i)'
                <5> SUFFICES ASSUME i = h, ring[1].state = "submitted" PROVE InLog(i)'
                    OBVIOUS
                <5>1. Len(log) + 1 \in 1..Len(log') /\ log'[Len(log) + 1].of = i
                    BY <1>2, <1>6, <1>10
                <5> QED
                    BY <5>1 DEF InLog
            <4>3. InLog(i)' => InLog(i) \/ (i = h /\ ring[1].state = "submitted")
                <5> SUFFICES ASSUME InLog(i)' PROVE InLog(i) \/ (i = h /\ ring[1].state = "submitted")
                    OBVIOUS
                <5>1. PICK k \in 1..Len(log') : log'[k].of = i
                    BY DEF InLog
                <5>2. CASE k \in 1..Len(log)
                    BY <1>10, <5>1, <5>2 DEF InLog
                <5>3. CASE k \notin 1..Len(log)
                    BY <1>6, <1>10, <5>1, <5>3
                <5> QED
                    BY <5>2, <5>3
            <4> QED
                BY <4>1, <4>2, <4>3
        <3>2. InRing(i) <=> InRing(i)' \/ i = h
            <4>1. InRing(i)' => InRing(i)
                <5> SUFFICES ASSUME InRing(i)' PROVE InRing(i)
                    OBVIOUS
                <5>1. PICK k \in 1..Len(ring') : ring'[k].ev.of = i
                    BY DEF InRing
                <5>2. k + 1 \in 1..Len(ring) /\ ring[k + 1].ev.of = i
                    BY <1>4, <5>1
                <5> QED
                    BY <5>2 DEF InRing
            <4>2. i = h => InRing(i)
                BY <1>5, <1>6 DEF InRing
            <4>3. InRing(i) => InRing(i)' \/ i = h
                <5> SUFFICES ASSUME InRing(i), i # h PROVE InRing(i)'
                    OBVIOUS
                <5>1. PICK k \in 1..Len(ring) : ring[k].ev.of = i
                    BY DEF InRing
                <5>2. k # 1
                    BY <1>6, <5>1
                <5>3. k - 1 \in 1..Len(ring')
                    BY <1>2, <1>4, <5>2
                <5>4. ring'[k - 1] = ring[k]
                    <6>1. (k - 1) + 1 = k
                        OBVIOUS
                    <6> QED
                        BY <1>4, <5>3, <6>1
                <5> QED
                    BY <5>1, <5>3, <5>4 DEF InRing
            <4> QED
                BY <4>1, <4>2, <4>3
        <3> QED
            BY <1>7, <3>1, <3>2
    <2>7. ASSUME NEW i \in 1..Len(arrived')
          PROVE  (i \notin lost' /\ Recorded(i)') <=> (InLog(i)' \/ (InRing(i)' /\ Recorded(i)'))
        <3>1. i \in 1..Len(arrived) /\ (Recorded(i)' <=> Recorded(i))
            BY <1>2, <1>8, <1>9
        <3> QED
            BY <1>1, <1>8, <2>6, <3>1 DEF Order
    <2> QED
        BY <2>3, <2>4, <2>5, <2>7 DEF Order
<1> QED
    BY <1>11, <1>12, <1>13, <1>14 DEF IInv

\* The loader's other steps leave the ring, the log and the packets alone.
LEMMA LoaderIInv ==
    ASSUME IInv, UNCHANGED <<kernel, ring, log>>, LoaderTyped'
    PROVE  IInv'
<1>1. /\ hook' = hook /\ arrived' = arrived /\ lost' = lost /\ dropped' = dropped
      /\ work' = work /\ ring' = ring /\ log' = log
    BY DEF kernel
<1>2. TypeOK'
    BY <1>1 DEF IInv, TypeOK, LoaderTyped
<1>3. \A i \in 1..MaxPackets : Filled(i)' = Filled(i) /\ (Recorded(i)' <=> Recorded(i))
    BY <1>1, FilledStays
<1>4. SlotsKept' /\ LinesFilled'
    BY <1>1, <1>3 DEF IInv, SlotsKept, LinesFilled
<1>5. Order'
    <2>1. ASSUME NEW i \in 1..Len(arrived)
          PROVE  /\ (InLog(i)' <=> InLog(i)) /\ (InRing(i)' <=> InRing(i))
                 /\ Recorded(i)' <=> Recorded(i)
        <3>1. i \in 1..MaxPackets
            BY Held DEF IInv
        <3> QED
            BY <1>1, <1>3, <3>1 DEF InLog, InRing
    <2> QED
        BY <1>1, <2>1 DEF IInv, Order
<1> QED
    BY <1>2, <1>4, <1>5 DEF IInv

LEMMA NextIInv == IInv /\ [Next]_vars => IInv'
<1> SUFFICES ASSUME IInv, [Next]_vars PROVE IInv'
    OBVIOUS
<1>1. LoaderTyped
    BY DEF IInv, TypeOK, LoaderTyped
<1>2. ASSUME NEW c \in CPUs, Handle(c) PROVE IInv'
    BY <1>2, HandleIInv
<1>3. ASSUME NEW c \in CPUs, NEW p \in Packets[hook], Receive(c, p) PROVE IInv'
    BY <1>3, ReceiveIInv
<1>4. CASE Drain
    BY <1>4, DrainIInv
<1>5. CASE Open \/ Load \/ Attach \/ InstallHandlers \/ NewRing
    <2>1. UNCHANGED <<kernel, ring, log>> /\ LoaderTyped'
        <3> USE <1>1 DEF Step, LoaderTyped
        <3>1. CASE Open
            BY <3>1 DEF Open
        <3>2. CASE Load
            BY <3>2 DEF Load
        <3>3. CASE Attach
            BY <3>3 DEF Attach
        <3>4. CASE InstallHandlers
            BY <3>4 DEF InstallHandlers
        <3>5. CASE NewRing
            BY <3>5 DEF NewRing
        <3> QED
            BY <1>5, <3>1, <3>2, <3>3, <3>4, <3>5
    <2> QED
        BY <2>1, LoaderIInv
<1>6. CASE LoopCheck \/ PollReturn \/ Cleanup
    <2>1. UNCHANGED <<kernel, ring, log>> /\ LoaderTyped'
        <3> USE <1>1 DEF Step, LoaderTyped
        <3>1. CASE LoopCheck
            BY <3>1 DEF LoopCheck
        <3>2. CASE PollReturn
            BY <3>2 DEF PollReturn
        <3>3. CASE Cleanup
            BY <3>3 DEF Cleanup
        <3> QED
            BY <1>6, <3>1, <3>2, <3>3
    <2> QED
        BY <2>1, LoaderIInv
<1>7. CASE OpenFails \/ StepFails \/ PollFails
    <2>1. AttachError \in -1..0
        BY <1>1 DEF AttachError, LoaderTyped
    <2>2. UNCHANGED <<kernel, ring, log>> /\ LoaderTyped'
        <3> USE <1>1, <2>1 DEF Step, LoaderTyped
        <3>1. CASE OpenFails
            BY <3>1 DEF OpenFails
        <3>2. CASE StepFails
            BY <3>2 DEF StepFails
        <3>3. CASE PollFails
            <4>1. /\ UNCHANGED <<kernel, ring, log, linked, exiting, status>> /\ upc' = "cleanup"
                  /\ err' \in {0, -1} /\ failed' \in {failed, TRUE}
                BY <3>3, Zenon DEF PollFails
            <4>2. err' \in -1..0
                BY <4>1
            <4>3. linked' \in BOOLEAN /\ exiting' \in BOOLEAN /\ failed' \in BOOLEAN
                BY <4>1
            <4>4. status' \in {"running", "0", "1", "killed"}
                BY <4>1
            <4> QED
                BY <4>1, <4>2, <4>3, <4>4
        <3> QED
            BY <1>7, <3>1, <3>2, <3>3
    <2> QED
        BY <2>2, LoaderIInv
<1>8. CASE Signal
    <2>1. UNCHANGED <<kernel, ring, log>> /\ LoaderTyped'
        BY <1>1, <1>8 DEF Signal, LoaderTyped
    <2> QED
        BY <2>1, LoaderIInv
<1>9. CASE UNCHANGED vars
    <2>1. UNCHANGED <<kernel, ring, log>> /\ LoaderTyped'
        BY <1>1, <1>9 DEF vars, kernel, loader, LoaderTyped
    <2> QED
        BY <2>1, LoaderIInv
<1> QED
    BY <1>2, <1>3, <1>4, <1>5, <1>6, <1>7, <1>8, <1>9 DEF Next, Proceed, Finished

LEMMA IInvAlways == Spec => []IInv
BY InitIInv, NextIInv, PTL DEF Spec

-------------------------------------------------------------------------------
(* What follows from it. *)

\* Every variable keeps its type; no packet's number is ever out of range.
THEOREM TypeCorrect == Spec => []TypeOK
<1>1. IInv => TypeOK
    BY DEF IInv
<1> QED
    BY <1>1, IInvAlways, PTL

\* However the CPUs interleave, and whoever gives events back or finds the ring
\* full: the log with what is in the ring are the recorded packets that got an
\* event, once each, in the order of their arrival.
THEOREM LogAlwaysInOrder == Spec => []LogInOrder
<1>1. IInv => LogInOrder
    <2> SUFFICES ASSUME IInv PROVE LogInOrder
        OBVIOUS
    <2>1. TypeOK /\ SlotsKept /\ LinesFilled /\ Order
        BY DEF IInv
    <2>2. /\ Len(ring) \in Nat /\ Len(log) \in Nat
          /\ \A k \in 1..Len(ring) : ring[k].ev.of \in 1..MaxPackets
          /\ \A k \in 1..Len(log) : log[k].of \in 1..MaxPackets
        BY <2>1, Held
    <2>3. Ascending(OfLog) /\ Ascending(OfRing)
        BY <2>1 DEF Order, Ascending, OfLog, OfRing
    <2>4. \A i : i \in Logged <=> InLog(i)
        BY DEF Logged, OfLog, InLog
    <2>5. \A i : i \in Reserved <=> InRing(i)
        BY DEF Reserved, OfRing, InRing
    <2>6. \A i \in Logged, j \in Reserved : i < j
        BY <2>1, <2>4, <2>5 DEF Order, InLog, InRing
    <2>7. \A i : InLog(i) => i \in 1..Len(arrived)
        <3> SUFFICES ASSUME NEW k \in 1..Len(log) PROVE log[k].of \in 1..Len(arrived)
            BY DEF InLog
        <3>1. log[k].of \in 1..MaxPackets /\ log[k].of <= Len(arrived)
            BY <2>1, <2>2 DEF LinesFilled
        <3> QED
            BY <2>1, <3>1, Held
    <2>8. \A i : InRing(i) => i \in 1..Len(arrived)
        <3> SUFFICES ASSUME NEW k \in 1..Len(ring) PROVE ring[k].ev.of \in 1..Len(arrived)
            BY DEF InRing
        <3>1. ring[k].ev.of \in 1..MaxPackets /\ ring[k].ev.of <= Len(arrived)
            BY <2>1, <2>2 DEF SlotsKept
        <3> QED
            BY <2>1, <3>1, Held
    <2>9. \A i : i \in Logged \cup Pending <=> i \in Due
        BY <2>1, <2>4, <2>5, <2>7, <2>8 DEF Pending, Due, Order
    <2> QED
        BY <2>3, <2>6, <2>9 DEF LogInOrder
<1> QED
    BY <1>1, IInvAlways, PTL

\* What the parsers of XDP and TC have tested when they find no error.
LEMMA HeadersThere ==
    ASSUME hook \in {"xdp", "tc"}, NEW p \in PacketType, ParseError(p) = 0
    PROVE  /\ p.ip /\ p.len >= ETH_HLEN + IP_HLEN
           /\ IsTransport(p) /\ WellPlaced(p) => HasPorts(p)
<1>1. p.len \in Nat /\ p.ihl \in Nat /\ p.ip \in BOOLEAN /\ p.v4 \in BOOLEAN /\ p.later \in BOOLEAN
    BY DEF PacketType
<1>2. ParseEth(p) = 0 /\ TooShort(p, ETH_HLEN + (IF hook = "xdp" THEN IP_HLEN ELSE 4 * p.ihl)) = 0
    <2>1. CASE hook = "xdp"
        BY <2>1 DEF ParseError, ParseXdp
    <2>2. CASE hook = "tc"
        BY <2>2 DEF ParseError, ParseTc
    <2> QED
        BY <2>1, <2>2
<1>3. p.ip /\ p.len >= ETH_HLEN + IP_HLEN
    BY <1>1, <1>2 DEF ParseEth, ETH_HLEN, IP_HLEN
<1>4. ASSUME IsTransport(p), WellPlaced(p) PROVE HasPorts(p)
    <2>1. TooShort(p, ETH_HLEN + 4 * p.ihl) = 0
        BY <1>2, <1>4 DEF WellPlaced, IP_HLEN
    <2>2. p.len >= ETH_HLEN + 4 * p.ihl + (IF p.proto = IPPROTO_TCP THEN 20 ELSE 8)
        BY <1>1, <1>4, <2>1 DEF TooShort, IsTransport, IPPROTO_TCP, IPPROTO_UDP, ETH_HLEN
    <2> QED
        BY <1>4, <2>2 DEF HasPorts, WellPlaced
<1> QED
    BY <1>3, <1>4

\* A line is what the program wrote of its packet, whatever the other CPUs do.  Without an
\* error code it shows the packet's protocol and addresses, and its ports where the
\* hook looks for them where they are; of XDP and TC it is of an IP packet with all
\* headers in the linear buffer, and the size is right if nothing is outside it.
THEOREM LinesAlwaysTrue == Spec => []LinesTrue
<1>1. IInv => LinesTrue
    <2> SUFFICES ASSUME IInv, NEW k \in 1..Len(log), NEW i, i = log[k].of
                 PROVE  IF hook = "execve"
                        THEN log[k].addrs = arrived[i].addrs /\ log[k].ports \in {arrived[i].behind, 0}
                        ELSE log[k].protocol < 200 => TrueLine(arrived[i], log[k])
        BY DEF LinesTrue
    <2>1. /\ hook \in Hooks /\ i \in 1..Len(arrived) /\ log[k] = Filled(i)
        BY Held DEF IInv, TypeOK, LinesFilled
    <2>2. PICK p : p = arrived[i]
        OBVIOUS
    <2>3. p \in PacketType /\ (p.ihl = 5 => p.fixed = p.behind)
        <3>1. arrived \in Seq(Packets[hook])
            BY DEF IInv, TypeOK
        <3>2. p \in Packets[hook]
            BY <2>1, <2>2, <3>1, ElementIn
        <3> QED
            BY <2>1, <3>2, PacketAssumed
    <2>4. CASE hook = "execve"
        BY <2>1, <2>2, <2>4 DEF Filled, FilledExec
    <2>5. CASE hook # "execve"
        <3> SUFFICES ASSUME log[k].protocol < 200 PROVE TrueLine(p, log[k])
            BY <2>2, <2>5
        <3>1. PICK e : e = ParseError(p)
            OBVIOUS
        <3>2. e \in {0, -1, -2, -3, -4, -5}
            BY <2>1, <2>3, <3>1, ParseErrorRange
        <3>3. log[k] = [of |-> i, size |-> PacketSize(p),
                        addrs |-> IF e \in {0, -4, -5} THEN p.addrs ELSE Blank,
                        ports |-> IF e = 0 THEN ReadPorts(p) ELSE Blank,
                        protocol |-> IF e < 0 THEN 200 - e ELSE p.proto]
            BY <2>1, <2>2, <2>5, <3>1 DEF Filled, FilledPacket
        <3>4. e = 0
            BY <3>2, <3>3
        <3>5. /\ log[k].protocol = p.proto /\ log[k].addrs = p.addrs
              /\ log[k].ports = ReadPorts(p) /\ log[k].size = PacketSize(p)
            BY <3>3, <3>4
        <3>6. (IsTransport(p) => HasPorts(p) /\ WellPlaced(p)) => ReadPorts(p) = Ports(p)
            BY <2>3 DEF ReadPorts, Ports, IsTransport, HasPorts, WellPlaced
        <3>7. hook # "tracepoint" => hook \in {"xdp", "tc"} /\ PacketSize(p) = p.len
            BY <2>1, <2>5, HooksAssumption DEF PacketSize
        <3>8. hook # "tracepoint" => /\ p.ip /\ p.len >= ETH_HLEN + IP_HLEN
                                     /\ IsTransport(p) /\ WellPlaced(p) => HasPorts(p)
            BY <2>3, <3>1, <3>4, <3>7, HeadersThere
        <3> QED
            BY <3>5, <3>6, <3>7, <3>8 DEF TrueLine
    <2> QED
        BY <2>4, <2>5
<1> QED
    BY <1>1, IInvAlways, PTL

\* No line of a tracepoint shows memory nobody wrote, whatever the ring's records
\* held before and whatever the parser makes of the packet.
THEOREM LinesAlwaysWritten == Spec => []LinesWritten
<1>1. IInv => LinesWritten
    <2> SUFFICES ASSUME IInv, hook \in {"tracepoint", "execve"}, NEW k \in 1..Len(log)
                 PROVE  log[k].addrs \in Nat /\ log[k].ports \in Nat /\ log[k].size \in Nat
        BY GarbageAssumption DEF LinesWritten
    <2>1. PICK i : i = log[k].of
        OBVIOUS
    <2>2. i \in 1..Len(arrived) /\ log[k] = Filled(i)
        BY <2>1, Held DEF IInv, TypeOK, LinesFilled
    <2>3. PICK p \in PacketType : p = arrived[i]
        BY <2>2, Held DEF IInv
    <2>4. /\ p.addrs \in Nat /\ p.behind \in Nat /\ p.fixed \in Nat /\ p.size \in Nat
          /\ p.len \in Nat /\ p.len <= p.size
        <3>1. hook \in Hooks /\ arrived \in Seq(Packets[hook])
            BY DEF IInv, TypeOK
        <3>2. p \in Packets[hook]
            BY <2>2, <2>3, <3>1, ElementIn
        <3> QED
            BY <2>3, <3>1, <3>2, PacketAssumed
    <2>5. CASE hook = "tracepoint"
        <3>1. Blank = 0
            BY <2>5 DEF Blank
        <3>2. PacketSize(p) \in Nat /\ ReadPorts(p) \in Nat
            BY <2>4 DEF PacketSize, ReadPorts
        <3>3. log[k] = FilledPacket(i)
            BY <2>2, <2>5 DEF Filled
        <3> QED
            BY <2>3, <2>4, <3>1, <3>2, <3>3 DEF FilledPacket
    <2>6. CASE hook = "execve"
        BY <2>2, <2>3, <2>4, <2>6 DEF Filled, FilledExec
    <2> QED
        BY <2>5, <2>6
<1> QED
    BY <1>1, IInvAlways, PTL
===============================================================================
