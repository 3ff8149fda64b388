------------------------------- MODULE BpfRing -------------------------------
(***************************************************************************)
(* The BPF ring buffer (BPF_MAP_TYPE_RINGBUF) and libbpf's consumer, as    *)
(* the programs of this repository use them.  They are code outside of the *)
(* repository: every operator is modelled from its calls.                  *)
(*                                                                         *)
(* A ring is a sequence of records in the order of their reservation.  A   *)
(* record is "busy" from its reservation until its producer submits or     *)
(* discards it; the consumer takes records strictly from the head and      *)
(* stops at a busy one.  A producer holds at most one busy record, so the  *)
(* pointer a reservation returns is "the busy record of this producer".    *)
(***************************************************************************)
EXTENDS Integers, Sequences

Slot(by, state, ev) == [by |-> by, state |-> state, ev |-> ev]

\* bpf_ringbuf_reserve returns NULL when no slot of the ring is left.
CanReserve(ring, slots) == Len(ring) < slots

\* A reservation's memory is not cleared: "ev" is whatever it held before.
Reserve(ring, by, ev) == Append(ring, Slot(by, "busy", ev))

Holds(slot, by) == slot.by = by /\ slot.state = "busy"

Settle(ring, by, state, ev) ==
    [k \in 1..Len(ring) |->
        IF Holds(ring[k], by) THEN Slot(by, state, ev) ELSE ring[k]]

Submit(ring, by, ev)  == Settle(ring, by, "submitted", ev)
Discard(ring, by, ev) == Settle(ring, by, "discarded", ev)

\* The consumer's view: what ring_buffer__poll would process next.
HeadReady(ring) == ring # <<>> /\ Head(ring).state # "busy"
HeadLogged(ring) == HeadReady(ring) /\ Head(ring).state = "submitted"
==============================================================================
