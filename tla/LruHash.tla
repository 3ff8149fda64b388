------------------------------- MODULE LruHash -------------------------------
(***************************************************************************)
(* What the programs use of BPF_MAP_TYPE_LRU_HASH: a map is a function     *)
(* from its preallocated elements to records with a field "key"; an        *)
(* element that holds no entry has the key NoKey.  Elements are recycled:  *)
(* a program that keeps a pointer to one finds another entry there later.  *)
(***************************************************************************)
EXTENDS Integers

NoKey == 0

Holding(map, k) == {s \in DOMAIN map : map[s].key = k}
Present(map, k) == Holding(map, k) # {}

\* The kernel evicts entries in batches, to refill the list of free elements of
\* one CPU; it takes the ones used least recently, as far as it can tell.  Here
\* any set of entries may go, and at any insertion: elements on the lists of
\* other CPUs do not count as free.  A free element keeps its old value.
Occupied(map) == {s \in DOMAIN map : map[s].key # NoKey}
Unkeyed(entry) == [entry EXCEPT !.key = NoKey]
Evict(map, victims) ==
    [s \in DOMAIN map |-> IF s \in victims THEN Unkeyed(map[s]) ELSE map[s]]

\* bpf_map_update_elem with BPF_NOEXIST, once entries have been evicted: it has
\* filled a free element s before it looks for the key.  When the key is there,
\* inserted meanwhile by another CPU, s goes back to the free list.
InsertAt(map, s, new) ==
    [map EXCEPT ![s] = IF Present(map, new.key) THEN Unkeyed(new) ELSE new]
===============================================================================
