-------------------------------- MODULE IpDump --------------------------------
(***************************************************************************)
(* The loader of the counters, src/src/count_IPs_xdp.usr.c: it attaches    *)
(* the program, waits, and prints the map entry by entry.  The program is  *)
(* detached only after the printing, so the map changes under the loop.    *)
(***************************************************************************)
EXTENDS IpCount, Sequences

CONSTANTS
    NoValue,     \* "value" before any lookup has filled it
    MaxRows      \* bound: rows printed in one behaviour

VARIABLES
    upc,        \* where the loader is
    attached,   \* the XDP program runs
    hasMap,     \* map_fd is the descriptor of ip_count_map
    key,        \* next_key, the cursor; NoKey stands for key = NULL
    value,      \* the local variable the lookup fills
    rows,       \* the printed rows
    before      \* history: the counters when the printing began, by key

dvars == <<upc, attached, hasMap, key, value, rows, before>>
vars == <<cvars, dvars>>

PresentKeys == {k \in Keys : Present(elem, k)}
CountOf(k) == elem[CHOOSE s \in Holding(elem, k) : TRUE].count
Counters == [k \in Keys |-> IF Present(elem, k) THEN CountOf(k) ELSE 0]

DumpInit ==
    /\ Init
    /\ upc = "start"
    /\ attached = FALSE
    /\ hasMap = FALSE
    /\ key = NoKey
    /\ value = NoValue
    /\ rows = <<>>
    /\ before = [k \in Keys |-> 0]

-------------------------------------------------------------------------------
(* main, up to the label cleanup. *)

\* open, load, if_nametoindex, attach
Attach ==
    /\ upc = "start"
    /\ upc' = "attached"
    /\ attached' = TRUE
    /\ UNCHANGED <<hasMap, key, value, rows, before, cvars>>

\* signal() twice, then the descriptor of the map
Setup ==
    /\ upc = "attached"
    /\ upc' = "wait"
    /\ hasMap' = TRUE
    /\ UNCHANGED <<attached, key, value, rows, before, cvars>>

\* Entering the printing loop.
Cleanup ==
    /\ upc' = "next"
    /\ before' = Counters
    /\ UNCHANGED <<attached, key, value, rows, cvars>>

\* A call before the wait fails: goto cleanup.  Before the program is attached
\* the jump skips the declaration of map_fd, which may then hold anything, a
\* loaded map's descriptor included; afterwards it holds an error.
Fail ==
    /\ \/ upc = "start" /\ hasMap' \in BOOLEAN
       \/ upc = "attached" /\ hasMap' = FALSE
    /\ Cleanup

\* The wait ends with the benchmark time or the flag a signal raised.
StopWaiting == upc = "wait" /\ Cleanup /\ UNCHANGED hasMap

\* A signal before the handlers are installed kills the loader; so does a
\* skeleton that cannot be opened.
Killed ==
    /\ upc \in {"start", "attached"}
    /\ upc' = "done"
    /\ attached' = FALSE
    /\ UNCHANGED <<hasMap, key, value, rows, before, cvars>>

-------------------------------------------------------------------------------
(* The printing loop. *)

\* bpf_map_get_next_key goes through the keys in the map's order, here that of
\* the integers, and starts again when the key it is given is not in the map.
After(k) == IF k # NoKey /\ Present(elem, k) THEN {l \in PresentKeys : l > k} ELSE PresentKeys
Least(S) == CHOOSE k \in S : \A l \in S : k <= l

\* Mutant: "key" stays NULL, it is never set to the key of the last row.
NextKey_NullCursor ==
    /\ upc = "next"
    /\ hasMap /\ PresentKeys # {}
    /\ key' = Least(PresentKeys)
    /\ upc' = "read"
    /\ UNCHANGED <<attached, hasMap, value, rows, before, cvars>>

NextKey ==
    /\ upc = "next"
    /\ hasMap /\ After(key) # {}
    /\ key' = Least(After(key))
    /\ upc' = "read"
    /\ UNCHANGED <<attached, hasMap, value, rows, before, cvars>>

\* Mutant: the row is printed before the lookup.
PrintRow_BeforeLookup ==
    /\ upc = "read"
    /\ Len(rows) < MaxRows
    /\ value' = IF Present(elem, key) THEN CountOf(key) ELSE value
    /\ rows' = Append(rows, [key |-> key, count |-> value, own |-> Present(elem, key)])
    /\ upc' = "next"
    /\ UNCHANGED <<attached, hasMap, key, before, cvars>>

\* bpf_map_lookup_elem fills "value" or fails; its result is ignored and the row
\* is printed.  "own" is history: the value was read for this row.
PrintRow ==
    LET own == Present(elem, key)
        v == IF own THEN CountOf(key) ELSE value
    IN  /\ upc = "read"
        /\ Len(rows) < MaxRows
        /\ value' = v
        /\ rows' = Append(rows, [key |-> key, count |-> v, own |-> own])
        /\ upc' = "next"
        /\ UNCHANGED <<attached, hasMap, key, before, cvars>>

\* No next key, or no map: the loop ends and the skeleton is destroyed.
EndLoop ==
    /\ upc = "next"
    /\ ~hasMap \/ After(key) = {}
    /\ upc' = "done"
    /\ attached' = FALSE
    /\ UNCHANGED <<hasMap, key, value, rows, before, cvars>>

Dump == NextKey \/ PrintRow \/ EndLoop

Kernel ==
    /\ \/ \E c \in CPUs : Cpu(c)
       \/ attached /\ \E c \in CPUs, p \in Packets : Receive(c, p)
    /\ UNCHANGED dvars

\* The loader has exited, or the bound on rows stops the model.
Stopped ==
    /\ upc = "done" \/ Len(rows) = MaxRows
    /\ UNCHANGED vars

DumpNext ==
    \/ Attach \/ Setup \/ Fail \/ StopWaiting \/ Killed \/ Dump \/ Kernel \/ Stopped

DumpSpec == DumpInit /\ [][DumpNext]_vars

-------------------------------------------------------------------------------
(* Properties. *)

RowsOf(k) == {n \in 1..Len(rows) : rows[n].key = k}

\* Whatever is received meanwhile, as long as nothing is evicted the printing shows every entry that was in
\* the map when it began, once, and nothing twice.
DumpComplete ==
    ~evicted =>
    /\ \A k \in Keys : Cardinality(RowsOf(k)) <= 1
    /\ (upc = "done" /\ hasMap) => \A k \in Keys : before[k] > 0 => RowsOf(k) # {}

\* As long as nothing is evicted, a printed count is one the counter had while the printing went on.
RowsCurrent ==
    ~evicted => \A n \in 1..Len(rows) :
        LET k == rows[n].key
        IN  rows[n].own /\ rows[n].count \in before[k]..CountOf(k)

-------------------------------------------------------------------------------
(* What count_IPs_xdp.usr.c:132 promises and the code does not keep. *)

\* A row shows an entry of the map: its count was read for its key.
RowsReadFromMap == \A n \in 1..Len(rows) : rows[n].own
===============================================================================
