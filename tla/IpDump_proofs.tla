---------------------------- MODULE IpDump_proofs ----------------------------
(***************************************************************************)
(* What TLAPS proves of the counters while their loader prints them, for   *)
(* any number of CPUs, any packets, any map size and any evictions.        *)
(***************************************************************************)
EXTENDS IpDump, IpCount_proofs

-------------------------------------------------------------------------------
(* The loader only reads. *)

LEMMA StepReads == ASSUME [DumpNext]_vars PROVE CountNext \/ UNCHANGED cvars
<1>1. CASE Kernel
    BY <1>1 DEF Kernel, CountNext
<1>2. CASE Attach \/ Setup \/ Fail \/ StopWaiting \/ Killed
    BY <1>2 DEF Attach, Setup, Fail, StopWaiting, Killed, Cleanup
<1>3. CASE Dump
    BY <1>3 DEF Dump, NextKey, PrintRow, EndLoop
<1>4. CASE Stopped \/ UNCHANGED vars
    BY <1>4 DEF Stopped, vars
<1> QED
    BY <1>1, <1>2, <1>3, <1>4 DEF DumpNext

\* The loader's steps are no steps of the counters: the program with its loader
\* is the program.
THEOREM DumpOnlyReads == DumpSpec => Spec
<1>1. DumpInit => Init
    BY DEF DumpInit
<1>2. [DumpNext]_vars => [CountNext \/ AllSeen]_cvars
    BY StepReads
<1> QED
    BY <1>1, <1>2, PTL DEF DumpSpec, Spec

\* All that is true of the counters is true of them while they are printed.
THEOREM CountersWhilePrinted ==
    DumpSpec => [](TypeOK /\ CountedOnce /\ UndercountBounded /\ BytesLag)
BY DumpOnlyReads, TypeCorrect, NeverCountedTwice, UndercountAlwaysBounded,
   BytesAlwaysLag, PTL

-------------------------------------------------------------------------------
(* The map under the loop. *)

\* The map has an entry of k, which counts at least n packets.
Shown(k, n) == \E s \in Elems : elem[s].key = k /\ n <= elem[s].count

\* While nothing is evicted, an entry stays where it is and its count grows.
LEMMA EntriesStay ==
    ASSUME IInv, [DumpNext]_vars, ~evicted'
    PROVE  /\ ~evicted
           /\ \A s \in Elems : elem[s].key # NoKey =>
                 elem'[s].key = elem[s].key /\ elem[s].count <= elem'[s].count
<1> DEFINE Stay == \A s \in Elems : elem[s].key # NoKey =>
                      elem'[s].key = elem[s].key /\ elem[s].count <= elem'[s].count
<1>0. elem \in [Elems -> Entry] /\ \A s \in Elems : elem[s].count \in Nat
    BY DEF IInv, TypeOK, Entry
<1>1. CountNext \/ UNCHANGED cvars
    BY StepReads
<1>2. ASSUME NEW c \in CPUs, NEW p \in Packets, Receive(c, p) PROVE ~evicted /\ Stay
    BY <1>0, <1>2 DEF Receive
<1>3. ASSUME NEW c \in CPUs, AddCount(c) PROVE ~evicted /\ Stay
    BY <1>0, <1>3 DEF AddCount, Entry
<1>4. ASSUME NEW c \in CPUs, AddBytes(c) PROVE ~evicted /\ Stay
    BY <1>0, <1>4 DEF AddBytes, Entry
<1>5. ASSUME NEW c \in CPUs, Insert(c) PROVE ~evicted /\ Stay
    <2>1. ~evicted
        BY <1>5 DEF Insert
    <2>2. PICK s \in Elems : /\ elem[s].key = NoKey
                             /\ \A t \in Elems \ {s} : elem'[t] = elem[t]
        BY <1>5, InsertSteady
    <2> QED
        BY <1>0, <2>1, <2>2
<1>6. CASE UNCHANGED cvars
    BY <1>0, <1>6 DEF cvars
<1> QED
    BY <1>1, <1>2, <1>3, <1>4, <1>5, <1>6 DEF CountNext, Cpu

LEMMA ShownStays ==
    ASSUME IInv, IInv', [DumpNext]_vars, ~evicted', NEW k \in Keys, NEW n \in Nat, Shown(k, n)
    PROVE  Shown(k, n)'
<1>1. PICK s \in Elems : elem[s].key = k /\ n <= elem[s].count
    BY DEF Shown
<1>2. elem'[s].key = k /\ elem[s].count <= elem'[s].count
    BY <1>1, KeysUsed, EntriesStay
<1>3. elem[s].count \in Nat /\ elem'[s].count \in Nat
    BY DEF IInv, TypeOK, Entry
<1> QED
    BY <1>1, <1>2, <1>3 DEF Shown

\* A key that is there has one holder, whose count CountOf is.
LEMMA OneCount ==
    ASSUME IInv, NEW k \in Keys
    PROVE  /\ Present(elem, k) <=> Shown(k, 0)
           /\ Present(elem, k) => CountOf(k) \in Nat /\ Shown(k, CountOf(k))
           /\ \A n \in Nat : Shown(k, n) => n <= CountOf(k)
<1>1. \A s \in Elems : elem[s].count \in Nat
    BY DEF IInv, TypeOK, Entry
<1>2. Holding(elem, k) = {s \in Elems : elem[s].key = k}
    BY DEF Holding, IInv, TypeOK
<1>3. Present(elem, k) <=> Shown(k, 0)
    BY <1>1, <1>2 DEF Present, Shown
<1>4. ASSUME NEW s \in Elems, elem[s].key = k PROVE CountOf(k) = elem[s].count
    <2>1. \A t \in Holding(elem, k) : t = s
        BY <1>2, <1>4, KeysUsed DEF IInv, OneHolder
    <2>2. s \in Holding(elem, k)
        BY <1>2, <1>4
    <2>3. (CHOOSE t \in Holding(elem, k) : TRUE) = s
        BY <2>1, <2>2
    <2> QED
        BY <2>3 DEF CountOf
<1>5. Present(elem, k) => CountOf(k) \in Nat /\ Shown(k, CountOf(k))
    <2> SUFFICES ASSUME Present(elem, k) PROVE CountOf(k) \in Nat /\ Shown(k, CountOf(k))
        OBVIOUS
    <2>1. PICK s \in Elems : elem[s].key = k
        BY <1>2 DEF Present
    <2>2. CountOf(k) = elem[s].count
        BY <1>4, <2>1
    <2> QED
        BY <1>1, <2>1, <2>2 DEF Shown
<1>6. ASSUME NEW n \in Nat, Shown(k, n) PROVE n <= CountOf(k)
    BY <1>4, <1>6 DEF Shown
<1> QED
    BY <1>3, <1>5, <1>6

\* Of some keys one is the least: no key is below the error codes.
LEMMA LeastKey ==
    ASSUME NEW S \in SUBSET Keys, S # {}
    PROVE  Least(S) \in S /\ \A l \in S : Least(S) <= l
<1>1. \A k \in Keys : k \in Int /\ k + 3 \in Nat
    <2>1. ASSUME NEW p \in Packets PROVE Key(p) \in Int /\ Key(p) >= -3
        <3>1. p.pair \in Nat \ {0} /\ p.hdrs \in 0..2 /\ p.ip \in BOOLEAN
            BY PacketsAssumption
        <3>2. ParseResult(p) \in {-1, -2, -3, 0}
            BY <3>1 DEF ParseResult
        <3> QED
            BY <3>1, <3>2 DEF Key
    <2> QED
        BY <2>1 DEF Keys
<1> DEFINE T == {n \in Nat : n - 3 \in S}
<1>2. T # {}
    <2>1. PICK k \in S : TRUE
        OBVIOUS
    <2>2. k + 3 \in Nat /\ (k + 3) - 3 = k
        BY <1>1, <2>1
    <2> QED
        BY <2>1, <2>2
<1>3. PICK n \in T : \A m \in T : n <= m
    <2>1. T \in SUBSET Nat
        OBVIOUS
    <2> HIDE DEF T
    <2> QED
        BY <1>2, <2>1, LeastNumber
<1>4. n - 3 \in S /\ \A l \in S : n - 3 <= l
    <2>1. ASSUME NEW l \in S PROVE n - 3 <= l
        <3>1. l \in Int /\ l + 3 \in Nat /\ (l + 3) - 3 = l
            BY <1>1
        <3>2. l + 3 \in T
            BY <3>1
        <3>3. n <= l + 3
            BY <1>3, <3>2
        <3> QED
            BY <1>3, <3>1, <3>3
    <2> QED
        BY <1>3, <2>1
<1> QED
    BY <1>4 DEF Least

-------------------------------------------------------------------------------
(* The invariant of the printing loop.  Shape types the loader; the rest is  *)
(* about a printing under which nothing is evicted.                          *)

Row == [key : Keys, count : Nat \cup {NoValue}, own : BOOLEAN]

Shape ==
    /\ upc \in {"start", "attached", "wait", "next", "read", "done"}
    /\ hasMap \in BOOLEAN
    /\ key \in Keys \cup {NoKey}
    /\ value \in Nat \cup {NoValue}
    /\ before \in [Keys -> Nat]
    /\ rows \in Seq(Row)
    /\ upc = "read" => key \in Keys
    /\ upc \in {"start", "attached", "wait"} => rows = <<>> /\ key = NoKey
    /\ upc \in {"start", "attached"} => ~hasMap

Listed(k) == \E n \in 1..Len(rows) : rows[n].key = k

\* The keys of the rows ascend.
Ordered == \A m, n \in 1..Len(rows) : m < n => rows[m].key < rows[n].key

\* The cursor is a key of the map, at the last row or, once read, beyond it.
Cursor ==
    /\ key = NoKey => rows = <<>>
    /\ key # NoKey => Shown(key, 0)
    /\ \A n \in 1..Len(rows) : rows[n].key <= key /\ (upc = "read" => rows[n].key < key)

\* Of the entries that were there at the beginning, those up to the cursor have
\* their row, and all of them in the end.
Covered ==
    /\ upc \in {"next", "read"} /\ key # NoKey =>
          \A k \in Keys : before[k] > 0 /\ (k < key \/ (k = key /\ upc = "next")) => Listed(k)
    /\ upc = "done" /\ hasMap => \A k \in Keys : before[k] > 0 => Listed(k)

\* A row's count is between the one at the beginning and the one in the map.
RowsTrue ==
    \A n \in 1..Len(rows) :
        /\ rows[n].own
        /\ rows[n].count \in Nat
        /\ before[rows[n].key] <= rows[n].count
        /\ Shown(rows[n].key, rows[n].count)

\* The entries of the beginning are still there.
Kept == \A k \in Keys : before[k] > 0 => Shown(k, before[k])

Faithful == Ordered /\ Cursor /\ Covered /\ RowsTrue /\ Kept

DumpInv == IInv /\ Shape /\ (~evicted => Faithful)

LEMMA RowKeys == Shape => \A n \in 1..Len(rows) : rows[n].key \in Keys
<1> SUFFICES ASSUME Shape, NEW n \in 1..Len(rows) PROVE rows[n].key \in Keys
    OBVIOUS
<1>1. rows \in Seq(Row)
    BY DEF Shape
<1>2. rows[n] \in Row
    BY <1>1
<1> QED
    BY <1>2 DEF Row

LEMMA InitDumpInv == DumpInit => DumpInv
<1> SUFFICES ASSUME DumpInit PROVE DumpInv
    OBVIOUS
<1>1. IInv
    BY InitIInv DEF DumpInit
<1>2. Shape
    <2>1. rows \in Seq(Row)
        BY DEF DumpInit
    <2> QED
        BY <2>1 DEF DumpInit, Shape
<1>3. Faithful
    BY DEF DumpInit, Faithful, Ordered, Cursor, Covered, RowsTrue, Kept
<1> QED
    BY <1>1, <1>2, <1>3 DEF DumpInv

\* Up to the loop nothing is printed.
LEMMA BeforeLoop ==
    ASSUME DumpInv, UNCHANGED cvars, Attach \/ Setup \/ Killed
    PROVE  Shape' /\ (~evicted' => Faithful')
<1> USE DEF Attach, Setup, Killed
<1>1. rows = <<>> /\ key = NoKey /\ (upc' = "done" => ~hasMap)
    BY DEF DumpInv, Shape
<1>2. Shape'
    <2>1. /\ Shape /\ UNCHANGED <<key, value, rows, before>>
          /\ rows = <<>> /\ key = NoKey
          /\ upc' \in {"attached", "wait", "done"} /\ hasMap' \in BOOLEAN
          /\ upc' = "attached" => ~hasMap'
        <3>1. Shape
            BY DEF DumpInv
        <3>2. hasMap \in BOOLEAN
            BY <3>1 DEF Shape
        <3>3. UNCHANGED <<key, value, rows, before>>
            OBVIOUS
        <3>4. upc' \in {"attached", "wait", "done"}
            OBVIOUS
        <3>5. hasMap' \in BOOLEAN
            BY <3>2
        <3>6. upc' = "attached" => ~hasMap'
            BY <3>1 DEF Shape
        <3> QED
            BY <1>1, <3>1, <3>3, <3>4, <3>5, <3>6
    <2> HIDE DEF Attach, Setup, Killed
    <2> QED
        BY <2>1 DEF Shape
<1>3. ASSUME ~evicted' PROVE Faithful'
    <2>1. ~evicted /\ Kept
        BY <1>3 DEF DumpInv, Faithful, cvars
    <2>2. Kept'
        BY <2>1 DEF Kept, Shown, cvars
    <2>3. rows' = <<>> /\ key' = NoKey /\ ~(upc' = "done" /\ hasMap')
        BY <1>1
    <2> QED
        BY <2>2, <2>3 DEF Faithful, Ordered, Cursor, Covered, RowsTrue
<1> QED
    BY <1>2, <1>3

\* Entering it, the counters are taken down.
LEMMA EnterLoop ==
    ASSUME DumpInv, Fail \/ StopWaiting
    PROVE  Shape' /\ (~evicted' => Faithful')
<1>1. Cleanup /\ rows = <<>> /\ key = NoKey
    BY DEF Fail, StopWaiting, DumpInv, Shape
<1>2. \A k \in Keys : Counters[k] \in Nat /\ (Counters[k] > 0 => Shown(k, Counters[k]))
    BY OneCount DEF Counters, DumpInv
<1>3. before' \in [Keys -> Nat]
    BY <1>1, <1>2 DEF Cleanup, Counters
<1>4. hasMap' \in BOOLEAN
    BY DEF Fail, StopWaiting, DumpInv, Shape
<1>5. Shape'
    BY <1>1, <1>3, <1>4 DEF DumpInv, Shape, Cleanup
<1>6. Kept'
    BY <1>1, <1>2 DEF Kept, Shown, Cleanup, cvars
<1>7. rows' = <<>> /\ key' = NoKey /\ upc' = "next"
    BY <1>1 DEF Cleanup
<1>8. Faithful'
    BY <1>6, <1>7 DEF Faithful, Ordered, Cursor, Covered, RowsTrue
<1> QED
    BY <1>5, <1>8

\* What the cursor has before it: while nothing is evicted, the keys of the map
\* beyond it, and so the entries of the beginning that have no row.
LEMMA BeyondCursor ==
    ASSUME DumpInv, ~evicted, upc = "next"
    PROVE  /\ After(key) \subseteq Keys
           /\ \A l \in After(key) : Shown(l, 0) /\ (key # NoKey => l > key)
           /\ \A k \in Keys : before[k] > 0 => k \in After(key) \/ (Listed(k) /\ key # NoKey /\ k <= key)
<1>1. Faithful /\ IInv /\ key \in Keys \cup {NoKey} /\ Keys \subseteq Int /\ NoKey \notin Keys
    BY KeysUsed DEF DumpInv, Shape
<1>2. key # NoKey => Present(elem, key)
    BY <1>1, OneCount DEF Faithful, Cursor
<1>3. After(key) = IF key # NoKey THEN {l \in PresentKeys : l > key} ELSE PresentKeys
    BY <1>2 DEF After
<1>4. \A k \in Keys : k \in PresentKeys <=> Shown(k, 0)
    BY <1>1, OneCount DEF PresentKeys
<1>5. ASSUME NEW k \in Keys, before[k] > 0
      PROVE  k \in After(key) \/ (Listed(k) /\ key # NoKey /\ k <= key)
    <2>1. Shown(k, before[k]) /\ before[k] \in Nat
        BY <1>1, <1>5 DEF Faithful, Kept, DumpInv, Shape
    <2>2. Present(elem, k)
        BY <1>1, <2>1 DEF Shown, Present, Holding, IInv, TypeOK
    <2>3. k \in PresentKeys
        BY <2>2 DEF PresentKeys
    <2>4. CASE key = NoKey \/ k > key
        BY <1>3, <2>3, <2>4
    <2>5. CASE key # NoKey /\ k <= key
        <3>1. k < key \/ k = key
            BY <1>1, <2>5
        <3>2. Listed(k)
            BY <1>1, <1>5, <2>5, <3>1 DEF Faithful, Covered
        <3> QED
            BY <2>5, <3>2
    <2> QED
        BY <1>1, <2>4, <2>5
<1> QED
    BY <1>3, <1>4, <1>5 DEF PresentKeys

LEMMA NextKeyPrints ==
    ASSUME DumpInv, NextKey
    PROVE  Shape' /\ (~evicted' => Faithful')
<1>1. /\ UNCHANGED <<attached, hasMap, value, rows, before, cvars>>
      /\ upc = "next" /\ upc' = "read"
      /\ key' = Least(After(key)) /\ After(key) # {}
    BY DEF NextKey
<1>2. After(key) \subseteq Keys
    BY DEF After, PresentKeys
<1>3. key' \in After(key) /\ \A l \in After(key) : key' <= l
    BY <1>1, <1>2, LeastKey
<1>4. key' \in Keys /\ key' # NoKey /\ Keys \subseteq Int
    BY <1>2, <1>3, KeysUsed
<1>5. Shape'
    BY <1>1, <1>4 DEF DumpInv, Shape
<1>6. ASSUME ~evicted' PROVE Faithful'
    <2>1. ~evicted /\ Faithful
        BY <1>1, <1>6 DEF DumpInv, cvars
    <2>2. /\ \A l \in After(key) : Shown(l, 0) /\ (key # NoKey => l > key)
          /\ \A k \in Keys : before[k] > 0 => k \in After(key) \/ (Listed(k) /\ key # NoKey /\ k <= key)
        BY <1>1, <2>1, BeyondCursor
    <2>3. /\ \A k \in Keys, n \in Nat : Shown(k, n)' <=> Shown(k, n)
          /\ \A k \in Keys : Listed(k)' <=> Listed(k)
        BY <1>1 DEF Shown, Listed, cvars
    <2>4. Ordered' /\ Kept' /\ RowsTrue'
        BY <1>1, <2>1 DEF Faithful, Ordered, Kept, RowsTrue, Shown, cvars
    <2>5. Cursor'
        <3>1. Shown(key, 0)'
            <4>1. PICK k \in After(key) : k = key'
                BY <1>3
            <4>2. Shown(k, 0)
                BY <2>2, <4>1
            <4> QED
                BY <1>1, <4>1, <4>2 DEF Shown, cvars
        <3>2. ASSUME NEW n \in 1..Len(rows) PROVE rows[n].key < key'
            <4>1. key # NoKey /\ rows[n].key <= key
                BY <2>1 DEF Faithful, Cursor
            <4>2. key \in Keys /\ rows[n].key \in Keys
                BY <4>1, RowKeys DEF DumpInv, Shape
            <4>3. key < key'
                BY <1>3, <2>2, <4>1
            <4>4. key \in Int /\ rows[n].key \in Int /\ key' \in Int
                BY <1>4, <4>2
            <4> QED
                BY <4>1, <4>3, <4>4
        <3>3. \A n \in 1..Len(rows) : rows[n].key \in Keys
            BY RowKeys DEF DumpInv
        <3>4. \A n \in 1..Len(rows') : rows'[n].key < key' /\ rows'[n].key <= key'
            <4> SUFFICES ASSUME NEW n \in 1..Len(rows) PROVE rows[n].key <= key'
                BY <1>1, <3>2
            <4>1. rows[n].key \in Int /\ key' \in Int
                BY <1>4, <3>3
            <4> QED
                BY <3>2, <4>1
        <3> QED
            BY <1>1, <1>4, <3>1, <3>4 DEF Cursor
    <2>6. Covered'
        <3>1. ASSUME NEW k \in Keys, before[k] > 0, k < key' PROVE Listed(k)
            BY <1>3, <1>4, <2>2, <3>1
        <3> QED
            BY <1>1, <2>3, <3>1 DEF Covered
    <2> QED
        BY <2>4, <2>5, <2>6 DEF Faithful
<1> QED
    BY <1>5, <1>6

LEMMA PrintRowPrints ==
    ASSUME DumpInv, PrintRow
    PROVE  Shape' /\ (~evicted' => Faithful')
<1> DEFINE own == Present(elem, key)
           v == IF own THEN CountOf(key) ELSE value
           row == [key |-> key, count |-> v, own |-> own]
           last == Len(rows) + 1
<1>1. /\ UNCHANGED <<attached, hasMap, key, before, cvars>>
      /\ upc = "read" /\ upc' = "next"
      /\ value' = v /\ rows' = Append(rows, row)
    BY DEF PrintRow
<1>2. key \in Keys /\ key # NoKey /\ Keys \subseteq Int
    BY <1>1, KeysUsed DEF DumpInv, Shape
<1>3. own \in BOOLEAN
    BY DEF Present
<1>4. v \in Nat \cup {NoValue}
    BY <1>2, OneCount DEF DumpInv, Shape
<1>5. row \in Row
    BY <1>2, <1>3, <1>4 DEF Row
<1>6. /\ rows \in Seq(Row)
      /\ rows' \in Seq(Row)
      /\ Len(rows') = last
      /\ rows'[last] = row
      /\ \A n \in 1..Len(rows) : rows'[n] = rows[n]
      /\ \A n \in 1..Len(rows') : n \in 1..Len(rows) \/ n = last
    <2>1. rows \in Seq(Row)
        BY DEF DumpInv, Shape
    <2> HIDE DEF row
    <2> QED
        BY <1>1, <1>5, <2>1
<1> HIDE DEF last
<1>7. Shape'
    BY <1>1, <1>2, <1>4, <1>6 DEF DumpInv, Shape
<1>8. ASSUME ~evicted' PROVE Faithful'
    <2>1. ~evicted /\ Faithful /\ IInv
        BY <1>1, <1>8 DEF DumpInv, cvars
    <2>2. own
        BY <1>2, <2>1, OneCount DEF Faithful, Cursor
    <2>3. v \in Nat /\ Shown(key, v) /\ before[key] <= v
        <3>1. v \in Nat /\ Shown(key, v) /\ \A n \in Nat : Shown(key, n) => n <= v
            BY <1>2, <2>1, <2>2, OneCount
        <3>2. before[key] \in Nat
            BY <1>2 DEF DumpInv, Shape
        <3>3. before[key] > 0 => Shown(key, before[key])
            BY <1>2, <2>1 DEF Faithful, Kept
        <3> HIDE DEF v
        <3> QED
            BY <3>1, <3>2, <3>3
    <2>4. row.key = key /\ row.count = v /\ row.own
        BY <2>2
    <2> HIDE DEF row, v, own
    <2>5. \A n \in 1..Len(rows) : rows[n].key < key /\ rows[n].key \in Keys
        BY <1>1, <2>1, RowKeys DEF Faithful, Cursor, DumpInv
    <2>6. Ordered'
        <3> SUFFICES ASSUME NEW m \in 1..Len(rows'), NEW n \in 1..Len(rows'), m < n
                     PROVE  rows'[m].key < rows'[n].key
            BY DEF Ordered
        <3>1. m \in 1..Len(rows)
            BY <1>6 DEF last
        <3>2. CASE n \in 1..Len(rows)
            BY <1>6, <2>1, <3>1, <3>2 DEF Faithful, Ordered
        <3>3. CASE n = last
            BY <1>6, <2>4, <2>5, <3>1, <3>3
        <3> QED
            BY <1>6, <3>2, <3>3
    <2>7. Cursor'
        <3>1. Shown(key, 0)'
            BY <1>1, <1>2, <2>1 DEF Faithful, Cursor, Shown, cvars
        <3>2. ASSUME NEW n \in 1..Len(rows') PROVE rows'[n].key <= key
            <4>1. rows'[n].key = key \/ (rows'[n].key \in Keys /\ rows'[n].key < key)
                BY <1>6, <2>4, <2>5
            <4>2. key \in Int /\ rows'[n].key \in Int
                BY <1>2, <4>1
            <4> QED
                BY <4>1, <4>2
        <3> QED
            BY <1>1, <1>2, <3>1, <3>2 DEF Cursor
    <2>8. Covered'
        <3>1. \A k \in Keys : Listed(k) => Listed(k)'
            <4> SUFFICES ASSUME NEW k \in Keys, Listed(k) PROVE Listed(k)'
                OBVIOUS
            <4>1. PICK n \in 1..Len(rows) : rows[n].key = k
                BY DEF Listed
            <4>2. n \in 1..Len(rows') /\ rows'[n].key = k
                BY <1>6, <4>1 DEF last
            <4> QED
                BY <4>2 DEF Listed
        <3>2. Listed(key)'
            <4>1. last \in 1..Len(rows') /\ rows'[last].key = key
                BY <1>6, <2>4 DEF last
            <4> QED
                BY <1>1, <4>1 DEF Listed
        <3>3. ASSUME NEW k \in Keys, before[k] > 0, k < key \/ k = key PROVE Listed(k)'
            <4>1. CASE k < key
                BY <1>1, <1>2, <2>1, <3>1, <3>3, <4>1 DEF Faithful, Covered
            <4>2. CASE k = key
                BY <3>2, <4>2, <1>1 DEF Listed
            <4> QED
                BY <3>3, <4>1, <4>2
        <3> QED
            BY <1>1, <3>3 DEF Covered
    <2>9. RowsTrue'
        <3> SUFFICES ASSUME NEW n \in 1..Len(rows')
                     PROVE  /\ rows'[n].own
                            /\ rows'[n].count \in Nat
                            /\ before[rows'[n].key] <= rows'[n].count
                            /\ Shown(rows'[n].key, rows'[n].count)
            BY <1>1 DEF RowsTrue, Shown, cvars
        <3>1. CASE n \in 1..Len(rows)
            BY <1>6, <2>1, <3>1 DEF Faithful, RowsTrue
        <3>2. CASE n = last
            BY <1>6, <2>3, <2>4, <3>2
        <3> QED
            BY <1>6, <3>1, <3>2
    <2>10. Kept'
        BY <1>1, <2>1 DEF Faithful, Kept, Shown, cvars
    <2> QED
        BY <2>6, <2>7, <2>8, <2>9, <2>10 DEF Faithful
<1> QED
    BY <1>7, <1>8

LEMMA EndLoopPrints ==
    ASSUME DumpInv, EndLoop
    PROVE  Shape' /\ (~evicted' => Faithful')
<1>1. /\ UNCHANGED <<hasMap, key, value, rows, before, cvars>>
      /\ upc = "next" /\ upc' = "done"
      /\ ~hasMap \/ After(key) = {}
    BY DEF EndLoop
<1>2. Shape'
    BY <1>1 DEF DumpInv, Shape
<1>3. ASSUME ~evicted' PROVE Faithful'
    <2>1. ~evicted /\ Faithful
        BY <1>1, <1>3 DEF DumpInv, cvars
    <2>2. hasMap => \A k \in Keys : before[k] > 0 => Listed(k)
        BY <1>1, <2>1, BeyondCursor
    <2>3. Covered'
        BY <1>1, <2>2 DEF Covered, Listed
    <2>4. Cursor'
        BY <1>1, <2>1 DEF Faithful, Cursor, Shown, cvars
    <2>5. Ordered' /\ RowsTrue' /\ Kept'
        BY <1>1, <2>1 DEF Faithful, Ordered, RowsTrue, Kept, Shown, cvars
    <2> QED
        BY <2>3, <2>4, <2>5 DEF Faithful
<1> QED
    BY <1>2, <1>3

\* The kernel counts on under the loop.
LEMMA KernelPrints ==
    ASSUME DumpInv, IInv', Kernel
    PROVE  Shape' /\ (~evicted' => Faithful')
<1>1. UNCHANGED dvars
    BY DEF Kernel
<1>2. Shape'
    BY <1>1 DEF DumpInv, Shape, dvars
<1>3. ASSUME ~evicted' PROVE Faithful'
    <2>1. [DumpNext]_vars
        BY DEF DumpNext
    <2>2. ~evicted /\ Faithful
        BY <1>3, <2>1, EntriesStay DEF DumpInv
    <2>3. \A k \in Keys, n \in Nat : Shown(k, n) => Shown(k, n)'
        BY <1>3, <2>1, ShownStays DEF DumpInv
    <2>4. \A n \in 1..Len(rows) : rows[n].key \in Keys
        BY RowKeys DEF DumpInv
    <2>5. Ordered' /\ Covered'
        BY <1>1, <2>2 DEF Faithful, Ordered, Covered, Listed, dvars
    <2>6. Cursor'
        <3>1. key # NoKey => Shown(key, 0)'
            <4> SUFFICES ASSUME key # NoKey PROVE Shown(key, 0)'
                OBVIOUS
            <4>1. PICK k \in Keys : k = key
                BY DEF DumpInv, Shape
            <4>2. Shown(k, 0)'
                BY <2>2, <2>3, <4>1 DEF Faithful, Cursor
            <4> QED
                BY <1>1, <4>1, <4>2 DEF Shown, dvars
        <3> QED
            BY <1>1, <2>2, <3>1 DEF Faithful, Cursor, dvars, Shown
    <2>7. RowsTrue'
        <3> SUFFICES ASSUME NEW n \in 1..Len(rows) PROVE Shown(rows[n].key, rows[n].count)'
            BY <1>1, <2>2 DEF Faithful, RowsTrue, dvars
        <3>1. PICK k \in Keys, m \in Nat : k = rows[n].key /\ m = rows[n].count
            BY <2>2, <2>4 DEF Faithful, RowsTrue
        <3>2. Shown(k, m)'
            BY <2>2, <2>3, <3>1 DEF Faithful, RowsTrue
        <3> QED
            BY <1>1, <3>1, <3>2 DEF Shown, dvars
    <2>8. Kept'
        <3> SUFFICES ASSUME NEW k \in Keys, before[k] > 0 PROVE Shown(k, before[k])'
            BY <1>1 DEF Kept, dvars, Shown
        <3>1. PICK m \in Nat : m = before[k]
            BY DEF DumpInv, Shape
        <3>2. Shown(k, m)'
            BY <2>2, <2>3, <3>1 DEF Faithful, Kept
        <3> QED
            BY <1>1, <3>1, <3>2 DEF Shown, dvars
    <2> QED
        BY <2>5, <2>6, <2>7, <2>8 DEF Faithful
<1> QED
    BY <1>2, <1>3

LEMMA NextDumpInv == DumpInv /\ IInv' /\ [DumpNext]_vars => DumpInv'
<1> SUFFICES ASSUME DumpInv, IInv', [DumpNext]_vars PROVE Shape' /\ (~evicted' => Faithful')
    BY DEF DumpInv
<1>1. CASE Attach \/ Setup \/ Killed
    BY <1>1, BeforeLoop DEF Attach, Setup, Killed, cvars
<1>2. CASE Fail \/ StopWaiting
    BY <1>2, EnterLoop
<1>3. CASE Dump
    BY <1>3, NextKeyPrints, PrintRowPrints, EndLoopPrints DEF Dump
<1>4. CASE Kernel
    BY <1>4, KernelPrints
<1>5. CASE Stopped \/ UNCHANGED vars
    BY <1>5 DEF Stopped, vars, dvars, cvars, DumpInv, Shape, Faithful, Ordered, Cursor, Covered,
                RowsTrue, Kept, Listed, Shown
<1> QED
    BY <1>1, <1>2, <1>3, <1>4, <1>5 DEF DumpNext

LEMMA DumpInvAlways == DumpSpec => []DumpInv
<1>1. Spec => []IInv
    BY InitIInv, NextIInv, PTL DEF Spec
<1> QED
    BY <1>1, DumpOnlyReads, InitDumpInv, NextDumpInv, PTL DEF DumpSpec

\* The printing of a map that evicts nothing: each key at most once, and every
\* entry of its beginning, however many packets are counted meanwhile.
THEOREM DumpAlwaysComplete == DumpSpec => []DumpComplete
<1>1. DumpInv => DumpComplete
    <2> SUFFICES ASSUME DumpInv, ~evicted
                 PROVE  /\ \A k \in Keys : Cardinality(RowsOf(k)) <= 1
                        /\ (upc = "done" /\ hasMap) => \A k \in Keys : before[k] > 0 => RowsOf(k) # {}
        BY DEF DumpComplete
    <2>1. Faithful
        BY DEF DumpInv
    <2>2. ASSUME NEW k \in Keys PROVE Cardinality(RowsOf(k)) <= 1
        <3>1. \A m, n \in RowsOf(k) : m = n
            <4> SUFFICES ASSUME NEW m \in RowsOf(k), NEW n \in RowsOf(k), m < n PROVE FALSE
                BY DEF RowsOf
            <4>1. k < k
                BY <2>1 DEF Faithful, Ordered, RowsOf
            <4> QED
                BY <4>1, KeysUsed
        <3>2. CASE RowsOf(k) = {}
            BY <3>2, FS_EmptySet
        <3>3. CASE RowsOf(k) # {}
            <4>1. PICK n \in RowsOf(k) : TRUE
                BY <3>3
            <4>2. RowsOf(k) = {n}
                BY <3>1, <4>1
            <4>3. Cardinality({n}) = 1
                BY FS_Singleton
            <4> QED
                BY <4>2, <4>3
        <3> QED
            BY <3>2, <3>3
    <2>3. (upc = "done" /\ hasMap) => \A k \in Keys : before[k] > 0 => RowsOf(k) # {}
        BY <2>1 DEF Faithful, Covered, Listed, RowsOf
    <2> QED
        BY <2>2, <2>3
<1> QED
    BY <1>1, DumpInvAlways, PTL

\* Its counts: each one its counter had since the printing began.
THEOREM RowsAlwaysCurrent == DumpSpec => []RowsCurrent
<1>1. DumpInv => RowsCurrent
    <2> SUFFICES ASSUME DumpInv, ~evicted, NEW n \in 1..Len(rows)
                 PROVE  /\ rows[n].own
                        /\ rows[n].count \in before[rows[n].key]..CountOf(rows[n].key)
        BY DEF RowsCurrent
    <2>1. Faithful /\ IInv /\ rows[n].key \in Keys
        BY RowKeys DEF DumpInv
    <2>2. /\ rows[n].own /\ rows[n].count \in Nat
          /\ before[rows[n].key] <= rows[n].count
          /\ Shown(rows[n].key, rows[n].count)
        BY <2>1 DEF Faithful, RowsTrue
    <2>3. Shown(rows[n].key, 0)
        BY <2>2 DEF Shown, DumpInv, IInv, TypeOK, Entry
    <2>4. /\ CountOf(rows[n].key) \in Nat
          /\ rows[n].count <= CountOf(rows[n].key)
        BY <2>1, <2>2, <2>3, OneCount
    <2>5. before[rows[n].key] \in Nat
        BY <2>1 DEF DumpInv, Shape
    <2> QED
        BY <2>2, <2>4, <2>5
<1> QED
    BY <1>1, DumpInvAlways, PTL
===============================================================================
