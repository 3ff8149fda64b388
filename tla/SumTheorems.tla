------------------------------ MODULE SumTheorems ------------------------------
(***************************************************************************)
(* What the proofs about counters need of the sum over a finite set, the   *)
(* fold MapThenSumSet of the community modules: that its recursion is      *)
(* well-founded, and how two sums compare whose terms differ at one place. *)
(*                                                                         *)
(* Every induction is a least counterexample, which needs no induction     *)
(* theorem: a set of numbers that is not empty has a least element.        *)
(***************************************************************************)
EXTENDS FiniteSetsExt, FiniteSetTheorems, TLAPS

\* The least element of a set of numbers.
LEMMA LeastNumber ==
    ASSUME NEW T \in SUBSET Nat, T # {}
    PROVE  \E n \in T : \A m \in T : n <= m
<1>1. PICK n \in T : \A m \in T : ~(<<m, n>> \in OpToRel(<, Nat))
    BY NatLessThanWellFounded, WFMin, Zenon
<1>2. ASSUME NEW m \in T PROVE ~(m < n)
    <2>1. <<m, n>> \in Nat \X Nat /\ <<m, n>>[1] = m /\ <<m, n>>[2] = n
        OBVIOUS
    <2>2. ~(<<m, n>> \in OpToRel(<, Nat))
        BY <1>1
    <2> QED
        BY <2>1, <2>2 DEF OpToRel
<1> QED
    BY <1>2

\* Of a family of subsets of a finite set, one has the fewest elements.
LEMMA LeastSubset ==
    ASSUME NEW S, IsFiniteSet(S), NEW B \in SUBSET (SUBSET S), B # {}
    PROVE  \E T \in B : \A U \in B : Cardinality(T) <= Cardinality(U)
<1> DEFINE sizes == {n \in Nat : \E T \in B : Cardinality(T) = n}
<1>1. \A T \in B : IsFiniteSet(T) /\ Cardinality(T) \in Nat
    BY FS_Subset, FS_CardinalityType
<1>2. sizes \in SUBSET Nat /\ sizes # {}
    BY <1>1
<1>3. \E n \in sizes : \A m \in sizes : n <= m
    <2> HIDE DEF sizes
    <2> QED
        BY <1>2, LeastNumber
<1> QED
    BY <1>1, <1>3

-------------------------------------------------------------------------------
(* The fold. *)

Sum(f, S) == MapThenSumSet(LAMBDA x : f[x], S)

Chosen(s) == CHOOSE x \in s : TRUE

\* h is the fold's function on the subsets of S.
SumsUp(f, h, S) ==
    h = [s \in SUBSET S |-> IF s = {} THEN 0 ELSE f[Chosen(s)] + h[s \ {Chosen(s)}]]

Sums(f, S) == CHOOSE h : SumsUp(f, h, S)

LEMMA SumIsLast == ASSUME NEW f, NEW S PROVE Sum(f, S) = Sums(f, S)[S]
BY DEF Sum, Sums, SumsUp, Chosen, MapThenSumSet, MapThenFoldSet

\* A subset loses one element by the fold's step.
LEMMA ChosenStep ==
    ASSUME NEW S, IsFiniteSet(S), NEW s \in SUBSET S, s # {}
    PROVE  /\ Chosen(s) \in s
           /\ s \ {Chosen(s)} \in SUBSET S
           /\ Cardinality(s) \in Nat \ {0}
           /\ Cardinality(s \ {Chosen(s)}) = Cardinality(s) - 1
<1>1. Chosen(s) \in s
    BY DEF Chosen
<1>2. IsFiniteSet(s) /\ Cardinality(s) \in Nat
    BY FS_Subset, FS_CardinalityType
<1>3. Cardinality(s) # 0
    BY <1>2, FS_EmptySet
<1>4. Cardinality(s \ {Chosen(s)}) = Cardinality(s) - 1
    BY <1>1, <1>2, FS_RemoveElement
<1> QED
    BY <1>1, <1>2, <1>3, <1>4

\* The fold's function up to subsets of n elements.
SumsUpTo(f, h, S, n) ==
    \A s \in SUBSET S : Cardinality(s) <= n =>
        h[s] = IF s = {} THEN 0 ELSE f[Chosen(s)] + h[s \ {Chosen(s)}]

LEMMA SumsExtend ==
    ASSUME NEW f, NEW S, IsFiniteSet(S), NEW n \in Nat, NEW h, SumsUpTo(f, h, S, n)
    PROVE  \E k : SumsUpTo(f, k, S, n + 1)
<1> DEFINE k == [s \in SUBSET S |->
                    IF Cardinality(s) = n + 1 THEN f[Chosen(s)] + h[s \ {Chosen(s)}] ELSE h[s]]
<1>1. ASSUME NEW s \in SUBSET S, Cardinality(s) <= n + 1
      PROVE  k[s] = IF s = {} THEN 0 ELSE f[Chosen(s)] + k[s \ {Chosen(s)}]
    <2>1. CASE s = {}
        <3>1. Cardinality(s) = 0
            BY <2>1, FS_EmptySet
        <3>2. k[s] = h[s]
            BY <3>1
        <3>3. h[s] = 0
            BY <2>1, <3>1 DEF SumsUpTo
        <3> QED
            BY <2>1, <3>2, <3>3
    <2>2. CASE s # {}
        <3> DEFINE r == s \ {Chosen(s)}
        <3>1. /\ r \in SUBSET S /\ Cardinality(s) \in Nat \ {0}
              /\ Cardinality(r) = Cardinality(s) - 1
            BY <2>2, ChosenStep
        <3> HIDE DEF r
        <3>2. k[r] = h[r]
            BY <1>1, <3>1
        <3>3. CASE Cardinality(s) = n + 1
            BY <2>2, <3>2, <3>3 DEF r
        <3>4. CASE Cardinality(s) # n + 1
            <4>1. Cardinality(s) <= n /\ k[s] = h[s]
                BY <1>1, <3>1, <3>4
            <4>2. h[s] = f[Chosen(s)] + h[r]
                BY <2>2, <4>1 DEF SumsUpTo, r
            <4> QED
                BY <2>2, <3>2, <4>1, <4>2 DEF r
        <3> QED
            BY <3>3, <3>4
    <2> QED
        BY <2>1, <2>2
<1> HIDE DEF k
<1> QED
    BY <1>1 DEF SumsUpTo

\* The recursion of the fold ends: there is such a function.
LEMMA SumsDefined ==
    ASSUME NEW f, NEW S, IsFiniteSet(S)
    PROVE  SumsUp(f, Sums(f, S), S)
<1> DEFINE bad == {n \in Nat : ~\E h : SumsUpTo(f, h, S, n)}
<1>1. bad = {}
    <2> SUFFICES ASSUME bad # {} PROVE FALSE
        OBVIOUS
    <2>1. PICK n \in bad : \A m \in bad : n <= m
        <3>1. bad \in SUBSET Nat
            OBVIOUS
        <3> HIDE DEF bad
        <3> QED
            BY <3>1, LeastNumber
    <2>2. n # 0
        <3>1. \A s \in SUBSET S : Cardinality(s) <= 0 => s = {}
            BY FS_Subset, FS_CardinalityType, FS_EmptySet
        <3>2. SumsUpTo(f, [s \in SUBSET S |-> 0], S, 0)
            BY <3>1 DEF SumsUpTo
        <3> QED
            BY <3>2
    <2>3. n - 1 \in Nat /\ n - 1 \notin bad
        BY <2>1, <2>2
    <2>4. \E h : SumsUpTo(f, h, S, n - 1)
        BY <2>3
    <2>5. \E k : SumsUpTo(f, k, S, (n - 1) + 1)
        BY <2>3, <2>4, SumsExtend
    <2> QED
        BY <2>5
<1>2. Cardinality(S) \in Nat /\ \A s \in SUBSET S : Cardinality(s) <= Cardinality(S)
    BY FS_Subset, FS_CardinalityType
<1>3. PICK h : SumsUpTo(f, h, S, Cardinality(S))
    BY <1>1, <1>2
<1>4. SumsUp(f, [s \in SUBSET S |-> h[s]], S)
    <2>1. \A s \in SUBSET S : h[s] = IF s = {} THEN 0 ELSE f[Chosen(s)] + h[s \ {Chosen(s)}]
        BY <1>2, <1>3 DEF SumsUpTo
    <2>2. \A s \in SUBSET S : s \ {Chosen(s)} \in SUBSET S
        OBVIOUS
    <2> QED
        BY <2>1, <2>2 DEF SumsUp
<1> QED
    BY <1>4 DEF Sums

LEMMA SumsStep ==
    ASSUME NEW f, NEW S, IsFiniteSet(S), NEW s \in SUBSET S
    PROVE  /\ s = {} => Sums(f, S)[s] = 0
           /\ s # {} => Sums(f, S)[s] = f[Chosen(s)] + Sums(f, S)[s \ {Chosen(s)}]
<1> DEFINE h == Sums(f, S)
           step(t) == IF t = {} THEN 0 ELSE f[Chosen(t)] + h[t \ {Chosen(t)}]
<1>1. h = [t \in SUBSET S |-> step(t)]
    <2>1. SumsUp(f, h, S)
        BY SumsDefined
    <2> HIDE DEF h
    <2> QED
        BY <2>1 DEF SumsUp
<1>2. h[s] = step(s)
    <2> HIDE DEF h, step
    <2> QED
        BY <1>1
<1> QED
    BY <1>2

-------------------------------------------------------------------------------
(* What sums are and how they compare. *)

\* A sum of integers is an integer, and one of natural numbers a natural number.
LEMMA SumsTyped ==
    ASSUME NEW S, IsFiniteSet(S), NEW f \in [S -> Int], NEW s \in SUBSET S
    PROVE  /\ Sums(f, S)[s] \in Int
           /\ (\A x \in S : f[x] >= 0) => Sums(f, S)[s] >= 0
<1> DEFINE h == Sums(f, S)
           Good(t) == h[t] \in Int /\ ((\A x \in S : f[x] >= 0) => h[t] >= 0)
           bad == {t \in SUBSET S : ~Good(t)}
<1>1. ASSUME NEW t \in bad, \A u \in bad : Cardinality(t) <= Cardinality(u)
      PROVE  FALSE
    <2>1. t # {}
        <3>1. t = {} => h[t] = 0
            BY SumsStep
        <3> HIDE DEF h
        <3> QED
            BY <3>1
    <2> DEFINE r == t \ {Chosen(t)}
    <2>2. r \in SUBSET S /\ r \notin bad /\ Chosen(t) \in S
        <3>1. /\ r \in SUBSET S /\ Chosen(t) \in S
              /\ Cardinality(t) \in Nat \ {0} /\ Cardinality(r) = Cardinality(t) - 1
            BY <2>1, ChosenStep
        <3> HIDE DEF r
        <3> QED
            BY <1>1, <3>1
    <2>3. h[t] = f[Chosen(t)] + h[r]
        BY <2>1, SumsStep
    <2> HIDE DEF r, h
    <2> QED
        BY <2>2, <2>3
<1>2. bad = {}
    <2>1. bad \in SUBSET (SUBSET S)
        OBVIOUS
    <2> HIDE DEF bad
    <2> QED
        BY <1>1, <2>1, LeastSubset
<1> QED
    BY <1>2

\* If no term but that of x is larger in f, what f has more comes from x.
LEMMA SumsCompare ==
    ASSUME NEW S, IsFiniteSet(S), NEW f \in [S -> Int], NEW g \in [S -> Int],
           NEW x, \A y \in S \ {x} : f[y] <= g[y], NEW s \in SUBSET S
    PROVE  IF x \in s THEN Sums(f, S)[s] - f[x] <= Sums(g, S)[s] - g[x]
           ELSE Sums(f, S)[s] <= Sums(g, S)[s]
<1> DEFINE F == Sums(f, S)
           G == Sums(g, S)
           Good(t) == IF x \in t THEN F[t] - f[x] <= G[t] - g[x] ELSE F[t] <= G[t]
           bad == {t \in SUBSET S : ~Good(t)}
<1>0. \A t \in SUBSET S : F[t] \in Int /\ G[t] \in Int
    BY SumsTyped
<1>1. ASSUME NEW t \in bad, \A u \in bad : Cardinality(t) <= Cardinality(u)
      PROVE  FALSE
    <2>1. t # {}
        <3>1. t = {} => F[t] = 0 /\ G[t] = 0
            BY SumsStep
        <3> HIDE DEF F, G
        <3> QED
            BY <3>1
    <2> DEFINE y == Chosen(t)
               r == t \ {y}
    <2>2. r \in SUBSET S /\ r \notin bad /\ y \in t /\ y \in S
        <3>1. /\ r \in SUBSET S /\ y \in t
              /\ Cardinality(t) \in Nat \ {0} /\ Cardinality(r) = Cardinality(t) - 1
            BY <2>1, ChosenStep
        <3> HIDE DEF r
        <3> QED
            BY <1>1, <3>1
    <2>3. F[t] = f[y] + F[r] /\ G[t] = g[y] + G[r]
        <3>0. t \in SUBSET S
            OBVIOUS
        <3> HIDE DEF bad
        <3>1. Sums(f, S)[t] = f[y] + Sums(f, S)[r]
            BY <2>1, <3>0, SumsStep
        <3>2. Sums(g, S)[t] = g[y] + Sums(g, S)[r]
            BY <2>1, <3>0, SumsStep
        <3> QED
            BY <3>1, <3>2
    <2>4. F[r] \in Int /\ G[r] \in Int /\ Good(r)
        BY <1>0, <2>2
    <2>5. (x \in r <=> x \in t /\ x # y) /\ (x # y => f[y] <= g[y])
        BY <2>2
    <2>6. f[y] \in Int /\ g[y] \in Int /\ (x \in S => f[x] \in Int /\ g[x] \in Int)
        BY <2>2
    <2> HIDE DEF r, y, F, G
    <2>7. Good(t)
        <3>1. CASE x = y
            BY <2>2, <2>3, <2>4, <2>5, <2>6, <3>1
        <3>2. CASE x # y
            BY <2>2, <2>3, <2>4, <2>5, <2>6, <3>2
        <3> QED
            BY <3>1, <3>2
    <2> QED
        BY <2>7
<1>2. bad = {}
    <2>1. bad \in SUBSET (SUBSET S)
        OBVIOUS
    <2> HIDE DEF bad
    <2> QED
        BY <1>1, <2>1, LeastSubset
<1> QED
    BY <1>2

\* The sum over a finite set of integers is an integer.
LEMMA SumTyped ==
    ASSUME NEW S, IsFiniteSet(S), NEW f \in [S -> Int]
    PROVE  Sum(f, S) \in Int /\ ((\A x \in S : f[x] >= 0) => Sum(f, S) >= 0)
BY SumsTyped, SumIsLast

\* A sum that grows at one place only grows by no more than there.
LEMMA SumGrows ==
    ASSUME NEW S, IsFiniteSet(S), NEW f \in [S -> Int], NEW g \in [S -> Int],
           NEW x \in S, \A y \in S \ {x} : g[y] <= f[y]
    PROVE  Sum(g, S) <= Sum(f, S) + (g[x] - f[x])
<1>1. Sum(g, S) - g[x] <= Sum(f, S) - f[x]
    BY SumsCompare, SumIsLast
<1>2. Sum(f, S) \in Int /\ Sum(g, S) \in Int /\ f[x] \in Int /\ g[x] \in Int
    BY SumTyped
<1> QED
    BY <1>1, <1>2

\* A sum that changes at one place changes by as much as there.
LEMMA SumChanges ==
    ASSUME NEW S, IsFiniteSet(S), NEW f \in [S -> Int], NEW g \in [S -> Int],
           NEW x \in S, \A y \in S \ {x} : g[y] = f[y]
    PROVE  Sum(g, S) = Sum(f, S) + (g[x] - f[x])
<1>1. /\ \A y \in S \ {x} : g[y] <= f[y] /\ f[y] <= g[y]
      /\ Sum(f, S) \in Int /\ Sum(g, S) \in Int /\ f[x] \in Int /\ g[x] \in Int
    BY SumTyped
<1>2. Sum(g, S) <= Sum(f, S) + (g[x] - f[x])
    BY <1>1, SumGrows
<1>3. Sum(f, S) <= Sum(g, S) + (f[x] - g[x])
    BY <1>1, SumGrows
<1> QED
    BY <1>1, <1>2, <1>3

\* A sum of zeros.
LEMMA SumOfZeros ==
    ASSUME NEW S, IsFiniteSet(S), NEW f \in [S -> Int], \A x \in S : f[x] = 0
    PROVE  Sum(f, S) = 0
<1> DEFINE h == Sums(f, S)
           bad == {t \in SUBSET S : h[t] # 0}
<1>1. ASSUME NEW t \in bad, \A u \in bad : Cardinality(t) <= Cardinality(u)
      PROVE  FALSE
    <2>1. t # {}
        <3>1. t = {} => h[t] = 0
            BY SumsStep
        <3> HIDE DEF h
        <3> QED
            BY <3>1
    <2> DEFINE r == t \ {Chosen(t)}
    <2>2. r \in SUBSET S /\ r \notin bad /\ Chosen(t) \in S
        <3>1. /\ r \in SUBSET S /\ Chosen(t) \in S
              /\ Cardinality(t) \in Nat \ {0} /\ Cardinality(r) = Cardinality(t) - 1
            BY <2>1, ChosenStep
        <3> HIDE DEF r
        <3> QED
            BY <1>1, <3>1
    <2>3. h[t] = f[Chosen(t)] + h[r]
        BY <2>1, SumsStep
    <2> HIDE DEF r, h
    <2> QED
        BY <2>2, <2>3
<1>2. bad = {}
    <2>1. bad \in SUBSET (SUBSET S)
        OBVIOUS
    <2> HIDE DEF bad
    <2> QED
        BY <1>1, <2>1, LeastSubset
<1> QED
    BY <1>2, SumIsLast
\* A sum depends only on the terms, not on the function or the set they come from.
LEMMA SumsAgree ==
    ASSUME NEW S, IsFiniteSet(S), NEW T, IsFiniteSet(T), NEW f, NEW g,
           NEW s \in SUBSET (S \cap T), \A x \in s : f[x] = g[x]
    PROVE  Sums(f, S)[s] = Sums(g, T)[s]
<1> DEFINE F == Sums(f, S)
           G == Sums(g, T)
           bad == {t \in SUBSET s : F[t] # G[t]}
<1>0. IsFiniteSet(s)
    BY FS_Subset
<1>1. ASSUME NEW t \in bad, \A u \in bad : Cardinality(t) <= Cardinality(u)
      PROVE  FALSE
    <2> DEFINE r == t \ {Chosen(t)}
    <2>0. t \in SUBSET s /\ t \in SUBSET S /\ t \in SUBSET T
        OBVIOUS
    <2>1. t # {}
        <3>1. t = {} => F[t] = 0 /\ G[t] = 0
            BY <2>0, SumsStep
        <3> HIDE DEF F, G
        <3> QED
            BY <3>1
    <2>2. r \notin bad /\ r \in SUBSET s /\ Chosen(t) \in s
        <3>1. /\ r \in SUBSET s /\ Chosen(t) \in t
              /\ Cardinality(t) \in Nat \ {0} /\ Cardinality(r) = Cardinality(t) - 1
            BY <1>0, <2>0, <2>1, ChosenStep
        <3> HIDE DEF r
        <3> QED
            BY <1>1, <2>0, <3>1
    <2>3. F[t] = f[Chosen(t)] + F[r]
        BY <2>0, <2>1, SumsStep
    <2>4. G[t] = g[Chosen(t)] + G[r]
        <3> HIDE DEF bad
        <3>0. t \in SUBSET T
            BY <2>0
        <3>1. Sums(g, T)[t] = g[Chosen(t)] + Sums(g, T)[t \ {Chosen(t)}]
            BY <2>1, <3>0, SumsStep
        <3> QED
            BY <3>1
    <2> HIDE DEF r, F, G
    <2> QED
        BY <2>2, <2>3, <2>4
<1>2. bad = {}
    <2>1. bad \in SUBSET (SUBSET s)
        OBVIOUS
    <2> HIDE DEF bad
    <2> QED
        BY <1>0, <1>1, <2>1, LeastSubset
<1> QED
    BY <1>2

\* The terms may be added in any order: any one of them can be taken out first.
LEMMA SumsSplit ==
    ASSUME NEW S, IsFiniteSet(S), NEW f \in [S -> Int], NEW s \in SUBSET S, NEW x \in s
    PROVE  Sums(f, S)[s] = f[x] + Sums(f, S)[s \ {x}]
<1> DEFINE F == Sums(f, S)
           bad == {t \in SUBSET S : \E y \in t : F[t] # f[y] + F[t \ {y}]}
<1>0. \A t \in SUBSET S : F[t] \in Int
    BY SumsTyped
<1>1. ASSUME NEW t \in bad, \A u \in bad : Cardinality(t) <= Cardinality(u)
      PROVE  FALSE
    <2>0. t \in SUBSET S
        OBVIOUS
    <2>1. PICK y \in t : F[t] # f[y] + F[t \ {y}]
        OBVIOUS
    <2> DEFINE c == Chosen(t)
               r == t \ {c}
               q == t \ {y}
               p == r \ {y}
    <2>2. t # {}
        BY <2>1
    <2>3. F[t] = f[c] + F[r]
        <3> HIDE DEF bad
        <3>1. Sums(f, S)[t] = f[Chosen(t)] + Sums(f, S)[t \ {Chosen(t)}]
            BY <2>0, <2>2, SumsStep
        <3> QED
            BY <3>1
    <2>4. /\ r \in SUBSET S /\ c \in t
          /\ Cardinality(t) \in Nat \ {0} /\ Cardinality(r) = Cardinality(t) - 1
        BY <2>0, <2>2, ChosenStep
    <2>5. IsFiniteSet(t)
        BY <2>0, FS_Subset
    <2>6. q \in SUBSET S /\ Cardinality(q) = Cardinality(t) - 1
        BY <2>0, <2>1, <2>5, FS_RemoveElement
    <2>7. c # y
        BY <2>1, <2>3
    <2>8. r \notin bad /\ q \notin bad
        <3> HIDE DEF r, q, bad
        <3> QED
            BY <1>1, <2>4, <2>6
    <2>9. F[r] = f[y] + F[p]
        <3>1. y \in r
            BY <2>1, <2>7
        <3> HIDE DEF F, r
        <3> QED
            BY <2>4, <2>8, <3>1
    <2>10. F[q] = f[c] + F[p]
        <3>1. c \in q /\ q \ {c} = p
            BY <2>4, <2>7
        <3> HIDE DEF F, q, p, c
        <3> QED
            BY <2>6, <2>8, <3>1
    <2>11. F[p] \in Int /\ f[c] \in Int /\ f[y] \in Int
        BY <1>0, <2>0, <2>1, <2>4
    <2>12. F[t] = f[c] + (f[y] + F[p]) /\ F[t] # f[y] + (f[c] + F[p])
        <3> HIDE DEF F, q, p, r, c
        <3>1. F[t] # f[y] + F[q]
            BY <2>1 DEF q
        <3> QED
            BY <2>3, <2>9, <2>10, <3>1
    <2> HIDE DEF F, c, p
    <2> QED
        BY <2>11, <2>12
<1>2. bad = {}
    <2>1. bad \in SUBSET (SUBSET S)
        OBVIOUS
    <2> HIDE DEF bad
    <2> QED
        BY <1>1, <2>1, LeastSubset
<1> QED
    BY <1>2

\* A sum of equal terms.
LEMMA SumSame ==
    ASSUME NEW S, IsFiniteSet(S), NEW f, NEW g, \A x \in S : f[x] = g[x]
    PROVE  Sum(f, S) = Sum(g, S)
<1>1. S \in SUBSET (S \cap S)
    OBVIOUS
<1>2. Sums(f, S)[S] = Sums(g, S)[S]
    BY <1>1, SumsAgree
<1> QED
    BY <1>2, SumIsLast

\* One more term, whatever the functions outside the set.
LEMMA SumAdds ==
    ASSUME NEW S, IsFiniteSet(S), NEW f, \A y \in S : f[y] \in Int,
           NEW x, x \notin S, f[x] \in Int
    PROVE  Sum(f, S \cup {x}) = Sum(f, S) + f[x]
<1> DEFINE T == S \cup {x}
           g == [y \in T |-> f[y]]
<1>1. IsFiniteSet(T) /\ x \in T /\ T \ {x} = S /\ S \in SUBSET T /\ T \in SUBSET T
    BY FS_AddElement
<1>2. g \in [T -> Int] /\ g[x] = f[x] /\ \A y \in T : f[y] = g[y]
    OBVIOUS
<1> HIDE DEF T, g
<1>3. Sums(g, T)[T] = g[x] + Sums(g, T)[T \ {x}]
    BY <1>1, <1>2, SumsSplit
<1>4. Sums(g, T)[S] = Sums(f, S)[S]
    BY <1>1, <1>2, SumsAgree
<1>5. Sum(f, T) = Sum(g, T) /\ Sum(g, T) = Sums(g, T)[T] /\ Sum(f, S) = Sums(f, S)[S]
    BY <1>1, <1>2, SumSame, SumIsLast
<1>6. Sums(g, T)[S] \in Int
    BY <1>1, <1>2, SumsTyped
<1>7. Sum(f, T) = f[x] + Sum(f, S) /\ Sum(f, S) \in Int
    BY <1>1, <1>2, <1>3, <1>4, <1>5, <1>6
<1>8. Sum(f, T) = Sum(f, S) + f[x]
    BY <1>7
<1> QED
    BY <1>8 DEF T

\* The sum of no term.
LEMMA SumEmpty == ASSUME NEW f PROVE Sum(f, {}) = 0
BY SumsStep, SumIsLast, FS_EmptySet

\* A sum of terms of at most b.
LEMMA SumBounded ==
    ASSUME NEW S, IsFiniteSet(S), NEW f \in [S -> Int], NEW b \in Nat, \A x \in S : f[x] <= b
    PROVE  Sum(f, S) <= b * Cardinality(S)
<1> DEFINE F == Sums(f, S)
           bad == {t \in SUBSET S : ~(F[t] <= b * Cardinality(t))}
<1>0. \A t \in SUBSET S : F[t] \in Int
    BY SumsTyped
<1>1. ASSUME NEW t \in bad, \A u \in bad : Cardinality(t) <= Cardinality(u)
      PROVE  FALSE
    <2> DEFINE r == t \ {Chosen(t)}
    <2>1. t # {}
        <3>1. t = {} => F[t] = 0
            BY SumsStep
        <3>2. t = {} => Cardinality(t) = 0
            BY FS_EmptySet, Zenon
        <3> HIDE DEF F
        <3> QED
            BY <3>1, <3>2
    <2>2. /\ r \in SUBSET S /\ r \notin bad /\ Chosen(t) \in S
          /\ Cardinality(t) \in Nat \ {0} /\ Cardinality(r) = Cardinality(t) - 1
        <3>1. /\ r \in SUBSET S /\ Chosen(t) \in S
              /\ Cardinality(t) \in Nat \ {0} /\ Cardinality(r) = Cardinality(t) - 1
            BY <2>1, ChosenStep
        <3> HIDE DEF r
        <3> QED
            BY <1>1, <3>1
    <2>3. F[t] = f[Chosen(t)] + F[r]
        BY <2>1, SumsStep
    <2>4. F[r] \in Int /\ F[r] <= b * Cardinality(r) /\ f[Chosen(t)] \in Int /\ f[Chosen(t)] <= b
        BY <1>0, <2>2
    <2>5. b * Cardinality(r) + b = b * Cardinality(t)
        <3> HIDE DEF r
        <3> QED
            BY <2>2
    <2>6. ~(F[t] <= b * Cardinality(t)) /\ b * Cardinality(r) \in Int
        BY <2>2
    <2> HIDE DEF r, F
    <2> QED
        BY <2>3, <2>4, <2>5, <2>6
<1>2. bad = {}
    <2>1. bad \in SUBSET (SUBSET S)
        OBVIOUS
    <2> HIDE DEF bad
    <2> QED
        BY <1>1, <2>1, LeastSubset
<1> QED
    BY <1>2, SumIsLast
===============================================================================
