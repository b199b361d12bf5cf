----------------------------- MODULE RulesProofs -----------------------------
(***************************************************************************)
(* Proofs about the rules: for every set of well-formed inputs.            *)
(***************************************************************************)
EXTENDS Rules, FiniteSetTheorems, SequenceTheorems, WellFoundedInduction, TLAPS

-----------------------------------------------------------------------------
(* Induction, over sets in place of operators.                             *)

\* What holds of 0 and with a number of the next one holds of all.
LEMMA NatInd ==
  ASSUME NEW S, 0 \in S, \A n \in Nat : n \in S => n + 1 \in S
  PROVE  \A n \in Nat : n \in S
<1> DEFINE T == {n \in Nat : n \notin S}
           R == OpToRel(<, Nat)
<1> SUFFICES ASSUME T # {} PROVE FALSE
  OBVIOUS
<1>1. IsWellFoundedOn(R, Nat)
  BY NatLessThanWellFounded, Zenon
<1>2. T \subseteq Nat
  OBVIOUS
<1> HIDE DEF T, R
<1>3. PICK x \in T : \A y \in T : ~(<<y, x>> \in R)
  BY <1>1, <1>2, WFMin
<1>4. \A y \in T : ~(y < x)
  BY <1>2, <1>3 DEF R, OpToRel
<1>5. x \in Nat /\ x \notin S /\ x # 0
  BY DEF T
<1>6. x - 1 \in T
  <2>1. x - 1 \in Nat /\ (x - 1) + 1 = x
    BY <1>5
  <2> QED BY <1>5, <2>1 DEF T
<1> QED BY <1>4, <1>5, <1>6

\* The same up to a bound.
LEMMA UpTo ==
  ASSUME NEW n \in Nat, NEW S, 0 \in S, \A i \in 1..n : i - 1 \in S => i \in S
  PROVE  \A i \in 0..n : i \in S
<1> DEFINE T == {i \in Nat : i <= n => i \in S}
<1>1. 0 \in T
  OBVIOUS
<1>2. ASSUME NEW i \in Nat, i \in T PROVE i + 1 \in T
  <2>1. i + 1 \in Nat /\ (i + 1) - 1 = i
    OBVIOUS
  <2>2. CASE i + 1 <= n
    BY <1>2, <2>1, <2>2
  <2>3. CASE ~(i + 1 <= n)
    BY <2>1, <2>3
  <2> QED BY <2>2, <2>3
<1> HIDE DEF T
<1>3. \A i \in Nat : i \in T
  BY <1>1, <1>2, NatInd
<1> QED BY <1>3 DEF T

\* Sets of numbers have a least and, if bounded, a largest one.
LEMMA MinIs ==
  ASSUME NEW S \in SUBSET Nat, S # {}
  PROVE  Min(S) \in S /\ \A n \in S : Min(S) <= n
<1> DEFINE T == {n \in Nat : \A m \in S : n <= m}
<1>1. \E n \in S : \A m \in S : n <= m
  <2> SUFFICES ASSUME ~ \E n \in S : \A m \in S : n <= m PROVE FALSE
    OBVIOUS
  <2>1. 0 \in T
    OBVIOUS
  <2>2. ASSUME NEW n \in Nat, n \in T PROVE n + 1 \in T
    BY <2>2
  <2> HIDE DEF T
  <2>3. \A n \in Nat : n \in T
    BY <2>1, <2>2, NatInd
  <2>4. PICK n \in S : TRUE
    OBVIOUS
  <2>5. n + 1 \in T
    BY <2>3
  <2> QED BY <2>5 DEF T
<1> QED BY <1>1 DEF Min

LEMMA MaxIs ==
  ASSUME NEW S \in SUBSET Int, NEW n \in S, \A m \in S : m <= n
  PROVE  Max(S) = n
<1>1. \E k \in S : \A m \in S : k >= m
  OBVIOUS
<1>2. Max(S) \in S /\ \A m \in S : Max(S) >= m
  BY <1>1 DEF Max
<1>3. Max(S) \in Int /\ n \in Int
  BY <1>2
<1>4. n <= Max(S) /\ Max(S) <= n
  BY <1>2, <1>3
<1> QED BY <1>3, <1>4

\* The table of a fold over 1..m: for each set of places, what it comes to.
FoldTable(it, m, X, base, step) ==
  /\ it \in [SUBSET (1..m) -> X] /\ it[{}] = base
  /\ \A s \in SUBSET (1..m) : s # {} =>
       Max(s) \in 1..m /\ it[s \ {Max(s)}] \in X /\ it[s] = step[Max(s)][it[s \ {Max(s)}]]

LEMMA FoldExists ==
  ASSUME NEW n \in Nat, NEW X, NEW base \in X, NEW step \in [1..n -> [X -> X]]
  PROVE  \E it \in [SUBSET (1..n) -> X] :
           FoldTable(it, n, X, base, step)
<1> DEFINE S == {m \in Nat : \E it : FoldTable(it, m, X, base, step)}
<1>1. 0 \in S
  <2> DEFINE it == [s \in SUBSET (1..0) |-> base]
  <2>1. \A s \in SUBSET (1..0) : s = {}
    OBVIOUS
  <2>2. FoldTable(it, 0, X, base, step)
    BY <2>1 DEF FoldTable
  <2> QED BY <2>2
<1>2. ASSUME NEW m \in 1..n, m - 1 \in S PROVE m \in S
  <2>1. PICK f : FoldTable(f, m - 1, X, base, step)
    BY <1>2
  <2> DEFINE it == [s \in SUBSET (1..m) |->
                      IF m \in s THEN step[m][f[s \ {m}]] ELSE f[s]]
  <2>2. ASSUME NEW s \in SUBSET (1..m)
        PROVE  /\ it[s] \in X
               /\ s # {} => /\ Max(s) \in 1..m /\ it[s \ {Max(s)}] \in X
                            /\ it[s] = step[Max(s)][it[s \ {Max(s)}]]
    <3>1. CASE m \in s
      <4>1. Max(s) = m
        BY <3>1, MaxIs
      <4>2. s \ {m} \in SUBSET (1..(m - 1))
        OBVIOUS
      <4>3. it[s \ {m}] = f[s \ {m}] /\ f[s \ {m}] \in X
        BY <2>1, <4>2 DEF FoldTable
      <4> QED BY <3>1, <4>1, <4>3
    <3>2. CASE m \notin s
      <4>1. s \in SUBSET (1..(m - 1))
        BY <3>2
      <4>2. it[s] = f[s] /\ f[s] \in X
        BY <2>1, <3>2, <4>1 DEF FoldTable
      <4>3. it[s \ {Max(s)}] = f[s \ {Max(s)}]
        BY <3>2
      <4> QED BY <2>1, <4>1, <4>2, <4>3 DEF FoldTable
    <3> QED BY <3>1, <3>2
  <2>3. it[{}] = base
    <3>1. {} \in SUBSET (1..m) /\ m \notin {}
      OBVIOUS
    <3>2. f[{}] = base
      BY <2>1 DEF FoldTable
    <3> QED BY <3>1, <3>2
  <2>4. it \in [SUBSET (1..m) -> X]
    BY <2>2
  <2> HIDE DEF it
  <2>5. FoldTable(it, m, X, base, step)
    BY <2>2, <2>3, <2>4 DEF FoldTable
  <2> QED BY <2>5
<1> HIDE DEF S
<1>3. n \in S
  <2>1. \A i \in 0..n : i \in S
    BY <1>1, <1>2, UpTo
  <2> QED BY <2>1
<1>4. PICK it : FoldTable(it, n, X, base, step)
  BY <1>3 DEF S
<1> QED BY <1>4 DEF FoldTable

LEMMA FoldStep ==
  ASSUME NEW n \in Nat, NEW i \in 1..n
  PROVE  /\ 1..i \in SUBSET (1..n) /\ 1..i # {}
         /\ Max(1..i) = i /\ (1..i) \ {i} = 1..(i - 1)
<1>1. i \in 1..i /\ 1..i \in SUBSET Int /\ \A m \in 1..i : m <= i
  OBVIOUS
<1>2. Max(1..i) = i
  BY <1>1, MaxIs
<1> QED BY <1>1, <1>2
\* The states of a fold, after each place from the left.
FoldRun(run, it, n, X, base, step) ==
  /\ run[0] = base /\ run[n] = it[1..n]
  /\ \A i \in 0..n : run[i] \in X
  /\ \A i \in 1..n : run[i - 1] \in X /\ run[i] = step[i][run[i - 1]]

LEMMA FoldRuns ==
  ASSUME NEW n \in Nat, NEW X, NEW base \in X, NEW step \in [1..n -> [X -> X]], NEW it,
         it[{}] = base,
         \A s \in SUBSET (1..n) :
           s # {} /\ it[s \ {Max(s)}] \in X => it[s] = step[Max(s)][it[s \ {Max(s)}]]
  PROVE  \E run : FoldRun(run, it, n, X, base, step)
<1> DEFINE run == [i \in 0..n |-> it[1..i]]
           S == {i \in 0..n : run[i] \in X}
<1>1. run[0] = base
  <2>1. 1..0 = {}
    OBVIOUS
  <2> QED BY <2>1
<1>2. \A i \in 1..n : run[i - 1] \in X => run[i] = step[i][run[i - 1]]
  <2> SUFFICES ASSUME NEW i \in 1..n, run[i - 1] \in X PROVE run[i] = step[i][run[i - 1]]
    OBVIOUS
  <2>1. 1..i \in SUBSET (1..n) /\ 1..i # {} /\ Max(1..i) = i /\ (1..i) \ {i} = 1..(i - 1)
    BY FoldStep
  <2>2. run[i] = it[1..i] /\ run[i - 1] = it[1..(i - 1)]
    OBVIOUS
  <2> HIDE DEF run
  <2>3. it[(1..i) \ {Max(1..i)}] \in X =>
          it[1..i] = step[Max(1..i)][it[(1..i) \ {Max(1..i)}]]
    BY <2>1
  <2> QED BY <2>1, <2>2, <2>3
<1>3. run[n] = it[1..n]
  OBVIOUS
<1> HIDE DEF run
<1>4. 0 \in S
  BY <1>1
<1>5. ASSUME NEW i \in 1..n, i - 1 \in S PROVE i \in S
  BY <1>2, <1>5
<1> HIDE DEF S
<1>6. \A i \in 0..n : i \in S
  BY <1>4, <1>5, UpTo
<1>7. \A i \in 0..n : run[i] \in X
  BY <1>6 DEF S
<1>8. \A i \in 1..n : run[i - 1] \in X /\ run[i] = step[i][run[i - 1]]
  BY <1>2, <1>7
<1>9. FoldRun(run, it, n, X, base, step)
  BY <1>1, <1>3, <1>7, <1>8 DEF FoldRun
<1> QED BY <1>9
-----------------------------------------------------------------------------
(* Sums over finite sets.                                                  *)

Pick(S) == CHOOSE x \in S : TRUE

\* Induction over the subsets of a finite set.
LEMMA FinInd ==
  ASSUME NEW S, IsFiniteSet(S), NEW P, {} \in P,
         \A U \in SUBSET S : U # {} /\ (\A x \in U : U \ {x} \in P) => U \in P
  PROVE  \A U \in SUBSET S : U \in P
<1> DEFINE N == {n \in Nat : \A U \in SUBSET S : Cardinality(U) = n => U \in P}
<1>1. \A U \in SUBSET S : IsFiniteSet(U) /\ Cardinality(U) \in Nat
  BY FS_Subset, FS_CardinalityType
<1>2. 0 \in N
  <2>1. \A U \in SUBSET S : Cardinality(U) = 0 => U = {}
    BY <1>1, FS_EmptySet
  <2> QED BY <2>1
<1>3. ASSUME NEW n \in Nat, n \in N PROVE n + 1 \in N
  <2> SUFFICES ASSUME NEW U \in SUBSET S, Cardinality(U) = n + 1 PROVE U \in P
    OBVIOUS
  <2>1. U # {}
    <3>1. n + 1 # 0
      OBVIOUS
    <3> QED BY <3>1, FS_EmptySet
  <2>2. ASSUME NEW x \in U PROVE U \ {x} \in P
    <3>1. Cardinality(U \ {x}) = Cardinality(U) - 1
      BY <1>1, FS_RemoveElement
    <3>2. Cardinality(U \ {x}) = n
      BY <3>1
    <3>3. U \ {x} \in SUBSET S
      OBVIOUS
    <3> QED BY <1>3, <3>2, <3>3
  <2> QED BY <2>1, <2>2
<1> HIDE DEF N
<1>4. \A n \in Nat : n \in N
  BY <1>2, <1>3, NatInd
<1> QED BY <1>1, <1>4 DEF N

\* The table of a sum: for each part of the set, what it comes to.
SumTable(g, f, S) ==
  g = [s \in SUBSET S |-> IF s = {} THEN 0 ELSE f[Pick(s)] + g[s \ {Pick(s)}]]

LEMMA SumExists ==
  ASSUME NEW S, IsFiniteSet(S), NEW f, \A x \in S : f[x] \in Int
  PROVE  \E g : SumTable(g, f, S) /\ \A s \in SUBSET S : g[s] \in Int
<1> DEFINE Upto(g, n) ==
             \A s \in SUBSET S : Cardinality(s) <= n =>
               g[s] = IF s = {} THEN 0 ELSE f[Pick(s)] + g[s \ {Pick(s)}]
           N == {n \in Nat : \E g \in [SUBSET S -> Int] : Upto(g, n)}
<1>1. \A s \in SUBSET S : IsFiniteSet(s) /\ Cardinality(s) \in Nat
  BY FS_Subset, FS_CardinalityType
<1>2. ASSUME NEW s \in SUBSET S, s # {}
      PROVE  /\ Pick(s) \in s /\ f[Pick(s)] \in Int
             /\ s \ {Pick(s)} \in SUBSET S /\ Cardinality(s \ {Pick(s)}) = Cardinality(s) - 1
  <2>1. Pick(s) \in s
    BY <1>2 DEF Pick
  <2> QED BY <1>1, <2>1, FS_RemoveElement
<1>3. 0 \in N
  <2> DEFINE g == [s \in SUBSET S |-> 0]
  <2>1. \A s \in SUBSET S : Cardinality(s) <= 0 => s = {}
    BY <1>1, FS_EmptySet
  <2>2. Upto(g, 0)
    BY <2>1
  <2>3. g \in [SUBSET S -> Int]
    OBVIOUS
  <2> HIDE DEF g, Upto
  <2> QED BY <2>2, <2>3
<1>4. ASSUME NEW n \in Nat, n \in N PROVE n + 1 \in N
  <2>1. PICK g \in [SUBSET S -> Int] : Upto(g, n)
    BY <1>4
  <2> DEFINE h == [s \in SUBSET S |->
                     IF Cardinality(s) = n + 1 THEN f[Pick(s)] + g[s \ {Pick(s)}] ELSE g[s]]
  <2>2. \A s \in SUBSET S : Cardinality(s) = n + 1 => s # {}
    <3>1. n + 1 # 0
      OBVIOUS
    <3> QED BY <3>1, FS_EmptySet
  <2>3. ASSUME NEW s \in SUBSET S
        PROVE  /\ h[s] \in Int
               /\ Cardinality(s) <= n + 1 =>
                    h[s] = IF s = {} THEN 0 ELSE f[Pick(s)] + h[s \ {Pick(s)}]
    <3>1. CASE Cardinality(s) = n + 1
      <4>1. s # {}
        BY <2>2, <3>1
      <4>2. h[s \ {Pick(s)}] = g[s \ {Pick(s)}]
        BY <1>2, <3>1, <4>1
      <4>3. h[s] = f[Pick(s)] + g[s \ {Pick(s)}]
        BY <3>1
      <4>4. f[Pick(s)] \in Int /\ g[s \ {Pick(s)}] \in Int
        BY <1>2, <4>1
      <4> HIDE DEF h
      <4> QED BY <4>1, <4>2, <4>3, <4>4
    <3>2. CASE Cardinality(s) # n + 1
      <4>1. h[s] = g[s] /\ g[s] \in Int
        BY <3>2
      <4>2. CASE s = {}
        <5>1. g[s] = 0
          BY <2>1, <4>2, FS_EmptySet
        <5> QED BY <4>1, <4>2, <5>1
      <4>3. CASE s # {}
        <5>1. Cardinality(s \ {Pick(s)}) = Cardinality(s) - 1 /\ s \ {Pick(s)} \in SUBSET S
          BY <1>2, <4>3
        <5>2. Cardinality(s) <= n + 1 => Cardinality(s) <= n /\ Cardinality(s \ {Pick(s)}) # n + 1
          BY <1>1, <3>2, <5>1
        <5>3. Cardinality(s) <= n + 1 => h[s \ {Pick(s)}] = g[s \ {Pick(s)}]
          BY <5>1, <5>2
        <5>4. Cardinality(s) <= n => g[s] = f[Pick(s)] + g[s \ {Pick(s)}]
          BY <2>1, <4>3
        <5> HIDE DEF h, Upto
        <5> QED BY <4>1, <4>3, <5>2, <5>3, <5>4
      <4> QED BY <4>2, <4>3
    <3> QED BY <3>1, <3>2
  <2>4. h \in [SUBSET S -> Int] /\ Upto(h, n + 1)
    BY <2>3
  <2> HIDE DEF h, Upto
  <2> QED BY <2>4
<1> HIDE DEF N
<1>5. \A n \in Nat : n \in N
  BY <1>3, <1>4, NatInd
<1>6. PICK g \in [SUBSET S -> Int] : Upto(g, Cardinality(S))
  <2>1. Cardinality(S) \in Nat
    BY FS_CardinalityType
  <2> QED BY <1>5, <2>1 DEF N
<1>7. \A s \in SUBSET S : Cardinality(s) <= Cardinality(S)
  BY FS_Subset
<1>8. SumTable(g, f, S)
  BY <1>6, <1>7 DEF SumTable
<1> QED BY <1>8

LEMMA SumUnique ==
  ASSUME NEW S, NEW f, NEW g, SumTable(g, f, S), NEW R, NEW e, NEW h, SumTable(h, e, R),
         NEW T, IsFiniteSet(T), T \subseteq S, T \subseteq R, \A x \in T : f[x] = e[x]
  PROVE  g[T] = h[T]
<1> DEFINE P == {U \in SUBSET T : g[U] = h[U]}
<1>1. \A U \in SUBSET T :
        /\ g[U] = IF U = {} THEN 0 ELSE f[Pick(U)] + g[U \ {Pick(U)}]
        /\ h[U] = IF U = {} THEN 0 ELSE e[Pick(U)] + h[U \ {Pick(U)}]
  <2>1. \A U \in SUBSET T : U \in SUBSET S /\ U \in SUBSET R
    OBVIOUS
  <2> QED BY <2>1 DEF SumTable
<1>2. {} \in P
  BY <1>1
<1>3. ASSUME NEW U \in SUBSET T, U # {}, \A x \in U : U \ {x} \in P PROVE U \in P
  <2>1. Pick(U) \in U
    BY <1>3 DEF Pick
  <2>2. g[U \ {Pick(U)}] = h[U \ {Pick(U)}] /\ f[Pick(U)] = e[Pick(U)]
    BY <1>3, <2>1
  <2> QED BY <1>1, <1>3, <2>2
<1> HIDE DEF P
<1>4. \A U \in SUBSET T : U \in P
  BY <1>2, <1>3, FinInd
<1>5. T \in P
  BY <1>4
<1> QED BY <1>5 DEF P

\* The sum of a function over a part of its domain.
Total(f, S) == MapThenSumSet(LAMBDA x : f[x], S)

LEMMA TotalTable ==
  ASSUME NEW S, IsFiniteSet(S), NEW f, \A x \in S : f[x] \in Int
  PROVE  \E g : SumTable(g, f, S) /\ Total(f, S) = g[S]
<1> DEFINE It[s \in SUBSET S] == IF s = {} THEN 0 ELSE f[Pick(s)] + It[s \ {Pick(s)}]
<1>1. Total(f, S) = It[S]
  BY DEF Total, MapThenSumSet, MapThenFoldSet, Pick
<1>2. PICK g : SumTable(g, f, S)
  BY SumExists
<1>3. g = [s \in SUBSET S |-> IF s = {} THEN 0 ELSE f[Pick(s)] + g[s \ {Pick(s)}]]
  BY <1>2 DEF SumTable
<1>4. It = [s \in SUBSET S |-> IF s = {} THEN 0 ELSE f[Pick(s)] + It[s \ {Pick(s)}]]
  BY <1>3
<1> HIDE DEF It
<1>5. SumTable(It, f, S)
  BY <1>4 DEF SumTable
<1> QED BY <1>1, <1>5

\* The first rules of sums: any element can be taken first.
Summable(f, S) == IsFiniteSet(S) /\ \A x \in S : f[x] \in Int

LEMMA TotalIs ==
  ASSUME NEW S, NEW f, Summable(f, S)
  PROVE  /\ Total(f, {}) = 0 /\ Total(f, S) \in Int
         /\ \A x \in S : Total(f, S) = f[x] + Total(f, S \ {x})
<1> DEFINE P == {U \in SUBSET S : /\ Total(f, U) \in Int
                                  /\ \A x \in U : Total(f, U) = f[x] + Total(f, U \ {x})}
<1>1. PICK g : SumTable(g, f, S) /\ \A s \in SUBSET S : g[s] \in Int
  BY SumExists DEF Summable
<1>2. ASSUME NEW U \in SUBSET S PROVE Total(f, U) = g[U]
  <2>1. IsFiniteSet(U) /\ \A x \in U : f[x] \in Int
    BY FS_Subset DEF Summable
  <2>2. PICK h : SumTable(h, f, U) /\ Total(f, U) = h[U]
    BY <2>1, TotalTable
  <2> QED BY <1>1, <2>1, <2>2, SumUnique
<1>3. \A U \in SUBSET S :
        Total(f, U) \in Int
        /\ (U # {} => Pick(U) \in U /\ Total(f, U) = f[Pick(U)] + Total(f, U \ {Pick(U)}))
  <2> SUFFICES ASSUME NEW U \in SUBSET S
               PROVE  Total(f, U) \in Int
                      /\ (U # {} => Pick(U) \in U /\ Total(f, U) = f[Pick(U)] + Total(f, U \ {Pick(U)}))
    OBVIOUS
  <2>1. Total(f, U) = g[U] /\ g[U] \in Int
    BY <1>1, <1>2
  <2>2. ASSUME U # {} PROVE Pick(U) \in U /\ g[U] = f[Pick(U)] + g[U \ {Pick(U)}]
    BY <1>1, <2>2 DEF SumTable, Pick
  <2>3. U # {} => Total(f, U \ {Pick(U)}) = g[U \ {Pick(U)}]
    BY <1>2
  <2> QED BY <2>1, <2>2, <2>3
<1>4. Total(f, {}) = 0
  <2>1. g[{}] = 0
    BY <1>1 DEF SumTable
  <2> QED BY <1>2, <2>1
<1>5. {} \in P
  BY <1>4
<1>6. ASSUME NEW U \in SUBSET S, U # {}, \A x \in U : U \ {x} \in P PROVE U \in P
  <2> SUFFICES ASSUME NEW x \in U PROVE Total(f, U) = f[x] + Total(f, U \ {x})
    BY <1>3
  <2> DEFINE p == Pick(U)
  <2>1. p \in U /\ Total(f, U) = f[p] + Total(f, U \ {p})
    BY <1>3, <1>6
  <2> HIDE DEF p
  <2>2. CASE x = p
    BY <2>1, <2>2
  <2>3. CASE x # p
    <3>1. Total(f, U \ {p}) = f[x] + Total(f, (U \ {p}) \ {x})
      BY <1>6, <2>1, <2>3
    <3>2. Total(f, U \ {x}) = f[p] + Total(f, (U \ {x}) \ {p})
      BY <1>6, <2>1, <2>3
    <3>3. (U \ {p}) \ {x} = (U \ {x}) \ {p} /\ (U \ {p}) \ {x} \in SUBSET S
      OBVIOUS
    <3>4. Total(f, (U \ {p}) \ {x}) \in Int /\ f[p] \in Int /\ f[x] \in Int
      BY <1>3, <2>1, <3>3 DEF Summable
    <3> DEFINE rest == Total(f, (U \ {p}) \ {x})
    <3>5. /\ Total(f, U) = f[p] + (f[x] + rest) /\ Total(f, U \ {x}) = f[p] + rest
          /\ rest \in Int /\ f[p] \in Int /\ f[x] \in Int
      BY <2>1, <3>1, <3>2, <3>3, <3>4
    <3> HIDE DEF rest
    <3> QED BY <3>5
  <2> QED BY <2>2, <2>3
<1> HIDE DEF P
<1>7. \A U \in SUBSET S : U \in P
  BY <1>5, <1>6, FinInd DEF Summable
<1>8. S \in P
  BY <1>7
<1> QED BY <1>4, <1>8 DEF P

LEMMA SummableSubset ==
  ASSUME NEW S, NEW f, Summable(f, S), NEW T \in SUBSET S
  PROVE  Summable(f, T)
BY FS_Subset DEF Summable
LEMMA TotalSame ==
  ASSUME NEW S, NEW f, Summable(f, S), NEW e, \A x \in S : f[x] = e[x]
  PROVE  Total(f, S) = Total(e, S)
<1>1. Summable(e, S)
  BY DEF Summable
<1>2. PICK g : SumTable(g, f, S) /\ Total(f, S) = g[S]
  BY TotalTable DEF Summable
<1>3. PICK h : SumTable(h, e, S) /\ Total(e, S) = h[S]
  BY <1>1, TotalTable DEF Summable
<1> QED BY <1>2, <1>3, SumUnique DEF Summable

LEMMA TotalAdd ==
  ASSUME NEW S, NEW f, Summable(f, S), NEW e, Summable(e, S), NEW d, Summable(d, S),
         \A x \in S : d[x] = f[x] + e[x]
  PROVE  Total(d, S) = Total(f, S) + Total(e, S)
<1> DEFINE P == {U \in SUBSET S : Total(d, U) = Total(f, U) + Total(e, U)}
<1>1. {} \in P
  <2>1. Total(f, {}) = 0 /\ Total(e, {}) = 0 /\ Total(d, {}) = 0
    BY TotalIs
  <2> QED BY <2>1
<1>2. ASSUME NEW U \in SUBSET S, U # {}, \A x \in U : U \ {x} \in P PROVE U \in P
  <2>1. PICK x \in U : TRUE
    BY <1>2
  <2> DEFINE rest == U \ {x}
  <2>2. rest \in SUBSET S /\ x \in S /\ (Total(d, rest) = Total(f, rest) + Total(e, rest))
    BY <1>2
  <2>3. Summable(f, U) /\ Summable(f, rest) /\ Summable(e, U) /\ Summable(e, rest) /\ Summable(d, U) /\ Summable(d, rest)
    BY <2>2, SummableSubset
  <2>4. /\ Total(f, U) = f[x] + Total(f, rest) /\ Total(f, rest) \in Int /\ f[x] \in Int
        /\ Total(e, U) = e[x] + Total(e, rest) /\ Total(e, rest) \in Int /\ e[x] \in Int
        /\ Total(d, U) = d[x] + Total(d, rest) /\ Total(d, rest) \in Int /\ d[x] \in Int
    BY <2>3, TotalIs DEF Summable
  <2> HIDE DEF rest
  <2> QED BY <2>2, <2>4
<1> HIDE DEF P
<1>3. \A U \in SUBSET S : U \in P
  BY <1>1, <1>2, FinInd DEF Summable
<1>4. S \in P
  BY <1>3
<1> QED BY <1>4 DEF P

LEMMA TotalScale ==
  ASSUME NEW S, NEW f, Summable(f, S), NEW d, Summable(d, S), NEW c \in Int,
         \A x \in S : d[x] = c * f[x]
  PROVE  Total(d, S) = c * Total(f, S)
<1> DEFINE P == {U \in SUBSET S : Total(d, U) = c * Total(f, U)}
<1>1. {} \in P
  <2>1. Total(f, {}) = 0 /\ Total(d, {}) = 0
    BY TotalIs
  <2> QED BY <2>1
<1>2. ASSUME NEW U \in SUBSET S, U # {}, \A x \in U : U \ {x} \in P PROVE U \in P
  <2>1. PICK x \in U : TRUE
    BY <1>2
  <2> DEFINE rest == U \ {x}
  <2>2. rest \in SUBSET S /\ x \in S /\ (Total(d, rest) = c * Total(f, rest))
    BY <1>2
  <2>3. Summable(f, U) /\ Summable(f, rest) /\ Summable(d, U) /\ Summable(d, rest)
    BY <2>2, SummableSubset
  <2>4. /\ Total(f, U) = f[x] + Total(f, rest) /\ Total(f, rest) \in Int /\ f[x] \in Int
        /\ Total(d, U) = d[x] + Total(d, rest) /\ Total(d, rest) \in Int /\ d[x] \in Int
    BY ZenonT(30), <2>3, TotalIs DEF Summable
  <2>5. \A a, b \in Int : c * (a + b) = c * a + c * b
    OBVIOUS
  <2>6. c * Total(f, U) = c * f[x] + c * Total(f, rest)
    <3> HIDE DEF rest
    <3> QED BY <2>4, <2>5
  <2> HIDE DEF rest
  <2> QED BY <2>2, <2>4, <2>6
<1> HIDE DEF P
<1>3. \A U \in SUBSET S : U \in P
  BY <1>1, <1>2, FinInd DEF Summable
<1>4. S \in P
  BY <1>3
<1> QED BY <1>4 DEF P

LEMMA TotalBelow ==
  ASSUME NEW S, NEW f, Summable(f, S), NEW e, Summable(e, S), \A x \in S : f[x] <= e[x]
  PROVE  Total(f, S) <= Total(e, S)
<1> DEFINE P == {U \in SUBSET S : Total(f, U) <= Total(e, U)}
<1>1. {} \in P
  <2>1. Total(f, {}) = 0 /\ Total(e, {}) = 0
    BY TotalIs
  <2> QED BY <2>1
<1>2. ASSUME NEW U \in SUBSET S, U # {}, \A x \in U : U \ {x} \in P PROVE U \in P
  <2>1. PICK x \in U : TRUE
    BY <1>2
  <2> DEFINE rest == U \ {x}
  <2>2. rest \in SUBSET S /\ x \in S /\ (Total(f, rest) <= Total(e, rest))
    BY <1>2
  <2>3. Summable(f, U) /\ Summable(f, rest) /\ Summable(e, U) /\ Summable(e, rest)
    BY <2>2, SummableSubset
  <2>4. /\ Total(f, U) = f[x] + Total(f, rest) /\ Total(f, rest) \in Int /\ f[x] \in Int
        /\ Total(e, U) = e[x] + Total(e, rest) /\ Total(e, rest) \in Int /\ e[x] \in Int
    BY <2>3, TotalIs DEF Summable
  <2> HIDE DEF rest
  <2> QED BY <2>2, <2>4
<1> HIDE DEF P
<1>3. \A U \in SUBSET S : U \in P
  BY <1>1, <1>2, FinInd DEF Summable
<1>4. S \in P
  BY <1>3
<1> QED BY <1>4 DEF P

LEMMA TotalZero ==
  ASSUME NEW S, NEW f, Summable(f, S), \A x \in S : f[x] = 0
  PROVE  Total(f, S) = 0
<1> DEFINE P == {U \in SUBSET S : Total(f, U) = 0}
<1>1. {} \in P
  <2>1. Total(f, {}) = 0
    BY TotalIs
  <2> QED BY <2>1
<1>2. ASSUME NEW U \in SUBSET S, U # {}, \A x \in U : U \ {x} \in P PROVE U \in P
  <2>1. PICK x \in U : TRUE
    BY <1>2
  <2> DEFINE rest == U \ {x}
  <2>2. rest \in SUBSET S /\ x \in S /\ (Total(f, rest) = 0)
    BY <1>2
  <2>3. Summable(f, U) /\ Summable(f, rest)
    BY <2>2, SummableSubset
  <2>4. /\ Total(f, U) = f[x] + Total(f, rest) /\ Total(f, rest) \in Int /\ f[x] \in Int
    BY <2>3, TotalIs DEF Summable
  <2> HIDE DEF rest
  <2> QED BY <2>2, <2>4
<1> HIDE DEF P
<1>3. \A U \in SUBSET S : U \in P
  BY <1>1, <1>2, FinInd DEF Summable
<1>4. S \in P
  BY <1>3
<1> QED BY <1>4 DEF P

LEMMA TotalSplit ==
  ASSUME NEW S, NEW f, Summable(f, S), NEW T \in SUBSET S
  PROVE  Total(f, S) = Total(f, S \cap T) + Total(f, S \ T)
<1> DEFINE P == {U \in SUBSET S : Total(f, U) = Total(f, U \cap T) + Total(f, U \ T)}
<1>1. {} \in P
  <2>1. Total(f, {}) = 0
    BY TotalIs
  <2> QED BY <2>1, TotalIs
<1>2. ASSUME NEW U \in SUBSET S, U # {}, \A x \in U : U \ {x} \in P PROVE U \in P
  <2>1. PICK x \in U : TRUE
    BY <1>2
  <2> DEFINE rest == U \ {x}
  <2>2. rest \in SUBSET S /\ x \in S /\ (Total(f, rest) = Total(f, rest \cap T) + Total(f, rest \ T))
    BY <1>2
  <2>3. Summable(f, U) /\ Summable(f, rest)
    BY <2>2, SummableSubset
  <2>4. /\ Total(f, U) = f[x] + Total(f, rest) /\ Total(f, rest) \in Int /\ f[x] \in Int
    BY <2>3, TotalIs DEF Summable
  <2>5. Summable(f, U \cap T) /\ Summable(f, U \ T)
    BY <2>3, SummableSubset
  <2>6. CASE x \in T
    <3>1. rest \cap T = (U \cap T) \ {x} /\ rest \ T = U \ T /\ x \in U \cap T
      BY <2>6
    <3> HIDE DEF rest
    <3>2. Total(f, U \cap T) = f[x] + Total(f, rest \cap T)
      BY <2>5, <3>1, TotalIs
    <3>3. Summable(f, rest \cap T)
      BY <2>5, <3>1, SummableSubset
    <3>4. Total(f, rest \cap T) \in Int /\ Total(f, rest \ T) \in Int
      BY <2>5, <3>1, <3>3, TotalIs
    <3> DEFINE a == Total(f, rest \cap T)
               b == Total(f, rest \ T)
    <3>5. /\ Total(f, U) = f[x] + (a + b) /\ Total(f, U \cap T) = f[x] + a /\ Total(f, U \ T) = b
          /\ a \in Int /\ b \in Int /\ f[x] \in Int
      BY <2>2, <2>4, <3>1, <3>2, <3>4, Zenon
    <3> HIDE DEF a, b
    <3>6. Total(f, U) = Total(f, U \cap T) + Total(f, U \ T)
      BY <3>5
    <3> QED BY <3>6
  <2>7. CASE x \notin T
    <3>1. rest \ T = (U \ T) \ {x} /\ rest \cap T = U \cap T /\ x \in U \ T
      BY <2>7
    <3> HIDE DEF rest
    <3>2. Total(f, U \ T) = f[x] + Total(f, rest \ T)
      BY <2>5, <3>1, TotalIs
    <3>3. Summable(f, rest \ T)
      BY <2>5, <3>1, SummableSubset
    <3>4. Total(f, rest \ T) \in Int /\ Total(f, rest \cap T) \in Int
      BY <2>5, <3>1, <3>3, TotalIs
    <3> DEFINE a == Total(f, rest \cap T)
               b == Total(f, rest \ T)
    <3>5. /\ Total(f, U) = f[x] + (a + b) /\ Total(f, U \ T) = f[x] + b /\ Total(f, U \cap T) = a
          /\ a \in Int /\ b \in Int /\ f[x] \in Int
      BY <2>2, <2>4, <3>1, <3>2, <3>4, Zenon
    <3> HIDE DEF a, b
    <3>6. Total(f, U) = Total(f, U \cap T) + Total(f, U \ T)
      BY <3>5
    <3> QED BY <3>6
  <2> QED BY <2>6, <2>7
<1> HIDE DEF P
<1>3. \A U \in SUBSET S : U \in P
  BY <1>1, <1>2, FinInd DEF Summable
<1>4. S \in P
  BY <1>3
<1> QED BY <1>4 DEF P

\* Where the rest of the set adds nothing.
LEMMA TotalPart ==
  ASSUME NEW S, NEW f, Summable(f, S), NEW T \in SUBSET S, \A x \in S \ T : f[x] = 0
  PROVE  Total(f, S) = Total(f, T)
<1>1. Total(f, S) = Total(f, S \cap T) + Total(f, S \ T)
  BY TotalSplit
<1>2. Summable(f, S \ T) /\ Summable(f, T)
  BY SummableSubset
<1>3. Total(f, S \ T) = 0
  BY <1>2, TotalZero
<1>4. S \cap T = T
  OBVIOUS
<1>5. Total(f, T) \in Int
  BY <1>2, TotalIs
<1>6. Total(f, S \cap T) = Total(f, T)
  BY <1>4, Zenon
<1> QED BY <1>1, <1>3, <1>5, <1>6

\* As many times the same number.
LEMMA TotalConst ==
  ASSUME NEW S, NEW f, Summable(f, S), NEW c \in Int, \A x \in S : f[x] = c
  PROVE  Total(f, S) = c * Cardinality(S)
<1> DEFINE P == {U \in SUBSET S : Total(f, U) = c * Cardinality(U)}
<1>1. {} \in P
  <2>1. Total(f, {}) = 0
    BY TotalIs
  <2> QED BY <2>1, FS_EmptySet
<1>2. ASSUME NEW U \in SUBSET S, U # {}, \A x \in U : U \ {x} \in P PROVE U \in P
  <2>1. PICK x \in U : TRUE
    BY <1>2
  <2> DEFINE rest == U \ {x}
  <2>2. rest \in SUBSET S /\ x \in S /\ (Total(f, rest) = c * Cardinality(rest))
    BY <1>2
  <2>3. Summable(f, U) /\ Summable(f, rest)
    BY <2>2, SummableSubset
  <2>4. /\ Total(f, U) = f[x] + Total(f, rest) /\ Total(f, rest) \in Int /\ f[x] \in Int
    BY <2>3, TotalIs DEF Summable
  <2>5. IsFiniteSet(U) /\ IsFiniteSet(rest) /\ x \in U
    BY <2>3 DEF Summable
  <2>6. /\ Cardinality(rest) = Cardinality(U) - 1
        /\ Cardinality(U) \in Nat /\ Cardinality(rest) \in Nat
    BY <2>5, FS_RemoveElement, FS_CardinalityType
  <2> HIDE DEF rest
  <2>7. \A a, b \in Int : b = a - 1 => c * a = c + c * b
    OBVIOUS
  <2>8. c * Cardinality(U) = c + c * Cardinality(rest)
    BY <2>6, <2>7
  <2> QED BY <2>2, <2>4, <2>8
<1> HIDE DEF P
<1>3. \A U \in SUBSET S : U \in P
  BY <1>1, <1>2, FinInd DEF Summable
<1>4. S \in P
  BY <1>3
<1> QED BY <1>4 DEF P

\* The sum by groups is the sum: d is that of each group, h says which it is.
ByGroup(d, K, h, f, S) ==
  /\ \A x \in S : h[x] \in K
  /\ \A k \in K : d[k] = Total(f, {x \in S : h[x] = k})

LEMMA TotalGroup ==
  ASSUME NEW S, NEW f, Summable(f, S), NEW K, IsFiniteSet(K), NEW h, NEW d,
         ByGroup(d, K, h, f, S)
  PROVE  Total(d, K) = Total(f, S)
<1> DEFINE of(U) == {x \in S : h[x] \in U}
           only(k) == {x \in S : h[x] = k}
           P == {U \in SUBSET K : Total(d, U) = Total(f, of(U))}
<1>1. Summable(d, K)
  <2>1. \A k \in K : Summable(f, only(k))
    BY SummableSubset
  <2>2. \A k \in K : d[k] \in Int
    BY <2>1, TotalIs DEF ByGroup
  <2> QED BY <2>2 DEF Summable
<1>2. {} \in P
  <2>1. of({}) = {}
    OBVIOUS
  <2> QED BY <1>1, <2>1, TotalIs
<1>3. ASSUME NEW U \in SUBSET K, U # {}, \A k \in U : U \ {k} \in P PROVE U \in P
  <2>1. PICK k \in U : TRUE
    BY <1>3
  <2>2. Total(d, U \ {k}) = Total(f, of(U \ {k}))
    BY <1>3
  <2>3. Summable(d, U) /\ Summable(f, of(U)) /\ Summable(f, of(U \ {k})) /\ Summable(f, only(k))
    BY <1>1, SummableSubset
  <2>4. Total(d, U) = d[k] + Total(d, U \ {k})
    BY <2>3, TotalIs
  <2>5. of(U) \cap only(k) = only(k) /\ of(U) \ only(k) = of(U \ {k}) /\ only(k) \in SUBSET of(U)
    OBVIOUS
  <2>6. d[k] = Total(f, only(k))
    BY DEF ByGroup
  <2> HIDE DEF of, only
  <2>7. Total(f, of(U)) = Total(f, only(k)) + Total(f, of(U \ {k}))
    <3>1. Total(f, of(U)) = Total(f, of(U) \cap only(k)) + Total(f, of(U) \ only(k))
      BY <2>3, <2>5, TotalSplit
    <3> QED BY <2>5, <3>1
  <2>8. Total(d, U) = Total(f, of(U))
    BY <2>2, <2>4, <2>6, <2>7
  <2> QED BY <2>8
<1> HIDE DEF P
<1>4. \A U \in SUBSET K : U \in P
  BY <1>2, <1>3, FinInd
<1>5. K \in P
  BY <1>4
<1>6. of(K) = S
  BY DEF ByGroup
<1> QED BY <1>5, <1>6 DEF P
-----------------------------------------------------------------------------
(* The request window.                                                     *)

WindowState == [hits : Seq(Nat), allowed : Seq(BOOLEAN)]

LEMMA RecentType ==
  ASSUME NEW hits \in Seq(Nat), NEW now \in Nat
  PROVE  Recent(hits, now) \in Seq(Nat)
<1> DEFINE kept == {i \in DOMAIN hits : hits[i] + WindowSeconds >= now}
<1>1. CASE kept = {}
  BY <1>1 DEF Recent, RecentFrom
<1>2. CASE kept # {}
  <2>1. kept \in SUBSET Nat /\ kept \subseteq 1..Len(hits)
    OBVIOUS
  <2>2. Min(kept) \in kept
    <3> HIDE DEF kept
    <3> QED BY <1>2, <2>1, MinIs
  <2>3. Min(kept) \in 1..Len(hits)
    BY <2>1, <2>2
  <2>4. SubSeq(hits, Min(kept), Len(hits)) \in Seq(Nat)
    <3> HIDE DEF kept
    <3> QED BY <2>3
  <2> QED BY <1>2, <2>4 DEF Recent, RecentFrom
<1> QED BY <1>1, <1>2

LEMMA AllowType ==
  ASSUME NEW state \in WindowState, NEW now \in Nat
  PROVE  Allow(state, now) \in WindowState
BY RecentType DEF Allow, WindowState

LEMMA AnswersFold ==
  ASSUME NEW times \in Seq(Nat)
  PROVE  \E run : /\ run[0] = [hits |-> <<>>, allowed |-> <<>>]
                  /\ \A i \in 0..Len(times) : run[i] \in WindowState
                  /\ \A i \in 1..Len(times) : run[i] = Allow(run[i - 1], times[i])
                  /\ Answers(times) = run[Len(times)].allowed
<1> DEFINE n == Len(times)
           X == WindowState
           empty == [hits |-> <<>>, allowed |-> <<>>]
           It[s \in SUBSET (DOMAIN times)] == IF s = {} THEN empty ELSE Allow(It[s \ {Max(s)}], times[Max(s)])
           step == [i \in 1..n |-> [x \in X |-> Allow(x, times[i])]]
<1>1. Answers(times) = It[DOMAIN times].allowed
  BY DEF Answers, FoldLeft, MapThenFoldSet
<1>2. \A i \in 1..n, x \in X : Allow(x, times[i]) \in X
  BY AllowType
<1>3. empty \in X /\ n \in Nat /\ DOMAIN times = 1..n
  BY DEF WindowState
<1> HIDE DEF X, empty, n
<1>4. step \in [1..n -> [X -> X]] /\ \A i \in 1..n, x \in X : step[i][x] = Allow(x, times[i])
  BY <1>2
<1> HIDE DEF step
<1>5. PICK it : FoldTable(it, n, X, empty, step)
  BY <1>3, <1>4, FoldExists
<1>6. /\ it \in [SUBSET (1..n) -> X] /\ it[{}] = empty
      /\ \A s \in SUBSET (1..n) : s # {} =>
           Max(s) \in 1..n /\ it[s \ {Max(s)}] \in X /\ it[s] = step[Max(s)][it[s \ {Max(s)}]]
  BY <1>5 DEF FoldTable
<1>7. it = [s \in SUBSET (DOMAIN times) |-> IF s = {} THEN empty ELSE Allow(it[s \ {Max(s)}], times[Max(s)])]
  BY <1>3, <1>4, <1>6
<1>8. It = [s \in SUBSET (DOMAIN times) |-> IF s = {} THEN empty ELSE Allow(It[s \ {Max(s)}], times[Max(s)])]
  BY <1>7
<1> HIDE DEF It
<1>9. It[{}] = empty /\ \A s \in SUBSET (1..n) :
        s # {} /\ It[s \ {Max(s)}] \in X => It[s] = step[Max(s)][It[s \ {Max(s)}]]
  <2>1. \A s \in SUBSET (1..n) : s # {} => Max(s) \in 1..n
    BY <1>6
  <2> QED BY <1>3, <1>4, <1>8, <2>1
<1>10. PICK run : FoldRun(run, It, n, X, empty, step)
  BY <1>3, <1>4, <1>9, FoldRuns
<1>11. \A i \in 1..n : run[i] = Allow(run[i - 1], times[i])
  BY <1>3, <1>4, <1>10 DEF FoldRun
<1>12. Answers(times) = run[n].allowed
  BY <1>1, <1>3, <1>10 DEF FoldRun
<1>13. run[0] = empty /\ \A i \in 0..n : run[i] \in X
  BY <1>10 DEF FoldRun
<1> QED BY <1>11, <1>12, <1>13 DEF n, X, empty

\* Of hits in their order, those in the window are the last ones.
LEMMA RecentIs ==
  ASSUME NEW hits \in Seq(Nat), NEW now \in Nat,
         \A m, l \in 1..Len(hits) : m <= l => hits[m] <= hits[l]
  PROVE  \E lo \in 1..Len(hits) + 1 :
           /\ Len(Recent(hits, now)) = Len(hits) + 1 - lo
           /\ \A m \in 1..Len(Recent(hits, now)) : Recent(hits, now)[m] = hits[m + lo - 1]
           /\ \A m \in 1..Len(hits) : m >= lo <=> hits[m] + WindowSeconds >= now
<1> DEFINE kept == {i \in DOMAIN hits : hits[i] + WindowSeconds >= now}
<1>1. CASE kept = {}
  <2>1. Recent(hits, now) = <<>>
    BY <1>1 DEF Recent, RecentFrom
  <2>2. Len(hits) + 1 \in 1..Len(hits) + 1
    OBVIOUS
  <2>3. \A m \in 1..Len(hits) : ~(hits[m] + WindowSeconds >= now)
    BY <1>1
  <2> WITNESS Len(hits) + 1 \in 1..Len(hits) + 1
  <2> QED BY <2>1, <2>3
<1>2. CASE kept # {}
  <2> DEFINE lo == Min(kept)
  <2>1. kept \in SUBSET Nat /\ kept \subseteq 1..Len(hits)
    OBVIOUS
  <2>2. lo \in kept /\ \A m \in kept : lo <= m
    <3> HIDE DEF kept
    <3> QED BY <1>2, <2>1, MinIs
  <2>3. lo \in 1..Len(hits) /\ hits[lo] + WindowSeconds >= now
    BY <2>2
  <2>4. Recent(hits, now) = SubSeq(hits, lo, Len(hits))
    BY <1>2 DEF Recent, RecentFrom
  <2>5. \A m \in 1..Len(hits) : m >= lo <=> hits[m] + WindowSeconds >= now
    <3> SUFFICES ASSUME NEW m \in 1..Len(hits)
                 PROVE  m >= lo <=> hits[m] + WindowSeconds >= now
      OBVIOUS
    <3>1. m >= lo => hits[m] >= hits[lo]
      BY <2>3
    <3>2. hits[m] + WindowSeconds >= now => m >= lo
      BY <2>2
    <3>3. hits[m] \in Nat /\ hits[lo] \in Nat /\ WindowSeconds \in Nat
      BY <2>3, RateLimitAssumption
    <3> HIDE DEF lo, kept
    <3> QED BY <2>3, <3>1, <3>2, <3>3
  <2> HIDE DEF lo, kept
  <2>6. /\ Len(Recent(hits, now)) = Len(hits) + 1 - lo
        /\ \A m \in 1..Len(Recent(hits, now)) : Recent(hits, now)[m] = hits[m + lo - 1]
    BY <2>3, <2>4
  <2>7. lo \in 1..Len(hits) + 1
    BY <2>3
  <2> WITNESS lo \in 1..Len(hits) + 1
  <2> QED BY <2>5, <2>6
<1> QED BY <1>1, <1>2

\* Of the requests before the i-th, those that were let through and still count.
Counted(allowed, times, i) ==
  {j \in 1..i - 1 : allowed[j] /\ times[j] + WindowSeconds >= times[i]}

\* The hits are requests that were let through, in their order; of those that
\* may still count none is missing.
HitsAre(place, state, k, times) ==
  /\ place \in [1..Len(state.hits) -> 1..k]
  /\ \A m, l \in 1..Len(state.hits) : m < l => place[m] < place[l]
  /\ \A m \in 1..Len(state.hits) :
       state.hits[m] = times[place[m]] /\ state.allowed[place[m]]
  /\ \A j \in 1..k : state.allowed[j] /\ times[j] + WindowSeconds >= times[k] =>
       \E m \in 1..Len(state.hits) : place[m] = j

WindowInv(state, k, times) ==
  /\ state \in WindowState /\ Len(state.allowed) = k
  /\ \E place : HitsAre(place, state, k, times)
  /\ \A i \in 1..k :
       state.allowed[i] <=> Cardinality(Counted(state.allowed, times, i)) < MaxHits

Steady(times) == \A m, l \in DOMAIN times : m <= l => times[m] <= times[l]

LEMMA WindowStep ==
  ASSUME NEW times \in Seq(Nat), Steady(times), NEW k \in 1..Len(times),
         NEW state, WindowInv(state, k - 1, times)
  PROVE  WindowInv(Allow(state, times[k]), k, times)
<1> DEFINE now == times[k]
           hits == state.hits
           allowed == state.allowed
           recent == Recent(hits, now)
           counted == Counted(allowed, times, k)
<1>1. now \in Nat /\ hits \in Seq(Nat) /\ allowed \in Seq(BOOLEAN) /\ Len(allowed) = k - 1
  BY DEF WindowInv, WindowState
<1>2. PICK place : HitsAre(place, state, k - 1, times)
  BY DEF WindowInv
<1>3. \A m \in 1..Len(hits) :
        place[m] \in 1..k - 1 /\ hits[m] = times[place[m]] /\ allowed[place[m]]
  BY <1>2 DEF HitsAre
<1>4. \A m, l \in 1..Len(hits) : m <= l => place[m] <= place[l] /\ hits[m] <= hits[l]
  <2> SUFFICES ASSUME NEW m \in 1..Len(hits), NEW l \in 1..Len(hits), m <= l
               PROVE  place[m] <= place[l] /\ hits[m] <= hits[l]
    OBVIOUS
  <2>1. place[m] <= place[l]
    BY <1>2, <1>3 DEF HitsAre
  <2>2. place[m] \in DOMAIN times /\ place[l] \in DOMAIN times
    BY <1>3
  <2> QED BY <1>3, <2>1, <2>2 DEF Steady
<1>5. PICK lo \in 1..Len(hits) + 1 :
        /\ Len(recent) = Len(hits) + 1 - lo
        /\ \A m \in 1..Len(recent) : recent[m] = hits[m + lo - 1]
        /\ \A m \in 1..Len(hits) : m >= lo <=> hits[m] + WindowSeconds >= now
  BY <1>1, <1>4, RecentIs
<1>6. recent \in Seq(Nat)
  BY <1>1, RecentType
<1> HIDE DEF recent
<1> DEFINE kept == [m \in 1..Len(recent) |-> place[m + lo - 1]]
<1>7. \A m \in 1..Len(recent) :
        /\ m + lo - 1 \in 1..Len(hits) /\ m + lo - 1 >= lo
        /\ kept[m] \in 1..k - 1 /\ recent[m] = times[kept[m]] /\ allowed[kept[m]]
  BY <1>3, <1>5
<1>8. \A m, l \in 1..Len(recent) : m < l => kept[m] < kept[l]
  <2> SUFFICES ASSUME NEW m \in 1..Len(recent), NEW l \in 1..Len(recent), m < l
               PROVE  kept[m] < kept[l]
    OBVIOUS
  <2>1. m + lo - 1 \in 1..Len(hits) /\ l + lo - 1 \in 1..Len(hits) /\ m + lo - 1 < l + lo - 1
    BY <1>7
  <2>2. place[m + lo - 1] < place[l + lo - 1]
    BY <1>2, <2>1 DEF HitsAre
  <2> QED BY <2>2
<1>9. \A j \in 1..k - 1 : allowed[j] /\ times[j] + WindowSeconds >= now =>
        \E m \in 1..Len(recent) : kept[m] = j
  <2> SUFFICES ASSUME NEW j \in 1..k - 1, allowed[j], times[j] + WindowSeconds >= now
               PROVE  \E m \in 1..Len(recent) : kept[m] = j
    OBVIOUS
  <2>1. times[k - 1] <= now /\ times[k - 1] \in Nat /\ times[j] \in Nat
    BY DEF Steady
  <2>2. times[j] + WindowSeconds >= times[k - 1]
    <3>1. times[k] \in Nat /\ WindowSeconds \in Nat
      BY <1>1, RateLimitAssumption
    <3> QED BY <2>1, <3>1
  <2>3. PICK m \in 1..Len(hits) : place[m] = j
    BY <1>2, <2>2 DEF HitsAre
  <2>4. m >= lo
    BY <1>3, <1>5, <2>3
  <2>5. m + 1 - lo \in 1..Len(recent) /\ (m + 1 - lo) + lo - 1 = m
    BY <1>5, <2>4
  <2> QED BY <2>3, <2>5
<1>10. \A m \in 1..Len(recent) : kept[m] \in counted
  BY <1>5, <1>7, <1>3 DEF Counted
<1>11. Cardinality(counted) = Len(recent)
  <2>1. kept \in Bijection(1..Len(recent), counted)
    <3>1. kept \in [1..Len(recent) -> counted]
      BY <1>10
    <3>2. \A m, l \in 1..Len(recent) : kept[m] = kept[l] => m = l
      <4> SUFFICES ASSUME NEW m \in 1..Len(recent), NEW l \in 1..Len(recent), m # l
                   PROVE  kept[m] # kept[l]
        OBVIOUS
      <4>1. m < l \/ l < m
        BY <1>6
      <4>2. kept[m] \in Nat /\ kept[l] \in Nat
        BY SMTT(30), <1>7
      <4> HIDE DEF kept
      <4> QED BY <1>8, <4>1, <4>2
    <3>3. \A j \in counted : \E m \in 1..Len(recent) : kept[m] = j
      BY <1>9 DEF Counted
    <3> HIDE DEF kept, counted
    <3> QED BY <3>1, <3>2, <3>3 DEF Bijection, Injection, Surjection, IsInjective
  <2>2. ExistsBijection(1..Len(recent), counted)
    BY <2>1 DEF ExistsBijection
  <2>3. IsFiniteSet(1..Len(recent)) /\ Cardinality(1..Len(recent)) = Len(recent)
    <3>1. 1 \in Int /\ Len(recent) \in Int /\ Len(recent) >= 0
      BY <1>6
    <3>2. /\ IsFiniteSet(1..Len(recent))
          /\ Cardinality(1..Len(recent)) = IF 1 > Len(recent) THEN 0 ELSE Len(recent) - 1 + 1
      BY <3>1, FS_Interval, Zenon
    <3> QED BY <3>1, <3>2
  <2> QED BY <2>2, <2>3, FS_Bijection
<1>12. ASSUME NEW answer \in BOOLEAN, answer <=> Len(recent) < MaxHits
       PROVE  LET all == Append(allowed, answer) IN
              /\ all \in Seq(BOOLEAN) /\ Len(all) = k /\ all[k] = answer
              /\ \A j \in 1..k - 1 : all[j] = allowed[j]
              /\ \A i \in 1..k : all[i] <=> Cardinality(Counted(all, times, i)) < MaxHits
  <2> DEFINE all == Append(allowed, answer)
  <2>1. /\ all \in Seq(BOOLEAN) /\ Len(all) = k /\ all[k] = answer
        /\ \A j \in 1..k - 1 : all[j] = allowed[j]
    BY <1>1
  <2> HIDE DEF all
  <2>2. \A i \in 1..k : Counted(all, times, i) = Counted(allowed, times, i)
    BY SMTT(30), <2>1 DEF Counted
  <2>3. all[k] <=> Cardinality(Counted(all, times, k)) < MaxHits
    BY <1>11, <1>12, <2>1, <2>2
  <2>4. ASSUME NEW i \in 1..k - 1
        PROVE  all[i] <=> Cardinality(Counted(all, times, i)) < MaxHits
    <3>1. allowed[i] <=> Cardinality(Counted(allowed, times, i)) < MaxHits
      BY DEF WindowInv
    <3>2. i \in 1..k
      OBVIOUS
    <3> QED BY <2>1, <2>2, <3>1, <3>2
  <2>5. \A i \in 1..k : i = k \/ i \in 1..k - 1
    OBVIOUS
  <2> QED BY <2>1, <2>3, <2>4, <2>5 DEF all
<1>13. CASE Len(recent) >= MaxHits
  <2> DEFINE all == Append(allowed, FALSE)
             new == [hits |-> recent, allowed |-> all]
  <2>1. Allow(state, now) = new
    BY <1>13 DEF Allow, recent
  <2>2. /\ all \in Seq(BOOLEAN) /\ Len(all) = k /\ all[k] = FALSE
        /\ \A j \in 1..k - 1 : all[j] = allowed[j]
        /\ \A i \in 1..k : all[i] <=> Cardinality(Counted(all, times, i)) < MaxHits
    <3>1. FALSE <=> Len(recent) < MaxHits
      BY <1>6, <1>13, RateLimitAssumption
    <3> HIDE DEF recent, allowed
    <3> QED BY <1>12, <3>1
  <2>3. HitsAre(kept, new, k, times)
    <3>1. kept \in [1..Len(recent) -> 1..k]
      BY <1>7
    <3>2. \A m \in 1..Len(recent) : recent[m] = times[kept[m]] /\ all[kept[m]]
      <4> HIDE DEF all, kept
      <4> QED BY <1>7, <2>2
    <3>3. ASSUME NEW j \in 1..k, all[j], times[j] + WindowSeconds >= times[k]
          PROVE  \E m \in 1..Len(recent) : kept[m] = j
      <4>1. j \in 1..k - 1 /\ allowed[j]
        <5> HIDE DEF all, allowed
        <5> QED BY <2>2, <3>3
      <4> HIDE DEF kept, allowed
      <4> QED BY <1>9, <3>3, <4>1
    <3> HIDE DEF kept, all
    <3> QED BY <1>8, <3>1, <3>2, <3>3 DEF HitsAre
  <2>4. new \in WindowState
    BY <1>6, <2>2 DEF WindowState
  <2> HIDE DEF all, kept
  <2> QED BY <2>1, <2>2, <2>3, <2>4 DEF WindowInv
<1>14. CASE Len(recent) < MaxHits
  <2> DEFINE all == Append(allowed, TRUE)
             new == [hits |-> Append(recent, now), allowed |-> all]
             longer == [m \in 1..Len(recent) + 1 |-> IF m = Len(recent) + 1 THEN k ELSE kept[m]]
  <2>1. Allow(state, now) = new
    <3>1. ~(Len(recent) >= MaxHits)
      BY <1>6, <1>14, RateLimitAssumption
    <3> QED BY <3>1 DEF Allow, recent
  <2>2. /\ all \in Seq(BOOLEAN) /\ Len(all) = k /\ all[k] = TRUE
        /\ \A j \in 1..k - 1 : all[j] = allowed[j]
        /\ \A i \in 1..k : all[i] <=> Cardinality(Counted(all, times, i)) < MaxHits
    <3>1. TRUE <=> Len(recent) < MaxHits
      BY <1>14
    <3> HIDE DEF recent, allowed
    <3> QED BY <1>12, <3>1
  <2>3. Len(new.hits) = Len(recent) + 1 /\ new.hits \in Seq(Nat)
        /\ new.hits[Len(recent) + 1] = now
        /\ \A m \in 1..Len(recent) : new.hits[m] = recent[m]
    BY <1>1, <1>6
  <2>4. \A m \in 1..Len(recent) + 1 : m = Len(recent) + 1 \/ m \in 1..Len(recent)
    BY <1>6
  <2>5. /\ longer \in [1..Len(recent) + 1 -> 1..k]
        /\ longer[Len(recent) + 1] = k
        /\ \A m \in 1..Len(recent) : longer[m] = kept[m] /\ kept[m] \in 1..k - 1
    BY <1>6, <1>7, <2>4
  <2> HIDE DEF longer, kept, all
  <2>6. HitsAre(longer, new, k, times)
    <3>1. ASSUME NEW m \in 1..Len(recent) + 1, NEW l \in 1..Len(recent) + 1, m < l
          PROVE  longer[m] < longer[l]
      <4>1. m \in 1..Len(recent)
        BY <1>6, <3>1
      <4>2. longer[m] = kept[m] /\ kept[m] \in 1..k - 1
        BY <2>5, <4>1
      <4>3. CASE l = Len(recent) + 1
        BY <2>5, <4>2, <4>3
      <4>4. CASE l \in 1..Len(recent)
        BY <1>8, <2>5, <3>1, <4>1, <4>2, <4>4
      <4> QED BY <2>4, <4>3, <4>4
    <3>2. \A m \in 1..Len(recent) + 1 : new.hits[m] = times[longer[m]] /\ all[longer[m]]
      <4>1. new.hits[Len(recent) + 1] = times[longer[Len(recent) + 1]] /\ all[longer[Len(recent) + 1]]
        BY <2>2, <2>3, <2>5
      <4>2. \A m \in 1..Len(recent) : new.hits[m] = times[longer[m]] /\ all[longer[m]]
        <5> HIDE DEF new
        <5> QED BY <1>7, <2>2, <2>3, <2>5
      <4> QED BY <2>4, <4>1, <4>2
    <3>3. ASSUME NEW j \in 1..k, all[j], times[j] + WindowSeconds >= times[k]
          PROVE  \E m \in 1..Len(recent) + 1 : longer[m] = j
      <4>1. CASE j = k
        <5>1. Len(recent) + 1 \in 1..Len(recent) + 1
          BY <1>6
        <5> QED BY <2>5, <4>1, <5>1
      <4>2. CASE j \in 1..k - 1
        <5>1. PICK m \in 1..Len(recent) : kept[m] = j
          BY <1>9, <2>2, <3>3, <4>2
        <5> QED BY <2>5, <5>1
      <4> QED BY <4>1, <4>2
    <3>4. new.allowed = all
      OBVIOUS
    <3> HIDE DEF new
    <3> QED BY <2>3, <2>5, <3>1, <3>2, <3>3, <3>4 DEF HitsAre
  <2>7. new \in WindowState
    BY <2>2, <2>3 DEF WindowState
  <2>8. new.allowed = all
    OBVIOUS
  <2> HIDE DEF new
  <2>9. WindowInv(new, k, times)
    BY <2>2, <2>6, <2>7, <2>8 DEF WindowInv
  <2> QED BY <2>1, <2>9
<1> QED BY <1>6, <1>13, <1>14, RateLimitAssumption

\* However many requests there are and whenever they come, each is answered by
\* the number of those let through that still count.
LEMMA WindowHolds ==
  ASSUME NEW times \in Seq(Nat), Steady(times)
  PROVE  \A i \in DOMAIN times :
           Answers(times)[i] <=> Cardinality(Counted(Answers(times), times, i)) < MaxHits
<1> DEFINE n == Len(times)
<1>1. PICK run : /\ run[0] = [hits |-> <<>>, allowed |-> <<>>]
                 /\ \A i \in 1..n : run[i] = Allow(run[i - 1], times[i])
                 /\ Answers(times) = run[n].allowed
  BY AnswersFold
<1> DEFINE S == {i \in 0..n : WindowInv(run[i], i, times)}
<1>2. 0 \in S
  <2> DEFINE empty == [hits |-> <<>>, allowed |-> <<>>]
  <2>1. empty \in WindowState /\ Len(empty.allowed) = 0 /\ Len(empty.hits) = 0
    BY DEF WindowState
  <2>2. HitsAre(<<>>, empty, 0, times)
    BY <2>1 DEF HitsAre
  <2>3. WindowInv(empty, 0, times)
    BY <2>1, <2>2 DEF WindowInv
  <2> QED BY <1>1, <2>3
<1>3. ASSUME NEW i \in 1..n, i - 1 \in S PROVE i \in S
  BY <1>1, <1>3, WindowStep
<1> HIDE DEF S
<1>4. \A i \in 0..n : i \in S
  <2>1. n \in Nat
    OBVIOUS
  <2> QED BY <1>2, <1>3, <2>1, UpTo
<1>5. WindowInv(run[n], n, times)
  BY <1>4 DEF S
<1> QED BY <1>1, <1>5 DEF WindowInv

-----------------------------------------------------------------------------
(* Reading a photo.                                                        *)

\* Of a set of places, those up to the k-th.
Count(S, k) == Cardinality({m \in S : m <= k})

LEMMA CountIs ==
  ASSUME NEW n \in Nat, NEW S \in SUBSET (1..n)
  PROVE  /\ Count(S, 0) = 0 /\ Count(S, n) = Cardinality(S)
         /\ \A k \in 0..n : Count(S, k) \in Nat
         /\ \A k \in 1..n : Count(S, k) = Count(S, k - 1) + (IF k \in S THEN 1 ELSE 0)
         /\ \A j, k \in 0..n : j <= k => Count(S, j) <= Count(S, k)
<1> DEFINE Upto(k) == {m \in S : m <= k}
<1>1. \A m \in S : m \in Nat /\ 1 <= m /\ m <= n
  OBVIOUS
<1>2. \A k \in 0..n : IsFiniteSet(Upto(k)) /\ Cardinality(Upto(k)) \in Nat
  <2> SUFFICES ASSUME NEW k \in 0..n
               PROVE  IsFiniteSet(Upto(k)) /\ Cardinality(Upto(k)) \in Nat
    OBVIOUS
  <2>1. IsFiniteSet(1..n)
    BY FS_Interval
  <2>2. Upto(k) \in SUBSET (1..n)
    OBVIOUS
  <2> HIDE DEF Upto
  <2>3. IsFiniteSet(Upto(k))
    BY <2>1, <2>2, FS_Subset
  <2> QED BY <2>3, FS_CardinalityType
<1>3. Upto(0) = {} /\ Upto(n) = S
  <2>1. \A m \in S : ~(m <= 0) /\ m <= n
    BY <1>1
  <2> QED BY <2>1
<1>4. ASSUME NEW k \in 1..n
      PROVE  Cardinality(Upto(k)) = Cardinality(Upto(k - 1)) + (IF k \in S THEN 1 ELSE 0)
  <2>1. k - 1 \in 0..n /\ \A m \in S : m <= k <=> m <= k - 1 \/ m = k
    BY <1>1
  <2>2. ~(k <= k - 1)
    OBVIOUS
  <2>3. CASE k \in S
    <3>1. Upto(k) = Upto(k - 1) \cup {k} /\ k \notin Upto(k - 1)
      BY <2>1, <2>2, <2>3
    <3> HIDE DEF Upto
    <3> QED BY <1>2, <2>1, <2>3, <3>1, FS_AddElement
  <2>4. CASE k \notin S
    <3>1. Upto(k) = Upto(k - 1)
      BY <2>1, <2>4
    <3> HIDE DEF Upto
    <3> QED BY <1>2, <2>1, <2>4, <3>1
  <2> QED BY <2>3, <2>4
<1>5. ASSUME NEW j \in 0..n, NEW k \in 0..n, j <= k
      PROVE  Cardinality(Upto(j)) <= Cardinality(Upto(k))
  <2>1. \A m \in S : m <= j => m <= k
    BY <1>1, <1>5
  <2>2. Upto(j) \in SUBSET Upto(k)
    BY <2>1
  <2> HIDE DEF Upto
  <2> QED BY <1>2, <2>2, FS_Subset
<1>6. Cardinality(Upto(0)) = 0
  <2> HIDE DEF Upto
  <2> QED BY <1>3, FS_EmptySet
<1>7. \A k \in 0..n : Count(S, k) = Cardinality(Upto(k))
  BY DEF Count
<1> HIDE DEF Upto
<1> QED BY <1>2, <1>3, <1>4, <1>5, <1>6, <1>7

\* The lines that can come of a photo, and what is kept while it is read.
LineSet(data, now) == {Line(item, data, now) : item \in ItemRead}
Reading(data, now) ==
  [lines : Seq(LineSet(data, now)), deposits : Nat, dropped : Nat, check : {None}]
NothingRead == [lines |-> <<>>, deposits |-> 0, dropped |-> 0, check |-> None]

LEMMA ReadItemType ==
  ASSUME NEW data, NEW now, NEW reading \in Reading(data, now), NEW item \in ItemRead
  PROVE  ReadItem(reading, item, data, now) \in Reading(data, now)
<1>1. Line(item, data, now) \in LineSet(data, now)
  BY DEF LineSet
<1>2. reading.lines \in Seq(LineSet(data, now)) /\ reading.deposits \in Nat /\ reading.dropped \in Nat
  BY DEF Reading
<1>3. Append(reading.lines, Line(item, data, now)) \in Seq(LineSet(data, now))
  BY <1>1, <1>2
<1>4. reading.deposits + 1 \in Nat /\ reading.dropped + 1 \in Nat
  BY <1>2
<1>5. /\ reading \in Reading(data, now)
      /\ [reading EXCEPT !.deposits = @ + 1] \in Reading(data, now)
      /\ [reading EXCEPT !.dropped = @ + 1] \in Reading(data, now)
      /\ [reading EXCEPT !.lines = Append(@, Line(item, data, now))] \in Reading(data, now)
  BY <1>3, <1>4 DEF Reading
<1> QED BY <1>5 DEF ReadItem, OverLimit

\* The state after each item of the photo; an unreadable one gives nothing.
NormalizeIs(data, now, read) ==
  Normalize(data, now) =
    IF data.kind \in {"not_financial", "unreadable"} THEN NothingRead
    ELSE IF data.kind = "receipt" THEN [read EXCEPT !.check = CheckTotals(read.lines, data)]
    ELSE read

LEMMA ReadFold ==
  ASSUME NEW data \in PhotoRead, NEW now
  PROVE  \E run : /\ run[0] = NothingRead
                  /\ \A i \in 0..Len(data.items) : run[i] \in Reading(data, now)
                  /\ \A i \in 1..Len(data.items) : run[i] = ReadItem(run[i - 1], data.items[i], data, now)
                  /\ NormalizeIs(data, now, run[Len(data.items)])
<1> DEFINE n == Len(data.items)
           X == Reading(data, now)
           empty == NothingRead
           It[s \in SUBSET (DOMAIN data.items)] == IF s = {} THEN empty ELSE ReadItem(It[s \ {Max(s)}], data.items[Max(s)], data, now)
           step == [i \in 1..n |-> [x \in X |-> ReadItem(x, data.items[i], data, now)]]
<1>1. NormalizeIs(data, now, It[DOMAIN data.items])
  BY DEF Normalize, NormalizeIs, NothingRead, FoldLeft, MapThenFoldSet
<1>2. \A i \in 1..n, x \in X : ReadItem(x, data.items[i], data, now) \in X
  BY ReadItemType DEF PhotoRead
<1>3. empty \in X /\ n \in Nat /\ DOMAIN data.items = 1..n
  BY DEF PhotoRead, NothingRead, Reading
<1> HIDE DEF X, empty, n
<1>4. step \in [1..n -> [X -> X]] /\ \A i \in 1..n, x \in X : step[i][x] = ReadItem(x, data.items[i], data, now)
  BY <1>2
<1> HIDE DEF step
<1>5. PICK it : FoldTable(it, n, X, empty, step)
  BY <1>3, <1>4, FoldExists
<1>6. /\ it \in [SUBSET (1..n) -> X] /\ it[{}] = empty
      /\ \A s \in SUBSET (1..n) : s # {} =>
           Max(s) \in 1..n /\ it[s \ {Max(s)}] \in X /\ it[s] = step[Max(s)][it[s \ {Max(s)}]]
  BY <1>5 DEF FoldTable
<1>7. it = [s \in SUBSET (DOMAIN data.items) |-> IF s = {} THEN empty ELSE ReadItem(it[s \ {Max(s)}], data.items[Max(s)], data, now)]
  BY <1>3, <1>4, <1>6
<1>8. It = [s \in SUBSET (DOMAIN data.items) |-> IF s = {} THEN empty ELSE ReadItem(It[s \ {Max(s)}], data.items[Max(s)], data, now)]
  BY <1>7
<1> HIDE DEF It
<1>9. It[{}] = empty /\ \A s \in SUBSET (1..n) :
        s # {} /\ It[s \ {Max(s)}] \in X => It[s] = step[Max(s)][It[s \ {Max(s)}]]
  <2>1. \A s \in SUBSET (1..n) : s # {} => Max(s) \in 1..n
    BY <1>6
  <2> QED BY <1>3, <1>4, <1>8, <2>1
<1>10. PICK run : FoldRun(run, It, n, X, empty, step)
  BY <1>3, <1>4, <1>9, FoldRuns
<1>11. \A i \in 1..n : run[i] = ReadItem(run[i - 1], data.items[i], data, now)
  BY <1>3, <1>4, <1>10 DEF FoldRun
<1>12. NormalizeIs(data, now, run[n])
  BY <1>1, <1>3, <1>10 DEF FoldRun
<1>13. run[0] = empty /\ \A i \in 0..n : run[i] \in X
  BY <1>10 DEF FoldRun
<1> QED BY <1>11, <1>12, <1>13 DEF n, X, empty


\* The first entry that is known is one of the entries.
LEMMA FirstKnownIs ==
  ASSUME NEW a, NEW b, NEW c
  PROVE  FirstKnown(<<a, b, c>>) \in {None, a, b, c}
<1> DEFINE s == <<a, b, c>>
           known == {i \in DOMAIN s : s[i] # None}
<1>1. CASE known = {}
  BY <1>1 DEF FirstKnown
<1>2. CASE known # {}
  <2>1. DOMAIN s = 1..3 /\ s[1] = a /\ s[2] = b /\ s[3] = c
    OBVIOUS
  <2>2. known \in SUBSET Nat /\ known \subseteq {1, 2, 3}
    BY <2>1
  <2>3. FirstKnown(s) = s[Min(known)]
    BY <1>2 DEF FirstKnown
  <2> HIDE DEF known
  <2>4. Min(known) \in {1, 2, 3}
    BY <1>2, <2>2, MinIs
  <2> HIDE DEF s
  <2> QED BY <2>1, <2>3, <2>4 DEF s
<1> QED BY <1>1, <1>2

LEMMA YearIs ==
  ASSUME NEW month, NEW y \in Int, NEW name \in 0..11, month = 12 * y + name
  PROVE  Year(month) = y
BY DEF Year

LEMMA LinePeriod ==
  ASSUME NEW data \in PhotoRead, NEW now \in Nat, now >= 12, NEW item \in ItemRead,
         Line(item, data, now).period # None
  PROVE  /\ Line(item, data, now).period < now
         /\ Year(Line(item, data, now).period) >= Year(now) - 1
<1> DEFINE month == Line(item, data, now).period
           y == Year(now)
           past(m) == m < now /\ Year(m) >= y - 1
<1>1. /\ data.pastMonth \in OrNone(0..11) /\ data.month \in OrNone(Nat)
      /\ item.month \in OrNone(Nat)
  BY DEF PhotoRead, ItemRead
<1>2. y \in Nat
  BY DEF Year
<1>3. month \in {None, CaptionPeriod(data.pastMonth, now), PastPeriod(item.month, now),
                 PastPeriod(data.month, now)}
  BY FirstKnownIs DEF Line
<1>4. ASSUME NEW m \in OrNone(Nat), PastPeriod(m, now) # None PROVE past(PastPeriod(m, now))
  <2>1. m # None /\ ~(m >= now) /\ ~(Year(m) < y - 1) /\ PastPeriod(m, now) = m
    BY <1>4 DEF PastPeriod
  <2>2. m \in Nat
    BY <2>1 DEF OrNone
  <2>3. Year(m) \in Nat
    BY <2>2 DEF Year
  <2> HIDE DEF y
  <2> QED BY <1>2, <2>1, <2>2, <2>3
<1>5. ASSUME NEW name \in OrNone(0..11), CaptionPeriod(name, now) # None
      PROVE  past(CaptionPeriod(name, now))
  <2> DEFINE m == ResolvePastMonth(name, now)
  <2>1. m # None /\ ~(m >= now) /\ CaptionPeriod(name, now) = m
    BY <1>5 DEF CaptionPeriod
  <2>2. name \in 0..11
    BY <2>1 DEF OrNone, ResolvePastMonth
  <2>3. m = 12 * y + name \/ m = 12 * (y - 1) + name
    BY <2>1 DEF ResolvePastMonth
  <2>4. y \in Int /\ y - 1 \in Int /\ m \in Int
    BY <1>2, <2>2, <2>3
  <2>5. Year(m) = y \/ Year(m) = y - 1
    <3> DEFINE y1 == y - 1
    <3>1. y1 \in Int /\ (m = 12 * y + name \/ m = 12 * y1 + name)
      BY <2>3, <2>4
    <3> HIDE DEF y, y1, m
    <3>2. Year(m) = y \/ Year(m) = y1
      BY <2>2, <2>4, <3>1, YearIs
    <3> QED BY <3>2 DEF y1
  <2> HIDE DEF y, m
  <2> QED BY <1>2, <2>1, <2>4, <2>5
<1>6. month # None
  OBVIOUS
<1> HIDE DEF month, past
<1>7. past(month)
  BY <1>1, <1>3, <1>4, <1>5, <1>6
<1> QED BY <1>7 DEF past, month

\* What is kept of a photo, whatever is on it.
LEMMA ReadLines ==
  ASSUME NEW data \in PhotoRead, NEW now
  PROVE  Normalize(data, now).lines \in Seq(LineSet(data, now))
<1>1. Len(data.items) \in Nat
  BY DEF PhotoRead
<1>2. PICK run : /\ \A i \in 0..Len(data.items) : run[i] \in Reading(data, now)
                 /\ NormalizeIs(data, now, run[Len(data.items)])
  BY ReadFold
<1>3. run[Len(data.items)] \in Reading(data, now)
  BY <1>1, <1>2
<1> QED BY <1>2, <1>3 DEF NormalizeIs, Reading, NothingRead


\* The places of the spendings on a photo.
Spent(data) ==
  {n \in DOMAIN data.items :
     /\ data.kind \in {"bank_sms", "bank_app"} => data.items[n].direction = "out"
     /\ data.items[n].title \/ data.items[n].raw \/ LineAmount(data.items[n]) # None}

\* After the first k items: each spending among them has its line, in their
\* order, or it is counted as dropped, and that only when the list is full.
SpentInv(reading, k, data, now) ==
  /\ reading \in Reading(data, now) /\ Len(reading.lines) <= MaxLines
  /\ Len(reading.lines) + reading.dropped = Count(Spent(data), k)
  /\ reading.dropped > 0 => Len(reading.lines) = MaxLines
  /\ \A m \in Spent(data) : m <= k /\ Count(Spent(data), m) <= Len(reading.lines) =>
       reading.lines[Count(Spent(data), m)] = Line(data.items[m], data, now)

LEMMA SpentStep ==
  ASSUME NEW data \in PhotoRead, NEW now, NEW k \in 1..Len(data.items), NEW reading,
         SpentInv(reading, k - 1, data, now)
  PROVE  SpentInv(ReadItem(reading, data.items[k], data, now), k, data, now)
<1> DEFINE n == Len(data.items)
           item == data.items[k]
           spent == Spent(data)
           lines == reading.lines
           dropped == reading.dropped
           new == ReadItem(reading, item, data, now)
           line(m) == Line(data.items[m], data, now)
           C(m) == Count(spent, m)
<1> SUFFICES SpentInv(new, k, data, now)
  OBVIOUS
<1>1. n \in Nat /\ DOMAIN data.items = 1..n /\ item \in ItemRead /\ spent \in SUBSET (1..n)
  BY DEF PhotoRead, Spent
<1>2. reading \in Reading(data, now) /\ new \in Reading(data, now)
  BY <1>1, ReadItemType DEF SpentInv
<1>3. lines \in Seq(LineSet(data, now)) /\ dropped \in Nat /\ Len(lines) \in Nat
  BY <1>2 DEF Reading
<1>4. /\ \A m \in 0..n : C(m) \in Nat
      /\ C(k) = C(k - 1) + (IF k \in spent THEN 1 ELSE 0)
      /\ \A i, j \in 0..n : i <= j => C(i) <= C(j)
  <2>1. k \in 1..n
    OBVIOUS
  <2> HIDE DEF n, spent
  <2>2. \A m \in 0..n : C(m) \in Nat
    BY <1>1, CountIs
  <2>3. C(k) = C(k - 1) + (IF k \in spent THEN 1 ELSE 0)
    <3>1. \A j \in 1..n : Count(spent, j) = Count(spent, j - 1) + (IF j \in spent THEN 1 ELSE 0)
      BY <1>1, CountIs
    <3> QED BY <2>1, <3>1
  <2>4. \A i, j \in 0..n : i <= j => C(i) <= C(j)
    BY <1>1, CountIs
  <2> QED BY <2>2, <2>3, <2>4
<1>5. /\ Len(lines) <= MaxLines /\ Len(lines) + dropped = C(k - 1)
      /\ dropped > 0 => Len(lines) = MaxLines
      /\ \A m \in spent : m <= k - 1 /\ C(m) <= Len(lines) => lines[C(m)] = line(m)
  BY DEF SpentInv
<1>6. k \in spent <=> ~Deposit(data.kind, item) /\ ~Blank(item)
  <2>1. item.direction = "in" <=> item.direction # "out"
    BY <1>1 DEF ItemRead
  <2>2. k \in spent <=>
          /\ data.kind \in BankKinds => item.direction = "out"
          /\ item.title \/ item.raw \/ LineAmount(item) # None
    BY <1>1 DEF Spent, BankKinds
  <2>3. item.title \in BOOLEAN /\ item.raw \in BOOLEAN
    BY <1>1 DEF ItemRead
  <2> QED BY <2>1, <2>2, <2>3 DEF Deposit, Blank
<1>7. \A m \in spent : m \in 1..n /\ (m <= k => m = k \/ m <= k - 1) /\ C(m) \in Nat
      /\ (m <= k - 1 => C(m) <= C(k - 1))
  <2>1. \A m \in spent : m \in 1..n /\ m \in 0..n /\ k - 1 \in 0..n
    BY <1>1
  <2> HIDE DEF spent, C
  <2> QED BY <1>1, <1>4, <2>1
<1>8. MaxLines \in Nat
  BY MaxLinesAssumption
<1>0. SpentInv(new, k, data, now) <=>
        /\ new \in Reading(data, now) /\ Len(new.lines) <= MaxLines
        /\ Len(new.lines) + new.dropped = C(k)
        /\ new.dropped > 0 => Len(new.lines) = MaxLines
        /\ \A m \in spent : m <= k /\ C(m) <= Len(new.lines) => new.lines[C(m)] = line(m)
  <2> HIDE DEF new
  <2> QED BY DEF SpentInv
<1>9. CASE k \notin spent
  <2>1. new.lines = lines /\ new.dropped = dropped
    BY <1>2, <1>6, <1>9 DEF ReadItem, Reading
  <2>2. \A m \in spent : m <= k => m <= k - 1
    BY <1>7, <1>9
  <2>3. C(k) = C(k - 1)
    <3>1. k - 1 \in 0..n
      OBVIOUS
    <3> HIDE DEF C
    <3> QED BY <1>4, <1>9, <3>1
  <2> HIDE DEF new, lines, dropped, C, line, spent
  <2> QED BY <1>0, <1>2, <1>5, <2>1, <2>2, <2>3
<1>10. CASE k \in spent /\ Len(lines) >= MaxLines
  <2>1. new.lines = lines /\ new.dropped = dropped + 1
    BY <1>2, <1>6, <1>10 DEF ReadItem, OverLimit, Reading
  <2>2. C(k) = C(k - 1) + 1
    BY <1>4, <1>10
  <2> HIDE DEF new, lines, dropped, C, line, spent
  <2>3. Len(lines) = MaxLines /\ Len(lines) + (dropped + 1) = C(k)
    BY <1>3, <1>5, <1>8, <1>10, <2>2
  <2>4. \A m \in spent : m <= k /\ C(m) <= Len(lines) => lines[C(m)] = line(m)
    <3> SUFFICES ASSUME NEW m \in spent, m <= k, C(m) <= Len(lines)
                 PROVE  lines[C(m)] = line(m)
      OBVIOUS
    <3>1. C(k) > Len(lines)
      BY <1>3, <2>3
    <3>2. m # k
      BY <1>3, <1>7, <1>10, <3>1
    <3> QED BY <1>5, <1>7, <3>2
  <2>5. Len(new.lines) <= MaxLines /\ Len(new.lines) + new.dropped = C(k)
        /\ (new.dropped > 0 => Len(new.lines) = MaxLines)
    BY <1>3, <1>8, <2>1, <2>3
  <2> QED BY <1>0, <1>2, <2>1, <2>4, <2>5
<1>11. CASE k \in spent /\ Len(lines) < MaxLines
  <2>1. new.lines = Append(lines, line(k)) /\ new.dropped = dropped
    <3>1. ~(Len(lines) >= MaxLines)
      BY <1>3, <1>8, <1>11
    <3> QED BY <1>2, <1>6, <1>11, <3>1 DEF ReadItem, Reading
  <2>2. C(k) = C(k - 1) + 1
    BY <1>4, <1>11
  <2> HIDE DEF new, lines, dropped, C, line, spent
  <2>3. dropped = 0 /\ Len(lines) = C(k - 1)
    BY <1>3, <1>5, <1>8, <1>11
  <2>4. /\ Len(new.lines) = Len(lines) + 1 /\ new.lines[Len(lines) + 1] = line(k)
        /\ \A i \in 1..Len(lines) : new.lines[i] = lines[i]
    <3>1. line(k) \in LineSet(data, now)
      BY <1>1 DEF line, LineSet
    <3> QED BY <1>3, <2>1, <3>1
  <2>5. \A m \in spent : C(m) >= 1
    <3> SUFFICES ASSUME NEW m \in spent PROVE C(m) >= 1
      OBVIOUS
    <3>1. m \in 1..n
      BY <1>7
    <3>2. C(m) = C(m - 1) + 1 /\ C(m - 1) \in Nat
      <4>1. m - 1 \in 0..n
        BY <3>1
      <4> HIDE DEF n
      <4>2. \A j \in 1..n : Count(spent, j) = Count(spent, j - 1) + (IF j \in spent THEN 1 ELSE 0)
        BY <1>1, CountIs
      <4>3. C(m) = C(m - 1) + 1
        BY <3>1, <4>2 DEF C
      <4>4. C(m - 1) \in Nat
        BY <1>4, <4>1
      <4> QED BY <4>3, <4>4
    <3> QED BY <3>2
  <2>6. \A m \in spent : m <= k /\ C(m) <= Len(new.lines) => new.lines[C(m)] = line(m)
    <3> SUFFICES ASSUME NEW m \in spent, m <= k PROVE new.lines[C(m)] = line(m)
      OBVIOUS
    <3>1. CASE m = k
      BY <2>2, <2>3, <2>4, <3>1
    <3>2. CASE m <= k - 1
      <4>1. C(m) \in 1..Len(lines)
        BY <1>3, <1>7, <2>3, <2>5, <3>2
      <4> QED BY <1>5, <2>4, <3>2, <4>1
    <3> QED BY <1>7, <3>1, <3>2
  <2>7. Len(new.lines) <= MaxLines /\ Len(new.lines) + new.dropped = C(k)
        /\ ~(new.dropped > 0)
    BY <1>3, <1>8, <1>11, <2>1, <2>2, <2>3, <2>4
  <2> QED BY <1>0, <1>2, <2>6, <2>7
<1>12. (k \in spent /\ Len(lines) >= MaxLines) \/ (k \in spent /\ Len(lines) < MaxLines) \/ k \notin spent
  BY <1>3, <1>8
<1> QED BY <1>9, <1>10, <1>11, <1>12

LEMMA SpentHolds ==
  ASSUME NEW data \in PhotoRead, NEW now, data.kind \notin {"unreadable", "not_financial"}
  PROVE  LET result == Normalize(data, now) IN
         /\ Len(result.lines) + result.dropped = Cardinality(Spent(data))
         /\ \A m \in Spent(data) : Count(Spent(data), m) <= Len(result.lines) =>
              result.lines[Count(Spent(data), m)] = Line(data.items[m], data, now)
<1> DEFINE n == Len(data.items)
           spent == Spent(data)
<1>1. PICK run : /\ run[0] = NothingRead
                 /\ \A i \in 1..n : run[i] = ReadItem(run[i - 1], data.items[i], data, now)
                 /\ \A i \in 0..n : run[i] \in Reading(data, now)
                 /\ NormalizeIs(data, now, run[n])
  BY ReadFold
<1>2. n \in Nat /\ DOMAIN data.items = 1..n /\ spent \in SUBSET (1..n)
  BY DEF PhotoRead, Spent
<1>3. Count(spent, 0) = 0 /\ Count(spent, n) = Cardinality(spent)
  <2> HIDE DEF n, spent
  <2> QED BY <1>2, CountIs
<1> DEFINE S == {i \in 0..n : SpentInv(run[i], i, data, now)}
<1>4. 0 \in S
  <2>1. run[0] \in Reading(data, now) /\ run[0].lines = <<>> /\ run[0].dropped = 0
    BY <1>1, <1>2 DEF NothingRead
  <2>2. \A m \in spent : ~(m <= 0)
    BY <1>2
  <2>3. Len(run[0].lines) = 0 /\ 0 <= MaxLines
    BY <2>1, MaxLinesAssumption
  <2>4. SpentInv(run[0], 0, data, now)
    BY <1>3, <2>1, <2>2, <2>3 DEF SpentInv
  <2> QED BY <1>2, <2>4
<1>5. ASSUME NEW i \in 1..n, i - 1 \in S PROVE i \in S
  BY <1>1, <1>5, SpentStep
<1> HIDE DEF S
<1>6. \A i \in 0..n : i \in S
  BY <1>2, <1>4, <1>5, UpTo
<1>7. SpentInv(run[n], n, data, now)
  BY <1>2, <1>6 DEF S
<1>8. Normalize(data, now).lines = run[n].lines /\ Normalize(data, now).dropped = run[n].dropped
  <2>1. run[n] \in Reading(data, now)
    BY <1>1, <1>2
  <2> HIDE DEF n
  <2> QED BY <1>1, <2>1 DEF NormalizeIs, Reading
<1>9. \A m \in spent : m <= n
  BY <1>2
<1> HIDE DEF n
<1> QED BY <1>3, <1>7, <1>8, <1>9 DEF SpentInv


LEMMA SumFold ==
  ASSUME NEW amounts \in Seq(Nat)
  PROVE  \E run : /\ run[0] = 0
                  /\ \A i \in 0..Len(amounts) : run[i] \in Nat
                  /\ \A i \in 1..Len(amounts) : run[i] = run[i - 1] + amounts[i]
                  /\ FoldLeft(LAMBDA s, a : s + a, 0, amounts) = run[Len(amounts)]
<1> DEFINE n == Len(amounts)
           X == Nat
           empty == 0
           It[s \in SUBSET (DOMAIN amounts)] == IF s = {} THEN empty ELSE It[s \ {Max(s)}] + amounts[Max(s)]
           step == [i \in 1..n |-> [x \in X |-> x + amounts[i]]]
<1>1. FoldLeft(LAMBDA s, a : s + a, 0, amounts) = It[DOMAIN amounts]
  BY DEF FoldLeft, MapThenFoldSet
<1>2. \A i \in 1..n, x \in X : x + amounts[i] \in X
  OBVIOUS
<1>3. empty \in X /\ n \in Nat /\ DOMAIN amounts = 1..n
  OBVIOUS
<1> HIDE DEF X, empty, n
<1>4. step \in [1..n -> [X -> X]] /\ \A i \in 1..n, x \in X : step[i][x] = x + amounts[i]
  BY <1>2
<1> HIDE DEF step
<1>5. PICK it : FoldTable(it, n, X, empty, step)
  BY <1>3, <1>4, FoldExists
<1>6. /\ it \in [SUBSET (1..n) -> X] /\ it[{}] = empty
      /\ \A s \in SUBSET (1..n) : s # {} =>
           Max(s) \in 1..n /\ it[s \ {Max(s)}] \in X /\ it[s] = step[Max(s)][it[s \ {Max(s)}]]
  BY <1>5 DEF FoldTable
<1>7. it = [s \in SUBSET (DOMAIN amounts) |-> IF s = {} THEN empty ELSE it[s \ {Max(s)}] + amounts[Max(s)]]
  BY <1>3, <1>4, <1>6
<1>8. It = [s \in SUBSET (DOMAIN amounts) |-> IF s = {} THEN empty ELSE It[s \ {Max(s)}] + amounts[Max(s)]]
  BY <1>7
<1> HIDE DEF It
<1>9. It[{}] = empty /\ \A s \in SUBSET (1..n) :
        s # {} /\ It[s \ {Max(s)}] \in X => It[s] = step[Max(s)][It[s \ {Max(s)}]]
  <2>1. \A s \in SUBSET (1..n) : s # {} => Max(s) \in 1..n
    BY <1>6
  <2> QED BY <1>3, <1>4, <1>8, <2>1
<1>10. PICK run : FoldRun(run, It, n, X, empty, step)
  BY <1>3, <1>4, <1>9, FoldRuns
<1>11. \A i \in 1..n : run[i] = run[i - 1] + amounts[i]
  BY <1>3, <1>4, <1>10 DEF FoldRun
<1>12. FoldLeft(LAMBDA s, a : s + a, 0, amounts) = run[n]
  BY <1>1, <1>3, <1>10 DEF FoldRun
<1>13. run[0] = empty /\ \A i \in 0..n : run[i] \in X
  BY <1>10 DEF FoldRun
<1> QED BY <1>11, <1>12, <1>13 DEF n, X, empty

LEMMA SourceFold ==
  ASSUME NEW T, NEW lines \in Seq(T), \A i \in 1..Len(lines) : lines[i].source \in Nat
  PROVE  \E run : /\ run[0] = 0
                  /\ \A i \in 0..Len(lines) : run[i] \in Nat
                  /\ \A i \in 1..Len(lines) : run[i] = run[i - 1] + lines[i].source
                  /\ FoldLeft(LAMBDA sum, l : sum + l.source, 0, lines) = run[Len(lines)]
<1> DEFINE n == Len(lines)
           X == Nat
           empty == 0
           It[s \in SUBSET (DOMAIN lines)] == IF s = {} THEN empty ELSE It[s \ {Max(s)}] + lines[Max(s)].source
           step == [i \in 1..n |-> [x \in X |-> x + lines[i].source]]
<1>1. FoldLeft(LAMBDA sum, l : sum + l.source, 0, lines) = It[DOMAIN lines]
  BY DEF FoldLeft, MapThenFoldSet
<1>2. \A i \in 1..n, x \in X : x + lines[i].source \in X
  OBVIOUS
<1>3. empty \in X /\ n \in Nat /\ DOMAIN lines = 1..n
  OBVIOUS
<1> HIDE DEF X, empty, n
<1>4. step \in [1..n -> [X -> X]] /\ \A i \in 1..n, x \in X : step[i][x] = x + lines[i].source
  BY <1>2
<1> HIDE DEF step
<1>5. PICK it : FoldTable(it, n, X, empty, step)
  BY <1>3, <1>4, FoldExists
<1>6. /\ it \in [SUBSET (1..n) -> X] /\ it[{}] = empty
      /\ \A s \in SUBSET (1..n) : s # {} =>
           Max(s) \in 1..n /\ it[s \ {Max(s)}] \in X /\ it[s] = step[Max(s)][it[s \ {Max(s)}]]
  BY <1>5 DEF FoldTable
<1>7. it = [s \in SUBSET (DOMAIN lines) |-> IF s = {} THEN empty ELSE it[s \ {Max(s)}] + lines[Max(s)].source]
  BY <1>3, <1>4, <1>6
<1>8. It = [s \in SUBSET (DOMAIN lines) |-> IF s = {} THEN empty ELSE It[s \ {Max(s)}] + lines[Max(s)].source]
  BY <1>7
<1> HIDE DEF It
<1>9. It[{}] = empty /\ \A s \in SUBSET (1..n) :
        s # {} /\ It[s \ {Max(s)}] \in X => It[s] = step[Max(s)][It[s \ {Max(s)}]]
  <2>1. \A s \in SUBSET (1..n) : s # {} => Max(s) \in 1..n
    BY <1>6
  <2> QED BY <1>3, <1>4, <1>8, <2>1
<1>10. PICK run : FoldRun(run, It, n, X, empty, step)
  BY <1>3, <1>4, <1>9, FoldRuns
<1>11. \A i \in 1..n : run[i] = run[i - 1] + lines[i].source
  BY <1>3, <1>4, <1>10 DEF FoldRun
<1>12. FoldLeft(LAMBDA sum, l : sum + l.source, 0, lines) = run[n]
  BY <1>1, <1>3, <1>10 DEF FoldRun
<1>13. run[0] = empty /\ \A i \in 0..n : run[i] \in X
  BY <1>10 DEF FoldRun
<1> QED BY <1>11, <1>12, <1>13 DEF n, X, empty

LEMMA LineAmountType ==
  ASSUME NEW item \in ItemRead
  PROVE  LineAmount(item) \in OrNone(Nat)
<1>1. /\ item.total \in OrNone(Nat) /\ item.price \in OrNone(Nat) /\ item.quantity \in OrNone(Nat)
  BY DEF ItemRead
<1>2. \A a, b \in Nat : a * b \in Nat
  OBVIOUS
<1> QED BY <1>1, <1>2 DEF LineAmount, OrNone

LEMMA WorthFold ==
  ASSUME NEW items \in Seq(ItemRead)
  PROVE  \E run : /\ run[0] = 0
                  /\ \A i \in 0..Len(items) : run[i] \in Nat
                  /\ \A i \in 1..Len(items) : run[i] = (IF LineAmount(items[i]) = None THEN run[i - 1] ELSE run[i - 1] + LineAmount(items[i]))
                  /\ Worth(items) = run[Len(items)]
<1> DEFINE n == Len(items)
           X == Nat
           empty == 0
           It[s \in SUBSET (DOMAIN items)] == IF s = {} THEN empty ELSE (IF LineAmount(items[Max(s)]) = None THEN It[s \ {Max(s)}] ELSE It[s \ {Max(s)}] + LineAmount(items[Max(s)]))
           step == [i \in 1..n |-> [x \in X |-> (IF LineAmount(items[i]) = None THEN x ELSE x + LineAmount(items[i]))]]
<1>1. Worth(items) = It[DOMAIN items]
  BY DEF Worth, FoldLeft, MapThenFoldSet
<1>2. \A i \in 1..n, x \in X : (IF LineAmount(items[i]) = None THEN x ELSE x + LineAmount(items[i])) \in X
  BY LineAmountType DEF OrNone
<1>3. empty \in X /\ n \in Nat /\ DOMAIN items = 1..n
  OBVIOUS
<1> HIDE DEF X, empty, n
<1>4. step \in [1..n -> [X -> X]] /\ \A i \in 1..n, x \in X : step[i][x] = (IF LineAmount(items[i]) = None THEN x ELSE x + LineAmount(items[i]))
  BY <1>2
<1> HIDE DEF step
<1>5. PICK it : FoldTable(it, n, X, empty, step)
  BY <1>3, <1>4, FoldExists
<1>6. /\ it \in [SUBSET (1..n) -> X] /\ it[{}] = empty
      /\ \A s \in SUBSET (1..n) : s # {} =>
           Max(s) \in 1..n /\ it[s \ {Max(s)}] \in X /\ it[s] = step[Max(s)][it[s \ {Max(s)}]]
  BY <1>5 DEF FoldTable
<1>7. it = [s \in SUBSET (DOMAIN items) |-> IF s = {} THEN empty ELSE (IF LineAmount(items[Max(s)]) = None THEN it[s \ {Max(s)}] ELSE it[s \ {Max(s)}] + LineAmount(items[Max(s)]))]
  BY <1>3, <1>4, <1>6
<1>8. It = [s \in SUBSET (DOMAIN items) |-> IF s = {} THEN empty ELSE (IF LineAmount(items[Max(s)]) = None THEN It[s \ {Max(s)}] ELSE It[s \ {Max(s)}] + LineAmount(items[Max(s)]))]
  BY <1>7
<1> HIDE DEF It
<1>9. It[{}] = empty /\ \A s \in SUBSET (1..n) :
        s # {} /\ It[s \ {Max(s)}] \in X => It[s] = step[Max(s)][It[s \ {Max(s)}]]
  <2>1. \A s \in SUBSET (1..n) : s # {} => Max(s) \in 1..n
    BY <1>6
  <2> QED BY <1>3, <1>4, <1>8, <2>1
<1>10. PICK run : FoldRun(run, It, n, X, empty, step)
  BY <1>3, <1>4, <1>9, FoldRuns
<1>11. \A i \in 1..n : run[i] = (IF LineAmount(items[i]) = None THEN run[i - 1] ELSE run[i - 1] + LineAmount(items[i]))
  BY <1>3, <1>4, <1>10 DEF FoldRun
<1>12. Worth(items) = run[n]
  BY <1>1, <1>3, <1>10 DEF FoldRun
<1>13. run[0] = empty /\ \A i \in 0..n : run[i] \in X
  BY <1>10 DEF FoldRun
<1> QED BY <1>11, <1>12, <1>13 DEF n, X, empty

\* The sum that is compared is that of the lines.
LEMMA SameSum ==
  ASSUME NEW T, NEW lines \in Seq(T), \A i \in 1..Len(lines) : lines[i].source \in Nat
  PROVE  LET sum == FoldLeft(LAMBDA s, a : s + a, 0, [i \in DOMAIN lines |-> lines[i].source])
             read == FoldLeft(LAMBDA n, l : n + l.source, 0, lines)
         IN  sum \in Nat /\ sum = read
<1> DEFINE n == Len(lines)
           amounts == [i \in DOMAIN lines |-> lines[i].source]
           sum == FoldLeft(LAMBDA s, a : s + a, 0, amounts)
           read == FoldLeft(LAMBDA m, l : m + l.source, 0, lines)
<1>1. n \in Nat /\ DOMAIN lines = 1..n
  OBVIOUS
<1>2. amounts \in Seq(Nat) /\ Len(amounts) = n /\ \A i \in 1..n : amounts[i] = lines[i].source
  BY <1>1
<1>3. PICK left : /\ left[0] = 0
                  /\ \A i \in 0..n : left[i] \in Nat
                  /\ \A i \in 1..n : left[i] = left[i - 1] + amounts[i]
                  /\ sum = left[n]
  <2> HIDE DEF amounts, n
  <2> QED BY <1>2, SumFold
<1>4. PICK right : /\ right[0] = 0
                   /\ \A i \in 0..n : right[i] \in Nat
                   /\ \A i \in 1..n : right[i] = right[i - 1] + lines[i].source
                   /\ read = right[n]
  BY SourceFold
<1> HIDE DEF sum, read, amounts, n
<1> DEFINE S == {i \in 0..n : left[i] = right[i]}
<1>5. 0 \in S
  BY <1>1, <1>3, <1>4
<1>6. ASSUME NEW i \in 1..n, i - 1 \in S PROVE i \in S
  <2>1. left[i - 1] = right[i - 1]
    BY <1>6
  <2>2. left[i] = left[i - 1] + amounts[i] /\ right[i] = right[i - 1] + lines[i].source
    BY <1>3, <1>4
  <2>3. i \in 0..n
    BY <1>1
  <2> HIDE DEF S
  <2> QED BY <1>2, <2>1, <2>2, <2>3 DEF S
<1> HIDE DEF S
<1>7. \A i \in 0..n : i \in S
  BY <1>1, <1>5, <1>6, UpTo
<1>8. left[n] = right[n] /\ left[n] \in Nat
  BY <1>1, <1>3, <1>7 DEF S
<1>9. sum \in Nat /\ sum = read
  BY <1>3, <1>4, <1>8
<1> QED BY <1>9 DEF sum, read, amounts

\* The guard of a receipt, from the totals that are printed on it.
LEMMA TotalsHold ==
  ASSUME NEW data \in PhotoRead, NEW now, NEW lines \in Seq(LineSet(data, now)),
         NEW sum \in Nat, data.itemsTotal \in {None, sum},
         data.payable \in {None, sum + data.tax - data.discount},
         CheckTotals(lines, data) \in {"ok", "mismatch"}
  PROVE  LET read == FoldLeft(LAMBDA n, l : n + l.source, 0, lines)
             check == CheckTotals(lines, data)
         IN  /\ read = sum => check = "ok"
             /\ check = "ok" =>
                  \/ 1000 * (sum - read) <= 3 * sum
                  \/ data.payable # None /\ Close(read, data.payable)
<1> DEFINE amounts == [i \in DOMAIN lines |-> lines[i].source]
           added == FoldLeft(LAMBDA s, a : s + a, 0, amounts)
           read == FoldLeft(LAMBDA n, l : n + l.source, 0, lines)
           check == CheckTotals(lines, data)
<1>1. None \notin {"ok", "mismatch"}
  BY NamesAssumption
<1>2. /\ lines # <<>> /\ ~ \E i \in DOMAIN lines : amounts[i] = None
      /\ ~(data.itemsTotal = None /\ data.payable = None)
      /\ check = IF \/ Close(added, Expected(data))
                    \/ data.itemsTotal = None /\ Close(added, data.payable)
                 THEN "ok" ELSE "mismatch"
  <2>1. check = IF lines = <<>> THEN None
      ELSE IF \E i \in DOMAIN lines : amounts[i] = None THEN "unverifiable"
      ELSE IF data.itemsTotal = None /\ data.payable = None THEN None
      ELSE IF \/ Close(added, Expected(data))
              \/ data.itemsTotal = None /\ Close(added, data.payable)
           THEN "ok" ELSE "mismatch"
    BY DEF CheckTotals
  <2> HIDE DEF amounts, added
  <2> QED BY <1>1, <2>1
<1>3. \A i \in 1..Len(lines) : lines[i].source \in Nat
  <2> SUFFICES ASSUME NEW i \in 1..Len(lines) PROVE lines[i].source \in Nat
    OBVIOUS
  <2>1. PICK item \in ItemRead : lines[i] = Line(item, data, now)
    BY DEF LineSet
  <2>2. lines[i].source = LineAmount(item)
    BY <2>1 DEF Line
  <2>3. lines[i].source # None
    <3>1. i \in DOMAIN lines /\ amounts[i] = lines[i].source
      OBVIOUS
    <3> HIDE DEF amounts, added, check
    <3> QED BY <1>2, <3>1
  <2> QED BY <2>2, <2>3, LineAmountType DEF OrNone
<1>4. added \in Nat /\ added = read
  BY <1>3, SameSum
<1> HIDE DEF added, read, check
<1>5. data.tax \in Nat /\ data.discount \in Nat
  BY DEF PhotoRead
<1>6. Expected(data) = sum
  BY <1>2, <1>5 DEF Expected
<1>7. Close(sum, sum)
  BY DEF Close
<1>8. Close(read, sum) => 1000 * (sum - read) <= 3 * sum
  BY <1>4 DEF Close
<1>9. /\ read = sum => check = "ok"
      /\ check = "ok" => \/ 1000 * (sum - read) <= 3 * sum
                         \/ data.payable # None /\ Close(read, data.payable)
  <2> HIDE DEF amounts
  <2> QED BY <1>2, <1>4, <1>6, <1>7, <1>8
<1> QED BY <1>9 DEF read, check

-----------------------------------------------------------------------------
(* Tags.                                                                   *)

Score == 0..100

LEMMA ScoresAre ==
  /\ \A x \in Score : x \in Nat /\ x <= 100
  /\ \A names \in Seq(Score) : DOMAIN names = 1..Len(names) /\ \A k \in DOMAIN names : names[k] \in Score
<1>1. \A x \in Score : x \in Nat /\ x <= 100
  BY DEF Score
<1>2. ASSUME NEW names \in Seq(Score)
      PROVE  DOMAIN names = 1..Len(names) /\ \A k \in DOMAIN names : names[k] \in Score
  OBVIOUS
<1> QED BY <1>1, <1>2

\* What the search has found: the tag, or 0, and the score of its name.
Found == [tag : Nat, score : Nat]

\* One name of the n-th tag.
CompareName(b, n, score) == IF score > b.score THEN [tag |-> n, score |-> score] ELSE b

NamesRun(run, best, n, names) ==
  /\ run[0] = best
  /\ \A i \in 0..Len(names) : run[i] \in Found
  /\ \A i \in 1..Len(names) : run[i] = CompareName(run[i - 1], n, names[i])
  /\ CompareNames(best, n, names) = run[Len(names)]

LEMMA NamesFold ==
  ASSUME NEW best \in Found, NEW n \in Nat, NEW names \in Seq(Score)
  PROVE  \E run : NamesRun(run, best, n, names)
<1> DEFINE m == Len(names)
           X == Found
           It[s \in SUBSET (DOMAIN names)] == IF s = {} THEN best ELSE CompareName(It[s \ {Max(s)}], n, names[Max(s)])
           step == [i \in 1..m |-> [x \in X |-> CompareName(x, n, names[i])]]
<1>1. CompareNames(best, n, names) = It[DOMAIN names]
  BY DEF CompareNames, CompareName, FoldLeft, MapThenFoldSet
<1>2. \A i \in 1..m, x \in X : CompareName(x, n, names[i]) \in X
  <2>1. \A i \in 1..m : names[i] \in Score
    OBVIOUS
  <2>2. \A i \in 1..m : names[i] \in Nat
    BY <2>1, ScoresAre
  <2> QED BY <2>2 DEF CompareName, Found
<1>3. best \in X /\ m \in Nat /\ DOMAIN names = 1..m
  OBVIOUS
<1> HIDE DEF X, m
<1>4. step \in [1..m -> [X -> X]] /\ \A i \in 1..m, x \in X : step[i][x] = CompareName(x, n, names[i])
  BY <1>2
<1> HIDE DEF step
<1>5. PICK it : FoldTable(it, m, X, best, step)
  BY <1>3, <1>4, FoldExists
<1>6. /\ it \in [SUBSET (1..m) -> X] /\ it[{}] = best
      /\ \A s \in SUBSET (1..m) : s # {} =>
           Max(s) \in 1..m /\ it[s \ {Max(s)}] \in X /\ it[s] = step[Max(s)][it[s \ {Max(s)}]]
  BY <1>5 DEF FoldTable
<1>7. it = [s \in SUBSET (DOMAIN names) |-> IF s = {} THEN best ELSE CompareName(it[s \ {Max(s)}], n, names[Max(s)])]
  BY <1>3, <1>4, <1>6
<1>8. It = [s \in SUBSET (DOMAIN names) |-> IF s = {} THEN best ELSE CompareName(It[s \ {Max(s)}], n, names[Max(s)])]
  BY <1>7
<1> HIDE DEF It
<1>9. It[{}] = best /\ \A s \in SUBSET (1..m) :
        s # {} /\ It[s \ {Max(s)}] \in X => It[s] = step[Max(s)][It[s \ {Max(s)}]]
  <2>1. \A s \in SUBSET (1..m) : s # {} => Max(s) \in 1..m
    BY <1>6
  <2> QED BY <1>3, <1>4, <1>8, <2>1
<1>10. PICK run : FoldRun(run, It, m, X, best, step)
  BY <1>3, <1>4, <1>9, FoldRuns
<1>11. \A i \in 1..m : run[i] = CompareName(run[i - 1], n, names[i])
  BY <1>3, <1>4, <1>10 DEF FoldRun
<1>12. CompareNames(best, n, names) = run[m]
  BY <1>1, <1>3, <1>10 DEF FoldRun
<1>13. run[0] = best /\ \A i \in 0..m : run[i] \in X
  BY <1>10 DEF FoldRun
<1> QED BY <1>11, <1>12, <1>13 DEF m, X, NamesRun

\* After the first k names of the n-th tag: the best of them, unless none is
\* better than what was found before.
NamesInv(b, k, best, n, names) ==
  /\ b = best \/ (b.tag = n /\ b.score > best.score /\ \E j \in 1..k : names[j] = b.score)
  /\ \A j \in 1..k : names[j] <= b.score

LEMMA NamesHold ==
  ASSUME NEW best \in Found, NEW n \in Nat, NEW names \in Seq(Score)
  PROVE  /\ CompareNames(best, n, names) \in Found
         /\ NamesInv(CompareNames(best, n, names), Len(names), best, n, names)
<1> DEFINE m == Len(names)
<1>1. m \in Nat /\ \A i \in 1..m : names[i] \in Nat
  <2>1. \A i \in 1..m : names[i] \in Score
    OBVIOUS
  <2> QED BY <2>1, ScoresAre
<1>7. PICK run : NamesRun(run, best, n, names)
  BY NamesFold
<1>2. /\ run[0] = best /\ \A i \in 0..m : run[i] \in Found
      /\ \A i \in 1..m : run[i] = CompareName(run[i - 1], n, names[i])
      /\ CompareNames(best, n, names) = run[m]
  BY <1>7 DEF NamesRun
<1> DEFINE S == {i \in 0..m : NamesInv(run[i], i, best, n, names)}
<1>3. 0 \in S
  BY <1>1, <1>2 DEF NamesInv
<1>4. ASSUME NEW i \in 1..m, i - 1 \in S PROVE i \in S
  <2> DEFINE old == run[i - 1]
             new == run[i]
  <2>1. NamesInv(old, i - 1, best, n, names) /\ i \in 0..m /\ i - 1 \in 0..m
    BY <1>1, <1>4
  <2>2. new = CompareName(old, n, names[i]) /\ old \in Found /\ names[i] \in Nat /\ best.score \in Nat
    BY <1>1, <1>2, <2>1 DEF Found
  <2>3. \A j \in 1..i : j = i \/ j \in 1..i - 1
    BY <1>1
  <2>4. \A j \in 1..i - 1 : j \in 1..i /\ names[j] \in Nat
    BY <1>1
  <2> HIDE DEF old, new, m
  <2>5. CASE names[i] > old.score
    <3>1. new = [tag |-> n, score |-> names[i]]
      BY <2>2, <2>5 DEF CompareName
    <3>2. old.score >= best.score /\ old.score \in Nat
      BY <2>1, <2>2 DEF NamesInv, Found
    <3>3. new.tag = n /\ new.score = names[i] /\ new.score > best.score
      BY <2>2, <2>5, <3>1, <3>2
    <3>4. \A j \in 1..i : names[j] <= new.score
      BY <2>1, <2>2, <2>3, <2>4, <2>5, <3>2, <3>3 DEF NamesInv
    <3>5. i \in 1..i
      BY <1>4
    <3>6. NamesInv(new, i, best, n, names)
      BY <3>3, <3>4, <3>5 DEF NamesInv
    <3> QED BY <2>1, <3>6 DEF S, new
  <2>6. CASE ~(names[i] > old.score)
    <3>1. new = old /\ names[i] <= old.score
      BY <2>2, <2>6 DEF CompareName, Found
    <3>2. NamesInv(new, i, best, n, names)
      BY <2>1, <2>3, <2>4, <3>1 DEF NamesInv
    <3> QED BY <2>1, <3>2 DEF S, new
  <2> QED BY <2>5, <2>6
<1> HIDE DEF S
<1>5. \A i \in 0..m : i \in S
  BY <1>1, <1>3, <1>4, UpTo
<1>6. m \in S /\ m \in 0..m
  BY <1>1, <1>5
<1> QED BY <1>2, <1>6 DEF S

\* One tag of the bank; the search is over once a name is the same.
Scores == Seq(Seq(Score))
SearchTag(b, n, scores) == IF Same(b) THEN b ELSE CompareNames(b, n, scores[n])

LEMMA SearchFold ==
  ASSUME NEW scores \in Scores
  PROVE  \E run : /\ run[0] = [tag |-> 0, score |-> 0]
                  /\ \A i \in 0..Len(scores) : run[i] \in Found
                  /\ \A i \in 1..Len(scores) : run[i] = SearchTag(run[i - 1], i, scores)
                  /\ Search(scores) = run[Len(scores)]
<1> DEFINE m == Len(scores)
           X == Found
           none == [tag |-> 0, score |-> 0]
           places == [n \in DOMAIN scores |-> n]
           It[s \in SUBSET (DOMAIN places)] == IF s = {} THEN none ELSE SearchTag(It[s \ {Max(s)}], places[Max(s)], scores)
           step == [i \in 1..m |-> [x \in X |-> SearchTag(x, places[i], scores)]]
<1>1. Search(scores) = It[DOMAIN places]
  BY DEF Search, SearchTag, FoldLeft, MapThenFoldSet
<1>2. none \in X /\ m \in Nat /\ DOMAIN scores = 1..m /\ DOMAIN places = 1..m
  BY DEF Found, Scores
<1>3. \A i \in 1..m : places[i] = i /\ i \in Nat /\ scores[i] \in Seq(Score)
  BY <1>2 DEF Scores
<1> HIDE DEF places
<1>4. \A i \in 1..m, x \in X : SearchTag(x, places[i], scores) \in X
  BY <1>3, NamesHold DEF SearchTag
<1> HIDE DEF X, none, m
<1>5. step \in [1..m -> [X -> X]] /\ \A i \in 1..m, x \in X : step[i][x] = SearchTag(x, places[i], scores)
  BY <1>4
<1> HIDE DEF step
<1>6. PICK it : FoldTable(it, m, X, none, step)
  BY <1>2, <1>5, FoldExists
<1>7. /\ it \in [SUBSET (1..m) -> X] /\ it[{}] = none
      /\ \A s \in SUBSET (1..m) : s # {} =>
           Max(s) \in 1..m /\ it[s \ {Max(s)}] \in X /\ it[s] = step[Max(s)][it[s \ {Max(s)}]]
  BY <1>6 DEF FoldTable
<1>8. it = [s \in SUBSET (DOMAIN places) |-> IF s = {} THEN none ELSE SearchTag(it[s \ {Max(s)}], places[Max(s)], scores)]
  BY <1>2, <1>5, <1>7
<1>9. It = [s \in SUBSET (DOMAIN places) |-> IF s = {} THEN none ELSE SearchTag(It[s \ {Max(s)}], places[Max(s)], scores)]
  BY <1>8
<1> HIDE DEF It
<1>10. It[{}] = none /\ \A s \in SUBSET (1..m) :
         s # {} /\ It[s \ {Max(s)}] \in X => It[s] = step[Max(s)][It[s \ {Max(s)}]]
  <2>1. \A s \in SUBSET (1..m) : s # {} => Max(s) \in 1..m
    BY <1>7
  <2> QED BY <1>2, <1>5, <1>9, <2>1
<1>11. PICK run : FoldRun(run, It, m, X, none, step)
  BY <1>2, <1>5, <1>10, FoldRuns
<1>12. \A i \in 1..m : run[i] = SearchTag(run[i - 1], i, scores)
  BY <1>2, <1>3, <1>5, <1>11 DEF FoldRun
<1>13. Search(scores) = run[m]
  BY <1>1, <1>2, <1>11 DEF FoldRun
<1>14. run[0] = none /\ \A i \in 0..m : run[i] \in X
  BY <1>11 DEF FoldRun
<1> QED BY <1>12, <1>13, <1>14 DEF m, X, none

\* Of the first n tags the first that is resembled most; 0 if none is at all.
FoundInv(b, n, scores) ==
  /\ IF b.tag = 0 THEN b.score = 0
     ELSE b.tag \in 1..n /\ \E k \in DOMAIN scores[b.tag] : scores[b.tag][k] = b.score
  /\ \A j \in 1..n : \A k \in DOMAIN scores[j] :
       IF j < b.tag THEN scores[j][k] < b.score ELSE scores[j][k] <= b.score

\* A tag that is no better leaves what was found.
LEMMA FoundStays ==
  ASSUME NEW scores, NEW n \in Nat, NEW b, n \in 1..n, b.tag # 0 => b.tag < n,
         \A j \in 1..n : j = n \/ j \in 1..n - 1, \A j \in 1..n - 1 : j \in 1..n,
         b.tag \in Nat, FoundInv(b, n - 1, scores),
         \A k \in DOMAIN scores[n] : scores[n][k] <= b.score
  PROVE  FoundInv(b, n, scores)
<1>1. IF b.tag = 0 THEN b.score = 0
      ELSE b.tag \in 1..n /\ \E k \in DOMAIN scores[b.tag] : scores[b.tag][k] = b.score
  BY DEF FoundInv
<1>2. ASSUME NEW j \in 1..n, NEW k \in DOMAIN scores[j]
      PROVE  IF j < b.tag THEN scores[j][k] < b.score ELSE scores[j][k] <= b.score
  <2>1. CASE j = n
    BY <2>1
  <2>2. CASE j # n
    BY <2>2 DEF FoundInv
  <2> QED BY <2>1, <2>2
<1> QED BY <1>1, <1>2 DEF FoundInv

LEMMA SearchStep ==
  ASSUME NEW scores \in Scores, NEW n \in 1..Len(scores), NEW b \in Found,
         FoundInv(b, n - 1, scores)
  PROVE  FoundInv(SearchTag(b, n, scores), n, scores)
<1> DEFINE new == SearchTag(b, n, scores)
           names == scores[n]
<1>1. /\ names \in Seq(Score) /\ n \in Nat /\ n \in 1..n /\ DOMAIN names = 1..Len(names)
      /\ \A j \in 1..n : j = n \/ j \in 1..n - 1
      /\ \A j \in 1..n - 1 : j \in 1..n /\ j < n
      /\ \A j \in 1..n : \A k \in DOMAIN scores[j] : scores[j][k] \in Nat /\ scores[j][k] <= 100
  <2>1. scores \in Seq(Seq(Score)) /\ \A j \in 1..n : j \in 1..Len(scores)
    BY DEF Scores
  <2>2. \A j \in 1..n : scores[j] \in Seq(Score)
    BY <2>1
  <2>3. ASSUME NEW j \in 1..n, NEW k \in DOMAIN scores[j] PROVE scores[j][k] \in Nat /\ scores[j][k] <= 100
    BY <2>2, <2>3, ScoresAre
  <2>4. n \in Nat /\ n \in 1..n /\ DOMAIN names = 1..Len(names) /\ names \in Seq(Score)
    BY <2>2, ScoresAre
  <2> QED BY <2>3, <2>4
<1>2. b.score \in Nat /\ b.tag \in Nat /\ (b.tag # 0 => b.tag < n)
  BY <1>1 DEF Found, FoundInv
<1>3. CASE Same(b)
  <2>1. new = b /\ b.score >= 100
    BY <1>3 DEF SearchTag, Same
  <2>2. ASSUME NEW k \in DOMAIN names PROVE names[k] <= b.score
    <3>1. names[k] \in Nat /\ names[k] <= 100
      BY <1>1
    <3> QED BY <1>2, <2>1, <3>1
  <2> HIDE DEF new
  <2>3. FoundInv(b, n, scores)
    BY <1>1, <1>2, <2>2, FoundStays
  <2> QED BY <2>1, <2>3 DEF new
<1>4. CASE ~Same(b)
  <2>1. new \in Found /\ NamesInv(new, Len(names), b, n, names)
    BY <1>1, <1>4, NamesHold DEF SearchTag
  <2> HIDE DEF new, names
  <2>2. \A k \in DOMAIN names : names[k] <= new.score
    BY <1>1, <2>1 DEF NamesInv
  <2>3. CASE new = b
    BY <1>1, <1>2, <2>2, <2>3, FoundStays DEF names, new
  <2>4. CASE new # b
    <3>1. new.tag = n /\ new.score > b.score /\ \E k \in DOMAIN names : names[k] = new.score
      BY <1>1, <2>1, <2>4 DEF NamesInv
    <3>2. new.score \in Nat
      BY <2>1 DEF Found
    <3>3. \A j \in 1..n - 1 : \A k \in DOMAIN scores[j] : scores[j][k] < new.score
      <4> SUFFICES ASSUME NEW j \in 1..n - 1, NEW k \in DOMAIN scores[j] PROVE scores[j][k] < new.score
        OBVIOUS
      <4>1. scores[j][k] \in Nat
        BY <1>1
      <4>2. scores[j][k] < b.score \/ scores[j][k] <= b.score
        BY DEF FoundInv
      <4> DEFINE x == scores[j][k]
      <4> HIDE DEF x
      <4> QED BY <1>2, <3>1, <3>2, <4>1, <4>2 DEF x
    <3>4. n # 0 /\ n \in 1..n /\ ~(n < n)
      BY <1>1
    <3>5. FoundInv(new, n, scores)
      BY <1>1, <2>2, <3>1, <3>3, <3>4 DEF FoundInv, names
    <3> QED BY <3>5 DEF new
  <2> QED BY <2>3, <2>4
<1> QED BY <1>3, <1>4

LEMMA SearchHolds ==
  ASSUME NEW scores \in Scores
  PROVE  Search(scores) \in Found /\ FoundInv(Search(scores), Len(scores), scores)
<1> DEFINE m == Len(scores)
<1>1. m \in Nat
  BY DEF Scores
<1>2. PICK run : /\ run[0] = [tag |-> 0, score |-> 0] /\ \A i \in 0..m : run[i] \in Found
                 /\ \A i \in 1..m : run[i] = SearchTag(run[i - 1], i, scores)
                 /\ Search(scores) = run[m]
  BY SearchFold
<1> DEFINE S == {i \in 0..m : FoundInv(run[i], i, scores)}
<1>3. 0 \in S
  BY <1>1, <1>2 DEF FoundInv
<1>4. ASSUME NEW i \in 1..m, i - 1 \in S PROVE i \in S
  <2>1. i \in 0..m /\ i - 1 \in 0..m
    BY <1>1
  <2>2. run[i - 1] \in Found /\ FoundInv(run[i - 1], i - 1, scores)
    BY <1>2, <1>4, <2>1
  <2> QED BY <1>2, <2>1, <2>2, SearchStep
<1> HIDE DEF S
<1>5. \A i \in 0..m : i \in S
  BY <1>1, <1>3, <1>4, UpTo
<1>6. m \in S /\ m \in 0..m
  BY <1>1, <1>5
<1> QED BY <1>2, <1>6 DEF S

Reaches(scores, i, x) == \E k \in DOMAIN scores[i] : scores[i][k] >= x
Beats(scores, i, x) == \E k \in DOMAIN scores[i] : scores[i][k] > x
IsBest(scores, i) ==
  \A j \in DOMAIN scores : \A k \in DOMAIN scores[j] :
    IF j < i THEN Beats(scores, i, scores[j][k]) ELSE Reaches(scores, i, scores[j][k])

LEMMA BestTagIs ==
  ASSUME NEW scores \in Scores
  PROVE  IF \E i \in DOMAIN scores : Reaches(scores, i, Threshold)
         THEN BestTag(scores) \in DOMAIN scores /\ IsBest(scores, BestTag(scores))
         ELSE BestTag(scores) = 0
<1> DEFINE b == Search(scores)
<1>1. /\ b \in Found /\ FoundInv(b, Len(scores), scores)
      /\ BestTag(scores) = IF b.score >= Threshold THEN b.tag ELSE 0
  BY SearchHolds DEF BestTag
<1> HIDE DEF b
<1>2. /\ DOMAIN scores = 1..Len(scores) /\ Threshold \in 1..100 /\ b.score \in Nat /\ b.tag \in Nat
      /\ \A j \in DOMAIN scores : \A k \in DOMAIN scores[j] : scores[j][k] \in Nat
  <2>1. \A j \in DOMAIN scores : scores[j] \in Seq(Score)
    BY DEF Scores
  <2>2. ASSUME NEW j \in DOMAIN scores, NEW k \in DOMAIN scores[j] PROVE scores[j][k] \in Nat
    BY <2>1, <2>2, ScoresAre
  <2>3. DOMAIN scores = 1..Len(scores)
    BY DEF Scores
  <2> QED BY <1>1, <2>2, <2>3, ThresholdAssumption DEF Found
<1>3. b.score \in Nat /\ Threshold \in Nat /\ Threshold > 0
  BY <1>1, ThresholdAssumption DEF Found
<1>4. CASE b.tag = 0
  <2>1. b.score = 0 /\ \A j \in DOMAIN scores : \A k \in DOMAIN scores[j] : scores[j][k] <= 0
    BY <1>1, <1>2, <1>4 DEF FoundInv
  <2>2. ASSUME NEW i \in DOMAIN scores, NEW k \in DOMAIN scores[i], scores[i][k] >= Threshold
        PROVE  FALSE
    <3> DEFINE x == scores[i][k]
    <3>1. x \in Nat /\ x <= 0 /\ x >= Threshold
      BY <1>2, <2>1, <2>2
    <3> HIDE DEF x
    <3> QED BY <1>3, <3>1
  <2> QED BY <1>1, <1>4, <2>2 DEF Reaches
<1>5. CASE b.tag # 0
  <2>1. b.tag \in DOMAIN scores /\ \E k \in DOMAIN scores[b.tag] : scores[b.tag][k] = b.score
    BY <1>1, <1>2, <1>5 DEF FoundInv
  <2>2. \A j \in DOMAIN scores : \A k \in DOMAIN scores[j] :
          IF j < b.tag THEN scores[j][k] < b.score ELSE scores[j][k] <= b.score
    BY <1>1, <1>2 DEF FoundInv
  <2>3. (\E i \in DOMAIN scores : Reaches(scores, i, Threshold)) <=> b.score >= Threshold
    <3>1. ASSUME NEW i \in DOMAIN scores, NEW k \in DOMAIN scores[i], scores[i][k] >= Threshold
          PROVE  b.score >= Threshold
      <4> DEFINE x == scores[i][k]
      <4>1. x \in Nat /\ x >= Threshold /\ (x < b.score \/ x <= b.score)
        BY <1>2, <2>2, <3>1
      <4> HIDE DEF x
      <4> QED BY <1>3, <4>1
    <3> QED BY <2>1, <3>1 DEF Reaches
  <2>4. IsBest(scores, b.tag)
    BY <1>2, <2>1, <2>2 DEF IsBest, Reaches, Beats
  <2> QED BY <1>1, <2>1, <2>3, <2>4
<1> QED BY <1>4, <1>5

\* One suggestion, and what is kept meanwhile.
MatchTag(r, scores) ==
  IF BestTag(scores) = 0 THEN [r EXCEPT !.unmatched = Append(@, scores)]
  ELSE IF Contains(r.matched, BestTag(scores)) THEN r
  ELSE [r EXCEPT !.matched = Append(@, BestTag(scores))]
Matching == [matched : Seq(Nat), unmatched : Seq(Scores)]

LEMMA MatchTagType ==
  ASSUME NEW r \in Matching, NEW scores \in Scores
  PROVE  MatchTag(r, scores) \in Matching
<1>1. r.matched \in Seq(Nat) /\ r.unmatched \in Seq(Scores)
  BY DEF Matching
<1>2. BestTag(scores) \in Nat
  <2>1. DOMAIN scores \in SUBSET Nat
    BY DEF Scores
  <2> QED BY <2>1, BestTagIs
<1>3. Append(r.matched, BestTag(scores)) \in Seq(Nat) /\ Append(r.unmatched, scores) \in Seq(Scores)
  BY <1>1, <1>2
<1>4. /\ [r EXCEPT !.unmatched = Append(@, scores)] \in Matching
      /\ [r EXCEPT !.matched = Append(@, BestTag(scores))] \in Matching
  BY <1>3 DEF Matching
<1> QED BY <1>4 DEF MatchTag

LEMMA MatchFold ==
  ASSUME NEW suggested \in Seq(Scores)
  PROVE  \E run : /\ run[0] = [matched |-> <<>>, unmatched |-> <<>>]
                  /\ \A i \in 0..Len(suggested) : run[i] \in Matching
                  /\ \A i \in 1..Len(suggested) : run[i] = MatchTag(run[i - 1], suggested[i])
                  /\ Reconcile(suggested) = run[Len(suggested)]
<1> DEFINE n == Len(suggested)
           X == Matching
           empty == [matched |-> <<>>, unmatched |-> <<>>]
           It[s \in SUBSET (DOMAIN suggested)] == IF s = {} THEN empty ELSE MatchTag(It[s \ {Max(s)}], suggested[Max(s)])
           step == [i \in 1..n |-> [x \in X |-> MatchTag(x, suggested[i])]]
<1>1. Reconcile(suggested) = It[DOMAIN suggested]
  BY DEF Reconcile, MatchTag, FoldLeft, MapThenFoldSet
<1>2. \A i \in 1..n, x \in X : MatchTag(x, suggested[i]) \in X
  BY MatchTagType
<1>3. empty \in X /\ n \in Nat /\ DOMAIN suggested = 1..n
  BY DEF Matching
<1> HIDE DEF X, empty, n
<1>4. step \in [1..n -> [X -> X]] /\ \A i \in 1..n, x \in X : step[i][x] = MatchTag(x, suggested[i])
  BY <1>2
<1> HIDE DEF step
<1>5. PICK it : FoldTable(it, n, X, empty, step)
  BY <1>3, <1>4, FoldExists
<1>6. /\ it \in [SUBSET (1..n) -> X] /\ it[{}] = empty
      /\ \A s \in SUBSET (1..n) : s # {} =>
           Max(s) \in 1..n /\ it[s \ {Max(s)}] \in X /\ it[s] = step[Max(s)][it[s \ {Max(s)}]]
  BY <1>5 DEF FoldTable
<1>7. it = [s \in SUBSET (DOMAIN suggested) |-> IF s = {} THEN empty ELSE MatchTag(it[s \ {Max(s)}], suggested[Max(s)])]
  BY <1>3, <1>4, <1>6
<1>8. It = [s \in SUBSET (DOMAIN suggested) |-> IF s = {} THEN empty ELSE MatchTag(It[s \ {Max(s)}], suggested[Max(s)])]
  BY <1>7
<1> HIDE DEF It
<1>9. It[{}] = empty /\ \A s \in SUBSET (1..n) :
        s # {} /\ It[s \ {Max(s)}] \in X => It[s] = step[Max(s)][It[s \ {Max(s)}]]
  <2>1. \A s \in SUBSET (1..n) : s # {} => Max(s) \in 1..n
    BY <1>6
  <2> QED BY <1>3, <1>4, <1>8, <2>1
<1>10. PICK run : FoldRun(run, It, n, X, empty, step)
  BY <1>3, <1>4, <1>9, FoldRuns
<1>11. \A i \in 1..n : run[i] = MatchTag(run[i - 1], suggested[i])
  BY <1>3, <1>4, <1>10 DEF FoldRun
<1>12. Reconcile(suggested) = run[n]
  BY <1>1, <1>3, <1>10 DEF FoldRun
<1>13. run[0] = empty /\ \A i \in 0..n : run[i] \in X
  BY <1>10 DEF FoldRun
<1> QED BY <1>11, <1>12, <1>13 DEF n, X, empty

\* Of the first k suggestions each has its tag, or it is left to the admin; no
\* tag is taken twice.
MatchInv(r, k, suggested) ==
  /\ r \in Matching /\ Len(r.matched) + Len(r.unmatched) <= k
  /\ \A i, j \in 1..Len(r.matched) : i # j => r.matched[i] # r.matched[j]
  /\ \A s \in 1..k : IF BestTag(suggested[s]) = 0 THEN Contains(r.unmatched, suggested[s])
                     ELSE Contains(r.matched, BestTag(suggested[s]))

LEMMA ContainsAppend ==
  ASSUME NEW T, NEW seq \in Seq(T), NEW e \in T
  PROVE  /\ Contains(Append(seq, e), e)
         /\ \A x : Contains(seq, x) => Contains(Append(seq, e), x)
<1> DEFINE longer == Append(seq, e)
<1>1. /\ Len(seq) \in Nat /\ Len(longer) = Len(seq) + 1 /\ longer[Len(seq) + 1] = e
      /\ \A i \in 1..Len(seq) : longer[i] = seq[i] /\ i \in 1..Len(longer)
  OBVIOUS
<1> HIDE DEF longer
<1>2. Contains(longer, e)
  <2>1. Len(seq) + 1 \in 1..Len(longer)
    BY <1>1
  <2> QED BY <1>1, <2>1 DEF Contains
<1>3. \A x : Contains(seq, x) => Contains(longer, x)
  BY <1>1 DEF Contains
<1> QED BY <1>2, <1>3 DEF longer

LEMMA OneMore ==
  ASSUME NEW a \in Nat, NEW b \in Nat, NEW k \in Int, a + b <= k - 1
  PROVE  a + b <= k /\ a + (b + 1) <= k /\ (a + 1) + b <= k
OBVIOUS

LEMMA MatchStep ==
  ASSUME NEW suggested \in Seq(Scores), NEW k \in 1..Len(suggested), NEW r,
         MatchInv(r, k - 1, suggested)
  PROVE  MatchInv(MatchTag(r, suggested[k]), k, suggested)
<1> DEFINE scores == suggested[k]
           tag == BestTag(scores)
           new == MatchTag(r, scores)
           served(q, s) == IF BestTag(suggested[s]) = 0 THEN Contains(q.unmatched, suggested[s])
                           ELSE Contains(q.matched, BestTag(suggested[s]))
<1> SUFFICES MatchInv(new, k, suggested)
  OBVIOUS
<1>1. scores \in Scores /\ \A s \in 1..k : s = k \/ s \in 1..k - 1
  OBVIOUS
<1>2. r \in Matching /\ new \in Matching /\ tag \in Nat
  <2>1. tag \in Nat
    BY <1>1, BestTagIs
  <2> QED BY <1>1, <2>1, MatchTagType DEF MatchInv
<1>3. r.matched \in Seq(Nat) /\ r.unmatched \in Seq(Scores)
      /\ Len(r.matched) \in Nat /\ Len(r.unmatched) \in Nat
  BY <1>2 DEF Matching
<1>4. /\ Len(r.matched) + Len(r.unmatched) <= k - 1
      /\ \A i, j \in 1..Len(r.matched) : i # j => r.matched[i] # r.matched[j]
      /\ \A s \in 1..k - 1 : served(r, s)
  BY DEF MatchInv
<1>11. /\ k \in Int /\ Len(r.matched) \in Nat /\ Len(r.unmatched) \in Nat
       /\ Len(r.matched) + Len(r.unmatched) <= k - 1
  <2>1. k \in 1..Len(suggested) /\ Len(suggested) \in Nat
    OBVIOUS
  <2>2. k \in Int
    BY <2>1
  <2> QED BY <1>3, <1>4, <2>2, Zenon
<1>12. /\ Len(r.matched) + Len(r.unmatched) <= k
       /\ Len(r.matched) + (Len(r.unmatched) + 1) <= k
       /\ (Len(r.matched) + 1) + Len(r.unmatched) <= k
  BY <1>11, OneMore, Zenon
<1>5. MatchInv(new, k, suggested) <=>
        /\ new \in Matching /\ Len(new.matched) + Len(new.unmatched) <= k
        /\ \A i, j \in 1..Len(new.matched) : i # j => new.matched[i] # new.matched[j]
        /\ \A s \in 1..k : served(new, s)
  <2> HIDE DEF new
  <2> QED BY DEF MatchInv
<1>6. served(new, k) <=> IF tag = 0 THEN Contains(new.unmatched, scores) ELSE Contains(new.matched, tag)
  OBVIOUS
<1>7. \A s \in 1..k - 1 :
        (\A x : Contains(r.matched, x) => Contains(new.matched, x))
        /\ (\A x : Contains(r.unmatched, x) => Contains(new.unmatched, x)) => served(new, s)
  <2> HIDE DEF new, scores
  <2> QED BY <1>4
<1>8. CASE tag = 0
  <2>1. new.matched = r.matched /\ new.unmatched = Append(r.unmatched, scores)
    BY <1>2, <1>8 DEF MatchTag, Matching
  <2> HIDE DEF new, scores, tag, served
  <2>2. Len(new.unmatched) = Len(r.unmatched) + 1
    BY <1>1, <1>3, <2>1
  <2>3. Contains(new.unmatched, scores) /\ \A x : Contains(r.unmatched, x) => Contains(new.unmatched, x)
    BY <1>1, <1>3, <2>1, ContainsAppend
  <2>4. \A s \in 1..k : served(new, s)
    BY <1>1, <1>6, <1>7, <1>8, <2>1, <2>3
  <2>5. Len(new.matched) + Len(new.unmatched) <= k
    BY <1>12, <2>1, <2>2, Zenon
  <2> QED BY <1>2, <1>4, <1>5, <2>1, <2>4, <2>5
<1>9. CASE tag # 0 /\ Contains(r.matched, tag)
  <2>1. new = r
    BY <1>9 DEF MatchTag
  <2> HIDE DEF new, scores, tag, served
  <2>2. \A s \in 1..k : served(new, s)
    BY <1>1, <1>6, <1>7, <1>9, <2>1
  <2>3. Len(new.matched) + Len(new.unmatched) <= k
    BY <1>12, <2>1, Zenon
  <2> QED BY <1>2, <1>4, <1>5, <2>1, <2>2, <2>3
<1>10. CASE tag # 0 /\ ~Contains(r.matched, tag)
  <2>1. new.matched = Append(r.matched, tag) /\ new.unmatched = r.unmatched
    BY <1>2, <1>10 DEF MatchTag, Matching
  <2> HIDE DEF new, scores, tag, served
  <2>2. /\ Len(new.matched) = Len(r.matched) + 1 /\ new.matched[Len(r.matched) + 1] = tag
        /\ \A i \in 1..Len(r.matched) : new.matched[i] = r.matched[i]
    BY <1>2, <1>3, <2>1
  <2>3. Contains(new.matched, tag) /\ \A x : Contains(r.matched, x) => Contains(new.matched, x)
    BY <1>2, <1>3, <2>1, ContainsAppend
  <2>4. \A s \in 1..k : served(new, s)
    BY <1>1, <1>6, <1>7, <1>10, <2>1, <2>3
  <2>5. Len(new.matched) + Len(new.unmatched) <= k
    BY <1>12, <2>1, <2>2, Zenon
  <2>6. \A i \in 1..Len(r.matched) : r.matched[i] # tag
    BY <1>10 DEF Contains
  <2>7. \A i \in 1..Len(new.matched) : i = Len(r.matched) + 1 \/ i \in 1..Len(r.matched)
    BY <1>3, <2>2
  <2>8. \A i, j \in 1..Len(new.matched) : i # j => new.matched[i] # new.matched[j]
    BY <1>4, <2>2, <2>6, <2>7
  <2> QED BY <1>2, <1>5, <2>4, <2>5, <2>8
<1> QED BY <1>8, <1>9, <1>10

LEMMA MatchHolds ==
  ASSUME NEW suggested \in Seq(Scores)
  PROVE  MatchInv(Reconcile(suggested), Len(suggested), suggested)
<1> DEFINE n == Len(suggested)
<1>1. n \in Nat
  OBVIOUS
<1>2. PICK run : /\ run[0] = [matched |-> <<>>, unmatched |-> <<>>]
                 /\ \A i \in 1..n : run[i] = MatchTag(run[i - 1], suggested[i])
                 /\ Reconcile(suggested) = run[n]
  BY MatchFold
<1> DEFINE S == {i \in 0..n : MatchInv(run[i], i, suggested)}
<1>3. 0 \in S
  <2> DEFINE empty == [matched |-> <<>>, unmatched |-> <<>>]
  <2>1. empty \in Matching /\ Len(empty.matched) = 0 /\ Len(empty.unmatched) = 0
    BY DEF Matching
  <2> HIDE DEF empty
  <2>2. MatchInv(empty, 0, suggested)
    BY <2>1 DEF MatchInv
  <2> QED BY <1>1, <1>2, <2>2 DEF empty
<1>4. ASSUME NEW i \in 1..n, i - 1 \in S PROVE i \in S
  BY <1>2, <1>4, MatchStep
<1> HIDE DEF S
<1>5. \A i \in 0..n : i \in S
  BY <1>1, <1>3, <1>4, UpTo
<1>6. MatchInv(run[n], n, suggested)
  BY <1>1, <1>5 DEF S
<1> QED BY <1>2, <1>6

-----------------------------------------------------------------------------
(* Amounts, reports and answers.                                           *)

\* In thousandths of a rial, which is what the sums of whole rials lose.
Exact(t) == IF t.currency = "toman" THEN 10 * t.amount ELSE t.amount

LEMMA ToRialIs ==
  ASSUME NEW value \in OrNone(Nat), NEW currency
  PROVE  /\ ToRial(value, currency) \in Nat
         /\ value = None \/ currency \notin {"toman", "rial"} => ToRial(value, currency) = 0
         /\ value # None /\ currency \in {"toman", "rial"} =>
              LET exact == IF currency = "toman" THEN 10 * value ELSE value
              IN  /\ exact \in Nat /\ 100 * ToRial(value, currency) <= exact
                  /\ exact <= 100 * ToRial(value, currency) + 999
                  /\ value % 100 = 0 => exact = 100 * ToRial(value, currency)
<1>1. value # None => value \in Nat
  BY DEF OrNone
<1>2. ASSUME NEW a \in Nat
      PROVE  /\ a \div 100 \in Nat /\ 100 * (a \div 100) <= a /\ a < 100 * (a \div 100) + 100
             /\ a % 100 = 0 => a = 100 * (a \div 100)
  OBVIOUS
<1> QED BY <1>1, <1>2 DEF ToRial

\* Sums of numbers that were rounded down.
LEMMA RoundedSums ==
  ASSUME NEW S, IsFiniteSet(S), NEW v, NEW w,
         \A x \in S : /\ v[x] \in Nat /\ w[x] \in Nat
                      /\ 100 * v[x] <= w[x] /\ w[x] <= 100 * v[x] + 999
  PROVE  /\ Total(v, S) \in Int /\ Total(w, S) \in Int /\ Cardinality(S) \in Nat
         /\ 100 * Total(v, S) <= Total(w, S)
         /\ Total(w, S) <= 100 * Total(v, S) + 999 * Cardinality(S)
<1> DEFINE low == [x \in S |-> 100 * v[x]]
           more == [x \in S |-> 999]
           high == [x \in S |-> 100 * v[x] + 999]
<1>1. Summable(v, S) /\ Summable(w, S) /\ Summable(low, S) /\ Summable(more, S) /\ Summable(high, S)
  BY DEF Summable
<1>2. \A x \in S : /\ low[x] = 100 * v[x] /\ more[x] = 999 /\ high[x] = low[x] + more[x]
                   /\ low[x] <= w[x] /\ w[x] <= high[x]
  OBVIOUS
<1> HIDE DEF low, more, high
<1>3. Total(low, S) = 100 * Total(v, S)
  BY <1>1, <1>2, TotalScale
<1>4. Total(high, S) = Total(low, S) + Total(more, S)
  BY <1>1, <1>2, TotalAdd
<1>5. Total(more, S) = 999 * Cardinality(S)
  BY <1>1, <1>2, TotalConst
<1>6. Total(low, S) <= Total(w, S) /\ Total(w, S) <= Total(high, S)
  BY <1>1, <1>2, TotalBelow
<1>7. Total(v, S) \in Int /\ Total(w, S) \in Int
  BY <1>1, TotalIs
<1>8. Cardinality(S) \in Nat
  BY FS_CardinalityType
<1> QED BY <1>3, <1>4, <1>5, <1>6, <1>7, <1>8

LEMMA RialSum ==
  ASSUME NEW S, IsFiniteSet(S), \A t \in S : ToRial(t.amount, t.currency) \in Int
  PROVE  RialOf(S) = Total([t \in S |-> ToRial(t.amount, t.currency)], S)
<1> DEFINE f == [t \in S |-> ToRial(t.amount, t.currency)]
           It[s \in SUBSET S] == IF s = {} THEN 0 ELSE ToRial(Pick(s).amount, Pick(s).currency) + It[s \ {Pick(s)}]
<1>1. RialOf(S) = It[S]
  BY DEF RialOf, MapThenSumSet, MapThenFoldSet, Pick
<1>2. \A x \in S : f[x] \in Int
  OBVIOUS
<1>3. \A s \in SUBSET S : s # {} => f[Pick(s)] = ToRial(Pick(s).amount, Pick(s).currency)
  BY DEF Pick
<1> HIDE DEF f
<1>4. PICK g : SumTable(g, f, S)
  BY <1>2, SumExists
<1>5. g = [s \in SUBSET S |-> IF s = {} THEN 0 ELSE ToRial(Pick(s).amount, Pick(s).currency) + g[s \ {Pick(s)}]]
  BY <1>3, <1>4 DEF SumTable
<1>6. It = [s \in SUBSET S |-> IF s = {} THEN 0 ELSE ToRial(Pick(s).amount, Pick(s).currency) + It[s \ {Pick(s)}]]
  BY <1>5
<1> HIDE DEF It
<1>7. SumTable(It, f, S)
  BY <1>3, <1>6 DEF SumTable
<1>8. PICK h : SumTable(h, f, S) /\ Total(f, S) = h[S]
  BY <1>2, TotalTable
<1>9. It[S] = h[S]
  BY <1>7, <1>8, SumUnique
<1> QED BY <1>1, <1>8, <1>9 DEF f

LEMMA ExactSum ==
  ASSUME NEW S, IsFiniteSet(S), \A t \in S : Exact(t) \in Int
  PROVE  MapThenSumSet(LAMBDA t : IF t.currency = "toman" THEN 10 * t.amount ELSE t.amount, S) = Total([t \in S |-> Exact(t)], S)
<1> DEFINE f == [t \in S |-> Exact(t)]
           It[s \in SUBSET S] == IF s = {} THEN 0 ELSE Exact(Pick(s)) + It[s \ {Pick(s)}]
<1>1. MapThenSumSet(LAMBDA t : IF t.currency = "toman" THEN 10 * t.amount ELSE t.amount, S) = It[S]
  BY DEF Exact, MapThenSumSet, MapThenFoldSet, Pick
<1>2. \A x \in S : f[x] \in Int
  OBVIOUS
<1>3. \A s \in SUBSET S : s # {} => f[Pick(s)] = Exact(Pick(s))
  BY DEF Pick
<1> HIDE DEF f
<1>4. PICK g : SumTable(g, f, S)
  BY <1>2, SumExists
<1>5. g = [s \in SUBSET S |-> IF s = {} THEN 0 ELSE Exact(Pick(s)) + g[s \ {Pick(s)}]]
  BY <1>3, <1>4 DEF SumTable
<1>6. It = [s \in SUBSET S |-> IF s = {} THEN 0 ELSE Exact(Pick(s)) + It[s \ {Pick(s)}]]
  BY <1>5
<1> HIDE DEF It
<1>7. SumTable(It, f, S)
  BY <1>3, <1>6 DEF SumTable
<1>8. PICK h : SumTable(h, f, S) /\ Total(f, S) = h[S]
  BY <1>2, TotalTable
<1>9. It[S] = h[S]
  BY <1>7, <1>8, SumUnique
<1> QED BY <1>1, <1>8, <1>9 DEF f

Rials(txns) == [t \in txns |-> ToRial(t.amount, t.currency)]
Exacts(txns) == [t \in txns |-> Exact(t)]
Counting(txns) == {t \in txns : Local(t) /\ t.amount # None}

\* The rials of any part of the transactions.
LEMMA RialsAre ==
  ASSUME NEW txns, Expenses(txns)
  PROVE  /\ Summable(Rials(txns), txns) /\ \A t \in txns : Rials(txns)[t] \in Nat
         /\ \A T \in SUBSET txns : IsFiniteSet(T) /\ RialOf(T) = Total(Rials(txns), T)
         /\ \A t \in txns : ~Local(t) \/ t.amount = None => Rials(txns)[t] = 0
<1>1. \A t \in txns : t.amount \in OrNone(Nat)
  BY DEF Expenses, Expense
<1>2. \A t \in txns : Rials(txns)[t] \in Nat /\ Rials(txns)[t] = ToRial(t.amount, t.currency)
  BY <1>1, ToRialIs DEF Rials
<1>3. \A t \in txns : ~Local(t) \/ t.amount = None => Rials(txns)[t] = 0
  BY <1>1, <1>2, ToRialIs DEF Local
<1>4. Summable(Rials(txns), txns)
  BY <1>2 DEF Summable, Expenses
<1>5. ASSUME NEW T \in SUBSET txns PROVE IsFiniteSet(T) /\ RialOf(T) = Total(Rials(txns), T)
  <2>1. IsFiniteSet(T) /\ Summable(Rials(txns), T)
    BY <1>4, SummableSubset DEF Summable
  <2> DEFINE f == [t \in T |-> ToRial(t.amount, t.currency)]
  <2>2. RialOf(T) = Total(f, T)
    BY <1>2, <2>1, RialSum
  <2>3. \A t \in T : Rials(txns)[t] = f[t]
    BY <1>2
  <2> HIDE DEF f
  <2> QED BY <2>1, <2>2, <2>3, TotalSame
<1> QED BY <1>2, <1>3, <1>4, <1>5

\* What the report leaves off the exact sum is less than a unit for each one.
LEMMA ReportLoss ==
  ASSUME NEW txns, Expenses(txns)
  PROVE  LET exact == Total(Exacts(Counting(txns)), Counting(txns))
             total == RialOf({t \in txns : Local(t)})
         IN  /\ total \in Int /\ exact \in Int /\ Cardinality(Counting(txns)) \in Nat
             /\ 100 * total <= exact /\ exact <= 100 * total + 999 * Cardinality(Counting(txns))
             /\ \A t \in Counting(txns) : Exact(t) \in Nat
<1> DEFINE local == {t \in txns : Local(t)}
           counting == Counting(txns)
           v == Rials(txns)
           w == Exacts(counting)
<1>1. Summable(v, txns) /\ local \in SUBSET txns /\ counting \in SUBSET local
  BY RialsAre DEF Counting
<1>2. RialOf(local) = Total(v, local)
  BY <1>1, RialsAre
<1>3. Summable(v, local)
  BY <1>1, SummableSubset
<1>4. Total(v, local) = Total(v, counting)
  <2>1. \A t \in local \ counting : v[t] = 0
    BY RialsAre DEF Counting
  <2> HIDE DEF local, counting, v
  <2> QED BY <1>1, <1>3, <2>1, TotalPart
<1>5. \A t \in counting : /\ v[t] \in Nat /\ w[t] \in Nat /\ w[t] = Exact(t)
                          /\ 100 * v[t] <= w[t] /\ w[t] <= 100 * v[t] + 999
  <2> SUFFICES ASSUME NEW t \in counting
               PROVE  /\ v[t] \in Nat /\ w[t] \in Nat /\ w[t] = Exact(t)
                      /\ 100 * v[t] <= w[t] /\ w[t] <= 100 * v[t] + 999
    OBVIOUS
  <2>1. /\ t \in txns /\ t.amount \in OrNone(Nat) /\ t.amount # None
        /\ t.currency \in {"toman", "rial"}
    BY DEF Counting, Local, Expenses, Expense
  <2>2. v[t] = ToRial(t.amount, t.currency) /\ w[t] = Exact(t)
    BY <2>1 DEF Rials, Exacts
  <2> HIDE DEF v, w
  <2> QED BY <2>1, <2>2, ToRialIs DEF Exact
<1>6. IsFiniteSet(counting)
  BY <1>1, RialsAre
<1> HIDE DEF v, w, counting, local
<1>7. /\ Total(v, counting) \in Int /\ Total(w, counting) \in Int /\ Cardinality(counting) \in Nat
      /\ 100 * Total(v, counting) <= Total(w, counting)
      /\ Total(w, counting) <= 100 * Total(v, counting) + 999 * Cardinality(counting)
  <2>1. \A t \in counting : /\ v[t] \in Nat /\ w[t] \in Nat
                            /\ 100 * v[t] <= w[t] /\ w[t] <= 100 * v[t] + 999
    BY <1>5
  <2> QED BY <1>6, <2>1, RoundedSums
<1> QED BY <1>2, <1>4, <1>5, <1>7 DEF w, counting, local

\* Each transaction belongs to one category and to one member.
LEMMA ReportParts ==
  ASSUME NEW txns, Expenses(txns)
  PROVE  LET report == BuildReport(txns, Tag \cup {"none"}, Member, ForeignCurrency)
         IN  /\ report.total = RialOf({t \in txns : Local(t)})
             /\ Total(report.category, Tag \cup {"none"}) = report.total
             /\ Total(report.member, Member) = report.total
             /\ DetailTotal(txns, "all") = report.total
             /\ Total([m \in Member |-> DetailTotal(txns, m)], Member) = report.total
<1> DEFINE local == {t \in txns : Local(t)}
           v == Rials(txns)
           cats == Tag \cup {"none"}
           cat == [t \in txns |-> IF t.cats = <<>> THEN "none" ELSE t.cats[1]]
           mem == [t \in txns |-> t.member]
           report == BuildReport(txns, cats, Member, ForeignCurrency)
           detail == [m \in Member |-> DetailTotal(txns, m)]
<1>1. /\ Summable(v, txns) /\ local \in SUBSET txns
      /\ \A T \in SUBSET txns : RialOf(T) = Total(v, T)
      /\ \A t \in txns : ~Local(t) => v[t] = 0
  BY RialsAre
<1>2. Summable(v, local)
  BY <1>1, SummableSubset
<1>3. IsFiniteSet(cats) /\ IsFiniteSet(Member) /\ "all" \notin Member
  BY NamesAssumption, FS_AddElement
<1>4. /\ report.total = RialOf(local)
      /\ report.category = [c \in cats |-> ByCategory(txns, c)]
      /\ report.member = [m \in Member |-> ByMember(txns, m)]
  BY DEF BuildReport
<1>5. report.total = Total(v, local)
  <2> HIDE DEF report, v
  <2> QED BY <1>1, <1>4
<1>6. \A t \in txns : /\ cat[t] \in cats /\ mem[t] \in Member /\ mem[t] = t.member
                      /\ \A c \in cats : CategoryOf(t, c) <=> cat[t] = c
  <2> SUFFICES ASSUME NEW t \in txns
               PROVE  /\ cat[t] \in cats /\ mem[t] \in Member /\ mem[t] = t.member
                      /\ \A c \in cats : CategoryOf(t, c) <=> cat[t] = c
    OBVIOUS
  <2>1. t.member \in Member /\ t.cats \in Seq(Tag)
    BY DEF Expenses, Expense
  <2>2. t.cats # <<>> => t.cats[1] \in Tag
    BY <2>1
  <2> QED BY <2>1, <2>2 DEF CategoryOf
<1>7. Total(report.category, cats) = Total(v, local)
  <2>1. ASSUME NEW c \in cats PROVE report.category[c] = Total(v, {t \in local : cat[t] = c})
    <3>1. {t \in txns : Local(t) /\ CategoryOf(t, c)} = {t \in local : cat[t] = c}
      BY <1>6
    <3>2. {t \in local : cat[t] = c} \in SUBSET txns
      OBVIOUS
    <3>3. report.category[c] = RialOf({t \in txns : Local(t) /\ CategoryOf(t, c)})
      BY <1>4 DEF ByCategory
    <3> HIDE DEF local, cat, v, report, cats
    <3> QED BY <1>1, <3>1, <3>2, <3>3
  <2>2. \A t \in local : cat[t] \in cats
    BY <1>6
  <2>3. ByGroup(report.category, cats, cat, v, local)
    <3> HIDE DEF local, cat, v, report, cats
    <3> QED BY <2>1, <2>2 DEF ByGroup
  <2> HIDE DEF local, cat, v, report, cats
  <2> QED BY <1>2, <1>3, <2>3, TotalGroup
<1>8. Total(report.member, Member) = Total(v, local)
  <2>1. ASSUME NEW m \in Member PROVE report.member[m] = Total(v, {t \in local : mem[t] = m})
    <3>1. {t \in txns : Local(t) /\ t.member = m} = {t \in local : mem[t] = m}
      BY <1>6
    <3>2. {t \in local : mem[t] = m} \in SUBSET txns
      OBVIOUS
    <3>3. report.member[m] = RialOf({t \in txns : Local(t) /\ t.member = m})
      BY <1>4 DEF ByMember
    <3> HIDE DEF local, mem, v, report
    <3> QED BY <1>1, <3>1, <3>2, <3>3
  <2>2. \A t \in local : mem[t] \in Member
    BY <1>6
  <2>3. ByGroup(report.member, Member, mem, v, local)
    <3> HIDE DEF local, mem, v, report
    <3> QED BY <2>1, <2>2 DEF ByGroup
  <2> HIDE DEF local, mem, v, report
  <2> QED BY <1>2, <1>3, <2>3, TotalGroup
<1>9. Total(v, txns) = Total(v, local)
  <2>1. \A t \in txns \ local : v[t] = 0
    BY <1>1
  <2> HIDE DEF local, v
  <2> QED BY <1>1, <2>1, TotalPart
<1>10. DetailTotal(txns, "all") = Total(v, txns)
  <2>1. DetailTotal(txns, "all") = RialOf(txns)
    BY DEF DetailTotal
  <2> HIDE DEF v
  <2> QED BY <1>1, <2>1
<1>11. Total(detail, Member) = Total(v, txns)
  <2>1. ASSUME NEW m \in Member PROVE detail[m] = Total(v, {t \in txns : mem[t] = m})
    <3>1. {t \in txns : t.member = m} = {t \in txns : mem[t] = m}
      BY <1>6
    <3>2. {t \in txns : mem[t] = m} \in SUBSET txns
      OBVIOUS
    <3>3. detail[m] = RialOf({t \in txns : t.member = m})
      BY <1>3 DEF DetailTotal
    <3> HIDE DEF local, mem, v, detail
    <3> QED BY <1>1, <3>1, <3>2, <3>3
  <2>2. \A t \in txns : mem[t] \in Member
    BY <1>6
  <2>3. ByGroup(detail, Member, mem, v, txns)
    <3> HIDE DEF local, mem, v, detail
    <3> QED BY <2>1, <2>2 DEF ByGroup
  <2> HIDE DEF local, mem, v, detail
  <2> QED BY <1>1, <1>3, <2>3, TotalGroup
<1> HIDE DEF local, v
<1> QED BY <1>4, <1>5, <1>7, <1>8, <1>9, <1>10, <1>11 DEF local

\* The parts of a sum of naturals are not more than it.
LEMMA TotalPartBelow ==
  ASSUME NEW S, NEW f, Summable(f, S), \A x \in S : f[x] \in Nat, NEW T \in SUBSET S
  PROVE  Total(f, T) <= Total(f, S) /\ Total(f, S) \in Nat
<1> DEFINE zero == [x \in S |-> 0]
<1>1. Summable(f, S \ T) /\ Summable(f, T) /\ Summable(zero, S \ T) /\ Summable(zero, S)
  BY SummableSubset DEF Summable
<1>2. \A x \in S : zero[x] = 0 /\ zero[x] <= f[x]
  OBVIOUS
<1> HIDE DEF zero
<1>3. Total(zero, S \ T) = 0 /\ Total(zero, S) = 0
  BY <1>1, <1>2, TotalZero
<1>4. Total(zero, S \ T) <= Total(f, S \ T) /\ Total(zero, S) <= Total(f, S)
  BY <1>1, <1>2, TotalBelow
<1>5. Total(f, S) = Total(f, S \cap T) + Total(f, S \ T) /\ S \cap T = T
  BY TotalSplit
<1>6. Total(f, T) \in Int /\ Total(f, S \ T) \in Int /\ Total(f, S) \in Int
  BY <1>1, TotalIs
<1>7. Total(f, S) = Total(f, T) + Total(f, S \ T)
  BY <1>5, Zenon
<1> QED BY <1>3, <1>4, <1>6, <1>7

\* What one amount is in thousandths of a rial, by the rates that are given.
Tenths(t, rates) ==
  CASE t.currency = "toman" -> 10 * t.amount
    [] t.currency = "rial" -> t.amount
    [] OTHER -> IF t.currency \in DOMAIN rates THEN 10 * t.amount * rates[t.currency] ELSE 0

LEMMA TenthsSum ==
  ASSUME NEW S, IsFiniteSet(S), NEW rates, \A t \in S : Tenths(t, rates) \in Int
  PROVE  MapThenSumSet(LAMBDA t : Tenths(t, rates), S) = Total([t \in S |-> Tenths(t, rates)], S)
<1> DEFINE f == [t \in S |-> Tenths(t, rates)]
           It[s \in SUBSET S] == IF s = {} THEN 0 ELSE Tenths(Pick(s), rates) + It[s \ {Pick(s)}]
<1>1. MapThenSumSet(LAMBDA t : Tenths(t, rates), S) = It[S]
  BY DEF MapThenSumSet, MapThenFoldSet, Pick
<1>2. \A x \in S : f[x] \in Int
  OBVIOUS
<1>3. \A s \in SUBSET S : s # {} => f[Pick(s)] = Tenths(Pick(s), rates)
  BY DEF Pick
<1> HIDE DEF f
<1>4. PICK g : SumTable(g, f, S)
  BY <1>2, SumExists
<1>5. g = [s \in SUBSET S |-> IF s = {} THEN 0 ELSE Tenths(Pick(s), rates) + g[s \ {Pick(s)}]]
  BY <1>3, <1>4 DEF SumTable
<1>6. It = [s \in SUBSET S |-> IF s = {} THEN 0 ELSE Tenths(Pick(s), rates) + It[s \ {Pick(s)}]]
  BY <1>5
<1> HIDE DEF It
<1>7. SumTable(It, f, S)
  BY <1>3, <1>6 DEF SumTable
<1>8. PICK h : SumTable(h, f, S) /\ Total(f, S) = h[S]
  BY <1>2, TotalTable
<1>9. It[S] = h[S]
  BY <1>7, <1>8, SumUnique
<1> QED BY <1>1, <1>8, <1>9 DEF f

LEMMA ForeignSum ==
  ASSUME NEW S, IsFiniteSet(S), \A t \in S : t.amount \in Int
  PROVE  MapThenSumSet(LAMBDA t : t.amount, S) = Total([t \in S |-> t.amount], S)
<1> DEFINE f == [t \in S |-> t.amount]
           It[s \in SUBSET S] == IF s = {} THEN 0 ELSE Pick(s).amount + It[s \ {Pick(s)}]
<1>1. MapThenSumSet(LAMBDA t : t.amount, S) = It[S]
  BY DEF MapThenSumSet, MapThenFoldSet, Pick
<1>2. \A x \in S : f[x] \in Int
  OBVIOUS
<1>3. \A s \in SUBSET S : s # {} => f[Pick(s)] = Pick(s).amount
  BY DEF Pick
<1> HIDE DEF f
<1>4. PICK g : SumTable(g, f, S)
  BY <1>2, SumExists
<1>5. g = [s \in SUBSET S |-> IF s = {} THEN 0 ELSE Pick(s).amount + g[s \ {Pick(s)}]]
  BY <1>3, <1>4 DEF SumTable
<1>6. It = [s \in SUBSET S |-> IF s = {} THEN 0 ELSE Pick(s).amount + It[s \ {Pick(s)}]]
  BY <1>5
<1> HIDE DEF It
<1>7. SumTable(It, f, S)
  BY <1>3, <1>6 DEF SumTable
<1>8. PICK h : SumTable(h, f, S) /\ Total(f, S) = h[S]
  BY <1>2, TotalTable
<1>9. It[S] = h[S]
  BY <1>7, <1>8, SumUnique
<1> QED BY <1>1, <1>8, <1>9 DEF f

LEMMA ChangedSum ==
  ASSUME NEW S, IsFiniteSet(S), NEW rates, NEW foreign, \A c \in S : 10 * rates[c] * foreign[c] \in Int
  PROVE  MapThenSumSet(LAMBDA c : 10 * rates[c] * foreign[c], S) = Total([c \in S |-> 10 * rates[c] * foreign[c]], S)
<1> DEFINE f == [c \in S |-> 10 * rates[c] * foreign[c]]
           It[s \in SUBSET S] == IF s = {} THEN 0 ELSE 10 * rates[Pick(s)] * foreign[Pick(s)] + It[s \ {Pick(s)}]
<1>1. MapThenSumSet(LAMBDA c : 10 * rates[c] * foreign[c], S) = It[S]
  BY DEF MapThenSumSet, MapThenFoldSet, Pick
<1>2. \A x \in S : f[x] \in Int
  OBVIOUS
<1>3. \A s \in SUBSET S : s # {} => f[Pick(s)] = 10 * rates[Pick(s)] * foreign[Pick(s)]
  BY DEF Pick
<1> HIDE DEF f
<1>4. PICK g : SumTable(g, f, S)
  BY <1>2, SumExists
<1>5. g = [s \in SUBSET S |-> IF s = {} THEN 0 ELSE 10 * rates[Pick(s)] * foreign[Pick(s)] + g[s \ {Pick(s)}]]
  BY <1>3, <1>4 DEF SumTable
<1>6. It = [s \in SUBSET S |-> IF s = {} THEN 0 ELSE 10 * rates[Pick(s)] * foreign[Pick(s)] + It[s \ {Pick(s)}]]
  BY <1>5
<1> HIDE DEF It
<1>7. SumTable(It, f, S)
  BY <1>3, <1>6 DEF SumTable
<1>8. PICK h : SumTable(h, f, S) /\ Total(f, S) = h[S]
  BY <1>2, TotalTable
<1>9. It[S] = h[S]
  BY <1>7, <1>8, SumUnique
<1> QED BY <1>1, <1>8, <1>9 DEF f

Changed(rates, foreign) ==
  MapThenSumSet(LAMBDA c : 10 * rates[c] * foreign[c], DOMAIN rates)
Rates(rates) == DOMAIN rates \subseteq ForeignCurrency /\ \A c \in DOMAIN rates : rates[c] \in Nat

\* Without a currency that has no rate the sum is that of the local amounts and
\* of the foreign ones, each currency at its rate.
LEMMA TenthsAre ==
  ASSUME NEW txns, Expenses(txns), NEW rates, Rates(rates), Missing(txns, rates) = {},
         NEW foreign, \A c \in ForeignCurrency : foreign[c] = Foreign(txns, c)
  PROVE  LET changed == Changed(rates, foreign)
             exact == Total(Exacts(Counting(txns)), Counting(txns))
         IN  /\ Thousandths(txns, rates) = exact + changed
             /\ changed \in Int /\ exact + changed \in Nat
<1> DEFINE priced == Priced(txns)
           counting == Counting(txns)
           abroad == priced \ counting
           changed == Changed(rates, foreign)
           f == [t \in priced |-> Tenths(t, rates)]
           amounts == [t \in priced |-> t.amount]
           cur == [t \in priced |-> t.currency]
           each == [c \in DOMAIN rates |-> 10 * rates[c] * foreign[c]]
<1>1. \A t \in priced : t \in txns /\ t.amount \in Nat /\ t.currency \in Currency
  BY DEF Priced, Expenses, Expense, OrNone
<1>2. IsFiniteSet(priced) /\ IsFiniteSet(abroad) /\ IsFiniteSet(DOMAIN rates)
  <2>1. priced \in SUBSET txns /\ abroad \in SUBSET txns
    BY DEF Priced
  <2> HIDE DEF priced, abroad
  <2> QED BY <2>1, NamesAssumption, FS_Subset DEF Expenses, Rates
<1>3. counting = {t \in priced : Local(t)} /\ counting \in SUBSET priced
  BY DEF Counting, Priced
<1>4. \A t \in abroad : t \in priced /\ t.currency \in DOMAIN rates /\ ~Local(t)
  <2> SUFFICES ASSUME NEW t \in abroad PROVE t \in priced /\ t.currency \in DOMAIN rates /\ ~Local(t)
    OBVIOUS
  <2>1. t \in priced /\ ~Local(t)
    BY <1>3
  <2>2. t.currency \in Currencies(txns)
    BY <2>1 DEF Currencies
  <2> QED BY <2>1, <2>2 DEF Missing, Local
<1>5. \A a, r \in Nat : 10 * a * r \in Nat /\ 10 * r \in Int /\ 10 * a * r = (10 * r) * a
  OBVIOUS
<1>6. \A t \in priced : f[t] \in Nat /\ f[t] = Tenths(t, rates) /\ (Local(t) => f[t] = Exact(t))
  <2> SUFFICES ASSUME NEW t \in priced
               PROVE  f[t] \in Nat /\ f[t] = Tenths(t, rates) /\ (Local(t) => f[t] = Exact(t))
    OBVIOUS
  <2>1. t.amount \in Nat /\ f[t] = Tenths(t, rates)
    BY <1>1
  <2>2. t.currency \in DOMAIN rates => 10 * t.amount * rates[t.currency] \in Nat
    BY <1>5, <2>1 DEF Rates
  <2>3. t.currency = "toman" => Tenths(t, rates) = 10 * t.amount /\ 10 * t.amount \in Nat
    BY <2>1 DEF Tenths
  <2>4. t.currency = "rial" => Tenths(t, rates) = t.amount
    BY DEF Tenths
  <2>5. ~Local(t) => Tenths(t, rates) \in Nat
    BY <2>2 DEF Tenths, Local
  <2> HIDE DEF f
  <2> QED BY <2>1, <2>3, <2>4, <2>5 DEF Exact, Local
<1>7. Summable(f, priced) /\ Summable(f, counting) /\ Summable(f, abroad)
  <2>1. Summable(f, priced)
    BY <1>2, <1>6 DEF Summable
  <2>2. abroad \in SUBSET priced
    OBVIOUS
  <2> HIDE DEF f, priced, counting, abroad
  <2> QED BY <1>3, <2>1, <2>2, SummableSubset
<1>8. Total(f, priced) = Total(f, counting) + Total(f, abroad)
  <2>1. priced \cap counting = counting
    BY <1>3
  <2> HIDE DEF f, priced, counting
  <2> QED BY <1>3, <1>7, <2>1, TotalSplit
<1>9. Total(f, counting) = Total(Exacts(counting), counting)
  <2>1. \A t \in counting : f[t] = Exacts(counting)[t]
    BY <1>3, <1>6 DEF Exacts
  <2> HIDE DEF f, counting
  <2> QED BY <1>7, <2>1, TotalSame
<1>10. \A c \in DOMAIN rates : /\ foreign[c] \in Int /\ each[c] \in Int
                               /\ each[c] = Total(f, {t \in abroad : cur[t] = c})
  <2> SUFFICES ASSUME NEW c \in DOMAIN rates
               PROVE  /\ foreign[c] \in Int /\ each[c] \in Int
                      /\ each[c] = Total(f, {t \in abroad : cur[t] = c})
    OBVIOUS
  <2> DEFINE group == {t \in abroad : cur[t] = c}
             of == [t \in group |-> t.amount]
             r == 10 * rates[c]
  <2>1. c \in ForeignCurrency /\ c \notin {"toman", "rial"} /\ rates[c] \in Nat
    BY NamesAssumption DEF Rates
  <2>2. group = {t \in txns : t.currency = c /\ t.amount # None}
    BY <2>1 DEF Priced, Counting, Local
  <2>3. IsFiniteSet(group)
    BY <1>2, FS_Subset
  <2>4. \A t \in group : t \in priced /\ t.amount \in Nat /\ of[t] = t.amount /\ t.currency = c
    BY <1>1
  <2>5. foreign[c] = Total(of, group)
    <3>1. foreign[c] = MapThenSumSet(LAMBDA t : t.amount, group)
      BY <2>1, <2>2 DEF Foreign
    <3> HIDE DEF group, of
    <3>2. \A t \in group : t.amount \in Int
      BY <2>4
    <3> QED BY <2>3, <3>1, <3>2, ForeignSum DEF of
  <2>6. Summable(of, group) /\ Summable(f, group)
    <3>1. Summable(of, group)
      BY <2>3, <2>4 DEF Summable
    <3>2. \A t \in group : f[t] \in Int
      BY <1>6, <2>4
    <3> HIDE DEF group, of, f
    <3> QED BY <2>3, <3>1, <3>2 DEF Summable
  <2>7. \A t \in group : f[t] = r * of[t]
    <3> SUFFICES ASSUME NEW t \in group PROVE f[t] = r * of[t]
      OBVIOUS
    <3>1. f[t] = Tenths(t, rates) /\ t.amount \in Nat /\ of[t] = t.amount /\ t.currency = c
      BY <1>6, <2>4
    <3>2. Tenths(t, rates) = 10 * t.amount * rates[c]
      BY <2>1, <3>1 DEF Tenths
    <3>3. 10 * t.amount * rates[c] = (10 * rates[c]) * t.amount
      BY <1>5, <2>1, <3>1
    <3> HIDE DEF f, of, group
    <3> QED BY <3>1, <3>2, <3>3
  <2>8. r \in Int
    BY <1>5, <2>1
  <2>9. Total(f, group) = r * Total(of, group) /\ Total(of, group) \in Int
    <3> HIDE DEF f, of, group, r
    <3> QED BY <2>6, <2>7, <2>8, TotalScale, TotalIs
  <2>10. each[c] = r * foreign[c]
    OBVIOUS
  <2>11. \A a, b \in Int : a * b \in Int
    OBVIOUS
  <2> HIDE DEF f, of, r, each, group
  <2>12. each[c] \in Int /\ foreign[c] \in Int /\ each[c] = Total(f, group)
    BY <2>5, <2>8, <2>9, <2>10, <2>11
  <2> QED BY <2>12 DEF group
<1>11. changed = Total(each, DOMAIN rates) /\ changed \in Int
  <2>1. \A c \in DOMAIN rates : 10 * rates[c] * foreign[c] \in Int
    BY <1>10
  <2>2. changed = Total([c \in DOMAIN rates |-> 10 * rates[c] * foreign[c]], DOMAIN rates)
    <3> QED BY <1>2, <2>1, ChangedSum DEF Changed
  <2>3. Summable(each, DOMAIN rates)
    BY <1>2, <2>1 DEF Summable
  <2> QED BY <2>2, <2>3, TotalIs
<1>12. Total(each, DOMAIN rates) = Total(f, abroad)
  <2>1. \A t \in abroad : cur[t] \in DOMAIN rates
    BY <1>4
  <2> HIDE DEF each, f, abroad, cur
  <2>2. ByGroup(each, DOMAIN rates, cur, f, abroad)
    BY <1>10, <2>1 DEF ByGroup
  <2> QED BY <1>2, <1>7, <2>2, TotalGroup
<1>13. Thousandths(txns, rates) = Total(f, priced)
  <2>1. Thousandths(txns, rates) = MapThenSumSet(LAMBDA t : Tenths(t, rates), priced)
    BY DEF Thousandths, Tenths
  <2>2. \A t \in priced : Tenths(t, rates) \in Int
    BY <1>6
  <2>3. MapThenSumSet(LAMBDA t : Tenths(t, rates), priced) = Total([t \in priced |-> Tenths(t, rates)], priced)
    <3> HIDE DEF priced
    <3> QED BY <1>2, <2>2, TenthsSum
  <2> QED BY <2>1, <2>3
<1>14. Total(f, priced) \in Nat
  <2> HIDE DEF f, priced
  <2> QED BY <1>6, <1>7, TotalPartBelow
<1> DEFINE exact == Total(Exacts(counting), counting)
<1> HIDE DEF f, priced, abroad, counting, each, changed, exact
<1>15. Total(f, priced) = exact + changed
  BY <1>8, <1>9, <1>11, <1>12 DEF exact
<1>16. Thousandths(txns, rates) = exact + changed /\ changed \in Int /\ exact + changed \in Nat
  BY <1>11, <1>13, <1>14, <1>15
<1> QED BY <1>16 DEF exact, counting, changed

\* The total of an answer against the report.
TotalAgrees(txns, rates, report, total) ==
  LET priced == {t \in txns : t.amount # None}
      reported == 100 * report.total + Changed(rates, report.foreign)
  IN  /\ total = None <=> \E t \in priced : t.currency \in ForeignCurrency \ DOMAIN rates
      /\ total # None =>
           /\ \/ reported \div 1000 <= total
              \/ reported = 1000 * (total + 1) /\ \E t \in priced : Fractional(t)
           /\ 1000 * total <= reported + 1000 * Cardinality(priced)

LEMMA QuestionHolds ==
  ASSUME NEW txns, Expenses(txns), NEW rates, Rates(rates), NEW total \in GrandTotals(txns, rates)
  PROVE  TotalAgrees(txns, rates, BuildReport(txns, Tag \cup {"none"}, Member, ForeignCurrency), total)
<1> DEFINE report == BuildReport(txns, Tag \cup {"none"}, Member, ForeignCurrency)
           priced == {t \in txns : t.amount # None}
           changed == Changed(rates, report.foreign)
           exact == Total(Exacts(Counting(txns)), Counting(txns))
<1>1. Missing(txns, rates) # {} <=> \E t \in priced : t.currency \in ForeignCurrency \ DOMAIN rates
  <2>1. \A t \in priced : t.currency \in Currency
    BY DEF Expenses, Expense
  <2>2. Missing(txns, rates) = {t.currency : t \in priced} \ ({"toman", "rial"} \cup DOMAIN rates)
    BY DEF Missing, Currencies, Priced
  <2>3. ForeignCurrency \cap {"toman", "rial"} = {}
    BY NamesAssumption
  <2> HIDE DEF priced
  <2> QED BY <2>1, <2>2, <2>3 DEF Currency
<1>2. Missing(txns, rates) # {} => total = None
  BY DEF GrandTotals
<1>3. ASSUME Missing(txns, rates) = {}
      PROVE  /\ total # None
             /\ \/ (100 * report.total + changed) \div 1000 <= total
                \/ /\ 100 * report.total + changed = 1000 * (total + 1)
                   /\ \E t \in priced : Fractional(t)
             /\ 1000 * total <= 100 * report.total + changed + 1000 * Cardinality(priced)
  <2>1. /\ report.foreign = [c \in ForeignCurrency |-> Foreign(txns, c)]
        /\ report.total = RialOf({t \in txns : Local(t)})
    BY DEF BuildReport
  <2>2. Thousandths(txns, rates) = exact + changed /\ changed \in Int /\ exact + changed \in Nat
    <3> HIDE DEF report
    <3>1. \A c \in ForeignCurrency : report.foreign[c] = Foreign(txns, c)
      BY <2>1
    <3> QED BY <1>3, <3>1, TenthsAre
  <2>3. /\ report.total \in Int /\ exact \in Int /\ Cardinality(Counting(txns)) \in Nat
        /\ 100 * report.total <= exact
        /\ exact <= 100 * report.total + 999 * Cardinality(Counting(txns))
    <3> HIDE DEF report
    <3> QED BY <2>1, ReportLoss
  <2>4. Cardinality(Counting(txns)) <= Cardinality(priced) /\ Cardinality(priced) \in Nat
    <3>1. Counting(txns) \in SUBSET priced /\ priced \in SUBSET txns
      BY DEF Counting
    <3> HIDE DEF priced
    <3>2. IsFiniteSet(priced)
      BY <3>1, FS_Subset DEF Expenses
    <3> QED BY <3>1, <3>2, FS_Subset, FS_CardinalityType
  <2> DEFINE less == 100 * report.total + changed
             more == exact + changed
             some == \E t \in priced : Fractional(t)
  <2>5. total = more \div 1000 \/ (total = (more - 1) \div 1000 /\ more > 0 /\ some)
    <3>1. Priced(txns) = priced
      BY DEF Priced
    <3>2. more \in Nat
      BY <2>2
    <3> HIDE DEF exact, changed, priced
    <3>3. total \in {(more - h) \div 1000 : h \in IF more > 0 /\ some THEN {0, 1} ELSE {0}}
      BY <1>3, <2>2, <3>1 DEF GrandTotals
    <3> HIDE DEF more, some
    <3>4. more - 0 = more
      BY <3>2
    <3> QED BY <3>3, <3>4
  <2> HIDE DEF exact, changed, report, priced
  <2>6. /\ less \in Int /\ more \in Nat /\ less <= more
        /\ more <= less + 1000 * Cardinality(priced)
    BY <2>2, <2>3, <2>4
  <2> HIDE DEF more, less, some
  <2>7. /\ total \in Nat /\ 1000 * total <= more
        /\ less \div 1000 <= total \/ (less = 1000 * (total + 1) /\ some)
    <3>1. CASE total = more \div 1000
      BY <2>6, <3>1
    <3>2. CASE total = (more - 1) \div 1000 /\ more > 0 /\ some
      BY <2>6, <3>2
    <3> QED BY <2>5, <3>1, <3>2
  <2>9. 1000 * total <= less + 1000 * Cardinality(priced)
    BY <2>4, <2>6, <2>7
  <2>10. total # None
    BY <2>7, NamesAssumption
  <2> QED BY <2>7, <2>9, <2>10 DEF less, some
<1> HIDE DEF report
<1> QED BY <1>1, <1>2, <1>3 DEF report, TotalAgrees

\* A list by category holds what the report counts under the category.
LEMMA CategoryHolds ==
  ASSUME NEW txns, Expenses(txns), NEW c \in Tag \cup {"none"}
  PROVE  LET report == BuildReport(txns, Tag \cup {"none"}, Member, ForeignCurrency)
         IN  RialOf(FilterByCategory(txns, c, {})) >= report.category[c]
<1> DEFINE report == BuildReport(txns, Tag \cup {"none"}, Member, ForeignCurrency)
           counted == {t \in txns : Local(t) /\ CategoryOf(t, c)}
           listed == FilterByCategory(txns, c, {})
           v == Rials(txns)
<1>1. report.category[c] = RialOf(counted)
  BY DEF BuildReport, ByCategory
<1>2. counted \in SUBSET listed /\ listed \in SUBSET txns
  <2>1. listed \in SUBSET txns
    BY DEF FilterByCategory
  <2>2. ASSUME NEW t \in counted PROVE t \in listed
    <3>1. t \in txns /\ t.cats \in Seq(Tag) /\ CategoryOf(t, c) /\ "none" \notin Tag
      BY NamesAssumption DEF Expenses, Expense
    <3>2. CASE t.cats = <<>>
      BY <3>1, <3>2 DEF CategoryOf, FilterByCategory
    <3>3. CASE t.cats # <<>>
      <4>1. 1 \in DOMAIN t.cats /\ t.cats[1] \in Tag
        BY <3>1, <3>3
      <4>2. c = t.cats[1] /\ c # "none"
        BY <3>1, <3>3, <4>1 DEF CategoryOf
      <4>3. c \in ToSet(t.cats) \cap ({c} \cup {})
        BY <4>1, <4>2 DEF ToSet
      <4> QED BY <3>1, <4>2, <4>3 DEF FilterByCategory
    <3> QED BY <3>2, <3>3
  <2> HIDE DEF counted, listed
  <2> QED BY <2>1, <2>2
<1> HIDE DEF report, counted, listed, v
<1>3. /\ Summable(v, txns) /\ \A t \in txns : v[t] \in Nat
      /\ RialOf(counted) = Total(v, counted) /\ RialOf(listed) = Total(v, listed)
  BY <1>2, RialsAre DEF v
<1>4. Summable(v, listed) /\ \A t \in listed : v[t] \in Nat
  BY <1>2, <1>3, SummableSubset
<1>5. Summable(v, counted)
  BY <1>2, <1>4, SummableSubset
<1>6. Total(v, counted) <= Total(v, listed) /\ Total(v, listed) \in Int /\ Total(v, counted) \in Int
  BY <1>2, <1>4, <1>5, TotalPartBelow, TotalIs
<1>7. RialOf(listed) >= report.category[c]
  BY <1>1, <1>3, <1>6
<1> QED BY <1>7 DEF report, listed

\* What is left of a debt; nothing if it is not known.
Rest(d) == IF d.amount = None \/ d.paid >= d.amount THEN 0 ELSE d.amount - d.paid

LEMMA RestSum ==
  ASSUME NEW S, IsFiniteSet(S), \A d \in S : Rest(d) \in Int
  PROVE  MapThenSumSet(Rest, S) = Total([d \in S |-> Rest(d)], S)
<1> DEFINE f == [d \in S |-> Rest(d)]
           It[s \in SUBSET S] == IF s = {} THEN 0 ELSE Rest(Pick(s)) + It[s \ {Pick(s)}]
<1>1. MapThenSumSet(Rest, S) = It[S]
  BY DEF MapThenSumSet, MapThenFoldSet, Pick
<1>2. \A x \in S : f[x] \in Int
  OBVIOUS
<1>3. \A s \in SUBSET S : s # {} => f[Pick(s)] = Rest(Pick(s))
  BY DEF Pick
<1> HIDE DEF f
<1>4. PICK g : SumTable(g, f, S)
  BY <1>2, SumExists
<1>5. g = [s \in SUBSET S |-> IF s = {} THEN 0 ELSE Rest(Pick(s)) + g[s \ {Pick(s)}]]
  BY <1>3, <1>4 DEF SumTable
<1>6. It = [s \in SUBSET S |-> IF s = {} THEN 0 ELSE Rest(Pick(s)) + It[s \ {Pick(s)}]]
  BY <1>5
<1> HIDE DEF It
<1>7. SumTable(It, f, S)
  BY <1>3, <1>6 DEF SumTable
<1>8. PICK h : SumTable(h, f, S) /\ Total(f, S) = h[S]
  BY <1>2, TotalTable
<1>9. It[S] = h[S]
  BY <1>7, <1>8, SumUnique
<1> QED BY <1>1, <1>8, <1>9 DEF f

LEMMA RemainingSum ==
  ASSUME NEW S, IsFiniteSet(S), \A d \in S : Remaining(d) \in Int
  PROVE  MapThenSumSet(Remaining, S) = Total([d \in S |-> Remaining(d)], S)
<1> DEFINE f == [d \in S |-> Remaining(d)]
           It[s \in SUBSET S] == IF s = {} THEN 0 ELSE Remaining(Pick(s)) + It[s \ {Pick(s)}]
<1>1. MapThenSumSet(Remaining, S) = It[S]
  BY DEF MapThenSumSet, MapThenFoldSet, Pick
<1>2. \A x \in S : f[x] \in Int
  OBVIOUS
<1>3. \A s \in SUBSET S : s # {} => f[Pick(s)] = Remaining(Pick(s))
  BY DEF Pick
<1> HIDE DEF f
<1>4. PICK g : SumTable(g, f, S)
  BY <1>2, SumExists
<1>5. g = [s \in SUBSET S |-> IF s = {} THEN 0 ELSE Remaining(Pick(s)) + g[s \ {Pick(s)}]]
  BY <1>3, <1>4 DEF SumTable
<1>6. It = [s \in SUBSET S |-> IF s = {} THEN 0 ELSE Remaining(Pick(s)) + It[s \ {Pick(s)}]]
  BY <1>5
<1> HIDE DEF It
<1>7. SumTable(It, f, S)
  BY <1>3, <1>6 DEF SumTable
<1>8. PICK h : SumTable(h, f, S) /\ Total(f, S) = h[S]
  BY <1>2, TotalTable
<1>9. It[S] = h[S]
  BY <1>7, <1>8, SumUnique
<1> QED BY <1>1, <1>8, <1>9 DEF f

\* What counts of the rest of a debt.
WorthLeft(d, short) == IF d \in short THEN Remaining(d) - 1 ELSE Remaining(d)

LEMMA OwedSum ==
  ASSUME NEW S, IsFiniteSet(S), NEW short, \A d \in S : ToRial(WorthLeft(d, short), d.currency) \in Int
  PROVE  MapThenSumSet(LAMBDA d : ToRial(WorthLeft(d, short), d.currency), S) = Total([d \in S |-> ToRial(WorthLeft(d, short), d.currency)], S)
<1> DEFINE f == [d \in S |-> ToRial(WorthLeft(d, short), d.currency)]
           It[s \in SUBSET S] == IF s = {} THEN 0 ELSE ToRial(WorthLeft(Pick(s), short), Pick(s).currency) + It[s \ {Pick(s)}]
<1>1. MapThenSumSet(LAMBDA d : ToRial(WorthLeft(d, short), d.currency), S) = It[S]
  BY DEF MapThenSumSet, MapThenFoldSet, Pick
<1>2. \A x \in S : f[x] \in Int
  OBVIOUS
<1>3. \A s \in SUBSET S : s # {} => f[Pick(s)] = ToRial(WorthLeft(Pick(s), short), Pick(s).currency)
  BY DEF Pick
<1> HIDE DEF f
<1>4. PICK g : SumTable(g, f, S)
  BY <1>2, SumExists
<1>5. g = [s \in SUBSET S |-> IF s = {} THEN 0 ELSE ToRial(WorthLeft(Pick(s), short), Pick(s).currency) + g[s \ {Pick(s)}]]
  BY <1>3, <1>4 DEF SumTable
<1>6. It = [s \in SUBSET S |-> IF s = {} THEN 0 ELSE ToRial(WorthLeft(Pick(s), short), Pick(s).currency) + It[s \ {Pick(s)}]]
  BY <1>5
<1> HIDE DEF It
<1>7. SumTable(It, f, S)
  BY <1>3, <1>6 DEF SumTable
<1>8. PICK h : SumTable(h, f, S) /\ Total(f, S) = h[S]
  BY <1>2, TotalTable
<1>9. It[S] = h[S]
  BY <1>7, <1>8, SumUnique
<1> QED BY <1>1, <1>8, <1>9 DEF f

\* As RoundedSums, with what each number may lose.
LEMMA RoundedParts ==
  ASSUME NEW S, NEW v, Summable(v, S), NEW w, Summable(w, S), NEW b, Summable(b, S),
         \A x \in S : 100 * v[x] <= w[x] /\ w[x] <= 100 * v[x] + 1000 * b[x]
  PROVE  /\ Total(v, S) \in Int /\ Total(w, S) \in Int /\ Total(b, S) \in Int
         /\ 100 * Total(v, S) <= Total(w, S) /\ Total(w, S) <= 100 * Total(v, S) + 1000 * Total(b, S)
<1> DEFINE low == [x \in S |-> 100 * v[x]]
           more == [x \in S |-> 1000 * b[x]]
           high == [x \in S |-> 100 * v[x] + 1000 * b[x]]
<1>1. Summable(low, S) /\ Summable(more, S) /\ Summable(high, S)
  BY DEF Summable
<1>2. \A x \in S : /\ low[x] = 100 * v[x] /\ more[x] = 1000 * b[x] /\ high[x] = low[x] + more[x]
                   /\ low[x] <= w[x] /\ w[x] <= high[x]
  OBVIOUS
<1> HIDE DEF low, more, high
<1>3. Total(low, S) = 100 * Total(v, S)
  BY <1>1, <1>2, TotalScale
<1>4. Total(high, S) = Total(low, S) + Total(more, S)
  BY <1>1, <1>2, TotalAdd
<1>5. Total(more, S) = 1000 * Total(b, S)
  BY <1>1, <1>2, TotalScale
<1>6. Total(low, S) <= Total(w, S) /\ Total(w, S) <= Total(high, S)
  BY <1>1, <1>2, TotalBelow
<1>7. Total(v, S) \in Int /\ Total(w, S) \in Int /\ Total(b, S) \in Int
  BY TotalIs
<1> QED BY <1>3, <1>4, <1>5, <1>6, <1>7

\* The debts with a rest are those that are listed as open.
LEMMA OwingIs ==
  ASSUME NEW debts, Debts(debts)
  PROVE  /\ IsFiniteSet(debts) /\ Owing(debts) = {d \in debts : Rest(d) # 0}
         /\ \A d \in debts : Rest(d) \in Nat /\ d.kind \in {"debt", "credit"} /\ d.currency \in Currency
         /\ \A d \in Owing(debts) : Remaining(d) = Rest(d)
         /\ \A d \in Owing(debts) : d.amount # None /\ d.amount > d.paid
<1>1. IsFiniteSet(debts) /\ None \notin Nat
  BY NamesAssumption DEF Debts, Keyed
<1>2. ASSUME NEW d \in debts
      PROVE  /\ Rest(d) \in Nat /\ d.kind \in {"debt", "credit"} /\ d.currency \in Currency
             /\ d \in Owing(debts) <=> Rest(d) # 0
             /\ d \in Owing(debts) => Remaining(d) = Rest(d) /\ d.amount # None /\ d.amount > d.paid
  <2>1. /\ d.amount \in Nat \cup {None} /\ d.paid \in Nat /\ d.kind \in {"debt", "credit"}
        /\ d.currency \in Currency
    BY DEF Debts, Debt, OrNone
  <2>2. d \in Owing(debts) <=> StatusFor(d) # "settled" /\ Remaining(d) \notin {None, 0}
    BY DEF Owing, Listed
  <2>3. CASE d.amount = None
    BY <2>1, <2>2, <2>3 DEF Remaining, Rest
  <2>4. CASE d.amount # None /\ ~(d.amount > d.paid)
    BY <2>1, <2>2, <2>4 DEF Remaining, Rest
  <2>5. CASE d.amount # None /\ d.amount > d.paid
    <3>1. Remaining(d) = d.amount - d.paid /\ Rest(d) = d.amount - d.paid
      BY <2>1, <2>5 DEF Remaining, Rest
    <3>2. Rest(d) \in Nat /\ Rest(d) # 0 /\ Rest(d) # None
      BY <1>1, <2>1, <2>5, <3>1
    <3>3. StatusFor(d) # "settled"
      BY <2>1, <2>5, <3>1, <3>2 DEF StatusFor
    <3> QED BY <2>1, <2>2, <2>5, <3>1, <3>2, <3>3
  <2> QED BY <2>3, <2>4, <2>5
<1>3. Owing(debts) \in SUBSET debts
  BY DEF Owing, Listed
<1> QED BY <1>1, <1>2, <1>3

Rests(debts, k, c) == MapThenSumSet(Rest, {d \in debts : d.kind = k /\ d.currency = c})
Left(debts) == [d \in debts |-> Rest(d)]

LEMMA RestsAre ==
  ASSUME NEW debts, Debts(debts)
  PROVE  /\ Summable(Left(debts), debts) /\ \A d \in debts : Left(debts)[d] = Rest(d)
         /\ \A T \in SUBSET debts : /\ IsFiniteSet(T) /\ Summable(Left(debts), T)
                                    /\ MapThenSumSet(Rest, T) = Total(Left(debts), T)
<1> DEFINE f == Left(debts)
<1>1. IsFiniteSet(debts) /\ \A d \in debts : f[d] = Rest(d) /\ f[d] \in Int
  BY OwingIs DEF Left
<1> HIDE DEF f
<1>2. Summable(f, debts)
  BY <1>1 DEF Summable
<1>3. ASSUME NEW T \in SUBSET debts
      PROVE  IsFiniteSet(T) /\ Summable(f, T) /\ MapThenSumSet(Rest, T) = Total(f, T)
  <2>1. IsFiniteSet(T) /\ Summable(f, T)
    BY <1>2, SummableSubset DEF Summable
  <2> DEFINE g == [d \in T |-> Rest(d)]
  <2>2. MapThenSumSet(Rest, T) = Total(g, T)
    BY <1>1, <2>1, RestSum
  <2>3. \A d \in T : f[d] = g[d]
    BY <1>1
  <2> HIDE DEF g
  <2> QED BY <2>1, <2>2, <2>3, TotalSame
<1> QED BY <1>1, <1>2, <1>3 DEF f

\* The open debts are what the rests come to, by kind and currency.
LEMMA OpenHolds ==
  ASSUME NEW debts, Debts(debts), NEW k \in {"debt", "credit"}, NEW c
  PROVE  LET open == Totals(debts)[k]
         IN  Rests(debts, k, c) = IF c \in DOMAIN open THEN open[c] ELSE 0
<1> DEFINE open == Totals(debts)[k]
           all == {d \in debts : d.kind = k /\ d.currency = c}
           owed == {d \in Owing(debts) : d.kind = k /\ d.currency = c}
           f == Left(debts)
<1>1. owed \in SUBSET all /\ all \in SUBSET debts /\ \A d \in all \ owed : Rest(d) = 0
  BY OwingIs
<1>2. /\ DOMAIN open = {d.currency : d \in {e \in Owing(debts) : e.kind = k}}
      /\ c \in DOMAIN open =>
           open[c] = MapThenSumSet(Remaining, {d \in {e \in Owing(debts) : e.kind = k} : d.currency = c})
  BY DEF Totals
<1>3. {d \in {e \in Owing(debts) : e.kind = k} : d.currency = c} = owed
  OBVIOUS
<1>4. \A d \in owed : Remaining(d) = Rest(d) /\ Rest(d) \in Int
  BY <1>1, OwingIs
<1>5. c \in DOMAIN open <=> owed # {}
  <2> HIDE DEF open
  <2> QED BY <1>2
<1> HIDE DEF all, owed, f, open
<1>6. /\ Summable(f, all) /\ Summable(f, owed) /\ \A d \in all : f[d] = Rest(d)
      /\ IsFiniteSet(owed) /\ MapThenSumSet(Rest, all) = Total(f, all)
  BY <1>1, RestsAre DEF f
<1>7. Total(f, all) = Total(f, owed)
  <2>1. \A d \in all \ owed : f[d] = 0
    BY <1>1, <1>6
  <2> QED BY <1>1, <1>6, <2>1, TotalPart
<1>8. c \in DOMAIN open => open[c] = Total(f, owed)
  <2> DEFINE g == [d \in owed |-> Remaining(d)]
  <2>1. MapThenSumSet(Remaining, owed) = Total(g, owed)
    BY <1>4, <1>6, RemainingSum
  <2>2. \A d \in owed : f[d] = g[d]
    BY <1>1, <1>4, <1>6
  <2> HIDE DEF g
  <2>3. Total(f, owed) = Total(g, owed)
    BY <1>6, <2>2, TotalSame
  <2> QED BY <1>2, <1>3, <2>1, <2>3
<1>9. c \notin DOMAIN open => Total(f, owed) = 0
  BY <1>5, <1>6, TotalIs
<1>10. Rests(debts, k, c) = MapThenSumSet(Rest, all)
  BY DEF Rests, all
<1>11. Rests(debts, k, c) = IF c \in DOMAIN open THEN open[c] ELSE 0
  BY <1>6, <1>7, <1>8, <1>9, <1>10
<1> QED BY <1>11 DEF open

Owed(debts, k, short) ==
  MapThenSumSet(LAMBDA d : ToRial(WorthLeft(d, short), d.currency),
                {d \in Owing(debts) : d.kind = k})
Broken(debts, k) ==
  {d \in debts : d.kind = k /\ Local(d) /\ Rest(d) > 0
                   /\ (d.amount % 100 # 0 \/ d.paid % 100 # 0)}

\* One rest in rials: it loses less than a unit, and nothing without a fraction.
LEMMA RestHolds ==
  ASSUME NEW d, d.amount \in OrNone(Nat), d.paid \in Nat, Local(d), NEW e \in {0, 1},
         e = 1 => Rest(d) > 0 /\ (d.amount % 100 # 0 \/ d.paid % 100 # 0)
  PROVE  LET exact == IF d.currency = "toman" THEN 10 * Rest(d) ELSE Rest(d)
             rial == ToRial(Rest(d) - e, d.currency)
             loss == IF Rest(d) > 0 /\ (d.amount % 100 # 0 \/ d.paid % 100 # 0) THEN 1 ELSE 0
         IN  /\ exact \in Nat /\ rial \in Nat
             /\ 100 * rial <= exact /\ exact <= 100 * rial + 1000 * loss
<1> DEFINE rest == Rest(d)
<1>1. rest \in Nat /\ rest - e \in Nat /\ rest - e # None
  BY NamesAssumption DEF Rest, OrNone
<1>2. rest > 0 => d.amount \in Nat /\ rest = d.amount - d.paid
  BY DEF Rest, OrNone
<1>3. \A a, b \in Nat : a % 100 = 0 /\ b % 100 = 0 /\ a >= b =>
        (a - b) % 100 = 0 /\ a - b = 100 * ((a - b) \div 100)
  OBVIOUS
<1>4. /\ rest - e < 100 * ((rest - e) \div 100) + 100 /\ 100 * ((rest - e) \div 100) <= rest - e
      /\ (rest - e) \div 100 \in Nat
  <2> HIDE DEF rest
  <2> QED BY <1>1
<1>5. d.currency = "toman" => ToRial(rest - e, d.currency) = 10 * ((rest - e) \div 100)
  BY <1>1 DEF ToRial
<1>6. d.currency # "toman" => ToRial(rest - e, d.currency) = (rest - e) \div 100
  BY <1>1 DEF ToRial, Local
<1>7. CASE rest > 0 /\ (d.amount % 100 # 0 \/ d.paid % 100 # 0)
  <2> HIDE DEF rest
  <2> QED BY <1>1, <1>4, <1>5, <1>6, <1>7 DEF rest
<1>8. CASE ~(rest > 0 /\ (d.amount % 100 # 0 \/ d.paid % 100 # 0))
  <2>1. e = 0 /\ rest = 100 * (rest \div 100) /\ rest \div 100 \in Nat
    <3>1. e = 0
      BY <1>8
    <3>2. rest > 0 => d.amount \in Nat /\ d.amount % 100 = 0 /\ d.paid % 100 = 0 /\ d.amount >= d.paid
      BY <1>1, <1>2, <1>8
    <3> HIDE DEF rest
    <3>3. rest > 0 => rest = 100 * (rest \div 100)
      BY <1>2, <1>3, <3>2
    <3>4. rest = 0 => rest = 100 * (rest \div 100)
      OBVIOUS
    <3> QED BY <1>1, <3>1, <3>3, <3>4
  <2> HIDE DEF rest
  <2>2. rest - e = rest
    BY <1>1, <2>1
  <2> QED BY <1>1, <1>5, <1>6, <1>8, <2>1, <2>2 DEF rest
<1> QED BY <1>7, <1>8

\* The rials of all debts of a kind: short of at most a unit for each fraction.
LEMMA KindHolds ==
  ASSUME NEW debts, Debts(debts), NEW k \in {"debt", "credit"}, NEW short \in SUBSET Frayed(debts)
  PROVE  LET rials == Owed(debts, k, short)
             exact == 10 * Rests(debts, k, "toman") + Rests(debts, k, "rial")
             broken == Cardinality(Broken(debts, k))
         IN  /\ rials \in Int /\ Rests(debts, k, "toman") \in Int /\ Rests(debts, k, "rial") \in Int
             /\ broken \in Nat /\ 100 * rials <= exact /\ exact <= 100 * rials + 1000 * broken
<1> DEFINE all == {d \in debts : d.kind = k}
           owed == {d \in Owing(debts) : d.kind = k}
           in(c) == {d \in debts : d.kind = k /\ d.currency = c}
           other == (all \ in("toman")) \ in("rial")
           broken == Broken(debts, k)
           f == Left(debts)
           e == [d \in all |-> IF d \in short THEN 1 ELSE 0]
           v == [d \in all |-> ToRial(Rest(d) - e[d], d.currency)]
           w == [d \in all |-> IF Local(d) THEN IF d.currency = "toman" THEN 10 * Rest(d) ELSE Rest(d) ELSE 0]
           b == [d \in all |-> IF d \in broken THEN 1 ELSE 0]
<1>1. /\ owed \in SUBSET all /\ all \in SUBSET debts /\ \A d \in all : d \in owed <=> Rest(d) # 0
      /\ broken \in SUBSET all /\ in("toman") \in SUBSET all /\ in("rial") \in SUBSET all
  BY OwingIs DEF Broken
<1>2. \A d \in all : /\ v[d] = ToRial(Rest(d) - e[d], d.currency)
                     /\ v[d] \in Nat /\ w[d] \in Nat /\ b[d] \in Nat
                     /\ 100 * v[d] <= w[d] /\ w[d] <= 100 * v[d] + 1000 * b[d]
                     /\ Rest(d) = 0 => v[d] = 0
  <2> SUFFICES ASSUME NEW d \in all
               PROVE  /\ v[d] = ToRial(Rest(d) - e[d], d.currency)
                      /\ v[d] \in Nat /\ w[d] \in Nat /\ b[d] \in Nat
                      /\ 100 * v[d] <= w[d] /\ w[d] <= 100 * v[d] + 1000 * b[d]
                      /\ Rest(d) = 0 => v[d] = 0
    OBVIOUS
  <2> DEFINE rest == Rest(d)
             one == e[d]
             frayed == d.amount % 100 # 0 \/ d.paid % 100 # 0
  <2>1. /\ d.amount \in OrNone(Nat) /\ d.paid \in Nat /\ rest \in Nat /\ d \in debts
        /\ one \in {0, 1} /\ (one = 1 => rest > 0 /\ frayed)
    <3>1. d \in debts /\ d.amount \in OrNone(Nat) /\ d.paid \in Nat /\ rest \in Nat
      BY OwingIs DEF Debts, Debt
    <3>2. d \in short => rest # 0 /\ frayed
      BY <3>1, OwingIs DEF Frayed
    <3>3. one = IF d \in short THEN 1 ELSE 0
      OBVIOUS
    <3> HIDE DEF rest, one, frayed
    <3> QED BY <3>1, <3>2, <3>3
  <2>2. /\ v[d] = ToRial(rest - one, d.currency)
        /\ w[d] = IF Local(d) THEN IF d.currency = "toman" THEN 10 * rest ELSE rest ELSE 0
        /\ b[d] = IF Local(d) /\ rest > 0 /\ frayed THEN 1 ELSE 0
    BY <2>1 DEF Broken
  <2>3. CASE Local(d)
    <3>1. LET exact == IF d.currency = "toman" THEN 10 * rest ELSE rest
              rial == ToRial(rest - one, d.currency)
              loss == IF rest > 0 /\ frayed THEN 1 ELSE 0
          IN  /\ exact \in Nat /\ rial \in Nat
              /\ 100 * rial <= exact /\ exact <= 100 * rial + 1000 * loss
      <4> HIDE DEF one
      <4> QED BY <2>1, <2>3, RestHolds
    <3>2. rest = 0 => v[d] = 0
      <4> HIDE DEF rest, one, frayed, v, w, b, all, e
      <4>1. rest = 0 => one = 0 /\ rest - one = 0
        BY <2>1
      <4>2. 0 # None
        BY NamesAssumption
      <4> QED BY <2>2, <2>3, <4>1, <4>2 DEF ToRial, Local
    <3> HIDE DEF rest, one, frayed, v, w, b, all, e
    <3> QED BY <2>2, <2>3, <3>1, <3>2 DEF rest, one
  <2>4. CASE ~Local(d)
    <3> HIDE DEF rest, one, frayed, v, w, b, all, e
    <3>1. v[d] = 0 /\ w[d] = 0 /\ b[d] = 0
      BY <2>2, <2>4 DEF ToRial, Local
    <3> QED BY <2>2, <3>1 DEF rest, one
  <2> QED BY <2>3, <2>4
<1>3. /\ IsFiniteSet(all) /\ Summable(v, all) /\ Summable(w, all) /\ Summable(b, all)
      /\ IsFiniteSet(owed) /\ IsFiniteSet(broken)
  <2>1. IsFiniteSet(all)
    BY <1>1, OwingIs, FS_Subset
  <2> HIDE DEF all, v, w, b, owed, broken
  <2>2. \A d \in all : v[d] \in Int /\ w[d] \in Int /\ b[d] \in Int
    BY <1>2
  <2> QED BY <1>1, <2>1, <2>2, FS_Subset DEF Summable
<1>4. \A d \in all : b[d] = IF d \in broken THEN 1 ELSE 0
  OBVIOUS
<1>5. /\ \A d \in in("toman") : w[d] = 10 * f[d]
      /\ \A d \in in("rial") : w[d] = f[d]
      /\ \A d \in other : w[d] = 0
  <2>1. \A d \in debts : f[d] = Rest(d)
    BY RestsAre
  <2> HIDE DEF f
  <2> QED BY <2>1 DEF Local
<1>6. in("rial") \in SUBSET (all \ in("toman"))
  OBVIOUS
<1>7. \A T \in SUBSET debts : Summable(f, T) /\ MapThenSumSet(Rest, T) = Total(f, T)
  BY RestsAre
<1>8. Rests(debts, k, "toman") = Total(f, in("toman")) /\ Rests(debts, k, "rial") = Total(f, in("rial"))
  <2>1. in("toman") \in SUBSET debts /\ in("rial") \in SUBSET debts
    OBVIOUS
  <2>2. Rests(debts, k, "toman") = MapThenSumSet(Rest, in("toman")) /\ Rests(debts, k, "rial") = MapThenSumSet(Rest, in("rial"))
    BY DEF Rests
  <2> HIDE DEF in, f
  <2> QED BY <1>7, <2>1, <2>2
<1>9. Total(w, all) = 10 * Rests(debts, k, "toman") + Rests(debts, k, "rial")
      /\ Rests(debts, k, "toman") \in Int /\ Rests(debts, k, "rial") \in Int
  <2> DEFINE tomans == in("toman")
             rials == in("rial")
             abroad == all \ tomans
  <2>1. /\ tomans \in SUBSET all /\ rials \in SUBSET abroad /\ abroad \in SUBSET all
        /\ all \cap tomans = tomans /\ abroad \cap rials = rials
        /\ all \ tomans = abroad /\ abroad \ rials = other
        /\ other \in SUBSET abroad /\ tomans \in SUBSET debts /\ rials \in SUBSET debts
    BY <1>1, <1>6
  <2>2. /\ \A d \in tomans : w[d] = 10 * f[d]
        /\ \A d \in rials : w[d] = f[d]
        /\ \A d \in other : w[d] = 0
        /\ Rests(debts, k, "toman") = Total(f, tomans) /\ Rests(debts, k, "rial") = Total(f, rials)
    BY <1>5, <1>8
  <2>0. Summable(w, all) /\ \A T \in SUBSET debts : Summable(f, T)
    BY <1>3, <1>7
  <2> HIDE DEF tomans, rials, abroad, other, all, w, f, in, e, v, b
  <2>3. /\ Summable(w, tomans) /\ Summable(w, abroad) /\ Summable(w, rials) /\ Summable(w, other)
        /\ Summable(f, tomans) /\ Summable(f, rials)
    BY <2>0, <2>1, SummableSubset
  <2>4. Total(w, all) = Total(w, tomans) + Total(w, abroad)
    <3>1. Total(w, all) = Total(w, all \cap tomans) + Total(w, all \ tomans)
      BY <2>0, <2>1, TotalSplit
    <3> QED BY <2>1, <3>1, Zenon
  <2>5. Total(w, abroad) = Total(w, rials) + Total(w, other)
    <3>1. Total(w, abroad) = Total(w, abroad \cap rials) + Total(w, abroad \ rials)
      BY <2>1, <2>3, TotalSplit
    <3> QED BY <2>1, <3>1, Zenon
  <2>6. Total(w, other) = 0 /\ Total(w, rials) = Total(f, rials)
    BY <2>2, <2>3, TotalZero, TotalSame
  <2>7. Total(w, tomans) = 10 * Total(f, tomans)
    BY <2>2, <2>3, TotalScale
  <2>8. Total(f, tomans) \in Int /\ Total(f, rials) \in Int
    BY <2>3, TotalIs
  <2> QED BY <2>2, <2>4, <2>5, <2>6, <2>7, <2>8
<1>10. Total(b, all) = Cardinality(broken)
  <2> HIDE DEF b, all, broken
  <2>1. \A d \in broken : b[d] = 1
    BY <1>1, <1>4
  <2>2. \A d \in all \ broken : b[d] = 0
    BY <1>4
  <2>3. Summable(b, broken)
    BY <1>1, <1>3, SummableSubset
  <2>4. Total(b, all) = Total(b, broken)
    BY <1>1, <1>3, <2>2, TotalPart
  <2>5. Total(b, broken) = 1 * Cardinality(broken)
    BY <2>1, <2>3, TotalConst
  <2>6. Cardinality(broken) \in Nat
    BY <1>3, FS_CardinalityType
  <2> QED BY <2>4, <2>5, <2>6
<1> DEFINE rials == MapThenSumSet(LAMBDA d : ToRial(WorthLeft(d, short), d.currency), owed)
<1>11. rials = Total(v, all)
  <2>1. \A d \in owed : ToRial(WorthLeft(d, short), d.currency) = v[d] /\ v[d] \in Int
    <3>1. \A d \in owed : d \in all /\ Remaining(d) = Rest(d) /\ Rest(d) \in Nat
      BY <1>1, OwingIs
    <3>2. \A d \in owed : WorthLeft(d, short) = Rest(d) - e[d]
      BY <3>1 DEF WorthLeft
    <3> HIDE DEF all, owed, v, e
    <3> QED BY <1>2, <3>1, <3>2
  <2> DEFINE g == [d \in owed |-> ToRial(WorthLeft(d, short), d.currency)]
  <2> HIDE DEF all, owed, v
  <2>2. rials = Total(g, owed)
    BY <1>3, <2>1, OwedSum
  <2>3. \A d \in owed : v[d] = g[d]
    BY <2>1
  <2> HIDE DEF g, rials
  <2>4. Summable(v, owed)
    BY <1>1, <1>3, SummableSubset
  <2>5. Total(v, owed) = Total(g, owed)
    BY <2>3, <2>4, TotalSame
  <2>6. \A d \in all \ owed : v[d] = 0
    BY <1>1, <1>2
  <2>7. Total(v, all) = Total(v, owed)
    BY <1>1, <1>3, <2>6, TotalPart
  <2> QED BY <2>2, <2>5, <2>7
<1> HIDE DEF rials, v, w, b, all, broken
<1>12. /\ Total(v, all) \in Int /\ Total(w, all) \in Int /\ Total(b, all) \in Int
       /\ 100 * Total(v, all) <= Total(w, all)
       /\ Total(w, all) <= 100 * Total(v, all) + 1000 * Total(b, all)
  <2>1. \A d \in all : 100 * v[d] <= w[d] /\ w[d] <= 100 * v[d] + 1000 * b[d]
    BY <1>2
  <2> QED BY <1>3, <2>1, RoundedParts
<1>13. Cardinality(broken) \in Nat
  BY <1>3, FS_CardinalityType
<1>14. /\ rials \in Int /\ 100 * rials <= 10 * Rests(debts, k, "toman") + Rests(debts, k, "rial")
       /\ 10 * Rests(debts, k, "toman") + Rests(debts, k, "rial") <= 100 * rials + 1000 * Cardinality(broken)
  BY <1>9, <1>10, <1>11, <1>12
<1> QED BY <1>9, <1>13, <1>14 DEF Owed, rials, owed, broken

\* The balance is short of at most a unit for each fraction.
LEMMA BalanceHolds ==
  ASSUME NEW debts, Debts(debts), NEW short \in SUBSET Frayed(debts)
  PROVE  LET exact == 10 * (Rests(debts, "credit", "toman") - Rests(debts, "debt", "toman"))
                      + Rests(debts, "credit", "rial") - Rests(debts, "debt", "rial")
             net == NetToman(debts, short)
         IN  /\ 1000 * net <= exact + 1000 * Cardinality(Broken(debts, "debt"))
             /\ exact < 1000 * (net + 1 + Cardinality(Broken(debts, "credit")))
<1> DEFINE net == NetToman(debts, short)
           a == Owed(debts, "credit", short)
           b == Owed(debts, "debt", short)
           at == Rests(debts, "credit", "toman")
           bt == Rests(debts, "debt", "toman")
           ar == Rests(debts, "credit", "rial")
           br == Rests(debts, "debt", "rial")
           ac == Cardinality(Broken(debts, "credit"))
           bc == Cardinality(Broken(debts, "debt"))
<1>1. /\ a \in Int /\ at \in Int /\ ar \in Int /\ ac \in Nat
      /\ 100 * a <= 10 * at + ar /\ 10 * at + ar <= 100 * a + 1000 * ac
  BY KindHolds
<1>2. /\ b \in Int /\ bt \in Int /\ br \in Int /\ bc \in Nat
      /\ 100 * b <= 10 * bt + br /\ 10 * bt + br <= 100 * b + 1000 * bc
  BY KindHolds
<1>3. net = (a - b) \div 10
  BY DEF NetToman, Owed, WorthLeft
<1> HIDE DEF a, b, at, bt, ar, br, ac, bc, net
<1>4. \A x \in Int : x \div 10 \in Int /\ 10 * (x \div 10) <= x /\ x <= 10 * (x \div 10) + 9
  OBVIOUS
<1>5. net \in Int /\ 10 * net <= a - b /\ a - b <= 10 * net + 9
  BY <1>1, <1>2, <1>3, <1>4
<1>6. /\ 1000 * net <= (10 * (at - bt) + ar - br) + 1000 * bc
      /\ 10 * (at - bt) + ar - br < 1000 * (net + 1 + ac)
  BY <1>1, <1>2, <1>5
<1> QED BY <1>6 DEF at, bt, ar, br, ac, bc, net

-----------------------------------------------------------------------------
(* The picture of the ledger.                                              *)

Above(rows, r) == {s \in rows : s.id > r.id}
Rows(rows) == Keyed(rows) /\ \A r \in rows : r.id \in Nat

\* There are as many newest rows as asked for, unless there are fewer rows.
LEMMA NewestCount ==
  ASSUME NEW rows, Rows(rows), NEW n \in Nat
  PROVE  \A U \in SUBSET rows :
           Cardinality(Newest(U, n)) = IF Cardinality(U) < n THEN Cardinality(U) ELSE n
<1> DEFINE P == {U \in SUBSET rows :
                   Cardinality(Newest(U, n)) = IF Cardinality(U) < n THEN Cardinality(U) ELSE n}
<1>1. IsFiniteSet(rows) /\ \A U \in SUBSET rows : IsFiniteSet(U) /\ Cardinality(U) \in Nat
  BY FS_Subset, FS_CardinalityType DEF Rows, Keyed
<1>2. {} \in P
  <2>1. Newest({}, n) = {}
    BY DEF Newest
  <2> QED BY <2>1, FS_EmptySet
<1>3. ASSUME NEW U \in SUBSET rows, U # {}, \A x \in U : U \ {x} \in P PROVE U \in P
  <2> DEFINE ids == {s.id : s \in U}
  <2>1. PICK m \in U : \A s \in U : m.id <= s.id
    <3>1. ids # {} /\ ids \in SUBSET Nat
      BY <1>3 DEF Rows
    <3>2. Min(ids) \in ids /\ \A i \in ids : Min(ids) <= i
      <4> HIDE DEF ids
      <4> QED BY <3>1, MinIs
    <3> QED BY <3>2
  <2> DEFINE rest == U \ {m}
  <2>2. \A s \in rest : s.id # m.id /\ s.id > m.id
    <3>1. \A s \in rest : s.id # m.id /\ s.id \in Nat /\ m.id \in Nat /\ m.id <= s.id
      BY <2>1 DEF Rows, Keyed
    <3> HIDE DEF rest
    <3> QED BY <3>1
  <2>3. Above(U, m) = rest
    <3>1. ~(m.id > m.id)
      BY <2>1 DEF Rows
    <3> QED BY <2>2, <3>1 DEF Above
  <2>4. \A s \in rest : Above(U, s) = Above(rest, s)
    <3>1. \A s \in rest : s.id \in Nat /\ m.id \in Nat /\ ~(m.id > s.id)
      BY <2>1 DEF Rows
    <3> QED BY <3>1 DEF Above
  <2>5. /\ rest \in SUBSET rows /\ IsFiniteSet(U) /\ IsFiniteSet(rest) /\ m \notin rest /\ m \in U
        /\ U = rest \cup {m}
    BY <1>1, <2>1
  <2>6. /\ Cardinality(rest) = Cardinality(U) - 1
        /\ Cardinality(U) \in Nat /\ Cardinality(rest) \in Nat
    <3>1. Cardinality(U) \in Nat /\ Cardinality(rest) \in Nat
      BY <2>5, FS_CardinalityType
    <3> QED BY <2>1, <2>5, <3>1, FS_RemoveElement
  <2>7. Cardinality(Newest(rest, n)) = IF Cardinality(rest) < n THEN Cardinality(rest) ELSE n
    BY <1>3, <2>1
  <2> HIDE DEF rest
  <2>8. /\ Newest(U, n) = {r \in U : Cardinality(Above(U, r)) < n}
        /\ Newest(rest, n) = {r \in rest : Cardinality(Above(rest, r)) < n}
    BY DEF Newest, Above
  <2>9. Newest(U, n) = IF Cardinality(rest) < n THEN Newest(rest, n) \cup {m} ELSE Newest(rest, n)
    BY <2>3, <2>4, <2>5, <2>8
  <2>10. Newest(rest, n) \in SUBSET rest /\ IsFiniteSet(Newest(rest, n)) /\ m \notin Newest(rest, n)
    <3>1. Newest(rest, n) \in SUBSET rest
      BY <2>8
    <3> QED BY <2>5, <3>1, FS_Subset
  <2>11. Cardinality(Newest(rest, n) \cup {m}) = Cardinality(Newest(rest, n)) + 1
    BY <2>10, FS_AddElement
  <2>12. Cardinality(Newest(U, n)) = IF Cardinality(U) < n THEN Cardinality(U) ELSE n
    <3>1. CASE Cardinality(rest) < n
      <4>1. Cardinality(Newest(U, n)) = Cardinality(rest) + 1
        BY <2>6, <2>7, <2>9, <2>11, <3>1
      <4> QED BY <2>6, <3>1, <4>1
    <3>2. CASE ~(Cardinality(rest) < n)
      <4>1. Cardinality(Newest(U, n)) = n
        BY <2>7, <2>9, <3>2
      <4> QED BY <2>6, <3>2, <4>1
    <3> QED BY <3>1, <3>2
  <2> QED BY <2>12
<1> HIDE DEF P
<1>4. \A U \in SUBSET rows : U \in P
  BY <1>1, <1>2, <1>3, FinInd
<1> QED BY <1>4 DEF P

\* A row is left out only for as many newer ones as are shown.
LEMMA NewestHolds ==
  ASSUME NEW rows, Rows(rows), NEW n \in Nat
  PROVE  LET shown == Newest(rows, n)
         IN  /\ shown \in SUBSET rows /\ IsFiniteSet(shown)
             /\ Cardinality(shown) + Cardinality(rows \ shown) = Cardinality(rows)
             /\ \A r \in rows \ shown : Cardinality(Above(shown, r)) = n
<1> DEFINE shown == Newest(rows, n)
<1>1. /\ shown \in SUBSET rows /\ IsFiniteSet(rows)
      /\ \A r \in rows : r \in shown <=> Cardinality(Above(rows, r)) < n
  BY DEF Newest, Above, Rows, Keyed
<1> HIDE DEF shown
<1>2. IsFiniteSet(shown)
  BY <1>1, FS_Subset
<1>3. Cardinality(shown) + Cardinality(rows \ shown) = Cardinality(rows)
  <2>1. rows \cap shown = shown
    BY <1>1
  <2>2. Cardinality(rows \ shown) = Cardinality(rows) - Cardinality(rows \cap shown)
    BY <1>1, FS_Difference
  <2>3. Cardinality(rows) \in Nat /\ Cardinality(shown) \in Nat
    BY <1>1, <1>2, FS_CardinalityType
  <2>4. Cardinality(rows \ shown) = Cardinality(rows) - Cardinality(shown)
    BY <2>1, <2>2, Zenon
  <2> QED BY <2>3, <2>4
<1>4. ASSUME NEW r \in rows \ shown PROVE Cardinality(Above(shown, r)) = n
  <2> DEFINE above == Above(rows, r)
  <2>1. ~(Cardinality(above) < n)
    BY <1>1
  <2>2. above \in SUBSET rows
    BY DEF Above
  <2>3. \A s \in above : Above(above, s) = Above(rows, s)
    <3>1. \A s \in above, t \in rows : t.id > s.id => t.id > r.id
      BY DEF Above, Rows
    <3> QED BY <3>1 DEF Above
  <2>4. Newest(above, n) = Above(shown, r)
    <3>1. Newest(above, n) = {s \in above : Cardinality(Above(above, s)) < n}
      BY DEF Newest, Above
    <3>2. Above(shown, r) = {s \in above : s \in shown}
      BY <1>1 DEF Above
    <3> HIDE DEF above
    <3>3. \A s \in above : Cardinality(Above(above, s)) < n <=> s \in shown
      BY <1>1, <2>2, <2>3
    <3> QED BY <3>1, <3>2, <3>3
  <2> HIDE DEF above
  <2>5. Cardinality(Newest(above, n)) = n
    BY <2>1, <2>2, NewestCount
  <2> QED BY <2>4, <2>5
<1> QED BY <1>1, <1>2, <1>3, <1>4 DEF shown

-----------------------------------------------------------------------------
(* Finite sets in an order.                                                *)

\* A strict order on S, as the elements before each one.
Ordered(before, S) ==
  /\ \A x \in S : x \notin before[x]
  /\ \A x, y, z \in S : x \in before[y] /\ y \in before[z] => x \in before[z]
  /\ \A x, y \in S : x # y => x \in before[y] \/ y \in before[x]

LEMMA LastExists ==
  ASSUME NEW S, IsFiniteSet(S), NEW before, Ordered(before, S)
  PROVE  \A U \in SUBSET S : U # {} => \E m \in U : \A x \in U \ {m} : x \in before[m]
<1> DEFINE P == {U \in SUBSET S : U # {} => \E m \in U : \A x \in U \ {m} : x \in before[m]}
<1>1. {} \in P
  OBVIOUS
<1>2. ASSUME NEW U \in SUBSET S, U # {}, \A x \in U : U \ {x} \in P PROVE U \in P
  <2>1. PICK a \in U : TRUE
    BY <1>2
  <2>2. CASE U = {a}
    BY <2>2
  <2>3. CASE U # {a}
    <3>1. PICK m \in U \ {a} : \A x \in (U \ {a}) \ {m} : x \in before[m]
      BY <1>2, <2>1, <2>3
    <3>2. CASE a \in before[m]
      <4>1. \A x \in U \ {m} : x \in before[m]
        BY <3>1, <3>2
      <4> QED BY <3>1, <4>1
    <3>3. CASE a \notin before[m]
      <4>1. m \in before[a]
        BY <2>1, <3>1, <3>3 DEF Ordered
      <4>2. \A x \in U \ {a} : x \in before[a]
        BY <2>1, <3>1, <4>1 DEF Ordered
      <4> QED BY <2>1, <4>2
    <3> QED BY <3>2, <3>3
  <2> QED BY <2>2, <2>3
<1> HIDE DEF P
<1>3. \A U \in SUBSET S : U \in P
  BY <1>1, <1>2, FinInd
<1> QED BY <1>3 DEF P

Rank(before, S, x) == Cardinality({y \in S : y \in before[x]})

\* Every place is taken, and by one element only.
LEMMA RankExists ==
  ASSUME NEW S, IsFiniteSet(S), NEW before, Ordered(before, S)
  PROVE  \A U \in SUBSET S : \A n \in 1..Cardinality(U) : \E x \in U : Rank(before, U, x) = n - 1
<1> DEFINE P == {U \in SUBSET S : \A n \in 1..Cardinality(U) : \E x \in U : Rank(before, U, x) = n - 1}
<1>1. {} \in P
  BY FS_EmptySet
<1>2. ASSUME NEW U \in SUBSET S, U # {}, \A x \in U : U \ {x} \in P PROVE U \in P
  <2>1. PICK m \in U : \A x \in U \ {m} : x \in before[m]
    BY <1>2, LastExists
  <2> DEFINE rest == U \ {m}
  <2>2. IsFiniteSet(U) /\ Cardinality(U) \in Nat /\ Cardinality(rest) = Cardinality(U) - 1
    <3>1. IsFiniteSet(U)
      BY FS_Subset
    <3> QED BY <2>1, <3>1, FS_CardinalityType, FS_RemoveElement
  <2>3. {y \in U : y \in before[m]} = rest
    BY <2>1 DEF Ordered
  <2>4. \A x \in rest : {y \in U : y \in before[x]} = {y \in rest : y \in before[x]}
    BY <2>1 DEF Ordered
  <2>5. Rank(before, U, m) = Cardinality(U) - 1
    BY <2>2, <2>3 DEF Rank
  <2>6. \A x \in rest : Rank(before, U, x) = Rank(before, rest, x)
    BY <2>4 DEF Rank
  <2>7. rest \in P
    BY <1>2, <2>1
  <2> HIDE DEF rest
  <2>8. ASSUME NEW n \in 1..Cardinality(U) PROVE \E x \in U : Rank(before, U, x) = n - 1
    <3>1. CASE n = Cardinality(U)
      BY <2>1, <2>5, <3>1
    <3>2. CASE n # Cardinality(U)
      <4>1. n \in 1..Cardinality(rest)
        BY <2>2, <3>2
      <4>2. PICK x \in rest : Rank(before, rest, x) = n - 1
        BY <2>7, <4>1
      <4> QED BY <2>6, <4>2 DEF rest
    <3> QED BY <3>1, <3>2
  <2> QED BY <2>8
<1> HIDE DEF P
<1>3. \A U \in SUBSET S : U \in P
  BY <1>1, <1>2, FinInd
<1> QED BY <1>3 DEF P

LEMMA RankUnique ==
  ASSUME NEW S, IsFiniteSet(S), NEW before, Ordered(before, S), NEW a \in S, NEW b \in S
  PROVE  /\ Rank(before, S, a) = Rank(before, S, b) => a = b
         /\ Rank(before, S, a) + 1 \in 1..Cardinality(S)
<1> DEFINE to(x) == {y \in S : y \in before[x]}
<1>1. ASSUME NEW x \in S
      PROVE  /\ IsFiniteSet(to(x)) /\ x \notin to(x) /\ to(x) \in SUBSET (S \ {x})
             /\ Rank(before, S, x) = Cardinality(to(x)) /\ Cardinality(to(x)) \in Nat
  <2>1. to(x) \in SUBSET (S \ {x}) /\ to(x) \in SUBSET S
    BY DEF Ordered
  <2>2. IsFiniteSet(to(x))
    BY <2>1, FS_Subset
  <2>3. Cardinality(to(x)) \in Nat
    BY <2>2, FS_CardinalityType
  <2> QED BY <2>1, <2>2, <2>3 DEF Rank
<1>2. ASSUME NEW x \in S, NEW y \in S, x \in before[y]
      PROVE  Rank(before, S, x) < Rank(before, S, y)
  <2>1. to(x) \cup {x} \in SUBSET to(y)
    BY <1>2 DEF Ordered
  <2>2. Cardinality(to(x) \cup {x}) = Cardinality(to(x)) + 1
    <3>1. IsFiniteSet(to(x)) /\ x \notin to(x)
      BY <1>1
    <3> HIDE DEF to
    <3> QED BY <3>1, FS_AddElement
  <2>3. Cardinality(to(x) \cup {x}) <= Cardinality(to(y))
    <3>1. IsFiniteSet(to(y))
      BY <1>1
    <3> HIDE DEF to
    <3> QED BY <2>1, <3>1, FS_Subset
  <2>4. /\ Rank(before, S, x) = Cardinality(to(x)) /\ Cardinality(to(x)) \in Nat
        /\ Rank(before, S, y) = Cardinality(to(y)) /\ Cardinality(to(y)) \in Nat
    BY <1>1
  <2> HIDE DEF to
  <2> QED BY <2>2, <2>3, <2>4
<1>3. Rank(before, S, a) = Rank(before, S, b) => a = b
  <2>1. Rank(before, S, a) \in Nat /\ Rank(before, S, b) \in Nat
    <3>1. /\ Rank(before, S, a) = Cardinality(to(a)) /\ Cardinality(to(a)) \in Nat
          /\ Rank(before, S, b) = Cardinality(to(b)) /\ Cardinality(to(b)) \in Nat
      BY <1>1
    <3> HIDE DEF to
    <3> QED BY <3>1
  <2>2. a # b => a \in before[b] \/ b \in before[a]
    BY DEF Ordered
  <2>3. a \in before[b] => Rank(before, S, a) < Rank(before, S, b)
    BY <1>2
  <2>4. b \in before[a] => Rank(before, S, b) < Rank(before, S, a)
    BY <1>2
  <2> QED BY <2>1, <2>2, <2>3, <2>4
<1>4. Rank(before, S, a) + 1 \in 1..Cardinality(S)
  <2>1. Cardinality(to(a)) <= Cardinality(S \ {a})
    <3>1. IsFiniteSet(S \ {a}) /\ to(a) \in SUBSET (S \ {a})
      BY <1>1, FS_RemoveElement
    <3> HIDE DEF to
    <3> QED BY <3>1, FS_Subset
  <2>2. Cardinality(S \ {a}) = Cardinality(S) - 1 /\ Cardinality(S) \in Nat
    BY FS_RemoveElement, FS_CardinalityType
  <2>3. Rank(before, S, a) = Cardinality(to(a)) /\ Cardinality(to(a)) \in Nat
    BY <1>1
  <2> HIDE DEF to
  <2> QED BY <2>1, <2>2, <2>3
<1> QED BY <1>3, <1>4

LEMMA TimesLess ==
  ASSUME NEW x \in Nat, NEW y \in Nat, NEW z \in Nat \ {0}
  PROVE  (x < y <=> x * z < y * z) /\ (x <= y <=> x * z <= y * z)
<1>1. ASSUME NEW u \in Nat, NEW v \in Nat, u < v PROVE u * z < v * z
  <2>1. PICK d \in Nat : v = u + d /\ d > 0
    <3>1. v - u \in Nat /\ v = u + (v - u) /\ v - u > 0
      BY <1>1
    <3> QED BY <3>1
  <2>2. v * z = u * z + d * z
    BY <2>1
  <2>3. d * z > 0 /\ d * z \in Nat /\ u * z \in Nat
    BY <2>1
  <2> QED BY <2>2, <2>3
<1>2. x < y => x * z < y * z
  BY <1>1
<1>3. y < x => y * z < x * z
  BY <1>1
<1>4. x = y => x * z = y * z
  OBVIOUS
<1>5. x * z \in Int /\ y * z \in Int /\ (x < y \/ y < x \/ x = y)
  OBVIOUS
<1> DEFINE a == x * z
           b == y * z
<1> HIDE DEF a, b
<1>6. (x < y => a < b) /\ (y < x => b < a) /\ (x = y => a = b) /\ a \in Int /\ b \in Int
  BY <1>2, <1>3, <1>4, <1>5 DEF a, b
<1>7. (x < y <=> a < b) /\ (x <= y <=> a <= b)
  BY <1>6
<1> QED BY <1>7 DEF a, b

\* Fractions compared crosswise.
LEMMA CrossTrans ==
  ASSUME NEW p \in Nat, NEW q \in Nat, NEW r \in Nat,
         NEW a \in Nat \ {0}, NEW b \in Nat \ {0}, NEW c \in Nat \ {0}
  PROVE  /\ p * b <= q * a /\ q * c <= r * b => p * c <= r * a
         /\ p * b < q * a /\ q * c <= r * b => p * c < r * a
         /\ p * b <= q * a /\ q * c < r * b => p * c < r * a
<1>1. /\ (p * b) * c = (p * c) * b /\ (q * a) * c = (q * c) * a /\ (r * b) * a = (r * a) * b
  OBVIOUS
<1>2. /\ p * b \in Nat /\ q * a \in Nat /\ q * c \in Nat /\ r * b \in Nat /\ p * c \in Nat /\ r * a \in Nat
  OBVIOUS
<1> DEFINE pb == p * b
           qa == q * a
           qc == q * c
           rb == r * b
           pc == p * c
           ra == r * a
<1> HIDE DEF pb, qa, qc, rb, pc, ra
<1>3. /\ pb \in Nat /\ qa \in Nat /\ qc \in Nat /\ rb \in Nat /\ pc \in Nat /\ ra \in Nat
      /\ pb * c = pc * b /\ qa * c = qc * a /\ rb * a = ra * b
  BY <1>1, <1>2 DEF pb, qa, qc, rb, pc, ra
<1>4. /\ pb < qa <=> pb * c < qa * c
      /\ pb <= qa <=> pb * c <= qa * c
      /\ qc < rb <=> qc * a < rb * a
      /\ qc <= rb <=> qc * a <= rb * a
      /\ pc < ra <=> pc * b < ra * b
      /\ pc <= ra <=> pc * b <= ra * b
  BY <1>3, TimesLess
<1>5. \A u, v \in Nat : u * v \in Nat
  OBVIOUS
<1> DEFINE x == pb * c
           y == qa * c
           z == rb * a
<1>6. x \in Nat /\ y \in Nat /\ z \in Nat
  BY <1>3, <1>5
<1>7. /\ pb < qa <=> x < y
      /\ pb <= qa <=> x <= y
      /\ qc < rb <=> y < z
      /\ qc <= rb <=> y <= z
      /\ pc < ra <=> x < z
      /\ pc <= ra <=> x <= z
  BY <1>3, <1>4
<1> HIDE DEF x, y, z
<1>8. /\ pb <= qa /\ qc <= rb => pc <= ra
      /\ pb < qa /\ qc <= rb => pc < ra
      /\ pb <= qa /\ qc < rb => pc < ra
  BY <1>6, <1>7
<1> QED BY <1>8 DEF pb, qa, qc, rb, pc, ra

-----------------------------------------------------------------------------
(* Doubles.                                                                *)

\* What is compared with the rows of the ledger.
Comparable(t) == t.amount \in OrNone(Nat) /\ EffectiveDate(t) \in Nat

LEMMA RowsAre ==
  ASSUME NEW r \in Row
  PROVE  /\ Comparable(r) /\ r.id \in Nat /\ r.created \in Nat /\ r # None
         /\ r.occurred # None => EffectiveDate(r) = r.occurred
         /\ r.occurred = None => EffectiveDate(r) = r.created
  BY NoRowAssumption DEF Row, Comparable, EffectiveDate, OrNone

LEMMA ClosePositive ==
  ASSUME NEW a \in OrNone(Nat), NEW b \in OrNone(Nat), AmountsClose(a, b)
  PROVE  a \in Nat \ {0} /\ b \in Nat \ {0}
  BY DEF AmountsClose, OrNone

\* Of rows that a transaction may repeat, those that each one is better than.
Beaten(t, S) == [c \in S |-> {d \in S : Better(t, c, d)}]

LEMMA BetterOrder ==
  ASSUME NEW t, Comparable(t), t.amount \in Nat \ {0},
         NEW S \in SUBSET Row, \A c \in S : c.amount \in Nat \ {0},
         \A c, d \in S : c.id = d.id => c = d
  PROVE  Ordered(Beaten(t, S), S)
<1> DEFINE rel == [c \in S |-> Distance(t.amount, c.amount)]
           base == [c \in S |-> Larger(t.amount, c.amount)]
           days == [c \in S |-> Distance(EffectiveDate(t), EffectiveDate(c))]
           better(a, b) == \/ rel[a] * base[b] < rel[b] * base[a]
                           \/ rel[a] * base[b] = rel[b] * base[a] /\ days[a] < days[b]
                           \/ rel[a] * base[b] = rel[b] * base[a] /\ days[a] = days[b] /\ a.id > b.id
<1>1. \A c \in S : rel[c] \in Nat /\ base[c] \in Nat \ {0} /\ days[c] \in Nat /\ c.id \in Nat
  <2> SUFFICES ASSUME NEW c \in S
               PROVE  rel[c] \in Nat /\ base[c] \in Nat \ {0} /\ days[c] \in Nat /\ c.id \in Nat
    OBVIOUS
  <2>1. EffectiveDate(t) \in Nat /\ EffectiveDate(c) \in Nat /\ c.id \in Nat
    BY RowsAre DEF Comparable
  <2> QED BY <2>1 DEF Distance, Larger
<1>2. \A a, b \in S : Better(t, a, b) <=> better(a, b)
  BY DEF Better
<1>3. \A a, b \in S : rel[a] * base[b] \in Nat
  <2>1. \A x, y \in Nat : x * y \in Nat
    OBVIOUS
  <2> HIDE DEF rel, base
  <2> QED BY <1>1, <2>1
<1>4. \A a \in S : ~better(a, a)
  <2> HIDE DEF rel, base, days
  <2> QED BY <1>1, <1>3
<1>5. \A a, b \in S : a # b => better(a, b) \/ better(b, a)
  <2> SUFFICES ASSUME NEW a \in S, NEW b \in S, a # b PROVE better(a, b) \/ better(b, a)
    OBVIOUS
  <2>1. a.id # b.id /\ a.id \in Nat /\ b.id \in Nat /\ days[a] \in Nat /\ days[b] \in Nat
    BY <1>1
  <2> DEFINE x == rel[a] * base[b]
             y == rel[b] * base[a]
  <2>2. x \in Nat /\ y \in Nat
    BY <1>3
  <2> HIDE DEF rel, base, days
  <2>3. better(a, b) <=> (x < y \/ (x = y /\ days[a] < days[b]) \/ (x = y /\ days[a] = days[b] /\ a.id > b.id))
    OBVIOUS
  <2>4. better(b, a) <=> (y < x \/ (y = x /\ days[b] < days[a]) \/ (y = x /\ days[b] = days[a] /\ b.id > a.id))
    OBVIOUS
  <2> HIDE DEF x, y, better
  <2> QED BY <2>1, <2>2, <2>3, <2>4
<1>6. ASSUME NEW a \in S, NEW b \in S, NEW c \in S, better(a, b), better(b, c)
      PROVE  better(a, c)
  <2> DEFINE pb == rel[a] * base[b]
             qa == rel[b] * base[a]
             qc == rel[b] * base[c]
             rb == rel[c] * base[b]
             pc == rel[a] * base[c]
             ra == rel[c] * base[a]
  <2>1. /\ pb <= qa /\ qc <= rb => pc <= ra
        /\ pb < qa /\ qc <= rb => pc < ra
        /\ pb <= qa /\ qc < rb => pc < ra
    <3> HIDE DEF rel, base
    <3> QED BY <1>1, CrossTrans
  <2>2. /\ rb <= qc /\ qa <= pb => ra <= pc
    <3> HIDE DEF rel, base
    <3> QED BY <1>1, CrossTrans
  <2>3. /\ pb \in Nat /\ qa \in Nat /\ qc \in Nat /\ rb \in Nat /\ pc \in Nat /\ ra \in Nat
        /\ days[a] \in Nat /\ days[b] \in Nat /\ days[c] \in Nat
        /\ a.id \in Nat /\ b.id \in Nat /\ c.id \in Nat
    BY <1>1, <1>3
  <2> HIDE DEF rel, base, days
  <2>4. pb < qa \/ (pb = qa /\ days[a] < days[b]) \/ (pb = qa /\ days[a] = days[b] /\ a.id > b.id)
    BY <1>6
  <2>5. qc < rb \/ (qc = rb /\ days[b] < days[c]) \/ (qc = rb /\ days[b] = days[c] /\ b.id > c.id)
    BY <1>6
  <2>6. better(a, c) <=> (pc < ra \/ (pc = ra /\ days[a] < days[c]) \/ (pc = ra /\ days[a] = days[c] /\ a.id > c.id))
    OBVIOUS
  <2> HIDE DEF pb, qa, qc, rb, pc, ra, better
  <2>7. CASE pb < qa \/ qc < rb
    BY <2>1, <2>3, <2>4, <2>5, <2>6, <2>7
  <2>8. CASE ~(pb < qa \/ qc < rb)
    <3>1. pb = qa /\ qc = rb
      BY <2>4, <2>5, <2>8
    <3>2. pc = ra
      BY <2>1, <2>2, <2>3, <3>1
    <3> QED BY <2>3, <2>4, <2>5, <2>6, <2>8, <3>1, <3>2
  <2> QED BY <2>7, <2>8
<1> HIDE DEF better
<1>7. \A a, b \in S : a \in Beaten(t, S)[b] <=> better(b, a)
  BY <1>2 DEF Beaten
<1> QED BY <1>4, <1>5, <1>6, <1>7 DEF Ordered

\* A row that may be repeated is found, if there is one.
LEMMA FindMatchIs ==
  ASSUME NEW t, Comparable(t), NEW S \in SUBSET Row, Keyed(S)
  PROVE  IF \A c \in S : ~Matches(t, c) THEN FindMatch(t, S) = None
         ELSE FindMatch(t, S) \in S /\ Matches(t, FindMatch(t, S))
<1> DEFINE found == {c \in S : Matches(t, c)}
<1>1. CASE found = {}
  BY <1>1 DEF FindMatch
<1>2. CASE found # {}
  <2>1. found \in SUBSET Row /\ IsFiniteSet(found) /\ \A c, d \in found : c.id = d.id => c = d
    BY FS_Subset DEF Keyed
  <2>2. \A c \in found : t.amount \in Nat \ {0} /\ c.amount \in Nat \ {0}
    <3>1. \A c \in found : AmountsClose(t.amount, c.amount) /\ c \in Row
      BY DEF Matches
    <3>2. \A c \in found : c.amount \in OrNone(Nat)
      BY <3>1, RowsAre DEF Comparable
    <3> HIDE DEF found
    <3> QED BY <3>1, <3>2, ClosePositive DEF Comparable
  <2>3. FindMatch(t, S) = CHOOSE c \in found : \A d \in found \ {c} : Better(t, c, d)
    BY <1>2 DEF FindMatch
  <2>4. found \in SUBSET S /\ \A c \in found : Matches(t, c)
    OBVIOUS
  <2> HIDE DEF found
  <2>5. Ordered(Beaten(t, found), found)
    <3>1. t.amount \in Nat \ {0}
      BY <1>2, <2>2
    <3> QED BY <2>1, <2>2, <3>1, BetterOrder
  <2>6. PICK m \in found : \A d \in found \ {m} : d \in Beaten(t, found)[m]
    <3>1. found \in SUBSET found
      OBVIOUS
    <3> QED BY <1>2, <2>1, <2>5, <3>1, LastExists
  <2>7. \A d \in found \ {m} : Better(t, m, d)
    BY <2>6 DEF Beaten
  <2>8. FindMatch(t, S) \in found
    BY <2>3, <2>7
  <2> QED BY <2>4, <2>8
<1> QED BY <1>1, <1>2

\* Nothing that a transaction of these days may repeat was recorded too early to
\* be read.
LEMMA InWindow ==
  ASSUME NEW days \in SUBSET Nat, NEW t, Comparable(t), EffectiveDate(t) \in days,
         NEW r \in Row, r.occurred # None => r.occurred <= r.created + 1,
         Matches(t, r), ~LeftOut(r, days)
  PROVE  r.created >= Since(days) /\ r.amount # None
<1>1. Min(days) \in days /\ Min(days) <= EffectiveDate(t)
  BY MinIs
<1>2. /\ EffectiveDate(t) \in Nat /\ EffectiveDate(r) \in Nat /\ r.created \in Nat /\ Min(days) \in Nat
      /\ EffectiveDate(r) = r.created \/ (r.occurred # None /\ EffectiveDate(r) = r.occurred)
      /\ r.occurred = None \/ r.occurred <= r.created + 1
  BY <1>1, RowsAre DEF Comparable, EffectiveDate
<1>3. Distance(EffectiveDate(t), EffectiveDate(r)) <= 2
  BY DEF Matches, WindowDays
<1>4. Since(days) = IF Min(days) > 2 THEN Min(days) - 2 ELSE 0
  BY DEF Since, WindowDays
<1> DEFINE m == Min(days)
           x == EffectiveDate(t)
           y == EffectiveDate(r)
           c == r.created
<1>5. c >= Since(days)
  <2>1. y <= c \/ (y = r.occurred /\ r.occurred # None /\ y <= c + 1)
    BY <1>2
  <2>2. ~(r.occurred # None /\ r.occurred = c + 1 /\ r.occurred + 2 = m)
    BY DEF LeftOut, WindowDays
  <2>3. y <= c \/ (y <= c + 1 /\ ~(y = c + 1 /\ y + 2 = m))
    BY <2>1, <2>2
  <2>4. m \in Nat /\ x \in Nat /\ y \in Nat /\ c \in Nat /\ m <= x
    BY <1>1, <1>2
  <2> HIDE DEF m, x, y, c
  <2>5. Since(days) = IF m > 2 THEN m - 2 ELSE 0
    BY <1>4 DEF m
  <2>6. x <= y + 2
    BY <1>3, <2>4 DEF Distance, x, y
  <2> QED BY <2>3, <2>4, <2>5, <2>6
<1>6. r.amount # None
  BY DEF Matches, AmountsClose
<1> QED BY <1>5, <1>6

\* A receipt as a whole: noticed, and not taken for its own lines.
LEMMA ReceiptHolds ==
  ASSUME NEW i, BasketInput(i)
  PROVE  LET match == ReceiptTotalMatch(i.ledger, i.totals, i.day, i.batch)
             others == {r \in i.ledger : r.id \notin i.batch}
             alike(r) == \E t \in i.totals :
                           /\ r.currency = "toman" /\ AmountsClose(t, r.amount)
                           /\ Distance(i.day, EffectiveDate(r)) <= WindowDays
         IN  IF match = None THEN \A r \in others : alike(r) => LeftOut(r, {i.day})
             ELSE match \in others /\ alike(match)
<1> DEFINE match == ReceiptTotalMatch(i.ledger, i.totals, i.day, i.batch)
           others == {r \in i.ledger : r.id \notin i.batch}
           alike(r) == \E t \in i.totals :
                         /\ r.currency = "toman" /\ AmountsClose(t, r.amount)
                         /\ Distance(i.day, EffectiveDate(r)) <= WindowDays
           probe(t) == [id |-> -1, amount |-> t, currency |-> "toman",
                        created |-> i.day, occurred |-> None]
           read == Candidates(i.ledger, {i.day}, i.batch)
           asked == i.totals \ {None, 0}
           found == {FindMatch(probe(t), read) : t \in asked} \ {None}
<1>1. /\ i.ledger \in SUBSET Row /\ IsFiniteSet(i.ledger) /\ i.totals \in SUBSET OrNone(Nat)
      /\ i.day \in Nat /\ \A r, s \in i.ledger : r.id = s.id => r = s
      /\ \A r \in i.ledger : r.occurred # None => r.occurred <= r.created + 1
  BY DEF BasketInput, Keyed
<1>2. match = IF found = {} THEN None ELSE CHOOSE c \in found : \A d \in found : c.id >= d.id
  BY DEF ReceiptTotalMatch
<1>3. read \in SUBSET others /\ others \in SUBSET i.ledger /\ read \in SUBSET Row /\ Keyed(read)
  <2>1. read \in SUBSET others
    BY DEF Candidates
  <2>2. IsFiniteSet(read)
    BY <1>1, <2>1, FS_Subset
  <2> QED BY <1>1, <2>1, <2>2 DEF Keyed
<1>4. ASSUME NEW t \in OrNone(Nat) PROVE Comparable(probe(t)) /\ EffectiveDate(probe(t)) = i.day
  BY <1>1 DEF Comparable, EffectiveDate
<1>5. ASSUME NEW t, NEW r \in i.ledger
      PROVE  Matches(probe(t), r) <=>
               /\ r.currency = "toman" /\ AmountsClose(t, r.amount)
               /\ Distance(i.day, EffectiveDate(r)) <= WindowDays
  <2>1. r.id # -1
    <3>1. r.id \in Nat
      BY <1>1, RowsAre
    <3> QED BY <3>1
  <2>2. /\ EffectiveDate(probe(t)) = i.day /\ probe(t).amount = t /\ probe(t).id = -1
        /\ probe(t).currency = "toman"
    BY DEF EffectiveDate
  <2> HIDE DEF probe
  <2> QED BY <2>1, <2>2 DEF Matches
<1>6. ASSUME NEW t \in i.totals, NEW r \in others, Matches(probe(t), r), ~LeftOut(r, {i.day})
      PROVE  t \in asked /\ r \in read
  <2>1. AmountsClose(t, r.amount) /\ t \in OrNone(Nat) /\ r \in Row /\ r \in i.ledger
    BY <1>1, <1>5, <1>6
  <2>2. t \in asked
    BY <2>1 DEF AmountsClose
  <2>3. r.created >= Since({i.day}) /\ r.amount # None
    <3>1. {i.day} \in SUBSET Nat /\ Comparable(probe(t)) /\ EffectiveDate(probe(t)) \in {i.day}
      BY <1>1, <1>4, <2>1
    <3>2. r.occurred # None => r.occurred <= r.created + 1
      BY <1>1, <2>1
    <3> HIDE DEF probe
    <3> QED BY <1>6, <2>1, <3>1, <3>2, InWindow
  <2> QED BY <2>1, <2>2, <2>3 DEF Candidates
<1>7. ASSUME NEW t \in asked
      PROVE  LET m == FindMatch(probe(t), read)
             IN  IF \A c \in read : ~Matches(probe(t), c) THEN m = None
                 ELSE m \in read /\ Matches(probe(t), m)
  <2>1. Comparable(probe(t))
    BY <1>1, <1>4
  <2> HIDE DEF probe, read
  <2> QED BY <1>3, <2>1, FindMatchIs
<1>8. \A r \in read : r # None
  BY <1>3, RowsAre
<1>9. \A m \in found : m \in read /\ \E t \in i.totals : Matches(probe(t), m)
  <2> SUFFICES ASSUME NEW t \in asked, FindMatch(probe(t), read) # None
               PROVE  LET m == FindMatch(probe(t), read)
                      IN  m \in read /\ \E s \in i.totals : Matches(probe(s), m)
    OBVIOUS
  <2>1. t \in i.totals
    OBVIOUS
  <2> HIDE DEF probe, read, asked
  <2> QED BY <1>7, <2>1
<1>10. CASE found = {}
  <2>1. match = None
    BY <1>2, <1>10
  <2>2. ASSUME NEW r \in others, alike(r), ~LeftOut(r, {i.day}) PROVE FALSE
    <3>1. PICK t \in i.totals : Matches(probe(t), r)
      BY <1>3, <1>5, <2>2
    <3>2. t \in asked /\ r \in read
      BY <1>6, <2>2, <3>1
    <3>3. FindMatch(probe(t), read) \in found
      <4> HIDE DEF probe, read, asked
      <4>1. FindMatch(probe(t), read) \in read
        BY <1>7, <3>1, <3>2
      <4> QED BY <1>8, <3>2, <4>1
    <3> QED BY <1>10, <3>3
  <2> HIDE DEF match, others, alike
  <2>3. IF match = None THEN \A r \in others : alike(r) => LeftOut(r, {i.day}) ELSE match \in others /\ alike(match)
    BY <2>1, <2>2
  <2> QED BY <2>3 DEF match, others, alike
<1>11. CASE found # {}
  <2>1. \E c \in found : \A d \in found : c.id >= d.id
    <3> DEFINE older == [c \in found |-> {d \in found : c.id > d.id}]
    <3>1. \A c \in found : c.id \in Nat /\ c \in i.ledger
      BY <1>1, <1>3, <1>9, RowsAre
    <3>2. IsFiniteSet(found)
      <4>1. found \in SUBSET read
        BY <1>9
      <4> HIDE DEF found
      <4> QED BY <1>3, <4>1, FS_Subset DEF Keyed
    <3> HIDE DEF found
    <3>3. Ordered(older, found)
      <4>1. \A x \in found : x \notin older[x]
        BY <3>1
      <4>2. \A x, y, z \in found : x \in older[y] /\ y \in older[z] => x \in older[z]
        BY <3>1
      <4>3. \A x, y \in found : x # y => x \in older[y] \/ y \in older[x]
        BY <1>1, <3>1
      <4> QED BY <4>1, <4>2, <4>3 DEF Ordered
    <3>4. PICK m \in found : \A x \in found \ {m} : x \in older[m]
      <4>1. found \in SUBSET found
        OBVIOUS
      <4> HIDE DEF older
      <4> QED BY <1>11, <3>2, <3>3, <4>1, LastExists
    <3>5. \A d \in found : m.id >= d.id
      BY <3>1, <3>4
    <3> QED BY <3>5
  <2> HIDE DEF found
  <2>2. match \in found
    BY <1>2, <1>11, <2>1
  <2>3. match \in read /\ \E t \in i.totals : Matches(probe(t), match)
    BY <1>9, <2>2
  <2> HIDE DEF probe, read, asked, match
  <2>4. match \in others /\ match # None
    BY <1>3, <1>8, <2>3
  <2>5. alike(match)
    <3>1. PICK t \in i.totals : Matches(probe(t), match)
      BY <2>3
    <3>2. match \in i.ledger
      BY <1>3, <2>4
    <3> HIDE DEF others
    <3> QED BY <1>5, <3>1, <3>2
  <2> HIDE DEF others, alike
  <2>6. IF match = None THEN \A r \in others : alike(r) => LeftOut(r, {i.day}) ELSE match \in others /\ alike(match)
    BY <2>4, <2>5
  <2> QED BY <2>6 DEF match, others, alike
<1> QED BY <1>10, <1>11

\* One new row, and the rows that are taken meanwhile.
FlagRow(candidates, found, t) ==
  LET match == FindMatch(t, Unclaimed(candidates, found))
  IN  IF match = None THEN found
      ELSE [i \in DOMAIN found \cup {t.id} |-> IF i = t.id THEN match.id ELSE found[i]]
Flags == UNION {[D -> Nat] : D \in SUBSET Nat}

LEMMA FlagType ==
  ASSUME NEW candidates \in SUBSET Row, Keyed(candidates), NEW found \in Flags, NEW t \in Row
  PROVE  /\ FlagRow(candidates, found, t) \in Flags
         /\ LET match == FindMatch(t, Unclaimed(candidates, found))
                free == Unclaimed(candidates, found)
            IN  IF \A c \in free : ~Matches(t, c) THEN match = None
                ELSE match \in free /\ Matches(t, match) /\ match # None
<1> DEFINE free == Unclaimed(candidates, found)
           match == FindMatch(t, free)
<1>1. free \in SUBSET candidates /\ free \in SUBSET Row /\ Keyed(free)
  <2>1. free \in SUBSET candidates
    BY DEF Unclaimed
  <2> HIDE DEF free
  <2> QED BY <2>1, FS_Subset DEF Keyed
<1>2. Comparable(t) /\ t.id \in Nat /\ \A r \in free : r # None /\ r.id \in Nat
  BY <1>1, RowsAre
<1>3. IF \A c \in free : ~Matches(t, c) THEN match = None ELSE match \in free /\ Matches(t, match)
  <2> HIDE DEF free
  <2> QED BY <1>1, <1>2, FindMatchIs
<1> DEFINE next == [i \in DOMAIN found \cup {t.id} |-> IF i = t.id THEN match.id ELSE found[i]]
<1>4. FlagRow(candidates, found, t) = IF match = None THEN found ELSE next
  BY DEF FlagRow
<1>5. PICK D \in SUBSET Nat : found \in [D -> Nat]
  BY DEF Flags
<1>6. match # None => next \in Flags
  <2> SUFFICES ASSUME match # None PROVE next \in Flags
    OBVIOUS
  <2>1. match.id \in Nat
    BY <1>2, <1>3
  <2> HIDE DEF match
  <2>2. next \in [D \cup {t.id} -> Nat]
    BY <1>5, <2>1
  <2>3. D \cup {t.id} \in SUBSET Nat
    BY <1>2
  <2> QED BY <2>2, <2>3 DEF Flags
<1> HIDE DEF next, match, free
<1>7. FlagRow(candidates, found, t) \in Flags
  BY <1>4, <1>6
<1>8. IF \A c \in free : ~Matches(t, c) THEN match = None
      ELSE match \in free /\ Matches(t, match) /\ match # None
  BY <1>2, <1>3
<1> QED BY <1>7, <1>8 DEF match, free

LEMMA FlagFold ==
  ASSUME NEW candidates \in SUBSET Row, Keyed(candidates), NEW rows \in Seq(Row)
  PROVE  \E run : /\ run[0] = [i \in {} |-> None]
                  /\ \A i \in 0..Len(rows) : run[i] \in Flags
                  /\ \A i \in 1..Len(rows) : run[i] = FlagRow(candidates, run[i - 1], rows[i])
                  /\ FoldLeft(LAMBDA f, t : FlagRow(candidates, f, t), [i \in {} |-> None], rows) = run[Len(rows)]
<1> DEFINE n == Len(rows)
           X == Flags
           empty == [i \in {} |-> None]
           It[s \in SUBSET (DOMAIN rows)] == IF s = {} THEN empty ELSE FlagRow(candidates, It[s \ {Max(s)}], rows[Max(s)])
           step == [i \in 1..n |-> [x \in X |-> FlagRow(candidates, x, rows[i])]]
<1>1. FoldLeft(LAMBDA f, t : FlagRow(candidates, f, t), [i \in {} |-> None], rows) = It[DOMAIN rows]
  BY DEF FoldLeft, MapThenFoldSet
<1>2. \A i \in 1..n, x \in X : FlagRow(candidates, x, rows[i]) \in X
  BY FlagType
<1>3. empty \in X /\ n \in Nat /\ DOMAIN rows = 1..n
  <2>1. empty \in [{} -> Nat]
    OBVIOUS
  <2>2. empty \in X
    BY <2>1 DEF Flags
  <2>3. n \in Nat /\ DOMAIN rows = 1..n
    OBVIOUS
  <2> QED BY <2>2, <2>3
<1> HIDE DEF X, empty, n
<1>4. step \in [1..n -> [X -> X]] /\ \A i \in 1..n, x \in X : step[i][x] = FlagRow(candidates, x, rows[i])
  BY <1>2
<1> HIDE DEF step
<1>5. PICK it : FoldTable(it, n, X, empty, step)
  BY <1>3, <1>4, FoldExists
<1>6. /\ it \in [SUBSET (1..n) -> X] /\ it[{}] = empty
      /\ \A s \in SUBSET (1..n) : s # {} =>
           Max(s) \in 1..n /\ it[s \ {Max(s)}] \in X /\ it[s] = step[Max(s)][it[s \ {Max(s)}]]
  BY <1>5 DEF FoldTable
<1>7. it = [s \in SUBSET (DOMAIN rows) |-> IF s = {} THEN empty ELSE FlagRow(candidates, it[s \ {Max(s)}], rows[Max(s)])]
  BY <1>3, <1>4, <1>6
<1>8. It = [s \in SUBSET (DOMAIN rows) |-> IF s = {} THEN empty ELSE FlagRow(candidates, It[s \ {Max(s)}], rows[Max(s)])]
  BY <1>7
<1> HIDE DEF It
<1>9. It[{}] = empty /\ \A s \in SUBSET (1..n) :
        s # {} /\ It[s \ {Max(s)}] \in X => It[s] = step[Max(s)][It[s \ {Max(s)}]]
  <2>1. \A s \in SUBSET (1..n) : s # {} => Max(s) \in 1..n
    BY <1>6
  <2> QED BY <1>3, <1>4, <1>8, <2>1
<1>10. PICK run : FoldRun(run, It, n, X, empty, step)
  BY <1>3, <1>4, <1>9, FoldRuns
<1>11. \A i \in 1..n : run[i] = FlagRow(candidates, run[i - 1], rows[i])
  BY <1>3, <1>4, <1>10 DEF FoldRun
<1>12. FoldLeft(LAMBDA f, t : FlagRow(candidates, f, t), [i \in {} |-> None], rows) = run[n]
  BY <1>1, <1>3, <1>10 DEF FoldRun
<1>13. run[0] = empty /\ \A i \in 0..n : run[i] \in X
  BY <1>10 DEF FoldRun
<1> QED BY <1>11, <1>12, <1>13 DEF n, X, empty

\* After the first k rows: no original is taken twice, each flag is justified, and
\* a row without a flag has no original left.
FlagInv(found, k, rows, ledger, candidates) ==
  /\ found \in Flags
  /\ \A i \in DOMAIN found : \E l \in 1..k, r \in candidates :
       rows[l].id = i /\ r.id = found[i] /\ Matches(rows[l], r)
  /\ \A i, j \in DOMAIN found : i # j => found[i] # found[j]
  /\ \A l \in 1..k : rows[l].id \notin DOMAIN found =>
       \A r \in ledger : Matches(rows[l], r) => \E i \in DOMAIN found : found[i] = r.id

\* The new rows in their order, and the rows they may repeat.
Flagging(rows, ledger, candidates) ==
  /\ rows \in Seq(Row) /\ candidates \in SUBSET Row /\ Keyed(candidates) /\ ledger \in SUBSET Row
  /\ \A l, m \in 1..Len(rows) : rows[l].id = rows[m].id => l = m
  /\ \A l \in 1..Len(rows), r \in ledger : Matches(rows[l], r) => r \in candidates

LEMMA FlagStep ==
  ASSUME NEW rows, NEW ledger, NEW candidates, Flagging(rows, ledger, candidates),
         NEW k \in 1..Len(rows), NEW found, FlagInv(found, k - 1, rows, ledger, candidates)
  PROVE  FlagInv(FlagRow(candidates, found, rows[k]), k, rows, ledger, candidates)
<1> DEFINE t == rows[k]
           free == Unclaimed(candidates, found)
           match == FindMatch(t, free)
           next == FlagRow(candidates, found, t)
<1>1. /\ rows \in Seq(Row) /\ t \in Row /\ found \in Flags /\ k \in Nat /\ k \in 1..k
      /\ \A l \in 1..k : l \in 1..Len(rows) /\ (l = k \/ l \in 1..k - 1)
      /\ \A l \in 1..k - 1 : l \in 1..k /\ l # k
  BY DEF Flagging, FlagInv
<1>2. /\ next \in Flags
      /\ IF \A c \in free : ~Matches(t, c) THEN match = None
         ELSE match \in free /\ Matches(t, match) /\ match # None
  <2> HIDE DEF t
  <2> QED BY <1>1, FlagType DEF Flagging
<1>3. next = IF match = None THEN found
             ELSE [i \in DOMAIN found \cup {t.id} |-> IF i = t.id THEN match.id ELSE found[i]]
  BY DEF FlagRow
<1>4. /\ \A i \in DOMAIN found : \E l \in 1..k - 1, r \in candidates :
           rows[l].id = i /\ r.id = found[i] /\ Matches(rows[l], r)
      /\ \A i, j \in DOMAIN found : i # j => found[i] # found[j]
      /\ \A l \in 1..k - 1 : rows[l].id \notin DOMAIN found =>
           \A r \in ledger : Matches(rows[l], r) => \E i \in DOMAIN found : found[i] = r.id
  BY DEF FlagInv
<1>5. t.id \notin DOMAIN found
  BY <1>1, <1>4 DEF Flagging
<1>6. \A r \in candidates : r \in free \/ \E i \in DOMAIN found : found[i] = r.id
  BY DEF Unclaimed
<1>7. \A r \in free : r \in candidates /\ \A i \in DOMAIN found : found[i] # r.id
  BY DEF Unclaimed
<1>8. \A r \in ledger : Matches(t, r) => r \in candidates
  BY DEF Flagging
<1> HIDE DEF next, match, free, t
<1>9. CASE match = None
  <2>1. next = found /\ \A c \in free : ~Matches(t, c)
    BY <1>2, <1>3, <1>9
  <2>2. \A r \in ledger : Matches(t, r) => \E i \in DOMAIN found : found[i] = r.id
    BY <1>6, <1>8, <2>1
  <2>3. \A l \in 1..k : rows[l].id \notin DOMAIN found =>
          \A r \in ledger : Matches(rows[l], r) => \E i \in DOMAIN found : found[i] = r.id
    BY <1>1, <1>4, <2>2 DEF t
  <2>4. \A i \in DOMAIN found : \E l \in 1..k, r \in candidates :
          rows[l].id = i /\ r.id = found[i] /\ Matches(rows[l], r)
    BY <1>1, <1>4
  <2> QED BY <1>1, <1>4, <2>1, <2>3, <2>4 DEF FlagInv, next, t
<1>10. CASE match # None
  <2>1. match \in free /\ match \in candidates /\ Matches(t, match)
    BY <1>2, <1>7, <1>10
  <2>2. /\ DOMAIN next = DOMAIN found \cup {t.id} /\ next[t.id] = match.id
        /\ \A i \in DOMAIN found : i \in DOMAIN next /\ next[i] = found[i] /\ i # t.id
    BY <1>3, <1>5, <1>10
  <2>3. \A i \in DOMAIN found : found[i] # match.id
    BY <1>7, <2>1
  <2>4. \A i, j \in DOMAIN next : i # j => next[i] # next[j]
    <3>1. \A i \in DOMAIN next : i = t.id \/ i \in DOMAIN found
      BY <2>2
    <3> QED BY <1>4, <2>2, <2>3, <3>1
  <2>5. ASSUME NEW i \in DOMAIN next
        PROVE  \E l \in 1..k, r \in candidates :
                 rows[l].id = i /\ r.id = next[i] /\ Matches(rows[l], r)
    <3>1. CASE i = t.id
      BY <1>1, <2>1, <2>2, <3>1 DEF t
    <3>2. CASE i \in DOMAIN found
      BY <1>1, <1>4, <2>2, <3>2
    <3> QED BY <2>2, <3>1, <3>2
  <2>6. ASSUME NEW l \in 1..k, rows[l].id \notin DOMAIN next
        PROVE  \A r \in ledger : Matches(rows[l], r) => \E i \in DOMAIN next : next[i] = r.id
    <3>1. l \in 1..k - 1 /\ rows[l].id \notin DOMAIN found
      BY <1>1, <2>2, <2>6 DEF t
    <3>2. \A r \in ledger : Matches(rows[l], r) => \E i \in DOMAIN found : found[i] = r.id
      BY <1>4, <3>1
    <3> QED BY <2>2, <3>2
  <2>7. FlagInv(next, k, rows, ledger, candidates)
    BY <1>2, <2>4, <2>5, <2>6 DEF FlagInv
  <2> QED BY <2>7 DEF next, t
<1> QED BY <1>9, <1>10

LEMMA FlagHolds ==
  ASSUME NEW rows, NEW ledger, NEW candidates, Flagging(rows, ledger, candidates)
  PROVE  FlagInv(FoldLeft(LAMBDA f, t : FlagRow(candidates, f, t), [i \in {} |-> None], rows),
                 Len(rows), rows, ledger, candidates)
<1> DEFINE n == Len(rows)
           empty == [i \in {} |-> None]
           result == FoldLeft(LAMBDA f, t : FlagRow(candidates, f, t), [i \in {} |-> None], rows)
<1>1. n \in Nat
  BY DEF Flagging
<1>2. PICK run : /\ run[0] = empty
                 /\ \A i \in 0..n : run[i] \in Flags
                 /\ \A i \in 1..n : run[i] = FlagRow(candidates, run[i - 1], rows[i])
                 /\ result = run[n]
  BY FlagFold DEF Flagging
<1> DEFINE S == {i \in 0..n : FlagInv(run[i], i, rows, ledger, candidates)}
<1> HIDE DEF result
<1>3. 0 \in S
  <2>1. empty \in Flags /\ DOMAIN empty = {}
    <3>1. empty \in [{} -> Nat]
      OBVIOUS
    <3> QED BY <3>1 DEF Flags
  <2> HIDE DEF empty
  <2>2. FlagInv(empty, 0, rows, ledger, candidates)
    BY <2>1 DEF FlagInv
  <2> QED BY <1>1, <1>2, <2>2
<1> HIDE DEF n, empty
<1>4. ASSUME NEW i \in 1..n, i - 1 \in S PROVE i \in S
  <2>1. FlagInv(run[i - 1], i - 1, rows, ledger, candidates)
    BY <1>4
  <2>2. FlagInv(FlagRow(candidates, run[i - 1], rows[i]), i, rows, ledger, candidates)
    BY <2>1, FlagStep DEF n
  <2>3. i \in 0..n
    BY <1>1
  <2> QED BY <1>2, <2>2, <2>3
<1> HIDE DEF S
<1>5. \A i \in 0..n : i \in S
  BY <1>1, <1>3, <1>4, UpTo
<1>6. FlagInv(run[n], n, rows, ledger, candidates)
  BY <1>1, <1>5 DEF S
<1> QED BY <1>2, <1>6 DEF result, n

\* The order of the new rows: each of them has a place of its own.
LEMMA InOrder ==
  ASSUME NEW news \in SUBSET Row, Keyed(news)
  PROVE  LET rows == ByAmount(news)
         IN  /\ rows \in Seq(Row)
             /\ \A l \in 1..Len(rows) : rows[l] \in news
             /\ \A l, m \in 1..Len(rows) : rows[l].id = rows[m].id => l = m
             /\ \A t \in news : \E l \in 1..Len(rows) : rows[l] = t
<1> DEFINE before == [t \in news |-> {s \in news : Sooner(s, t)}]
           worth == [t \in news |-> IF t.amount = None THEN 0 ELSE t.amount]
           rank == [t \in news |-> Rank(before, news, t)]
           n == Cardinality(news)
           rows == ByAmount(news)
<1>1. IsFiniteSet(news) /\ n \in Nat /\ \A s, t \in news : s.id = t.id => s = t
  BY FS_CardinalityType DEF Keyed
<1>2. \A t \in news : worth[t] \in Nat /\ t.id \in Nat /\ t \in Row
  <2> SUFFICES ASSUME NEW t \in news PROVE worth[t] \in Nat /\ t.id \in Nat /\ t \in Row
    OBVIOUS
  <2>1. t.amount \in OrNone(Nat) /\ t.id \in Nat /\ t \in Row
    BY RowsAre DEF Comparable
  <2> QED BY <2>1 DEF OrNone
<1>3. \A s, t \in news :
        s \in before[t] <=> (worth[s] > worth[t] \/ (worth[s] = worth[t] /\ s.id < t.id))
  BY DEF Sooner
<1>4. \A t \in news : rank[t] = Cardinality({s \in news : Sooner(s, t)})
  <2> SUFFICES ASSUME NEW t \in news PROVE rank[t] = Cardinality({s \in news : Sooner(s, t)})
    OBVIOUS
  <2>1. {y \in news : y \in before[t]} = {s \in news : Sooner(s, t)}
    OBVIOUS
  <2> HIDE DEF before
  <2> QED BY <2>1 DEF Rank
<1>5. /\ DOMAIN rows = 1..n
      /\ \A l \in 1..n :
           rows[l] = CHOOSE t \in news : Cardinality({s \in news : Sooner(s, t)}) = l - 1
  BY DEF ByAmount
<1>13. \A t \in news : rank[t] \in Nat
  <2> SUFFICES ASSUME NEW t \in news PROVE rank[t] \in Nat
    OBVIOUS
  <2> DEFINE sooner == {s \in news : Sooner(s, t)}
  <2>1. IsFiniteSet(sooner)
    BY <1>1, FS_Subset
  <2>2. Cardinality(sooner) \in Nat
    <3> HIDE DEF sooner
    <3> QED BY <2>1, FS_CardinalityType
  <2> HIDE DEF rank
  <2> QED BY <1>4, <2>2
<1> HIDE DEF before, worth, rows
<1>6. Ordered(before, news)
  <2>1. \A x \in news : x \notin before[x]
    BY <1>2, <1>3
  <2>2. \A x, y, z \in news : x \in before[y] /\ y \in before[z] => x \in before[z]
    BY <1>2, <1>3
  <2>3. \A x, y \in news : x # y => x \in before[y] \/ y \in before[x]
    BY <1>1, <1>2, <1>3
  <2> QED BY <2>1, <2>2, <2>3 DEF Ordered
<1>7. \A l \in 1..n : \E t \in news : rank[t] = l - 1
  <2>1. news \in SUBSET news
    OBVIOUS
  <2> QED BY <1>1, <1>6, <2>1, RankExists
<1>8. \A s, t \in news : (rank[s] = rank[t] => s = t) /\ rank[s] + 1 \in 1..n
  BY <1>1, <1>6, RankUnique
<1> HIDE DEF rank, n
<1>9. \A l \in 1..n : rows[l] \in news /\ rank[rows[l]] = l - 1
  <2> SUFFICES ASSUME NEW l \in 1..n PROVE rows[l] \in news /\ rank[rows[l]] = l - 1
    OBVIOUS
  <2>1. \E t \in news : rank[t] = l - 1
    BY <1>7
  <2>2. \E t \in news : Cardinality({s \in news : Sooner(s, t)}) = l - 1
    BY <1>4, <2>1
  <2>3. rows[l] = CHOOSE t \in news : Cardinality({s \in news : Sooner(s, t)}) = l - 1
    BY <1>5
  <2>4. rows[l] \in news /\ Cardinality({s \in news : Sooner(s, rows[l])}) = l - 1
    BY <2>2, <2>3
  <2> QED BY <1>4, <2>4
<1>10. rows \in Seq(Row) /\ Len(rows) = n
  <2>1. rows \in [1..n -> Row]
    <3>1. rows = [l \in 1..Cardinality(news) |->
                    CHOOSE t \in news : Cardinality({s \in news : Sooner(s, t)}) = l - 1]
      BY Zenon DEF rows, ByAmount
    <3>2. \A l \in 1..n :
             (CHOOSE t \in news : Cardinality({s \in news : Sooner(s, t)}) = l - 1) \in Row
      BY <1>2, <1>5, <1>9, Zenon
    <3>3. rows \in [1..Cardinality(news) -> Row]
      BY <3>1, <3>2, Zenon DEF n
    <3> QED BY <3>3, Zenon DEF n
  <2> QED BY <1>1, <2>1
<1>11. \A l, m \in 1..n : rows[l].id = rows[m].id => l = m
  <2> SUFFICES ASSUME NEW l \in 1..n, NEW m \in 1..n, rows[l].id = rows[m].id PROVE l = m
    OBVIOUS
  <2>1. rows[l] = rows[m]
    BY <1>1, <1>9
  <2>2. l - 1 = m - 1
    BY <1>9, <2>1
  <2> QED BY <1>1, <2>2
<1>12. ASSUME NEW t \in news PROVE \E l \in 1..n : rows[l] = t
  <2> DEFINE l == rank[t] + 1
  <2>1. l \in 1..n
    BY <1>8
  <2>2. rows[l] \in news /\ rank[rows[l]] = l - 1
    BY <1>9, <2>1
  <2>3. l - 1 = rank[t]
    BY <1>13
  <2> QED BY <1>8, <2>1, <2>2, <2>3
<1> QED BY <1>9, <1>10, <1>11, <1>12 DEF rows

\* No double of the ledger goes unnoticed, and none is flagged in vain.
FlagsAre(found, ledger, news) ==
  /\ \A l, m \in DOMAIN found : l # m => found[l] # found[m]
  /\ \A l \in DOMAIN found : \E t \in news, r \in ledger :
       t.id = l /\ r.id = found[l] /\ Matches(t, r)
  /\ \A t \in news : t.id \notin DOMAIN found =>
       \A r \in ledger : Matches(t, r) =>
         \/ \E l \in DOMAIN found : found[l] = r.id
         \/ LeftOut(r, {EffectiveDate(n) : n \in news})

LEMMA FlagNewHolds ==
  ASSUME NEW i, FlagInput(i)
  PROVE  FlagsAre(FlagNew(i.ledger, i.news), i.ledger, i.news)
<1> DEFINE found == FlagNew(i.ledger, i.news)
           days == {EffectiveDate(t) : t \in i.news}
           own == {t.id : t \in i.news}
           candidates == Candidates(i.ledger, days, own)
           rows == ByAmount(i.news)
           read == {r \in i.ledger : ~LeftOut(r, days)}
<1>1. /\ i.ledger \in SUBSET Row /\ i.news \in SUBSET Row /\ Keyed(i.news) /\ Keyed(i.ledger)
      /\ \A t \in i.news, r \in i.ledger : t.id # r.id
      /\ \A r \in i.ledger : r.occurred # None => r.occurred <= r.created + 1
  <2>1. /\ i.ledger \in SUBSET Row /\ i.news \in SUBSET Row /\ Keyed(i.ledger \cup i.news)
        /\ i.ledger \cap i.news = {}
        /\ \A r \in i.ledger : r.occurred # None => r.occurred <= r.created + 1
    BY DEF FlagInput
  <2>2. IsFiniteSet(i.news) /\ IsFiniteSet(i.ledger)
    BY <2>1, FS_Subset DEF Keyed
  <2> QED BY <2>1, <2>2 DEF Keyed
<1>2. CASE i.news = {}
  <2>1. found = [l \in {} |-> None]
    BY <1>2 DEF FlagNew
  <2> HIDE DEF found
  <2>2. DOMAIN found = {}
    BY <2>1
  <2> QED BY <1>2, <2>2 DEF found, FlagsAre
<1>3. CASE i.news # {}
  <2> DEFINE result == FoldLeft(LAMBDA f, t : FlagRow(candidates, f, t), [l \in {} |-> None], rows)
  <2>1. found = result
    BY <1>3 DEF FlagNew, FlagRow
  <2>2. /\ rows \in Seq(Row)
        /\ \A l \in 1..Len(rows) : rows[l] \in i.news
        /\ \A l, m \in 1..Len(rows) : rows[l].id = rows[m].id => l = m
        /\ \A t \in i.news : \E l \in 1..Len(rows) : rows[l] = t
    BY <1>1, InOrder
  <2>3. candidates \in SUBSET i.ledger /\ candidates \in SUBSET Row /\ Keyed(candidates)
    <3>1. candidates \in SUBSET i.ledger
      BY DEF Candidates
    <3> HIDE DEF candidates
    <3> QED BY <1>1, <3>1, FS_Subset DEF Keyed
  <2>4. ASSUME NEW t \in i.news, NEW r \in read, Matches(t, r) PROVE r \in candidates
    <3>1. /\ days \in SUBSET Nat /\ EffectiveDate(t) \in days /\ Comparable(t) /\ r \in Row
          /\ r \in i.ledger /\ ~LeftOut(r, days)
          /\ r.occurred # None => r.occurred <= r.created + 1
      BY <1>1, RowsAre DEF Comparable
    <3> HIDE DEF days
    <3>2. r.created >= Since(days) /\ r.amount # None
      BY <2>4, <3>1, InWindow
    <3>3. r.id \notin own
      BY <1>1, <3>1
    <3> QED BY <3>1, <3>2, <3>3 DEF Candidates
  <2>5. Flagging(rows, read, candidates)
    <3>1. read \in SUBSET Row
      BY <1>1
    <3> HIDE DEF rows, candidates, read
    <3> QED BY <1>1, <2>2, <2>3, <2>4, <3>1 DEF Flagging
  <2>6. FlagInv(result, Len(rows), rows, read, candidates)
    <3> HIDE DEF rows, candidates, read
    <3> QED BY <2>5, FlagHolds
  <2>11. \A r \in i.ledger : ~LeftOut(r, days) => r \in read
    OBVIOUS
  <2> HIDE DEF found, result, rows, candidates, read, days
  <2>7. FlagInv(found, Len(rows), rows, read, candidates)
    BY <2>1, <2>6
  <2>8. \A l, m \in DOMAIN found : l # m => found[l] # found[m]
    BY <2>7 DEF FlagInv
  <2>9. \A l \in DOMAIN found : \E t \in i.news, r \in i.ledger :
          t.id = l /\ r.id = found[l] /\ Matches(t, r)
    <3> SUFFICES ASSUME NEW l \in DOMAIN found
                 PROVE  \E t \in i.news, r \in i.ledger : t.id = l /\ r.id = found[l] /\ Matches(t, r)
      OBVIOUS
    <3>1. PICK m \in 1..Len(rows), r \in candidates :
            rows[m].id = l /\ r.id = found[l] /\ Matches(rows[m], r)
      BY <2>7 DEF FlagInv
    <3> QED BY <2>2, <2>3, <3>1
  <2>10. \A t \in i.news : t.id \notin DOMAIN found =>
           \A r \in i.ledger : Matches(t, r) =>
             (\E l \in DOMAIN found : found[l] = r.id) \/ LeftOut(r, days)
    <3> SUFFICES ASSUME NEW t \in i.news, t.id \notin DOMAIN found, NEW r \in i.ledger, Matches(t, r),
                        ~LeftOut(r, days)
                 PROVE  \E l \in DOMAIN found : found[l] = r.id
      OBVIOUS
    <3>1. PICK m \in 1..Len(rows) : rows[m] = t
      BY <2>2
    <3> QED BY <2>7, <2>11, <3>1 DEF FlagInv
  <2> QED BY <2>8, <2>9, <2>10 DEF found, days, FlagsAre
<1> QED BY <1>2, <1>3

-----------------------------------------------------------------------------
(* Cutting a long text.                                                    *)

\* The table of the joined parts, from the left.
FlatTable(f, n, parts) ==
  \A i \in 1..n : f[i] = IF i = 1 THEN parts[i] ELSE f[i - 1] \o parts[i]

LEMMA FlatExists ==
  ASSUME NEW C, NEW parts \in Seq(Seq(C)), NEW n \in 0..Len(parts)
  PROVE  \E f \in [1..n -> Seq(C)] : FlatTable(f, n, parts)
<1> DEFINE S == {k \in 0..n : \E f \in [1..k -> Seq(C)] : FlatTable(f, k, parts)}
<1>1. n \in Nat /\ \A i \in 1..n : parts[i] \in Seq(C)
  OBVIOUS
<1>2. 0 \in S
  <2> DEFINE f == [i \in 1..0 |-> <<>>]
  <2>1. f \in [1..0 -> Seq(C)] /\ FlatTable(f, 0, parts)
    BY DEF FlatTable
  <2> HIDE DEF f
  <2>2. 0 \in 0..n
    BY <1>1
  <2> QED BY <2>1, <2>2
<1>3. ASSUME NEW k \in 1..n, k - 1 \in S PROVE k \in S
  <2>1. PICK f \in [1..(k - 1) -> Seq(C)] : FlatTable(f, k - 1, parts)
    BY <1>3
  <2> DEFINE new == IF k = 1 THEN parts[k] ELSE f[k - 1] \o parts[k]
             g == [i \in 1..k |-> IF i = k THEN new ELSE f[i]]
  <2>2. new \in Seq(C)
    <3>1. CASE k = 1
      BY <1>1, <3>1
    <3>2. CASE k # 1
      <4>1. f[k - 1] \in Seq(C) /\ parts[k] \in Seq(C)
        BY <1>1, <3>2
      <4>2. f[k - 1] \o parts[k] \in Seq(C)
        BY <4>1, ConcatProperties
      <4> QED BY <3>2, <4>2
    <3> QED BY <3>1, <3>2
  <2>3. g[k] = new /\ \A i \in 1..(k - 1) : g[i] = f[i]
    <3>1. k \in 1..k /\ \A i \in 1..(k - 1) : i \in 1..k /\ i # k
      OBVIOUS
    <3> HIDE DEF new
    <3> QED BY <3>1
  <2>4. k # 1 => k - 1 \in 1..(k - 1)
    OBVIOUS
  <2>5. new = IF k = 1 THEN parts[k] ELSE g[k - 1] \o parts[k]
    <3> HIDE DEF g
    <3> QED BY <2>3, <2>4
  <2>6. \A i \in 1..(k - 1) : i # 1 => i - 1 \in 1..(k - 1)
    OBVIOUS
  <2>7. g \in [1..k -> Seq(C)]
    <3> HIDE DEF new
    <3> QED BY <2>2
  <2> HIDE DEF g, new
  <2>8. ASSUME NEW i \in 1..k PROVE g[i] = IF i = 1 THEN parts[i] ELSE g[i - 1] \o parts[i]
    <3>1. CASE i = k
      BY <2>3, <2>5, <3>1
    <3>2. CASE i # k
      <4>1. i \in 1..(k - 1)
        BY <3>2
      <4>2. f[i] = IF i = 1 THEN parts[i] ELSE f[i - 1] \o parts[i]
        BY <2>1, <4>1 DEF FlatTable
      <4>3. g[i] = f[i] /\ (i # 1 => g[i - 1] = f[i - 1])
        BY <2>3, <2>6, <4>1
      <4> QED BY <4>2, <4>3
    <3> QED BY <3>1, <3>2
  <2>9. FlatTable(g, k, parts)
    BY <2>8 DEF FlatTable
  <2> QED BY <1>1, <2>7, <2>9
<1> HIDE DEF S
<1>4. \A i \in 0..n : i \in S
  BY <1>1, <1>2, <1>3, UpTo
<1>5. n \in S
  BY <1>1, <1>4
<1> QED BY <1>5 DEF S

LEMMA FlatRun ==
  ASSUME NEW C, NEW parts \in Seq(Seq(C)), parts # <<>>
  PROVE  \E f : /\ FlatTable(f, Len(parts), parts)
                /\ FlattenSeq(parts) = f[Len(parts)]
<1> DEFINE n == Len(parts)
           flat[i \in 1..n] == IF i = 1 THEN parts[i] ELSE flat[i - 1] \o parts[i]
<1>1. n \in Nat /\ n # 0
  OBVIOUS
<1>2. FlattenSeq(parts) = flat[n]
  BY <1>1 DEF FlattenSeq
<1>3. PICK f \in [1..n -> Seq(C)] : FlatTable(f, n, parts)
  BY SMTT(30), <1>1, FlatExists
<1> HIDE DEF n
<1>4. f = [i \in 1..n |-> IF i = 1 THEN parts[i] ELSE f[i - 1] \o parts[i]]
  BY <1>3 DEF FlatTable
<1>5. flat = [i \in 1..n |-> IF i = 1 THEN parts[i] ELSE flat[i - 1] \o parts[i]]
  BY <1>4
<1> HIDE DEF flat
<1>6. FlatTable(flat, n, parts)
  BY <1>5 DEF FlatTable
<1> QED BY <1>2, <1>6 DEF n

\* Joining: of no part nothing, and of one part more what it adds.
LEMMA FlatUnique ==
  ASSUME NEW n \in Nat, NEW parts, NEW f, NEW g, FlatTable(f, n, parts), FlatTable(g, n, parts)
  PROVE  \A i \in 1..n : f[i] = g[i]
<1> DEFINE S == {i \in 0..n : i = 0 \/ f[i] = g[i]}
<1>1. 0 \in S
  OBVIOUS
<1>2. ASSUME NEW i \in 1..n, i - 1 \in S PROVE i \in S
  <2>1. /\ f[i] = IF i = 1 THEN parts[i] ELSE f[i - 1] \o parts[i]
        /\ g[i] = IF i = 1 THEN parts[i] ELSE g[i - 1] \o parts[i]
    BY DEF FlatTable
  <2>2. i - 1 = 0 \/ f[i - 1] = g[i - 1]
    BY <1>2
  <2>3. f[i] = g[i]
    <3>1. CASE i = 1
      BY <2>1, <3>1
    <3>2. CASE i # 1
      <4>1. f[i - 1] = g[i - 1]
        BY <2>2, <3>2
      <4> QED BY <2>1, <3>2, <4>1
    <3> QED BY <3>1, <3>2
  <2> QED BY <2>3
<1> HIDE DEF S
<1>3. \A i \in 0..n : i \in S
  BY <1>1, <1>2, UpTo
<1> QED BY <1>3 DEF S

LEMMA FlatSteps ==
  ASSUME NEW C, NEW parts \in Seq(Seq(C)), NEW part \in Seq(C)
  PROVE  /\ FlattenSeq(<<>>) = <<>>
         /\ FlattenSeq(Append(parts, part)) = FlattenSeq(parts) \o part
<1> DEFINE n == Len(parts)
           more == Append(parts, part)
<1>1. FlattenSeq(<<>>) = <<>>
  BY DEF FlattenSeq
<1>2. /\ more \in Seq(Seq(C)) /\ more # <<>> /\ Len(more) = n + 1 /\ n \in Nat
      /\ more[n + 1] = part /\ \A i \in 1..n : more[i] = parts[i]
  BY AppendProperties
<1> HIDE DEF more
<1>3. PICK g : FlatTable(g, n + 1, more) /\ FlattenSeq(more) = g[n + 1]
  BY <1>2, FlatRun
<1>4. g[n + 1] = IF n + 1 = 1 THEN part ELSE g[n] \o part
  <2>1. n + 1 \in 1..(n + 1) /\ (n + 1) - 1 = n
    BY <1>2
  <2> QED BY <1>2, <1>3, <2>1 DEF FlatTable
<1>5. CASE parts = <<>>
  <2>1. n = 0
    BY <1>5
  <2>2. FlattenSeq(more) = part
    BY <1>3, <1>4, <2>1
  <2>3. <<>> \o part = part
    BY ConcatEmptySeq
  <2> QED BY <1>1, <1>5, <2>2, <2>3 DEF more
<1>6. CASE parts # <<>>
  <2>1. PICK f : FlatTable(f, n, parts) /\ FlattenSeq(parts) = f[n]
    BY <1>6, FlatRun
  <2>2. FlatTable(g, n, parts)
    <3> SUFFICES ASSUME NEW i \in 1..n
                 PROVE  g[i] = IF i = 1 THEN parts[i] ELSE g[i - 1] \o parts[i]
      BY DEF FlatTable
    <3>1. i \in 1..(n + 1) /\ more[i] = parts[i]
      BY <1>2
    <3> QED BY <1>3, <3>1 DEF FlatTable
  <2>3. n \in 1..n /\ n + 1 # 1
    BY <1>2, <1>6
  <2>4. g[n] = f[n]
    BY <1>2, <2>1, <2>2, <2>3, FlatUnique
  <2> QED BY <1>1, <1>3, <1>4, <2>1, <2>3, <2>4 DEF more
<1> QED BY <1>5, <1>6

\* What is joined is a sequence of the same elements.
LEMMA FlatType ==
  ASSUME NEW C, NEW parts \in Seq(Seq(C))
  PROVE  FlattenSeq(parts) \in Seq(C)
<1> DEFINE n == Len(parts)
<1>1. n \in Nat
  OBVIOUS
<1>2. CASE parts = <<>>
  <2>1. FlattenSeq(parts) = <<>>
    BY <1>2 DEF FlattenSeq
  <2> QED BY <2>1
<1>3. CASE parts # <<>>
  <2>1. PICK f : FlatTable(f, n, parts) /\ FlattenSeq(parts) = f[n]
    BY <1>3, FlatRun
  <2>2. PICK g \in [1..n -> Seq(C)] : FlatTable(g, n, parts)
    BY SMTT(30), <1>1, FlatExists
  <2>3. n \in 1..n
    BY <1>1, <1>3
  <2>4. f[n] = g[n]
    BY <1>1, <2>1, <2>2, <2>3, FlatUnique
  <2> HIDE DEF n
  <2> QED BY <2>1, <2>2, <2>3, <2>4
<1> QED BY <1>2, <1>3

\* An element more in the last part.
LEMMA FlatLast ==
  ASSUME NEW C, NEW parts \in Seq(Seq(C)), parts # <<>>, NEW c \in C
  PROVE  LET more == [parts EXCEPT ![Len(parts)] = Append(@, c)]
         IN  /\ more \in Seq(Seq(C)) /\ more # <<>>
             /\ FlattenSeq(more) = Append(FlattenSeq(parts), c)
<1> DEFINE more == [parts EXCEPT ![Len(parts)] = Append(@, c)]
<1>1. PICK s \in Seq(Seq(C)), e \in Seq(C) : parts = Append(s, e)
  BY SequenceEmptyOrAppend
<1>2. /\ Append(e, c) \in Seq(C) /\ Append(e, c) = e \o <<c>> /\ <<c>> \in Seq(C)
  BY AppendIsConcat, AppendProperties
<1>3. Len(parts) = Len(s) + 1 /\ parts[Len(s) + 1] = e /\ \A i \in 1..Len(s) : parts[i] = s[i]
  BY <1>1, AppendProperties
<1>4. /\ Len(s) \in Nat /\ Append(s, Append(e, c)) \in Seq(Seq(C))
      /\ Len(Append(s, Append(e, c))) = Len(s) + 1
      /\ Append(s, Append(e, c))[Len(s) + 1] = Append(e, c)
      /\ \A i \in 1..Len(s) : Append(s, Append(e, c))[i] = s[i]
  BY <1>2, AppendProperties
<1>5. Len(parts) \in 1..Len(parts)
  BY <1>3, <1>4
<1>6. /\ more \in Seq(Seq(C)) /\ Len(more) = Len(parts)
      /\ \A i \in 1..Len(parts) : more[i] = IF i = Len(parts) THEN Append(e, c) ELSE parts[i]
  <2>1. more = [parts EXCEPT ![Len(parts)] = Append(e, c)]
    BY <1>3
  <2> HIDE DEF more
  <2> QED BY <1>2, <1>5, <2>1, ExceptSeq
<1> HIDE DEF more
<1>7. more = Append(s, Append(e, c))
  <2> SUFFICES ASSUME NEW i \in 1..Len(more) PROVE more[i] = Append(s, Append(e, c))[i]
    BY <1>3, <1>4, <1>6, SeqEqual
  <2>1. CASE i = Len(parts)
    BY <1>3, <1>4, <1>5, <1>6, <2>1
  <2>2. CASE i # Len(parts)
    <3>1. i \in 1..Len(s) /\ i \in 1..Len(parts)
      BY <1>3, <1>4, <1>6, <2>2
    <3> QED BY <1>3, <1>4, <1>6, <2>2, <3>1
  <2> QED BY <2>1, <2>2
<1>8. /\ FlattenSeq(more) = FlattenSeq(s) \o Append(e, c)
      /\ FlattenSeq(parts) = FlattenSeq(s) \o e
  BY <1>1, <1>2, <1>7, FlatSteps
<1>9. FlattenSeq(s) \in Seq(C) /\ FlattenSeq(parts) \in Seq(C)
  BY FlatType
<1>10. FlattenSeq(s) \o (e \o <<c>>) = (FlattenSeq(s) \o e) \o <<c>>
  BY <1>2, <1>9, ConcatAssociative
<1>11. FlattenSeq(parts) \o <<c>> = Append(FlattenSeq(parts), c)
  BY <1>9, AppendIsConcat
<1>12. FlattenSeq(more) = Append(FlattenSeq(parts), c)
  BY <1>2, <1>8, <1>10, <1>11
<1>13. more # <<>>
  <2>1. Len(more) # 0
    BY <1>3, <1>4, <1>6
  <2>2. more = <<>> => Len(more) = 0
    OBVIOUS
  <2> QED BY <2>1, <2>2
<1> QED BY <1>6, <1>12, <1>13 DEF more

\* The beginnings of a text.
LEMMA Beginning ==
  ASSUME NEW C, NEW text \in Seq(C), NEW i \in 1..Len(text)
  PROVE  /\ SubSeq(text, 1, 0) = <<>> /\ SubSeq(text, 1, Len(text)) = text
         /\ SubSeq(text, 1, i) = Append(SubSeq(text, 1, i - 1), text[i])
         /\ SubSeq(text, 1, i - 1) \in Seq(C) /\ text[i] \in C
<1>1. SubSeq(text, 1, 0) = <<>>
  BY SubSeqEmpty
<1>2. SubSeq(text, 1, Len(text)) = text
  BY SubSeqFull
<1>3. 1 \in 1..Len(text) /\ i \in 1..Len(text) /\ text[i] \in C
  OBVIOUS
<1>4. SubSeq(text, 1, i) = SubSeq(text, 1, i - 1) \o <<text[i]>>
  BY <1>3, SubSeqRecursiveSecond
<1>5. SubSeq(text, 1, i - 1) \in Seq(C)
  <2>1. i - 1 \in Int /\ \A k \in 1..(i - 1) : text[k] \in C
    OBVIOUS
  <2> QED BY <2>1, SubSeqProperties
<1>6. Append(SubSeq(text, 1, i - 1), text[i]) = SubSeq(text, 1, i - 1) \o <<text[i]>>
  BY <1>3, <1>5, AppendIsConcat
<1> QED BY <1>1, <1>2, <1>3, <1>4, <1>5, <1>6

\* One clause more: it joins the last piece or begins a new one.
CutStep(at, pieces, c) ==
  IF pieces # <<>> /\ Last(Last(pieces)).brk \notin at
  THEN [pieces EXCEPT ![Len(pieces)] = Append(@, c)]
  ELSE Append(pieces, <<c>>)

LEMMA CutAdds ==
  ASSUME NEW at, NEW pieces \in Seq(Seq(Clause)), NEW c \in Clause
  PROVE  /\ CutStep(at, pieces, c) \in Seq(Seq(Clause)) /\ CutStep(at, pieces, c) # <<>>
         /\ FlattenSeq(CutStep(at, pieces, c)) = Append(FlattenSeq(pieces), c)
<1>1. CASE pieces # <<>> /\ Last(Last(pieces)).brk \notin at
  <2>1. CutStep(at, pieces, c) = [pieces EXCEPT ![Len(pieces)] = Append(@, c)]
    BY <1>1 DEF CutStep
  <2> DEFINE more == [pieces EXCEPT ![Len(pieces)] = Append(@, c)]
  <2>2. more \in Seq(Seq(Clause)) /\ more # <<>> /\ FlattenSeq(more) = Append(FlattenSeq(pieces), c)
    BY <1>1, FlatLast
  <2> HIDE DEF more
  <2> QED BY <2>1, <2>2 DEF more
<1>2. CASE ~(pieces # <<>> /\ Last(Last(pieces)).brk \notin at)
  <2>1. CutStep(at, pieces, c) = Append(pieces, <<c>>)
    BY <1>2 DEF CutStep
  <2>2. <<c>> \in Seq(Clause) /\ FlattenSeq(pieces) \in Seq(Clause)
    BY FlatType
  <2>3. Append(pieces, <<c>>) \in Seq(Seq(Clause)) /\ Append(pieces, <<c>>) # <<>>
    BY <2>2, AppendProperties
  <2>4. FlattenSeq(Append(pieces, <<c>>)) = FlattenSeq(pieces) \o <<c>>
    BY <2>2, FlatSteps
  <2>5. FlattenSeq(pieces) \o <<c>> = Append(FlattenSeq(pieces), c)
    BY <2>2, AppendIsConcat
  <2> QED BY <2>1, <2>3, <2>4, <2>5
<1> QED BY <1>1, <1>2

LEMMA CutFold ==
  ASSUME NEW at, NEW text \in Seq(Clause)
  PROVE  \E run : /\ run[0] = <<>>
                  /\ \A i \in 0..Len(text) : run[i] \in Seq(Seq(Clause))
                  /\ \A i \in 1..Len(text) : run[i] = CutStep(at, run[i - 1], text[i])
                  /\ Cuts(text, at) = run[Len(text)]
<1> DEFINE n == Len(text)
           X == Seq(Seq(Clause))
           empty == <<>>
           It[s \in SUBSET (DOMAIN text)] == IF s = {} THEN empty ELSE CutStep(at, It[s \ {Max(s)}], text[Max(s)])
           step == [i \in 1..n |-> [x \in X |-> CutStep(at, x, text[i])]]
<1>1. Cuts(text, at) = It[DOMAIN text]
  BY DEF Cuts, CutStep, FoldLeft, MapThenFoldSet
<1>2. \A i \in 1..n, x \in X : CutStep(at, x, text[i]) \in X
  <2> SUFFICES ASSUME NEW i \in 1..n, NEW x \in X PROVE CutStep(at, x, text[i]) \in X
    OBVIOUS
  <2>1. text[i] \in Clause
    OBVIOUS
  <2> QED BY <2>1, CutAdds
<1>3. empty \in X /\ n \in Nat /\ DOMAIN text = 1..n
  OBVIOUS
<1> HIDE DEF X, empty, n
<1>4. step \in [1..n -> [X -> X]] /\ \A i \in 1..n, x \in X : step[i][x] = CutStep(at, x, text[i])
  BY <1>2
<1> HIDE DEF step
<1>5. PICK it : FoldTable(it, n, X, empty, step)
  BY <1>3, <1>4, FoldExists
<1>6. /\ it \in [SUBSET (1..n) -> X] /\ it[{}] = empty
      /\ \A s \in SUBSET (1..n) : s # {} =>
           Max(s) \in 1..n /\ it[s \ {Max(s)}] \in X /\ it[s] = step[Max(s)][it[s \ {Max(s)}]]
  BY <1>5 DEF FoldTable
<1>7. it = [s \in SUBSET (DOMAIN text) |-> IF s = {} THEN empty ELSE CutStep(at, it[s \ {Max(s)}], text[Max(s)])]
  BY <1>3, <1>4, <1>6
<1>8. It = [s \in SUBSET (DOMAIN text) |-> IF s = {} THEN empty ELSE CutStep(at, It[s \ {Max(s)}], text[Max(s)])]
  BY <1>7
<1> HIDE DEF It
<1>9. It[{}] = empty /\ \A s \in SUBSET (1..n) :
        s # {} /\ It[s \ {Max(s)}] \in X => It[s] = step[Max(s)][It[s \ {Max(s)}]]
  <2>1. \A s \in SUBSET (1..n) : s # {} => Max(s) \in 1..n
    BY <1>6
  <2> QED BY <1>3, <1>4, <1>8, <2>1
<1>10. PICK run : FoldRun(run, It, n, X, empty, step)
  BY <1>3, <1>4, <1>9, FoldRuns
<1>11. \A i \in 1..n : run[i] = CutStep(at, run[i - 1], text[i])
  BY <1>3, <1>4, <1>10 DEF FoldRun
<1>12. Cuts(text, at) = run[n]
  BY <1>1, <1>3, <1>10 DEF FoldRun
<1>13. run[0] = empty /\ \A i \in 0..n : run[i] \in X
  BY <1>10 DEF FoldRun
<1> QED BY <1>11, <1>12, <1>13 DEF n, X, empty

\* The pieces joined are the text.
LEMMA CutsHold ==
  ASSUME NEW at, NEW text \in Seq(Clause)
  PROVE  Cuts(text, at) \in Seq(Seq(Clause)) /\ FlattenSeq(Cuts(text, at)) = text
<1> DEFINE n == Len(text)
<1>1. n \in Nat
  OBVIOUS
<1>2. PICK run : /\ run[0] = <<>>
                 /\ \A i \in 0..n : run[i] \in Seq(Seq(Clause))
                 /\ \A i \in 1..n : run[i] = CutStep(at, run[i - 1], text[i])
                 /\ Cuts(text, at) = run[n]
  BY CutFold
<1> DEFINE S == {i \in 0..n : FlattenSeq(run[i]) = SubSeq(text, 1, i)}
<1>3. 0 \in S
  <2>1. FlattenSeq(<<>>) = <<>>
    BY DEF FlattenSeq
  <2>2. SubSeq(text, 1, 0) = <<>>
    BY SubSeqEmpty
  <2> HIDE DEF n
  <2> QED BY <1>1, <1>2, <2>1, <2>2
<1>4. ASSUME NEW i \in 1..n, i - 1 \in S PROVE i \in S
  <2>1. /\ SubSeq(text, 1, i) = Append(SubSeq(text, 1, i - 1), text[i]) /\ text[i] \in Clause
    BY Beginning
  <2> HIDE DEF n
  <2>2. i \in 0..n /\ i - 1 \in 0..n
    BY <1>1
  <2>3. run[i - 1] \in Seq(Seq(Clause)) /\ run[i] = CutStep(at, run[i - 1], text[i])
    BY <1>2, <2>2
  <2>4. FlattenSeq(run[i]) = Append(FlattenSeq(run[i - 1]), text[i])
    BY <2>1, <2>3, CutAdds
  <2>5. FlattenSeq(run[i - 1]) = SubSeq(text, 1, i - 1)
    BY <1>4
  <2> QED BY <2>1, <2>2, <2>4, <2>5
<1>7. SubSeq(text, 1, n) = text
  BY SubSeqFull
<1> HIDE DEF S, n
<1>5. \A i \in 0..n : i \in S
  BY <1>1, <1>3, <1>4, UpTo
<1>6. n \in 0..n
  BY <1>1
<1>8. FlattenSeq(run[n]) = SubSeq(text, 1, n)
  BY <1>5, <1>6 DEF S
<1> QED BY <1>2, <1>6, <1>7, <1>8

LEMMA NormFold ==
  ASSUME NEW text \in Seq(Clause)
  PROVE  \E run : /\ run[0] = 0
                  /\ \A i \in 0..Len(text) : run[i] \in Nat
                  /\ \A i \in 1..Len(text) : run[i] = run[i - 1] + text[i].len
                  /\ NormLen(text) = run[Len(text)]
<1> DEFINE n == Len(text)
           X == Nat
           empty == 0
           It[s \in SUBSET (DOMAIN text)] == IF s = {} THEN empty ELSE It[s \ {Max(s)}] + text[Max(s)].len
           step == [i \in 1..n |-> [x \in X |-> x + text[i].len]]
<1>1. NormLen(text) = It[DOMAIN text]
  BY DEF NormLen, FoldLeft, MapThenFoldSet
<1>2. \A i \in 1..n, x \in X : x + text[i].len \in X
  <2> SUFFICES ASSUME NEW i \in 1..n, NEW x \in X PROVE x + text[i].len \in X
    OBVIOUS
  <2>1. text[i] \in Clause
    OBVIOUS
  <2>2. text[i].len \in Nat
    BY <2>1 DEF Clause
  <2> QED BY <2>2
<1>3. empty \in X /\ n \in Nat /\ DOMAIN text = 1..n
  OBVIOUS
<1> HIDE DEF X, empty, n
<1>4. step \in [1..n -> [X -> X]] /\ \A i \in 1..n, x \in X : step[i][x] = x + text[i].len
  BY <1>2
<1> HIDE DEF step
<1>5. PICK it : FoldTable(it, n, X, empty, step)
  BY <1>3, <1>4, FoldExists
<1>6. /\ it \in [SUBSET (1..n) -> X] /\ it[{}] = empty
      /\ \A s \in SUBSET (1..n) : s # {} =>
           Max(s) \in 1..n /\ it[s \ {Max(s)}] \in X /\ it[s] = step[Max(s)][it[s \ {Max(s)}]]
  BY <1>5 DEF FoldTable
<1>7. it = [s \in SUBSET (DOMAIN text) |-> IF s = {} THEN empty ELSE it[s \ {Max(s)}] + text[Max(s)].len]
  BY <1>3, <1>4, <1>6
<1>8. It = [s \in SUBSET (DOMAIN text) |-> IF s = {} THEN empty ELSE It[s \ {Max(s)}] + text[Max(s)].len]
  BY <1>7
<1> HIDE DEF It
<1>9. It[{}] = empty /\ \A s \in SUBSET (1..n) :
        s # {} /\ It[s \ {Max(s)}] \in X => It[s] = step[Max(s)][It[s \ {Max(s)}]]
  <2>1. \A s \in SUBSET (1..n) : s # {} => Max(s) \in 1..n
    BY <1>6
  <2> QED BY <1>3, <1>4, <1>8, <2>1
<1>10. PICK run : FoldRun(run, It, n, X, empty, step)
  BY <1>3, <1>4, <1>9, FoldRuns
<1>11. \A i \in 1..n : run[i] = run[i - 1] + text[i].len
  BY <1>3, <1>4, <1>10 DEF FoldRun
<1>12. NormLen(text) = run[n]
  BY <1>1, <1>3, <1>10 DEF FoldRun
<1>13. run[0] = empty /\ \A i \in 0..n : run[i] \in X
  BY <1>10 DEF FoldRun
<1> QED BY <1>11, <1>12, <1>13 DEF n, X, empty

LEMMA NormType ==
  ASSUME NEW text \in Seq(Clause)
  PROVE  NormLen(text) \in Nat
<1>1. PICK run : (\A i \in 0..Len(text) : run[i] \in Nat) /\ NormLen(text) = run[Len(text)]
  BY NormFold
<1>2. Len(text) \in 0..Len(text)
  OBVIOUS
<1> QED BY <1>1, <1>2

\* One unit more: it fills the open part, or completes it.
Splitting == [parts : Seq(Seq(Clause)), cur : Seq(Clause)]
SplitStep(text, n, state, u) ==
  LET cur == state.cur \o u
  IN  IF Len(state.parts) < n - 1 /\ n * NormLen(cur) >= NormLen(text)
      THEN [parts |-> Append(state.parts, cur), cur |-> <<>>]
      ELSE [state EXCEPT !.cur = cur]

SplitAll(text, n, units) ==
  FoldLeft(LAMBDA s, u : SplitStep(text, n, s, u), [parts |-> <<>>, cur |-> <<>>], units)
Joined(state) == FlattenSeq(state.parts) \o state.cur

LEMMA SplitAdds ==
  ASSUME NEW text, NEW n \in Nat, NEW state \in Splitting, NEW u \in Seq(Clause)
  PROVE  /\ SplitStep(text, n, state, u) \in Splitting
         /\ Joined(SplitStep(text, n, state, u)) = Joined(state) \o u
         /\ Len(state.parts) <= n - 1 => Len(SplitStep(text, n, state, u).parts) <= n - 1
<1> DEFINE cur == state.cur \o u
           next == SplitStep(text, n, state, u)
           full == Len(state.parts) < n - 1 /\ n * NormLen(cur) >= NormLen(text)
<1>1. state.parts \in Seq(Seq(Clause)) /\ state.cur \in Seq(Clause)
  BY DEF Splitting
<1>2. cur \in Seq(Clause)
  BY <1>1, ConcatProperties
<1>3. FlattenSeq(state.parts) \in Seq(Clause)
  BY <1>1, FlatType
<1>4. (FlattenSeq(state.parts) \o state.cur) \o u = FlattenSeq(state.parts) \o cur
  <2> DEFINE F == FlattenSeq(state.parts)
             v == state.cur
  <2>1. F \in Seq(Clause) /\ v \in Seq(Clause)
    BY <1>1, <1>3
  <2> HIDE DEF F, v
  <2>2. (F \o v) \o u = F \o (v \o u)
    BY <2>1, ConcatAssociative
  <2> QED BY <2>2 DEF F, v
<1>5. Len(state.parts) \in Nat
  BY <1>1
<1>6. CASE full
  <2>1. next = [parts |-> Append(state.parts, cur), cur |-> <<>>]
    BY <1>6 DEF SplitStep
  <2> HIDE DEF next
  <2>2. Len(state.parts) < n - 1
    BY <1>6
  <2> HIDE DEF cur, full
  <2>3. /\ Append(state.parts, cur) \in Seq(Seq(Clause))
        /\ Len(Append(state.parts, cur)) = Len(state.parts) + 1
    BY <1>1, <1>2, AppendProperties
  <2>4. FlattenSeq(next.parts) = FlattenSeq(state.parts) \o cur
    BY <1>1, <1>2, <2>1, FlatSteps
  <2>5. FlattenSeq(state.parts) \o cur \in Seq(Clause)
    BY <1>2, <1>3, ConcatProperties
  <2>6. Joined(next) = FlattenSeq(state.parts) \o cur
    BY <2>1, <2>4, <2>5, ConcatEmptySeq DEF Joined
  <2>7. next \in Splitting
    BY <2>1, <2>3 DEF Splitting
  <2>8. Len(next.parts) <= n - 1
    BY <1>5, <2>1, <2>2, <2>3
  <2> QED BY <1>4, <2>6, <2>7, <2>8 DEF Joined, next, cur
<1>7. CASE ~full
  <2>1. next = [state EXCEPT !.cur = cur]
    BY <1>7 DEF SplitStep
  <2> HIDE DEF next, cur, full
  <2>2. next \in Splitting /\ next.parts = state.parts /\ next.cur = cur
    BY <1>1, <1>2, <2>1 DEF Splitting
  <2> QED BY <1>4, <2>2 DEF Joined, next, cur
<1> QED BY <1>6, <1>7

LEMMA SplitFold ==
  ASSUME NEW text, NEW most \in Nat, NEW units \in Seq(Seq(Clause))
  PROVE  \E run : /\ run[0] = [parts |-> <<>>, cur |-> <<>>]
                  /\ \A i \in 0..Len(units) : run[i] \in Splitting
                  /\ \A i \in 1..Len(units) : run[i] = SplitStep(text, most, run[i - 1], units[i])
                  /\ SplitAll(text, most, units) = run[Len(units)]
<1> DEFINE n == Len(units)
           X == Splitting
           empty == [parts |-> <<>>, cur |-> <<>>]
           It[s \in SUBSET (DOMAIN units)] == IF s = {} THEN empty ELSE SplitStep(text, most, It[s \ {Max(s)}], units[Max(s)])
           step == [i \in 1..n |-> [x \in X |-> SplitStep(text, most, x, units[i])]]
<1>1. SplitAll(text, most, units) = It[DOMAIN units]
  BY DEF SplitAll, FoldLeft, MapThenFoldSet
<1>2. \A i \in 1..n, x \in X : SplitStep(text, most, x, units[i]) \in X
  <2> SUFFICES ASSUME NEW i \in 1..n, NEW x \in X PROVE SplitStep(text, most, x, units[i]) \in X
    OBVIOUS
  <2>1. units[i] \in Seq(Clause)
    OBVIOUS
  <2> QED BY <2>1, SplitAdds
<1>3. empty \in X /\ n \in Nat /\ DOMAIN units = 1..n
  BY DEF Splitting
<1> HIDE DEF X, empty, n
<1>4. step \in [1..n -> [X -> X]] /\ \A i \in 1..n, x \in X : step[i][x] = SplitStep(text, most, x, units[i])
  BY <1>2
<1> HIDE DEF step
<1>5. PICK it : FoldTable(it, n, X, empty, step)
  BY <1>3, <1>4, FoldExists
<1>6. /\ it \in [SUBSET (1..n) -> X] /\ it[{}] = empty
      /\ \A s \in SUBSET (1..n) : s # {} =>
           Max(s) \in 1..n /\ it[s \ {Max(s)}] \in X /\ it[s] = step[Max(s)][it[s \ {Max(s)}]]
  BY <1>5 DEF FoldTable
<1>7. it = [s \in SUBSET (DOMAIN units) |-> IF s = {} THEN empty ELSE SplitStep(text, most, it[s \ {Max(s)}], units[Max(s)])]
  BY <1>3, <1>4, <1>6
<1>8. It = [s \in SUBSET (DOMAIN units) |-> IF s = {} THEN empty ELSE SplitStep(text, most, It[s \ {Max(s)}], units[Max(s)])]
  BY <1>7
<1> HIDE DEF It
<1>9. It[{}] = empty /\ \A s \in SUBSET (1..n) :
        s # {} /\ It[s \ {Max(s)}] \in X => It[s] = step[Max(s)][It[s \ {Max(s)}]]
  <2>1. \A s \in SUBSET (1..n) : s # {} => Max(s) \in 1..n
    BY <1>6
  <2> QED BY <1>3, <1>4, <1>8, <2>1
<1>10. PICK run : FoldRun(run, It, n, X, empty, step)
  BY <1>3, <1>4, <1>9, FoldRuns
<1>11. \A i \in 1..n : run[i] = SplitStep(text, most, run[i - 1], units[i])
  BY <1>3, <1>4, <1>10 DEF FoldRun
<1>12. SplitAll(text, most, units) = run[n]
  BY <1>1, <1>3, <1>10 DEF FoldRun
<1>13. run[0] = empty /\ \A i \in 0..n : run[i] \in X
  BY <1>10 DEF FoldRun
<1> QED BY <1>11, <1>12, <1>13 DEF n, X, empty

\* The parts of the naive cut: at most n, and joined they are the text.
LEMMA PartsHold ==
  ASSUME NEW text, NEW most \in Nat, most >= 2, NEW units \in Seq(Seq(Clause)), units # <<>>,
         FlattenSeq(units) # <<>>
  PROVE  LET split == LastPart(SplitAll(text, most, units))
         IN  split \in Seq(Seq(Clause)) /\ Len(split) \in 1..most /\ FlattenSeq(split) = FlattenSeq(units)
<1> DEFINE n == Len(units)
           empty == [parts |-> <<>>, cur |-> <<>>]
           last == SplitAll(text, most, units)
           split == LastPart(last)
<1>1. n \in Nat
  OBVIOUS
<1>2. PICK run : /\ run[0] = empty
                 /\ \A i \in 0..n : run[i] \in Splitting
                 /\ \A i \in 1..n : run[i] = SplitStep(text, most, run[i - 1], units[i])
                 /\ last = run[n]
  BY SplitFold
<1> DEFINE S == {i \in 0..n : /\ Joined(run[i]) = FlattenSeq(SubSeq(units, 1, i))
                              /\ Len(run[i].parts) <= most - 1}
<1> HIDE DEF last
<1>3. 0 \in S
  <2>1. FlattenSeq(<<>>) = <<>>
    BY DEF FlattenSeq
  <2>2. SubSeq(units, 1, 0) = <<>>
    BY SubSeqEmpty
  <2>3. empty.parts = <<>> /\ empty.cur = <<>>
    OBVIOUS
  <2> HIDE DEF n, empty
  <2>4. <<>> \o <<>> = <<>>
    BY ConcatEmptySeq
  <2>5. Joined(empty) = <<>>
    BY <2>1, <2>3, <2>4 DEF Joined
  <2>6. Len(empty.parts) <= most - 1
    BY <2>3
  <2>7. Joined(run[0]) = FlattenSeq(SubSeq(units, 1, 0)) /\ Len(run[0].parts) <= most - 1
    BY <1>2, <2>1, <2>2, <2>5, <2>6
  <2>8. 0 \in 0..n
    BY <1>1
  <2> QED BY <2>7, <2>8
<1>4. ASSUME NEW i \in 1..n, i - 1 \in S PROVE i \in S
  <2>1. /\ SubSeq(units, 1, i) = Append(SubSeq(units, 1, i - 1), units[i])
        /\ SubSeq(units, 1, i - 1) \in Seq(Seq(Clause)) /\ units[i] \in Seq(Clause)
    BY Beginning
  <2> HIDE DEF n, empty
  <2>2. i \in 0..n /\ i - 1 \in 0..n
    BY <1>1
  <2>3. run[i - 1] \in Splitting /\ run[i] = SplitStep(text, most, run[i - 1], units[i])
    BY <1>2, <2>2
  <2>4. Joined(run[i - 1]) = FlattenSeq(SubSeq(units, 1, i - 1)) /\ Len(run[i - 1].parts) <= most - 1
    BY <1>4
  <2>5. Joined(run[i]) = Joined(run[i - 1]) \o units[i] /\ Len(run[i].parts) <= most - 1
    <3> DEFINE now == run[i - 1]
               u == units[i]
    <3>1. now \in Splitting /\ u \in Seq(Clause) /\ Len(now.parts) <= most - 1
      BY <2>1, <2>3, <2>4
    <3> HIDE DEF now, u
    <3>2. /\ Joined(SplitStep(text, most, now, u)) = Joined(now) \o u
          /\ Len(SplitStep(text, most, now, u).parts) <= most - 1
      BY <3>1, SplitAdds
    <3> QED BY <2>3, <3>2 DEF now, u
  <2>6. FlattenSeq(SubSeq(units, 1, i)) = FlattenSeq(SubSeq(units, 1, i - 1)) \o units[i]
    BY <2>1, FlatSteps
  <2> QED BY <2>2, <2>4, <2>5, <2>6
<1>5. SubSeq(units, 1, n) = units
  BY SubSeqFull
<1> HIDE DEF S, n, empty
<1>6. \A i \in 0..n : i \in S
  BY <1>1, <1>3, <1>4, UpTo
<1>7. n \in 0..n
  BY <1>1
<1>8. Joined(last) = FlattenSeq(units) /\ Len(last.parts) <= most - 1
  BY <1>2, <1>5, <1>6, <1>7 DEF S
<1>9. last \in Splitting
  BY <1>2, <1>7
<1>10. last.parts \in Seq(Seq(Clause)) /\ last.cur \in Seq(Clause) /\ Len(last.parts) \in Nat
  BY <1>9 DEF Splitting
<1>11. FlattenSeq(last.parts) \in Seq(Clause)
  BY <1>10, FlatType
<1>12. CASE last.cur = <<>>
  <2>1. split = last.parts
    BY <1>12 DEF LastPart
  <2> HIDE DEF split
  <2>2. FlattenSeq(split) = FlattenSeq(units)
    BY <1>8, <1>11, <1>12, <2>1, ConcatEmptySeq DEF Joined
  <2>3. split # <<>>
    <3>1. FlattenSeq(<<>>) = <<>>
      BY DEF FlattenSeq
    <3> QED BY <2>2, <3>1
  <2>4. Len(split) \in 1..most
    BY <1>8, <1>10, <2>1, <2>3
  <2> QED BY <1>10, <2>1, <2>2, <2>4 DEF split, last
<1>13. CASE last.cur # <<>>
  <2>1. split = Append(last.parts, last.cur)
    BY <1>13 DEF LastPart
  <2> HIDE DEF split
  <2>2. FlattenSeq(split) = FlattenSeq(units)
    BY <1>8, <1>10, <2>1, FlatSteps DEF Joined
  <2>3. split \in Seq(Seq(Clause)) /\ Len(split) = Len(last.parts) + 1
    BY <1>10, <2>1, AppendProperties
  <2>4. Len(split) \in 1..most
    BY <1>8, <1>10, <2>3
  <2> QED BY <2>2, <2>3, <2>4 DEF split, last
<1> QED BY <1>12, <1>13

LEMMA UnitsHold ==
  ASSUME NEW text \in Seq(Clause), NEW most
  PROVE  Units(text, most) \in Seq(Seq(Clause)) /\ FlattenSeq(Units(text, most)) = text
BY CutsHold DEF Units

\* Nothing is cut into nothing.
LEMMA NothingIsNoUnit ==
  ASSUME NEW most
  PROVE  Units(<<>>, most) = <<>>
<1>1. ASSUME NEW at PROVE Cuts(<<>>, at) = <<>>
  <2>1. <<>> \in Seq(Clause) /\ Len(<<>>) = 0
    BY EmptySeq
  <2>2. PICK run : run[0] = <<>> /\ Cuts(<<>>, at) = run[Len(<<>>)]
    BY ZenonT(30), <2>1, CutFold
  <2> QED BY <2>1, <2>2
<1> QED BY <1>1 DEF Units

\* A text as its own only part.
LEMMA Uncut ==
  ASSUME NEW text \in Seq(Clause)
  PROVE  <<text>> \in Seq(Seq(Clause)) /\ Len(<<text>>) = 1 /\ FlattenSeq(<<text>>) = text
<1>1. <<>> \in Seq(Seq(Clause)) /\ FlattenSeq(<<>>) = <<>>
  BY DEF FlattenSeq
<1>2. Append(<<>>, text) = <<text>>
  OBVIOUS
<1>3. FlattenSeq(<<text>>) = <<>> \o text
  BY <1>1, <1>2, FlatSteps
<1>4. <<>> \o text = text
  BY ConcatEmptySeq
<1> QED BY <1>3, <1>4

\* The naive cut.
LEMMA NaiveHolds ==
  ASSUME NEW text \in Seq(Clause), NEW most \in Nat, most >= 2
  PROVE  Len(NaiveSplit(text, most)) \in 1..most /\ FlattenSeq(NaiveSplit(text, most)) = text
<1> DEFINE units == Units(text, most)
           split == LastPart(SplitAll(text, most, units))
           parts == NaiveSplit(text, most)
<1>1. units \in Seq(Seq(Clause)) /\ FlattenSeq(units) = text
  BY UnitsHold
<1>2. parts = IF Len(units) <= 1 THEN <<text>> ELSE IF Len(units) <= most THEN units ELSE split
  BY DEF NaiveSplit, SplitAll, SplitStep
<1>3. units # <<>> => text # <<>>
  BY NothingIsNoUnit
<1> HIDE DEF units, parts
<1>4. Len(units) \in Nat
  BY <1>1
<1>5. CASE Len(units) <= 1
  <2>1. parts = <<text>>
    BY <1>2, <1>5
  <2> QED BY <2>1, Uncut DEF parts
<1>6. CASE ~(Len(units) <= 1) /\ Len(units) <= most
  <2>1. parts = units
    BY <1>2, <1>6
  <2>2. Len(units) \in 1..most
    BY <1>4, <1>6
  <2> QED BY <1>1, <2>1, <2>2 DEF parts
<1>7. CASE ~(Len(units) <= 1) /\ ~(Len(units) <= most)
  <2>1. parts = split
    BY <1>2, <1>7
  <2>2. units # <<>> /\ FlattenSeq(units) # <<>>
    <3>1. units # <<>>
      BY <1>7
    <3> QED BY <1>1, <1>3, <3>1
  <2>3. Len(split) \in 1..most /\ FlattenSeq(split) = FlattenSeq(units)
    BY <1>1, <2>2, PartsHold
  <2> HIDE DEF split
  <2> QED BY <1>1, <2>1, <2>3 DEF parts
<1> QED BY <1>5, <1>6, <1>7

LEMMA SplitHolds ==
  ASSUME NEW i, SplitInput(i), DecideParts(i.text) > 0
  PROVE  LET parts == SplitText(i.text, DecideParts(i.text), i.answer)
         IN  /\ Len(parts) \in 1..DecideParts(i.text)
             /\ parts # i.answer => FlattenSeq(parts) = i.text
             /\ 10 * NormLen(FlattenSeq(parts)) >= 8 * NormLen(i.text)
<1> DEFINE text == i.text
           n == DecideParts(i.text)
           parts == SplitText(i.text, n, i.answer)
<1>1. text \in Seq(Clause) /\ NormLen(text) \in Nat
  BY NormType DEF SplitInput
<1>2. n \in Nat /\ n # 0
  BY ChunkAssumption DEF DecideParts
<1>3. parts = IF n <= 1 THEN <<text>>
              ELSE IF Covers(i.answer, text, n) THEN i.answer ELSE NaiveSplit(text, n)
  BY DEF SplitText
<1> HIDE DEF parts, n
<1>4. CASE n <= 1
  <2>1. parts = <<text>> /\ n = 1
    BY <1>2, <1>3, <1>4
  <2>2. Len(parts) \in 1..n /\ FlattenSeq(parts) = text
    BY <1>1, <2>1, Uncut
  <2>3. 10 * NormLen(text) >= 8 * NormLen(text)
    BY <1>1
  <2> QED BY <2>2, <2>3 DEF parts, n
<1>5. CASE ~(n <= 1) /\ Covers(i.answer, text, n)
  <2>1. parts = i.answer
    BY <1>3, <1>5
  <2>2. Len(parts) = n /\ 10 * NormLen(FlattenSeq(parts)) >= 8 * NormLen(text)
    BY <1>5, <2>1 DEF Covers
  <2>3. n \in 1..n
    BY <1>2
  <2> QED BY <2>1, <2>2, <2>3 DEF parts, n
<1>6. CASE ~(n <= 1) /\ ~Covers(i.answer, text, n)
  <2>1. parts = NaiveSplit(text, n)
    BY <1>3, <1>6
  <2>2. n >= 2
    BY <1>2, <1>6
  <2> HIDE DEF text
  <2>3. Len(parts) \in 1..n /\ FlattenSeq(parts) = text
    BY <1>1, <1>2, <2>1, <2>2, NaiveHolds
  <2>4. 10 * NormLen(text) >= 8 * NormLen(text)
    BY <1>1
  <2> QED BY <2>3, <2>4 DEF parts, n, text
<1> QED BY <1>4, <1>5, <1>6
-----------------------------------------------------------------------------
(* Written amounts.                                                       *)

\* What holds of a number if it holds of all smaller ones holds of all.
LEMMA StrongInd ==
  ASSUME NEW S, \A n \in Nat : (\A m \in Nat : m < n => m \in S) => n \in S
  PROVE  \A n \in Nat : n \in S
<1> DEFINE T == {n \in Nat : \A m \in Nat : m < n => m \in S}
<1>1. 0 \in T
  OBVIOUS
<1>2. ASSUME NEW n \in Nat, n \in T PROVE n + 1 \in T
  <2>1. n \in S
    BY <1>2
  <2>2. \A m \in Nat : m < n + 1 => m < n \/ m = n
    OBVIOUS
  <2> QED BY <1>2, <2>1, <2>2
<1> HIDE DEF T
<1>3. \A n \in Nat : n \in T
  BY <1>1, <1>2, NatInd
<1> QED BY <1>3 DEF T

\* A function on numbers that is defined by its values on smaller ones.
Recursive(f, D, limit, X, before, base, step) ==
  /\ f \in [D -> X]
  /\ \A k \in D : f[k] = IF k < limit THEN base[k] ELSE step[k][f[before[k]]]

\* The values that a value in D needs are in D.
Founded(D, limit, before) ==
  D \in SUBSET Nat /\ \A k \in D : k >= limit => before[k] \in D /\ before[k] < k

LEMMA RecursiveUnique ==
  ASSUME NEW D, NEW E, NEW limit \in Nat, NEW X, NEW before, NEW base, NEW step, NEW f, NEW g,
         Founded(D, limit, before), Founded(E, limit, before),
         Recursive(f, D, limit, X, before, base, step),
         Recursive(g, E, limit, X, before, base, step)
  PROVE  \A k \in D \cap E : f[k] = g[k]
<1> DEFINE S == {k \in Nat : k \in D \cap E => f[k] = g[k]}
<1>1. ASSUME NEW k \in Nat, \A m \in Nat : m < k => m \in S PROVE k \in S
  <2> SUFFICES ASSUME k \in D \cap E PROVE f[k] = g[k]
    OBVIOUS
  <2>1. /\ f[k] = IF k < limit THEN base[k] ELSE step[k][f[before[k]]]
        /\ g[k] = IF k < limit THEN base[k] ELSE step[k][g[before[k]]]
    BY DEF Recursive
  <2>2. CASE k < limit
    BY <2>1, <2>2
  <2>3. CASE ~(k < limit)
    <3>1. before[k] \in D \cap E /\ before[k] \in Nat /\ before[k] < k
      <4>1. k \in D /\ k \in E /\ k >= limit
        BY <2>3
      <4>2. before[k] \in D /\ before[k] \in E /\ before[k] < k
        BY <4>1 DEF Founded
      <4> QED BY <4>2 DEF Founded
    <3>2. f[before[k]] = g[before[k]]
      BY <1>1, <3>1
    <3> QED BY <2>1, <2>3, <3>2
  <2> QED BY <2>2, <2>3
<1> HIDE DEF S
<1>2. \A k \in Nat : k \in S
  BY <1>1, StrongInd
<1>3. D \in SUBSET Nat
  BY DEF Founded
<1> QED BY <1>2, <1>3 DEF S

LEMMA RecursiveExists ==
  ASSUME NEW limit \in Nat \ {0}, NEW X, NEW before \in [Nat -> Nat],
         \A k \in Nat : k >= limit => before[k] < k,
         NEW base \in [Nat -> X], NEW step \in [Nat -> [X -> X]]
  PROVE  \E f : Recursive(f, Nat, limit, X, before, base, step)
<1> DEFINE R(f, n) == Recursive(f, 0..n, limit, X, before, base, step)
           S == {n \in Nat : \E f : R(f, n)}
<1>1. 0 \in S
  <2> DEFINE f == [k \in 0..0 |-> base[k]]
  <2>1. \A k \in 0..0 : k < limit /\ k \in Nat
    OBVIOUS
  <2>2. R(f, 0)
    BY <2>1 DEF Recursive
  <2> HIDE DEF f, R
  <2> QED BY <2>2
<1>2. ASSUME NEW n \in Nat, n \in S PROVE n + 1 \in S
  <2>1. PICK f : R(f, n)
    BY <1>2
  <2> DEFINE new == IF n + 1 < limit THEN base[n + 1] ELSE step[n + 1][f[before[n + 1]]]
             g == [k \in 0..(n + 1) |-> IF k = n + 1 THEN new ELSE f[k]]
  <2>2. f \in [0..n -> X] /\ \A k \in 0..n : f[k] = IF k < limit THEN base[k] ELSE step[k][f[before[k]]]
    BY <2>1 DEF Recursive
  <2>3. \A k \in 0..(n + 1) : k >= limit => before[k] \in 0..n
    OBVIOUS
  <2>4. new \in X
    <3>1. CASE n + 1 < limit
      BY <3>1
    <3>2. CASE ~(n + 1 < limit)
      <4>1. before[n + 1] \in 0..n
        BY <2>3, <3>2
      <4>2. f[before[n + 1]] \in X /\ step[n + 1] \in [X -> X]
        BY <2>2, <4>1
      <4> QED BY <3>2, <4>2
    <3> QED BY <3>1, <3>2
  <2> HIDE DEF new
  <2>5. g \in [0..(n + 1) -> X] /\ g[n + 1] = new /\ \A k \in 0..n : g[k] = f[k]
    BY <2>2, <2>4
  <2> HIDE DEF g
  <2>6. ASSUME NEW k \in 0..(n + 1)
        PROVE  g[k] = IF k < limit THEN base[k] ELSE step[k][g[before[k]]]
    <3>1. k >= limit => g[before[k]] = f[before[k]]
      BY <2>3, <2>5
    <3>2. CASE k = n + 1
      BY <2>5, <3>1, <3>2 DEF new
    <3>3. CASE k # n + 1
      <4>1. k \in 0..n
        BY <3>3
      <4>2. f[k] = IF k < limit THEN base[k] ELSE step[k][f[before[k]]]
        BY <2>2, <4>1
      <4> QED BY <2>5, <3>1, <4>1, <4>2
    <3> QED BY <3>2, <3>3
  <2>7. R(g, n + 1)
    BY <2>5, <2>6 DEF Recursive
  <2> HIDE DEF R
  <2> QED BY <2>7
<1> HIDE DEF S
<1>3. \A n \in Nat : n \in S
  BY <1>1, <1>2, NatInd
<1> DEFINE table == [n \in Nat |-> CHOOSE f : R(f, n)]
           F == [n \in Nat |-> table[n][n]]
<1>4. \A n \in Nat : R(table[n], n)
  <2> SUFFICES ASSUME NEW n \in Nat PROVE R(table[n], n)
    OBVIOUS
  <2>1. \E f : R(f, n)
    BY <1>3 DEF S
  <2> HIDE DEF R
  <2> QED BY <2>1
<1> HIDE DEF table
<1>5. ASSUME NEW n \in Nat, NEW m \in 0..n PROVE table[n][m] = table[m][m]
  <2>1. R(table[n], n) /\ R(table[m], m)
    BY <1>4
  <2>2. 0..n \in SUBSET Nat /\ 0..m \in SUBSET Nat /\ m \in (0..n) \cap (0..m) /\ limit \in Nat
    OBVIOUS
  <2>3. \A k \in Nat : k >= limit => before[k] \in Nat /\ before[k] < k
    OBVIOUS
  <2>4. \A j \in Nat : \A k \in 0..j : k >= limit => before[k] \in 0..j
    OBVIOUS
  <2>5. \A k \in (0..n) \cap (0..m) : table[n][k] = table[m][k]
    <3> DEFINE D == 0..n
               E == 0..m
               f == table[n]
               g == table[m]
    <3>1. Founded(D, limit, before) /\ Founded(E, limit, before)
      BY <2>2, <2>3, <2>4 DEF Founded
    <3>2. /\ Recursive(f, D, limit, X, before, base, step)
          /\ Recursive(g, E, limit, X, before, base, step)
      BY <2>1
    <3>3. limit \in Nat
      OBVIOUS
    <3> HIDE DEF D, E, f, g
    <3>4. \A k \in D \cap E : f[k] = g[k]
      BY <3>1, <3>2, <3>3, RecursiveUnique
    <3> QED BY <3>4 DEF D, E, f, g
  <2> QED BY <2>2, <2>5
<1>6. ASSUME NEW n \in Nat
      PROVE  F[n] \in X /\ F[n] = IF n < limit THEN base[n] ELSE step[n][F[before[n]]]
  <2>1. R(table[n], n) /\ n \in 0..n /\ F[n] = table[n][n]
    BY <1>4
  <2>2. n >= limit => before[n] \in 0..n /\ F[before[n]] = table[before[n]][before[n]]
    OBVIOUS
  <2> HIDE DEF F
  <2>3. table[n][n] \in X
        /\ table[n][n] = IF n < limit THEN base[n] ELSE step[n][table[n][before[n]]]
    BY <2>1 DEF Recursive
  <2>4. n >= limit => table[n][before[n]] = F[before[n]]
    BY <1>5, <2>2
  <2> QED BY <2>1, <2>3, <2>4
<1>7. F \in [Nat -> X]
  BY <1>6
<1> HIDE DEF F
<1>8. Recursive(F, Nat, limit, X, before, base, step)
  BY <1>6, <1>7 DEF Recursive
<1> QED BY <1>8

\* The powers of ten, the digits of a number and its groups of three.
LEMMA TenIs ==
  /\ \A k \in Nat : Ten[k] \in Nat
  /\ Ten[0] = 1 /\ Ten[1] = 10 /\ Ten[2] = 100 /\ Ten[3] = 1000
<1> DEFINE before == [k \in Nat |-> IF k = 0 THEN 0 ELSE k - 1]
           base == [k \in Nat |-> 1]
           step == [k \in Nat |-> [x \in Nat |-> 10 * x]]
<1>1. before \in [Nat -> Nat] /\ base \in [Nat -> Nat] /\ \A k \in Nat : k >= 1 => before[k] < k
  OBVIOUS
<1>2. step \in [Nat -> [Nat -> Nat]]
  OBVIOUS
<1>3. PICK f : Recursive(f, Nat, 1, Nat, before, base, step)
  <2> HIDE DEF before, base, step
  <2>1. 1 \in Nat \ {0}
    OBVIOUS
  <2> QED BY <1>1, <1>2, <2>1, RecursiveExists
<1>4. \A k \in Nat : f[k] \in Nat /\ f[k] = IF k = 0 THEN 1 ELSE 10 * f[k - 1]
  <2> SUFFICES ASSUME NEW k \in Nat PROVE f[k] \in Nat /\ f[k] = IF k = 0 THEN 1 ELSE 10 * f[k - 1]
    OBVIOUS
  <2>1. f \in [Nat -> Nat] /\ f[k] = IF k < 1 THEN base[k] ELSE step[k][f[before[k]]]
    BY <1>3 DEF Recursive
  <2>2. k # 0 => before[k] = k - 1 /\ k - 1 \in Nat /\ f[k - 1] \in Nat
    BY <2>1
  <2>3. \A x \in Nat : step[k][x] = 10 * x
    OBVIOUS
  <2> HIDE DEF before, step
  <2> QED BY <2>1, <2>2, <2>3
<1>5. f = [k \in Nat |-> IF k = 0 THEN 1 ELSE 10 * f[k - 1]]
  BY <1>3, <1>4 DEF Recursive
<1>6. Ten = [k \in Nat |-> IF k = 0 THEN 1 ELSE 10 * Ten[k - 1]]
  BY <1>5 DEF Ten
<1>7. \A k \in Nat : Ten[k] = IF k = 0 THEN 1 ELSE 10 * Ten[k - 1]
  BY <1>6
<1> DEFINE S == {k \in Nat : Ten[k] \in Nat}
<1>8. 0 \in S
  BY <1>7
<1>9. ASSUME NEW k \in Nat, k \in S PROVE k + 1 \in S
  <2>1. k + 1 # 0 /\ (k + 1) - 1 = k /\ k + 1 \in Nat
    OBVIOUS
  <2>2. Ten[k + 1] = 10 * Ten[k]
    BY <1>7, <2>1
  <2> QED BY <1>9, <2>2
<1> HIDE DEF S
<1>10. \A k \in Nat : k \in S
  BY <1>8, <1>9, NatInd
<1>11. Ten[0] = 1 /\ Ten[1] = 10 * Ten[0] /\ Ten[2] = 10 * Ten[1] /\ Ten[3] = 10 * Ten[2]
  BY <1>7
<1> QED BY <1>10, <1>11 DEF S

LEMMA WidthIs ==
  \A n \in Nat : Width[n] \in Nat \ {0}
<1> DEFINE before == [k \in Nat |-> k \div 10]
           base == [k \in Nat |-> 1]
           step == [k \in Nat |-> [x \in Nat |-> 1 + x]]
<1>1. before \in [Nat -> Nat] /\ base \in [Nat -> Nat] /\ \A k \in Nat : k >= 10 => before[k] < k
  OBVIOUS
<1>2. step \in [Nat -> [Nat -> Nat]]
  OBVIOUS
<1>3. PICK f : Recursive(f, Nat, 10, Nat, before, base, step)
  <2> HIDE DEF before, base, step
  <2>1. 10 \in Nat \ {0}
    OBVIOUS
  <2> QED BY <1>1, <1>2, <2>1, RecursiveExists
<1>4. \A k \in Nat : f[k] \in Nat /\ f[k] = IF k < 10 THEN 1 ELSE 1 + f[k \div 10]
  <2> SUFFICES ASSUME NEW k \in Nat PROVE f[k] \in Nat /\ f[k] = IF k < 10 THEN 1 ELSE 1 + f[k \div 10]
    OBVIOUS
  <2>1. f \in [Nat -> Nat] /\ f[k] = IF k < 10 THEN base[k] ELSE step[k][f[before[k]]]
    BY <1>3 DEF Recursive
  <2>2. before[k] = k \div 10 /\ k \div 10 \in Nat /\ f[k \div 10] \in Nat
    BY <2>1
  <2>3. \A x \in Nat : step[k][x] = 1 + x
    OBVIOUS
  <2> HIDE DEF before, step
  <2> QED BY <2>1, <2>2, <2>3
<1>5. f = [k \in Nat |-> IF k < 10 THEN 1 ELSE 1 + f[k \div 10]]
  BY <1>3, <1>4 DEF Recursive
<1>6. Width = [n \in Nat |-> IF n < 10 THEN 1 ELSE 1 + Width[n \div 10]]
  BY <1>5 DEF Width
<1>7. \A n \in Nat : Width[n] = IF n < 10 THEN 1 ELSE 1 + Width[n \div 10]
  BY <1>6
<1> DEFINE S == {n \in Nat : Width[n] \in Nat \ {0}}
<1>8. ASSUME NEW n \in Nat, \A m \in Nat : m < n => m \in S PROVE n \in S
  <2>1. n >= 10 => n \div 10 \in Nat /\ n \div 10 < n
    OBVIOUS
  <2>2. n >= 10 => Width[n \div 10] \in Nat \ {0}
    BY <1>8, <2>1
  <2> QED BY <1>7, <2>2
<1> HIDE DEF S
<1>9. \A n \in Nat : n \in S
  BY <1>8, StrongInd
<1> QED BY <1>9 DEF S

Group == [num : Nat, len : Nat]
First(n) == <<[num |-> n, len |-> Width[n]]>>

LEMMA GroupsType ==
  /\ \A n \in Nat : First(n) \in Seq(Group)
  /\ \A n \in Nat, groups \in Seq(Group) : AndLast(groups, n) \in Seq(Group)
<1>1. ASSUME NEW n \in Nat PROVE First(n) \in Seq(Group)
  <2>1. [num |-> n, len |-> Width[n]] \in Group
    BY WidthIs DEF Group
  <2> QED BY <2>1 DEF First
<1>2. ASSUME NEW n \in Nat, NEW groups \in Seq(Group) PROVE AndLast(groups, n) \in Seq(Group)
  <2>1. [num |-> n % 1000, len |-> 3] \in Group
    BY DEF Group
  <2> QED BY <2>1, AppendProperties DEF AndLast
<1> QED BY <1>1, <1>2

LEMMA GroupedIs ==
  \A n \in Nat : Grouped[n] = IF n < 1000 THEN First(n) ELSE AndLast(Grouped[n \div 1000], n)
<1> DEFINE X == Seq(Group)
           limit == 1000
           before == [k \in Nat |-> k \div 1000]
           base == [k \in Nat |-> First(k)]
           step == [k \in Nat |-> [x \in X |-> AndLast(x, k)]]
<1>1. before \in [Nat -> Nat] /\ limit \in Nat \ {0} /\ \A k \in Nat : k >= limit => before[k] < k
  OBVIOUS
<1>2. base \in [Nat -> X]
  BY GroupsType
<1>3. step \in [Nat -> [X -> X]]
  BY GroupsType
<1> HIDE DEF X, before, base, step, limit
<1>4. PICK f : Recursive(f, Nat, limit, X, before, base, step)
  BY <1>1, <1>2, <1>3, RecursiveExists
<1>5. ASSUME NEW k \in Nat
      PROVE  f[k] = IF k < 1000 THEN First(k) ELSE AndLast(f[k \div 1000], k)
  <2>1. f \in [Nat -> X] /\ f[k] = IF k < 1000 THEN base[k] ELSE step[k][f[before[k]]]
    BY <1>4 DEF Recursive, limit
  <2>2. before[k] = k \div 1000 /\ k \div 1000 \in Nat /\ base[k] = First(k)
    BY DEF before, base
  <2>3. \A x \in X : step[k][x] = AndLast(x, k)
    BY DEF step
  <2>4. f[k \div 1000] \in X
    BY <2>1, <2>2
  <2>5. step[k][f[before[k]]] = AndLast(f[k \div 1000], k)
    BY <2>2, <2>3, <2>4
  <2> QED BY <2>1, <2>2, <2>5
<1>6. f = [n \in Nat |-> IF n < 1000 THEN First(n) ELSE AndLast(f[n \div 1000], n)]
  BY <1>4, <1>5 DEF Recursive
<1>7. Grouped = CHOOSE g : g = [n \in Nat |-> IF n < 1000 THEN First(n) ELSE AndLast(g[n \div 1000], n)]
  BY Zenon DEF Grouped, First
<1>8. Grouped = [n \in Nat |-> IF n < 1000 THEN First(n) ELSE AndLast(Grouped[n \div 1000], n)]
  BY <1>6, <1>7
<1> QED BY <1>8

\* One group of digits more.
Longer(n, g) == n * Ten[g.len] + g.num

LEMMA LongerType ==
  \A n \in Nat, g \in Group : Longer(n, g) \in Nat
<1> SUFFICES ASSUME NEW n \in Nat, NEW g \in Group PROVE Longer(n, g) \in Nat
  OBVIOUS
<1>1. g.len \in Nat /\ g.num \in Nat
  BY DEF Group
<1>2. Ten[g.len] \in Nat
  BY <1>1, TenIs
<1>3. n * Ten[g.len] \in Nat
  BY <1>2
<1> QED BY <1>1, <1>3 DEF Longer

LEMMA NumberFold ==
  ASSUME NEW groups \in Seq(Group)
  PROVE  \E run : /\ run[0] = 0
                  /\ \A i \in 0..Len(groups) : run[i] \in Nat
                  /\ \A i \in 1..Len(groups) : run[i] = Longer(run[i - 1], groups[i])
                  /\ Number(groups) = run[Len(groups)]
<1> DEFINE n == Len(groups)
           X == Nat
           empty == 0
           It[s \in SUBSET (DOMAIN groups)] == IF s = {} THEN empty ELSE Longer(It[s \ {Max(s)}], groups[Max(s)])
           step == [i \in 1..n |-> [x \in X |-> Longer(x, groups[i])]]
<1>1. Number(groups) = It[DOMAIN groups]
  BY DEF Number, Longer, FoldLeft, MapThenFoldSet
<1>2. \A i \in 1..n, x \in X : Longer(x, groups[i]) \in X
  <2> SUFFICES ASSUME NEW i \in 1..n, NEW x \in X PROVE Longer(x, groups[i]) \in X
    OBVIOUS
  <2>1. groups[i] \in Group
    OBVIOUS
  <2> QED BY <2>1, LongerType
<1>3. empty \in X /\ n \in Nat /\ DOMAIN groups = 1..n
  OBVIOUS
<1> HIDE DEF X, empty, n
<1>4. step \in [1..n -> [X -> X]] /\ \A i \in 1..n, x \in X : step[i][x] = Longer(x, groups[i])
  BY <1>2
<1> HIDE DEF step
<1>5. PICK it : FoldTable(it, n, X, empty, step)
  BY <1>3, <1>4, FoldExists
<1>6. /\ it \in [SUBSET (1..n) -> X] /\ it[{}] = empty
      /\ \A s \in SUBSET (1..n) : s # {} =>
           Max(s) \in 1..n /\ it[s \ {Max(s)}] \in X /\ it[s] = step[Max(s)][it[s \ {Max(s)}]]
  BY <1>5 DEF FoldTable
<1>7. it = [s \in SUBSET (DOMAIN groups) |-> IF s = {} THEN empty ELSE Longer(it[s \ {Max(s)}], groups[Max(s)])]
  BY <1>3, <1>4, <1>6
<1>8. It = [s \in SUBSET (DOMAIN groups) |-> IF s = {} THEN empty ELSE Longer(It[s \ {Max(s)}], groups[Max(s)])]
  BY <1>7
<1> HIDE DEF It
<1>9. It[{}] = empty /\ \A s \in SUBSET (1..n) :
        s # {} /\ It[s \ {Max(s)}] \in X => It[s] = step[Max(s)][It[s \ {Max(s)}]]
  <2>1. \A s \in SUBSET (1..n) : s # {} => Max(s) \in 1..n
    BY <1>6
  <2> QED BY <1>3, <1>4, <1>8, <2>1
<1>10. PICK run : FoldRun(run, It, n, X, empty, step)
  BY <1>3, <1>4, <1>9, FoldRuns
<1>11. \A i \in 1..n : run[i] = Longer(run[i - 1], groups[i])
  BY <1>3, <1>4, <1>10 DEF FoldRun
<1>12. Number(groups) = run[n]
  BY <1>1, <1>3, <1>10 DEF FoldRun
<1>13. run[0] = empty /\ \A i \in 0..n : run[i] \in X
  BY <1>10 DEF FoldRun
<1> QED BY <1>11, <1>12, <1>13 DEF n, X, empty

LEMMA DigitsFold ==
  ASSUME NEW groups \in Seq(Group)
  PROVE  \E run : /\ run[0] = 0
                  /\ \A i \in 0..Len(groups) : run[i] \in Nat
                  /\ \A i \in 1..Len(groups) : run[i] = run[i - 1] + groups[i].len
                  /\ Digits(groups) = run[Len(groups)]
<1> DEFINE n == Len(groups)
           X == Nat
           empty == 0
           It[s \in SUBSET (DOMAIN groups)] == IF s = {} THEN empty ELSE It[s \ {Max(s)}] + groups[Max(s)].len
           step == [i \in 1..n |-> [x \in X |-> x + groups[i].len]]
<1>1. Digits(groups) = It[DOMAIN groups]
  BY DEF Digits, FoldLeft, MapThenFoldSet
<1>2. \A i \in 1..n, x \in X : x + groups[i].len \in X
  <2> SUFFICES ASSUME NEW i \in 1..n, NEW x \in X PROVE x + groups[i].len \in X
    OBVIOUS
  <2>1. groups[i] \in Group
    OBVIOUS
  <2>2. groups[i].len \in Nat
    BY <2>1 DEF Group
  <2> QED BY <2>2
<1>3. empty \in X /\ n \in Nat /\ DOMAIN groups = 1..n
  OBVIOUS
<1> HIDE DEF X, empty, n
<1>4. step \in [1..n -> [X -> X]] /\ \A i \in 1..n, x \in X : step[i][x] = x + groups[i].len
  BY <1>2
<1> HIDE DEF step
<1>5. PICK it : FoldTable(it, n, X, empty, step)
  BY <1>3, <1>4, FoldExists
<1>6. /\ it \in [SUBSET (1..n) -> X] /\ it[{}] = empty
      /\ \A s \in SUBSET (1..n) : s # {} =>
           Max(s) \in 1..n /\ it[s \ {Max(s)}] \in X /\ it[s] = step[Max(s)][it[s \ {Max(s)}]]
  BY <1>5 DEF FoldTable
<1>7. it = [s \in SUBSET (DOMAIN groups) |-> IF s = {} THEN empty ELSE it[s \ {Max(s)}] + groups[Max(s)].len]
  BY <1>3, <1>4, <1>6
<1>8. It = [s \in SUBSET (DOMAIN groups) |-> IF s = {} THEN empty ELSE It[s \ {Max(s)}] + groups[Max(s)].len]
  BY <1>7
<1> HIDE DEF It
<1>9. It[{}] = empty /\ \A s \in SUBSET (1..n) :
        s # {} /\ It[s \ {Max(s)}] \in X => It[s] = step[Max(s)][It[s \ {Max(s)}]]
  <2>1. \A s \in SUBSET (1..n) : s # {} => Max(s) \in 1..n
    BY <1>6
  <2> QED BY <1>3, <1>4, <1>8, <2>1
<1>10. PICK run : FoldRun(run, It, n, X, empty, step)
  BY <1>3, <1>4, <1>9, FoldRuns
<1>11. \A i \in 1..n : run[i] = run[i - 1] + groups[i].len
  BY <1>3, <1>4, <1>10 DEF FoldRun
<1>12. Digits(groups) = run[n]
  BY <1>1, <1>3, <1>10 DEF FoldRun
<1>13. run[0] = empty /\ \A i \in 0..n : run[i] \in X
  BY <1>10 DEF FoldRun
<1> QED BY <1>11, <1>12, <1>13 DEF n, X, empty

\* The number and the digits of one group more.
LEMMA NumberSteps ==
  ASSUME NEW groups \in Seq(Group), NEW g \in Group
  PROVE  /\ Number(<<>>) = 0 /\ Number(groups) \in Nat
         /\ Number(Append(groups, g)) = Longer(Number(groups), g)
<1> DEFINE n == Len(groups)
           more == Append(groups, g)
<1>1. /\ more \in Seq(Group) /\ Len(more) = n + 1 /\ n \in Nat
      /\ more[n + 1] = g /\ \A i \in 1..n : more[i] = groups[i]
  BY AppendProperties
<1>2. PICK a : /\ a[0] = 0 /\ \A i \in 0..n : a[i] \in Nat
               /\ \A i \in 1..n : a[i] = Longer(a[i - 1], groups[i])
               /\ Number(groups) = a[n]
  BY NumberFold
<1> HIDE DEF more
<1>3. PICK b : /\ b[0] = 0
               /\ \A i \in 1..Len(more) : b[i] = Longer(b[i - 1], more[i])
               /\ Number(more) = b[Len(more)]
  BY <1>1, NumberFold
<1> DEFINE S == {i \in 0..n : a[i] = b[i]}
<1>4. 0 \in S
  BY <1>1, <1>2, <1>3
<1> HIDE DEF n
<1>5. ASSUME NEW i \in 1..n, i - 1 \in S PROVE i \in S
  <2>1. i \in 1..Len(more) /\ i \in 0..n
    BY <1>1
  <2>2. b[i] = Longer(b[i - 1], groups[i])
    BY <1>1, <1>3, <2>1
  <2> QED BY <1>2, <1>5, <2>1, <2>2
<1> HIDE DEF S
<1>6. \A i \in 0..n : i \in S
  BY <1>1, <1>4, <1>5, UpTo
<1>7. n \in 0..n /\ n + 1 \in 1..(n + 1) /\ (n + 1) - 1 = n
  BY <1>1
<1>8. a[n] = b[n]
  BY <1>6, <1>7 DEF S
<1>9. b[n + 1] = Longer(b[n], g)
  BY <1>1, <1>3, <1>7
<1>10. Number(<<>>) = 0
  <2>1. <<>> \in Seq(Group) /\ Len(<<>>) = 0
    BY EmptySeq
  <2>2. PICK c : c[0] = 0 /\ Number(<<>>) = c[Len(<<>>)]
    BY <2>1, NumberFold
  <2> QED BY <2>1, <2>2
<1>11. Number(groups) \in Nat
  BY <1>2, <1>7
<1>12. Number(more) = Longer(Number(groups), g)
  BY <1>1, <1>2, <1>3, <1>8, <1>9
<1> QED BY <1>10, <1>11, <1>12 DEF more


LEMMA DigitsSteps ==
  ASSUME NEW groups \in Seq(Group), NEW g \in Group
  PROVE  /\ Digits(<<>>) = 0 /\ Digits(groups) \in Nat
         /\ Digits(Append(groups, g)) = Digits(groups) + g.len
<1> DEFINE n == Len(groups)
           more == Append(groups, g)
<1>1. /\ more \in Seq(Group) /\ Len(more) = n + 1 /\ n \in Nat
      /\ more[n + 1] = g /\ \A i \in 1..n : more[i] = groups[i]
  BY AppendProperties
<1>2. PICK a : /\ a[0] = 0 /\ \A i \in 0..n : a[i] \in Nat
               /\ \A i \in 1..n : a[i] = a[i - 1] + groups[i].len
               /\ Digits(groups) = a[n]
  BY DigitsFold
<1> HIDE DEF more
<1>3. PICK b : /\ b[0] = 0
               /\ \A i \in 1..Len(more) : b[i] = b[i - 1] + more[i].len
               /\ Digits(more) = b[Len(more)]
  BY <1>1, DigitsFold
<1> DEFINE S == {i \in 0..n : a[i] = b[i]}
<1>4. 0 \in S
  BY <1>1, <1>2, <1>3
<1> HIDE DEF n
<1>5. ASSUME NEW i \in 1..n, i - 1 \in S PROVE i \in S
  <2>1. i \in 1..Len(more) /\ i \in 0..n
    BY <1>1
  <2>2. b[i] = b[i - 1] + groups[i].len
    BY <1>1, <1>3, <2>1
  <2> QED BY <1>2, <1>5, <2>1, <2>2
<1> HIDE DEF S
<1>6. \A i \in 0..n : i \in S
  BY <1>1, <1>4, <1>5, UpTo
<1>7. n \in 0..n /\ n + 1 \in 1..(n + 1) /\ (n + 1) - 1 = n
  BY <1>1
<1>8. a[n] = b[n]
  BY <1>6, <1>7 DEF S
<1>9. b[n + 1] = b[n] + g.len
  BY <1>1, <1>3, <1>7
<1>10. Digits(<<>>) = 0
  <2>1. <<>> \in Seq(Group) /\ Len(<<>>) = 0
    BY EmptySeq
  <2>2. PICK c : c[0] = 0 /\ Digits(<<>>) = c[Len(<<>>)]
    BY <2>1, DigitsFold
  <2> QED BY <2>1, <2>2
<1>11. Digits(groups) \in Nat
  BY <1>2, <1>7
<1>12. Digits(more) = Digits(groups) + g.len
  BY <1>1, <1>2, <1>3, <1>8, <1>9
<1> QED BY <1>10, <1>11, <1>12 DEF more

\* The groups of a number read as that number; all but the first have three digits.
LEMMA GroupsHold ==
  \A n \in Nat : /\ Grouped[n] \in Seq(Group) /\ Len(Grouped[n]) >= 1
                 /\ Number(Grouped[n]) = n /\ Digits(Grouped[n]) > 0
                 /\ \A i \in 2..Len(Grouped[n]) : Grouped[n][i].len = 3
<1> DEFINE Good(n) == /\ Grouped[n] \in Seq(Group) /\ Len(Grouped[n]) >= 1
                      /\ Number(Grouped[n]) = n /\ Digits(Grouped[n]) > 0
                      /\ \A i \in 2..Len(Grouped[n]) : Grouped[n][i].len = 3
           S == {n \in Nat : Good(n)}
<1>1. ASSUME NEW n \in Nat, \A m \in Nat : m < n => m \in S PROVE n \in S
  <2>1. CASE n < 1000
    <3> DEFINE g == [num |-> n, len |-> Width[n]]
    <3>1. g \in Group /\ g.num = n /\ g.len \in Nat \ {0}
      BY WidthIs DEF Group
    <3> HIDE DEF g
    <3>2. Grouped[n] = Append(<<>>, g)
      <4>1. Grouped[n] = First(n)
        BY <2>1, GroupedIs
      <4>2. First(n) = <<g>>
        BY DEF First, g
      <4>3. Append(<<>>, g) = <<g>>
        OBVIOUS
      <4> QED BY <4>1, <4>2, <4>3
    <3>3. /\ <<>> \in Seq(Group) /\ Number(<<>>) = 0 /\ Digits(<<>>) = 0
          /\ Number(Append(<<>>, g)) = Longer(0, g) /\ Digits(Append(<<>>, g)) = 0 + g.len
      BY <3>1, EmptySeq, NumberSteps, DigitsSteps
    <3>4. Longer(0, g) = n
      <4>1. Ten[g.len] \in Nat
        BY <3>1, TenIs
      <4> QED BY <3>1, <4>1 DEF Longer
    <3>5. Append(<<>>, g) \in Seq(Group) /\ Len(Append(<<>>, g)) = 1
      BY <3>1
    <3>6. \A i \in 2..1 : Append(<<>>, g)[i].len = 3
      OBVIOUS
    <3>7. Good(n)
      BY <3>1, <3>2, <3>3, <3>4, <3>5, <3>6
    <3> QED BY <3>7
  <2>2. CASE ~(n < 1000)
    <3> DEFINE m == n \div 1000
               g == [num |-> n % 1000, len |-> 3]
               groups == Grouped[m]
    <3>1. m \in Nat /\ m < n /\ n = m * 1000 + (n % 1000)
      BY <2>2
    <3>2. g \in Group /\ g.num = n % 1000 /\ g.len = 3
      BY DEF Group
    <3>3. Good(m)
      <4> HIDE DEF Good, m
      <4> QED BY <1>1, <3>1
    <3>4. Grouped[n] = Append(groups, g)
      <4>1. Grouped[n] = AndLast(groups, n)
        BY <2>2, GroupedIs
      <4> QED BY <4>1 DEF AndLast
    <3> HIDE DEF m, g
    <3>5. /\ groups \in Seq(Group) /\ Len(groups) >= 1 /\ Number(groups) = m /\ Digits(groups) > 0
          /\ \A i \in 2..Len(groups) : groups[i].len = 3
      BY <3>3
    <3> HIDE DEF groups, Good
    <3>6. Number(Append(groups, g)) = Longer(m, g) /\ Digits(groups) \in Nat
          /\ Digits(Append(groups, g)) = Digits(groups) + g.len
      BY <3>2, <3>5, NumberSteps, DigitsSteps
    <3>7. Longer(m, g) = n
      BY <3>1, <3>2, TenIs DEF Longer
    <3>8. /\ Append(groups, g) \in Seq(Group) /\ Len(Append(groups, g)) = Len(groups) + 1
          /\ Len(groups) \in Nat /\ Append(groups, g)[Len(groups) + 1] = g
          /\ \A i \in 1..Len(groups) : Append(groups, g)[i] = groups[i]
      BY <3>2, <3>5, AppendProperties
    <3>9. \A i \in 2..(Len(groups) + 1) : Append(groups, g)[i].len = 3
      <4> SUFFICES ASSUME NEW i \in 2..(Len(groups) + 1) PROVE Append(groups, g)[i].len = 3
        OBVIOUS
      <4>1. CASE i = Len(groups) + 1
        BY <3>2, <3>8, <4>1
      <4>2. CASE i # Len(groups) + 1
        <5>1. i \in 1..Len(groups) /\ i \in 2..Len(groups)
          BY <3>8, <4>2
        <5> QED BY <3>5, <3>8, <5>1
      <4> QED BY <4>1, <4>2
    <3>10. Good(n)
      <4> HIDE DEF Longer
      <4> QED BY <3>2, <3>4, <3>5, <3>6, <3>7, <3>8, <3>9 DEF Good
    <3> QED BY <3>10
  <2> QED BY <2>1, <2>2
<1> HIDE DEF S
<1>2. \A n \in Nat : n \in S
  BY <1>1, StrongInd
<1> QED BY <1>2 DEF S

\* A single group.
LEMMA LoneGroup ==
  ASSUME NEW g \in Group
  PROVE  <<g>> \in Seq(Group) /\ Number(<<g>>) = g.num /\ Digits(<<g>>) = g.len
<1>1. <<>> \in Seq(Group) /\ Append(<<>>, g) = <<g>> /\ <<g>> \in Seq(Group)
  OBVIOUS
<1>2. Number(<<g>>) = Longer(Number(<<>>), g) /\ Number(<<>>) = 0
  BY <1>1, NumberSteps
<1>3. Digits(<<g>>) = Digits(<<>>) + g.len /\ Digits(<<>>) = 0
  BY <1>1, DigitsSteps
<1>4. g.len \in Nat /\ g.num \in Nat /\ Ten[g.len] \in Nat
  BY TenIs DEF Group
<1>5. Longer(0, g) = g.num
  BY <1>4 DEF Longer
<1> QED BY <1>1, <1>2, <1>3, <1>4, <1>5

\* A single element of a sequence.
LEMMA OnePlace ==
  ASSUME NEW C, NEW s \in Seq(C), NEW i \in 1..Len(s)
  PROVE  SubSeq(s, i, i) = <<s[i]>> /\ s[i] \in C
<1>1. s[i] \in C /\ i \in Int /\ \A k \in i..i : s[k] \in C
  OBVIOUS
<1>2. /\ SubSeq(s, i, i) \in Seq(C) /\ Len(SubSeq(s, i, i)) = IF i <= i THEN i - i + 1 ELSE 0
      /\ \A k \in 1..(i - i + 1) : SubSeq(s, i, i)[k] = s[i + k - 1]
  BY <1>1, SubSeqProperties
<1>3. Len(SubSeq(s, i, i)) = 1 /\ SubSeq(s, i, i)[1] = s[i]
  BY <1>1, <1>2
<1>4. <<s[i]>> \in Seq(C) /\ Len(<<s[i]>>) = 1 /\ <<s[i]>>[1] = s[i]
  BY <1>1
<1>5. \A k \in 1..Len(SubSeq(s, i, i)) : SubSeq(s, i, i)[k] = <<s[i]>>[k]
  BY <1>3, <1>4
<1>6. SubSeq(s, i, i) = <<s[i]>>
  BY <1>2, <1>3, <1>4, <1>5, SeqEqual
<1> QED BY <1>1, <1>6

\* Where the decimal characters are, and what is after the first of them.
Decimals(text) == {i \in DOMAIN text.seps : text.seps[i] = "decimal"}
Point(text) == CHOOSE i \in Decimals(text) : TRUE
Fraction(text) == SubSeq(text.groups, Point(text) + 1, Len(text.groups))

LEMMA ParseIs ==
  ASSUME NEW text
  PROVE  ParseAmount(text) =
           IF Digits(text.groups) = 0 THEN None
           ELSE IF Cardinality(Decimals(text)) = 1 /\ Digits(Fraction(text)) \in 1..2
                THEN 100 * Number(SubSeq(text.groups, 1, Point(text)))
                     + Number(Fraction(text)) * Ten[2 - Digits(Fraction(text))]
                ELSE 100 * Number(text.groups)
BY Zenon DEF ParseAmount, Decimals, Point, Fraction

\* A whole number as it is written, and one with two decimals.
WholeText(cents, sep) ==
  [groups |-> Grouped[cents \div 100],
   seps |-> [i \in 1..Len(Grouped[cents \div 100]) - 1 |-> sep]]
PointText(cents) ==
  [groups |-> Append(Grouped[cents \div 100], [num |-> cents % 100, len |-> 2]),
   seps |-> Append([i \in 1..Len(Grouped[cents \div 100]) - 1 |-> "thousands"], "decimal")]

LEMMA WholeAmount ==
  ASSUME NEW cents \in Nat, NEW sep \in {"thousands", "decimal"}, cents % 100 = 0
  PROVE  ParseAmount(WholeText(cents, sep)) = cents
<1> DEFINE w == cents \div 100
           G == Grouped[w]
           text == WholeText(cents, sep)
           n == Len(G)
<1>1. w \in Nat /\ 100 * w = cents
  OBVIOUS
<1>2. text = [groups |-> G, seps |-> [i \in 1..n - 1 |-> sep]]
  BY DEF WholeText
<1>3. /\ G \in Seq(Group) /\ n >= 1 /\ n \in Nat /\ Number(G) = w /\ Digits(G) > 0 /\ Digits(G) \in Nat
      /\ \A i \in 2..n : G[i].len = 3
  <2>1. /\ G \in Seq(Group) /\ n >= 1 /\ Number(G) = w /\ Digits(G) > 0
        /\ \A i \in 2..n : G[i].len = 3
    BY <1>1, GroupsHold
  <2> HIDE DEF G
  <2>2. PICK r : (\A i \in 0..Len(G) : r[i] \in Nat) /\ Digits(G) = r[Len(G)]
    BY <2>1, DigitsFold
  <2>3. Len(G) \in 0..Len(G) /\ n \in Nat
    BY <2>1
  <2> QED BY <2>1, <2>2, <2>3
<1> DEFINE decimal == Decimals(text)
           point == Point(text)
           frac == Fraction(text)
<1> HIDE DEF w, G, n, text
<1>4. text.groups = G /\ text.seps = [i \in 1..n - 1 |-> sep]
  BY <1>2
<1>5. ~(Digits(G) = 0) /\ ~(Cardinality(decimal) = 1 /\ Digits(frac) \in 1..2) =>
        ParseAmount(text) = 100 * Number(G)
  BY <1>4, ParseIs
<1> HIDE DEF point, frac
<1>6. ~(Cardinality(decimal) = 1 /\ Digits(frac) \in 1..2)
  <2>1. CASE sep = "thousands"
    <3>1. decimal = {}
      BY <1>4, <2>1 DEF Decimals
    <3>2. Cardinality(decimal) = 0
      BY <3>1, FS_EmptySet
    <3> QED BY <3>2
  <2>2. CASE sep = "decimal"
    <3>1. decimal = 1..(n - 1)
      BY <1>3, <1>4, <2>2 DEF Decimals
    <3>2. Cardinality(decimal) = IF 1 > n - 1 THEN 0 ELSE (n - 1) - 1 + 1
      BY <1>3, <3>1, FS_Interval
    <3>3. CASE n = 2
      <4>1. decimal = {1}
        BY <3>1, <3>3
      <4>2. point = 1
        BY <4>1 DEF point, Point
      <4>3. frac = <<G[2]>> /\ G[2] \in Group /\ G[2].len = 3
        <5>1. 2 \in 1..Len(G) /\ 2 \in 2..n /\ Len(G) = 2
          BY <3>3 DEF n
        <5>2. SubSeq(G, 2, 2) = <<G[2]>> /\ G[2] \in Group
          BY <1>3, <5>1, OnePlace
        <5>3. frac = SubSeq(G, point + 1, Len(G))
          BY <1>4 DEF frac, Fraction, point
        <5>4. frac = SubSeq(G, 2, 2)
          BY <4>2, <5>1, <5>3
        <5> QED BY <1>3, <5>1, <5>2, <5>4
      <4>4. Digits(frac) = 3
        BY <4>3, LoneGroup
      <4> QED BY <4>4
    <3>4. CASE n # 2
      BY <1>3, <3>2, <3>4
    <3> QED BY <3>3, <3>4
  <2> QED BY <2>1, <2>2
<1>7. ParseAmount(text) = 100 * Number(G)
  BY <1>3, <1>5, <1>6
<1> QED BY <1>1, <1>3, <1>7 DEF text

LEMMA BrokenAmount ==
  ASSUME NEW cents \in Nat
  PROVE  ParseAmount(PointText(cents)) = cents
<1> DEFINE w == cents \div 100
           G == Grouped[w]
           last == [num |-> cents % 100, len |-> 2]
           all == Append(G, last)
           text == PointText(cents)
           n == Len(G)
           seps == [i \in 1..n - 1 |-> "thousands"]
<1>1. w \in Nat /\ 100 * w + (cents % 100) = cents /\ cents % 100 \in Nat
  OBVIOUS
<1>2. text = [groups |-> all, seps |-> Append(seps, "decimal")]
  BY DEF PointText
<1>3. G \in Seq(Group) /\ n >= 1 /\ n \in Nat /\ Number(G) = w
  <2>1. G \in Seq(Group) /\ n >= 1 /\ Number(G) = w
    BY <1>1, GroupsHold
  <2> HIDE DEF G
  <2> QED BY <2>1
<1>4. last \in Group /\ last.num = cents % 100 /\ last.len = 2
  BY <1>1 DEF Group
<1> DEFINE decimal == Decimals(text)
           point == Point(text)
           frac == Fraction(text)
           dots == Append(seps, "decimal")
<1>5. /\ seps \in Seq({"thousands", "decimal"}) /\ Len(seps) = n - 1
      /\ \A i \in 1..n - 1 : seps[i] = "thousands"
  <2> HIDE DEF n
  <2> QED BY <1>3
<1> HIDE DEF w, G, n, text, last, all, seps
<1>6. /\ dots \in Seq({"thousands", "decimal"}) /\ Len(dots) = n /\ dots[n] = "decimal"
      /\ \A i \in 1..n - 1 : dots[i] = "thousands"
  BY <1>3, <1>5, AppendProperties
<1>7. /\ all \in Seq(Group) /\ Len(all) = n + 1 /\ all[n + 1] = last
      /\ \A i \in 1..n : all[i] = G[i]
  BY <1>3, <1>4, AppendProperties DEF all, n
<1>8. text.groups = all /\ text.seps = dots
  BY <1>2
<1> HIDE DEF dots
<1>9. decimal = {n}
  <2>1. DOMAIN dots = 1..n
    BY <1>6
  <2>2. \A i \in 1..n : dots[i] = "decimal" <=> i = n
    <3> SUFFICES ASSUME NEW i \in 1..n PROVE dots[i] = "decimal" <=> i = n
      OBVIOUS
    <3>1. i # n => i \in 1..n - 1
      BY <1>3
    <3> QED BY <1>6, <3>1
  <2>3. n \in 1..n
    BY <1>3
  <2> QED BY <1>8, <2>1, <2>2, <2>3 DEF Decimals
<1>10. Cardinality(decimal) = 1 /\ point = n
  BY <1>9, FS_Singleton DEF Point
<1>11. frac = <<last>>
  <2>1. n + 1 \in 1..Len(all)
    BY <1>3, <1>7
  <2>2. SubSeq(all, n + 1, n + 1) = <<all[n + 1]>>
    BY <1>7, <2>1, OnePlace
  <2>3. frac = SubSeq(all, point + 1, Len(all))
    BY <1>8 DEF Fraction
  <2> HIDE DEF frac, point
  <2> QED BY <1>7, <1>10, <2>2, <2>3
<1>12. SubSeq(all, 1, point) = G
  <2>1. SubSeq(all, 1, n) \in Seq(Group) /\ Len(SubSeq(all, 1, n)) = n
        /\ \A i \in 1..n : SubSeq(all, 1, n)[i] = all[i]
    BY <1>3, <1>7
  <2>2. SubSeq(all, 1, n) = G
    BY <1>3, <1>7, <2>1, SeqEqual DEF n
  <2> QED BY <1>10, <2>2
<1>13. Digits(frac) = 2 /\ Number(frac) = cents % 100
  BY <1>4, <1>11, LoneGroup
<1>14. Digits(all) # 0
  <2>1. Digits(all) = Digits(G) + last.len /\ Digits(G) \in Nat
    BY <1>3, <1>4, DigitsSteps DEF all
  <2> QED BY <1>4, <2>1
<1>15. ~(Digits(all) = 0) /\ Cardinality(decimal) = 1 /\ Digits(frac) \in 1..2 =>
        ParseAmount(text) =
          100 * Number(SubSeq(all, 1, point)) + Number(frac) * Ten[2 - Digits(frac)]
  BY <1>8, ParseIs
<1> HIDE DEF decimal, point, frac
<1>16. ParseAmount(text) = 100 * Number(G) + Number(frac) * Ten[2 - Digits(frac)]
  <2>1. Digits(frac) \in 1..2
    BY <1>13
  <2> QED BY <1>10, <1>12, <1>14, <1>15, <2>1
<1>17. Ten[2 - Digits(frac)] = 1
  BY <1>13, TenIs
<1>18. Number(frac) * Ten[2 - Digits(frac)] = cents % 100
  BY <1>1, <1>13, <1>17
<1>19. ParseAmount(text) = 100 * w + (cents % 100)
  BY <1>3, <1>16, <1>18
<1>20. ParseAmount(text) = cents
  BY <1>1, <1>19
<1> QED BY <1>20 DEF text

\* Quotient and remainder.
LEMMA DivIs ==
  ASSUME NEW n \in Nat, NEW d \in Nat \ {0}
  PROVE  /\ n \div d \in Nat /\ n % d \in Nat /\ n % d < d /\ n = d * (n \div d) + (n % d)
         /\ \A q, r \in Nat : r < d /\ n = d * q + r => n \div d = q /\ n % d = r
<1>1. n \div d \in Nat /\ n % d \in Nat /\ n % d < d /\ n = d * (n \div d) + (n % d)
  OBVIOUS
<1>2. ASSUME NEW q \in Nat, NEW r \in Nat, r < d, n = d * q + r
      PROVE  n \div d = q /\ n % d = r
  <2> DEFINE a == n \div d
             b == n % d
  <2>1. a \in Nat /\ b \in Nat /\ b < d /\ d * a + b = d * q + r
    BY <1>1, <1>2
  <2> HIDE DEF a, b
  <2>2. \A x, y \in Nat : x < y => d * x \in Nat /\ d * y \in Nat /\ d * x + d <= d * y
    <3> SUFFICES ASSUME NEW x \in Nat, NEW y \in Nat, x < y
                 PROVE  d * x \in Nat /\ d * y \in Nat /\ d * x + d <= d * y
      OBVIOUS
    <3>1. y - (x + 1) \in Nat /\ d * (y - (x + 1)) \in Nat
      OBVIOUS
    <3>2. d * (y - (x + 1)) = d * y - (d * x + d)
      OBVIOUS
    <3> QED BY <3>1, <3>2
  <2>3. ~(a < q) /\ ~(q < a)
    BY <1>2, <2>1, <2>2
  <2>4. a = q
    BY <2>1, <2>3
  <2> QED BY <1>2, <2>1, <2>4 DEF a, b
<1> QED BY <1>1, <1>2

\* Rounding is off by at most half a hundredth, and leaves whole amounts as they are.
LEMMA RoundedIs ==
  ASSUME NEW value \in Nat, NEW parts \in Nat \ {0}
  PROVE  /\ Rounded(value, parts) \in Nat
         /\ 2 * Distance(parts * Rounded(value, parts), value) <= parts
         /\ value % (100 * parts) = 0 =>
              Rounded(value, parts) % 100 = 0 /\ parts * Rounded(value, parts) = value
<1> DEFINE q == value \div parts
           r == value % parts
<1>1. q \in Nat /\ r \in Nat /\ r < parts /\ value = parts * q + r
  BY DivIs
<1>2. Rounded(value, parts) = IF 2 * r > parts \/ (2 * r = parts /\ q % 2 = 1) THEN q + 1 ELSE q
  BY DEF Rounded
<1>3. ASSUME value % (100 * parts) = 0 PROVE r = 0 /\ q % 100 = 0
  <2> DEFINE k == value \div (100 * parts)
  <2>1. 100 * parts \in Nat \ {0}
    OBVIOUS
  <2>2. k \in Nat /\ value = (100 * parts) * k + 0
    <3> DEFINE d == 100 * parts
    <3> HIDE DEF d
    <3>0. d \in Nat \ {0} /\ value % d = 0
      BY <1>3, <2>1 DEF d
    <3>1. value = d * (value \div d) + (value % d) /\ value \div d \in Nat /\ value % d = 0
      BY <3>0, DivIs
    <3> QED BY <3>1 DEF d
  <2> HIDE DEF k
  <2>3. value = parts * (100 * k) + 0 /\ 100 * k \in Nat
    BY <2>2
  <2> DEFINE h == 100 * k
  <2>4. q = 100 * k /\ r = 0
    <3>1. h \in Nat /\ 0 < parts /\ value = parts * h + 0
      BY <2>3
    <3> HIDE DEF h
    <3>2. value \div parts = h /\ value % parts = 0
      BY <3>1, DivIs
    <3> QED BY <3>2 DEF h
  <2> HIDE DEF q, r
  <2> QED BY <2>2, <2>4
<1> HIDE DEF q, r
<1>4. parts * (q + 1) = parts * q + parts /\ parts * q \in Nat
  BY <1>1
<1> DEFINE base == parts * q
<1>5. CASE 2 * r > parts \/ (2 * r = parts /\ q % 2 = 1)
  <2>1. Rounded(value, parts) = q + 1 /\ parts * Rounded(value, parts) = base + parts
    BY <1>2, <1>4, <1>5
  <2>2. base \in Nat /\ value = base + r
    BY <1>1, <1>4
  <2> HIDE DEF base
  <2>3. 2 * Distance(base + parts, value) <= parts
    BY <1>1, <1>5, <2>2 DEF Distance
  <2>4. r # 0
    BY <1>1, <1>5
  <2> QED BY <1>1, <1>3, <2>1, <2>3, <2>4
<1>6. CASE ~(2 * r > parts \/ (2 * r = parts /\ q % 2 = 1))
  <2>1. Rounded(value, parts) = q /\ parts * Rounded(value, parts) = base
    BY <1>2, <1>6
  <2>2. base \in Nat /\ value = base + r
    BY <1>1, <1>4
  <2> HIDE DEF base
  <2>3. 2 * Distance(base, value) <= parts
    BY <1>1, <1>6, <2>2 DEF Distance
  <2>4. r = 0 => base = value
    BY <2>2
  <2> QED BY <1>1, <1>3, <2>1, <2>3, <2>4
<1> QED BY <1>5, <1>6

\* What an amount is written as is read as that amount, to the nearest hundredth.
LEMMA AmountHolds ==
  ASSUME NEW i, AmountInput(i)
  PROVE  2 * Distance(i.parts * ParseAmount(Written(i.value, i.parts, i.sep)), i.value) <= i.parts
<1> DEFINE value == i.value
           parts == i.parts
           sep == i.sep
           cents == Rounded(value, parts)
<1>1. /\ value \in Nat /\ parts \in Nat \ {0} /\ sep \in {"thousands", "decimal"}
      /\ sep = "thousands" \/ value % (100 * parts) = 0
  BY DEF AmountInput
<1> HIDE DEF value, parts, sep
<1>2. cents \in Nat /\ 2 * Distance(parts * cents, value) <= parts
      /\ (value % (100 * parts) = 0 => cents % 100 = 0)
  BY <1>1, RoundedIs
<1>3. Written(value, parts, sep) =
        IF value % (100 * parts) = 0 THEN WholeText(cents, sep)
        ELSE [groups |-> Append(Grouped[cents \div 100], [num |-> cents % 100, len |-> 2]),
              seps |-> Append([k \in 1..Len(Grouped[cents \div 100]) - 1 |-> sep], "decimal")]
  BY DEF Written, WholeText
<1> HIDE DEF cents
<1>4. CASE value % (100 * parts) = 0
  <2>1. ParseAmount(WholeText(cents, sep)) = cents
    BY <1>1, <1>2, <1>4, WholeAmount
  <2> QED BY <1>2, <1>3, <1>4, <2>1 DEF value, parts, sep
<1>5. CASE value % (100 * parts) # 0
  <2>1. Written(value, parts, sep) = PointText(cents)
    BY <1>1, <1>3, <1>5 DEF PointText
  <2>2. ParseAmount(PointText(cents)) = cents
    BY <1>2, BrokenAmount
  <2> QED BY <1>2, <2>1, <2>2 DEF value, parts, sep
<1> QED BY <1>4, <1>5

-----------------------------------------------------------------------------
(* The rules.                                                              *)

\* The output is what the rule makes of the input, which is well-formed.
ResultInv ==
  /\ WellFormed(input)
  /\ Done("flag") => output = FlagNew(input.ledger, input.news)
  /\ Done("basket") =>
       output = [match |-> ReceiptTotalMatch(input.ledger, input.totals, input.day, input.batch)]
  /\ Done("read") => output = Normalize(input.data, input.now)
  /\ Done("amount") => output = ParseAmount(Written(input.value, input.parts, input.sep))
  /\ Done("report") =>
       output = BuildReport(input.txns, Tag \cup {"none"}, Member, ForeignCurrency)
  /\ Done("question") =>
       \E total \in GrandTotals(input.txns, input.rates) :
         output = [total |-> total, summary |-> Summary(input.txns, Tag \cup {"none"})]
  /\ Done("balance") =>
       \E short \in SUBSET Frayed(input.debts) :
         output = [open |-> Totals(input.debts), net |-> NetToman(input.debts, short)]
  /\ Done("ledger") =>
       output = [view |-> Snapshot(input.rows, input.debts, input.today),
                 asked |-> [u \in Member |-> PendingForReminder(input.rows, u)]]
  /\ Done("limit") => output = Answers(input.times)
  /\ Done("split") => output = SplitText(input.text, DecideParts(input.text), input.answer)
  /\ Done("tags") => output = Reconcile(input.scores)

LEMMA ResultsAre == Spec => []ResultInv
<1>1. Init => ResultInv
  BY InputsAssumption DEF Init, ResultInv, Done
<1>2. ResultInv /\ [Next]_vars => ResultInv'
  <2> SUFFICES ASSUME ResultInv, [Next]_vars PROVE ResultInv'
    OBVIOUS
  <2>1. CASE UNCHANGED vars
    BY <2>1 DEF ResultInv, Done, vars
  <2>2. CASE Next
    <3>1. input' = input /\ output = None
      BY <2>2 DEF Next, Apply, Flag, Read, Amount, Report, Question, Balance, Ledger, Basket,
                  Limit, Split, Match
    <3>2. WellFormed(input')
      BY <3>1 DEF ResultInv
    <3> QED BY <2>2, <3>1, <3>2 DEF ResultInv, Done, Next, Apply, Flag, Read, Amount, Report,
                  Question, Balance, Ledger, Basket, Limit, Split, Match
  <2> QED BY <2>1, <2>2
<1> QED BY <1>1, <1>2, PTL DEF Spec

\* The result of a rule is of an input that is well-formed for it.
LEMMA InputsAre ==
  ASSUME ResultInv
  PROVE  /\ Done("flag") => FlagInput(input)
         /\ Done("basket") => BasketInput(input)
         /\ Done("read") => ReadInput(input)
         /\ Done("amount") => AmountInput(input)
         /\ Done("report") => ReportInput(input)
         /\ Done("question") => QuestionInput(input)
         /\ Done("balance") => BalanceInput(input)
         /\ Done("ledger") => LedgerInput(input)
         /\ Done("limit") => LimitInput(input)
         /\ Done("split") => SplitInput(input)
         /\ Done("tags") => TagsInput(input)
BY DEF ResultInv, WellFormed, Done, FlagInput, BasketInput, ReadInput, AmountInput, ReportInput,
       QuestionInput, BalanceInput, LedgerInput, LimitInput, SplitInput, TagsInput

\* No window lets more requests through than allowed, and none is refused while
\* there is room: for any limit, any window and any times (ratelimit.py:14-20).
THEOREM WindowCorrect == Spec => []WindowIsBounded
<1>1. ResultInv => WindowIsBounded
  <2> SUFFICES ASSUME ResultInv, Done("limit") PROVE WindowIsBounded
    BY DEF WindowIsBounded
  <2>1. LimitInput(input) /\ output = Answers(input.times)
    BY InputsAre DEF ResultInv
  <2>2. input.times \in Seq(Nat) /\ Steady(input.times)
    BY <2>1 DEF LimitInput, Steady
  <2> QED BY <2>1, <2>2, WindowHolds DEF WindowIsBounded, Counted
<1> QED BY <1>1, ResultsAre, PTL

\* An expense is put into another month only if that month is over, and not
\* before last year, on whatever photo it is (vision.py:282-285, 239-247).
THEOREM PeriodCorrect == Spec => []PeriodIsPast
<1>1. ResultInv => PeriodIsPast
  <2> SUFFICES ASSUME ResultInv, Done("read"), NEW n \in DOMAIN output.lines,
                      output.lines[n].period # None
               PROVE  LET month == output.lines[n].period
                      IN  month < input.now /\ Year(month) >= Year(input.now) - 1
    BY DEF PeriodIsPast
  <2>1. ReadInput(input) /\ output = Normalize(input.data, input.now)
    BY InputsAre DEF ResultInv
  <2>2. input.data \in PhotoRead /\ input.now \in Nat /\ input.now >= 12
    BY <2>1 DEF ReadInput
  <2>3. output.lines \in Seq(LineSet(input.data, input.now))
    BY <2>1, <2>2, ReadLines
  <2>4. PICK item \in ItemRead : output.lines[n] = Line(item, input.data, input.now)
    BY <2>3 DEF LineSet
  <2> QED BY <2>2, <2>4, LinePeriod
<1> QED BY <1>1, ResultsAre, PTL

\* Every spending of a photo has its line, in the order of the photo, or it is
\* counted among those cut off: for any limit and any photo (vision.py:294-309).
THEOREM SpendingCorrect == Spec => []SpendingIsKept
<1>1. ResultInv => SpendingIsKept
  <2> SUFFICES ASSUME ResultInv, Done("read"),
                      input.data.kind \notin {"unreadable", "not_financial"}
               PROVE  SpendingIsKept
    BY DEF SpendingIsKept
  <2>1. ReadInput(input) /\ output = Normalize(input.data, input.now)
    BY InputsAre DEF ResultInv
  <2>2. input.data \in PhotoRead
    BY <2>1 DEF ReadInput
  <2>3. /\ Len(output.lines) + output.dropped = Cardinality(Spent(input.data))
        /\ \A m \in Spent(input.data) : Count(Spent(input.data), m) <= Len(output.lines) =>
             output.lines[Count(Spent(input.data), m)] = Line(input.data.items[m], input.data, input.now)
    BY <2>1, <2>2, SpentHolds
  <2>4. \A m \in Spent(input.data) :
          Line(input.data.items[m], input.data, input.now).source = LineAmount(input.data.items[m])
    BY DEF Line
  <2> QED BY <2>3, <2>4 DEF SpendingIsKept, Spent, Count
<1> QED BY <1>1, ResultsAre, PTL

\* Whatever totals a receipt prints: no alarm when everything was read, and "ok"
\* only if nothing of weight is missing, or as much as discount and tax
\* (vision.py:328-364).
THEOREM TotalsCorrect == Spec => []TotalsTellTheTruth
<1>1. ResultInv => TotalsTellTheTruth
  <2> SUFFICES ASSUME ResultInv, Done("read"), input.data.kind = "receipt",
                      output.check \in {"ok", "mismatch"}
               PROVE  TotalsTellTheTruth
    BY DEF TotalsTellTheTruth
  <2> DEFINE data == input.data
             sum == Worth(data.items) + data.missed
  <2>1. ReadInput(input) /\ output = Normalize(data, input.now)
    BY InputsAre DEF ResultInv
  <2>2. /\ data \in PhotoRead /\ data.itemsTotal \in {None, sum}
        /\ data.payable \in {None, sum + data.tax - data.discount}
    BY <2>1 DEF ReadInput
  <2>3. sum \in Nat
    <3>1. data.items \in Seq(ItemRead) /\ data.missed \in Nat
      BY <2>2 DEF PhotoRead
    <3>2. PICK run : /\ \A i \in 0..Len(data.items) : run[i] \in Nat
                     /\ Worth(data.items) = run[Len(data.items)]
      BY <3>1, WorthFold
    <3>3. Len(data.items) \in 0..Len(data.items)
      BY <3>1
    <3> QED BY <3>1, <3>2, <3>3
  <2>4. output.lines \in Seq(LineSet(data, input.now)) /\ output.check = CheckTotals(output.lines, data)
    <3>1. PICK run : /\ \A i \in 0..Len(data.items) : run[i] \in Reading(data, input.now)
                     /\ NormalizeIs(data, input.now, run[Len(data.items)])
      BY <2>2, ReadFold
    <3>2. Len(data.items) \in 0..Len(data.items)
      BY <2>2 DEF PhotoRead
    <3>3. run[Len(data.items)] \in Reading(data, input.now)
      BY <3>1, <3>2
    <3> QED BY <2>1, <3>1, <3>3 DEF NormalizeIs, Reading
  <2> HIDE DEF sum
  <2>5. LET read == FoldLeft(LAMBDA n, l : n + l.source, 0, output.lines)
        IN  /\ read = sum => output.check = "ok"
            /\ output.check = "ok" =>
                 \/ 1000 * (sum - read) <= 3 * sum
                 \/ data.payable # None /\ Close(read, data.payable)
    BY ZenonT(60), <2>2, <2>3, <2>4, TotalsHold
  <2> QED BY <2>5 DEF TotalsTellTheTruth, sum
<1> QED BY <1>1, ResultsAre, PTL

\* Each suggestion gets the first of the tags that it resembles most, or it is
\* left to the admin; no tag is applied twice (tags.py:54-70).
THEOREM BestTagCorrect == Spec => []BestTagIsApplied
<1>1. ResultInv => BestTagIsApplied
  <2> SUFFICES ASSUME ResultInv, Done("tags") PROVE BestTagIsApplied
    BY DEF BestTagIsApplied
  <2> DEFINE suggested == input.scores
  <2>1. suggested \in Seq(Scores) /\ output = Reconcile(suggested)
    BY InputsAre DEF ResultInv, TagsInput, Scores, Score
  <2>2. MatchInv(output, Len(suggested), suggested)
    BY <2>1, MatchHolds
  <2>3. DOMAIN suggested = 1..Len(suggested) /\ DOMAIN output.matched = 1..Len(output.matched)
    BY <2>1, <2>2 DEF MatchInv, Matching
  <2>4. ASSUME NEW s \in DOMAIN suggested
        PROVE  LET scores == suggested[s]
               IN  IF \E i \in DOMAIN scores : Reaches(scores, i, Threshold)
                   THEN \E i \in DOMAIN scores : IsBest(scores, i) /\ Contains(output.matched, i)
                   ELSE Contains(output.unmatched, scores)
    <3> DEFINE scores == suggested[s]
               tag == BestTag(scores)
    <3>1. scores \in Scores
      BY <2>1
    <3>2. IF tag = 0 THEN Contains(output.unmatched, scores) ELSE Contains(output.matched, tag)
      BY <2>2, <2>3 DEF MatchInv
    <3>3. CASE \E i \in DOMAIN scores : Reaches(scores, i, Threshold)
      <4>1. tag \in DOMAIN scores /\ IsBest(scores, tag)
        BY <3>1, <3>3, BestTagIs
      <4>2. 0 \notin DOMAIN scores
        BY <3>1 DEF Scores
      <4>3. tag # 0
        BY <4>1, <4>2
      <4> HIDE DEF tag
      <4> QED BY <3>2, <3>3, <4>1, <4>3
    <3>4. CASE ~ \E i \in DOMAIN scores : Reaches(scores, i, Threshold)
      <4>1. tag = 0
        BY <3>1, <3>4, BestTagIs
      <4> HIDE DEF tag
      <4> QED BY <3>2, <3>4, <4>1
    <3> HIDE DEF tag
    <3> QED BY <3>3, <3>4
  <2> QED BY <2>2, <2>3, <2>4 DEF BestTagIsApplied, IsBest, Reaches, Beats, MatchInv
<1> QED BY <1>1, ResultsAre, PTL

\* For any tags, members, currencies and expenses: by category, by member and in
\* the lists the report adds up to the same total, less than a unit for each
\* transaction below the exact sum (reports.py:61-77, 199-212).
THEOREM ReportCorrect == Spec => []ReportAddsUp
<1>1. ResultInv => ReportAddsUp
  <2> SUFFICES ASSUME ResultInv, Done("report") PROVE ReportAddsUp
    BY DEF ReportAddsUp
  <2> DEFINE txns == input.txns
             cats == Tag \cup {"none"}
             local == {t \in txns : Local(t) /\ t.amount # None}
             exact == MapThenSumSet(LAMBDA t : IF t.currency = "toman" THEN 10 * t.amount ELSE t.amount,
                                    local)
             detail == [m \in Member |-> DetailTotal(txns, m)]
  <2>1. Expenses(txns) /\ output = BuildReport(txns, cats, Member, ForeignCurrency)
    BY InputsAre DEF ResultInv, ReportInput
  <2>2. /\ Total(output.category, cats) = output.total /\ Total(output.member, Member) = output.total
        /\ DetailTotal(txns, "all") = output.total /\ Total(detail, Member) = output.total
        /\ output.total = RialOf({t \in txns : Local(t)})
    BY <2>1, ReportParts
  <2>3. DOMAIN output.category = cats /\ DOMAIN output.member = Member /\ DOMAIN detail = Member
    BY <2>1 DEF BuildReport
  <2>4. local = Counting(txns) /\ IsFiniteSet(local)
    <3>1. local = Counting(txns) /\ local \in SUBSET txns
      BY DEF Counting
    <3> QED BY <2>1, <3>1, RialsAre
  <2>5. /\ output.total \in Int /\ Total(Exacts(local), local) \in Int /\ Cardinality(local) \in Nat
        /\ 100 * output.total <= Total(Exacts(local), local)
        /\ Total(Exacts(local), local) <= 100 * output.total + 999 * Cardinality(local)
        /\ \A t \in local : Exact(t) \in Nat
    <3> HIDE DEF local
    <3> QED BY <2>1, <2>2, <2>4, ReportLoss
  <2>6. exact = Total(Exacts(local), local)
    <3>1. IsFiniteSet(local) /\ \A t \in local : Exact(t) \in Int
      BY <2>4, <2>5
    <3> HIDE DEF local
    <3>2. exact = Total([t \in local |-> Exact(t)], local)
      BY <3>1, ExactSum
    <3> HIDE DEF exact
    <3> QED BY <3>2 DEF Exacts
  <2>7. local # {} => Cardinality(local) > 0
    <3> HIDE DEF local
    <3> QED BY <2>4, <2>5, FS_EmptySet
  <2>8. 100 * output.total <= exact
        /\ (local # {} => exact < 100 * output.total + 1000 * Cardinality(local))
    <3> HIDE DEF local, exact
    <3> QED BY <2>5, <2>6, <2>7
  <2> HIDE DEF exact, local, cats
  <2> QED BY ZenonT(60), <2>2, <2>3, <2>8 DEF ReportAddsUp, Total, exact, local
<1> QED BY <1>1, ResultsAre, PTL

\* What the assistant answers agrees with the report and the books: for any
\* expenses and rates, any debts, any ledger and any limits of what is shown
\* (tools.py:292-312, debts.py:164-186, ledger.py:83-160).
THEOREM AnswersCorrect == Spec => []AnswersAgree
<1>1. ResultInv => TotalsAgree
  <2> SUFFICES ASSUME ResultInv, Done("question") PROVE TotalsAgree
    BY DEF TotalsAgree
  <2> DEFINE report == BuildReport(input.txns, Tag \cup {"none"}, Member, ForeignCurrency)
  <2>1. /\ Expenses(input.txns) /\ Rates(input.rates)
        /\ output.total \in GrandTotals(input.txns, input.rates)
    BY InputsAre DEF ResultInv, QuestionInput, Rates
  <2>2. TotalAgrees(input.txns, input.rates, report, output.total)
    BY <2>1, QuestionHolds
  <2>3. \A c \in Tag \cup {"none"} : RialOf(FilterByCategory(input.txns, c, {})) >= report.category[c]
    BY <2>1, CategoryHolds
  <2> QED BY <2>2, <2>3 DEF TotalsAgree, TotalAgrees, Changed
<1>2. ResultInv => BalanceAgrees
  <2> DEFINE exact == 10 * (Rests(input.debts, "credit", "toman") - Rests(input.debts, "debt", "toman"))
                      + Rests(input.debts, "credit", "rial") - Rests(input.debts, "debt", "rial")
  <2> SUFFICES ASSUME ResultInv, Done("balance")
               PROVE  /\ \A k \in {"debt", "credit"}, c \in Currency :
                           Rests(input.debts, k, c)
                             = IF c \in DOMAIN output.open[k] THEN output.open[k][c] ELSE 0
                      /\ 1000 * output.net <= exact + 1000 * Cardinality(Broken(input.debts, "debt"))
                      /\ exact < 1000 * (output.net + 1 + Cardinality(Broken(input.debts, "credit")))
    BY DEF BalanceAgrees, Rests, Rest, Broken
  <2>1. PICK short \in SUBSET Frayed(input.debts) :
          /\ Debts(input.debts) /\ output.open = Totals(input.debts)
          /\ output.net = NetToman(input.debts, short)
    BY InputsAre DEF ResultInv, BalanceInput
  <2>2. \A k \in {"debt", "credit"}, c \in Currency :
          Rests(input.debts, k, c) = IF c \in DOMAIN output.open[k] THEN output.open[k][c] ELSE 0
    BY <2>1, OpenHolds
  <2>3. /\ 1000 * output.net <= exact + 1000 * Cardinality(Broken(input.debts, "debt"))
        /\ exact < 1000 * (output.net + 1 + Cardinality(Broken(input.debts, "credit")))
    BY <2>1, BalanceHolds
  <2> QED BY <2>2, <2>3
<1>3. ResultInv => PictureAgrees
  <2> DEFINE view == output.view
             done == {r \in input.rows : r.status = "confirmed" /\ r.day = input.today}
             owing == {d \in input.debts : d.amount # None /\ d.amount > d.paid}
  <2> SUFFICES ASSUME ResultInv, Done("ledger")
               PROVE  /\ Cardinality(view.today) + view.more = Cardinality(done)
                      /\ \A r \in done \ view.today : Cardinality(Above(view.today, r)) = MaxToday
                      /\ \A r \in UNION {output.asked[u] : u \in Member} :
                           ~r.complete => r \in view.drafts \/ Cardinality(Above(view.drafts, r)) = MaxDrafts
                      /\ \A d \in owing :
                           \/ d \in DOMAIN view.rests /\ view.rests[d] = d.amount - d.paid
                           \/ Cardinality(Above(DOMAIN view.rests, d)) = MaxDebts
    BY DEF PictureAgrees, Above
  <2>1. /\ input.rows \in SUBSET BookRow /\ Keyed(input.rows) /\ Debts(input.debts)
        /\ view = Snapshot(input.rows, input.debts, input.today)
        /\ output.asked = [u \in Member |-> PendingForReminder(input.rows, u)]
    BY InputsAre DEF ResultInv, LedgerInput
  <2>2. /\ view.today = Newest(done, MaxToday) /\ view.more = Cardinality(done \ view.today)
        /\ view.drafts = Newest(Drafts(input.rows), MaxDrafts)
        /\ DOMAIN view.rests = Newest(Listed(input.debts), MaxDebts)
        /\ \A d \in DOMAIN view.rests : view.rests[d] = Remaining(d)
    <3> HIDE DEF view
    <3> QED BY <2>1 DEF Snapshot, DoneToday
  <2>3. Rows(done) /\ Rows(Drafts(input.rows)) /\ Rows(Listed(input.debts))
    <3>1. \A rows, T : rows \in SUBSET T /\ Keyed(T) /\ (\A r \in T : r.id \in Nat) => Rows(rows)
      BY FS_Subset DEF Rows, Keyed
    <3>2. /\ done \in SUBSET input.rows /\ Drafts(input.rows) \in SUBSET input.rows
          /\ Listed(input.debts) \in SUBSET input.debts
      BY DEF Drafts, Listed
    <3>3. (\A r \in input.rows : r.id \in Nat) /\ (\A d \in input.debts : d.id \in Nat)
      BY <2>1 DEF BookRow, Debts, Debt
    <3>4. Keyed(input.debts)
      BY <2>1 DEF Debts
    <3> HIDE DEF done
    <3> QED BY <2>1, <3>1, <3>2, <3>3, <3>4
  <2>4. MaxToday \in Nat /\ MaxDrafts \in Nat /\ MaxDebts \in Nat
    BY LedgerViewAssumption
  <2>5. /\ Cardinality(view.today) + view.more = Cardinality(done)
        /\ \A r \in done \ view.today : Cardinality(Above(view.today, r)) = MaxToday
    <3> HIDE DEF done, view
    <3> QED BY <2>2, <2>3, <2>4, NewestHolds
  <2>6. ASSUME NEW u \in Member, NEW r \in output.asked[u], ~r.complete
        PROVE  r \in view.drafts \/ Cardinality(Above(view.drafts, r)) = MaxDrafts
    <3>1. r \in input.rows /\ r.status = "draft"
      BY <2>1, <2>6 DEF PendingForReminder, BookRow
    <3>2. r \in Drafts(input.rows)
      BY <3>1 DEF Drafts
    <3> DEFINE drafts == Drafts(input.rows)
    <3> HIDE DEF done, view, drafts
    <3>3. \A q \in drafts \ view.drafts : Cardinality(Above(view.drafts, q)) = MaxDrafts
      <4>1. Rows(drafts) /\ view.drafts = Newest(drafts, MaxDrafts)
        BY <2>2, <2>3 DEF drafts
      <4> DEFINE shown == Newest(drafts, MaxDrafts)
      <4>2. \A q \in drafts \ shown : Cardinality(Above(shown, q)) = MaxDrafts
        BY <2>4, <4>1, NewestHolds
      <4> QED BY <4>1, <4>2
    <3> QED BY <3>2, <3>3 DEF drafts
  <2>7. ASSUME NEW d \in owing
        PROVE  \/ d \in DOMAIN view.rests /\ view.rests[d] = d.amount - d.paid
               \/ Cardinality(Above(DOMAIN view.rests, d)) = MaxDebts
    <3>1. d \in input.debts /\ d.amount # None /\ d.amount > d.paid
      OBVIOUS
    <3>2. Remaining(d) = d.amount - d.paid
      BY <3>1 DEF Remaining
    <3>3. d \in Listed(input.debts)
      <4>1. d.amount \in Nat /\ d.paid \in Nat
        BY <2>1, <3>1 DEF Debts, Debt, OrNone
      <4>2. ~(Remaining(d) <= 0)
        BY <3>1, <3>2, <4>1
      <4> QED BY <3>1, <4>2 DEF Listed, StatusFor
    <3> DEFINE listed == Listed(input.debts)
               seen == DOMAIN view.rests
    <3> HIDE DEF done, view, listed, seen
    <3>4. \A q \in listed \ seen : Cardinality(Above(seen, q)) = MaxDebts
      <4>1. Rows(listed) /\ seen = Newest(listed, MaxDebts)
        BY <2>2, <2>3 DEF listed, seen
      <4> QED BY ZenonT(30), <2>4, <4>1, NewestHolds
    <3> QED BY <2>2, <3>2, <3>3, <3>4 DEF listed, seen
  <2> HIDE DEF done, view, owing
  <2> QED BY <2>5, <2>6, <2>7
<1> QED BY <1>1, <1>2, <1>3, ResultsAre, PTL DEF AnswersAgree

\* Whatever the rows, no double goes unnoticed and none is flagged in vain, and a
\* receipt as a whole is found among what was said before, but for rows dated the
\* day after their record at the edge of the window (duplicates.py:80-157).
THEOREM DoublesCorrect == Spec => []DoublesAreFound
<1>1. ResultInv => RowsAreFound
  <2> SUFFICES ASSUME ResultInv, Done("flag") PROVE RowsAreFound
    BY DEF RowsAreFound
  <2>1. FlagInput(input) /\ output = FlagNew(input.ledger, input.news)
    BY InputsAre DEF ResultInv
  <2>2. FlagsAre(output, input.ledger, input.news)
    BY <2>1, FlagNewHolds
  <2> QED BY <2>2 DEF RowsAreFound, FlagsAre
<1>2. ResultInv => ReceiptIsFound
  <2> SUFFICES ASSUME ResultInv, Done("basket") PROVE ReceiptIsFound
    BY DEF ReceiptIsFound
  <2>1. /\ BasketInput(input)
        /\ output.match = ReceiptTotalMatch(input.ledger, input.totals, input.day, input.batch)
    BY InputsAre DEF ResultInv
  <2> QED BY <2>1, ReceiptHolds DEF ReceiptIsFound
<1> QED BY <1>1, <1>2, ResultsAre, PTL DEF DoublesAreFound

\* A long message is cut into at most as many parts as decided; without a good
\* answer of the model nothing of it is lost, and with one not more than a fifth:
\* for any text, any answer and any limits (splitter.py:35-72).
THEOREM SplitCorrect == Spec => []SplitKeepsAll
<1>1. ResultInv => SplitKeepsAll
  <2> SUFFICES ASSUME ResultInv, Done("split"), DecideParts(input.text) > 0 PROVE SplitKeepsAll
    BY DEF SplitKeepsAll
  <2>1. SplitInput(input) /\ output = SplitText(input.text, DecideParts(input.text), input.answer)
    BY InputsAre DEF ResultInv
  <2>2. /\ Len(output) \in 1..DecideParts(input.text)
        /\ output # input.answer => FlattenSeq(output) = input.text
        /\ 10 * NormLen(FlattenSeq(output)) >= 8 * NormLen(input.text)
    BY <2>1, SplitHolds
  <2> QED BY <2>2 DEF SplitKeepsAll
<1> QED BY <1>1, ResultsAre, PTL

\* What a card shows of an amount is read back as that amount up to half a
\* hundredth: whatever its fraction, and however large it is (money.py:55-59, 75-98).
THEOREM AmountsCorrect == Spec => []AmountsRoundTrip
<1>1. ResultInv => AmountsRoundTrip
  <2> SUFFICES ASSUME ResultInv, Done("amount") PROVE AmountsRoundTrip
    BY DEF AmountsRoundTrip
  <2>1. AmountInput(input) /\ output = ParseAmount(Written(input.value, input.parts, input.sep))
    BY InputsAre DEF ResultInv
  <2> QED BY <2>1, AmountHolds DEF AmountsRoundTrip
<1> QED BY <1>1, ResultsAre, PTL
=============================================================================
