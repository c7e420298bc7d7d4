------------------------------ MODULE FoldLemmas ------------------------------
(***************************************************************************)
(* What the proofs of several components need of numbers and of folds.  The *)
(* induction and fold theorems of the libraries take operators, which the   *)
(* provers cannot instantiate; these say the same of sets and functions.    *)
(***************************************************************************)
EXTENDS Integers, Sequences, SequencesExt, FiniteSetsExt, WellFoundedInduction, TLAPS

\* A set of naturals that is not empty has a least element.
LEMMA LeastExists ==
    ASSUME NEW S \in SUBSET Nat, S # {}
    PROVE  \E n \in S : \A k \in S : n <= k
<1> DEFINE R == {p \in Nat \X Nat : p[1] < p[2]}
<1>1. IsWellFoundedOn(R, Nat)
  BY NatLessThanWellFounded, Zenon DEF OpToRel
<1>2. ASSUME NEW n \in Nat, NEW k \in Nat, k < n PROVE <<k, n>> \in R
  BY <1>2
<1> HIDE DEF R
<1>3. PICK n \in S : \A k \in S : ~(<<k, n>> \in R)
  BY <1>1, WFMin, Zenon
<1>4. ASSUME NEW k \in S PROVE n <= k
  <2>1. ~(k < n)
    BY <1>2, <1>3
  <2>2. QED
    BY <2>1
<1>5. QED
  BY <1>4

\* The operator of the community modules that picks it
LEMMA MinOfSet ==
    ASSUME NEW S \in SUBSET Nat, S # {}
    PROVE  Min(S) \in S /\ \A k \in S : Min(S) <= k
<1>1. PICK n \in S : \A k \in S : n <= k
  BY LeastExists, Zenon
<1>2. QED
  BY <1>1 DEF Min

\* Induction over 0 .. n, said of a set.
LEMMA UpTo ==
    ASSUME NEW n \in Nat, NEW S, 0 \in S, \A k \in 1 .. n : k - 1 \in S => k \in S
    PROVE  \A k \in 0 .. n : k \in S
<1> DEFINE Wrong == {k \in 0 .. n : k \notin S}
<1>1. SUFFICES ASSUME Wrong # {} PROVE FALSE
  OBVIOUS
<1>2. PICK k \in Wrong : \A j \in Wrong : k <= j
  <2>1. Wrong \in SUBSET Nat
    OBVIOUS
  <2>2. QED
    BY <1>1, <2>1, LeastExists, Zenon
<1>3. k \in 1 .. n /\ k - 1 \in 0 .. n /\ k \notin S
  BY <1>2
<1>4. k - 1 \in S
  BY <1>2, <1>3
<1>5. QED
  BY <1>3, <1>4

\* The greatest of some of the first k positions
LEMMA GreatestIsLast ==
    ASSUME NEW k \in Nat \ {0}, NEW s \in SUBSET (1 .. k), k \in s
    PROVE  Max(s) = k /\ s \ {Max(s)} \in SUBSET (1 .. k - 1)
<1>1. \A j \in s : j \in Nat /\ k >= j
  OBVIOUS
<1>2. \A m \in s : m >= k => m = k
  BY <1>1
<1>3. Max(s) = k
  BY <1>1, <1>2 DEF Max
<1>4. \A j \in s \ {k} : j \in 1 .. k - 1
  OBVIOUS
<1>5. QED
  BY <1>3, <1>4

\* A set of such positions has a greatest, the operator of the community modules.
LEMMA MaxOfSet ==
    ASSUME NEW n \in Nat, NEW s \in SUBSET (1 .. n), s # {}
    PROVE  Max(s) \in s
<1> DEFINE Above == {k \in 0 .. n : \A j \in s : k >= j}
<1>1. n \in Above /\ Above \in SUBSET Nat
  OBVIOUS
<1>2. PICK k \in Above : \A j \in Above : k <= j
  <2> HIDE DEF Above
  <2>1. QED
    BY <1>1, LeastExists
<1>3. k \in s
  <2>1. SUFFICES ASSUME k \notin s PROVE FALSE
    OBVIOUS
  <2>2. k \in 1 .. n
    <3>1. PICK j \in s : TRUE
      OBVIOUS
    <3>2. QED
      BY <1>2, <3>1
  <2>3. \A j \in s : k - 1 >= j
    BY <1>2, <2>1
  <2>4. k - 1 \in Above
    BY <2>2, <2>3
  <2>5. QED
    BY <1>2, <2>2, <2>4
<1>4. QED
  BY <1>2, <1>3 DEF Max

LEMMA MaxOfInterval ==
    ASSUME NEW k \in Nat \ {0}
    PROVE  1 .. k # {} /\ Max(1 .. k) = k /\ (1 .. k) \ {k} = 1 .. k - 1
<1>1. k \in 1 .. k
  OBVIOUS
<1>2. QED
  BY <1>1, GreatestIsLast

\* What FoldLeft() chooses, for an op that is a function: what is folded of the positions
\* in s, the last one last.
Folds(iter, f, base, q, n) ==
    \A s \in SUBSET (1 .. n) :
        iter[s] = IF s = {} THEN base ELSE f[iter[s \ {Max(s)}], q[Max(s)]]

LEMMA FoldExists ==
    ASSUME NEW A, NEW D, NEW f \in [A \X D -> A], NEW base \in A, NEW q \in Seq(D)
    PROVE  \E iter \in [SUBSET (1 .. Len(q)) -> A] : Folds(iter, f, base, q, Len(q))
<1> DEFINE Done == {n \in 0 .. Len(q) : \E iter \in [SUBSET (1 .. n) -> A] : Folds(iter, f, base, q, n)}
<1>1. 0 \in Done
  <2>1. 1 .. 0 = {} /\ SUBSET {} = {{}}
    OBVIOUS
  <2>2. [s \in SUBSET (1 .. 0) |-> base] \in [SUBSET (1 .. 0) -> A]
    OBVIOUS
  <2>3. Folds([s \in SUBSET (1 .. 0) |-> base], f, base, q, 0)
    BY <2>1 DEF Folds
  <2>4. QED
    BY <2>2, <2>3
<1>2. ASSUME NEW n \in 1 .. Len(q), n - 1 \in Done PROVE n \in Done
  <2>1. PICK g \in [SUBSET (1 .. n - 1) -> A] : Folds(g, f, base, q, n - 1)
    BY <1>2
  <2> DEFINE iter == [s \in SUBSET (1 .. n) |-> IF n \in s THEN f[g[s \ {n}], q[n]] ELSE g[s]]
  <2>2. q[n] \in D
    OBVIOUS
  <2>3. ASSUME NEW s \in SUBSET (1 .. n)
        PROVE  s \ {n} \in SUBSET (1 .. n - 1) /\ (n \notin s => s \in SUBSET (1 .. n - 1))
    OBVIOUS
  <2>4. ASSUME NEW s \in SUBSET (1 .. n) PROVE iter[s] \in A
    <3>1. CASE n \in s
      <4>1. g[s \ {n}] \in A
        BY <2>1, <2>3
      <4>2. <<g[s \ {n}], q[n]>> \in A \X D
        BY <4>1, <2>2
      <4>3. QED
        BY <3>1, <4>2
    <3>2. CASE n \notin s
      BY <2>1, <2>3, <3>2
    <3>3. QED
      BY <3>1, <3>2
  <2>5. iter \in [SUBSET (1 .. n) -> A]
    BY <2>4
  <2>6. ASSUME NEW s \in SUBSET (1 .. n)
        PROVE  iter[s] = IF s = {} THEN base ELSE f[iter[s \ {Max(s)}], q[Max(s)]]
    <3>1. CASE n \in s
      <4>1. Max(s) = n
        BY <3>1, GreatestIsLast
      <4>2. iter[s \ {n}] = g[s \ {n}]
        OBVIOUS
      <4>3. QED
        BY <3>1, <4>1, <4>2
    <3>2. CASE n \notin s
      <4>1. s \in SUBSET (1 .. n - 1) /\ iter[s] = g[s]
        BY <2>3, <3>2
      <4>2. g[s] = IF s = {} THEN base ELSE f[g[s \ {Max(s)}], q[Max(s)]]
        BY <2>1, <4>1 DEF Folds
      <4>3. iter[s \ {Max(s)}] = g[s \ {Max(s)}]
        BY <3>2
      <4>4. QED
        BY <4>1, <4>2, <4>3
    <3>3. QED
      BY <3>1, <3>2
  <2>7. Folds(iter, f, base, q, n)
    BY <2>6 DEF Folds
  <2> HIDE DEF iter
  <2>8. n \in 0 .. Len(q) /\ \E h \in [SUBSET (1 .. n) -> A] : Folds(h, f, base, q, n)
    BY <2>5, <2>7
  <2>9. QED
    BY <2>8
<1>3. Len(q) \in Done
  <2>1. Len(q) \in Nat
    OBVIOUS
  <2> HIDE DEF Done
  <2>2. \A k \in 0 .. Len(q) : k \in Done
    BY <1>1, <1>2, <2>1, UpTo
  <2>3. QED
    BY <2>1, <2>2
<1>4. QED
  BY <1>3
=============================================================================
