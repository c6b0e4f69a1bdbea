--------------------------- MODULE FoldInduction ---------------------------
(***************************************************************************)
(* What a fold computes: FoldLeft of the community modules is the last     *)
(* state of a run that applies the operation to one element after the      *)
(* other.  A module instantiates this one with an operation of its own and *)
(* then reasons about the run by induction on its length.                  *)
(***************************************************************************)
EXTENDS Integers, SequencesExt, WellFoundedInduction, TLAPS

CONSTANT Op(_, _)   \* the operation: the state so far, the next element

\* Induction over the naturals, for a set: there is no least number outside.
THEOREM SetInduction ==
  ASSUME NEW S \in SUBSET Nat, 0 \in S, \A n \in S : n + 1 \in S
  PROVE  S = Nat
  <1> DEFINE R == OpToRel(<, Nat)
  <1>1. \A x, y \in Nat : x < y => <<x, y>> \in R
    BY DEF OpToRel
  <1> HIDE DEF R
  <1>2. IsWellFoundedOn(R, Nat)
    BY NatLessThanWellFounded DEF R
  <1>3. SUFFICES ASSUME Nat \ S # {} PROVE FALSE
    OBVIOUS
  <1>4. PICK x \in Nat \ S : \A y \in Nat \ S : ~(<<y, x>> \in R)
    BY <1>2, <1>3, WFMin
  <1>5. x - 1 \in Nat
    OBVIOUS
  <1>6. <<x - 1, x>> \in R
    <2>1. x \in Nat /\ x - 1 < x
      OBVIOUS
    <2> QED
      BY <1>1, <1>5, <2>1
  <1> QED
    BY <1>4, <1>5, <1>6

\* The same up to a bound.
THEOREM IntervalInduction ==
  ASSUME NEW n \in Nat, NEW S, 0 \in S, \A k \in 1..n : k - 1 \in S => k \in S
  PROVE  \A k \in 0..n : k \in S
  <1> DEFINE T == {k \in Nat : k <= n => k \in S}
  <1>1. T \in SUBSET Nat /\ 0 \in T
    OBVIOUS
  <1>2. ASSUME NEW k \in T PROVE k + 1 \in T
    <2>1. k + 1 <= n => k + 1 \in 1..n /\ (k + 1) - 1 = k
      OBVIOUS
    <2> QED
      BY <2>1
  <1> HIDE DEF T
  <1>3. T = Nat
    BY <1>1, <1>2, SetInduction
  <1> QED
    BY <1>3 DEF T
-----------------------------------------------------------------------------
\* The function FoldLeft is defined by, over the sets of places of a sequence.
Iterates(base, s, m, h) ==
    h = [I \in SUBSET (1..m) |->
            IF I = {} THEN base ELSE Op(h[I \ {Max(I)}], s[Max(I)])]

LEMMA MaxIsLast ==
  ASSUME NEW m \in Nat \ {0}, NEW I \in SUBSET (1..m), m \in I
  PROVE  Max(I) = m
  <1>1. \A y \in I : m >= y
    OBVIOUS
  <1>2. \A x \in I : (\A y \in I : x >= y) => x = m
    OBVIOUS
  <1> QED
    BY <1>1, <1>2 DEF Max

LEMMA IteratesExist ==
  ASSUME NEW base, NEW s, NEW m \in Nat
  PROVE  \E h : Iterates(base, s, m, h)
  <1> DEFINE Good == {k \in Nat : \E h : Iterates(base, s, k, h)}
  <1>1. 0 \in Good
    <2> DEFINE h == [I \in SUBSET (1..0) |-> base]
    <2>1. \A I \in SUBSET (1..0) : I = {}
      OBVIOUS
    <2>2. Iterates(base, s, 0, h)
      BY <2>1 DEF Iterates
    <2> QED
      BY <2>2
  <1>2. ASSUME NEW k \in Good PROVE k + 1 \in Good
    <2>1. PICK h : Iterates(base, s, k, h)
      OBVIOUS
    <2> DEFINE n == k + 1
               next == [I \in SUBSET (1..n) |->
                           IF n \in I THEN Op(h[I \ {n}], s[n]) ELSE h[I]]
    <2>2. n \in Nat \ {0} /\ n - 1 = k
      OBVIOUS
    <2>3. ASSUME NEW I \in SUBSET (1..n)
          PROVE  next[I] = IF I = {} THEN base ELSE Op(next[I \ {Max(I)}], s[Max(I)])
      <3>1. CASE n \in I
        <4>1. Max(I) = n /\ I \ {n} \in SUBSET (1..n) /\ n \notin I \ {n}
          BY <2>2, <3>1, MaxIsLast
        <4> QED
          BY <3>1, <4>1
      <3>2. CASE n \notin I
        <4>1. I \in SUBSET (1..k)
          BY <2>2, <3>2
        <4>2. next[I] = h[I] /\ next[I \ {Max(I)}] = h[I \ {Max(I)}]
          BY <3>2
        <4>3. h[I] = IF I = {} THEN base ELSE Op(h[I \ {Max(I)}], s[Max(I)])
          BY <2>1, <4>1 DEF Iterates
        <4> QED
          BY <4>2, <4>3
      <3> QED
        BY <3>1, <3>2
    <2>4. Iterates(base, s, n, next)
      BY <2>3 DEF Iterates
    <2> QED
      BY <2>2, <2>4
  <1> HIDE DEF Good
  <1>3. Good = Nat
    <2>1. Good \in SUBSET Nat
      BY DEF Good
    <2> QED
      BY <1>1, <1>2, <2>1, SetInduction
  <1> QED
    BY <1>3 DEF Good

\* FoldLeft applies the operation to one element after the other.
Folded(base, s, n) == (CHOOSE h : Iterates(base, s, n, h))[1..n]
THEOREM FoldLeftIsFolded ==
  ASSUME NEW base, NEW s, NEW n \in Nat, DOMAIN s = 1..n
  PROVE  FoldLeft(Op, base, s) = Folded(base, s, n)
  BY DEF FoldLeft, MapThenFoldSet, Folded, Iterates

IsRun(run, base, s, n) ==
    /\ run[0] = base /\ run[n] = Folded(base, s, n)
    /\ \A k \in 1..n : run[k] = Op(run[k - 1], s[k])
THEOREM FoldedRuns ==
  ASSUME NEW base, NEW s, NEW n \in Nat
  PROVE  \E run : IsRun(run, base, s, n)
  <1> DEFINE h == CHOOSE f : Iterates(base, s, n, f)
             run == [k \in 0..n |-> h[1..k]]
  <1>1. Folded(base, s, n) = h[1..n]
    BY DEF Folded
  <1>2. Iterates(base, s, n, h)
    BY IteratesExist
  <1> HIDE DEF h
  <1>3. \A I \in SUBSET (1..n) :
            h[I] = IF I = {} THEN base ELSE Op(h[I \ {Max(I)}], s[Max(I)])
    BY <1>2 DEF Iterates
  <1>4. run[0] = base
    BY <1>3
  <1>5. ASSUME NEW k \in 1..n PROVE run[k] = Op(run[k - 1], s[k])
    <2>1. 1..k \in SUBSET (1..n) /\ 1..k # {} /\ (1..k) \ {k} = 1..(k - 1)
      OBVIOUS
    <2>2. Max(1..k) = k
      BY MaxIsLast
    <2>3. h[1..k] = Op(h[1..(k - 1)], s[k])
      BY <1>3, <2>1, <2>2
    <2>4. k \in 0..n /\ k - 1 \in 0..n
      OBVIOUS
    <2> QED
      BY <2>3, <2>4
  <1>6. run[n] = Folded(base, s, n)
    BY <1>1
  <1> HIDE DEF run
  <1> QED
    BY <1>4, <1>5, <1>6 DEF IsRun

\* A fold ends in the last of the sets its steps lead through.
LEMMA FoldReaches ==
  ASSUME NEW base, NEW s, NEW n \in Nat, NEW S, base \in S[0],
         \A k \in 1..n : \A x \in S[k - 1] : Op(x, s[k]) \in S[k]
  PROVE  Folded(base, s, n) \in S[n]
  <1>1. PICK run : IsRun(run, base, s, n)
    BY FoldedRuns
  <1>2. /\ run[0] = base /\ run[n] = Folded(base, s, n)
        /\ \A k \in 1..n : run[k] = Op(run[k - 1], s[k])
    BY <1>1 DEF IsRun
  <1> DEFINE T == {k \in 0..n : run[k] \in S[k]}
  <1>3. 0 \in T
    BY <1>2
  <1>4. \A k \in 1..n : k - 1 \in T => k \in T
    <2> SUFFICES ASSUME NEW k \in 1..n, k - 1 \in T PROVE k \in T
      OBVIOUS
    <2>1. run[k - 1] \in S[k - 1] /\ k \in 0..n
      OBVIOUS
    <2>2. run[k] \in S[k]
      BY <1>2, <2>1
    <2> QED
      BY <2>1, <2>2
  <1> HIDE DEF T
  <1>5. \A k \in 0..n : k \in T
    BY <1>3, <1>4, IntervalInduction
  <1>6. n \in 0..n
    OBVIOUS
  <1> QED
    BY <1>2, <1>5, <1>6 DEF T

\* What every step of a fold keeps, the fold keeps.
LEMMA FoldStays ==
  ASSUME NEW base, NEW s, NEW n \in Nat, NEW S, base \in S,
         \A k \in 1..n : \A x \in S : Op(x, s[k]) \in S
  PROVE  Folded(base, s, n) \in S
  <1> DEFINE T == [k \in 0..n |-> S]
  <1>1. base \in T[0] /\ T[n] = S
    OBVIOUS
  <1>2. ASSUME NEW k \in 1..n, NEW x \in T[k - 1] PROVE Op(x, s[k]) \in T[k]
    <2>1. k \in 0..n /\ k - 1 \in 0..n
      OBVIOUS
    <2> QED
      BY <2>1
  <1> HIDE DEF T
  <1>3. Folded(base, s, n) \in T[n]
    BY <1>1, <1>2, FoldReaches
  <1> QED
    BY <1>1, <1>3
=============================================================================
