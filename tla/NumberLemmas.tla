---------------------------- MODULE NumberLemmas ----------------------------
(***************************************************************************)
(* Facts about natural numbers that the proofs of several components need: *)
(* the least-number principle, from which a proof gets induction over      *)
(* positions and pages, and the smallest and the largest element of a set  *)
(* of positions.                                                           *)
(***************************************************************************)
EXTENDS Integers, FiniteSetsExt, WellFoundedInduction, TLAPS

\* A non-empty set of natural numbers has a least element.
LEMMA LeastNatural ==
  ASSUME NEW T \in SUBSET Nat, T # {}
  PROVE  \E x \in T : \A y \in T : x <= y
<1> DEFINE R == OpToRel(<, Nat)
<1>1. IsWellFoundedOn(R, Nat)
  BY NatLessThanWellFounded
<1>2. PICK x \in T : \A y \in T : ~(<<y, x>> \in R)
  <2> HIDE DEF R
  <2> QED BY <1>1, WFMin
<1>3. \A y \in T : ~(y < x)
  BY <1>2 DEF OpToRel
<1> QED BY <1>3

\* What holds of 0 and passes from every number to the next holds of all: the
\* numbers it does not hold of are a set.
LEMMA NatInductionOnSets ==
  ASSUME NEW P \in SUBSET Nat, 0 \in P,
         \A n \in Nat : n \in P => n + 1 \in P
  PROVE  P = Nat
<1>1. ASSUME P # Nat PROVE FALSE
  <2>1. PICK m \in Nat \ P : \A y \in Nat \ P : m <= y
    BY <1>1, LeastNatural
  <2>2. m - 1 \in Nat /\ m - 1 \in P
    BY <2>1
  <2> QED BY <2>1, <2>2
<1> QED BY <1>1

\* The smallest element of a set of natural numbers.
LEMMA MinOfSet ==
  ASSUME NEW T \in SUBSET Nat, T # {}
  PROVE  Min(T) \in T /\ \A y \in T : Min(T) <= y
BY LeastNatural, Zenon DEF Min

\* The largest element of a set of positions.
LEMMA MaxOfSet ==
  ASSUME NEW n \in Nat, NEW T \in SUBSET (0..n), T # {}
  PROVE  Max(T) \in T /\ \A y \in T : y <= Max(T)
<1> DEFINE Up == {u \in Nat : \A y \in T : y <= u}
<1>1. n \in Up
  OBVIOUS
<1>2. PICK u \in Up : \A v \in Up : u <= v
  <2>1. Up \in SUBSET Nat /\ Up # {}
    BY <1>1
  <2> HIDE DEF Up
  <2> QED BY <2>1, LeastNatural
<1>3. u \in T
  <2>1. ASSUME u \notin T PROVE FALSE
    <3>1. PICK y \in T : TRUE
      OBVIOUS
    <3>2. u - 1 \in Nat
      BY <2>1, <3>1
    <3>3. u - 1 \in Up
      BY <2>1, <3>2
    <3> QED BY <1>2, <3>3
  <2> QED BY <2>1
<1>4. \E x \in T : \A y \in T : x >= y
  BY <1>3
<1>5. Max(T) \in T /\ \A y \in T : Max(T) >= y
  BY <1>4, Zenon DEF Max
<1> QED BY <1>5

\* The same for positions from 1 on, and for those up to a known one, which is how
\* a fold over a sequence takes them.
LEMMA MaxOfPositions ==
  ASSUME NEW n \in Nat, NEW s \in SUBSET (1..n), s # {}
  PROVE  Max(s) \in s /\ \A y \in s : y <= Max(s)
<1>1. s \in SUBSET (0..n)
  OBVIOUS
<1> QED BY <1>1, MaxOfSet

LEMMA MaxOfPrefix ==
  ASSUME NEW n \in Nat, NEW s \in SUBSET (1..n + 1), n + 1 \in s
  PROVE  Max(s) = n + 1 /\ s \ {Max(s)} \in SUBSET (1..n)
<1>1. Max(s) \in s /\ \A y \in s : y <= Max(s)
  <2>1. n + 1 \in Nat /\ s # {}
    OBVIOUS
  <2> QED BY <2>1, MaxOfPositions
<1>2. Max(s) \in 1..n + 1 /\ n + 1 <= Max(s)
  BY <1>1
<1>3. Max(s) = n + 1
  BY <1>2
<1>4. \A y \in s : y # n + 1 => y \in 1..n
  OBVIOUS
<1> QED BY <1>3, <1>4
=============================================================================
