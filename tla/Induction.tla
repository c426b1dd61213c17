----------------------------- MODULE Induction ------------------------------
(***************************************************************************)
(* Induction over the natural numbers, stated for sets so that every       *)
(* backend can use it: to show that P holds of all numbers, apply it to    *)
(* {n \in Nat : P(n)}.                                                     *)
(***************************************************************************)
EXTENDS Integers, WellFoundedInduction, TLAPS

\* Every nonempty set of natural numbers has a least element.
LEMMA LeastElement ==
  ASSUME NEW T, T \subseteq Nat, T # {}
  PROVE  \E n \in T : \A m \in T : n <= m
<1>. DEFINE R == OpToRel(<, Nat)
<1>1. IsWellFoundedOn(R, Nat)
  BY NatLessThanWellFounded
<1>2. \A m, n \in T : m < n => <<m, n>> \in R
  BY T \subseteq Nat DEF OpToRel
<1>. HIDE DEF R
<1>3. PICK n \in T : \A m \in T : ~(<<m, n>> \in R)
  BY <1>1, WFMin
<1>4. n \in Nat /\ \A m \in T : m \in Nat
  OBVIOUS
<1>5. \A m \in T : ~(m < n)
  BY <1>2, <1>3, Zenon
<1>. QED
  BY <1>4, <1>5

\* A set with 0 and with the successor of each of its numbers has them all.
LEMMA SetInduction ==
  ASSUME NEW S, 0 \in S, \A n \in Nat : n \in S => n + 1 \in S
  PROVE  \A n \in Nat : n \in S
<1>. SUFFICES ASSUME Nat \ S # {} PROVE FALSE
  OBVIOUS
<1>. DEFINE T == Nat \ S
<1>1. PICK n \in T : \A m \in T : n <= m
  BY LeastElement
<1>2. n # 0 /\ n - 1 \in Nat /\ n - 1 \notin T
  BY <1>1
<1>3. n - 1 \in S
  BY <1>2
<1>. QED
  BY <1>1, <1>2, <1>3
=============================================================================
