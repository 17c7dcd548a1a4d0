------------------------------ MODULE NatSets ------------------------------
(***************************************************************************)
(* Induction over the natural numbers, in a form that takes a set instead  *)
(* of a predicate.                                                         *)
(***************************************************************************)
EXTENDS Integers, WellFoundedInduction, TLAPS

(* Induction over the natural numbers, for the set S of those with some     *)
(* property.                                                                *)
LEMMA NatSet ==
  ASSUME NEW S, 0 \in S, \A n \in Nat : n \in S => n + 1 \in S
  PROVE  Nat \subseteq S
<1> DEFINE R == OpToRel(<, Nat)
           T == Nat \ S
<1> SUFFICES ASSUME T # {} PROVE FALSE
  OBVIOUS
<1>1. IsWellFoundedOn(R, Nat)
  BY NatLessThanWellFounded
<1>2. PICK x \in T : \A y \in T : ~(<<y, x>> \in R)
  <2> HIDE DEF R
  <2> QED
    BY <1>1, WFMin
<1>3. x \in Nat /\ x # 0 /\ (x - 1) + 1 = x
  OBVIOUS
<1>4. <<x - 1, x>> \in R /\ x - 1 \in Nat
  BY <1>3, SMT DEF OpToRel
<1>5. x - 1 \in S
  <2> HIDE DEF R
  <2> QED
    BY <1>2, <1>4
<1> QED
  BY <1>3, <1>4, <1>5
=============================================================================
