---------------------------- MODULE LeastNumber -----------------------------
(***************************************************************************)
(* Every set of numbers that is not empty has a least member: what stands  *)
(* in for induction in the proofs about sequences of any length.           *)
(***************************************************************************)
EXTENDS Integers, WellFoundedInduction, TLAPS

\* < on the natural numbers is well-founded.
LEMMA Least ==
  ASSUME NEW T \in SUBSET Nat, T # {}
  PROVE  \E n \in T : \A m \in T : n <= m
<1>1. PICK x \in T : \A y \in T : ~(<<y, x>> \in OpToRel(<, Nat))
  BY NatLessThanWellFounded, WFMin, Zenon
<1>2. \A y \in T : ~(y < x)
  <2> SUFFICES ASSUME NEW y \in T, y < x PROVE FALSE
    OBVIOUS
  <2>1. <<y, x>> \in OpToRel(<, Nat)
    BY Zenon DEF OpToRel
  <2> QED
    BY <1>1, <2>1, Zenon
<1> QED
  BY <1>2
=============================================================================
