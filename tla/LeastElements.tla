--------------------------- MODULE LeastElements ---------------------------
(***************************************************************************)
(* Every nonempty set of natural numbers has a least element, which is     *)
(* what Min of FiniteSetsExt chooses.  The proofs about a recursive        *)
(* function use it as induction: the least argument for which the claim    *)
(* fails.                                                                  *)
(***************************************************************************)
EXTENDS Integers, FiniteSetsExt, WellFoundedInduction, TLAPS

Smaller == {p \in Nat \X Nat : p[1] < p[2]}

LEMMA SmallerWellFounded == IsWellFoundedOn(Smaller, Nat)
  BY NatLessThanWellFounded DEF OpToRel, Smaller

LEMMA LeastNumber ==
  ASSUME NEW S \in SUBSET Nat, S # {}
  PROVE  \E least \in S : \A y \in S : least <= y
  <1>1. PICK least \in S : \A y \in S : <<y, least>> \notin Smaller
    BY SmallerWellFounded, WFMin
  <1>2. \A m, n \in Nat : m < n => <<m, n>> \in Smaller
    BY DEF Smaller
  <1>3. \A y \in S : least <= y
    <2> SUFFICES ASSUME NEW y \in S, ~(least <= y) PROVE FALSE
      OBVIOUS
    <2>1. least \in Nat /\ y \in Nat /\ y < least
      OBVIOUS
    <2>2. QED BY <1>1, <1>2, <2>1
  <1>4. QED BY <1>3

LEMMA LeastElement ==
  ASSUME NEW S \in SUBSET Nat, S # {}
  PROVE  Min(S) \in S
  BY LeastNumber DEF Min
=============================================================================
