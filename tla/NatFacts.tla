------------------------------ MODULE NatFacts ------------------------------
(* Facts about smallest elements that the proofs of the queues and of the   *)
(* frame store share: a scan for the lowest index or the lowest order finds *)
(* one whenever there is anything to find.                                  *)
EXTENDS FiniteSetsExt, WellFoundedInduction, TLAPS

(* A nonempty set of naturals has a smallest element. *)
LEMMA MinExists ==
  ASSUME NEW S \in SUBSET Nat, S # {}
  PROVE  \E m \in S : \A k \in S : m <= k
<1> DEFINE R == OpToRel(<, Nat)
<1>1. IsWellFoundedOn(R, Nat)
  BY NatLessThanWellFounded
<1>2. PICK x \in S : \A y \in S : ~ (<<y, x>> \in R)
  <2> HIDE DEF R
  <2>1. QED
    BY <1>1, WFMin
<1>3. \A y \in S : ~(y < x)
  BY <1>2, Zenon DEF OpToRel
<1>4. QED
  BY <1>3

(* Min picks it. *)
LEMMA MinIsLeast ==
  ASSUME NEW S \in SUBSET Nat, S # {}
  PROVE  Min(S) \in S /\ \A k \in S : Min(S) <= k
  BY MinExists DEF Min
=============================================================================
