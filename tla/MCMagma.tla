------------------------------- MODULE MCMagma -------------------------------
(***************************************************************************)
(* Magma with sessions that may buy the same offer at the same time.         *)
(***************************************************************************)
EXTENDS Magma, TLC

CONSTANTS s1, s2, o1, o2

SessionSymmetry == Permutations(Sessions)
OfferSymmetry == Permutations(Offers)
Symmetry == SessionSymmetry \cup OfferSymmetry

=============================================================================
