----------------------------- MODULE MCDrafting -----------------------------
(***************************************************************************)
(* Drafting with a few pages, an id no page has, and the limits of the brief *)
(* cut down from 20.                                                         *)
(***************************************************************************)
EXTENDS Drafting, TLC

CONSTANTS a, b, c, unknown

AtMostTwo ==
    {cites \in SUBSET (Ids \cup {unknown}) : Cardinality(cites) \in 1 .. 2}

Symmetry == Permutations(Ids)

=============================================================================
