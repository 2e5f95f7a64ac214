----------------------------- MODULE MCCRDDiff -----------------------------
(* Values for model checking CRDDiff. *)
EXTENDS CRDDiff, TLC

Symmetric == Permutations(CRDs)
=============================================================================
