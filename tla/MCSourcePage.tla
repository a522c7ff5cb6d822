---------------------------- MODULE MCSourcePage ----------------------------
(* The sources are interchangeable. *)
EXTENDS SourcePage, TLC

Symmetry == Permutations(Sources)
=============================================================================
