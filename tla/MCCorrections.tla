---------------------------- MODULE MCCorrections ----------------------------
(* Instances of Corrections for TLC.                                         *)
EXTENDS Corrections, TLC

Interchangeable ==
    Permutations(Users) \cup Permutations(Requests) \cup Permutations(Raised)
    \cup Permutations(Terms) \cup Permutations(Pairs)
=============================================================================
