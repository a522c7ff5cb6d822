---------------------------- MODULE MCMembership -----------------------------
(* Instances of Membership for TLC: a few requests of any kind at once.      *)
EXTENDS Membership, TLC

\* Requests, links, names and founders are interchangeable.
Interchangeable ==
    Permutations(Requests) \cup Permutations(Links)
    \cup Permutations(Names) \cup Permutations(Founders)
=============================================================================
