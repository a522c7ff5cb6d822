---------------------------- MODULE MCPublishing -----------------------------
(* Instances of Publishing for TLC: a few requests of any kind at once.      *)
EXTENDS Publishing, TLC

\* Requests are interchangeable.  Sound for safety only.
AnyRequest == Permutations(Requests)
=============================================================================
