------------------------------- MODULE AnswerLog -----------------------------
(***************************************************************************)
(* What the version chain of an Investigation promises its readers: a log  *)
(* of Answers that only grows at its end, whose entries never change, each *)
(* numbered by its place, made after an entry that was already there, and  *)
(* a head that is always the last entry.                                   *)
(***************************************************************************)
EXTENDS Naturals, Sequences

CONSTANT Docs   \* the Answers that may be published

VARIABLES
    log,   \* the published versions
    head   \* the version shown by default, 0 before the first

Init ==
    /\ log = <<>>
    /\ head = 0

Publish(d) ==
    /\ \A i \in DOMAIN log : log[i].doc # d
    /\ \E f \in 0..Len(log) :
         log' = Append(log, [doc |-> d, version |-> Len(log) + 1, from |-> f])
    /\ head' = Len(log) + 1

Next == \E d \in Docs : Publish(d)

Spec == Init /\ [][Next]_<<log, head>>
=============================================================================
