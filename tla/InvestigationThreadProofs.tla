----------------------- MODULE InvestigationThreadProofs ----------------------
(***************************************************************************)
(* Theorems about InvestigationThread, for every finite set of asks.       *)
(*                                                                         *)
(* VersionChain is not inductive: that a commit extends the chain depends  *)
(* on what the transaction read and locked before.  Transactions states    *)
(* it, Authors says whose answers the chain holds, and IInv, the           *)
(* conjunction of all four, is inductive.                                  *)
(*                                                                         *)
(* Story relates the turns to the chain on top of IInv: what the turns     *)
(* tell (TurnsTell), the order pglite saves in (Stamps, Queue), that the   *)
(* opener creates the row before anyone else reads (Opening), and what a   *)
(* correction in flight knows of the answer it replaces (CorrectionsWait). *)
(***************************************************************************)
EXTENDS InvestigationThread, SequenceTheorems, FiniteSetTheorems, WellFoundedInduction, TLAPS

-----------------------------------------------------------------------------
(* Induction over the naturals in a form that needs no operator parameter, *)
(* and the last row of a finite set of rows, which ORDER BY ... reversed   *)
(* and Math.max pick in the store's code.                                  *)

NatOrder == {p \in Nat \X Nat : p[1] < p[2]}

\* NatOrder is the order < of the library.
LEMMA NatOrderIsLess == NatOrder = OpToRel(<, Nat)
  BY Zenon DEF NatOrder, OpToRel

\* It has no infinite descent.
LEMMA NatOrderWellFounded == IsWellFoundedOn(NatOrder, Nat)
  BY NatOrderIsLess, NatLessThanWellFounded, Zenon

\* Every nonempty set of naturals has a least element.
THEOREM LeastNatural ==
  ASSUME NEW T, T \subseteq Nat, T # {}
  PROVE  \E m \in T : \A k \in T : m <= k
<1>1. PICK m \in T : \A k \in T : <<k, m>> \notin NatOrder
  BY NatOrderWellFounded, WFMin
<1>2. \A k \in T : ~(k < m)
  BY <1>1 DEF NatOrder
<1>q. QED
  BY <1>2

\* Induction: a set that holds 0 and the successor of each of its naturals
\* holds every natural.
THEOREM SetInduction ==
  ASSUME NEW P, 0 \in P, \A n \in Nat : n \in P => n + 1 \in P
  PROVE  Nat \subseteq P
<1> DEFINE T == Nat \ P
<1>1. SUFFICES ASSUME T # {} PROVE FALSE
  OBVIOUS
<1>2. PICK m \in T : \A k \in T : m <= k
  BY <1>1, LeastNatural
<1>3. m # 0 /\ m - 1 \in Nat /\ m - 1 \in P
  BY <1>2
<1>q. QED
  BY <1>2, <1>3

\* Of the rows S of a table with n rows, one comes last when they are sorted
\* by the key f, rows with equal keys staying in the order of their numbers.
THEOREM LastRowExists ==
  ASSUME NEW n \in Nat, NEW f, \A i \in 1..n : f[i] \in Nat,
         NEW S, S \subseteq 1..n, S # {}
  PROVE  \E i \in S : \A j \in S \ {i} : f[j] < f[i] \/ (f[j] = f[i] /\ j < i)
<1> DEFINE Last(i, R) == \A j \in R \ {i} : f[j] < f[i] \/ (f[j] = f[i] /\ j < i)
           P == {m \in Nat : m <= n =>
                   \A R \in SUBSET (1..m) : R # {} => \E i \in R : Last(i, R)}
<1>1. 0 \in P
  <2>1. 1..0 = {}
    OBVIOUS
  <2>q. QED
    BY <2>1
<1>2. ASSUME NEW m \in Nat, m \in P PROVE m + 1 \in P
  <2>1. SUFFICES ASSUME m + 1 <= n, NEW R \in SUBSET (1..(m + 1)), R # {}
                 PROVE  \E i \in R : Last(i, R)
    OBVIOUS
  <2>2. CASE m + 1 \notin R
    BY <2>1, <2>2, <1>2
  <2>3. CASE R = {m + 1}
    BY <2>3
  <2>4. CASE m + 1 \in R /\ R # {m + 1}
    <3> DEFINE Q == R \ {m + 1}
    <3>1. PICK i \in Q : Last(i, Q)
      <4>1. Q \in SUBSET (1..m) /\ Q # {}
        BY <2>1, <2>4
      <4>2. m <= n
        BY <2>1
      <4> HIDE DEF Q, Last
      <4>q. QED
        BY <4>1, <4>2, <1>2
    <3>2. f[i] \in Nat /\ f[m + 1] \in Nat /\ i < m + 1
      BY <2>1
    <3>3. CASE f[i] <= f[m + 1]
      <4>1. ASSUME NEW j \in R \ {m + 1}
            PROVE  f[j] < f[m + 1] \/ (f[j] = f[m + 1] /\ j < m + 1)
        BY <4>1, <3>1, <3>2, <3>3, <2>1
      <4>q. QED
        BY <4>1, <2>4
    <3>4. CASE f[m + 1] < f[i]
      BY <3>1, <3>4
    <3>q. QED
      BY <3>2, <3>3, <3>4
  <2>q. QED
    BY <2>2, <2>3, <2>4
<1>3. n \in P
  BY <1>1, <1>2, SetInduction
<1>q. QED
  BY <1>3

-----------------------------------------------------------------------------
(* The inductive invariant.                                                *)

\* What an open transaction knows about the committed chain: it read a prefix
\* of it; if nothing was committed since, it holds the head it has to demote;
\* and the one transaction past its INSERT saw the whole chain.
Transactions ==
    /\ \A a \in Asks : pc[a] \in Open => base[a] <= Len(answers)
    /\ \A a \in Asks : pc[a] = "insert" /\ base[a] = Len(answers)
                         => LatestRows \subseteq demoted[a]
    /\ \A a \in Asks : pc[a] = "commit"
                         => base[a] = Len(answers) /\ LatestRows \subseteq demoted[a]
    /\ \A a, b \in Asks : pc[a] = "commit" /\ pc[b] = "commit" => a = b

\* Who wrote the chain: asks that are done, each once, from what was there.
Authors ==
    /\ \A a \in Asks : from[a] <= Len(answers)
    /\ \A i \in DOMAIN answers : pc[answers[i].ask] = "saved"
    /\ \A i, j \in DOMAIN answers : answers[i].ask = answers[j].ask => i = j

IInv == TypeOK /\ VersionChain /\ Transactions /\ Authors

-----------------------------------------------------------------------------
(* What the queries return on a well-formed chain.                         *)

\* Math.max over 1..n is n.
LEMMA GreatestOfPrefix ==
  ASSUME NEW n \in Nat
  PROVE  (CHOOSE m \in {0} \cup (1..n) : \A v \in 1..n : v <= m) = n
<1>1. n \in {0} \cup (1..n) /\ \A v \in 1..n : v <= n
  OBVIOUS
<1>2. ASSUME NEW m \in {0} \cup (1..n), \A v \in 1..n : v <= m
      PROVE  m = n
  BY <1>2
<1>q. QED
  BY <1>1, <1>2

\* On a well-formed chain the queries return its length and its last row.
LEMMA ChainQueries ==
  ASSUME answers \in Seq(AnswerRow), VersionChain
  PROVE  /\ Len(answers) \in Nat
         /\ DOMAIN answers = 1..Len(answers)
         /\ Versions = 1..Len(answers)
         /\ MaxVersion = Len(answers)
         /\ \A i : i \in LatestRows <=> i \in 1..Len(answers) /\ i = Len(answers)
<1>1. Len(answers) \in Nat /\ DOMAIN answers = 1..Len(answers)
  OBVIOUS
<1>2. Versions = 1..Len(answers)
  BY <1>1 DEF Versions, VersionChain
<1>3. MaxVersion = Len(answers)
  BY <1>1, <1>2, GreatestOfPrefix DEF MaxVersion
<1>4. \A i : i \in LatestRows <=> i \in DOMAIN answers /\ i = Len(answers)
  BY Zenon DEF VersionChain, LatestRows
<1>q. QED
  BY <1>1, <1>2, <1>3, <1>4

\* The question a rerun repeats was some ask's.
LEMMA LastQuestionType ==
  ASSUME turns \in Seq(TurnRow), LastQuestion # None
  PROVE  LastQuestion \in Asks
<1> DEFINE n == Len(turns)
           at == [i \in 1..n |-> turns[i].at]
<1>1. n \in Nat /\ DOMAIN turns = 1..n /\ \A i \in 1..n : turns[i] \in TurnRow
  OBVIOUS
<1>2. \A i \in 1..n : at[i] \in Nat /\ at[i] = turns[i].at /\ turns[i].ask \in Asks
  BY <1>1 DEF TurnRow
<1>3. UserTurns \subseteq 1..n /\ UserTurns # {}
  BY <1>1 DEF UserTurns, LastQuestion
<1>4. PICK i \in UserTurns :
        \A j \in UserTurns \ {i} : at[j] < at[i] \/ (at[j] = at[i] /\ j < i)
  <2> HIDE DEF at
  <2>q. QED
    BY <1>1, <1>2, <1>3, LastRowExists
<1>5. \A j \in UserTurns \ {i} : Before(j, i)
  BY <1>2, <1>3, <1>4 DEF Before
<1>6. LastOf(UserTurns) \in UserTurns
  BY <1>5 DEF LastOf
<1>q. QED
  BY <1>2, <1>3, <1>6 DEF LastQuestion

\* How many asks have concluded is a number.
LEMMA ConcludedIsNat == Cardinality({b \in Asks : stamp[b] > 0}) \in Nat
  BY AsksAssumption, FS_Subset, FS_CardinalityType

-----------------------------------------------------------------------------
(* What a commit leaves behind.                                            *)

\* Demoting a row changes its flag alone.
LEMMA DemoteRow ==
  ASSUME NEW r \in AnswerRow
  PROVE  LET d == [r EXCEPT !.latest = FALSE] IN
         /\ d \in AnswerRow
         /\ d.ask = r.ask /\ d.version = r.version /\ d.from = r.from
         /\ ~d.latest
  BY DEF AnswerRow

\* The rows after a demotion: as many, in the same order, with the same
\* documents, heads no longer where they were demoted.
LEMMA DemoteRows ==
  ASSUME answers \in Seq(AnswerRow), NEW rows
  PROVE  /\ Demote(rows) \in Seq(AnswerRow)
         /\ Len(Demote(rows)) = Len(answers)
         /\ DOMAIN Demote(rows) = DOMAIN answers
         /\ \A i \in DOMAIN answers :
              /\ Demote(rows)[i].ask = answers[i].ask
              /\ Demote(rows)[i].version = answers[i].version
              /\ Demote(rows)[i].from = answers[i].from
              /\ Demote(rows)[i].latest <=> answers[i].latest /\ i \notin rows
<1>1. \A i \in DOMAIN answers : answers[i] \in AnswerRow
  OBVIOUS
<1>2. DOMAIN answers = 1..Len(answers) /\ Len(answers) \in Nat
  OBVIOUS
<1>3. DOMAIN Demote(rows) = DOMAIN answers
  BY DEF Demote
<1>4. \A i \in DOMAIN answers :
        Demote(rows)[i] = IF i \in rows THEN [answers[i] EXCEPT !.latest = FALSE] ELSE answers[i]
  BY Zenon DEF Demote
<1>5. \A i \in DOMAIN answers : Demote(rows)[i] \in AnswerRow
  BY Zenon, <1>1, <1>4, DemoteRow
<1>6. Demote(rows) \in Seq(AnswerRow) /\ Len(Demote(rows)) = Len(answers)
  <2>1. Demote(rows) = [i \in 1..Len(answers) |-> Demote(rows)[i]]
    BY <1>2 DEF Demote
  <2>q. QED
    BY <1>2, <1>3, <1>5, <2>1
<1>7. \A i \in DOMAIN answers :
        /\ Demote(rows)[i].ask = answers[i].ask
        /\ Demote(rows)[i].version = answers[i].version
        /\ Demote(rows)[i].from = answers[i].from
        /\ Demote(rows)[i].latest <=> answers[i].latest /\ i \notin rows
  <2> TAKE i \in DOMAIN answers
  <2>1. CASE i \in rows
    <3>1. Demote(rows)[i] = [answers[i] EXCEPT !.latest = FALSE]
      BY <1>4, <2>1, Zenon
    <3>q. QED
      BY <1>1, <2>1, <3>1, DemoteRow, Zenon
  <2>2. CASE i \notin rows
    BY <1>4, <2>2, Zenon
  <2>q. QED
    BY <2>1, <2>2
<1>q. QED
  BY <1>3, <1>6, <1>7

\* A save appends turns.
LEMMA NewTurnsType ==
  ASSUME TypeOK, NEW a \in Asks
  PROVE  NewTurns(a) \in Seq(TurnRow)
<1> DEFINE reply == [role |-> "agent", ask |-> a, version |-> base[a] + 1, at |-> stamp[a]]
           asked == [role |-> "user", ask |-> a, version |-> 0, at |-> stamp[a]]
<1>1. reply \in TurnRow /\ asked \in TurnRow
  BY DEF TypeOK, TurnRow
<1>2. NewTurns(a) = IF kind[a] \in Reruns THEN <<reply>> ELSE <<asked, reply>>
  BY DEF NewTurns
<1> HIDE DEF reply, asked
<1>3. <<reply>> \in Seq(TurnRow) /\ <<asked, reply>> \in Seq(TurnRow)
  BY <1>1
<1>q. QED
  BY <1>2, <1>3

-----------------------------------------------------------------------------
(* The invariant holds initially and every step keeps it.                  *)

\* An investigation nobody has asked about yet is in order.
LEMMA InitIInv == Init => IInv
<1> SUFFICES ASSUME Init PROVE IInv
  OBVIOUS
<1>1. TypeOK
  <2>1. db \in Databases /\ exists \in BOOLEAN
    BY DEF Init, Databases
  <2>2. answers \in Seq(AnswerRow) /\ turns \in Seq(TurnRow)
    BY DEF Init
  <2>3. kind \in [Asks -> Kinds] /\ pc \in [Asks -> Stages]
    BY DEF Init, Kinds, Stages
  <2>4. /\ question \in [Asks -> Asks]
        /\ expect \in [Asks -> Nat]
        /\ from \in [Asks -> Nat]
        /\ stamp \in [Asks -> Nat]
        /\ base \in [Asks -> Nat]
        /\ demoted \in [Asks -> SUBSET Nat]
    BY DEF Init
  <2>q. QED
    BY <2>1, <2>2, <2>3, <2>4 DEF TypeOK
<1>2. VersionChain /\ Transactions /\ Authors
  BY DEF Init, VersionChain, Transactions, Authors, Open
<1>q. QED
  BY <1>1, <1>2 DEF IInv

\* Every action keeps the types.
LEMMA TypeOKStep == IInv /\ [Next]_vars => TypeOK'
<1> SUFFICES ASSUME IInv, [Next]_vars PROVE TypeOK'
  OBVIOUS
<1> USE DEF TypeOK
<1>0. /\ TypeOK
      /\ Versions \subseteq Nat
      /\ MaxVersion \in Nat
      /\ LatestRows \subseteq Nat
  BY ChainQueries DEF IInv
<1>1. ASSUME NEW a \in Asks, Start(a) PROVE TypeOK'
  <2>1. kind' \in [Asks -> Kinds] /\ expect' \in [Asks -> Nat] /\ pc' \in [Asks -> Stages]
    BY <1>0, <1>1 DEF Start, Move, Kinds, Stages, Reading
  <2>q. QED
    BY <1>0, <1>1, <2>1 DEF Start, threadVars, txVars
<1>2. ASSUME NEW a \in Asks, Precheck(a) PROVE TypeOK'
  BY <1>0, <1>2 DEF Precheck, Move, Stages, Reading, Ended, threadVars, txVars
<1>3. ASSUME NEW a \in Asks, ReadInv(a) PROVE TypeOK'
  BY <1>0, <1>3 DEF ReadInv, Move, Stages, Reading, Ended, threadVars, txVars
<1>4. ASSUME NEW a \in Asks, ReadTurns(a) PROVE TypeOK'
  <2>1. question' \in [Asks -> Asks]
    BY <1>0, <1>4, LastQuestionType DEF ReadTurns
  <2>q. QED
    BY <1>0, <1>4, <2>1 DEF ReadTurns, Move, Stages, Reading, threadVars, txVars
<1>5. ASSUME NEW a \in Asks, ReadAnswers(a) PROVE TypeOK'
  BY <1>0, <1>5 DEF ReadAnswers, Move, Stages, threadVars, txVars
<1>6. ASSUME NEW a \in Asks, Stop(a) PROVE TypeOK'
  BY <1>0, <1>6 DEF Stop, Move, Stages, Ended, threadVars, txVars
<1>7. ASSUME NEW a \in Asks, Finish(a) PROVE TypeOK'
  BY <1>0, <1>7, ConcludedIsNat DEF Finish, Move, Stages, threadVars, txVars
<1>8. ASSUME NEW a \in Asks, Create(a) PROVE TypeOK'
  BY <1>0, <1>8 DEF Create, Move, Stages, txVars
<1>9. ASSUME NEW a \in Asks, TxRead(a) PROVE TypeOK'
  BY <1>0, <1>9 DEF TxRead, Move, Stages, Open, Ended, threadVars
<1>10. ASSUME NEW a \in Asks, TxDemote(a) PROVE TypeOK'
  BY <1>0, <1>10 DEF TxDemote, Move, Stages, Open, threadVars
<1>11. ASSUME NEW a \in Asks, TxInsert(a) PROVE TypeOK'
  BY <1>0, <1>11 DEF TxInsert, Move, Stages, Open, Ended, threadVars
<1>12. ASSUME NEW a \in Asks, TxCommit(a) PROVE TypeOK'
  <2>1. answers' \in Seq(AnswerRow)
    <3>1. Demote(demoted[a]) \in Seq(AnswerRow)
      BY <1>0, DemoteRows
    <3>2. NewHead(a) \in AnswerRow
      BY <1>0 DEF NewHead, AnswerRow
    <3>q. QED
      BY <1>12, <3>1, <3>2 DEF TxCommit
  <2>2. turns' \in Seq(TurnRow)
    <3>1. NewTurns(a) \in Seq(TurnRow)
      BY <1>0, NewTurnsType
    <3>q. QED
      BY <1>0, <1>12, <3>1 DEF TxCommit
  <2>q. QED
    BY <1>0, <1>12, <2>1, <2>2 DEF TxCommit, Move, Stages, Ended
<1>13. ASSUME NEW a \in Asks, TxFail(a) PROVE TypeOK'
  BY <1>0, <1>13 DEF TxFail, Move, Stages, Ended, threadVars
<1>14. CASE Crash
  BY <1>0, <1>14 DEF Crash, Stages, Ended, threadVars
<1>15. CASE UNCHANGED vars
  BY <1>0, <1>15 DEF vars, threadVars, askVars, txVars
<1>q. QED
  BY <1>1, <1>2, <1>3, <1>4, <1>5, <1>6, <1>7, <1>8, <1>9, <1>10, <1>11,
     <1>12, <1>13, <1>14, <1>15 DEF Next, Read, Run, Save

\* Only a commit touches the answers.
LEMMA OnlyCommitWrites ==
  [Next]_vars => answers' = answers \/ \E a \in Asks : TxCommit(a)
<1> USE DEF threadVars
<1>1. ASSUME NEW a \in Asks, Start(a) \/ Read(a) \/ Run(a) \/ TxFail(a)
      PROVE  answers' = answers
  BY <1>1, Zenon DEF Start, Read, Precheck, ReadInv, ReadTurns, ReadAnswers, Run, Finish,
               Stop, TxFail
<1>2. ASSUME NEW a \in Asks, Save(a)
      PROVE  answers' = answers \/ TxCommit(a)
  BY <1>2, Zenon DEF Save, Create, TxRead, TxDemote, TxInsert
<1>3. Crash \/ UNCHANGED vars => answers' = answers
  BY Zenon DEF Crash, vars
<1>q. QED
  BY <1>1, <1>2, <1>3, Zenon DEF Next

\* The row a save inserts.
LEMMA NewHeadFields ==
  ASSUME NEW a
  PROVE  /\ NewHead(a).ask = a /\ NewHead(a).version = base[a] + 1
         /\ NewHead(a).from = from[a] /\ NewHead(a).latest
  BY DEF NewHead

\* A step moves one ask, which was not done; only a crash moves more.
LEMMA StepMovesOne ==
  [Next]_vars =>
    \/ UNCHANGED pc
    \/ \E a \in Asks : pc[a] \notin Ended /\ \E s : pc' = [pc EXCEPT ![a] = s]
    \/ pc' = [a \in Asks |-> IF InFlight(a) THEN "lost" ELSE pc[a]]
<1> USE DEF Move, Ended
<1>1. ASSUME NEW a \in Asks, Start(a) \/ Read(a) \/ Run(a)
      PROVE  pc[a] \notin Ended /\ \E s : pc' = [pc EXCEPT ![a] = s]
  BY <1>1 DEF Start, Read, Precheck, ReadInv, ReadTurns, ReadAnswers, Run, Finish, Stop
<1>2. ASSUME NEW a \in Asks, Save(a)
      PROVE  pc[a] \notin Ended /\ \E s : pc' = [pc EXCEPT ![a] = s]
  BY <1>2 DEF Save, Create, TxRead, TxDemote, TxInsert, TxCommit
<1>3. ASSUME NEW a \in Asks, TxFail(a)
      PROVE  pc[a] \notin Ended /\ \E s : pc' = [pc EXCEPT ![a] = s]
  BY <1>3 DEF TxFail, Open
<1>4. Crash => pc' = [a \in Asks |-> IF InFlight(a) THEN "lost" ELSE pc[a]]
  BY DEF Crash
<1>5. UNCHANGED vars => UNCHANGED pc
  BY DEF vars, askVars
<1>q. QED
  BY <1>1, <1>2, <1>3, <1>4, <1>5 DEF Next

\* A commit puts the new head, numbered next, behind the rows there were, and
\* none of those is a head any more.
LEMMA CommitExtends ==
  ASSUME IInv, NEW a \in Asks, TxCommit(a)
  PROVE  /\ base[a] = Len(answers)
         /\ Len(answers') = Len(answers) + 1
         /\ answers'[Len(answers) + 1] = NewHead(a)
         /\ \A i \in 1..Len(answers) :
              /\ answers'[i].ask = answers[i].ask
              /\ answers'[i].version = answers[i].version
              /\ answers'[i].from = answers[i].from
              /\ ~answers'[i].latest
<1> DEFINE d == Demote(demoted[a])
<1>1. answers' = Append(d, NewHead(a)) /\ pc[a] = "commit"
  BY DEF TxCommit
<1>2. base[a] = Len(answers) /\ LatestRows \subseteq demoted[a]
  BY <1>1 DEF IInv, Transactions
<1>3. answers \in Seq(AnswerRow)
  BY DEF IInv, TypeOK
<1>4. /\ d \in Seq(AnswerRow) /\ Len(d) = Len(answers)
      /\ Len(answers) \in Nat /\ DOMAIN answers = 1..Len(answers)
  BY <1>3, DemoteRows
<1>5. \A i \in DOMAIN answers :
        /\ d[i].ask = answers[i].ask
        /\ d[i].version = answers[i].version
        /\ d[i].from = answers[i].from
        /\ ~d[i].latest
  <2>1. \A i \in DOMAIN answers : answers[i].latest => i \in demoted[a]
    BY <1>2, Zenon DEF LatestRows
  <2>2. \A i \in DOMAIN answers :
          /\ d[i].ask = answers[i].ask
          /\ d[i].version = answers[i].version
          /\ d[i].from = answers[i].from
          /\ d[i].latest <=> answers[i].latest /\ i \notin demoted[a]
    BY <1>3, DemoteRows, Zenon
  <2>q. QED
    BY <2>1, <2>2, Zenon
<1> HIDE DEF d
<1>6. /\ Len(answers') = Len(d) + 1
      /\ answers'[Len(d) + 1] = NewHead(a)
      /\ \A i \in 1..Len(d) : answers'[i] = d[i]
  BY <1>1, <1>4
<1>7. \A i \in 1..Len(answers) : answers'[i] = d[i] /\ i \in DOMAIN answers
  BY <1>4, <1>6
<1>8. Len(answers') = Len(answers) + 1 /\ answers'[Len(answers) + 1] = NewHead(a)
  BY <1>4, <1>6
<1>9. \A i \in 1..Len(answers) :
              /\ answers'[i].ask = answers[i].ask
              /\ answers'[i].version = answers[i].version
              /\ answers'[i].from = answers[i].from
              /\ ~answers'[i].latest
  BY <1>5, <1>7, Zenon
<1>q. QED
  BY <1>2, <1>8, <1>9
 
\* The chain stays 1..n with its head at the end.
LEMMA ChainStep == IInv /\ [Next]_vars => VersionChain'
<1> SUFFICES ASSUME IInv, [Next]_vars PROVE VersionChain'
  OBVIOUS
<1>1. CASE answers' = answers
  BY <1>1, Zenon DEF IInv, VersionChain
<1>2. ASSUME NEW a \in Asks, TxCommit(a) PROVE VersionChain'
  <2>1. answers \in Seq(AnswerRow) /\ (answers \in Seq(AnswerRow))' /\ base[a] \in Nat
    BY TypeOKStep DEF IInv, TypeOK
  <2>2. Len(answers) \in Nat /\ DOMAIN answers = 1..Len(answers)
    BY <2>1
  <2>3. DOMAIN answers' = 1..(Len(answers) + 1)
    BY <1>2, <2>1, CommitExtends
  <2>4. ASSUME NEW i \in 1..Len(answers)
        PROVE  answers'[i].version = i /\ (answers'[i].latest <=> i = Len(answers'))
    <3>1. answers[i].version = i
      BY <2>2, Zenon DEF IInv, VersionChain
    <3>2. i # Len(answers')
      BY <1>2, <2>2, CommitExtends
    <3>3. answers'[i].version = i /\ ~answers'[i].latest
      BY <1>2, <3>1, CommitExtends, Zenon
    <3>q. QED
      BY <3>2, <3>3, Zenon
  <2>5. ASSUME NEW i, i = Len(answers) + 1
        PROVE answers'[i].version = i /\ answers'[i].latest /\ i = Len(answers')
    <3>1. answers'[i] = NewHead(a) /\ base[a] + 1 = i /\ i = Len(answers')
      BY <1>2, <2>5, CommitExtends
    <3>q. QED
      BY <3>1, NewHeadFields, Zenon
  <2>6. \A i \in DOMAIN answers' : i \in 1..Len(answers) \/ i = Len(answers) + 1
    BY <2>2, <2>3
  <2>7. ASSUME NEW i \in DOMAIN answers'
        PROVE  answers'[i].version = i /\ (answers'[i].latest <=> i = Len(answers'))
    BY <2>4, <2>5, <2>6, Zenon
  <2>q. QED
    BY <2>7, Zenon DEF VersionChain
<1>q. QED
  BY <1>1, <1>2, OnlyCommitWrites

\* The chain is by asks that are done, and no ask has read past its end.
LEMMA AuthorsStep == IInv /\ [Next]_vars => Authors'
<1> SUFFICES ASSUME IInv, [Next]_vars PROVE Authors'
  OBVIOUS
<1>0. /\ TypeOK /\ VersionChain /\ Authors
      /\ MaxVersion = Len(answers) /\ Len(answers) \in Nat
      /\ DOMAIN answers = 1..Len(answers)
  BY ChainQueries DEF IInv, TypeOK
<1>1. CASE answers' = answers
  <2>1. \A b \in Asks : from'[b] = from[b] \/ from'[b] = MaxVersion
    BY <1>0
       DEF TypeOK, Next, vars, threadVars, askVars, txVars, Start, Read, Precheck, ReadInv,
           ReadTurns, ReadAnswers, Run, Finish, Stop, Save, Create, TxRead, TxDemote,
           TxInsert, TxCommit, TxFail, Crash
  <2>2. \A b \in Asks : pc[b] = "saved" => pc'[b] = "saved"
    BY <1>0, StepMovesOne DEF TypeOK, InFlight, Ended
  <2>3. \A i \in DOMAIN answers : answers[i].ask \in Asks
    <3>1. \A i \in DOMAIN answers : answers[i] \in AnswerRow
      BY <1>0 DEF TypeOK
    <3>q. QED
      BY <3>1 DEF AnswerRow
  <2>q. QED
    BY <1>0, <1>1, <2>1, <2>2, <2>3 DEF Authors
<1>2. ASSUME NEW a \in Asks, TxCommit(a) PROVE Authors'
  <2>1. /\ from' = from /\ pc' = [pc EXCEPT ![a] = "saved"] /\ pc[a] = "commit"
    BY <1>2 DEF TxCommit, Move
  <2>2. \A b \in Asks : from[b] \in Nat
    BY <1>0 DEF TypeOK
  <2>3. DOMAIN answers' = 1..(Len(answers) + 1) /\ Len(answers') = Len(answers) + 1
    <3>1. (answers \in Seq(AnswerRow))'
      BY TypeOKStep DEF TypeOK
    <3>q. QED
      BY <1>2, <3>1, CommitExtends
  <2>4. answers'[Len(answers) + 1].ask = a
    BY <1>2, CommitExtends, NewHeadFields, Zenon
  <2>5. \A i \in 1..Len(answers) : answers'[i].ask = answers[i].ask
    BY <1>2, CommitExtends, Zenon
  <2>6. \A i \in 1..Len(answers) :
          answers[i].ask \in Asks /\ pc[answers[i].ask] = "saved" /\ answers[i].ask # a
    <3>1. \A i \in 1..Len(answers) : answers[i] \in AnswerRow
      BY <1>0 DEF TypeOK
    <3>q. QED
      BY <1>0, <2>1, <3>1 DEF AnswerRow, Authors
  <2>7. pc \in [Asks -> Stages]
    BY <1>0 DEF TypeOK
  <2>8. (\A b \in Asks : from[b] <= Len(answers))'
    BY <1>0, <2>1, <2>2, <2>3 DEF Authors
  <2>9. (\A i \in DOMAIN answers : pc[answers[i].ask] = "saved")'
    BY <1>0, <2>1, <2>3, <2>4, <2>5, <2>6, <2>7
  <2>10. \A i, j \in 1..Len(answers) : answers[i].ask = answers[j].ask => i = j
    BY <1>0 DEF Authors
  <2>11. (\A i, j \in DOMAIN answers : answers[i].ask = answers[j].ask => i = j)'
    BY <1>0, <2>3, <2>4, <2>5, <2>6, <2>10
  <2>q. QED
    BY <2>8, <2>9, <2>11 DEF Authors
<1>q. QED
  BY <1>1, <1>2, OnlyCommitWrites

\* What open transactions know stays true of them.
LEMMA TransactionsStep == IInv /\ [Next]_vars => Transactions'
<1> SUFFICES ASSUME IInv, [Next]_vars PROVE Transactions'
  OBVIOUS
<1>0. /\ TypeOK /\ VersionChain /\ Transactions
      /\ MaxVersion = Len(answers) /\ Versions = 1..Len(answers)
      /\ Len(answers) \in Nat
      /\ LatestRows \subseteq Nat
  BY ChainQueries DEF IInv, TypeOK
<1> USE DEF TypeOK, Open
<1>1. ASSUME answers' = answers PROVE LatestRows' = LatestRows
  BY <1>1, Zenon DEF LatestRows
<1>2. ASSUME NEW a \in Asks, Start(a) \/ Read(a) \/ Run(a) \/ Create(a) PROVE Transactions'
  <2>1. answers' = answers /\ base' = base /\ demoted' = demoted
    BY <1>2, Zenon DEF Start, Read, Precheck, ReadInv, ReadTurns, ReadAnswers, Run, Finish,
       Stop, Create, threadVars, txVars
  <2>2. \A b \in Asks : pc'[b] \in Open => pc[b] = pc'[b]
    BY <1>0, <1>2 DEF Start, Read, Precheck, ReadInv, ReadTurns, ReadAnswers, Run, Finish,
       Stop, Create, Move
  <2>q. QED
    BY <1>0, <1>1, <2>1, <2>2 DEF Transactions
<1>3. ASSUME NEW a \in Asks, TxRead(a) PROVE Transactions'
  <2>1. answers' = answers /\ demoted' = demoted /\ base' = [base EXCEPT ![a] = MaxVersion]
    BY <1>3 DEF TxRead, threadVars
  <2>2. /\ \A b \in Asks \ {a} : pc'[b] = pc[b]
        /\ pc'[a] \in {"failed", "demote", "insert"}
        /\ pc'[a] = "insert" => LatestRows = {}
    BY <1>0, <1>3 DEF TxRead, Move
  <2>3. base'[a] = Len(answers) /\ \A b \in Asks \ {a} : base'[b] = base[b]
    BY <1>0, <2>1
  <2>4. (\A b \in Asks : pc[b] \in Open => base[b] <= Len(answers))'
    BY <1>0, <2>1, <2>2, <2>3 DEF Transactions
  <2>5. (\A b \in Asks : pc[b] = "insert" /\ base[b] = Len(answers)
                            => LatestRows \subseteq demoted[b])'
    BY <1>0, <1>1, <2>1, <2>2, <2>3 DEF Transactions
  <2>6. (\A b \in Asks : pc[b] = "commit"
            => base[b] = Len(answers) /\ LatestRows \subseteq demoted[b])'
    BY <1>0, <1>1, <2>1, <2>2, <2>3 DEF Transactions
  <2>7. (\A b, c \in Asks : pc[b] = "commit" /\ pc[c] = "commit" => b = c)'
    BY <1>0, <2>2 DEF Transactions
  <2>q. QED
    BY <2>4, <2>5, <2>6, <2>7 DEF Transactions
<1>4. ASSUME NEW a \in Asks, TxDemote(a) PROVE Transactions'
  <2>1. answers' = answers /\ base' = base /\ pc[a] = "demote"
    BY <1>4 DEF TxDemote, threadVars
  <2>2. /\ \A b \in Asks \ {a} : pc'[b] = pc[b] /\ demoted'[b] = demoted[b]
        /\ pc'[a] = "insert"
        /\ MaxVersion = base[a] => demoted'[a] = LatestRows
    BY <1>0, <1>4 DEF TxDemote, Move
  <2>q. QED
    BY <1>0, <1>1, <2>1, <2>2 DEF Transactions
<1>5. ASSUME NEW a \in Asks, TxInsert(a) PROVE Transactions'
  <2>1. answers' = answers /\ base' = base /\ pc[a] = "insert"
    BY <1>5 DEF TxInsert, threadVars
  <2>2. /\ \A b \in Asks \ {a} : pc'[b] = pc[b] /\ demoted'[b] = demoted[b]
        /\ pc'[a] \in {"failed", "commit"}
        /\ \A b \in Asks : pc[b] # "commit"
        /\ pc'[a] = "commit" => ~Conflicts(a) /\ demoted' = demoted
    BY <1>0, <1>5 DEF TxInsert, Move
  <2>3. ~Conflicts(a) => base[a] = Len(answers) /\ LatestRows \subseteq demoted[a]
    BY <1>0, <2>1 DEF Conflicts, Transactions
  <2>q. QED
    BY <1>0, <1>1, <2>1, <2>2, <2>3 DEF Transactions
<1>6. ASSUME NEW a \in Asks, TxCommit(a) PROVE Transactions'
  <2>1. Len(answers') = Len(answers) + 1
    BY <1>6, CommitExtends
  <2>2. base' = base /\ pc[a] = "commit" /\ pc'[a] = "saved"
    BY <1>0, <1>6 DEF TxCommit, Move
  <2>3. \A b \in Asks \ {a} : pc'[b] = pc[b] /\ pc[b] # "commit"
    BY <1>0, <1>6, <2>2 DEF TxCommit, Move, Transactions
  <2>4. \A b \in Asks :
          pc'[b] \in Open => /\ base'[b] <= Len(answers')
                             /\ base'[b] # Len(answers')
                             /\ pc'[b] # "commit"
    BY <1>0, <2>1, <2>2, <2>3 DEF Transactions
  <2>q. QED
    BY <2>4 DEF Transactions
<1>7. ASSUME NEW a \in Asks, TxFail(a) PROVE Transactions'
  <2>1. answers' = answers /\ base' = base
    BY <1>7 DEF TxFail, threadVars
  <2>2. /\ \A b \in Asks \ {a} : pc'[b] = pc[b] /\ demoted'[b] = demoted[b]
        /\ pc'[a] = "failed"
    BY <1>0, <1>7 DEF TxFail, Move
  <2>q. QED
    BY <1>0, <1>1, <2>1, <2>2 DEF Transactions
<1>8. CASE Crash
  <2>1. \A b \in Asks : pc'[b] \notin Open
    BY <1>0, <1>8 DEF Crash, InFlight, Ended
  <2>q. QED
    BY <2>1 DEF Transactions
<1>9. CASE UNCHANGED vars
  BY <1>0, <1>1, <1>9 DEF vars, threadVars, askVars, txVars, Transactions
<1>q. QED
  BY <1>2, <1>3, <1>4, <1>5, <1>6, <1>7, <1>8, <1>9 DEF Next, Save

-----------------------------------------------------------------------------
(* The theorems about the chain.                                           *)

\* Whatever interleaving of turns, faults and crashes saveAnswer meets, the
\* four parts of IInv hold together.
THEOREM Inductive == Spec => []IInv
<1>1. IInv /\ [Next]_vars => IInv'
  BY TypeOKStep, ChainStep, AuthorsStep, TransactionsStep DEF IInv
<1>q. QED
  BY InitIInv, <1>1, PTL DEF Spec

\* Every variable keeps its type, for every finite set of asks.
THEOREM TypeCorrect == Spec => []TypeOK
  BY Inductive, PTL DEF IInv

\* However many turns race to save, on either database, the versions are
\* 1..n and the head is the newest (saveAnswer and the two unique indexes).
THEOREM ChainHolds == Spec => []VersionChain
  BY Inductive, PTL DEF IInv

\* A unique index refuses a save only when another one overtook it.
THEOREM RefusalsAreEarned == Spec => []RefusedOnlyWhenOvertaken
<1>1. IInv => RefusedOnlyWhenOvertaken
  <2> SUFFICES ASSUME IInv, NEW a \in Asks, pc[a] = "insert", Conflicts(a)
               PROVE  MaxVersion > base[a]
    BY DEF RefusedOnlyWhenOvertaken
  <2>1. /\ TypeOK /\ Transactions
        /\ MaxVersion = Len(answers) /\ Versions = 1..Len(answers)
        /\ Len(answers) \in Nat /\ base[a] \in Nat
    BY ChainQueries DEF IInv, TypeOK
  <2>q. QED
    BY <2>1 DEF Transactions, Conflicts, Open
<1>q. QED
  BY Inductive, <1>1, PTL

\* The rows as the log reads them.
Published ==
    [i \in DOMAIN answers |-> [doc |-> answers[i].ask,
                              version |-> answers[i].version,
                              from |-> answers[i].from]]
Shown ==
    IF LatestRows = {} THEN 0
    ELSE answers[CHOOSE i \in LatestRows : TRUE].version

\* On a well-formed chain the head shown is the last version.
LEMMA ShownIsLast ==
  ASSUME answers \in Seq(AnswerRow), VersionChain
  PROVE  Shown = Len(answers)
<1>0. /\ Len(answers) \in Nat
      /\ \A i : i \in LatestRows <=> i \in 1..Len(answers) /\ i = Len(answers)
  BY ChainQueries
<1>1. CASE Len(answers) = 0
  BY <1>0, <1>1 DEF Shown
<1>2. CASE Len(answers) # 0
  <2>1. LatestRows = {Len(answers)} /\ Len(answers) \in DOMAIN answers
    BY <1>0, <1>2
  <2>2. answers[Len(answers)].version = Len(answers)
    BY <2>1 DEF VersionChain
  <2>q. QED
    BY <2>1, <2>2 DEF Shown
<1>q. QED
  BY <1>1, <1>2

\* Readers of the answers table see an append-only log: InvestigationThread
\* implements AnswerLog, a commit publishing one entry and every other step
\* leaving log and head as they were.
THEOREM ChainImplementsLog == Spec => AppendOnlyLog
<1>1. Init => Published = <<>> /\ Shown = 0
  BY DEF Init, Published, Shown, LatestRows
<1>2. ASSUME IInv, [Next]_vars, IInv'
      PROVE  \/ UNCHANGED <<Published, Shown>>
             \/ \E d \in Asks :
                  /\ \A i \in DOMAIN Published : Published[i].doc # d
                  /\ \E f \in 0..Len(Published) :
                       Published' = Append(Published,
                           [doc |-> d, version |-> Len(Published) + 1, from |-> f])
                  /\ Shown' = Len(Published) + 1
  <2>1. CASE answers' = answers
    BY <2>1 DEF Published, Shown, LatestRows
  <2>2. ASSUME NEW a \in Asks, TxCommit(a)
        PROVE  /\ \A i \in DOMAIN Published : Published[i].doc # a
               /\ \E f \in 0..Len(Published) :
                       Published' = Append(Published,
                           [doc |-> a, version |-> Len(Published) + 1, from |-> f])
               /\ Shown' = Len(Published) + 1
    <3>1. /\ answers \in Seq(AnswerRow) /\ answers' \in Seq(AnswerRow)
          /\ Len(answers) \in Nat
          /\ DOMAIN answers = 1..Len(answers)
          /\ DOMAIN answers' = 1..Len(answers')
          /\ Len(answers') = Len(answers) + 1
      BY <1>2, <2>2, CommitExtends DEF IInv, TypeOK
    <3> DEFINE n == Len(answers)
               e == [doc |-> a, version |-> n + 1, from |-> from[a]]
    <3>2. /\ n \in Nat
          /\ Published = [i \in 1..n |-> Published[i]]
          /\ Published' = [i \in 1..(n + 1) |-> Published'[i]]
      BY <3>1 DEF Published
    <3>3. Len(Published) = n /\ Published \in Seq({Published[i] : i \in 1..n})
      BY <3>2
    <3>4. \A i \in 1..n : Published'[i] = Published[i] /\ Published[i].doc = answers[i].ask
      <4>1. \A i \in 1..n : /\ answers'[i].ask = answers[i].ask
                             /\ answers'[i].version = answers[i].version
                             /\ answers'[i].from = answers[i].from
        BY <1>2, <2>2, CommitExtends, Zenon
      <4>q. QED
        BY <3>1, <4>1 DEF Published
    <3>5. Published'[n + 1] = e
      <4>1. /\ answers'[n + 1].ask = a /\ answers'[n + 1].version = n + 1
            /\ answers'[n + 1].from = from[a]
        BY <1>2, <2>2, CommitExtends, NewHeadFields
      <4>q. QED
        BY <3>1, <4>1 DEF Published
    <3>6. from[a] \in 0..n
      BY <1>2 DEF IInv, TypeOK, Authors
    <3>7. Published' = Append(Published, e)
      <4> HIDE DEF e, n
      <4>q. QED
        BY <3>2, <3>3, <3>4, <3>5
    <3>8. \A i \in DOMAIN Published : Published[i].doc # a
      <4>1. \A i \in 1..n : pc[answers[i].ask] = "saved"
        BY <1>2, <3>1 DEF IInv, Authors
      <4>2. pc[a] = "commit"
        BY <2>2 DEF TxCommit
      <4>q. QED
        BY <3>2, <3>4, <4>1, <4>2
    <3>9. Shown' = n + 1
      <4>1. VersionChain'
        BY <1>2 DEF IInv
      <4>2. (answers \in Seq(AnswerRow) /\ VersionChain => Shown = Len(answers))'
        BY ShownIsLast, PTL
      <4>q. QED
        BY <3>1, <4>1, <4>2
    <3>q. QED
      BY <3>3, <3>6, <3>7, <3>8, <3>9
  <2>q. QED
    BY <1>2, <2>1, <2>2, OnlyCommitWrites
<1>3. Init => Chain!Init
  BY <1>1 DEF Chain!Init, Published, Shown
<1>4. IInv /\ [Next]_vars /\ IInv' => [Chain!Next]_<<Published, Shown>>
  BY <1>2 DEF Chain!Next, Chain!Publish, Published, Shown
<1>q. QED
  BY <1>3, <1>4, Inductive, PTL DEF Spec, AppendOnlyLog, Chain!Spec, Published, Shown

-----------------------------------------------------------------------------
(* The story the turns tell.                                               *)

\* The order the runs concluded in.
Concluded == {b \in Asks : stamp[b] > 0}
Saving == {"create", "save"}
Stamps ==
    /\ \A a \in Asks : stamp[a] <= Cardinality(Concluded)
    /\ \A a \in Asks : pc[a] \in Saving \cup Open => stamp[a] > 0
    /\ \A a \in Asks : pc[a] \in {"idle", "running"} \cup Reading => stamp[a] = 0

\* Only the opener creates, and the others come after it has.
Opening ==
    /\ \A a \in Asks : kind[a] = "new" <=> a = Opener
    /\ pc[Opener] \notin Reading
    /\ pc[Opener] \in {"idle", "running", "create"} => ~exists
    /\ \A a \in Asks \ {Opener} :
         /\ pc[a] # "create"
         /\ pc[a] \in {"readTurns", "readAnswers", "running"} => exists
    /\ \A a \in Asks : pc[a] \in {"save", "saved"} \cup Open => exists

\* On pglite saves happen one at a time, in the order the runs concluded.
Queue == db = "pglite" =>
    /\ \A a, b \in Asks : InTx(a) /\ InTx(b) => a = b
    /\ \A a, b \in Asks : InTx(a) /\ pc[b] \in Saving => stamp[a] < stamp[b]
    /\ \A a \in Asks : pc[a] \in Saving \cup Open =>
         \A i \in DOMAIN turns : turns[i].at < stamp[a]

\* Whose turns there are, and of which version; a question is followed by its reply.
TurnsTell ==
    /\ \A i \in DOMAIN turns : pc[turns[i].ask] = "saved" /\ turns[i].at = stamp[turns[i].ask]
    /\ \A j \in AgentTurns : /\ turns[j].version \in DOMAIN answers
                             /\ turns[j].ask = answers[turns[j].version].ask
    /\ \A i \in UserTurns : i + 1 \in AgentTurns /\ turns[i + 1].ask = turns[i].ask

\* What a correction in flight knows.
CorrectionsWait == \A a \in Asks : kind[a] = "correction" =>
    /\ pc[a] \in Reading \cup {"running", "save"} \cup Open => expect[a] \in 1..Len(answers)
    /\ pc[a] \in {"running", "save"} \cup Open => expect[a] <= from[a]
    /\ pc[a] \in Open => base[a] = expect[a]
    /\ /\ db = "pglite" /\ expect[a] = Len(answers)
       /\ pc[a] \in {"readAnswers", "running", "save"} \cup Open
       => ShownUnder(expect[a]) \in {question[a], None}

Story == Stamps /\ Opening /\ Queue /\ TurnsTell /\ TurnsMirrorAnswers /\ CorrectionsWait
         /\ CorrectionReplacesRaised

-----------------------------------------------------------------------------
(* What readers of the turns see.                                          *)

\* Two rows are never each before the other, and before is transitive.
LEMMA BeforeOrders ==
  ASSUME turns \in Seq(TurnRow), NEW i \in DOMAIN turns, NEW j \in DOMAIN turns,
         NEW k \in DOMAIN turns
  PROVE  /\ ~(Before(i, j) /\ Before(j, i))
         /\ Before(i, j) /\ Before(j, k) => Before(i, k)
<1>1. DOMAIN turns = 1..Len(turns) /\ Len(turns) \in Nat
  OBVIOUS
<1>2. turns[i].at \in Nat /\ turns[j].at \in Nat /\ turns[k].at \in Nat
  <2>1. turns[i] \in TurnRow /\ turns[j] \in TurnRow /\ turns[k] \in TurnRow
    OBVIOUS
  <2> QED BY <2>1 DEF TurnRow
<1> QED BY <1>1, <1>2 DEF Before

\* A last row exists, and LastOf is that one.
OneIsLast == \A S \in SUBSET (DOMAIN turns) :
    /\ S # {} => LastOf(S) \in S /\ \A j \in S \ {LastOf(S)} : Before(j, LastOf(S))
    /\ \A i \in S : (\A j \in S \ {i} : Before(j, i)) => LastOf(S) = i

\* It does of every set of turns.
LEMMA LastIsUnique == turns \in Seq(TurnRow) => OneIsLast
<1> SUFFICES ASSUME turns \in Seq(TurnRow), NEW S \in SUBSET (DOMAIN turns)
             PROVE  /\ S # {} => LastOf(S) \in S /\ \A j \in S \ {LastOf(S)} : Before(j, LastOf(S))
                    /\ \A i \in S : (\A j \in S \ {i} : Before(j, i)) => LastOf(S) = i
  BY DEF OneIsLast
<1> DEFINE n == Len(turns)
           at == [i \in 1..n |-> turns[i].at]
<1>1. n \in Nat /\ DOMAIN turns = 1..n /\ \A i \in 1..n : turns[i] \in TurnRow
  OBVIOUS
<1>2. \A i \in 1..n : at[i] \in Nat /\ at[i] = turns[i].at
  BY <1>1 DEF TurnRow
<1>3. ASSUME S # {}
      PROVE  \E i \in S : \A j \in S \ {i} : at[j] < at[i] \/ (at[j] = at[i] /\ j < i)
  <2> HIDE DEF at, n
  <2> QED BY <1>1, <1>2, <1>3, LastRowExists
<1>4. S # {} => \E i \in S : \A j \in S \ {i} : Before(j, i)
  BY <1>1, <1>2, <1>3 DEF Before
<1> HIDE DEF at, n
<1>5. S # {} => LastOf(S) \in S /\ \A j \in S \ {LastOf(S)} : Before(j, LastOf(S))
  BY <1>4, Zenon DEF LastOf
<1>6. ASSUME NEW i \in S, \A j \in S \ {i} : Before(j, i) PROVE LastOf(S) = i
  <2>1. LastOf(S) \in S /\ (LastOf(S) # i => Before(i, LastOf(S)) /\ Before(LastOf(S), i))
    BY <1>5, <1>6
  <2> QED BY <2>1, BeforeOrders
<1> QED BY <1>5, <1>6

\* The questions asked before the reply that gave version v.
AskedUnder(v) == {i \in UserTurns : \E j \in AgentTurns : turns[j].version = v /\ Before(i, j)}

\* While those questions, and the rows there were, stay, v is shown under the
\* same question.
LEMMA ShownStays ==
  ASSUME TypeOK, TypeOK', NEW v, AskedUnder(v)' = AskedUnder(v),
         \A i \in DOMAIN turns : i \in DOMAIN turns' /\ turns'[i] = turns[i]
  PROVE  ShownUnder(v)' = ShownUnder(v)
<1> DEFINE Q == AskedUnder(v)
<1>1. turns \in Seq(TurnRow) /\ turns' \in Seq(TurnRow) /\ Q \subseteq DOMAIN turns
  BY DEF TypeOK, AskedUnder, UserTurns
<1>2. /\ ShownUnder(v) = IF Q = {} THEN None ELSE turns[LastOf(Q)].ask
      /\ ShownUnder(v)' = IF Q = {} THEN None ELSE turns'[LastOf(Q)'].ask
  BY DEF ShownUnder, AskedUnder
<1>3. CASE Q = {}
  BY <1>2, <1>3
<1>4. CASE Q # {}
  <2>0. PICK T : T = Q
    OBVIOUS
  <2>1. PICK k \in T : k = LastOf(T) /\ \A j \in T \ {k} : Before(j, k)
    BY <1>1, <1>4, <2>0, LastIsUnique DEF OneIsLast
  <2>2. \A j \in T \ {k} : Before(j, k)'
    BY <1>1, <2>0, <2>1 DEF Before
  <2>3. (turns \in Seq(TurnRow) => OneIsLast)'
    BY LastIsUnique, PTL
  <2>4. T \in SUBSET (DOMAIN turns')
    BY <1>1, <2>0
  <2>5. LastOf(T)' = k
    BY <1>1, <2>1, <2>2, <2>3, <2>4 DEF OneIsLast
  <2>6. turns'[k] = turns[k]
    BY <1>1, <2>0, <2>1
  <2> QED
    BY <1>2, <2>0, <2>1, <2>5, <2>6
<1> QED BY <1>3, <1>4

-----------------------------------------------------------------------------
(* Steps that commit nothing keep the story.                               *)

\* The types, as the proofs below use them.
LEMMA Typings ==
  ASSUME IInv
  PROVE  /\ pc \in [Asks -> Stages] /\ kind \in [Asks -> Kinds] /\ expect \in [Asks -> Nat]
         /\ question \in [Asks -> Asks] /\ from \in [Asks -> Nat] /\ stamp \in [Asks -> Nat]
         /\ base \in [Asks -> Nat]
         /\ Len(answers) \in Nat /\ DOMAIN answers = 1..Len(answers) /\ MaxVersion = Len(answers)
         /\ Versions = 1..Len(answers)
BY ChainQueries DEF IInv, TypeOK

\* Turns and answers, and those who saved them, stay as they are.
RowsAreLeft ==
    /\ turns' = turns /\ answers' = answers /\ db' = db
    /\ \A b \in Asks : pc[b] = "saved" =>
         /\ pc'[b] = "saved" /\ kind'[b] = kind[b] /\ expect'[b] = expect[b]
         /\ question'[b] = question[b] /\ stamp'[b] = stamp[b]

\* Nothing is shown otherwise while the turns stay.
LEMMA NothingElseShown ==
  ASSUME IInv, IInv', turns' = turns
  PROVE  \A v : ShownUnder(v)' = ShownUnder(v)
<1> SUFFICES ASSUME NEW v PROVE ShownUnder(v)' = ShownUnder(v)
  OBVIOUS
<1>1. UserTurns' = UserTurns /\ AgentTurns' = AgentTurns
  BY Zenon DEF UserTurns, AgentTurns
<1>2. \A i, j : Before(i, j)' = Before(i, j)
  BY Zenon DEF Before
<1>3. AskedUnder(v)' = AskedUnder(v)
  BY <1>1, <1>2 DEF AskedUnder
<1> QED BY <1>3, ShownStays DEF IInv

\* The story told so far stays.
LEMMA RowsStay ==
  ASSUME IInv, IInv', Story, RowsAreLeft
  PROVE  TurnsTell' /\ TurnsMirrorAnswers' /\ CorrectionReplacesRaised'
<1>1. /\ UserTurns' = UserTurns /\ AgentTurns' = AgentTurns
      /\ UserTurns \subseteq DOMAIN turns /\ AgentTurns \subseteq DOMAIN turns
  BY Zenon DEF UserTurns, AgentTurns, RowsAreLeft
<1>2. \A i, j : Before(i, j)' = Before(i, j)
  BY Zenon DEF Before, RowsAreLeft
<1>3. /\ \A i \in DOMAIN turns : turns[i].ask \in Asks
      /\ \A i \in DOMAIN answers : answers[i].ask \in Asks /\ pc[answers[i].ask] = "saved"
  <2>1. /\ \A i \in DOMAIN turns : turns[i] \in TurnRow
        /\ \A i \in DOMAIN answers : answers[i] \in AnswerRow
    BY DEF IInv, TypeOK
  <2> QED BY <2>1 DEF TurnRow, AnswerRow, IInv, Authors
<1>4. TurnsTell'
  BY <1>1, <1>3 DEF Story, TurnsTell, RowsAreLeft
<1>5. ThreadReadsInVersionOrder'
  BY <1>1, <1>2 DEF Story, TurnsMirrorAnswers, ThreadReadsInVersionOrder, RowsAreLeft
<1>6. TurnsMirrorAnswers'
  <2>1. \A i \in UserTurns : kind[turns[i].ask] \notin Reruns /\ pc[turns[i].ask] = "saved"
    BY <1>1 DEF Story, TurnsMirrorAnswers, TurnsTell
  <2>2. \A v \in DOMAIN answers : \E j \in AgentTurns :
         /\ turns[j].version = v /\ turns[j].ask = answers[v].ask
         /\ kind[answers[v].ask] \notin Reruns =>
              j - 1 \in UserTurns /\ turns[j - 1].ask = answers[v].ask
    BY DEF Story, TurnsMirrorAnswers
  <2>3. (\A v \in DOMAIN answers : \E j \in AgentTurns :
         /\ turns[j].version = v /\ turns[j].ask = answers[v].ask
         /\ kind[answers[v].ask] \notin Reruns =>
              j - 1 \in UserTurns /\ turns[j - 1].ask = answers[v].ask)'
    BY <1>1, <1>3, <2>2 DEF RowsAreLeft
  <2>4. (\A i \in UserTurns : kind[turns[i].ask] \notin Reruns)'
    BY <1>1, <1>3, <2>1 DEF RowsAreLeft
  <2>5. (Cardinality(AgentTurns) = Len(answers))'
    BY <1>1, Zenon DEF Story, TurnsMirrorAnswers, RowsAreLeft
  <2> QED BY <1>5, <2>3, <2>4, <2>5 DEF TurnsMirrorAnswers
<1>7. CorrectionReplacesRaised'
  <2>1. \A v : ShownUnder(v)' = ShownUnder(v)
    BY NothingElseShown DEF RowsAreLeft
  <2> QED BY <1>3, <2>1 DEF Story, CorrectionReplacesRaised, RowsAreLeft
<1> QED BY <1>4, <1>6, <1>7

\* An ask may move to p, knowing no more.
MayMove(a, p) ==
    /\ pc[a] \notin Ended
    /\ \/ p \in {"stopped", "failed"}
       \/ pc[a] = "precheck" /\ p = "readInv"
       \/ pc[a] = "readInv" /\ p = "readTurns" /\ exists
       \/ pc[a] \in Open /\ p \in Open

\* A step that only moves an ask keeps the story.
LEMMA MovesKeep ==
  ASSUME IInv, IInv', Story, NEW a \in Asks, NEW p, MayMove(a, p), Move(a, p),
         UNCHANGED <<db, threadVars, kind, expect, question, from, stamp, base>>
  PROVE  Story'
<1>1. /\ pc \in [Asks -> Stages] /\ pc' = [pc EXCEPT ![a] = p] /\ MayMove(a, p)
      /\ UNCHANGED <<db, exists, answers, turns, kind, expect, question, from, stamp, base>>
  BY Typings DEF Move, threadVars
<1>2. RowsAreLeft
  BY <1>1 DEF RowsAreLeft, MayMove, Ended
<1>3. Concluded' = Concluded /\ \A v : ShownUnder(v)' = ShownUnder(v)
  BY <1>1, NothingElseShown DEF Concluded
<1>4. Stamps'
  BY <1>1, <1>3 DEF Story, Stamps, Saving, Open, Reading, MayMove, Ended
<1>5. Opening'
  BY <1>1 DEF Story, Opening, Open, Reading, MayMove, Ended
<1>6. Queue'
  BY <1>1 DEF Story, Queue, InTx, Saving, Open, MayMove, Ended
<1>7. CorrectionsWait'
  BY <1>1, <1>3 DEF Story, CorrectionsWait, Reading, Open, MayMove, Ended
<1> QED BY <1>2, <1>4, <1>5, <1>6, <1>7, RowsStay DEF Story

\* The reads that learn nothing new, a stop, a failure, a demotion and an insert.
LEMMA QuietKeeps ==
  ASSUME IInv, IInv', Story, NEW a \in Asks,
         Precheck(a) \/ ReadInv(a) \/ Stop(a) \/ TxDemote(a) \/ TxInsert(a) \/ TxFail(a)
  PROVE  Story'
<1>1. CASE Precheck(a)
  <2>1. PICK p : p = IF MaxVersion = expect[a] THEN "readInv" ELSE "stopped"
    OBVIOUS
  <2>2. MayMove(a, p) /\ Move(a, p)
    BY <1>1, <2>1 DEF Precheck, MayMove, Ended
  <2> QED BY <1>1, <2>2, MovesKeep DEF Precheck, txVars
<1>2. CASE ReadInv(a)
  <2>1. PICK p : p = IF exists THEN "readTurns" ELSE "stopped"
    OBVIOUS
  <2>2. MayMove(a, p) /\ Move(a, p)
    BY <1>2, <2>1 DEF ReadInv, MayMove, Ended
  <2> QED BY <1>2, <2>2, MovesKeep DEF ReadInv, txVars
<1>3. CASE Stop(a)
  BY <1>3, MovesKeep DEF Stop, txVars, MayMove, Ended
<1>4. CASE TxDemote(a)
  BY <1>4, MovesKeep DEF TxDemote, MayMove, Ended, Open
<1>5. CASE TxInsert(a)
  <2>1. PICK p \in {"failed", "commit"} : Move(a, p)
    BY <1>5 DEF TxInsert
  <2>2. MayMove(a, p)
    BY <1>5 DEF TxInsert, MayMove, Ended, Open
  <2> QED BY <1>5, <2>1, <2>2, MovesKeep DEF TxInsert
<1>6. CASE TxFail(a)
  BY <1>6, MovesKeep DEF TxFail, MayMove, Ended, Open
<1> QED BY <1>1, <1>2, <1>3, <1>4, <1>5, <1>6

\* A request arrives; a correction names a version there is.
LEMMA StartKeeps ==
  ASSUME IInv, IInv', Story, NEW a \in Asks, Start(a)
  PROVE  Story'
<1>1. PICK k \in Kinds, v \in Nat :
        /\ kind' = [kind EXCEPT ![a] = k] /\ expect' = [expect EXCEPT ![a] = v]
        /\ k = "correction" => v \in Versions
        /\ k = "new" <=> a = Opener
        /\ Move(a, CASE k = "new" -> "running" [] k = "correction" -> "precheck" [] OTHER -> "readInv")
  <2>1. PICK k \in IF a = Opener THEN {"new"} ELSE Kinds \ {"new"} :
          /\ kind' = [kind EXCEPT ![a] = k]
          /\ \E v \in IF k = "correction" THEN Versions ELSE {0} : expect' = [expect EXCEPT ![a] = v]
          /\ Move(a, CASE k = "new" -> "running"
                       [] k = "correction" -> "precheck"
                       [] OTHER -> "readInv")
    BY DEF Start
  <2>2. PICK v \in IF k = "correction" THEN Versions ELSE {0} : expect' = [expect EXCEPT ![a] = v]
    BY <2>1
  <2>3. k \in Kinds /\ v \in Nat /\ (k = "new" <=> a = Opener)
    BY <2>1, <2>2, Typings DEF Kinds
  <2> QED BY <2>1, <2>2, <2>3
<1>2. PICK p : /\ p = CASE k = "new" -> "running" [] k = "correction" -> "precheck" [] OTHER -> "readInv"
               /\ pc' = [pc EXCEPT ![a] = p]
  BY <1>1 DEF Move
<1>3. /\ p \in {"running", "precheck", "readInv"} /\ (p = "running" <=> k = "new")
      /\ k = "correction" => p = "precheck"
  BY <1>2
<1>4. /\ pc \in [Asks -> Stages] /\ kind \in [Asks -> Kinds] /\ expect \in [Asks -> Nat]
      /\ pc[a] = "idle" /\ pc' = [pc EXCEPT ![a] = p]
      /\ kind' = [kind EXCEPT ![a] = k] /\ expect' = [expect EXCEPT ![a] = v]
      /\ k = "correction" => v \in 1..Len(answers)
      /\ k = "new" <=> a = Opener
      /\ UNCHANGED <<db, exists, answers, turns, question, from, stamp, base>>
  BY <1>1, <1>2, Typings DEF Start, threadVars, txVars
<1>5. RowsAreLeft
  BY <1>4 DEF RowsAreLeft
<1>6. Concluded' = Concluded /\ \A w : ShownUnder(w)' = ShownUnder(w)
  BY <1>4, NothingElseShown DEF Concluded
<1>7. Stamps'
  BY <1>3, <1>4, <1>6 DEF Story, Stamps, Saving, Open, Reading
<1>8. Opening'
  BY <1>3, <1>4 DEF Story, Opening, Open, Reading
<1>9. Queue'
  BY <1>3, <1>4 DEF Story, Queue, InTx, Saving, Open
<1>10. CorrectionsWait'
  BY <1>3, <1>4, <1>6 DEF Story, CorrectionsWait, Reading, Open
<1> QED BY <1>5, <1>7, <1>8, <1>9, <1>10, RowsStay DEF Story

\* On pglite the last question of a thread is the one its head is shown under.
LEMMA HeadIsShownUnderLast ==
  ASSUME IInv, Story, db = "pglite", Len(answers) # 0
  PROVE  ShownUnder(Len(answers)) = LastQuestion
<1>1. /\ turns \in Seq(TurnRow) /\ Len(answers) \in DOMAIN answers
      /\ UserTurns \subseteq DOMAIN turns /\ AgentTurns \subseteq DOMAIN turns
  BY Typings DEF IInv, TypeOK, UserTurns, AgentTurns
<1>2. PICK h \in AgentTurns : turns[h].version = Len(answers)
  BY <1>1 DEF Story, TurnsMirrorAnswers
<1>3. ASSUME NEW i \in UserTurns
      PROVE  \E j \in AgentTurns : turns[j].version = Len(answers) /\ Before(i, j)
  <2>1. /\ i + 1 \in AgentTurns /\ turns[i + 1].ask = turns[i].ask
        /\ turns[i].at = stamp[turns[i].ask] /\ turns[i + 1].at = stamp[turns[i + 1].ask]
        /\ turns[i + 1].version \in DOMAIN answers
    BY <1>1 DEF Story, TurnsTell
  <2>2. i \in Nat /\ i < i + 1
    BY <1>1
  <2>3. Before(i, i + 1)
    BY <2>1, <2>2 DEF Before
  <2>4. turns[i + 1].version \in 1..Len(answers) /\ Len(answers) \in Nat
    BY <2>1, Typings
  <2>5. CASE turns[i + 1].version = Len(answers)
    BY <2>1, <2>3, <2>5
  <2>6. CASE turns[i + 1].version < Len(answers)
    <3>1. Before(i + 1, h)
      BY <1>2, <2>1, <2>6 DEF Story, TurnsMirrorAnswers, ThreadReadsInVersionOrder
    <3>2. i \in DOMAIN turns /\ i + 1 \in DOMAIN turns /\ h \in DOMAIN turns
      BY <1>1, <1>2, <2>1
    <3> QED BY <1>1, <1>2, <2>3, <3>1, <3>2, BeforeOrders
  <2> QED BY <2>4, <2>5, <2>6
<1>4. AskedUnder(Len(answers)) = UserTurns
  BY <1>3 DEF AskedUnder
<1>5. ShownUnder(Len(answers)) =
        IF AskedUnder(Len(answers)) = {} THEN None ELSE turns[LastOf(AskedUnder(Len(answers)))].ask
  BY DEF ShownUnder, AskedUnder
<1> QED BY <1>4, <1>5 DEF LastQuestion

\* A rerun takes its question from the turns.
LEMMA ReadTurnsKeeps ==
  ASSUME IInv, IInv', Story, NEW a \in Asks, ReadTurns(a)
  PROVE  Story'
<1>1. /\ pc \in [Asks -> Stages] /\ pc[a] = "readTurns" /\ pc' = [pc EXCEPT ![a] = "readAnswers"]
      /\ question \in [Asks -> Asks] /\ question' \in [Asks -> Asks]
      /\ \A b \in Asks \ {a} : question'[b] = question[b]
      /\ kind[a] = "correction" /\ LastQuestion # None => question'[a] = LastQuestion
      /\ UNCHANGED <<db, exists, answers, turns, kind, expect, from, stamp, base>>
  BY Typings DEF ReadTurns, Move, Reruns, threadVars, txVars, IInv, TypeOK
<1>2. RowsAreLeft
  BY <1>1 DEF RowsAreLeft
<1>3. Concluded' = Concluded /\ \A v : ShownUnder(v)' = ShownUnder(v)
  BY <1>1, NothingElseShown DEF Concluded
<1>4. kind[a] = "correction" /\ db = "pglite" /\ expect[a] = Len(answers) =>
        ShownUnder(expect[a]) \in {question'[a], None}
  <2>1. kind[a] = "correction" => expect[a] \in 1..Len(answers)
    BY <1>1 DEF Story, CorrectionsWait, Reading
  <2>2. Len(answers) \in Nat
    BY Typings
  <2> QED BY <1>1, <2>1, <2>2, HeadIsShownUnderLast
<1>5. Stamps'
  BY <1>1, <1>3 DEF Story, Stamps, Saving, Open, Reading
<1>6. Opening'
  BY <1>1 DEF Story, Opening, Open, Reading
<1>7. Queue'
  BY <1>1 DEF Story, Queue, InTx, Saving, Open
<1>8. CorrectionsWait'
  BY <1>1, <1>3, <1>4 DEF Story, CorrectionsWait, Reading, Open
<1> QED BY <1>2, <1>5, <1>6, <1>7, <1>8, RowsStay DEF Story

\* The highest version is read; it is at least the one a correction names.
LEMMA ReadAnswersKeeps ==
  ASSUME IInv, IInv', Story, NEW a \in Asks, ReadAnswers(a)
  PROVE  Story'
<1>1. /\ pc \in [Asks -> Stages] /\ pc[a] = "readAnswers" /\ pc' = [pc EXCEPT ![a] = "running"]
      /\ from \in [Asks -> Nat] /\ from' = [from EXCEPT ![a] = Len(answers)] /\ Len(answers) \in Nat
      /\ UNCHANGED <<db, exists, answers, turns, kind, expect, question, stamp, base>>
  BY Typings DEF ReadAnswers, Move, threadVars, txVars
<1>2. RowsAreLeft
  BY <1>1 DEF RowsAreLeft
<1>3. Concluded' = Concluded /\ \A v : ShownUnder(v)' = ShownUnder(v)
  BY <1>1, NothingElseShown DEF Concluded
<1>4. Stamps'
  BY <1>1, <1>3 DEF Story, Stamps, Saving, Open, Reading
<1>5. Opening'
  BY <1>1 DEF Story, Opening, Open, Reading
<1>6. Queue'
  BY <1>1 DEF Story, Queue, InTx, Saving, Open
<1>7. CorrectionsWait'
  BY <1>1, <1>3 DEF Story, CorrectionsWait, Reading, Open
<1> QED BY <1>2, <1>4, <1>5, <1>6, <1>7, RowsStay DEF Story

\* A run concludes after all that had.
LEMMA FinishKeeps ==
  ASSUME IInv, IInv', Story, NEW a \in Asks, Finish(a)
  PROVE  Story'
<1>1. PICK s, p :
        /\ s = 1 + Cardinality(Concluded) /\ p = IF kind[a] = "new" THEN "create" ELSE "save"
        /\ stamp' = [stamp EXCEPT ![a] = s] /\ pc' = [pc EXCEPT ![a] = p]
  BY DEF Finish, Move, Concluded
<1>2. /\ pc \in [Asks -> Stages] /\ stamp \in [Asks -> Nat] /\ pc[a] = "running" /\ stamp[a] = 0
      /\ UNCHANGED <<db, exists, answers, turns, kind, expect, question, from, base>>
      /\ Cardinality(Concluded) \in Nat /\ IsFiniteSet(Concluded) /\ s > 0
      /\ \A b \in Asks : stamp[b] <= Cardinality(Concluded) /\ stamp[b] < s
      /\ \A b \in Asks \ {a} : stamp'[b] = stamp[b] /\ pc'[b] = pc[b]
      /\ stamp'[a] = s /\ pc'[a] = p
  <2>1. IsFiniteSet(Concluded) /\ Cardinality(Concluded) \in Nat
    BY AsksAssumption, FS_Subset, FS_CardinalityType DEF Concluded
  <2>2. pc[a] = "running" /\ UNCHANGED <<db, exists, answers, turns, kind, expect, question, from, base>>
    BY DEF Finish, threadVars, txVars
  <2>3. stamp[a] = 0 /\ \A b \in Asks : stamp[b] <= Cardinality(Concluded)
    BY <2>2 DEF Story, Stamps
  <2> QED BY <1>1, <2>1, <2>2, <2>3, Typings
<1>3. RowsAreLeft
  BY <1>2 DEF RowsAreLeft
<1>4. Cardinality(Concluded') = s
  <2>1. Concluded' = Concluded \cup {a} /\ a \notin Concluded
    BY <1>2 DEF Concluded
  <2>2. Cardinality(Concluded \cup {a}) = Cardinality(Concluded) + 1
    BY <1>2, <2>1, FS_AddElement
  <2> QED BY <1>1, <1>2, <2>1, <2>2
<1>5. \A v : ShownUnder(v)' = ShownUnder(v)
  BY <1>2, NothingElseShown
<1>6. p \in Saving /\ (p = "create" <=> a = Opener) /\ (p = "save" => a # Opener /\ exists)
      /\ (p = "create" => \A b \in Asks : pc[b] \notin Open)
  BY <1>1, <1>2 DEF Story, Opening, Saving, Open
<1>7. \A i \in DOMAIN turns : turns[i].ask \in Asks /\ turns[i].at < s
  <2>1. \A i \in DOMAIN turns : turns[i] \in TurnRow
    BY DEF IInv, TypeOK
  <2> QED BY <1>2, <2>1 DEF TurnRow, Story, TurnsTell
<1>8. Stamps'
  BY <1>1, <1>2, <1>4, <1>6 DEF Story, Stamps, Saving, Open, Reading
<1>9. Opening'
  BY <1>2, <1>6, AsksAssumption DEF Story, Opening, Open, Reading, Saving
<1>10. Queue'
  BY <1>2, <1>6, <1>7 DEF Story, Queue, InTx, Saving, Open
<1>11. CorrectionsWait'
  BY <1>2, <1>5, <1>6 DEF Story, CorrectionsWait, Reading, Open, Saving
<1> QED BY <1>3, <1>8, <1>9, <1>10, <1>11, RowsStay DEF Story

\* The opener's row is there before anyone else comes.
LEMMA CreateKeeps ==
  ASSUME IInv, IInv', Story, NEW a \in Asks, Create(a)
  PROVE  Story'
<1>1. /\ pc \in [Asks -> Stages] /\ pc[a] = "create" /\ pc' = [pc EXCEPT ![a] = "save"]
      /\ exists' = TRUE /\ a = Opener /\ kind[a] = "new"
      /\ UNCHANGED <<db, answers, turns, kind, expect, question, from, stamp, base>>
  BY Typings DEF Create, Move, txVars, Story, Opening
<1>2. RowsAreLeft
  BY <1>1 DEF RowsAreLeft
<1>3. Concluded' = Concluded /\ \A v : ShownUnder(v)' = ShownUnder(v)
  BY <1>1, NothingElseShown DEF Concluded
<1>4. Stamps'
  BY <1>1, <1>3 DEF Story, Stamps, Saving, Open, Reading
<1>5. Opening'
  BY <1>1 DEF Story, Opening, Open, Reading
<1>6. Queue'
  BY <1>1 DEF Story, Queue, InTx, Saving, Open
<1>7. CorrectionsWait'
  BY <1>1, <1>3 DEF Story, CorrectionsWait, Reading, Open
<1> QED BY <1>2, <1>4, <1>5, <1>6, <1>7, RowsStay DEF Story

\* A transaction begins in its turn; one of a correction only while the version it
\* names is the head.
LEMMA TxReadKeeps ==
  ASSUME IInv, IInv', Story, NEW a \in Asks, TxRead(a)
  PROVE  Story'
<1>1. PICK p : /\ pc' = [pc EXCEPT ![a] = p] /\ p \in {"failed", "demote", "insert"}
               /\ p = "failed" \/ expect[a] = 0 \/ Len(answers) = expect[a]
  BY Typings DEF TxRead, Move
<1>2. /\ pc \in [Asks -> Stages] /\ pc[a] = "save" /\ base \in [Asks -> Nat] /\ Len(answers) \in Nat
      /\ base' = [base EXCEPT ![a] = Len(answers)] /\ MayBegin(a)
      /\ expect \in [Asks -> Nat] /\ stamp \in [Asks -> Nat]
      /\ UNCHANGED <<db, exists, answers, turns, kind, expect, question, from, stamp>>
      /\ exists /\ \A b \in Asks : pc[b] # "create"
  BY Typings DEF TxRead, threadVars, Story, Opening
<1>3. RowsAreLeft
  BY <1>1, <1>2 DEF RowsAreLeft
<1>4. Concluded' = Concluded /\ \A v : ShownUnder(v)' = ShownUnder(v)
  BY <1>2, NothingElseShown DEF Concluded
<1>5. Queue'
  BY <1>1, <1>2 DEF Story, Queue, InTx, Saving, Open, MayBegin
<1>6. kind[a] = "correction" => expect[a] \in 1..Len(answers)
  BY <1>2 DEF Story, CorrectionsWait
<1>7. Stamps'
  BY <1>1, <1>2, <1>4 DEF Story, Stamps, Saving, Open, Reading
<1>8. Opening'
  BY <1>1, <1>2 DEF Story, Opening, Open, Reading
<1>9. Queue'
  BY <1>5
<1>10. CorrectionsWait'
  BY <1>1, <1>2, <1>4, <1>6 DEF Story, CorrectionsWait, Reading, Open
<1> QED BY <1>3, <1>7, <1>8, <1>9, <1>10, RowsStay DEF Story

\* A crash saves nothing.
LEMMA CrashKeeps ==
  ASSUME IInv, IInv', Story, Crash
  PROVE  Story'
<1>1. /\ pc \in [Asks -> Stages] /\ pc' = [a \in Asks |-> IF InFlight(a) THEN "lost" ELSE pc[a]]
      /\ UNCHANGED <<db, exists, answers, turns, kind, expect, question, from, stamp, base>>
  BY Typings DEF Crash, threadVars
<1>2. \A a \in Asks : pc'[a] \in {"idle"} \cup Ended /\ (pc'[a] # "lost" => pc'[a] = pc[a])
                      /\ (pc[a] \in {"idle"} \cup Ended => pc'[a] = pc[a])
  BY <1>1 DEF InFlight, Ended
<1>3. RowsAreLeft
  BY <1>1, <1>2 DEF RowsAreLeft, Ended
<1>4. Concluded' = Concluded /\ \A v : ShownUnder(v)' = ShownUnder(v)
  BY <1>1, NothingElseShown DEF Concluded
<1>5. Opener \in Asks
  BY AsksAssumption
<1>6. Stamps'
  BY <1>1, <1>2, <1>4 DEF Story, Stamps, Saving, Open, Reading, Ended
<1>7. Opening'
  BY <1>1, <1>2, <1>5 DEF Story, Opening, Open, Reading, Ended
<1>8. Queue'
  BY <1>1, <1>2 DEF Story, Queue, InTx, Saving, Open, Ended
<1>9. CorrectionsWait'
  BY <1>1, <1>2, <1>4 DEF Story, CorrectionsWait, Reading, Open, Ended
<1> QED BY <1>3, <1>6, <1>7, <1>8, <1>9, RowsStay DEF Story

\* What a commit adds to the turns, n of them so far: the question unless it
\* repeats one, and the reply, last.
AddsTurns(a, n, k) ==
    /\ n = Len(turns) /\ n \in Nat /\ DOMAIN turns = 1..n /\ DOMAIN turns' = 1..k
    /\ k = IF kind[a] \in Reruns THEN n + 1 ELSE n + 2
    /\ \A i \in 1..n : turns'[i] = turns[i]
    /\ turns'[k].role = "agent" /\ turns'[k].ask = a /\ turns'[k].version = Len(answers) + 1
    /\ turns'[k].at = stamp[a]
    /\ kind[a] \notin Reruns => /\ turns'[n + 1].role = "user" /\ turns'[n + 1].ask = a
                                /\ turns'[n + 1].at = stamp[a]

\* It adds those.
LEMMA CommitTurns ==
  ASSUME IInv, NEW a \in Asks, TxCommit(a)
  PROVE  \E n, k : AddsTurns(a, n, k)
<1> DEFINE reply == [role |-> "agent", ask |-> a, version |-> base[a] + 1, at |-> stamp[a]]
           asked == [role |-> "user", ask |-> a, version |-> 0, at |-> stamp[a]]
           n == Len(turns)
<1>1. /\ reply.role = "agent" /\ reply.ask = a /\ reply.version = base[a] + 1 /\ reply.at = stamp[a]
      /\ asked.role = "user" /\ asked.ask = a /\ asked.at = stamp[a]
  OBVIOUS
<1>2. NewTurns(a) = IF kind[a] \in Reruns THEN <<reply>> ELSE <<asked, reply>>
  BY DEF NewTurns
<1>3. /\ turns \in Seq(TurnRow) /\ NewTurns(a) \in Seq(TurnRow) /\ turns' = turns \o NewTurns(a)
      /\ base[a] = Len(answers)
  BY NewTurnsType, CommitExtends DEF TxCommit, IInv, TypeOK
<1> HIDE DEF reply, asked
<1>4. CASE kind[a] \in Reruns
  <2>1. turns' = turns \o <<reply>> /\ <<reply>> \in Seq(TurnRow)
    BY <1>2, <1>3, <1>4
  <2>2. /\ n \in Nat /\ DOMAIN turns = 1..n /\ DOMAIN turns' = 1..(n + 1)
        /\ \A i \in 1..n : turns'[i] = turns[i]
        /\ turns'[n + 1] = reply
    BY <1>3, <2>1
  <2>3. AddsTurns(a, n, n + 1)
    BY <1>1, <1>3, <1>4, <2>2 DEF AddsTurns
  <2> QED BY <2>3
<1>5. CASE kind[a] \notin Reruns
  <2>1. turns' = turns \o <<asked, reply>> /\ <<asked, reply>> \in Seq(TurnRow)
    BY <1>2, <1>3, <1>5
  <2>2. /\ n \in Nat /\ DOMAIN turns = 1..n /\ DOMAIN turns' = 1..(n + 2)
        /\ \A i \in 1..n : turns'[i] = turns[i]
        /\ turns'[n + 1] = asked /\ turns'[n + 2] = reply
    BY <1>3, <2>1
  <2>3. AddsTurns(a, n, n + 2)
    BY <1>1, <1>3, <1>5, <2>2 DEF AddsTurns
  <2> QED BY <2>3
<1> QED BY <1>4, <1>5

\* A commit is the ask's last step, and adds its turns behind all that are shown.
LEMMA CommitKeeps ==
  ASSUME IInv, IInv', Story, NEW a \in Asks, TxCommit(a)
  PROVE  Story'
<1>1. PICK n, k : AddsTurns(a, n, k)
  BY CommitTurns
<1>2. /\ n \in Nat /\ DOMAIN turns = 1..n /\ DOMAIN turns' = 1..k
      /\ k = (IF kind[a] \in Reruns THEN n + 1 ELSE n + 2)
      /\ \A i \in 1..n : turns'[i] = turns[i]
      /\ turns'[k].role = "agent" /\ turns'[k].ask = a /\ turns'[k].version = Len(answers) + 1
      /\ turns'[k].at = stamp[a]
      /\ kind[a] \notin Reruns => /\ turns'[n + 1].role = "user" /\ turns'[n + 1].ask = a
                                  /\ turns'[n + 1].at = stamp[a]
  BY <1>1 DEF AddsTurns
<1>3. /\ pc \in [Asks -> Stages] /\ pc[a] = "commit" /\ pc' = [pc EXCEPT ![a] = "saved"]
      /\ UNCHANGED <<db, exists, kind, expect, question, from, stamp, base>>
      /\ Len(answers) \in Nat /\ DOMAIN answers = 1..Len(answers)
      /\ expect \in [Asks -> Nat] /\ from \in [Asks -> Nat] /\ stamp \in [Asks -> Nat]
  BY Typings DEF TxCommit, Move
<1>4. /\ base[a] = Len(answers) /\ Len(answers') = Len(answers) + 1
      /\ DOMAIN answers' = 1..(Len(answers) + 1)
      /\ answers'[Len(answers) + 1].ask = a /\ answers'[Len(answers) + 1].from = from[a]
      /\ answers'[Len(answers) + 1].version = Len(answers) + 1
      /\ \A i \in 1..Len(answers) : /\ answers'[i].ask = answers[i].ask
                                    /\ answers'[i].version = answers[i].version
                                    /\ answers'[i].from = answers[i].from
  <2>1. answers' \in Seq(AnswerRow)
    BY DEF IInv, TypeOK
  <2> QED BY <2>1, CommitExtends, NewHeadFields
<1>5. /\ AgentTurns \subseteq 1..n /\ UserTurns \subseteq 1..n
      /\ AgentTurns' = AgentTurns \cup {k}
      /\ UserTurns' = UserTurns \cup (IF kind[a] \in Reruns THEN {} ELSE {n + 1})
  <2>1. \A i \in 1..k : i \in 1..n \/ i = k \/ (kind[a] \notin Reruns /\ i = n + 1)
    BY <1>2
  <2>2. 1..n \subseteq 1..k /\ n + 1 \in 1..k /\ k \in 1..k /\ n + 1 \notin 1..n /\ k \notin 1..n
    BY <1>2
  <2> QED BY <1>2, <2>1, <2>2 DEF AgentTurns, UserTurns
<1>6. /\ \A i \in 1..n : turns[i].ask \in Asks /\ turns[i].at \in Nat /\ turns[i].ask # a
                         /\ pc[turns[i].ask] = "saved"
      /\ \A i \in 1..Len(answers) : answers[i].ask \in Asks /\ answers[i].ask # a
                                    /\ pc[answers[i].ask] = "saved" /\ answers[i].version = i
  <2>1. /\ \A i \in 1..n : turns[i] \in TurnRow
        /\ \A i \in 1..Len(answers) : answers[i] \in AnswerRow
    BY <1>2, <1>3 DEF IInv, TypeOK
  <2>2. \A i \in 1..n : turns[i].ask \in Asks /\ turns[i].at \in Nat
    BY <2>1 DEF TurnRow
  <2>3. \A i \in 1..n : pc[turns[i].ask] = "saved"
    BY <1>2 DEF Story, TurnsTell
  <2>4. \A i \in 1..Len(answers) : answers[i].ask \in Asks
    BY <2>1 DEF AnswerRow
  <2>5. \A i \in 1..Len(answers) : pc[answers[i].ask] = "saved" /\ answers[i].version = i
    BY <1>3 DEF IInv, Authors, VersionChain
  <2> QED BY <1>3, <2>2, <2>3, <2>4, <2>5
<1>s. \A i \in 1..k : i \in 1..n \/ i = k \/ (kind[a] \notin Reruns /\ i = n + 1)
  BY <1>2
<1>7. /\ k \notin 1..n /\ n + 1 \notin 1..n
      /\ db = "pglite" => \A i \in 1..n : turns[i].at < stamp[a]
  <2>1. k \notin 1..n /\ n + 1 \notin 1..n
    BY <1>2
  <2>2. db = "pglite" => \A i \in 1..n : turns[i].at < stamp[a]
    BY <1>2, <1>3 DEF Story, Queue, Open
  <2> QED BY <2>1, <2>2
<1>8. \A j \in AgentTurns : turns[j].version \in 1..Len(answers)
  BY <1>3 DEF Story, TurnsTell
<1>9. TurnsTell'
  <2>1. (\A i \in DOMAIN turns : pc[turns[i].ask] = "saved" /\ turns[i].at = stamp[turns[i].ask])'
    <3> SUFFICES ASSUME NEW i \in 1..k
                 PROVE  pc'[turns'[i].ask] = "saved" /\ turns'[i].at = stamp[turns'[i].ask]
      BY <1>2, <1>3
    <3>1. CASE i \in 1..n
      <4>1. turns[i].at = stamp[turns[i].ask]
        BY <1>2, <3>1 DEF Story, TurnsTell
      <4>2. turns[i].ask \in Asks \ {a} /\ pc[turns[i].ask] = "saved" /\ turns'[i] = turns[i]
        BY <1>2, <1>6, <3>1
      <4> QED BY <1>3, <4>1, <4>2
    <3>2. CASE i \notin 1..n
      <4>1. turns'[i].ask = a /\ turns'[i].at = stamp[a]
        BY <1>2, <1>s, <3>2
      <4> QED BY <1>3, <4>1
    <3> QED BY <3>1, <3>2
  <2>2. (\A j \in AgentTurns : turns[j].version \in DOMAIN answers
                               /\ turns[j].ask = answers[turns[j].version].ask)'
    <3> SUFFICES ASSUME NEW j \in AgentTurns'
                 PROVE  /\ turns'[j].version \in 1..(Len(answers) + 1)
                        /\ turns'[j].ask = answers'[turns'[j].version].ask
      BY <1>4
    <3>1. CASE j \in AgentTurns
      <4>1. turns[j].version \in 1..Len(answers) /\ turns[j].ask = answers[turns[j].version].ask
        BY <1>8, <3>1 DEF Story, TurnsTell
      <4>2. turns'[j] = turns[j]
        BY <1>2, <1>5, <3>1
      <4>3. answers'[turns[j].version].ask = answers[turns[j].version].ask
        BY <1>4, <4>1
      <4> QED BY <1>3, <4>1, <4>2, <4>3
    <3>2. CASE j = k
      BY <1>2, <1>3, <1>4, <3>2
    <3> QED BY <1>5, <3>1, <3>2
  <2>3. (\A i \in UserTurns : i + 1 \in AgentTurns /\ turns[i + 1].ask = turns[i].ask)'
    <3>1. \A i \in UserTurns : i + 1 \in AgentTurns /\ turns[i + 1].ask = turns[i].ask
      BY DEF Story, TurnsTell
    <3>2. kind[a] \notin Reruns => n + 1 + 1 = k
      BY <1>2
    <3> QED BY <1>2, <1>5, <3>1, <3>2
  <2> QED BY <2>1, <2>2, <2>3 DEF TurnsTell
<1>10. TurnsMirrorAnswers'
  <2>1. (Cardinality(AgentTurns) = Len(answers))'
    <3>1. IsFiniteSet(AgentTurns)
      <4>1. IsFiniteSet(1..n)
        BY <1>2, FS_Interval
      <4> QED BY <1>5, <4>1, FS_Subset
    <3>2. k \notin AgentTurns
      BY <1>5, <1>7
    <3>3. Cardinality(AgentTurns \cup {k}) = Cardinality(AgentTurns) + 1
      BY <3>1, <3>2, FS_AddElement
    <3> QED BY <1>4, <1>5, <3>3 DEF Story, TurnsMirrorAnswers
  <2>2. (\A v \in DOMAIN answers : \E j \in AgentTurns :
           /\ turns[j].version = v /\ turns[j].ask = answers[v].ask
           /\ kind[answers[v].ask] \notin Reruns =>
                j - 1 \in UserTurns /\ turns[j - 1].ask = answers[v].ask)'
    <3> SUFFICES ASSUME NEW v \in 1..(Len(answers) + 1)
                 PROVE  \E j \in AgentTurns' :
                          /\ turns'[j].version = v /\ turns'[j].ask = answers'[v].ask
                          /\ kind[answers'[v].ask] \notin Reruns =>
                               j - 1 \in UserTurns' /\ turns'[j - 1].ask = answers'[v].ask
      BY <1>3, <1>4
    <3>1. CASE v \in 1..Len(answers)
      <4>1. PICK j \in AgentTurns :
              /\ turns[j].version = v /\ turns[j].ask = answers[v].ask
              /\ kind[answers[v].ask] \notin Reruns =>
                   j - 1 \in UserTurns /\ turns[j - 1].ask = answers[v].ask
        BY <1>3, <3>1 DEF Story, TurnsMirrorAnswers
      <4> QED BY <1>2, <1>4, <1>5, <3>1, <4>1
    <3>2. CASE v = Len(answers) + 1
      <4>1. kind[a] \notin Reruns => k - 1 = n + 1
        BY <1>2
      <4> QED BY <1>2, <1>4, <1>5, <3>2, <4>1
    <3> QED BY <1>3, <3>1, <3>2
  <2>3. (\A i \in UserTurns : kind[turns[i].ask] \notin Reruns)'
    BY <1>2, <1>3, <1>5 DEF Story, TurnsMirrorAnswers
  <2>4. ThreadReadsInVersionOrder'
    <3> SUFFICES ASSUME db = "pglite", NEW i \in AgentTurns', NEW j \in AgentTurns',
                        turns'[i].version < turns'[j].version
                 PROVE  Before(i, j)'
      BY <1>3 DEF ThreadReadsInVersionOrder
    <3>1. i \in AgentTurns
      BY <1>2, <1>3, <1>5, <1>8
    <3>2. CASE j \in AgentTurns
      BY <1>2, <1>5, <3>1, <3>2 DEF Story, TurnsMirrorAnswers, ThreadReadsInVersionOrder, Before
    <3>3. CASE j = k
      BY <1>2, <1>5, <1>7, <3>1, <3>3 DEF Before
    <3> QED BY <1>5, <3>2, <3>3
  <2> QED BY <2>1, <2>2, <2>3, <2>4 DEF TurnsMirrorAnswers
<1>11. ASSUME db = "pglite", NEW v \in 0..Len(answers) PROVE ShownUnder(v)' = ShownUnder(v)
  <2>1. \A i \in UserTurns, j \in AgentTurns : Before(i, j)' <=> Before(i, j)
    BY <1>2, <1>5 DEF Before
  <2>2. \A j \in AgentTurns : kind[a] \notin Reruns => ~Before(n + 1, j)'
    BY <1>2, <1>3, <1>5, <1>6, <1>7, <1>11 DEF Before
  <2>3. \A j \in AgentTurns' : turns'[j].version = v => j \in AgentTurns /\ turns[j].version = v
    <3>1. turns'[k].version # v
      BY <1>2, <1>3, <1>11
    <3>2. \A j \in AgentTurns : turns'[j] = turns[j]
      BY <1>2, <1>5
    <3> QED BY <1>5, <3>1, <3>2
  <2>4. \A j \in AgentTurns : turns'[j].version = turns[j].version /\ j \in AgentTurns'
    BY <1>2, <1>5
  <2>5. AskedUnder(v)' = AskedUnder(v)
    <3>1. ASSUME NEW i \in AskedUnder(v)' PROVE i \in AskedUnder(v)
      BY <1>5, <2>1, <2>2, <2>3, <3>1 DEF AskedUnder
    <3>2. ASSUME NEW i \in AskedUnder(v) PROVE i \in AskedUnder(v)'
      BY <1>5, <2>1, <2>4, <3>2 DEF AskedUnder
    <3> QED BY <3>1, <3>2
  <2>6. \A i \in DOMAIN turns : i \in DOMAIN turns' /\ turns'[i] = turns[i]
    BY <1>2
  <2> QED BY <2>5, <2>6, ShownStays DEF IInv
<1>12. \A b \in Asks \ {a} : pc'[b] = pc[b]
  BY <1>3
<1>13. Stamps'
  <2>1. Concluded' = Concluded
    BY <1>3 DEF Concluded
  <2> QED BY <1>3, <2>1 DEF Story, Stamps, Saving, Open, Reading
<1>14. Opening'
  BY <1>3, AsksAssumption DEF Story, Opening, Open, Reading
<1>15. Queue'
  <2>1. db = "pglite" => \A b \in Asks \ {a} : /\ pc[b] \notin Open
                                               /\ pc[b] \in Saving => stamp[a] < stamp[b]
    BY <1>3 DEF Story, Queue, InTx, Open
  <2>2. \A b \in Asks : pc'[b] \in Saving \cup Open => b # a /\ pc[b] = pc'[b]
    BY <1>3 DEF Saving, Open
  <2>3. \A i \in 1..k : turns'[i].at = stamp[a] \/ (i \in 1..n /\ turns'[i] = turns[i])
    BY <1>2
  <2> QED BY <1>2, <1>3, <2>1, <2>2, <2>3 DEF Story, Queue, InTx
<1>16. CorrectionsWait'
  <2>1. \A b \in Asks : pc'[b] \in Reading \cup {"running", "save"} \cup Open =>
                          b # a /\ pc[b] = pc'[b]
    BY <1>3 DEF Reading, Open
  <2>2. \A b \in Asks : kind[b] = "correction" /\ pc'[b] \in Reading \cup {"running", "save"} \cup Open
                          => expect[b] \in 1..Len(answers)
    BY <2>1 DEF Story, CorrectionsWait
  <2>3. (\A b \in Asks : kind[b] = "correction" =>
          /\ pc[b] \in Reading \cup {"running", "save"} \cup Open
             => expect[b] \in 1..Len(answers) /\ expect[b] # Len(answers)
          /\ pc[b] \in {"running", "save"} \cup Open => expect[b] <= from[b]
          /\ pc[b] \in Open => base[b] = expect[b])'
    BY <1>3, <1>4, <2>1, <2>2 DEF Story, CorrectionsWait
  <2> QED BY <2>3 DEF CorrectionsWait, Reading
<1>17. CorrectionReplacesRaised'
  <2>1. ASSUME NEW i \in 1..(Len(answers) + 1), NEW b, NEW e,
               b = answers'[i].ask, kind[b] = "correction", e = expect[b]
        PROVE  /\ answers'[i].version = e + 1 /\ answers'[i].from = e
               /\ db = "pglite" => ShownUnder(e)' \in {question[b], None}
    <3>1. CASE i \in 1..Len(answers)
      <4>1. b \in Asks /\ b = answers[i].ask
        BY <1>4, <1>6, <2>1, <3>1
      <4>2. /\ answers[i].version = e + 1 /\ answers[i].from = e
            /\ db = "pglite" => ShownUnder(e) \in {question[b], None}
        BY <1>3, <2>1, <3>1, <4>1 DEF Story, CorrectionReplacesRaised
      <4>3. e \in 0..Len(answers)
        BY <1>3, <1>6, <2>1, <3>1, <4>1, <4>2
      <4> QED BY <1>4, <1>11, <3>1, <4>2, <4>3
    <3>2. CASE i = Len(answers) + 1
      <4>1. b = a
        BY <1>4, <2>1, <3>2
      <4>2. e = Len(answers) /\ e <= from[a] /\ e \in 0..Len(answers)
        BY <1>3, <1>4, <2>1, <4>1 DEF Story, CorrectionsWait, Open
      <4>3. from[a] \in Nat /\ from[a] <= Len(answers)
        BY <1>3 DEF IInv, Authors
      <4>4. db = "pglite" => ShownUnder(e) \in {question[b], None}
        BY <1>3, <2>1, <4>1, <4>2 DEF Story, CorrectionsWait, Open
      <4> QED BY <1>3, <1>4, <1>11, <3>2, <4>1, <4>2, <4>3, <4>4
    <3> QED BY <1>3, <2>1, <3>1, <3>2
  <2>2. ASSUME NEW i \in 1..(Len(answers) + 1), NEW b, b = answers'[i].ask, kind[b] = "correction"
        PROVE  /\ answers'[i].version = expect[b] + 1 /\ answers'[i].from = expect[b]
               /\ \A e : e = expect[b] /\ db = "pglite" => ShownUnder(e)' \in {question[b], None}
    BY <2>1, <2>2
  <2>3. (\A i \in DOMAIN answers : \A b : b = answers[i].ask /\ kind[b] = "correction" =>
           /\ answers[i].version = expect[b] + 1 /\ answers[i].from = expect[b]
           /\ db = "pglite" => ShownUnder(expect[b]) \in {question[b], None})'
    BY <1>3, <1>4, <2>2
  <2> QED BY <2>3, Zenon DEF CorrectionReplacesRaised
<1> QED BY <1>9, <1>10, <1>13, <1>14, <1>15, <1>16, <1>17 DEF Story

-----------------------------------------------------------------------------
(* The story holds.                                                        *)

\* Nobody has told anything yet.
LEMMA InitStory == Init => Story
<1> SUFFICES ASSUME Init PROVE Story
  OBVIOUS
<1>1. /\ answers = <<>> /\ turns = <<>> /\ DOMAIN answers = {} /\ DOMAIN turns = {}
      /\ Len(answers) = 0 /\ exists = FALSE
      /\ \A a \in Asks : /\ pc[a] = "idle" /\ stamp[a] = 0
                         /\ kind[a] = IF a = Opener THEN "new" ELSE "followup"
  BY DEF Init
<1>2. UserTurns = {} /\ AgentTurns = {} /\ Concluded = {} /\ Cardinality({}) = 0
  BY <1>1, FS_EmptySet DEF UserTurns, AgentTurns, Concluded
<1>3. Stamps
  BY <1>1, <1>2 DEF Stamps, Saving, Open
<1>4. Opening
  BY <1>1, AsksAssumption DEF Opening, Reading, Open
<1>5. Queue
  BY <1>1 DEF Queue, InTx, Open, Saving
<1>6. TurnsTell
  BY <1>1, <1>2 DEF TurnsTell
<1>7. TurnsMirrorAnswers
  BY <1>1, <1>2 DEF TurnsMirrorAnswers, ThreadReadsInVersionOrder
<1>8. CorrectionsWait
  BY <1>1 DEF CorrectionsWait, Reading, Open
<1>9. CorrectionReplacesRaised
  BY <1>1 DEF CorrectionReplacesRaised
<1> QED BY <1>3, <1>4, <1>5, <1>6, <1>7, <1>8, <1>9 DEF Story

\* A step that does nothing keeps it.
LEMMA StutterKeeps ==
  ASSUME IInv, IInv', Story, UNCHANGED vars
  PROVE  Story'
<1>1. UNCHANGED <<db, exists, answers, turns, pc, kind, expect, question, from, stamp, base>>
  BY DEF vars, threadVars, askVars, txVars
<1>2. RowsAreLeft
  BY <1>1 DEF RowsAreLeft
<1>3. Concluded' = Concluded /\ \A v : ShownUnder(v)' = ShownUnder(v)
  BY <1>1, NothingElseShown DEF Concluded
<1>4. Stamps' /\ Opening' /\ Queue' /\ CorrectionsWait'
  BY <1>1, <1>3 DEF Story, Stamps, Opening, Queue, InTx, CorrectionsWait
<1> QED BY <1>2, <1>4, RowsStay DEF Story

\* Every step keeps it.
LEMMA StoryStep == IInv /\ IInv' /\ Story /\ [Next]_vars => Story'
  BY QuietKeeps, StartKeeps, ReadTurnsKeeps, ReadAnswersKeeps, FinishKeeps, CreateKeeps,
     TxReadKeeps, CommitKeeps, CrashKeeps, StutterKeeps
     DEF Next, Read, Run, Save

\* The turns and what each ask in flight knows of them fit the chain, in every
\* reachable state.
THEOREM StoryHolds == Spec => []Story
  BY InitStory, StoryStep, Inductive, PTL DEF Spec

\* Each version has the one agent turn of the ask that saved it, behind that ask's
\* own question unless it regenerated an answer, there is no other turn, and on
\* pglite the thread reads in version order (saveAnswer, loadThread).
THEOREM ThreadTellsTheChain == Spec => []TurnsMirrorAnswers
  BY StoryHolds, PTL DEF Story

\* A correction's answer is the next version after the one that raised it, made
\* from that one; on pglite it re-asks the question that one is shown under
\* (rerunForCorrection and the head guard of saveAnswer).
THEOREM CorrectionsReplaceWhatRaisedThem == Spec => []CorrectionReplacesRaised
  BY StoryHolds, PTL DEF Story

=============================================================================
