------------------------- MODULE InvestigationThread -------------------------
(***************************************************************************)
(* One Investigation: the thread of turns and the version chain of its     *)
(* Answers, as InvestigationService.ask (packages/core/investigation),     *)
(* rerunForCorrection (apps/web/lib) and DrizzleMetadataStore (packages/   *)
(* db) write it.  Every statement of that code is keyed by the             *)
(* investigation id, so one Investigation stands for all of them.          *)
(*                                                                         *)
(* An ask is an asynchronous request that can be overtaken at every await: *)
(* it reads the thread in three separate queries, runs the agent, and only *)
(* then appends its Answer in one transaction.  On pglite transactions run *)
(* one at a time, first come first served; on Postgres they are concurrent *)
(* READ COMMITTED transactions ordered by row locks and unique indexes.    *)
(***************************************************************************)
EXTENDS Naturals, Sequences, FiniteSets

CONSTANTS
    Asks,    \* the requests made about this Investigation, one agent run each
    Opener,  \* the ask that generated the id and creates the row (a new turn)
    None     \* no question

ASSUME AsksAssumption ==
    /\ IsFiniteSet(Asks)
    /\ Opener \in Asks
    /\ None \notin Asks

VARIABLES
    db,        \* which metadata database the process booted on
    exists,    \* the investigations row is there
    answers,   \* the answers rows, in the order they were committed
    turns,     \* the turns rows, in the order they were committed
    pc,        \* where each ask stands
    kind,      \* what each ask was asked to do
    expect,    \* expectedLatestVersion of a correction, 0 for none
    question,  \* the question an ask put to the model (named by the ask that posed it)
    from,      \* highest version the ask read: createdAfter.fromVersion
    stamp,     \* order of answer.meta.createdAt, 0 until the run concludes
    base,      \* currentMax as the ask's transaction read it
    demoted    \* rows the ask's open transaction has set is_latest = false on

threadVars == <<exists, answers, turns>>
askVars == <<pc, kind, expect, question, from, stamp>>
txVars == <<base, demoted>>
vars == <<db, threadVars, askVars, txVars>>

Databases == {"pglite", "postgres"}
Kinds == {"new", "followup", "rerun", "correction"}
Reruns == {"rerun", "correction"}   \* isRerun: no user turn, re-asks the stored question
Open == {"demote", "insert", "commit"}             \* inside the transaction
Reading == {"precheck", "readInv", "readTurns", "readAnswers"}
Ended == {"saved", "stopped", "failed", "lost"}
Stages == {"idle"} \cup Reading \cup {"running", "create", "save"} \cup Open \cup Ended

AnswerRow == [ask: Asks, version: Nat, latest: BOOLEAN, from: Nat]
TurnRow == [role: {"user", "agent"}, ask: Asks, version: Nat, at: Nat]

TypeOK ==
    /\ db \in Databases
    /\ exists \in BOOLEAN
    /\ answers \in Seq(AnswerRow)
    /\ turns \in Seq(TurnRow)
    /\ pc \in [Asks -> Stages]
    /\ kind \in [Asks -> Kinds]
    /\ expect \in [Asks -> Nat]
    /\ question \in [Asks -> Asks]
    /\ from \in [Asks -> Nat]
    /\ stamp \in [Asks -> Nat]
    /\ base \in [Asks -> Nat]
    /\ demoted \in [Asks -> SUBSET Nat]

Init ==
    /\ db \in Databases
    /\ exists = FALSE
    /\ answers = <<>>
    /\ turns = <<>>
    /\ pc = [a \in Asks |-> "idle"]
    /\ kind = [a \in Asks |-> IF a = Opener THEN "new" ELSE "followup"]
    /\ expect = [a \in Asks |-> 0]
    /\ question = [a \in Asks |-> a]
    /\ from = [a \in Asks |-> 0]
    /\ stamp = [a \in Asks |-> 0]
    /\ base = [a \in Asks |-> 0]
    /\ demoted = [a \in Asks |-> {}]

-----------------------------------------------------------------------------
(* What the queries return.                                                *)

Versions == {answers[i].version : i \in DOMAIN answers}

\* prior.reduce((m, r) => Math.max(m, r.version), 0)
MaxVersion == CHOOSE m \in {0} \cup Versions : \A v \in Versions : v <= m

LatestRows == {i \in DOMAIN answers : answers[i].latest}

\* ORDER BY created_at; the rows of one save carry one timestamp and stay in
\* the order they were inserted.
Before(i, j) ==
    \/ turns[i].at < turns[j].at
    \/ turns[i].at = turns[j].at /\ i < j

UserTurns == {i \in DOMAIN turns : turns[i].role = "user"}
AgentTurns == {i \in DOMAIN turns : turns[i].role = "agent"}

\* The last of a set of turns in the order a reader sees them.
LastOf(S) == CHOOSE i \in S : \A j \in S \ {i} : Before(j, i)

\* [...prior.turns].reverse().find((t) => t.role === 'user')?.question
LastQuestion == IF UserTurns = {} THEN None ELSE turns[LastOf(UserTurns)].ask

\* The question a reader of the thread, and priorTurns, pairs a version with:
\* the last user turn before the agent turn that points at the version.
ShownUnder(v) ==
    LET asked == {i \in UserTurns :
                    \E j \in AgentTurns : turns[j].version = v /\ Before(i, j)}
    IN  IF asked = {} THEN None ELSE turns[LastOf(asked)].ask

-----------------------------------------------------------------------------
(* Asking.                                                                 *)

Move(a, stage) == pc' = [pc EXCEPT ![a] = stage]

\* A request arrives.  A correction names the version that raised it, which
\* was the head when the suggestion was submitted.
Start(a) ==
    /\ pc[a] = "idle"
    /\ \E k \in IF a = Opener THEN {"new"} ELSE Kinds \ {"new"} :
        /\ kind' = [kind EXCEPT ![a] = k]
        /\ \E v \in IF k = "correction" THEN Versions ELSE {0} :
             expect' = [expect EXCEPT ![a] = v]
        /\ Move(a, CASE k = "new" -> "running"
                     [] k = "correction" -> "precheck"
                     [] OTHER -> "readInv")
    /\ UNCHANGED <<db, threadVars, question, from, stamp, txVars>>

\* rerunForCorrection re-answers only if the raised version is still the last.
Precheck(a) ==
    /\ pc[a] = "precheck"
    /\ Move(a, IF MaxVersion = expect[a] THEN "readInv" ELSE "stopped")
    /\ UNCHANGED <<db, threadVars, kind, expect, question, from, stamp, txVars>>

\* loadThread, first query: the row, or "Unknown investigation".
ReadInv(a) ==
    /\ pc[a] = "readInv"
    /\ Move(a, IF exists THEN "readTurns" ELSE "stopped")
    /\ UNCHANGED <<db, threadVars, kind, expect, question, from, stamp, txVars>>

\* Mutation: the question is replaced even when the thread has none.
ReadTurnsUnchecked(a) ==
    /\ pc[a] = "readTurns"
    /\ question' = IF kind[a] \in Reruns
                   THEN [question EXCEPT ![a] = LastQuestion]
                   ELSE question
    /\ Move(a, "readAnswers")
    /\ UNCHANGED <<db, threadVars, kind, expect, from, stamp, txVars>>

\* loadThread, second query; a rerun takes its question from what it returns.
ReadTurns(a) ==
    /\ pc[a] = "readTurns"
    /\ question' = IF kind[a] \in Reruns /\ LastQuestion # None
                   THEN [question EXCEPT ![a] = LastQuestion]
                   ELSE question
    /\ Move(a, "readAnswers")
    /\ UNCHANGED <<db, threadVars, kind, expect, from, stamp, txVars>>

\* loadThread, third query; the runner records the highest version read as
\* the one this answer was created after.
ReadAnswers(a) ==
    /\ pc[a] = "readAnswers"
    /\ from' = [from EXCEPT ![a] = MaxVersion]
    /\ Move(a, "running")
    /\ UNCHANGED <<db, threadVars, kind, expect, question, stamp, txVars>>

\* The turn ends without an Answer: Stop, an error, a conversational Message.
Stop(a) ==
    /\ pc[a] = "running"
    /\ Move(a, "stopped")
    /\ UNCHANGED <<db, threadVars, kind, expect, question, from, stamp, txVars>>

\* The runner returns an Answer, stamping createdAt.
Finish(a) ==
    /\ pc[a] = "running"
    /\ stamp' = [stamp EXCEPT ![a] = 1 + Cardinality({b \in Asks : stamp[b] > 0})]
    /\ Move(a, IF kind[a] = "new" THEN "create" ELSE "save")
    /\ UNCHANGED <<db, threadVars, kind, expect, question, from, txVars>>

\* createInvestigation: one INSERT, committed before saveAnswer starts.
Create(a) ==
    /\ pc[a] = "create"
    /\ exists' = TRUE
    /\ Move(a, "save")
    /\ UNCHANGED <<db, answers, turns, kind, expect, question, from, stamp, txVars>>

-----------------------------------------------------------------------------
(* saveAnswer: one transaction.                                            *)

InTx(a) == pc[a] \in Open

\* Mutations: saves overtake one another; a refused save holds up the rest.
MayBeginAnyOrder(a) == db = "pglite" => \A b \in Asks \ {a} : ~InTx(b)

MayBeginAfterSaved(a) ==
    db = "pglite" => \A b \in Asks \ {a} :
                        stamp[b] \in 1..stamp[a] => pc[b] = "saved"

\* pglite runs one transaction at a time, in the order they were asked for.
\* Saves are asked for in the order the runs concluded.
MayBegin(a) ==
    db = "pglite" => \A b \in Asks \ {a} :
                        /\ ~InTx(b)
                        /\ pc[b] = "save" => stamp[a] < stamp[b]

\* Mutation: no head guard.
TxReadUnguarded(a) ==
    /\ pc[a] = "save"
    /\ MayBegin(a)
    /\ base' = [base EXCEPT ![a] = MaxVersion]
    /\ Move(a, IF LatestRows # {} THEN "demote" ELSE "insert")
    /\ UNCHANGED <<db, threadVars, kind, expect, question, from, stamp, demoted>>

\* SELECT the versions; the head guard; then demote only if there is a head.
TxRead(a) ==
    /\ pc[a] = "save"
    /\ MayBegin(a)
    /\ base' = [base EXCEPT ![a] = MaxVersion]
    /\ Move(a, IF expect[a] # 0 /\ MaxVersion # expect[a] THEN "failed"
               ELSE IF LatestRows # {} THEN "demote" ELSE "insert")
    /\ UNCHANGED <<db, threadVars, kind, expect, question, from, stamp, demoted>>

\* A row another open transaction has updated is locked until that one ends.
RowLocked(a) == \E b \in Asks \ {a} : InTx(b) /\ demoted[b] \cap LatestRows # {}

\* Mutation: the previous head is left alone.
TxDemoteNothing(a) ==
    /\ pc[a] = "demote"
    /\ ~RowLocked(a)
    /\ Move(a, "insert")
    /\ UNCHANGED <<db, threadVars, kind, expect, question, from, stamp, txVars>>

\* UPDATE ... SET is_latest = false WHERE is_latest.  An update that waited for
\* a lock re-checks its row and finds nothing left to do, while one that starts
\* later sees the new head: both can follow a commit by another transaction.
TxDemote(a) ==
    /\ pc[a] = "demote"
    /\ ~RowLocked(a)
    /\ \E rows \in {LatestRows} \cup (IF MaxVersion = base[a] THEN {} ELSE {{}}) :
         demoted' = [demoted EXCEPT ![a] = rows]
    /\ Move(a, "insert")
    /\ UNCHANGED <<db, threadVars, kind, expect, question, from, stamp, base>>

\* Mutation: only one head, but no unique version.
ConflictsHeadOnly(a) == LatestRows \ demoted[a] # {}

\* answers_version_uq and answers_one_latest_uq, against the committed rows.
Conflicts(a) == base[a] + 1 \in Versions \/ LatestRows \ demoted[a] # {}

\* INSERT the new head.  The index makes it wait for another transaction's
\* uncommitted head, then accepts it or raises a unique violation, which
\* rolls the transaction back.
TxInsert(a) ==
    /\ pc[a] = "insert"
    /\ \A b \in Asks : pc[b] # "commit"
    /\ IF Conflicts(a)
       THEN /\ Move(a, "failed")
            /\ demoted' = [demoted EXCEPT ![a] = {}]
       ELSE Move(a, "commit") /\ UNCHANGED demoted
    /\ UNCHANGED <<db, threadVars, kind, expect, question, from, stamp, base>>

\* What the transaction leaves behind: the demoted rows, the new head, the
\* user turn unless this is a rerun, and the agent turn.
Demote(rows) ==
    [i \in DOMAIN answers |->
        IF i \in rows THEN [answers[i] EXCEPT !.latest = FALSE] ELSE answers[i]]

\* Mutation: the version the runner stamped, from the thread it had read.
NewHeadFromDraft(a) == [ask |-> a, version |-> from[a] + 1, latest |-> TRUE, from |-> from[a]]

NewHead(a) == [ask |-> a, version |-> base[a] + 1, latest |-> TRUE, from |-> from[a]]

\* Mutation: a rerun records the question again.
NewTurnsAlwaysAsked(a) ==
    LET turn(role, v) == [role |-> role, ask |-> a, version |-> v, at |-> stamp[a]]
    IN  <<turn("user", 0), turn("agent", base[a] + 1)>>

NewTurns(a) ==
    LET turn(role, v) == [role |-> role, ask |-> a, version |-> v, at |-> stamp[a]]
        reply == turn("agent", base[a] + 1)
    IN  IF kind[a] \in Reruns THEN <<reply>> ELSE <<turn("user", 0), reply>>

TxCommit(a) ==
    /\ pc[a] = "commit"
    /\ answers' = Append(Demote(demoted[a]), NewHead(a))
    /\ turns' = turns \o NewTurns(a)
    /\ demoted' = [demoted EXCEPT ![a] = {}]
    /\ Move(a, "saved")
    /\ UNCHANGED <<db, exists, kind, expect, question, from, stamp, base>>

\* The store refuses the document (G3), an Evidence item has no recorded run,
\* or the connection fails: the transaction rolls back, ask rejects.
TxFail(a) ==
    /\ pc[a] \in {"create", "save"} \cup Open
    /\ demoted' = [demoted EXCEPT ![a] = {}]
    /\ Move(a, "failed")
    /\ UNCHANGED <<db, threadVars, kind, expect, question, from, stamp, base>>

\* The process dies: requests in flight are gone, the database rolls back what
\* was not committed.
InFlight(a) == pc[a] \notin {"idle"} \cup Ended

Crash ==
    /\ \E a \in Asks : InFlight(a)
    /\ pc' = [a \in Asks |-> IF InFlight(a) THEN "lost" ELSE pc[a]]
    /\ demoted' = [a \in Asks |-> {}]
    /\ UNCHANGED <<db, threadVars, kind, expect, question, from, stamp, base>>

-----------------------------------------------------------------------------

Read(a) == Precheck(a) \/ ReadInv(a) \/ ReadTurns(a) \/ ReadAnswers(a)
Run(a) == Finish(a) \/ Stop(a)
Save(a) == Create(a) \/ TxRead(a) \/ TxDemote(a) \/ TxInsert(a) \/ TxCommit(a)

Next ==
    \/ \E a \in Asks : Start(a) \/ Read(a) \/ Run(a) \/ Save(a) \/ TxFail(a)
    \/ Crash

\* The event loop and the database make progress; clients, faults and crashes
\* are under no obligation.
Fairness == \A a \in Asks : WF_vars(Read(a) \/ Run(a) \/ Save(a))

Spec == Init /\ [][Next]_vars /\ Fairness

-----------------------------------------------------------------------------
(* Safety.                                                                 *)

\* The chain is 1..n with one head, and the head is the newest version: the
\* transactions of saveAnswer and the two unique indexes on answers keep it so
\* whichever turns race.
VersionChain ==
    \A i \in DOMAIN answers :
        /\ answers[i].version = i
        /\ answers[i].latest <=> i = Len(answers)

\* On pglite the thread reads in version order (loadThread orders turns by
\* created_at, which the runner stamped before the save), so a follow-up's
\* context and a rerun's question come from the head.
ThreadReadsInVersionOrder ==
    db = "pglite" =>
        \A i, j \in AgentTurns : turns[i].version < turns[j].version => Before(i, j)

\* The thread tells the story of the chain: each version has one agent turn, by
\* the ask that saved it, preceded by that ask's own question unless the ask
\* regenerated an answer, and there is no other turn (saveAnswer's inserts).
TurnsMirrorAnswers ==
    /\ Cardinality(AgentTurns) = Len(answers)
    /\ \A v \in DOMAIN answers : \E j \in AgentTurns :
         /\ turns[j].version = v /\ turns[j].ask = answers[v].ask
         /\ kind[answers[v].ask] \notin Reruns =>
              j - 1 \in UserTurns /\ turns[j - 1].ask = answers[v].ask
    /\ \A i \in UserTurns : kind[turns[i].ask] \notin Reruns
    /\ ThreadReadsInVersionOrder

\* A correction's answer replaces exactly the answer that raised it: it is the
\* next version, made from the raised one, whatever was asked in between
\* (rerunForCorrection's check and the store's head guard).  On pglite it also
\* re-asks the question the raised answer is shown under, if there is one: a
\* thread whose opening save failed has no stored question to repeat.
CorrectionReplacesRaised ==
    \A i \in DOMAIN answers :
        LET a == answers[i].ask IN
        kind[a] = "correction" =>
            /\ answers[i].version = expect[a] + 1
            /\ answers[i].from = expect[a]
            /\ db = "pglite" => ShownUnder(expect[a]) \in {question[a], None}

\* A unique index refuses a save only when another answer was committed after
\* this save read the chain, never because of the save's own demotion.
RefusedOnlyWhenOvertaken ==
    \A a \in Asks : pc[a] = "insert" /\ Conflicts(a) => MaxVersion > base[a]

\* A rerun that repeats a stored question is shown under that question, as
\* priorTurns and the thread view pair them.  (It is not: a follow-up saved
\* while the rerun was running comes between them.)
RerunShownUnderItsQuestion ==
    \A i \in DOMAIN answers :
        LET a == answers[i].ask IN
        kind[a] = "rerun" /\ question[a] # a =>
            ShownUnder(answers[i].version) = question[a]

\* The rows implement the log: committed versions never change, and is_latest
\* always marks the last.
Chain == INSTANCE AnswerLog WITH
    Docs <- Asks,
    log <- [i \in DOMAIN answers |-> [doc |-> answers[i].ask,
                                      version |-> answers[i].version,
                                      from |-> answers[i].from]],
    head <- IF LatestRows = {} THEN 0
            ELSE answers[CHOOSE i \in LatestRows : TRUE].version

AppendOnlyLog == Chain!Spec

-----------------------------------------------------------------------------
(* Liveness.                                                               *)

\* No ask hangs: every lock and queue an ask waits in is left by those ahead of
\* it, also when they are refused, roll back or die.
EveryAskSettles == \A a \in Asks : InFlight(a) ~> pc[a] \in Ended
=============================================================================
