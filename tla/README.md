# Evidata: formal models

TLA+ models of Evidata (the AI data portal in this repository), TLC configurations that
check them on small instances, and TLAPS proofs of their safety for every size of the instance:
every invariant and every safety property of a step that a run checks is a theorem too. Paths are relative to the repository root, which these files call `src/`.

1. [The system](#1-the-system)
2. [Plan](#2-plan)
3. [Modules](#3-modules)
4. [Runs, bounds and what they show](#4-runs-bounds-and-what-they-show)
5. [Fairness](#5-fairness)
6. [Proofs](#6-proofs)
7. [Findings](#7-findings)
8. [What is not modelled](#8-what-is-not-modelled)

## 1. The system

One Node process serves the web application and its API. Handlers are asynchronous
functions: they interleave at every `await` and nowhere else. All durable state is in a
metadata store, by default pglite (Postgres compiled into the process, which runs one
transaction at a time in the order they were asked for), optionally a real Postgres behind
a connection pool (transactions run concurrently under READ COMMITTED). The data that
questions are about lives in other databases, reached through connectors; the model is an
HTTP service. Nothing is locked across an `await`, so most of what can go wrong is two
requests in an order nobody wrote a test for, a process that dies between two statements,
or a value that is used long after it was read.

| Component | Where | State | Operations | What makes it correct |
|---|---|---|---|---|
| Investigation thread | `packages/core/investigation`, `packages/db` | `investigations`, `turns`, `answers`, `evidence`, `query_runs` | `ask` (new, follow-up, rerun, correction): three reads, a run of minutes, one or two transactions | versions are 1..n with one head; committed versions never change; the thread tells the same story; a correction replaces exactly the answer that raised it |
| Correction rerun | `apps/web/lib/correction-rerun.ts` | none | checks that the raised version is still the head, then asks again | same |
| Agent runner | `packages/core/agent` | the turn: evidence, runs, feedback, step counter | the bounded loop: ask the model, gate, execute, record, finalize, stop | a turn ends within its budget; an answer cites only evidence it gathered; every statement is recorded; Stop issues nothing more |
| Model client | `packages/core/provider-openai` | the chat transcript, the pending call | one decision per request | every tool call is answered before the next request |
| Safety gate, redactor, answer contract | `packages/core/safety`, `redaction`, `answer-contract` | none (pure) | `evaluate`, `redact`, `validateAnswer` | only bounded reads of allowed tables run; sensitive values do not leave |
| Members and invites | `apps/web/lib/invite-service.ts`, `authz.ts` | `data_source_memberships`, `data_source_invites` | create, redeem, revoke, remove a member | a link works once, before it expires; roles come from owners; an owner stays |
| Accounts | `packages/core/auth` | `users`, `sessions` | setup, login, register and its roll back, logout | one first user; a refused redemption leaves no account that nobody uses |
| Authoring | `apps/web/lib/authoring-service.ts` | `data_sources.lifecycle`, bindings, contexts, policies | save, publish, unpublish | a published source is ready |
| Connections | `packages/core/connection` | `connections`, `schema_snapshots`, memberships; the in-memory connector cache | create, update, test, introspect, remove, connectorFor, evict | the cached connector and the stored health belong to the stored parameters; a removal is complete |
| Data source resolver | `apps/web/lib/data-source-resolver.ts` | none | resolve, list | an ask gets the published scope and a current connector |
| Postgres connector | `packages/connectors/postgres` | a pool of five backends | run with a time limit, cancel by backend pid | a cancellation ends the statement it was for; clients are released |
| Corrections | `apps/web/lib/suggestion-service.ts` | `suggestions` | submit, accept, reject | one review wins; what is accepted is promoted |
| Calibration and verification | `apps/web/lib/calibration-service.ts`, `verification-service.ts` | glossary terms, entity mappings | draft with a model, promote, reject, edit | one calibration does not repeat what another wrote before it; verified items are not downgraded |
| Model registry | `apps/web/lib/model-provider-service.ts` | `model_providers` | create, list, remove, resolve | an Investigation is answered by the model it is bound to, or refused |
| Ask stream and its client | `apps/web/lib/ask-stream.ts`, `ask-route.ts`, `use-investigation-stream.ts` | the open stream; the page's state | parse, stream, stop, ask again | one terminal event; late events of a superseded request are ignored |
| Conversation and source page | `apps/web/components/thread.tsx`, `data-source-view.tsx`, `authoring-panel.tsx` | the component's state, requests under way | ask, rerun, open another; edit, save, publish, calibrate | what is on screen is what is stored; unsaved edits survive replies |
| Migrations | `apps/web/lib/runtime.ts`, `packages/db/src/client.ts` | the schema and its journal | build the runtime once, run, adopt a baseline | an interrupted boot can be repeated; half a schema is never served |

**How they interact.** A request enters through a route, which resolves the session and
calls a service. `InvestigationService.ask` calls the resolver, which reads the lifecycle,
binding, snapshot, connection and (through the connection service's cache) a connector; it
then reads the thread, hands the runner a question and prior turns, and saves what the
runner returns. The runner calls the model client and, through the safety gate, the
connector. Accepting a correction promotes an item and calls `ask` again. The store's
unique indexes and foreign keys are the only guards several requests share; an
`AbortSignal` carries Stop from the stream down to the statement in flight.

**What is hard.** Two turns of one Investigation racing to be the next version; a rerun
overtaken by a follow-up; Stop arriving at each of the awaits of a turn; a transcript that
must stay well formed whatever the model does; two owners, two redemptions, two setups at
once; an edit of a connection while an ask builds a connector from the old row; sequences
of statements without a transaction that fail in the middle. `PROJECT.json` lists each of
these hazards at its line, with the properties that speak of it or the reason none does.

## 2. Plan

In order of what a wrong answer would cost. Every item is done; the last column says how far.

| # | Module | Subject | State |
|---|---|---|---|
| 1 | `AnswerLog`, `InvestigationThread` | the answer chain under racing turns, on both databases, implementing an append-only log | checked; safety and refinement proved |
| 2 | `AgentRunner` | one turn: its transcript, its statements, Stop | checked; safety proved |
| 3 | `Membership` | links, roles, accounts | checked; safety proved |
| 4 | `Publishing` | authoring, the connection's edits, the connector cache, resolution | checked; safety proved |
| 5 | `PgSession` | the connector's pool, its transactions, the cancel nobody waits for | checked; safety proved |
| 6 | `Corrections` | suggestions, their claim-first review, calibration and verification of the same items | checked; safety proved |
| 7 | `AskConsole` | the conversation on screen over the ask route and the stored thread; which model a thread is bound to | checked; safety proved |
| 8 | `MetadataBoot` | the memoised runtime, the journal and the schema across crashes and upgrades | checked; safety proved |
| 9 | `SourcePage` | the authoring panel over late, failed and lost replies | checked; safety proved |

*Composition.* `InvestigationThread` composes the service, the store's transactions and the
correction rerun; `AgentRunner` the loop, the model client's transcript and the executor;
`Publishing` authoring, the connection service and the resolver; `Corrections` the three services
that write a source's knowledge; `AskConsole` the page, the stream and the route over an abstract
thread. What one module takes from another is stated where it takes it: a run in
`InvestigationThread` ends because `AgentRunner` proves a bound for it, a request of `SourcePage` is
served in one step because `Publishing` has its statements.

*Abstract specification.* `AnswerLog` says what the thread promises (an append-only,
versioned log); `AppendOnlyLog` is the refinement, checked and proved.

*Left open.* Liveness stays with TLC (section 6). Some hazards are what the code does (two connectors built
at once, edits that write back a whole row, an introspection that fails): no property covers these, or
one says that nothing else leads there (`PROJECT.json` says which, section 7 what happens).

## 3. Modules

Each operation of the code is an action named for it; `pc` (per request, or of the one turn)
stands for the `await` a handler is suspended at; every statement that commits on its own is
an action of its own, and statements of one transaction are separate actions only where
another transaction can tell. Variables that exist only to state properties are marked
*history* where they are declared.

**`InvestigationThread`** is one Investigation and any number of asks. `answers` and `turns`
are the committed rows in commit order; `kind`, `expect`, `question`, `from`, `stamp` are an
ask's locals; `base` and `demoted` are what an open `saveAnswer` transaction has read and
locked. `ReadInv`, `ReadTurns`, `ReadAnswers` are the three queries of `loadThread`;
`Finish` and `Stop` how a run ends; `TxRead`, `TxDemote`, `TxInsert`, `TxCommit` the
statements of `saveAnswer`. `db` chooses the database: under `pglite` a transaction begins
only when no other is open and no earlier save waits; under `postgres` transactions
interleave, an `UPDATE` waits for a locked row and then re-checks it, and an `INSERT` waits
for an uncommitted twin in a unique index before it is accepted or refused. `TxFail` is any
refusal by the store or the connection; `Crash` loses what is in flight. Times are abstract:
`stamp` orders the moments at which runs ended, which is the order `loadThread` sorts turns by.

**`AnswerLog`** is the abstract log: append a document as the next version; nothing else.

**`AgentRunner`** is one turn. `iter` is the loop counter, `evidence`, `runs`, `results` what
the turn has gathered, recorded and fed back, `transcript`, `pending`, `consumed`, `explained`
the model client's memory. The model is external: at every request it may decide anything the
client can parse, name several tool calls at once, ignore being told to finalize, or fail.
`client` chooses between tool calls, JSON objects and a scripted provider; `connector` between
Postgres (which first connects and re-checks the signal) and the in-process sample. A request
to the model whose signal fires is assumed to reject; a statement whose signal fires may still
complete. SQL is abstract: the gate's verdict is chosen among those it can return.

**`Membership`** is one Data Source and the accounts of the installation. A request is a setup, a
login, the minting or revoking of a link, the removal of a member or a redemption with or without
signup. Accounts and links that requests create are named by the request. Foreign keys are
`Exists` and `Referenced`; `users_email_uq` is `Taken`; the conditional `UPDATE` that claims a
link is `Claim`; the advisory lock of the first setup is `LockUsers`. A session acts once the request that opened
it has answered (`SignedIn`). A redemption that loses its link takes its session and its account back; when
another session refers to the account by then, the foreign key keeps it and the request ends *orphaned*.
A link lives one unit of `now`. The initial states are an empty installation and one whose source has an owner.

**`Publishing`** is one Connection, the Data Source made with it and the connector cache. Parameters
are numbers, a database's schema a set of tables; each read of `checkReadiness`, of `resolve` and of
`connectorFor` is a step, as is each `DELETE` of `deleteConnection` (those of rows no property
tells apart go together). `touched` records which requests another one wrote into, so that
properties can speak of a request that ran undisturbed. An edit that gives the credentials again, the same or not
(`resent`), counts as a change of the parameters (`ParamsChanged`): it resets the health and unpublishes. `overtaken` marks a connector that was
being built while the cache was emptied.

**`PgSession`** is one `PostgresExecutor` and the runs that share its pool. `at` is the statement a
run has at the server, `session` the transaction state of each backend. The rows are read through a cursor, whose
close is a statement of its own and fails unnoticed (`CloseCursor`, `CloseFails`); from `limits` on, any statement
may exceed `statement_timeout` (`Overrun`). A run that fails rolls back (`Rollback`) and hands its client back whatever
came of that; `unrolled` records the clients whose ROLLBACK a cancel struck, until they are given out again. The pool and the server are
external: the pool hands out its clients in order, opens at most `PoolMax`, and when it is ended closes
a client as it comes back and leaves those who wait for one without; `pg_cancel_backend` names a
backend, so a cancel strikes whatever runs there when it arrives (`Struck`) or nothing (`Missed`).
A session may be lost between any two statements.

**`Corrections`** is what one source knows and who may say so. A request is a submission, an accept or
a reject, a direct edit, or a calibration; its authorization, each read and each write are steps, and
members lose their roles in between. Texts are opaque; a row's `wording` names the request that worded
it last, so that properties can say who is behind what the model is told. A calibration's draft is
whatever the model lists, the same text up to `MaxCopies` times (`Drafts`): the code leaves out what it finds stored
and inserts the rest, each entry a row of its own (`copy`). A source starts with an owner, who may lose that role.

**`AskConsole`** is one browser tab. `screen` and `stream` are the states of the component and of the hook,
`wire` what a turn's reader has still to read, `req` where each turn is at the server, `stored` the
threads. A superseded or stopped turn goes on at the server as it does in the code. Which models are
runnable when a route asks is the environment's choice at each step (`Registries`), because members
register and remove models at any time. `ExchangesFrom` is the loop that rebuilds a conversation from the stored
turns, `Paired` its body; `disturbed` records that a turn was abandoned or a connection lost.

**`MetadataBoot`** is a data directory and the processes that come up over it. `schema` and `journal` are
durable, `stage` and `applied` die with the process. A migration is its position in `MIGRATIONS`; `Needs`
lists the migrations whose objects its SQL uses, `Repeatable` those whose SQL may run twice (with `IF NOT EXISTS`, or statements that do no harm
a second time).
`torn` counts builds that ended between two writes that belong together. Its `Init`, `Next` and the like
carry the prefix `Boot`, so that one module can extend it together with `PgSession`.

**`SourcePage`** is one tab of an owner: the page, the panel's copy of the draft and its flags, and the
requests under way, each served in one step and answered, failed or lost. The reply of a publication or of an unpublication loads the
page anew and mounts the panel afresh also when the panel that asked is gone and another source is shown
(`LifecycleArrives`); other replies to a panel that is gone change nothing (`NobodyListens`). All sources are
authorable by the user.

The `...Proofs` modules hold the proofs (section 6). The
`MC...` modules add symmetry sets and the values of constants a `.cfg` cannot write; definitions whose
comment begins with *Mutation* are wrong variants of the definition after them, used to see each
property fail.

## 4. Runs, bounds and what they show

| Run | Checks | Bound, and why it is enough |
|---|---|---|
| `thread` | the chain, the turns that mirror it, the correction guard, that only an overtaken save is refused, the refinement of `AnswerLog`, and that every ask settles | three asks: the opener and two that race, which is a correction or a rerun against a follow-up and a queue of two behind a lock holder; the proofs cover any number |
| `thread_rerun` | *violation*: a rerun is not always shown under the question it repeats | three asks |
| `runner` | transcript, grounding, recording, obedient models concluding, Stop, and that turns end | four steps: two free ones and the two in which the model is told to finalize; all clients, connectors, decisions, drafts and Stop points |
| `membership` | links join once, roles are granted, a lost redemption leaves no account unless someone logged in to it, one first user, the last owner is lost only to a race | a founder, one link, three requests of any kind, two names, one tick of the clock: a redeemer made owner and two owners removing each other, a lost claim with a login between, two setups |
| `membership_owner` | *violation*: two owners removing each other leave none | two founders, two requests |
| `publishing` | undisturbed authoring keeps a published source ready, the cached connector and the health are the current parameters', a removal is blocked only by use | one table, two parameter sets, three requests of any kind, on a new and on a used source |
| `corrections` | one verdict per suggestion, an accept under way or applied, only authors decide, two calibrations repeat each other only in an overlap | two requests of any kind over a suggestion raised before, two terms and one mapping, each listed up to twice in a draft: a race of two reviewers, two calibrations, a review against an edit |
| `console` | a thread keeps its model, the screen keeps to the stored thread, an answer to its question, every turn settles | two turns of one tab, two questions, two models, with an earlier thread: a turn and the one that supersedes it |
| `boot` | no half schema is served after one torn boot, untorn boots get through, a boot that failed keeps no later request out | the twelve migrations as they are, over every directory a release left behind, upgraded at any time |
| `boot_interrupted` | *violation*: an interrupted boot is not always repeated | the same, one request |
| `page` | a form called saved is what is stored, edits are lost only to a reply that was under way | two sources, three clicks, one edit: two saves that overlap and a calibration, or a save, a publication and a visit |
| `pg` | no client is lost, none goes back in a transaction unless its ROLLBACK was cancelled, timeouts are explained, runs return | two runs on a pool of one, and a second backend for the next pool: the second run inherits what the first left |

Deadlock is not checked where every request may have ended and the model is then at rest: that is
the system idle, and the liveness properties check the waits that could really block.

Several properties excuse a situation instead of forbidding it (*unless overtaken*, *only to a
race*, *torn once*, *late or stray*): the excused situation is one the code does not prevent, and the
property says that nothing else leads there. Where a text in the repository promises more, section 7 quotes
it: three of these promises have a violation run, the others are listed there with the property that
excuses the case.

## 5. Fairness

`InvestigationThread` assumes weak fairness of each ask's own steps: the event loop runs, the database
serves what it is asked, and pglite's queue is first in, first out (its transactions are serialised
by an asynchronous mutex, which `MayBegin` describes). Runs end because the runner's do. Arrivals,
faults and crashes are under no obligation. `AgentRunner` assumes weak fairness of the loop, of the model
(the transport has a timeout of its own and gives up on a silent model) and of the engine
(`statement_timeout` ends every statement); it assumes nothing about what the model decides, so
that turns end is a matter of the budget. `AskConsole` assumes that the server goes on with some turn
it accepted, that the browser reads what arrives and that React runs its effects; a lost connection
also settles a turn, and users are under no obligation. `MetadataBoot` assumes that a build that was
started goes on; it may still fail or die. That a failure passes (`TransientFailuresPass`) is asked only of runs in which
failures and crashes stop and requests keep coming. `PgSession` assumes that each statement ends (from
`SET LOCAL` on `statement_timeout` sees to that; before it the server is assumed to answer, or its loss to be
noticed) and that the pool serves its queue. `Membership`, `Publishing`,
`Corrections` and `SourcePage` state safety only and have no fairness.

## 6. Proofs

Each `...Proofs` module proves about its component (`DatabaseProofs` about two, one after the other) an inductive invariant, and from it the component's type
invariant and the safety properties its run checks. The only assumptions are the named ones
on the constants, which TLC evaluates in every run: that bounds are numbers, that identifiers of
different kinds differ, that `None` is none of the values it stands beside, and (where something is counted)
that a set is finite. A proof goes action by action; what many actions share (moving a request without
writing a row, adding one row, answering one call) is a lemma that says what such a step must
bring, so that an action has only to show that it brings it.

| Module | Theorems | Property |
|---|---|---|
| `InvestigationThreadProofs` | `TypeCorrect`, `ChainHolds`, `RefusalsAreEarned`, `ThreadTellsTheChain`, `CorrectionsReplaceWhatRaisedThem`, `ChainImplementsLog` | `TypeOK`, `VersionChain`, `RefusedOnlyWhenOvertaken`, `TurnsMirrorAnswers`, `CorrectionReplacesRaised`, `AppendOnlyLog` |
| `AgentRunnerProofs` | `TurnIsTyped`, `TurnIsGrounded`, `ObedienceConcludes`, `StopEnds`, `TurnIsTold` | `TypeOK`, `AnswerIsGrounded`, `ObedientModelConcludes`, `StopEndsTurnWithinBudget`, `TranscriptIsWellFormed` |
| `MembershipProofs` | `RowsAreTyped`, `LinksAdmitOnce`, `RolesComeFromGrants`, `RefusalsLeaveNothing`, `SetupRunsOnce`, `LastOwnerFallsToARace` | `TypeOK`, `OneJoinPerLink`, `RolesAreGranted`, `LoserLeavesNothing`, `OneFirstUser`, `LastOwnerLostOnlyToARace` |
| `PublishingProofs` | `RowsAreTyped`, `CachesFollowEdits`, `RemovalsStopForUse`, `AuthoringIsChecked` | `TypeOK`, `ConnectorIsCurrent`, `BlockedOnlyByUse`, `AuthoringKeepsPublishedReady` |
| `CorrectionsProofs` | `RowsAreTyped`, `ReviewsDecideOnce`, `AcceptsAreApplied`, `DecidersAreAuthors`, `DuplicatesOverlapped` | `TypeOK`, `OneVerdict`, `AcceptedIsApplied`, `OnlyAuthorsDecide`, `DuplicatesNeedAnOverlap` |
| `SourcePageProofs` | `PageIsTyped`, `SavedMeansStored`, `EditsSurviveReplies` | `TypeOK`, `CleanFormIsStored`, `EditsLostOnlyToAnOverlap` |
| `AskConsoleProofs` | `ConversationTypes`, `ThreadsKeepTheirModel`, `ScreensMirrorThreads`, `AnswersFit` | `TypeOK`, `OneModelPerThread`, `ScreenMirrorsThread`, `AnswersFitTheirQuestions` |
| `DatabaseProofs` | of `PgSession`: `SessionTypes`, `SessionsKept`, `TimeoutsExplained` | `TypeOK`, `SessionsAreKept`, `TimeoutsAreOwnOrStray` |
| | of `MetadataBoot`: `BootTypes`, `ServedSchemas`, `UntornBoots` | `BootTypeOK`, `ServesWholeSchema`, `UntornBootsRun` |

**The thread** (for every finite set of asks, on both databases). `VersionChain` is not inductive: whether a
commit extends the chain depends on what its transaction read and locked statements ago. `IInv` is
`TypeOK /\ VersionChain /\ Transactions /\ Authors`. `Transactions` says what an open transaction
knows: it read a prefix of the committed chain; if nothing was committed since, one about to insert
holds the head it has to demote; one past its insert saw the whole chain, holds its head, and is alone
there. `Authors` says who wrote the chain: asks that are saved, each once, from versions that were there,
which gives the refinement of `AnswerLog` its documents. A step that moves one ask leaves the chain and
the facts of the others alone (`OnlyCommitWrites`, `StepMovesOne`); `TxCommit` alone extends the chain
(`CommitExtends`). On top of it `Story` relates the turns to the chain. A correction re-asks the question
under which a reader sees the raised answer, and that question is chosen from rows sorted by time, so
the invariant has to hold the order of times: on pglite saves are served in the order in which their runs
ended (`Stamps`, `Queue`), and nobody reads before the opener has made the Investigation (`Opening`). `TurnsTell` says
which turns there are, and `CorrectionsWait` what a correction in flight knows of the answer it
replaces: it was the head when it was read, and on pglite, if it still is, the question shown
under it is still the one the correction took. The last row of a finite set in the order of a reader exists by
induction over the naturals, stated over sets (`LeastNatural`, `SetInduction`, `LastRowExists`), since the
library's induction rules take an operator as a parameter.

**The agent's turn** (for every step budget). The inductive invariant is `Control /\ Records /\ Chat /\ Cites`.
`Control` says where in the budget a turn can stand: an obedient model is in the last step only after
its one rejected draft (`Window`), and a stopped turn has ended as cancelled or is about to. `Records`
says that a step has at most one record, that evidence and the references of the runs that produced it
match one to one, and that only the statement at the engine, and one that was stopped, may have no
record. The transcript needs a third part, `Told`, while the turn runs with a model: every call but the pending one
is answered right behind it, the results told are those the client has consumed, each in one place, and
a rejection is owed or was told once. The proof follows what a request appends message by message
(`AddsOne`).

**Membership.** The argument follows a link from its mint to the one request that claims it
(`LinksAreMinted`, `LinksAreHeld`: between its claim and its join it is that request's, and has let nobody in)
and an account from its insert to its roll back (`AccountsAreHeld`: a request past its roll back, or refused, has
none). That only a login keeps an account from being taken back needs a second invariant (`LoginsComeFirst`): while a
registration is undecided nobody has done anything in its name without a session of a login, and such a session
stays; what keeps the account is then a row somebody signed in has made, or that session itself (`OrphansAreUsed`). `MintersHadTheRole` carries the minter's role from the check to the insert of the link, and
`RolesCameFromLinks` from the link to the member. `FirstUsers` says that one setup at a time is between its
count and its insert, and that it found nobody.

**Publishing.** What a request has read still holds as long as no other request has written into it
(`ReadsStand`, which lists for each statement what the earlier ones established), so the re-check of a save or a
publish decides rightly and a removal finds no row in its way. `CacheFits`, `BuildersFit` and
`ProbesFit` say the same of a cached connector, of one being built and of a probe under way: it has the row's parameters, or
an edit has come since that has not emptied the cache yet.

**Corrections.** A review owns its suggestion from the claim to its end, and only such a
request does (`ClaimsAreHeld`); before the claim it has written nothing (`HandsOff`). Past the capability
check a request is an author's (`VettedByRole`), although the role may be gone by then, and so are the wordings
and verifications it leaves (`WordsAreAuthors`). Rows are named by the request and the text that inserted them; that
no name comes back after a deletion is `LiveArePast`, `SeenArePast` and `NamedArePast`. Of two drafts of one text by different
calibrations, the one inserted last was compared with all its calibration had seen, so the other is not among that.

**The source page.** Replies are told apart by the panel that asked (`Addressed`), and one load at most is under way. A write
that has been done and whose reply is still to come excuses the form; once it has come, the load it triggers reads what
was written (`LoadsAreCurrent`, `FormIsCurrent`). `EditsAreAwaited` says what `late` records: as long as it is
false, what is under way was asked for with the form as it is, or with a form without edits. `StraysAreClean` adds the
publications of panels that are gone: a form gets its edits before, or with `late` set.

**The conversation** (for all questions and models, however many turns are asked). `Threads` ties the server's two
tables together: a turn's answer is stored, in the one Investigation it names or has made, exactly when the turn is
answered, and a thread holds a question. `Bound` says that from the route on a turn about an
Investigation runs on its model, from which `OneModelPerThread` follows. `Streams` ties the hook to the newest
turn: nothing else is read, what it shows as an answer has been stored, and a rerun has an
answer to replace. That is enough for every answer on screen to be stored where the next follow-up goes
(`AnswersAreStored`), whatever is stopped, superseded or lost. The rest of the invariant speaks of a conversation in which nothing was. Then one turn
at most is under way, the one shown (`Alone`): a second can only be asked by abandoning it
(`AbandonsNothing`). `Mirrored` follows that turn past the moment at which its answer is saved: before,
what is stored is what is shown; from then until it settles, the thread rebuilt is the answers shown
with that turn's paired to them. `Told` says that a turn, a rerun too, answers the question its answer
will stand under, and `StoredFit` that the stored answers did. What the two loops over a
thread compute is proved by induction on its length: one more turn is one more pairing (`ExchangesGrow`),
one more exchange one more answer (`AnswersGrow`), a rerun's answer is paired on screen as it is in
the thread (`AnswersOfRerun`), and the last question of a thread is that of the last exchange rebuilt from
it (`LastQuestion`).

**The boot** (for every list of migrations). The invariant lists the three shapes of a directory after at most one
torn boot: *healthy* (schema and journal are prefixes that differ by a baseline to adopt, or by one
repeatable migration), *halted* (the first migration without a row has run and cannot run again) and
*mistaken* (0000 alone was taken for the whole baseline, and the migration that alters `data_sources`
finds no such table). The last two never get ready, which is why one torn boot serves nothing wrong.

**The connector's sessions** (for every finite set of runs and backends and every size of pool). The invariant
follows the clients: a run holds none before it was given one, a live one while it has statements to send;
a cancel under way names the client its sender had, so what it strikes used the same client. A client goes back as
its ROLLBACK left it, so one that is in the pool inside a transaction is among those whose ROLLBACK was struck (`unrolled`).

*What proving changed.* No property was weakened to be provable. The choices in `Membership` and `InvestigationThread` that
had been written as a `CASE` whose guards overlap, of which TLC takes the first, are alternatives in order now, as in the code. `Publishing`
and `SourcePage` assume that `None` is no row. `OnlyAuthorsDecide` became stronger: an
item that nobody drafted was inserted by an author, where it had said only that somebody was one.

The loops of `AskConsole` over a thread's turns are recursive functions, whose value at each
position the prover can follow; they had been folds of the community modules, of which it knows nothing. Its proof asked for what an
answer on screen has to do with the question above it, which became `AnswersFitTheirQuestions`. And it asked that
`None` be no record.

*Only model-checked.* Liveness (`EveryAskSettles`, `EveryTurnEnds`, `EveryTurnSettles`, `TransientFailuresPass`,
`EveryRunReturns`): leads-to under fairness and `ENABLED` are beyond the prover. No module declares a
`RECURSIVE` operator.

## 7. Findings

Three are violation runs whose property restates a text of the repository.

- **A rerun can be shown under another question** (`thread_rerun`). `ask` takes the question of a
  plain rerun before the run and saves without a head guard; a follow-up saved meanwhile comes
  between. Corrections do pass the guard, and `CorrectionReplacesRaised` holds for them.
- **A source can lose its last owner** (`membership_owner`). `removeMember` counts and deletes in two
  statements. `LastOwnerLostOnlyToARace` shows that one removal on its own never does it.
- **An interrupted boot is not always rolled back** (`boot_interrupted`). A migration's journal row is a
  statement of its own after the migration's commit, and an adopted baseline is recorded row by row: a boot
  that ends in between keeps every later boot from running. `ServesWholeSchema` shows that one such end
  never serves half a schema; two can.

Places where the code does less than a text says, without a run of their own. The property named is the one
that allows the case, and shows that nothing else leads there.

- `packages/core/auth/src/auth.ts:161-163` says of the roll back "so a failed claim leaves no orphan account or
  taken username", `apps/web/lib/invite-service.ts:163-165` the same. `register` commits the account before the link is
  claimed; if someone logs in to it meanwhile, `deleteUser` meets the foreign key of that session, the redemption
  ends with a server error, and the account and its name stay (`LoserLeavesNothing`).
- `apps/web/lib/calibration-service.ts:100-101` says its items are "appended only when new — deduped against every
  existing item". A draft is not compared with itself, so a text the model lists twice is written twice; and two
  calibrations that overlap do not see each other's (`DuplicatesNeedAnOverlap`).
- `apps/web/lib/suggestion-service.ts:141-142` says "promote the reviewer-chosen Suggested item to Verified (B3),
  then mark the suggestion accepted". The code marks it first: when the edit or the promotion then fails, is denied
  or finds the item deleted, the suggestion stays accepted and nothing was verified (`AcceptedIsApplied`).
- `apps/web/lib/authoring-service.ts:214` says "a published source is always ready/queryable". A capture that fails
  or finds nothing becomes the newest snapshot and demotes nothing, and two requests that overlap decide on rows the other
  has changed (`AuthoringKeepsPublishedReady` speaks of a save or publish that nobody else wrote into).
- `packages/core/connection/src/connection-service.ts:130-131` evicts "on delete/mutate" so that a "pg pool doesn't
  outlive the connection". A connector being built of the row as it was before an edit is cached after the eviction
  and serves every later ask (`ConnectorIsCurrent`); of two built at once, the overwritten one is never closed.
- `packages/connectors/postgres/src/executor.ts:56` reads a cancelled statement as "query_canceled via
  statement_timeout (the abort path is handled earlier)". A cancel nobody waits for is a third cause: it was another
  run's, on the client this one inherited (`TimeoutsAreOwnOrStray`). Struck at its ROLLBACK, a run hands its client back
  inside a transaction (`SessionsAreKept`).
- `apps/web/components/authoring-panel.tsx:215-216` fills in the drafted overview "only when the owner hasn't written
  one", and decides with the overview of the render in which calibrate was clicked: a text typed while the model drafts is
  overwritten. Unpublishing mounts the panel anew without asking for a save, and a publication asked for in
  one panel takes the edits made meanwhile in the next (`EditsLostOnlyToAnOverlap`).
- `apps/web/components/thread.tsx:126-127` says "the thread accumulates, never wipes". A follow-up picked while a rerun is
  in flight takes the rerun's place when it settles (`ScreenMirrorsThread` speaks of turns that were not abandoned).
- `apps/web/lib/use-investigation-stream.ts:212` says "Superseded/unmounted aborts are intentional — don't surface
  them". The body of a refusal is read under a catch of its own, and its error is set on the turn that superseded it
  (`EveryTurnSettles` shows that this one settles all the same).
- `docs/tech-spec/10-m0-data-model-and-persistence.md:187` wants one row per executed statement. `ask` drops the
  query runs of a turn that ends in a conversational message (`packages/core/investigation/src/service.ts:300-302`).
- `docs/tech-spec/03-agent-and-safety.md` blocks an unauthorized table by policy; the runner feeds that verdict back to
  the model.

Other behaviour worth knowing, about which no text says anything:

- Stop pressed while the statement of the last budgeted step completes ends by budget, and its
  non-answer is saved (`StopEndsTurnWithinBudget` shows that this is the only way).
- Investigations hold a source by a foreign key that `deleteConnection` does not clear; a removal then
  stops half way, when the memberships are gone and nobody can retry (`BlockedOnlyByUse`).
- A redemption whose link is revoked between lookup and claim is reported as expired
  (`apps/web/lib/invite-service.ts:166-169` knows only two reasons).
- An edit of a connection writes back the whole row it read, so a rename can undo a change of parameters
  made meanwhile. A probe that overlaps an edit stores the health of the parameters before it (`ConnectorIsCurrent`).
- An item reworded between a reviewer's look and his verdict is verified in the new wording.

## 8. What is not modelled

- The safety gate and the redactor: one pass over a parsed statement or over rows, without state, and the
  SQL parser is a library. In `AgentRunner` the verdict is a free choice among those the gate can return.
- SQL, prompts, answers' wording, charts and locales: data no property depends on.
- The HTTP transport's retries and the repair of malformed JSON: both end in a decision or a
  failure, which `AgentRunner` has.
- Password hashing, session expiry and logout, the credential vault (cryptography is external).
- The sample connector's seed database and introspection's catalogue queries: no state that outlives a
  request. What a capture returns, or that it fails, is a free choice in `Publishing`.
- The admin pages, the members panel, the context review and the review queue's panel: each posts one
  request and shows its reply.
- `testDraft`, `testPatch`, `closeAll` and the list operations: probes and reads.
- The ports (types only), the evaluation harness and fixtures (test support).
