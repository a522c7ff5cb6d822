----------------------------- MODULE MetadataBoot -----------------------------
(***************************************************************************)
(* Bringing the embedded metadata store up to date: getRuntime, which      *)
(* builds the runtime once and forgets a build that failed, and            *)
(* runMigrations with its journal, over a data directory that outlives the *)
(* process.  A migration commits in a transaction of its own; its journal  *)
(* row is a second statement.  The process may die, or a statement fail,   *)
(* between any two steps, and a newer release may be deployed over the     *)
(* same directory.  (The opt-in Postgres host is migrated by a deploy      *)
(* step, not here.)                                                        *)
(*                                                                         *)
(* A migration is its position in MIGRATIONS.                              *)
(***************************************************************************)
EXTENDS Naturals

CONSTANTS
    N,              \* migrations of the newest release
    DataSources,    \* the one that creates data_sources
    Lifecycle,      \* the one that adds data_sources.lifecycle
    Repeatable,     \* those whose SQL may run twice
    Needs,          \* for each, those whose objects its SQL uses
    Requests

ASSUME BootAssumption ==
    /\ {N, DataSources, Lifecycle} \subseteq Nat
    /\ 1 < DataSources /\ Lifecycle = DataSources + 1 /\ Lifecycle <= N
    /\ Repeatable \subseteq (Lifecycle + 1)..N
    /\ Needs \in [1..N -> SUBSET (1..N)]
    /\ \A m \in 1..N : \A n \in Needs[m] : n < m
    /\ DataSources \in Needs[Lifecycle]

VARIABLES
    schema,     \* the migrations committed to the data directory
    journal,    \* the names in _evidata_migrations
    shipped,    \* MIGRATIONS of the release deployed is 1..shipped
    stage,      \* where the process is: down, idle, in a build, or ready
    applied,    \* runMigrations' set
    waiting,    \* requests that wait for the runtime
    torn        \* history: builds that ended between two writes that belong together
                \* (two are as many)

disk == <<schema, journal>>
bootVars == <<disk, shipped, stage, applied, waiting, torn>>

Building == {"journal", "adopt", "apply", "record"}

BootTypeOK ==
    /\ schema \subseteq 1..N /\ journal \subseteq 1..N /\ applied \subseteq 1..N
    /\ shipped \in Lifecycle..N
    /\ stage \in Building \cup {"down", "idle", "ready"}
    /\ waiting \subseteq Requests
    /\ torn \in 0..2

\* A fresh directory, or one an early release left behind without a journal.
BootInit ==
    /\ schema \in {{}, 1..DataSources, 1..Lifecycle}
    /\ journal = {} /\ applied = {}
    /\ shipped \in Lifecycle..N
    /\ stage = "down"
    /\ waiting = {}
    /\ torn = 0

-----------------------------------------------------------------------------

\* The head of the loops over MIGRATIONS.
First(m, S) == m \in S /\ \A n \in S : m <= n
Unadopted == applied \ journal
Pending == (1..shipped) \ applied

\* CREATE fails on what exists, ALTER on what does not.
CanRun(m) == Needs[m] \subseteq schema /\ (m \in schema => m \in Repeatable)

\* Mutation: the lifecycle column is not looked for.
BaselineAssumed == IF 1 \notin schema THEN {} ELSE 1..Lifecycle

\* adoptBaseline: what the objects present say has run.
Baseline ==
    IF 1 \notin schema THEN {}
    ELSE IF Lifecycle \notin schema THEN 1..DataSources
    ELSE 1..Lifecycle

\* Where a build that ends here leaves two writes apart.
Tearing ==
    \/ stage = "record" /\ \E m \in Pending : First(m, Pending) /\ m \notin Repeatable
    \/ stage = "adopt" /\ journal # {} /\ Unadopted # {}

Ends == torn' = IF Tearing /\ torn < 2 THEN torn + 1 ELSE torn

-----------------------------------------------------------------------------

\* The newest release may be deployed with the start.
Start ==
    /\ stage = "down" /\ stage' = "idle"
    /\ \E s \in shipped..N : shipped' = s
    /\ UNCHANGED <<disk, applied, waiting, torn>>

\* One build at a time; whoever comes meanwhile waits for the same promise, and
\* once it has resolved nobody waits.
GetRuntime(q) ==
    /\ stage \in Building \cup {"idle"} /\ q \notin waiting
    /\ waiting' = waiting \cup {q}
    /\ stage' = IF stage = "idle" THEN "journal" ELSE stage
    /\ UNCHANGED <<disk, shipped, applied, torn>>

\* CREATE TABLE IF NOT EXISTS, SELECT, and the baseline of an empty journal.
ReadJournal ==
    /\ stage = "journal"
    /\ applied' = IF journal = {} THEN Baseline ELSE journal
    /\ stage' = "adopt"
    /\ UNCHANGED <<disk, shipped, waiting, torn>>

\* One insert per adopted name.
Adopt ==
    /\ stage = "adopt"
    /\ IF Unadopted = {} THEN stage' = "apply" /\ UNCHANGED journal
       ELSE /\ \E m \in Unadopted : First(m, Unadopted) /\ journal' = journal \cup {m}
            /\ UNCHANGED stage
    /\ UNCHANGED <<schema, shipped, applied, waiting, torn>>

Apply ==
    /\ stage = "apply"
    /\ \E m \in Pending :
         /\ First(m, Pending) /\ CanRun(m)
         /\ schema' = schema \cup {m}
    /\ stage' = "record"
    /\ UNCHANGED <<journal, shipped, applied, waiting, torn>>

\* Mutation: only the newest name is kept, as a version number would be.
RecordNewest ==
    /\ stage = "record"
    /\ \E m \in Pending :
         /\ First(m, Pending)
         /\ journal' = {m} /\ applied' = applied \cup {m}
    /\ stage' = "apply"
    /\ UNCHANGED <<schema, shipped, waiting, torn>>

\* Mutation: the row of the next migration is written.
RecordAhead ==
    /\ stage = "record"
    /\ \E m \in Pending :
         /\ First(m, Pending)
         /\ journal' = journal \cup {m + 1} /\ applied' = applied \cup {m}
    /\ stage' = "apply"
    /\ UNCHANGED <<schema, shipped, waiting, torn>>

Record ==
    /\ stage = "record"
    /\ \E m \in Pending :
         /\ First(m, Pending)
         /\ journal' = journal \cup {m} /\ applied' = applied \cup {m}
    /\ stage' = "apply"
    /\ UNCHANGED <<schema, shipped, waiting, torn>>

Ready ==
    /\ stage = "apply" /\ Pending = {}
    /\ stage' = "ready" /\ waiting' = {}
    /\ UNCHANGED <<disk, shipped, applied, torn>>

\* Mutation: the rejected promise stays memoized, and every later request is
\* answered with it.
RejectMemoized ==
    /\ stage' = "rejected" /\ applied' = {} /\ waiting' = {}
    /\ UNCHANGED <<disk, shipped>>

\* build() rejects: everyone who waits is told, and the next request builds anew.
Reject ==
    /\ stage' = "idle" /\ applied' = {} /\ waiting' = {}
    /\ UNCHANGED <<disk, shipped>>

\* The SQL of a migration cannot run; its transaction leaves nothing.
CannotRun ==
    /\ stage = "apply"
    /\ \E m \in Pending : First(m, Pending) /\ ~CanRun(m)
    /\ Reject /\ UNCHANGED torn

\* Any statement may fail for reasons of its own.
Fail == stage \in Building /\ Reject /\ Ends

Crash ==
    /\ stage # "down"
    /\ stage' = "down" /\ applied' = {} /\ waiting' = {}
    /\ Ends
    /\ UNCHANGED <<disk, shipped>>

Build == ReadJournal \/ Adopt \/ Apply \/ Record \/ Ready \/ CannotRun

BootNext ==
    \/ Start \/ Build \/ Fail \/ Crash
    \/ \E q \in Requests : GetRuntime(q)

BootSpec == BootInit /\ [][BootNext]_bootVars /\ WF_bootVars(Build)

-----------------------------------------------------------------------------
(* Properties.                                                             *)

\* No request is served on half a schema: once the runtime is ready, every
\* migration of the release is committed, also when one boot was torn before.
\* (Two can do it: the first leaves 0000 without its row, and the second ends
\* while rows are written for the baseline that 0000 is taken for.)
ServesWholeSchema == stage = "ready" /\ torn < 2 => 1..shipped \subseteq schema

\* Every boot gets through its migrations, unless an earlier one ended between a
\* commit and its journal row, or half way through adopting a baseline.
UntornBootsRun ==
    torn = 0 /\ stage = "apply" => \A m \in Pending : First(m, Pending) => CanRun(m)

Fault == Fail \/ Crash

\* "Reset on failure so a transient build error can retry, rather than caching a
\* rejected promise forever": however often builds failed and processes died, once
\* that has passed and requests keep coming the process gets ready, unless a
\* build was torn.
TransientFailuresPass ==
    /\ [](torn = 0) /\ <>[][~Fault]_bootVars
    /\ WF_bootVars(Start) /\ WF_bootVars(\E q \in Requests : GetRuntime(q))
    => <>[](stage = "ready")

\* "Each migration runs in its own transaction (atomic; an interrupted boot
\* rolls back)": whatever was interrupted, the next boot gets through.
EveryBootRuns == stage = "apply" => \A m \in Pending : First(m, Pending) => CanRun(m)

=============================================================================
