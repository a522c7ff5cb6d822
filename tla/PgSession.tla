------------------------------ MODULE PgSession ------------------------------
(***************************************************************************)
(* PostgresExecutor: runs share a pool of backends, each run wraps its     *)
(* statement in a read-only transaction, and an abort sends a cancel over  *)
(* a side connection that nobody waits for.  pg_cancel_backend names a     *)
(* backend, not a statement: the cancel stops whatever runs there when it  *)
(* arrives.  The pool and the server are external.                         *)
(***************************************************************************)
EXTENDS Naturals, FiniteSets, Sequences, SequencesExt

CONSTANTS
    Runs,
    Backends,   \* server sessions, by pid
    PoolMax,    \* clients a pool opens (5 in the code)
    None

ASSUME PgAssumption ==
    /\ PoolMax \in Nat \ {0}
    /\ IsFiniteSet(Runs) /\ IsFiniteSet(Backends) /\ None \notin Runs \cup Backends

VARIABLES
    at,         \* where each run is
    client,     \* the client it was given, kept once it is done
    code,       \* what its catch block caught
    result,     \* what its caller gets
    aborted,    \* runs whose signal fired
    overran,    \* history: runs whose own statement exceeded its timeout
    unrolled,   \* history: clients back in the pool with their ROLLBACK cancelled
    queue,      \* runs that wait for a client of the pool
    session,    \* transaction state of each backend
    idle,       \* clients in the pool
    doomed,     \* clients of a pool that was ended
    cancels     \* cancel requests under way: backend and sender

control == <<at, client, code, result>>
server == <<session, idle, doomed>>
history == <<overran, unrolled>>
vars == <<control, aborted, history, queue, server, cancels>>

\* Points where a statement of the run is at the server.
Statements == {"pid", "begin", "limits", "read", "close", "commit", "rollback"}
Held(b) == \E r \in Runs : client[r] = b /\ at[r] \in Statements
Live == {b \in Backends : session[b] # "closed"}

TypeOK ==
    /\ at \in [Runs -> Statements \cup {"new", "waiting", "done"}]
    /\ client \in [Runs -> Backends \cup {None}]
    /\ code \in [Runs -> {"none", "abort", "canceled", "failed"}]
    /\ result \in [Runs -> {"none", "rows", "aborted", "timeout", "error"}]
    /\ aborted \subseteq Runs /\ overran \subseteq Runs /\ unrolled \subseteq Backends
    /\ queue \in Seq(Runs) /\ IsInjective(queue)
    /\ session \in [Backends -> {"closed", "none", "open", "failed", "dead"}]
    /\ idle \subseteq Live /\ doomed \subseteq Live
    /\ cancels \subseteq Backends \X Runs

Init ==
    /\ at = [r \in Runs |-> "new"]
    /\ client = [r \in Runs |-> None]
    /\ code = [r \in Runs |-> "none"]
    /\ result = [r \in Runs |-> "none"]
    /\ aborted = {} /\ overran = {} /\ unrolled = {}
    /\ queue = <<>>
    /\ session = [b \in Backends |-> "closed"]
    /\ idle = {} /\ doomed = {}
    /\ cancels = {}

Return(r, what) ==
    /\ at' = [at EXCEPT ![r] = "done"]
    /\ result' = [result EXCEPT ![r] = what]

-----------------------------------------------------------------------------
(* The pool.                                                               *)

\* A signal that fired before is seen; one that fires while the run waits is not.
Connect(r) ==
    /\ at[r] = "new"
    /\ IF r \in aborted THEN Return(r, "aborted") /\ UNCHANGED queue
       ELSE /\ at' = [at EXCEPT ![r] = "waiting"]
            /\ queue' = Append(queue, r) /\ UNCHANGED result
    /\ UNCHANGED <<client, code, aborted, history, server, cancels>>

Given(r, b) ==
    /\ client' = [client EXCEPT ![r] = b]
    /\ at' = [at EXCEPT ![r] = "pid"]
    /\ queue' = Tail(queue)
    /\ unrolled' = unrolled \ {b}
    /\ UNCHANGED <<code, result, aborted, overran, doomed, cancels>>

\* First come, first served: an idle client, or a new one while there is room.
\* No pid is used again while a cancel that names it is under way.
Dispense == queue # <<>> /\ LET r == Head(queue) IN
    \/ \E b \in idle :
         Given(r, b) /\ idle' = idle \ {b} /\ UNCHANGED session
    \/ /\ idle = {} /\ Cardinality(Live \ doomed) < PoolMax
       /\ \/ \E b \in Backends \ (Live \cup {c[1] : c \in cancels}) :
               Given(r, b) /\ session' = [session EXCEPT ![b] = "none"] /\ UNCHANGED idle
          \/ /\ Return(r, "error") /\ queue' = Tail(queue)
             /\ UNCHANGED <<client, code, aborted, history, server, cancels>>

\* client.release(): an unusable client, or one of an ended pool, is dropped.
Release(b, state) ==
    IF state = "dead" \/ b \in doomed
    THEN /\ session' = [session EXCEPT ![b] = "closed"]
         /\ doomed' = doomed \ {b} /\ UNCHANGED idle
    ELSE /\ session' = [session EXCEPT ![b] = state]
         /\ idle' = idle \cup {b} /\ UNCHANGED doomed

\* close(): what is idle is closed now, what is out when it comes back.  The
\* next run builds a new pool, and nobody serves those who wait for this one.
Close ==
    /\ Live \ doomed # {}
    /\ session' = [b \in Backends |-> IF b \in idle THEN "closed" ELSE session[b]]
    /\ doomed' = Live \ idle /\ idle' = {}
    /\ queue' = <<>>
    /\ UNCHANGED <<control, aborted, history, cancels>>

-----------------------------------------------------------------------------
(* run(), one statement at a time.                                         *)

Goes(r, point) ==
    /\ at' = [at EXCEPT ![r] = point]
    /\ UNCHANGED <<client, code, result, aborted, history, queue, idle, doomed, cancels>>

\* A statement failed: into the catch block.
Catch(r, what, state) ==
    /\ at' = [at EXCEPT ![r] = "rollback"]
    /\ code' = [code EXCEPT ![r] = what]
    /\ session' = [session EXCEPT ![client[r]] = state]
    /\ UNCHANGED <<client, result, unrolled, queue, idle, doomed>>

\* After an error a transaction accepts nothing but its end.
Broken(state) == IF state = "open" THEN "failed" ELSE state

Pid(r) ==
    /\ at[r] = "pid" /\ session[client[r]] \in {"none", "open"}
    /\ IF r \in aborted
       THEN Catch(r, "abort", session[client[r]]) /\ UNCHANGED <<aborted, overran, cancels>>
       ELSE Goes(r, "begin") /\ UNCHANGED session

Begin(r) ==
    /\ at[r] = "begin" /\ session[client[r]] \in {"none", "open"}
    /\ Goes(r, "limits") /\ session' = [session EXCEPT ![client[r]] = "open"]

\* The two timeouts, for this transaction only.
Limits(r) ==
    /\ at[r] = "limits" /\ session[client[r]] = "open"
    /\ Goes(r, "read") /\ UNCHANGED session

ReadRows(r) ==
    /\ at[r] = "read" /\ session[client[r]] = "open"
    /\ \/ Goes(r, "close") /\ UNCHANGED session
       \/ Catch(r, "failed", "failed") /\ UNCHANGED <<aborted, overran, cancels>>

CloseCursor(r) ==
    /\ at[r] = "close" /\ session[client[r]] = "open"
    /\ Goes(r, "commit") /\ UNCHANGED session

\* COMMIT ends a transaction that has failed, too, and reports no error.
Commit(r) ==
    /\ at[r] = "commit" /\ session[client[r]] \in {"open", "failed"}
    /\ Return(r, "rows") /\ Release(client[r], "none")
    /\ UNCHANGED <<client, code, aborted, history, queue, cancels>>

\* The cursor's close calls back whether or not the server refused it.
CloseFails(r, state) ==
    /\ at' = [at EXCEPT ![r] = "commit"]
    /\ session' = [session EXCEPT ![client[r]] = state]
    /\ UNCHANGED <<client, code, result, unrolled, queue, idle, doomed>>

\* Once statement_timeout is set, any statement of the transaction may exceed it.
Overrun(r) ==
    /\ at[r] \in {"limits", "read", "close", "commit"} /\ session[client[r]] = "open"
    /\ IF at[r] = "close" THEN CloseFails(r, "failed") ELSE Catch(r, "canceled", "failed")
    /\ overran' = overran \cup {r}
    /\ UNCHANGED <<aborted, cancels>>

\* Mutation: the catch block forgets why its statement was cancelled.
OutcomeByCode(r) ==
    IF code[r] = "abort" THEN "aborted"
    ELSE IF code[r] = "canceled" THEN "timeout" ELSE "error"

\* The catch block's verdict: an abort first, then mapError.
Outcome(r) ==
    IF r \in aborted THEN "aborted"
    ELSE IF code[r] = "canceled" THEN "timeout" ELSE "error"

\* Mutation: the catch block does not roll back.
AfterRollbackSkipped(state) == state

\* What ROLLBACK leaves.
AfterRollback(state) == IF state = "dead" THEN "dead" ELSE "none"

\* Mutation: the client is released on the way of success only.
RollbackUnreleased(r) ==
    /\ at[r] = "rollback"
    /\ Return(r, Outcome(r))
    /\ session' = [session EXCEPT ![client[r]] = AfterRollback(session[client[r]])]
    /\ UNCHANGED <<client, code, aborted, history, queue, idle, doomed, cancels>>

Rollback(r) ==
    /\ at[r] = "rollback"
    /\ Return(r, Outcome(r)) /\ Release(client[r], AfterRollback(session[client[r]]))
    /\ UNCHANGED <<client, code, aborted, history, queue, cancels>>

\* A backend that is gone, or in a transaction that failed, refuses the statement.
Refused(r) ==
    /\ at[r] \in Statements \ {"rollback"}
    /\ session[client[r]] \in IF at[r] = "commit" THEN {"dead"} ELSE {"failed", "dead"}
    /\ IF at[r] = "close" THEN CloseFails(r, session[client[r]])
                          ELSE Catch(r, "failed", session[client[r]])
    /\ UNCHANGED <<aborted, overran, cancels>>

-----------------------------------------------------------------------------
(* Cancellation, timeouts and failures.                                    *)

\* The listener is there while the run holds its client; the pid is known once
\* the first statement has answered.
Abort(r) ==
    /\ r \notin aborted /\ at[r] # "done"
    /\ aborted' = aborted \cup {r}
    /\ cancels' = IF at[r] \in Statements \ {"pid"} THEN cancels \cup {<<client[r], r>>}
                                                   ELSE cancels
    /\ UNCHANGED <<control, history, queue, server>>

\* A cancel stops the statement its backend is at.  A ROLLBACK that fails so is
\* swallowed, and the client returns as it is.
Struck(r) == \E c \in cancels :
    /\ at[r] \in Statements /\ c[1] = client[r]
    /\ session[client[r]] # "dead"
    /\ cancels' = cancels \ {c}
    /\ CASE at[r] = "rollback" ->
              /\ Return(r, Outcome(r)) /\ Release(client[r], session[client[r]])
              /\ unrolled' = unrolled \cup {client[r]}
              /\ UNCHANGED <<client, code, queue>>
         [] at[r] = "close" -> CloseFails(r, Broken(session[client[r]]))
         [] OTHER -> Catch(r, "canceled", Broken(session[client[r]]))
    /\ UNCHANGED <<aborted, overran>>

\* ... or finds nothing to stop, or never gets there.
Missed == \E c \in cancels :
    /\ cancels' = cancels \ {c}
    /\ UNCHANGED <<control, aborted, history, queue, server>>

\* A session ends: a network failure, or the idle timeout of a transaction that
\* was left open.  The pool forgets an idle client; the others find out.
Lost(b) ==
    /\ session[b] \notin {"closed", "dead"}
    /\ session' = [session EXCEPT ![b] = IF b \in idle THEN "closed" ELSE "dead"]
    /\ idle' = idle \ {b}
    /\ UNCHANGED <<control, aborted, history, queue, doomed, cancels>>

Step(r) ==
    \/ Connect(r) \/ Pid(r) \/ Begin(r) \/ Limits(r) \/ ReadRows(r) \/ CloseCursor(r)
    \/ Commit(r) \/ Overrun(r) \/ Rollback(r) \/ Refused(r)

Next ==
    \/ \E r \in Runs : Step(r) \/ Abort(r) \/ Struck(r)
    \/ Dispense \/ Close \/ Missed
    \/ \E b \in Backends : Lost(b)

\* Statements end, if only by their timeout, and the pool serves its queue.
Spec == Init /\ [][Next]_vars /\ WF_vars(Dispense) /\ \A r \in Runs : WF_vars(Step(r))

-----------------------------------------------------------------------------
(* Properties.                                                             *)

\* Every client is in the pool or with one run, and an ended pool's with a run:
\* no path through run() loses one of the five.
EveryClientIsSomewhere ==
    /\ \A b \in Live : b \in idle \/ Held(b)
    /\ \A b \in idle : ~Held(b)
    /\ \A r, s \in Runs : r # s /\ at[r] \in Statements /\ at[s] \in Statements
                            => client[r] # client[s]

\* No client is in the pool inside a transaction, unless it came back with its
\* ROLLBACK cancelled and has not been given out since.
PooledSessionsAreClean == \A b \in idle : session[b] # "none" => b \in unrolled

\* Both, for the clients of every pool the executor has built.
SessionsAreKept == EveryClientIsSomewhere /\ PooledSessionsAreClean

\* A run is told it ran out of time only when it did, or when its backend served
\* an aborted run before it, whose cancel came late.
TimeoutsAreOwnOrStray ==
    \A r \in Runs : result[r] = "timeout" =>
        r \in overran \/ \E s \in aborted \ {r} : client[s] = client[r]

\* Every run ends, unless the pool it waits for is closed.
EveryRunReturns ==
    \A r \in Runs : at[r] \in Statements \/ r \in Range(queue) ~>
        at[r] = "done" \/ (at[r] = "waiting" /\ r \notin Range(queue))

=============================================================================
