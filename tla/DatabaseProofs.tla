---------------------------- MODULE DatabaseProofs ----------------------------
(***************************************************************************)
(* The two databases of the program: the one it is connected to, whose     *)
(* sessions runs share (PgSession), and the one of its own, which boots    *)
(* bring up to date (MetadataBoot).                                        *)
(*                                                                         *)
(* What runs may rely on, for every set of runs and every size of pool:    *)
(* each client is in the pool or with one run, it goes back outside a      *)
(* transaction, and a late cancel is the only thing one run can do to      *)
(* another.  The argument follows the clients: a run holds none before it  *)
(* was given one, a live one while it has statements to send, and a cancel *)
(* under way names the client its sender had.                              *)
(***************************************************************************)
EXTENDS PgSession, MetadataBoot, SequenceTheorems, TLAPS

QueueWaits == \A i \in DOMAIN queue : at[queue[i]] = "waiting"

Seated == \A r \in Runs :
    /\ at[r] \in {"new", "waiting"} => client[r] = None
    /\ at[r] \in Statements => client[r] \in Live

CancelsAreKnown == \A c \in cancels : c[2] \in aborted /\ client[c[2]] = c[1]

CancelledForAReason == \A r \in Runs : code[r] = "canceled" =>
    /\ client[r] # None
    /\ r \in overran \/ \E s \in aborted : client[s] = client[r]

TimedOutOnAClient == \A r \in Runs : result[r] = "timeout" => client[r] # None

DoomedAreOut == idle \cap doomed = {}

IInv ==
    /\ TypeOK /\ QueueWaits /\ Seated /\ DoomedAreOut /\ CancelsAreKnown /\ CancelledForAReason
    /\ TimedOutOnAClient /\ SessionsAreKept /\ TimeoutsAreOwnOrStray


-----------------------------------------------------------------------------
(* The queue.                                                              *)

\* A run that does not wait yet may join the queue.
LEMMA QueueGrows ==
    ASSUME NEW q \in Seq(Runs), IsInjective(q), NEW r \in Runs, \A i \in DOMAIN q : q[i] # r
    PROVE  /\ Append(q, r) \in Seq(Runs) /\ IsInjective(Append(q, r))
           /\ \A i \in DOMAIN Append(q, r) :
                \/ i \in DOMAIN q /\ Append(q, r)[i] = q[i]
                \/ Append(q, r)[i] = r
<1>1. Append(q, r) \in Seq(Runs) /\ Len(Append(q, r)) = Len(q) + 1
      /\ \A i \in 1..(Len(q) + 1) : Append(q, r)[i] = IF i = Len(q) + 1 THEN r ELSE q[i]
  BY AppendProperties
<1>2. DOMAIN Append(q, r) = 1..(Len(q) + 1) /\ DOMAIN q = 1..Len(q) /\ Len(q) \in Nat
  BY <1>1
<1> QED BY <1>1, <1>2 DEF IsInjective

\* The head is in no other place of it.
LEMMA QueueShrinks ==
    ASSUME NEW q \in Seq(Runs), IsInjective(q), q # <<>>
    PROVE  /\ Head(q) \in Runs /\ Tail(q) \in Seq(Runs) /\ IsInjective(Tail(q))
           /\ 1 \in DOMAIN q /\ Head(q) = q[1]
           /\ \A i \in DOMAIN Tail(q) :
                Tail(q)[i] # Head(q) /\ \E j \in DOMAIN q : Tail(q)[i] = q[j]
<1>1. /\ Head(q) \in Runs /\ Tail(q) \in Seq(Runs) /\ Len(Tail(q)) = Len(q) - 1
      /\ \A i \in 1..Len(Tail(q)) : Tail(q)[i] = q[i + 1]
  BY HeadTailProperties
<1>2. /\ DOMAIN Tail(q) = 1..(Len(q) - 1) /\ DOMAIN q = 1..Len(q)
      /\ Len(q) \in Nat /\ Len(q) # 0 /\ Head(q) = q[1]
  BY <1>1, EmptySeq
<1> QED BY <1>1, <1>2 DEF IsInjective

-----------------------------------------------------------------------------
(* Every step keeps IInv.                                                  *)

\* A run joins the queue, or leaves with its signal.
LEMMA ConnectKeeps ==
    ASSUME IInv, NEW r \in Runs, Connect(r)
    PROVE  IInv'
<1>1. CASE r \in aborted
  <2>1. TypeOK' /\ DoomedAreOut'
    BY <1>1, PgAssumption DEF IInv, TypeOK, Seated, Live, Statements, DoomedAreOut,
       SessionsAreKept, EveryClientIsSomewhere, Held, Connect, Return, control, history, server
  <2>2. QueueWaits' /\ Seated'
    BY <1>1, PgAssumption DEF IInv, TypeOK, Seated, Live, Statements, QueueWaits,
       SessionsAreKept, EveryClientIsSomewhere, Held, Connect, Return, control, history, server
  <2>3. CancelsAreKnown' /\ CancelledForAReason'
    BY <1>1, PgAssumption DEF IInv, TypeOK, Seated, Live, Statements, CancelsAreKnown,
       CancelledForAReason, Connect, Return, control, history, server
  <2>4. TimedOutOnAClient' /\ TimeoutsAreOwnOrStray'
    BY <1>1, PgAssumption DEF IInv, TypeOK, Seated, Live, Statements,
       CancelledForAReason, TimedOutOnAClient, TimeoutsAreOwnOrStray, Connect, Return,
       control, history, server
  <2>5. EveryClientIsSomewhere'
    BY <1>1, PgAssumption DEF IInv, TypeOK, Seated, Live, Statements, SessionsAreKept,
       EveryClientIsSomewhere, Held, Connect, Return, control, history, server
  <2>6. PooledSessionsAreClean'
    BY <1>1, PgAssumption DEF IInv, TypeOK, Seated, Live, Statements, SessionsAreKept,
       EveryClientIsSomewhere, Held, PooledSessionsAreClean, CancelsAreKnown, Connect,
       Return, control, history, server
  <2> QED BY <2>1, <2>2, <2>3, <2>4, <2>5, <2>6 DEF IInv, SessionsAreKept
<1>2. CASE r \notin aborted
  <2>a. /\ at' = [at EXCEPT ![r] = "waiting"] /\ at[r] = "new" /\ queue' = Append(queue, r)
        /\ UNCHANGED <<client, code, result, aborted, overran, unrolled, session, idle, doomed, cancels>>
    BY <1>2 DEF Connect, control, history, server
  <2>b. /\ queue' \in Seq(Runs) /\ IsInjective(queue')
        /\ \A i \in DOMAIN queue' : (i \in DOMAIN queue /\ queue'[i] = queue[i]) \/ queue'[i] = r
    <3>1. \A i \in DOMAIN queue : queue[i] # r
      BY DEF IInv, QueueWaits, Connect
    <3> QED BY <3>1, <2>a, QueueGrows DEF IInv, TypeOK
  <2>1. TypeOK' /\ DoomedAreOut'
    BY <2>a, <2>b, PgAssumption DEF IInv, TypeOK, Seated, Live, Statements,
       DoomedAreOut, SessionsAreKept, EveryClientIsSomewhere, Held
  <2>2. QueueWaits' /\ Seated'
    BY <2>a, <2>b, PgAssumption DEF IInv, TypeOK, Seated, Live, Statements,
       QueueWaits, SessionsAreKept, EveryClientIsSomewhere, Held
  <2>3. CancelsAreKnown' /\ CancelledForAReason'
    BY <2>a, <2>b, PgAssumption DEF IInv, TypeOK, Seated, Live, Statements,
       CancelsAreKnown, CancelledForAReason
  <2>4. TimedOutOnAClient' /\ TimeoutsAreOwnOrStray'
    BY <2>a, <2>b, PgAssumption DEF IInv, TypeOK, Seated, Live, Statements,
       CancelledForAReason, TimedOutOnAClient, TimeoutsAreOwnOrStray
  <2>5. EveryClientIsSomewhere'
    BY <2>a, <2>b, PgAssumption DEF IInv, TypeOK, Seated, Live, Statements,
       SessionsAreKept, EveryClientIsSomewhere, Held
  <2>6. PooledSessionsAreClean'
    BY <2>a, <2>b, PgAssumption DEF IInv, TypeOK, Seated, Live, Statements,
       SessionsAreKept, EveryClientIsSomewhere, Held, PooledSessionsAreClean,
       CancelsAreKnown
  <2> QED BY <2>1, <2>2, <2>3, <2>4, <2>5, <2>6 DEF IInv, SessionsAreKept
<1> QED BY <1>1, <1>2

\* The pool serves the run at the head of its queue.
LEMMA DispenseKeeps ==
    ASSUME IInv, Dispense
    PROVE  IInv'
<1> DEFINE r == Head(queue)
<1>a. /\ r \in Runs /\ at[r] = "waiting"
      /\ Tail(queue) \in Seq(Runs) /\ IsInjective(Tail(queue))
      /\ \A i \in DOMAIN Tail(queue) : Tail(queue)[i] # r /\ at[Tail(queue)[i]] = "waiting"
  BY QueueShrinks DEF IInv, TypeOK, QueueWaits, Dispense
<1>b. r \in Runs /\ client[r] = None /\ code[r] # "canceled" /\ result[r] # "timeout"
  BY <1>a DEF IInv, Seated, CancelledForAReason, TimedOutOnAClient
<1>1. ASSUME NEW b \in Backends \ doomed, Given(r, b), session[b] # "closed" => b \in idle,
             \/ b \in idle /\ session' = session
             \/ b \notin Live /\ session' = [session EXCEPT ![b] = "none"],
             idle' = idle \ {b}
      PROVE  IInv'
  <2>1. TypeOK' /\ DoomedAreOut'
    BY <1>1, <1>a, <1>b, PgAssumption DEF IInv, TypeOK, Seated, Live, Statements,
       DoomedAreOut, SessionsAreKept, EveryClientIsSomewhere, Held, Given
  <2>2. QueueWaits' /\ Seated'
    BY <1>1, <1>a, <1>b, PgAssumption DEF IInv, TypeOK, Seated, Live, Statements,
       QueueWaits, SessionsAreKept, EveryClientIsSomewhere, Held, Given
  <2>3. CancelsAreKnown' /\ CancelledForAReason'
    BY <1>1, <1>a, <1>b, PgAssumption DEF IInv, TypeOK, Seated, Live, Statements,
       CancelsAreKnown, CancelledForAReason, Given
  <2>4. TimedOutOnAClient' /\ TimeoutsAreOwnOrStray'
    BY <1>1, <1>a, <1>b, PgAssumption DEF IInv, TypeOK, Seated, Live, Statements,
       CancelledForAReason, TimedOutOnAClient, TimeoutsAreOwnOrStray, Given
  <2>5. EveryClientIsSomewhere'
    BY <1>1, <1>a, <1>b, PgAssumption DEF IInv, TypeOK, Seated, Live, Statements,
       SessionsAreKept, EveryClientIsSomewhere, Held, Given
  <2>6. PooledSessionsAreClean'
    BY <1>1, <1>a, <1>b, PgAssumption DEF IInv, TypeOK, Seated, Live, Statements,
       SessionsAreKept, EveryClientIsSomewhere, Held, PooledSessionsAreClean,
       CancelsAreKnown, Given
  <2> QED BY <2>1, <2>2, <2>3, <2>4, <2>5, <2>6 DEF IInv, SessionsAreKept
<1>2. ASSUME Return(r, "error"), queue' = Tail(queue),
             UNCHANGED <<client, code, aborted, overran, unrolled, server, cancels>>
      PROVE  IInv'
  <2>1. TypeOK' /\ DoomedAreOut'
    BY <1>2, <1>a, <1>b, PgAssumption DEF IInv, TypeOK, Seated, Live, Statements,
       DoomedAreOut, SessionsAreKept, EveryClientIsSomewhere, Held, Return, server
  <2>2. QueueWaits' /\ Seated'
    BY <1>2, <1>a, <1>b, PgAssumption DEF IInv, TypeOK, Seated, Live, Statements,
       QueueWaits, SessionsAreKept, EveryClientIsSomewhere, Held, Return, server
  <2>3. CancelsAreKnown' /\ CancelledForAReason'
    BY <1>2, <1>a, <1>b, PgAssumption DEF IInv, TypeOK, Seated, Live, Statements,
       CancelsAreKnown, CancelledForAReason, Return, server
  <2>4. TimedOutOnAClient' /\ TimeoutsAreOwnOrStray'
    BY <1>2, <1>a, <1>b, PgAssumption DEF IInv, TypeOK, Seated, Live, Statements,
       CancelledForAReason, TimedOutOnAClient, TimeoutsAreOwnOrStray, Return, server
  <2>5. EveryClientIsSomewhere'
    BY <1>2, <1>a, <1>b, PgAssumption DEF IInv, TypeOK, Seated, Live, Statements,
       SessionsAreKept, EveryClientIsSomewhere, Held, Return, server
  <2>6. PooledSessionsAreClean'
    BY <1>2, <1>a, <1>b, PgAssumption DEF IInv, TypeOK, Seated, Live, Statements,
       SessionsAreKept, EveryClientIsSomewhere, Held, PooledSessionsAreClean,
       CancelsAreKnown, Return, server
  <2> QED BY <2>1, <2>2, <2>3, <2>4, <2>5, <2>6 DEF IInv, SessionsAreKept
<1>3. CASE \E b \in idle : Given(r, b) /\ idle' = idle \ {b} /\ UNCHANGED session
  BY <1>3, <1>1 DEF IInv, TypeOK, Live, DoomedAreOut
<1>4. CASE \E b \in Backends \ (Live \cup {c[1] : c \in cancels}) :
             Given(r, b) /\ session' = [session EXCEPT ![b] = "none"] /\ UNCHANGED idle
  <2>1. PICK b \in Backends \ Live :
          Given(r, b) /\ session' = [session EXCEPT ![b] = "none"] /\ idle' = idle
    BY <1>4 DEF Live
  <2>2. b \notin doomed /\ session[b] = "closed" /\ idle' = idle \ {b}
    BY <2>1 DEF IInv, TypeOK, Live
  <2> QED BY ONLY <2>1, <2>2, <1>1
<1> QED BY <1>2, <1>3, <1>4 DEF Dispense, history

\* The clients that are out become those of an ended pool.
LEMMA CloseKeeps ==
    ASSUME IInv, Close
    PROVE  IInv'
<1>1. TypeOK' /\ DoomedAreOut'
  BY EmptySeq DEF IInv, TypeOK, Seated, Live, Statements, DoomedAreOut,
     SessionsAreKept, EveryClientIsSomewhere, Held, Close, control, history, server,
     IsInjective
<1>2. QueueWaits' /\ Seated'
  BY EmptySeq, PgAssumption DEF IInv, TypeOK, Seated, Live, Statements, QueueWaits,
     SessionsAreKept, EveryClientIsSomewhere, Held, Close, control, history, server
<1>3. CancelsAreKnown' /\ CancelledForAReason'
  BY PgAssumption DEF IInv, TypeOK, Seated, Live, Statements, CancelsAreKnown,
     CancelledForAReason, Close, control, history, server
<1>4. TimedOutOnAClient' /\ TimeoutsAreOwnOrStray'
  BY PgAssumption DEF IInv, TypeOK, Seated, Live, Statements, CancelledForAReason,
     TimedOutOnAClient, TimeoutsAreOwnOrStray, Close, control, history, server
<1>5. EveryClientIsSomewhere'
  BY PgAssumption DEF IInv, TypeOK, Seated, Live, Statements, SessionsAreKept,
     EveryClientIsSomewhere, Held, Close, control, history, server
<1>6. PooledSessionsAreClean'
  BY PgAssumption DEF IInv, TypeOK, Seated, Live, Statements, SessionsAreKept,
     EveryClientIsSomewhere, Held, PooledSessionsAreClean, CancelsAreKnown, Close,
     control, history, server
<1> QED BY <1>1, <1>2, <1>3, <1>4, <1>5, <1>6 DEF IInv, SessionsAreKept

\* A run whose statement failed goes to its catch block, with its client as it is.
LEMMA CatchKeeps ==
    ASSUME IInv, NEW r \in Runs, at[r] \in Statements \ {"rollback"},
           NEW what \in {"abort", "canceled", "failed"},
           NEW state \in {"none", "open", "failed", "dead"}, Catch(r, what, state),
           what = "canceled" => r \in overran' \/ \E s \in aborted : client[s] = client[r],
           overran \subseteq overran', overran' \subseteq Runs,
           aborted' = aborted, cancels' \subseteq cancels
    PROVE  IInv'
<1>1. TypeOK' /\ DoomedAreOut'
  BY PgAssumption DEF IInv, TypeOK, Seated, Live, Statements, DoomedAreOut,
     SessionsAreKept, EveryClientIsSomewhere, Held, Catch
<1>2. QueueWaits' /\ Seated'
  BY PgAssumption DEF IInv, TypeOK, Seated, Live, Statements, QueueWaits,
     SessionsAreKept, EveryClientIsSomewhere, Held, Catch
<1>3. CancelsAreKnown' /\ CancelledForAReason'
  BY PgAssumption DEF IInv, TypeOK, Seated, Live, Statements, CancelsAreKnown,
     CancelledForAReason, Catch
<1>4. TimedOutOnAClient' /\ TimeoutsAreOwnOrStray'
  BY PgAssumption DEF IInv, TypeOK, Seated, Live, Statements, CancelledForAReason,
     TimedOutOnAClient, TimeoutsAreOwnOrStray, Catch
<1>5. EveryClientIsSomewhere'
  BY PgAssumption DEF IInv, TypeOK, Seated, Live, Statements, SessionsAreKept,
     EveryClientIsSomewhere, Held, Catch
<1>6. PooledSessionsAreClean'
  BY PgAssumption DEF IInv, TypeOK, Seated, Live, Statements, SessionsAreKept,
     EveryClientIsSomewhere, Held, PooledSessionsAreClean, Catch
<1> QED BY <1>1, <1>2, <1>3, <1>4, <1>5, <1>6 DEF IInv, SessionsAreKept

\* A close that fails passes unnoticed.
LEMMA CloseFailsKeeps ==
    ASSUME IInv, NEW r \in Runs, at[r] = "close",
           NEW state \in {"none", "open", "failed", "dead"}, CloseFails(r, state),
           overran \subseteq overran', overran' \subseteq Runs,
           aborted' = aborted, cancels' \subseteq cancels
    PROVE  IInv'
<1>1. TypeOK' /\ DoomedAreOut'
  BY PgAssumption DEF IInv, TypeOK, Seated, Live, Statements, DoomedAreOut,
     SessionsAreKept, EveryClientIsSomewhere, Held, CloseFails
<1>2. QueueWaits' /\ Seated'
  BY PgAssumption DEF IInv, TypeOK, Seated, Live, Statements, QueueWaits,
     SessionsAreKept, EveryClientIsSomewhere, Held, CloseFails
<1>3. CancelsAreKnown' /\ CancelledForAReason'
  BY PgAssumption DEF IInv, TypeOK, Seated, Live, Statements, CancelsAreKnown,
     CancelledForAReason, CloseFails
<1>4. TimedOutOnAClient' /\ TimeoutsAreOwnOrStray'
  BY PgAssumption DEF IInv, TypeOK, Seated, Live, Statements, CancelledForAReason,
     TimedOutOnAClient, TimeoutsAreOwnOrStray, CloseFails
<1>5. EveryClientIsSomewhere'
  BY PgAssumption DEF IInv, TypeOK, Seated, Live, Statements, SessionsAreKept,
     EveryClientIsSomewhere, Held, CloseFails
<1>6. PooledSessionsAreClean'
  BY PgAssumption DEF IInv, TypeOK, Seated, Live, Statements, SessionsAreKept,
     EveryClientIsSomewhere, Held, PooledSessionsAreClean, CloseFails
<1> QED BY <1>1, <1>2, <1>3, <1>4, <1>5, <1>6 DEF IInv, SessionsAreKept

\* The pid is known; a signal that fired before goes to the catch block.
LEMMA PidKeeps ==
    ASSUME IInv, NEW r \in Runs, Pid(r)
    PROVE  IInv'
<1>1. CASE r \in aborted
  <2>1. /\ Catch(r, "abort", session[client[r]]) /\ UNCHANGED <<aborted, overran, cancels>>
        /\ at[r] \in Statements \ {"rollback"} /\ session[client[r]] \in {"none", "open"}
    BY <1>1 DEF Pid, Statements
  <2> QED BY <2>1, CatchKeeps DEF IInv, TypeOK
<1>2. CASE r \notin aborted
  <2>1. TypeOK' /\ DoomedAreOut'
    BY <1>2, PgAssumption DEF IInv, TypeOK, Seated, Live, Statements, DoomedAreOut,
       SessionsAreKept, EveryClientIsSomewhere, Held, Pid, Goes, control, history, server
  <2>2. QueueWaits' /\ Seated'
    BY <1>2, PgAssumption DEF IInv, TypeOK, Seated, Live, Statements, QueueWaits,
       SessionsAreKept, EveryClientIsSomewhere, Held, Pid, Goes, control, history, server
  <2>3. CancelsAreKnown' /\ CancelledForAReason'
    BY <1>2, PgAssumption DEF IInv, TypeOK, Seated, Live, Statements, CancelsAreKnown,
       CancelledForAReason, Pid, Goes, control, history, server
  <2>4. TimedOutOnAClient' /\ TimeoutsAreOwnOrStray'
    BY <1>2, PgAssumption DEF IInv, TypeOK, Seated, Live, Statements,
       CancelledForAReason, TimedOutOnAClient, TimeoutsAreOwnOrStray, Pid, Goes,
       control, history, server
  <2>5. EveryClientIsSomewhere'
    <3>1. /\ at' = [at EXCEPT ![r] = "begin"] /\ at[r] = "pid"
          /\ UNCHANGED <<client, session, idle>>
      BY <1>2 DEF Pid, Goes
    <3> QED BY <3>1 DEF IInv, TypeOK, Live, Statements, SessionsAreKept,
            EveryClientIsSomewhere, Held
  <2>6. PooledSessionsAreClean'
    BY <1>2, PgAssumption DEF IInv, TypeOK, Seated, Live, Statements, SessionsAreKept,
       EveryClientIsSomewhere, Held, PooledSessionsAreClean, CancelsAreKnown, Pid,
       Goes, control, history, server
  <2> QED BY <2>1, <2>2, <2>3, <2>4, <2>5, <2>6 DEF IInv, SessionsAreKept
<1> QED BY <1>1, <1>2

\* The transaction opens.
LEMMA BeginKeeps ==
    ASSUME IInv, NEW r \in Runs, Begin(r)
    PROVE  IInv'
<1>1. TypeOK' /\ DoomedAreOut'
  BY DEF IInv, TypeOK, Seated, Live, Statements, DoomedAreOut, SessionsAreKept,
     EveryClientIsSomewhere, Held, Begin, Goes, control, history, server
<1>2. QueueWaits' /\ Seated'
  BY PgAssumption DEF IInv, TypeOK, Seated, Live, Statements, QueueWaits,
     SessionsAreKept, EveryClientIsSomewhere, Held, Begin, Goes, control, history, server
<1>3. CancelsAreKnown' /\ CancelledForAReason'
  BY PgAssumption DEF IInv, TypeOK, Seated, Live, Statements, CancelsAreKnown,
     CancelledForAReason, Begin, Goes, control, history, server
<1>4. TimedOutOnAClient' /\ TimeoutsAreOwnOrStray'
  BY PgAssumption DEF IInv, TypeOK, Seated, Live, Statements, CancelledForAReason,
     TimedOutOnAClient, TimeoutsAreOwnOrStray, Begin, Goes, control, history, server
<1>5. EveryClientIsSomewhere'
  BY PgAssumption DEF IInv, TypeOK, Seated, Live, Statements, SessionsAreKept,
     EveryClientIsSomewhere, Held, Begin, Goes, control, history, server
<1>6. PooledSessionsAreClean'
  BY PgAssumption DEF IInv, TypeOK, Seated, Live, Statements, SessionsAreKept,
     EveryClientIsSomewhere, Held, PooledSessionsAreClean, CancelsAreKnown, Begin,
     Goes, control, history, server
<1> QED BY <1>1, <1>2, <1>3, <1>4, <1>5, <1>6 DEF IInv, SessionsAreKept

\* Its timeouts are set.
LEMMA LimitsKeeps ==
    ASSUME IInv, NEW r \in Runs, Limits(r)
    PROVE  IInv'
<1>1. TypeOK' /\ DoomedAreOut'
  BY DEF IInv, TypeOK, Seated, Live, Statements, DoomedAreOut, SessionsAreKept,
     EveryClientIsSomewhere, Held, Limits, Goes, control, history, server
<1>2. QueueWaits' /\ Seated'
  BY PgAssumption DEF IInv, TypeOK, Seated, Live, Statements, QueueWaits,
     SessionsAreKept, EveryClientIsSomewhere, Held, Limits, Goes, control, history, server
<1>3. CancelsAreKnown' /\ CancelledForAReason'
  BY PgAssumption DEF IInv, TypeOK, Seated, Live, Statements, CancelsAreKnown,
     CancelledForAReason, Limits, Goes, control, history, server
<1>4. TimedOutOnAClient' /\ TimeoutsAreOwnOrStray'
  BY PgAssumption DEF IInv, TypeOK, Seated, Live, Statements, CancelledForAReason,
     TimedOutOnAClient, TimeoutsAreOwnOrStray, Limits, Goes, control, history, server
<1>5. EveryClientIsSomewhere'
  BY PgAssumption DEF IInv, TypeOK, Seated, Live, Statements, SessionsAreKept,
     EveryClientIsSomewhere, Held, Limits, Goes, control, history, server
<1>6. PooledSessionsAreClean'
  BY PgAssumption DEF IInv, TypeOK, Seated, Live, Statements, SessionsAreKept,
     EveryClientIsSomewhere, Held, PooledSessionsAreClean, CancelsAreKnown, Limits,
     Goes, control, history, server
<1> QED BY <1>1, <1>2, <1>3, <1>4, <1>5, <1>6 DEF IInv, SessionsAreKept

\* Rows, an error, or the statement's own timeout.
LEMMA ReadRowsKeeps ==
    ASSUME IInv, NEW r \in Runs, ReadRows(r)
    PROVE  IInv'
<1>1. TypeOK' /\ DoomedAreOut'
  BY DEF IInv, TypeOK, Seated, Live, Statements, DoomedAreOut, SessionsAreKept,
     EveryClientIsSomewhere, Held, ReadRows, Goes, Catch, control, history, server
<1>2. QueueWaits' /\ Seated'
  BY PgAssumption DEF IInv, TypeOK, Seated, Live, Statements, QueueWaits,
     SessionsAreKept, EveryClientIsSomewhere, Held, ReadRows, Goes, Catch, control, history,
     server
<1>3. CancelsAreKnown' /\ CancelledForAReason'
  BY PgAssumption DEF IInv, TypeOK, Seated, Live, Statements, CancelsAreKnown,
     CancelledForAReason, ReadRows, Goes, Catch, control, history, server
<1>4. TimedOutOnAClient' /\ TimeoutsAreOwnOrStray'
  BY PgAssumption DEF IInv, TypeOK, Seated, Live, Statements, CancelledForAReason,
     TimedOutOnAClient, TimeoutsAreOwnOrStray, ReadRows, Goes, Catch, control, history, server
<1>5. EveryClientIsSomewhere'
  BY PgAssumption DEF IInv, TypeOK, Seated, Live, Statements, SessionsAreKept,
     EveryClientIsSomewhere, Held, ReadRows, Goes, Catch, control, history, server
<1>6. PooledSessionsAreClean'
  BY PgAssumption DEF IInv, TypeOK, Seated, Live, Statements, SessionsAreKept,
     EveryClientIsSomewhere, Held, PooledSessionsAreClean, CancelsAreKnown, ReadRows,
     Goes, Catch, control, history, server
<1> QED BY <1>1, <1>2, <1>3, <1>4, <1>5, <1>6 DEF IInv, SessionsAreKept

\* The run returns its rows and hands back a clean client.
LEMMA CommitKeeps ==
    ASSUME IInv, NEW r \in Runs, Commit(r)
    PROVE  IInv'
<1>1. TypeOK' /\ DoomedAreOut'
  BY DEF IInv, TypeOK, Seated, Live, Statements, DoomedAreOut, SessionsAreKept,
     EveryClientIsSomewhere, Held, Commit, Return, Release, control, history, server
<1>2. QueueWaits' /\ Seated'
  BY PgAssumption DEF IInv, TypeOK, Seated, Live, Statements, QueueWaits,
     SessionsAreKept, EveryClientIsSomewhere, Held, Commit, Return, Release, control, history,
     server
<1>3. CancelsAreKnown' /\ CancelledForAReason'
  BY PgAssumption DEF IInv, TypeOK, Seated, Live, Statements, CancelsAreKnown,
     CancelledForAReason, Commit, Return, Release, control, history, server
<1>4. TimedOutOnAClient' /\ TimeoutsAreOwnOrStray'
  BY PgAssumption DEF IInv, TypeOK, Seated, Live, Statements, CancelledForAReason,
     TimedOutOnAClient, TimeoutsAreOwnOrStray, Commit, Return, Release, control, history,
     server
<1>5. EveryClientIsSomewhere'
  BY PgAssumption DEF IInv, TypeOK, Seated, Live, Statements, SessionsAreKept,
     EveryClientIsSomewhere, Held, Commit, Return, Release, control, history, server
<1>6. PooledSessionsAreClean'
  BY PgAssumption DEF IInv, TypeOK, Seated, Live, Statements, SessionsAreKept,
     EveryClientIsSomewhere, Held, PooledSessionsAreClean, CancelsAreKnown, Commit,
     Return, Release, control, history, server
<1> QED BY <1>1, <1>2, <1>3, <1>4, <1>5, <1>6 DEF IInv, SessionsAreKept

\* A run that ends hands its client back as the ROLLBACK left it: clean, or among
\* those whose ROLLBACK was cancelled.
LEMMA ReleaseKeeps ==
    ASSUME IInv, NEW r \in Runs, at[r] = "rollback", NEW state, Release(client[r], state),
           Return(r, Outcome(r)), state \in {"none", "open", "failed", "dead"},
           \/ state \in {"none", "dead"} /\ unrolled' = unrolled
           \/ unrolled' = unrolled \cup {client[r]},
           UNCHANGED <<client, code, aborted, overran, queue>>, cancels' \subseteq cancels
    PROVE  IInv'
<1>a. /\ Outcome(r) \in {"aborted", "timeout", "error"}
      /\ Outcome(r) = "timeout" => r \notin aborted /\ code[r] = "canceled"
  BY DEF Outcome
<1>b. /\ client[r] \in Backends \ idle /\ client[r] # None
      /\ \A s \in Runs \ {r} : at[s] \in Statements => client[s] # client[r]
  BY PgAssumption DEF IInv, Seated, Statements, Live, SessionsAreKept,
     EveryClientIsSomewhere, Held
<1>1. CASE state = "dead" \/ client[r] \in doomed
  <2>a. /\ session' = [session EXCEPT ![client[r]] = "closed"]
        /\ doomed' = doomed \ {client[r]} /\ idle' = idle
    BY <1>1 DEF Release
  <2>1. TypeOK' /\ DoomedAreOut'
    BY <2>a, <1>a, <1>b, PgAssumption DEF IInv, TypeOK, Seated, Live, Statements,
       DoomedAreOut, SessionsAreKept, EveryClientIsSomewhere, Held, Return
  <2>2. QueueWaits' /\ Seated'
    BY <2>a, <1>a, <1>b, PgAssumption DEF IInv, TypeOK, Seated, Live, Statements,
       QueueWaits, SessionsAreKept, EveryClientIsSomewhere, Held, Return
  <2>3. CancelsAreKnown' /\ CancelledForAReason'
    BY <2>a, <1>a, <1>b, PgAssumption DEF IInv, TypeOK, Seated, Live, Statements,
       CancelsAreKnown, CancelledForAReason, Return
  <2>4. TimedOutOnAClient' /\ TimeoutsAreOwnOrStray'
    BY <2>a, <1>a, <1>b, PgAssumption DEF IInv, TypeOK, Seated, Live, Statements,
       CancelledForAReason, TimedOutOnAClient, TimeoutsAreOwnOrStray, Return
  <2>5. EveryClientIsSomewhere'
    BY <2>a, <1>a, <1>b, PgAssumption DEF IInv, TypeOK, Seated, Live, Statements,
       SessionsAreKept, EveryClientIsSomewhere, Held, Return
  <2>6. PooledSessionsAreClean'
    BY <2>a, <1>a, <1>b, PgAssumption DEF IInv, TypeOK, Seated, Live, Statements,
       SessionsAreKept, EveryClientIsSomewhere, Held, PooledSessionsAreClean,
       CancelsAreKnown, Return
  <2> QED BY <2>1, <2>2, <2>3, <2>4, <2>5, <2>6 DEF IInv, SessionsAreKept
<1>2. CASE state # "dead" /\ client[r] \notin doomed
  <2>a. /\ session' = [session EXCEPT ![client[r]] = state] /\ state # "closed"
        /\ idle' = idle \cup {client[r]} /\ doomed' = doomed
    BY <1>2 DEF Release
  <2>1. TypeOK' /\ DoomedAreOut'
    BY <2>a, <1>a, <1>b, <1>2, PgAssumption DEF IInv, TypeOK, Seated, Live,
       Statements, DoomedAreOut, SessionsAreKept, EveryClientIsSomewhere, Held, Return
  <2>2. QueueWaits' /\ Seated'
    BY <2>a, <1>a, <1>b, <1>2, PgAssumption DEF IInv, TypeOK, Seated, Live,
       Statements, QueueWaits, SessionsAreKept, EveryClientIsSomewhere, Held, Return
  <2>3. CancelsAreKnown' /\ CancelledForAReason'
    BY <2>a, <1>a, <1>b, <1>2, PgAssumption DEF IInv, TypeOK, Seated, Live,
       Statements, CancelsAreKnown, CancelledForAReason, Return
  <2>4. TimedOutOnAClient' /\ TimeoutsAreOwnOrStray'
    BY <2>a, <1>a, <1>b, <1>2, PgAssumption DEF IInv, TypeOK, Seated, Live,
       Statements, CancelledForAReason, TimedOutOnAClient, TimeoutsAreOwnOrStray,
       Return
  <2>5. EveryClientIsSomewhere'
    BY <2>a, <1>a, <1>b, <1>2, PgAssumption DEF IInv, TypeOK, Seated, Live,
       Statements, SessionsAreKept, EveryClientIsSomewhere, Held, Return
  <2>6. PooledSessionsAreClean'
    BY <2>a, <1>a, <1>b, <1>2, PgAssumption DEF IInv, TypeOK, Seated, Live,
       Statements, SessionsAreKept, EveryClientIsSomewhere, Held,
       PooledSessionsAreClean, CancelsAreKnown, Return
  <2> QED BY <2>1, <2>2, <2>3, <2>4, <2>5, <2>6 DEF IInv, SessionsAreKept
<1> QED BY <1>1, <1>2

\* The catch block ends and hands the client back.
LEMMA RollbackKeeps ==
    ASSUME IInv, NEW r \in Runs, Rollback(r)
    PROVE  IInv'
<1>1. AfterRollback(session[client[r]]) \in {"none", "dead"}
  BY DEF AfterRollback
<1> QED BY <1>1, ReleaseKeeps DEF Rollback, history

\* A session that cannot go on fails the statement.
LEMMA RefusedKeeps ==
    ASSUME IInv, NEW r \in Runs, Refused(r)
    PROVE  IInv'
<1>1. /\ at[r] \in Statements \ {"rollback"}
      /\ session[client[r]] \in {"none", "open", "failed", "dead"}
      /\ overran' = overran /\ overran \subseteq Runs /\ UNCHANGED <<aborted, cancels>>
  BY DEF Refused, IInv, TypeOK
<1>2. CASE at[r] = "close"
  BY <1>1, <1>2, CloseFailsKeeps DEF Refused
<1>3. CASE at[r] # "close"
  <2>1. Catch(r, "failed", session[client[r]])
    BY <1>3 DEF Refused
  <2> QED BY <2>1, <1>1, CatchKeeps
<1> QED BY <1>2, <1>3

\* A statement exceeds its limit.
LEMMA OverrunKeeps ==
    ASSUME IInv, NEW r \in Runs, Overrun(r)
    PROVE  IInv'
<1>1. /\ at[r] \in Statements \ {"rollback"} /\ r \in overran'
      /\ overran \subseteq overran' /\ overran' \subseteq Runs /\ UNCHANGED <<aborted, cancels>>
  BY DEF Overrun, IInv, TypeOK, Statements
<1>2. CASE at[r] = "close"
  BY <1>1, <1>2, CloseFailsKeeps DEF Overrun
<1>3. CASE at[r] # "close"
  <2>1. Catch(r, "canceled", "failed")
    BY <1>3 DEF Overrun
  <2> QED BY <2>1, <1>1, CatchKeeps
<1> QED BY <1>2, <1>3

\* The cursor is closed.
LEMMA CloseCursorKeeps ==
    ASSUME IInv, NEW r \in Runs, CloseCursor(r)
    PROVE  IInv'
<1>1. TypeOK' /\ DoomedAreOut'
  BY PgAssumption DEF IInv, TypeOK, Seated, Live, Statements, DoomedAreOut,
     SessionsAreKept, EveryClientIsSomewhere, Held, CloseCursor, Goes, history
<1>2. QueueWaits' /\ Seated'
  BY PgAssumption DEF IInv, TypeOK, Seated, Live, Statements, QueueWaits,
     SessionsAreKept, EveryClientIsSomewhere, Held, CloseCursor, Goes, history
<1>3. CancelsAreKnown' /\ CancelledForAReason'
  BY PgAssumption DEF IInv, TypeOK, Seated, Live, Statements, CancelsAreKnown,
     CancelledForAReason, CloseCursor, Goes, history
<1>4. TimedOutOnAClient' /\ TimeoutsAreOwnOrStray'
  BY PgAssumption DEF IInv, TypeOK, Seated, Live, Statements, CancelledForAReason,
     TimedOutOnAClient, TimeoutsAreOwnOrStray, CloseCursor, Goes, history
<1>5. EveryClientIsSomewhere'
  BY PgAssumption DEF IInv, TypeOK, Seated, Live, Statements, SessionsAreKept,
     EveryClientIsSomewhere, Held, CloseCursor, Goes, history
<1>6. PooledSessionsAreClean'
  BY PgAssumption DEF IInv, TypeOK, Seated, Live, Statements, SessionsAreKept,
     EveryClientIsSomewhere, Held, PooledSessionsAreClean, CloseCursor, Goes, history
<1> QED BY <1>1, <1>2, <1>3, <1>4, <1>5, <1>6 DEF IInv, SessionsAreKept

\* A signal fires and names the client its run holds.
LEMMA AbortKeeps ==
    ASSUME IInv, NEW r \in Runs, Abort(r)
    PROVE  IInv'
<1>1. TypeOK' /\ DoomedAreOut'
  BY DEF IInv, TypeOK, Seated, Live, Statements, DoomedAreOut, SessionsAreKept,
     EveryClientIsSomewhere, Held, Abort, control, history, server
<1>2. QueueWaits' /\ Seated'
  BY PgAssumption DEF IInv, TypeOK, Seated, Live, Statements, QueueWaits,
     SessionsAreKept, EveryClientIsSomewhere, Held, Abort, control, history, server
<1>3. CancelsAreKnown' /\ CancelledForAReason'
  BY PgAssumption DEF IInv, TypeOK, Seated, Live, Statements, CancelsAreKnown,
     CancelledForAReason, Abort, control, history, server
<1>4. TimedOutOnAClient' /\ TimeoutsAreOwnOrStray'
  BY PgAssumption DEF IInv, TypeOK, Seated, Live, Statements, CancelledForAReason,
     TimedOutOnAClient, TimeoutsAreOwnOrStray, Abort, control, history, server
<1>5. EveryClientIsSomewhere'
  BY PgAssumption DEF IInv, TypeOK, Seated, Live, Statements, SessionsAreKept,
     EveryClientIsSomewhere, Held, Abort, control, history, server
<1>6. PooledSessionsAreClean'
  BY PgAssumption DEF IInv, TypeOK, Seated, Live, Statements, SessionsAreKept,
     EveryClientIsSomewhere, Held, PooledSessionsAreClean, CancelsAreKnown, Abort,
     control, history, server
<1> QED BY <1>1, <1>2, <1>3, <1>4, <1>5, <1>6 DEF IInv, SessionsAreKept

\* A cancel names the client that its sender had and this run has now.
LEMMA StruckKeeps ==
    ASSUME IInv, NEW r \in Runs, Struck(r)
    PROVE  IInv'
<1>1. PICK c \in cancels :
        /\ at[r] \in Statements /\ c[1] = client[r] /\ session[client[r]] # "dead"
        /\ cancels' = cancels \ {c}
        /\ CASE at[r] = "rollback" ->
                  /\ Return(r, Outcome(r)) /\ Release(client[r], session[client[r]])
                  /\ unrolled' = unrolled \cup {client[r]}
                  /\ UNCHANGED <<client, code, queue>>
             [] at[r] = "close" -> CloseFails(r, Broken(session[client[r]]))
             [] OTHER -> Catch(r, "canceled", Broken(session[client[r]]))
        /\ UNCHANGED <<aborted, overran>>
  BY DEF Struck
<1>a. /\ client[r] \in Live /\ client[r] # None /\ c[2] \in aborted /\ client[c[2]] = client[r]
      /\ session[client[r]] \in {"none", "open", "failed"}
      /\ Broken(session[client[r]]) \in {"none", "failed"}
  BY <1>1, PgAssumption DEF IInv, TypeOK, Seated, CancelsAreKnown, Live, Broken
<1>2. CASE at[r] = "rollback"
  BY <1>1, <1>2, <1>a, ReleaseKeeps
<1>3. CASE at[r] = "close"
  <2>a. /\ CloseFails(r, Broken(session[client[r]])) /\ UNCHANGED <<aborted, overran>>
        /\ cancels' \subseteq cancels
    BY <1>1, <1>3
  <2> QED BY <2>a, <1>a, <1>3, CloseFailsKeeps DEF IInv, TypeOK
<1>4. CASE at[r] \notin {"rollback", "close"}
  <2>a. /\ Catch(r, "canceled", Broken(session[client[r]])) /\ UNCHANGED <<aborted, overran>>
        /\ cancels' \subseteq cancels
    BY <1>1, <1>4
  <2> QED BY <2>a, <1>a, <1>1, <1>4, CatchKeeps DEF IInv, TypeOK
<1> QED BY <1>2, <1>3, <1>4

\* A cancel comes to nothing.
LEMMA MissedKeeps ==
    ASSUME IInv, Missed
    PROVE  IInv'
<1>1. TypeOK' /\ DoomedAreOut'
  BY DEF IInv, TypeOK, Seated, Live, Statements, DoomedAreOut, SessionsAreKept,
     EveryClientIsSomewhere, Held, Missed, control, history, server
<1>2. QueueWaits' /\ Seated'
  BY PgAssumption DEF IInv, TypeOK, Seated, Live, Statements, QueueWaits,
     SessionsAreKept, EveryClientIsSomewhere, Held, Missed, control, history, server
<1>3. CancelsAreKnown' /\ CancelledForAReason'
  BY PgAssumption DEF IInv, TypeOK, Seated, Live, Statements, CancelsAreKnown,
     CancelledForAReason, Missed, control, history, server
<1>4. TimedOutOnAClient' /\ TimeoutsAreOwnOrStray'
  BY PgAssumption DEF IInv, TypeOK, Seated, Live, Statements, CancelledForAReason,
     TimedOutOnAClient, TimeoutsAreOwnOrStray, Missed, control, history, server
<1>5. EveryClientIsSomewhere'
  BY PgAssumption DEF IInv, TypeOK, Seated, Live, Statements, SessionsAreKept,
     EveryClientIsSomewhere, Held, Missed, control, history, server
<1>6. PooledSessionsAreClean'
  BY PgAssumption DEF IInv, TypeOK, Seated, Live, Statements, SessionsAreKept,
     EveryClientIsSomewhere, Held, PooledSessionsAreClean, CancelsAreKnown, Missed,
     control, history, server
<1> QED BY <1>1, <1>2, <1>3, <1>4, <1>5, <1>6 DEF IInv, SessionsAreKept

\* A session dies under its run, or in the pool.
LEMMA LostKeeps ==
    ASSUME IInv, NEW b \in Backends, Lost(b)
    PROVE  IInv'
<1>1. TypeOK' /\ DoomedAreOut'
  BY DEF IInv, TypeOK, Seated, Live, Statements, DoomedAreOut, SessionsAreKept,
     EveryClientIsSomewhere, Held, Lost, control, history, server
<1>2. QueueWaits' /\ Seated'
  BY PgAssumption DEF IInv, TypeOK, Seated, Live, Statements, QueueWaits,
     SessionsAreKept, EveryClientIsSomewhere, Held, Lost, control, history, server
<1>3. CancelsAreKnown' /\ CancelledForAReason'
  BY PgAssumption DEF IInv, TypeOK, Seated, Live, Statements, CancelsAreKnown,
     CancelledForAReason, Lost, control, history, server
<1>4. TimedOutOnAClient' /\ TimeoutsAreOwnOrStray'
  BY PgAssumption DEF IInv, TypeOK, Seated, Live, Statements, CancelledForAReason,
     TimedOutOnAClient, TimeoutsAreOwnOrStray, Lost, control, history, server
<1>5. EveryClientIsSomewhere'
  BY PgAssumption DEF IInv, TypeOK, Seated, Live, Statements, SessionsAreKept,
     EveryClientIsSomewhere, Held, Lost, control, history, server
<1>6. PooledSessionsAreClean'
  BY PgAssumption DEF IInv, TypeOK, Seated, Live, Statements, SessionsAreKept,
     EveryClientIsSomewhere, Held, PooledSessionsAreClean, CancelsAreKnown, Lost,
     control, history, server
<1> QED BY <1>1, <1>2, <1>3, <1>4, <1>5, <1>6 DEF IInv, SessionsAreKept

-----------------------------------------------------------------------------
(* The theorems.                                                           *)

\* IInv is an inductive invariant of the executor.
THEOREM SessionsInductive == Spec => []IInv
<1>1. Init => IInv
  BY EmptySeq DEF Init, IInv, TypeOK, QueueWaits, Seated, DoomedAreOut,
     CancelsAreKnown, CancelledForAReason, TimedOutOnAClient, SessionsAreKept,
     EveryClientIsSomewhere, PooledSessionsAreClean, TimeoutsAreOwnOrStray, Live,
     Held, Statements, IsInjective
<1>2. IInv /\ [Next]_vars => IInv'
  <2> SUFFICES ASSUME IInv, [Next]_vars PROVE IInv'
    OBVIOUS
  <2>1. CASE \E r \in Runs : Step(r)
    BY <2>1, ConnectKeeps, PidKeeps, BeginKeeps, LimitsKeeps, ReadRowsKeeps,
       CloseCursorKeeps, CommitKeeps, OverrunKeeps, RollbackKeeps, RefusedKeeps DEF Step
  <2>2. CASE \E r \in Runs : Abort(r) \/ Struck(r)
    BY <2>2, AbortKeeps, StruckKeeps
  <2>3. CASE Dispense \/ Close \/ Missed \/ \E b \in Backends : Lost(b)
    BY <2>3, DispenseKeeps, CloseKeeps, MissedKeeps, LostKeeps
  <2>4. CASE UNCHANGED vars
    BY <2>4 DEF vars, control, history, server, IInv, TypeOK, QueueWaits, Seated, DoomedAreOut,
       CancelsAreKnown, CancelledForAReason, TimedOutOnAClient, SessionsAreKept,
       EveryClientIsSomewhere, PooledSessionsAreClean, TimeoutsAreOwnOrStray, Live,
       Held, Statements
  <2> QED BY <2>1, <2>2, <2>3, <2>4 DEF Next
<1> QED BY <1>1, <1>2, PTL DEF Spec

\* Type correctness for every set of runs and backends and every size of pool.
THEOREM SessionTypes == Spec => []TypeOK
<1>1. IInv => TypeOK
  BY DEF IInv
<1> QED BY <1>1, SessionsInductive, PTL

\* No path through run() loses a client, and none hands one back inside a
\* transaction unless a cancel struck its ROLLBACK.
THEOREM SessionsKept == Spec => []SessionsAreKept
<1>1. IInv => SessionsAreKept
  BY DEF IInv
<1> QED BY <1>1, SessionsInductive, PTL

\* A time limit is reported by the run that exceeded it, or by one whose backend
\* served an aborted run.
THEOREM TimeoutsExplained == Spec => []TimeoutsAreOwnOrStray
<1>1. IInv => TimeoutsAreOwnOrStray
  BY DEF IInv
<1> QED BY <1>1, SessionsInductive, PTL

-----------------------------------------------------------------------------
(***************************************************************************)
(* What boots may rely on, for every list of migrations: an untorn boot    *)
(* gets through, and after one torn boot nothing is served on half a       *)
(* schema.  The directory is in one of three shapes.  Healthy: the schema  *)
(* and the journal are prefixes of MIGRATIONS that differ by a baseline    *)
(* still to adopt, or by one repeatable migration.  Halted: the first      *)
(* migration without a row has run and cannot run again.  Mistaken: 0000   *)
(* alone was taken for the whole baseline, and the migration that alters   *)
(* data_sources finds no such table.                                       *)
(***************************************************************************)

Follows(k, j) == k = j \/ (k = j + 1 /\ k \in Repeatable)
Clean(k, j) == Follows(k, j) \/ (j = 0 /\ k \in {DataSources, Lifecycle})
Outside == stage \in {"down", "idle", "journal"}

Healthy(k, j) ==
    /\ torn = 0
    /\ k \in 0..shipped /\ j \in 0..k /\ schema = 1..k /\ journal = 1..j
    /\ Outside => Clean(k, j)
    /\ stage = "adopt" => \/ applied = 1..j /\ Follows(k, j)
                          \/ applied = 1..k /\ k \in {DataSources, Lifecycle}
    /\ stage = "apply" => applied = 1..j /\ Follows(k, j)
    /\ stage = "record" => applied = 1..j /\ k = j + 1
    /\ stage = "ready" => k = j /\ k = shipped

Halted(k, j) ==
    /\ torn = 1
    /\ k \in 0..shipped /\ j \in 1..(k - 1) /\ schema = 1..k /\ journal = 1..j
    /\ j + 1 \notin Repeatable
    /\ Outside \/ (stage \in {"adopt", "apply"} /\ applied = 1..j)

Mistaken(j) ==
    /\ torn = 1
    /\ j \in 0..DataSources /\ schema = 1..1 /\ journal = 1..j
    /\ \/ Outside /\ j \in {0, DataSources}
       \/ stage = "adopt" /\ applied = 1..DataSources
       \/ stage = "apply" /\ applied = 1..DataSources /\ j = DataSources

BootInv ==
    /\ BootTypeOK
    /\ \/ torn = 2
       \/ \E k, j \in Nat : Healthy(k, j)
       \/ \E k, j \in Nat : Halted(k, j)
       \/ \E j \in Nat : Mistaken(j)

-----------------------------------------------------------------------------

\* The least number of an interval that a prefix leaves over is the next one.
LEMMA FirstAfter ==
    ASSUME NEW s \in Nat, NEW a \in Nat, NEW m, First(m, (1..s) \ (1..a))
    PROVE  m = a + 1 /\ m \in 1..s
  BY DEF First

\* Two prefixes with nothing between them.
LEMMA NothingLeft ==
    ASSUME NEW s \in Nat, NEW a \in Nat, (1..s) \ (1..a) = {}
    PROVE  s <= a
<1>1. SUFFICES ASSUME s > a PROVE FALSE
  OBVIOUS
<1>2. s \in (1..s) \ (1..a)
  BY <1>1
<1> QED BY <1>2

\* A prefix and its successor.
LEMMA Extended ==
    ASSUME NEW k \in Nat
    PROVE  (1..k) \cup {k + 1} = 1..(k + 1)
  OBVIOUS

\* Only the prefix of length zero is empty.
LEMMA EmptyPrefix == ASSUME NEW k \in Nat PROVE 1..k = {} <=> k = 0
<1>1. CASE k = 0
  BY <1>1
<1>2. CASE k # 0
  <2>1. 1 \in 1..k
    BY <1>2
  <2> QED BY <2>1, <1>2
<1> QED BY <1>1, <1>2

-----------------------------------------------------------------------------

\* The store's variables keep their types, whatever fails.
LEMMA BootTypeStep == ASSUME BootTypeOK, [BootNext]_bootVars PROVE BootTypeOK'
<1> USE BootAssumption DEF BootTypeOK
<1>1. CASE Start
  BY <1>1 DEF Start, disk, Building
<1>2. CASE ReadJournal
  <2>1. Baseline \subseteq 1..N
    BY DEF Baseline
  <2> QED BY <1>2, <2>1 DEF ReadJournal, disk, Building
<1>3. CASE Adopt
  BY <1>3 DEF Adopt, Unadopted, First, Building
<1>4. CASE Apply
  BY <1>4 DEF Apply, Pending, First, Building
<1>5. CASE Record
  BY <1>5 DEF Record, Pending, First, Building
<1>6. CASE Ready
  BY <1>6 DEF Ready, disk, Building
<1>7. CASE CannotRun
  BY <1>7 DEF CannotRun, Reject, disk, Building
<1>8. CASE Fail
  BY <1>8 DEF Fail, Reject, Ends, disk, Building
<1>9. CASE Crash
  BY <1>9 DEF Crash, Ends, disk, Building
<1>10. ASSUME NEW q \in Requests, GetRuntime(q) PROVE BootTypeOK'
  BY <1>10 DEF GetRuntime, disk, Building
<1>11. CASE UNCHANGED bootVars
  BY <1>11 DEF bootVars, disk
<1> QED
  BY <1>1, <1>2, <1>3, <1>4, <1>5, <1>6, <1>7, <1>8, <1>9, <1>10, <1>11 DEF BootNext, Build

-----------------------------------------------------------------------------
(* One lemma per shape and kind of step.                                   *)

Shape ==
    \/ torn = 2
    \/ \E k, j \in Nat : Healthy(k, j)
    \/ \E k, j \in Nat : Halted(k, j)
    \/ \E j \in Nat : Mistaken(j)

\* Reading a journal, adopting, applying and recording keep a healthy directory
\* healthy: both prefixes grow in step.
LEMMA HealthyBuild ==
    ASSUME BootTypeOK, NEW k \in Nat, NEW j \in Nat, Healthy(k, j),
           ReadJournal \/ Adopt \/ Apply \/ Record \/ Ready
    PROVE  \E k2, j2 \in Nat : Healthy(k2, j2)'
<1> USE BootAssumption
<1>0. /\ shipped \in Nat /\ k <= shipped /\ j <= k /\ shipped <= N
      /\ torn = 0 /\ schema = 1..k /\ journal = 1..j
  BY DEF Healthy, BootTypeOK
<1>1. CASE ReadJournal
  <2>1. stage = "journal" /\ stage' = "adopt" /\ Clean(k, j)
        /\ UNCHANGED <<schema, journal, shipped, torn>>
    BY <1>1 DEF ReadJournal, Healthy, Outside, disk
  <2>2. CASE j = 0
    <3>1. applied' = Baseline
      BY <1>0, <1>1, <2>2, EmptyPrefix DEF ReadJournal
    <3>2. CASE k \in {DataSources, Lifecycle}
      <4>1. Baseline = 1..k
        BY <1>0, <3>2 DEF Baseline
      <4> QED BY <1>0, <2>1, <3>1, <3>2, <4>1 DEF Healthy, Outside
    <3>3. CASE k \notin {DataSources, Lifecycle}
      <4>1. k = 0
        BY <2>1, <2>2, <3>3 DEF Clean, Follows
      <4>2. Baseline = 1..j
        BY <1>0, <2>2, <4>1 DEF Baseline
      <4> QED BY <1>0, <2>1, <2>2, <3>1, <4>1, <4>2 DEF Healthy, Outside, Follows
    <3> QED BY <3>2, <3>3
  <2>3. CASE j # 0
    <3>1. applied' = 1..j
      BY <1>0, <1>1, <2>3, EmptyPrefix DEF ReadJournal
    <3>2. Follows(k, j)
      BY <2>1, <2>3 DEF Clean
    <3> QED BY <1>0, <2>1, <3>1, <3>2 DEF Healthy, Outside, Follows
  <2> QED BY <2>2, <2>3
<1>2. CASE Adopt
  <2>1. stage = "adopt" /\ UNCHANGED <<schema, shipped, applied, torn>>
    BY <1>2 DEF Adopt
  <2>2. CASE applied = 1..j /\ Follows(k, j)
    <3>1. Unadopted = {}
      BY <1>0, <2>2 DEF Unadopted
    <3>2. stage' = "apply" /\ journal' = journal
      BY <1>2, <3>1 DEF Adopt
    <3> QED BY <1>0, <2>1, <2>2, <3>2 DEF Healthy, Outside, Follows
  <2>3. CASE applied = 1..k /\ k \in {DataSources, Lifecycle}
    <3>1. CASE Unadopted = {}
      <4>1. k <= j
        BY <1>0, <2>3, <3>1, NothingLeft DEF Unadopted
      <4>2. stage' = "apply" /\ journal' = journal
        BY <1>2, <3>1 DEF Adopt
      <4>3. k = j
        BY <1>0, <4>1
      <4> QED BY <1>0, <2>1, <2>3, <4>2, <4>3 DEF Healthy, Outside, Follows
    <3>2. CASE Unadopted # {}
      <4>1. PICK m \in Unadopted : First(m, Unadopted) /\ journal' = journal \cup {m}
        BY <1>2, <3>2 DEF Adopt
      <4>2. m = j + 1 /\ m \in 1..k
        BY <1>0, <2>3, <4>1, FirstAfter DEF Unadopted
      <4>3. journal' = 1..(j + 1) /\ j + 1 \in 0..k /\ stage' = stage
        BY <1>0, <1>2, <3>2, <4>1, <4>2, Extended DEF Adopt
      <4>4. j + 1 \in Nat
        OBVIOUS
      <4>5. Healthy(k, j + 1)'
        BY <1>0, <2>1, <2>3, <4>3 DEF Healthy, Outside
      <4> QED BY <4>4, <4>5
    <3> QED BY <3>1, <3>2
  <2> QED BY <2>1, <2>2, <2>3 DEF Healthy
<1>3. CASE Apply
  <2>1. stage = "apply" /\ stage' = "record" /\ applied = 1..j /\ Follows(k, j)
        /\ UNCHANGED <<journal, shipped, applied, torn>>
    BY <1>3 DEF Apply, Healthy
  <2>2. PICK m \in Pending : First(m, Pending) /\ schema' = schema \cup {m}
    BY <1>3 DEF Apply
  <2>3. m = j + 1 /\ m \in 1..shipped
    BY <1>0, <2>1, <2>2, FirstAfter DEF Pending
  <2>4. schema' = 1..(j + 1)
    <3>1. CASE k = j
      BY <1>0, <2>2, <2>3, <3>1, Extended
    <3>2. CASE k = j + 1
      BY <1>0, <2>2, <2>3, <3>2
    <3> QED BY <2>1, <3>1, <3>2 DEF Follows
  <2>5. j + 1 \in 0..shipped /\ j \in 0..(j + 1) /\ j + 1 \in Nat
    BY <2>3
  <2>6. Healthy(j + 1, j)'
    BY <1>0, <2>1, <2>4, <2>5 DEF Healthy, Outside
  <2> QED BY <2>5, <2>6
<1>4. CASE Record
  <2>1. stage = "record" /\ stage' = "apply" /\ applied = 1..j /\ k = j + 1
        /\ UNCHANGED <<schema, shipped, torn>>
    BY <1>4 DEF Record, Healthy
  <2>2. PICK m \in Pending : /\ First(m, Pending)
                             /\ journal' = journal \cup {m} /\ applied' = applied \cup {m}
    BY <1>4 DEF Record
  <2>3. m = k
    BY <1>0, <2>1, <2>2, FirstAfter DEF Pending
  <2>4. journal' = 1..k /\ applied' = 1..k
    BY <1>0, <2>1, <2>2, <2>3, Extended
  <2>5. Healthy(k, k)'
    BY <1>0, <2>1, <2>4 DEF Healthy, Outside, Follows
  <2> QED BY <2>5
<1>5. CASE Ready
  <2>1. stage = "apply" /\ stage' = "ready" /\ Pending = {} /\ applied = 1..j
        /\ UNCHANGED <<schema, journal, shipped, torn>>
    BY <1>5 DEF Ready, Healthy, disk
  <2>2. shipped <= j
    BY <1>0, <2>1, NothingLeft DEF Pending
  <2>3. k = j /\ k = shipped
    BY <1>0, <2>2
  <2> QED BY <1>0, <2>1, <2>3 DEF Healthy, Outside
<1> QED BY <1>1, <1>2, <1>3, <1>4, <1>5

\* A build that ends leaves a healthy directory healthy, or tears it.
LEMMA HealthyEnd ==
    ASSUME BootTypeOK, NEW k \in Nat, NEW j \in Nat, Healthy(k, j),
           stage # "down", Outside', Ends \/ (stage = "apply" /\ torn' = torn),
           UNCHANGED <<schema, journal, shipped>>
    PROVE  Shape'
<1> USE BootAssumption
<1>0. /\ shipped \in Nat /\ k <= shipped /\ j <= k /\ shipped <= N
      /\ torn = 0 /\ schema = 1..k /\ journal = 1..j
  BY DEF Healthy, BootTypeOK
<1>1. CASE torn' = torn /\ Clean(k, j)
  <2>1. Healthy(k, j)'
    BY <1>0, <1>1 DEF Healthy, Outside
  <2> QED BY <2>1 DEF Shape
<1>2. CASE stage = "apply"
  <2>1. Clean(k, j)
    BY <1>2 DEF Healthy, Clean
  <2>2. torn' = torn
    BY <1>2 DEF Ends, Tearing
  <2> QED BY <1>1, <2>1, <2>2
<1>3. CASE stage # "apply" /\ ~Tearing
  <2>1. torn' = torn
    BY <1>3 DEF Ends
  <2>2. Clean(k, j)
    <3>1. CASE Outside
      BY <3>1 DEF Healthy
    <3>2. CASE stage = "adopt"
      <4>1. CASE journal = {}
        <5>1. j = 0
          BY <1>0, <4>1, EmptyPrefix
        <5> QED BY <3>2, <5>1 DEF Healthy, Clean
      <4>2. CASE Unadopted = {}
        <5>1. CASE applied = 1..k
          <6>1. k <= j
            BY <1>0, <4>2, <5>1, NothingLeft DEF Unadopted
          <6> QED BY <1>0, <6>1 DEF Clean, Follows
        <5> QED BY <3>2, <5>1 DEF Healthy, Clean
      <4> QED BY <1>3, <3>2, <4>1, <4>2 DEF Tearing
    <3>3. CASE stage = "record"
      <4>1. applied = 1..j /\ k = j + 1
        BY <3>3 DEF Healthy
      <4>2. k \in Pending /\ First(k, Pending)
        BY <1>0, <4>1 DEF Pending, First
      <4>3. k \in Repeatable
        BY <1>3, <3>3, <4>2 DEF Tearing
      <4> QED BY <4>1, <4>3 DEF Clean, Follows
    <3>4. CASE stage = "ready"
      BY <3>4 DEF Healthy, Clean, Follows
    <3> QED BY <1>3, <3>1, <3>2, <3>3, <3>4 DEF BootTypeOK, Building, Outside
  <2> QED BY <1>1, <2>1, <2>2
<1>4. CASE stage # "apply" /\ Tearing
  <2>1. torn' = 1
    BY <1>0, <1>4 DEF Ends
  <2>2. CASE stage = "record"
    <3>1. applied = 1..j /\ k = j + 1
      BY <2>2 DEF Healthy
    <3>2. PICK m \in Pending : First(m, Pending) /\ m \notin Repeatable
      BY <1>4, <2>2 DEF Tearing
    <3>3. m = k
      BY <1>0, <3>1, <3>2, FirstAfter DEF Pending
    <3>4. CASE j = 0
      <4>1. Mistaken(0)'
        BY <1>0, <2>1, <3>1, <3>4 DEF Mistaken
      <4> QED BY <4>1 DEF Shape
    <3>5. CASE j # 0
      <4>1. Halted(k, j)'
        BY <1>0, <2>1, <3>1, <3>2, <3>3, <3>5 DEF Halted
      <4> QED BY <4>1 DEF Shape
    <3> QED BY <3>4, <3>5
  <2>3. CASE stage = "adopt"
    <3>1. journal # {} /\ Unadopted # {}
      BY <1>4, <2>3 DEF Tearing
    <3>2. j # 0
      BY <1>0, <3>1, EmptyPrefix
    <3>3. applied # 1..j
      BY <1>0, <3>1 DEF Unadopted
    <3>4. k \in {DataSources, Lifecycle} /\ applied = 1..k
      BY <2>3, <3>3 DEF Healthy
    <3>5. j < k
      BY <1>0, <3>3, <3>4
    <3>6. j + 1 \notin Repeatable
      BY <1>0, <3>4, <3>5
    <3>7. Halted(k, j)'
      BY <1>0, <2>1, <3>2, <3>5, <3>6 DEF Halted
    <3> QED BY <3>7 DEF Shape
  <2> QED BY <1>4, <2>2, <2>3 DEF Tearing
<1> QED BY <1>2, <1>3, <1>4

\* A halted directory stays halted: the migration that would come next cannot run.
LEMMA HaltedStep ==
    ASSUME BootTypeOK, NEW k \in Nat, NEW j \in Nat, Halted(k, j), [BootNext]_bootVars
    PROVE  Halted(k, j)' \/ torn' = 2
<1> USE BootAssumption
<1>0. /\ shipped \in Nat /\ k <= shipped /\ j < k /\ 0 < j /\ shipped <= N
      /\ torn = 1 /\ schema = 1..k /\ journal = 1..j /\ j + 1 \notin Repeatable
  BY DEF Halted, BootTypeOK
<1>1. stage \in {"adopt", "apply"} => applied = 1..j /\ Unadopted = {}
  BY <1>0 DEF Halted, Outside, Unadopted
<1>2. stage \notin {"record", "ready"}
  BY DEF Halted, Outside
<1>3. CASE Start
  BY <1>0, <1>3 DEF Start, Halted, Outside, disk, BootTypeOK
<1>4. CASE ReadJournal
  <2>1. journal # {}
    BY <1>0, EmptyPrefix
  <2> QED BY <1>0, <1>4, <2>1 DEF ReadJournal, Halted, Outside, disk
<1>5. CASE Adopt
  <2>1. UNCHANGED <<schema, journal, shipped, applied, torn>> /\ stage' = "apply" /\ applied = 1..j
    BY <1>1, <1>5 DEF Adopt
  <2> QED BY <1>0, <2>1 DEF Halted, Outside
<1>6. CASE Apply
  <2>1. PICK m \in Pending : First(m, Pending) /\ CanRun(m)
    BY <1>6 DEF Apply
  <2>2. m = j + 1
    BY <1>0, <1>1, <1>6, <2>1, FirstAfter DEF Apply, Pending
  <2>3. m \in schema
    BY <1>0, <2>2
  <2> QED BY <1>0, <2>1, <2>2, <2>3 DEF CanRun
<1>7. CASE Ready
  <2>1. shipped <= j
    BY <1>0, <1>1, <1>7, NothingLeft DEF Ready, Pending
  <2> QED BY <1>0, <2>1
<1>8. CASE CannotRun
  BY <1>0, <1>8 DEF CannotRun, Reject, Halted, Outside, disk
<1>9. CASE Fail
  BY <1>0, <1>1, <1>2, <1>9 DEF Fail, Reject, Ends, Tearing, Halted, Outside, disk
<1>10. CASE Crash
  BY <1>0, <1>1, <1>2, <1>10 DEF Crash, Ends, Tearing, Halted, Outside, disk
<1>11. CASE Record
  BY <1>2, <1>11 DEF Record
<1>12. ASSUME NEW q \in Requests, GetRuntime(q) PROVE Halted(k, j)'
  BY <1>0, <1>12 DEF GetRuntime, Halted, Outside, disk
<1>13. CASE UNCHANGED bootVars
  BY <1>0, <1>13 DEF bootVars, disk, Halted, Outside
<1> QED
  BY <1>3, <1>4, <1>5, <1>6, <1>7, <1>8, <1>9, <1>10, <1>11, <1>12, <1>13 DEF BootNext, Build

\* Where 0000 alone is taken for the baseline, data_sources stays missing.
LEMMA MistakenStep ==
    ASSUME BootTypeOK, NEW j \in Nat, Mistaken(j), [BootNext]_bootVars
    PROVE  Shape'
<1> USE BootAssumption
<1>0. /\ shipped \in Nat /\ shipped <= N /\ Lifecycle <= shipped /\ j <= DataSources
      /\ torn = 1 /\ schema = 1..1 /\ journal = 1..j
  BY DEF Mistaken, BootTypeOK
<1>1. stage \notin {"record", "ready"}
  BY DEF Mistaken, Outside
<1>2. SUFFICES Mistaken(j)' \/ Mistaken(j + 1)' \/ torn' = 2
  BY DEF Shape
<1>3. CASE Start
  BY <1>0, <1>3 DEF Start, Mistaken, Outside, disk
<1>4. CASE ReadJournal
  <2>1. CASE j = 0
    <3>1. journal = {} /\ Baseline = 1..DataSources
      BY <1>0, <2>1 DEF Baseline
    <3> QED BY <1>0, <1>4, <2>1, <3>1 DEF ReadJournal, Mistaken, Outside, disk
  <2>2. CASE j # 0
    <3>1. journal # {}
      BY <1>0, <2>2, EmptyPrefix
    <3>2. j = DataSources
      BY <1>4, <2>2 DEF ReadJournal, Mistaken, Outside
    <3> QED BY <1>0, <1>4, <3>1, <3>2 DEF ReadJournal, Mistaken, Outside, disk
  <2> QED BY <2>1, <2>2
<1>5. CASE Adopt
  <2>1. stage = "adopt" /\ applied = 1..DataSources /\ UNCHANGED <<schema, shipped, applied, torn>>
    BY <1>5 DEF Adopt, Mistaken, Outside
  <2>2. CASE Unadopted = {}
    <3>1. j = DataSources
      BY <1>0, <2>1, <2>2, NothingLeft DEF Unadopted
    <3>2. stage' = "apply" /\ journal' = journal
      BY <1>5, <2>2 DEF Adopt
    <3> QED BY <1>0, <2>1, <3>1, <3>2 DEF Mistaken, Outside
  <2>3. CASE Unadopted # {}
    <3>1. PICK m \in Unadopted : First(m, Unadopted) /\ journal' = journal \cup {m}
      BY <1>5, <2>3 DEF Adopt
    <3>2. m = j + 1 /\ m \in 1..DataSources
      BY <1>0, <2>1, <3>1, FirstAfter DEF Unadopted
    <3>3. journal' = 1..(j + 1) /\ stage' = stage
      BY <1>0, <1>5, <2>3, <3>1, <3>2, Extended DEF Adopt
    <3> QED BY <1>0, <2>1, <3>2, <3>3 DEF Mistaken, Outside
  <2> QED BY <2>2, <2>3
<1>6. CASE Apply
  <2>1. applied = 1..DataSources
    BY <1>6 DEF Apply, Mistaken, Outside
  <2>2. PICK m \in Pending : First(m, Pending) /\ CanRun(m)
    BY <1>6 DEF Apply
  <2>3. m = Lifecycle
    BY <1>0, <2>1, <2>2, FirstAfter DEF Pending
  <2>4. DataSources \in schema
    BY <2>2, <2>3 DEF CanRun
  <2> QED BY <1>0, <2>4
<1>7. CASE Ready
  <2>1. applied = 1..DataSources
    BY <1>7 DEF Ready, Mistaken, Outside
  <2>2. shipped <= DataSources
    BY <1>0, <1>7, <2>1, NothingLeft DEF Ready, Pending
  <2> QED BY <1>0, <2>2
<1>8. CASE CannotRun
  BY <1>0, <1>8 DEF CannotRun, Reject, Mistaken, Outside, disk
<1>9. ASSUME stage # "down", Ends, Outside', UNCHANGED <<schema, journal, shipped>>
      PROVE  Mistaken(j)' \/ torn' = 2
  <2>1. CASE Tearing
    BY <1>0, <1>9, <2>1 DEF Ends
  <2>2. CASE ~Tearing
    <3>1. torn' = torn
      BY <1>9, <2>2 DEF Ends
    <3>2. j \in {0, DataSources}
      <4>1. CASE stage = "adopt"
        <5>1. journal = {} \/ Unadopted = {}
          BY <2>2, <4>1 DEF Tearing
        <5>2. CASE journal = {}
          BY <1>0, <5>2, EmptyPrefix
        <5>3. CASE Unadopted = {}
          <6>1. applied = 1..DataSources
            BY <4>1 DEF Mistaken, Outside
          <6>2. DataSources <= j
            BY <1>0, <5>3, <6>1, NothingLeft DEF Unadopted
          <6> QED BY <1>0, <6>2
        <5> QED BY <5>1, <5>2, <5>3
      <4> QED BY <4>1 DEF Mistaken
    <3> QED BY <1>0, <1>9, <3>1, <3>2 DEF Mistaken, Outside
  <2> QED BY <2>1, <2>2
<1>10. CASE Fail
  BY <1>9, <1>10 DEF Fail, Reject, Building, Outside, disk
<1>11. CASE Crash
  BY <1>9, <1>11 DEF Crash, Outside, disk
<1>12. CASE Record
  BY <1>1, <1>12 DEF Record
<1>13. ASSUME NEW q \in Requests, GetRuntime(q) PROVE Mistaken(j)'
  BY <1>0, <1>13 DEF GetRuntime, Mistaken, Outside, disk
<1>14. CASE UNCHANGED bootVars
  BY <1>0, <1>14 DEF bootVars, disk, Mistaken, Outside
<1> QED
  BY <1>3, <1>4, <1>5, <1>6, <1>7, <1>8, <1>10, <1>11, <1>12, <1>13, <1>14 DEF BootNext, Build

\* Two torn boots are as many.
LEMMA TornStep == ASSUME BootTypeOK, torn = 2, [BootNext]_bootVars PROVE torn' = 2
  BY DEF BootNext, Build, Start, ReadJournal, Adopt, Apply, Record, Ready, CannotRun, Fail,
         Crash, GetRuntime, Ends, bootVars, disk

-----------------------------------------------------------------------------

\* IInv is inductive: every step keeps the directory in one of its shapes.
THEOREM BootInductive == BootSpec => []BootInv
<1>1. BootInit => BootInv
  <2> SUFFICES ASSUME BootInit PROVE BootInv
    OBVIOUS
  <2>1. BootTypeOK
    BY BootAssumption DEF BootInit, BootTypeOK, Building
  <2>2. PICK k \in {0, DataSources, Lifecycle} : schema = 1..k
    <3>1. 1..0 = {}
      OBVIOUS
    <3> QED BY <3>1 DEF BootInit
  <2>3. k \in Nat /\ k <= shipped /\ shipped \in Nat
    BY BootAssumption, <2>2 DEF BootInit
  <2>4. journal = 1..0
    BY DEF BootInit
  <2>5. Healthy(k, 0)
    BY <2>2, <2>3, <2>4 DEF BootInit, Healthy, Outside, Clean, Follows
  <2> QED BY <2>1, <2>3, <2>5 DEF BootInv
<1>2. BootInv /\ [BootNext]_bootVars => BootInv'
  <2> SUFFICES ASSUME BootInv, [BootNext]_bootVars PROVE BootInv'
    OBVIOUS
  <2>1. BootTypeOK'
    BY BootTypeStep DEF BootInv
  <2>2. Shape'
    <3>1. CASE torn = 2
      BY <3>1, TornStep DEF BootInv, Shape
    <3>2. ASSUME NEW k \in Nat, NEW j \in Nat, Healthy(k, j) PROVE Shape'
      <4>1. CASE Start
        <5>1. Healthy(k, j)'
          BY <3>2, <4>1 DEF Start, Healthy, Outside, disk, BootInv, BootTypeOK
        <5> QED BY <5>1 DEF Shape
      <4>2. ASSUME NEW q \in Requests, GetRuntime(q) PROVE Shape'
        <5>1. Healthy(k, j)'
          BY <3>2, <4>2 DEF GetRuntime, Healthy, Outside, disk
        <5> QED BY <5>1 DEF Shape
      <4>3. CASE ReadJournal \/ Adopt \/ Apply \/ Record \/ Ready
        BY <3>2, <4>3, HealthyBuild DEF BootInv, Shape
      <4>4. CASE CannotRun
        <5>1. stage = "apply" /\ Outside' /\ torn' = torn /\ UNCHANGED <<schema, journal, shipped>>
          BY <4>4 DEF CannotRun, Reject, Outside, disk
        <5> QED BY <3>2, <5>1, HealthyEnd DEF BootInv
      <4>5. CASE Fail
        <5>1. stage # "down" /\ Outside' /\ Ends /\ UNCHANGED <<schema, journal, shipped>>
          BY <4>5 DEF Fail, Reject, Outside, Building, disk
        <5> QED BY <3>2, <5>1, HealthyEnd DEF BootInv
      <4>6. CASE Crash
        <5>1. stage # "down" /\ Outside' /\ Ends /\ UNCHANGED <<schema, journal, shipped>>
          BY <4>6 DEF Crash, Outside, disk
        <5> QED BY <3>2, <5>1, HealthyEnd DEF BootInv
      <4>7. CASE UNCHANGED bootVars
        <5>1. Healthy(k, j)'
          BY <3>2, <4>7 DEF bootVars, disk, Healthy, Outside
        <5> QED BY <5>1 DEF Shape
      <4> QED BY <4>1, <4>2, <4>3, <4>4, <4>5, <4>6, <4>7 DEF BootNext, Build
    <3>3. ASSUME NEW k \in Nat, NEW j \in Nat, Halted(k, j) PROVE Shape'
      BY <3>3, HaltedStep DEF BootInv, Shape
    <3>4. ASSUME NEW j \in Nat, Mistaken(j) PROVE Shape'
      BY <3>4, MistakenStep DEF BootInv
    <3> QED BY <3>1, <3>2, <3>3, <3>4 DEF BootInv
  <2> QED BY <2>1, <2>2 DEF BootInv, Shape
<1> QED BY <1>1, <1>2, PTL DEF BootSpec

\* Type correctness, for every list of migrations.
THEOREM BootTypes == BootSpec => []BootTypeOK
<1>1. BootInv => BootTypeOK
  BY DEF BootInv
<1> QED BY <1>1, BootInductive, PTL

\* No release, and no boot torn once, serves a request on half a schema.
THEOREM ServedSchemas == BootSpec => []ServesWholeSchema
<1>1. BootInv => ServesWholeSchema
  <2> SUFFICES ASSUME BootInv, stage = "ready", torn < 2 PROVE 1..shipped \subseteq schema
    BY DEF ServesWholeSchema
  <2>1. torn # 2
    OBVIOUS
  <2>2. PICK k, j \in Nat : Healthy(k, j)
    BY <2>1 DEF BootInv, Halted, Mistaken, Outside
  <2> QED BY <2>2 DEF Healthy
<1> QED BY <1>1, BootInductive, PTL

\* A boot is refused only after one that was torn.
THEOREM UntornBoots == BootSpec => []UntornBootsRun
<1>1. BootInv => UntornBootsRun
  <2> SUFFICES ASSUME BootInv, torn = 0, stage = "apply", NEW m \in Pending, First(m, Pending)
               PROVE  CanRun(m)
    BY DEF UntornBootsRun
  <2>1. PICK k, j \in Nat : Healthy(k, j)
    BY DEF BootInv, Halted, Mistaken
  <2>2. /\ shipped \in Nat /\ shipped <= N /\ applied = 1..j /\ Follows(k, j)
        /\ schema = 1..k /\ k <= shipped
    BY <2>1, BootAssumption DEF Healthy, BootInv, BootTypeOK
  <2>3. m = j + 1 /\ m \in 1..N
    <3>1. First(m, (1..shipped) \ (1..j))
      BY <2>2 DEF Pending
    <3>2. m = j + 1 /\ m \in 1..shipped
      BY <2>2, <3>1, FirstAfter
    <3> QED BY <2>2, <3>2, BootAssumption
  <2>4. Needs[m] \subseteq schema
    <3> SUFFICES ASSUME NEW n \in Needs[m] PROVE n \in schema
      OBVIOUS
    <3>1. n \in 1..N /\ n < m
      BY <2>3, BootAssumption
    <3> QED BY <2>2, <2>3, <3>1 DEF Follows
  <2>5. m \in schema => m \in Repeatable
    BY <2>2, <2>3 DEF Follows
  <2> QED BY <2>4, <2>5 DEF CanRun
<1> QED BY <1>1, BootInductive, PTL

===============================================================================
