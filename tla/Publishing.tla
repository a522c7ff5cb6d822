----------------------------- MODULE Publishing ------------------------------
(***************************************************************************)
(* One Connection and the Data Source made with it: authoring and          *)
(* publishing the source (apps/web/lib/authoring-service.ts), editing,     *)
(* probing, introspecting and removing the connection (packages/core/      *)
(* connection) with its cache of pooled connectors, and asks being         *)
(* resolved against them (apps/web/lib/data-source-resolver.ts).  Every    *)
(* statement on the metadata store commits on its own.                     *)
(***************************************************************************)
EXTENDS Naturals, FiniteSets

CONSTANTS
    Tables,     \* names of tables a database may have
    Requests,
    MaxParams,  \* bound of the connection's distinct parameter sets
    None

ASSUME PublishingAssumption ==
    /\ MaxParams \in Nat
    /\ None \notin 0..MaxParams /\ \A T \in SUBSET Tables : T # None

VARIABLES
    conn,       \* row of connections: parameters, health; and what was probed
    lifecycle,  \* of the row of data_sources; None when it is deleted
    snapshot,   \* the tables of the newest schema snapshot, of any status
    binding,    \* included tables of data_source_connections
    policy,     \* whether policies has a row
    connOwned,  \* whether connection_memberships has rows
    sourceOwned,\* whether data_source_memberships has rows
    asked,      \* whether investigations refer to the source
    cache,      \* ConnectionService.connectors
    pools,      \* connectors whose pool is open
    pc,         \* where each request stands
    job,        \* what each request asks for
    seen,       \* what each request has read
    touched     \* history: requests during which another one wrote

sourceRows == <<lifecycle, snapshot, binding, policy, sourceOwned>>
connRows == <<conn, connOwned>>
rows == <<sourceRows, connRows, asked>>
connectors == <<cache, pools>>
vars == <<rows, connectors, pc, job, seen, touched>>

Params == 0..MaxParams
\* What a probe can report, in the two classes an ask tells apart: Healthy stands
\* for PermissionInsufficient too, Unreachable for every health of UNAVAILABLE_HEALTH.
Healths == {"Untested", "Healthy", "Unreachable"}
Kinds == {"save", "publish", "unpublish", "update", "test", "introspect", "remove", "ask"}
Connection == [params : Params, health : Healths, tested : Params]

\* NULL is no row and no lifecycle.
ASSUME NullAssumption == None \notin Connection \cup {"draft", "published"}

Pool == [by : Requests, params : Params, overtaken : BOOLEAN]

\* A draft's tables, or an edit's parameters: None leaves them as they are, resent gives
\* the same user or password again.
Job == [kind : Kinds, tables : SUBSET Tables, params : Params \cup {None}, resent : BOOLEAN]
Idle == [kind |-> "unpublish", tables |-> {}, params |-> None, resent |-> FALSE]
NothingSeen == [lifecycle |-> None, ready |-> FALSE, conn |-> None, pool |-> None,
                overtaken |-> FALSE]

Ended == {"done", "refused", "blocked", "failed", "unevicted", "lost"}
Deletions == {"deleteBinding", "deletePolicy", "deleteMembers", "deleteLinks",
              "deleteSnapshots", "deleteConnMembers", "deleteSource", "deleteConn"}
Points == {"idle", "authorize", "readSnapshot", "saveBinding", "savePolicy", "checkSnapshot",
           "checkBinding", "checkPolicy", "setDraft", "setPublished", "readConn", "updateConn",
           "rereadConn", "evict", "setHealth", "saveSnapshot", "resolveSource",
           "resolveBinding", "resolveSnapshot", "resolveConn", "lookupConnector",
           "buildRecord", "buildConnector", "run"} \cup Deletions \cup Ended

Published == lifecycle = "published"

\* readiness: a captured schema, an included table, a policy.
Ready == snapshot \notin {None, {}} /\ binding \notin {None, {}} /\ policy

TypeOK ==
    /\ conn \in Connection \cup {None}
    /\ lifecycle \in {"draft", "published", None}
    /\ {snapshot, binding} \subseteq {None} \cup SUBSET Tables
    /\ {policy, connOwned, sourceOwned, asked} \subseteq BOOLEAN
    /\ conn = None => lifecycle = None /\ snapshot = None /\ ~connOwned
    /\ lifecycle = None => binding = None /\ ~policy /\ ~sourceOwned /\ ~asked
    /\ cache = None \/ cache \in pools
    /\ pools \subseteq Pool
    /\ pc \in [Requests -> Points]
    /\ job \in [Requests -> Job]
    /\ \A r \in Requests : seen[r].conn \in Connection \cup {None}
    /\ touched \subseteq Requests

\* A connection just created, or a published source in use.
Init ==
    /\ \/ /\ conn = [params |-> 0, health |-> "Untested", tested |-> 0]
          /\ lifecycle = "draft" /\ snapshot = None /\ binding = None
          /\ policy = FALSE /\ asked = FALSE
       \/ /\ conn = [params |-> 0, health |-> "Healthy", tested |-> 0]
          /\ lifecycle = "published" /\ snapshot = Tables /\ binding = Tables
          /\ policy = TRUE /\ asked \in BOOLEAN
    /\ connOwned = TRUE
    /\ sourceOwned = TRUE
    /\ cache = None
    /\ pools = {}
    /\ pc = [r \in Requests |-> "idle"]
    /\ job = [r \in Requests |-> Idle]
    /\ seen = [r \in Requests |-> NothingSeen]
    /\ touched = {}

At(r, point) == pc[r] = point
Move(r, point) == pc' = [pc EXCEPT ![r] = point]
InFlight(r) == pc[r] \notin {"idle"} \cup Ended

\* A write of r is one the others in flight did not expect.
Touch(r) == touched' = touched \cup {q \in Requests \ {r} : InFlight(q)}

Arrive(r) ==
    /\ At(r, "idle")
    /\ \E k \in Kinds :
         /\ \E tables \in IF k = "save" THEN SUBSET Tables ELSE {{}} :
            \E params \in IF k = "update" THEN Params \cup {None} ELSE {None} :
            \E resent \in IF k = "update" /\ params = None THEN BOOLEAN ELSE {FALSE} :
              job' = [job EXCEPT ![r] = [kind |-> k, tables |-> tables, params |-> params,
                                         resent |-> resent]]
         /\ Move(r, CASE k \in {"save", "publish", "unpublish"} -> "authorize"
                      [] k = "ask" -> "resolveSource"
                      [] OTHER -> "readConn")
    /\ UNCHANGED <<rows, connectors, seen, touched>>

-----------------------------------------------------------------------------
(* Authoring.                                                              *)

Authorize(r) ==
    /\ At(r, "authorize")
    /\ seen' = [seen EXCEPT ![r].lifecycle = lifecycle]
    /\ Move(r, IF lifecycle = None \/ ~sourceOwned THEN "refused"
               ELSE CASE job[r].kind = "save" -> "readSnapshot"
                      [] job[r].kind = "publish" -> "checkSnapshot"
                      [] OTHER -> "setDraft")
    /\ UNCHANGED <<rows, connectors, job, touched>>

\* The draft may include only tables of the captured schema.
ReadSnapshot(r) ==
    /\ At(r, "readSnapshot")
    /\ LET known == IF snapshot = None THEN {} ELSE snapshot IN
       Move(r, IF job[r].tables \subseteq known THEN "saveBinding" ELSE "refused")
    /\ UNCHANGED <<rows, connectors, job, seen, touched>>

\* An upsert of a child row needs its parents.
SaveBinding(r) ==
    /\ At(r, "saveBinding")
    /\ IF lifecycle = None
       THEN Move(r, "failed") /\ UNCHANGED <<binding, touched>>
       ELSE Move(r, "savePolicy") /\ binding' = job[r].tables /\ Touch(r)
    /\ UNCHANGED <<lifecycle, snapshot, policy, sourceOwned, connRows, asked, connectors, job, seen>>

\* Mutation: a published source is not checked again.
AfterSaveDone(r) == "done"

\* A source that was published when the save began is checked again.
AfterSave(r) == IF seen[r].lifecycle = "published" THEN "checkSnapshot" ELSE "done"

\* The overview is upserted just before the policy, which alone counts here.
SavePolicy(r) ==
    /\ At(r, "savePolicy")
    /\ IF lifecycle = None
       THEN Move(r, "failed") /\ UNCHANGED <<policy, touched>>
       ELSE Move(r, AfterSave(r)) /\ policy' = TRUE /\ Touch(r)
    /\ UNCHANGED <<lifecycle, snapshot, binding, sourceOwned, connRows, asked, connectors, job, seen>>

\* checkReadiness reads the snapshot, the binding and the policy in turn.
Check(r) ==
    /\ \/ /\ At(r, "checkSnapshot") /\ Move(r, "checkBinding")
          /\ seen' = [seen EXCEPT ![r].ready = snapshot \notin {None, {}}]
       \/ /\ At(r, "checkBinding") /\ Move(r, "checkPolicy")
          /\ seen' = [seen EXCEPT ![r].ready = @ /\ binding \notin {None, {}}]
       \/ /\ At(r, "checkPolicy") /\ UNCHANGED seen
          /\ LET ready == seen[r].ready /\ policy IN
             Move(r, CASE job[r].kind = "publish" -> IF ready THEN "setPublished" ELSE "refused"
                       [] OTHER -> IF ready THEN "done" ELSE "setDraft")
    /\ UNCHANGED <<rows, connectors, job, touched>>

SetLifecycle(r) ==
    /\ pc[r] \in {"setDraft", "setPublished"}
    /\ lifecycle' = IF lifecycle = None THEN None
                    ELSE IF At(r, "setDraft") THEN "draft" ELSE "published"
    /\ Touch(r)
    /\ Move(r, "done")
    /\ UNCHANGED <<snapshot, binding, policy, sourceOwned, connRows, asked, connectors, job, seen>>

-----------------------------------------------------------------------------
(* The connection.                                                         *)

ReadConn(r) ==
    /\ At(r, "readConn")
    /\ seen' = [seen EXCEPT ![r].conn = conn]
    /\ Move(r, IF conn = None \/ ~connOwned THEN "refused"
               ELSE CASE job[r].kind = "update" -> "updateConn"
                      [] job[r].kind = "test" -> "setHealth"
                      [] job[r].kind = "introspect" -> "saveSnapshot"
                      [] OTHER -> "deleteBinding")
    /\ UNCHANGED <<rows, connectors, job, touched>>

\* paramsChanged: other parameters than those read, or credentials, new or not.
ParamsChanged(r) == job[r].resent \/ job[r].params \notin {None, seen[r].conn.params}

\* The whole row as it was read, with what the edit changes; changed parameters
\* have not been tested.
Patch(r) ==
    LET read == seen[r].conn IN
    IF ~ParamsChanged(r) THEN read
    ELSE [read EXCEPT !.params = IF job[r].resent THEN @ ELSE job[r].params, !.health = "Untested"]

\* Changed parameters unpublish the source in the same transaction.
UpdateConn(r) ==
    /\ At(r, "updateConn")
    /\ conn' = IF conn = None THEN None ELSE Patch(r)
    /\ lifecycle' = IF ParamsChanged(r) /\ Published THEN "draft" ELSE lifecycle
    /\ Touch(r)
    /\ Move(r, "rereadConn")
    /\ UNCHANGED <<snapshot, binding, policy, sourceOwned, connOwned, asked, connectors, job, seen>>

\* Mutation: the connector stays in the cache.
AfterUpdateDone == "done"
AfterUpdate == "evict"

RereadConn(r) ==
    /\ At(r, "rereadConn")
    /\ Move(r, IF conn = None THEN "refused" ELSE AfterUpdate)
    /\ UNCHANGED <<rows, connectors, job, seen, touched>>

\* The cached connector goes and its pool is closed; one being built does not.
Evict(r) ==
    /\ At(r, "evict")
    /\ pools' = pools \ {cache}
    /\ cache' = None
    /\ seen' = [q \in Requests |->
                  IF At(q, "buildConnector") THEN [seen[q] EXCEPT !.overtaken = TRUE] ELSE seen[q]]
    /\ Move(r, "done")
    /\ UNCHANGED <<rows, job, touched>>

\* The result of a probe of the parameters that were read.
SetHealth(r) ==
    /\ At(r, "setHealth")
    /\ \E health \in Healths \ {"Untested"} :
         conn' = IF conn = None THEN None
                 ELSE [conn EXCEPT !.health = health, !.tested = seen[r].conn.params]
    /\ Touch(r)
    /\ Move(r, "done")
    /\ UNCHANGED <<sourceRows, connOwned, asked, connectors, job, seen>>

\* What the database had, or nothing when the capture failed.
SaveSnapshot(r) ==
    /\ At(r, "saveSnapshot")
    /\ IF conn = None
       THEN Move(r, "failed") /\ UNCHANGED <<snapshot, touched>>
       ELSE /\ Move(r, "done") /\ Touch(r)
            /\ \E captured \in SUBSET Tables : snapshot' = captured
    /\ UNCHANGED <<lifecycle, binding, policy, sourceOwned, connRows, asked, connectors, job, seen>>

\* Mutation: the policies are forgotten.
NextDeletionNoPolicy ==
    [deleteBinding |-> "deleteMembers", deletePolicy |-> "deleteMembers",
     deleteMembers |-> "deleteLinks", deleteLinks |-> "deleteSnapshots",
     deleteSnapshots |-> "deleteConnMembers", deleteConnMembers |-> "deleteSource",
     deleteSource |-> "deleteConn", deleteConn |-> "evict"]

\* deleteConnection: one statement after another, without a transaction.  Those
\* for context, glossary, mappings and invites go with the policies.
NextDeletion ==
    [deleteBinding |-> "deletePolicy", deletePolicy |-> "deleteMembers",
     deleteMembers |-> "deleteLinks", deleteLinks |-> "deleteSnapshots",
     deleteSnapshots |-> "deleteConnMembers", deleteConnMembers |-> "deleteSource",
     deleteSource |-> "deleteConn", deleteConn |-> "evict"]

\* Mutation: no foreign keys.
HeldByNothing(point) == FALSE

\* Foreign keys: the source is held by its child rows and its investigations,
\* the connection by the source and its own rows.
Held(point) ==
    CASE point = "deleteSource" -> binding # None \/ policy \/ sourceOwned \/ asked
      [] point = "deleteConn" -> lifecycle # None \/ snapshot # None \/ connOwned
      [] OTHER -> FALSE

Delete(r) ==
    /\ pc[r] \in Deletions
    /\ IF Held(pc[r])
       THEN Move(r, "blocked") /\ UNCHANGED <<rows, touched>>
       ELSE /\ Move(r, NextDeletion[pc[r]])
            /\ binding' = IF pc[r] \in {"deleteBinding", "deleteLinks"} THEN None ELSE binding
            /\ policy' = (policy /\ ~At(r, "deletePolicy"))
            /\ sourceOwned' = (sourceOwned /\ ~At(r, "deleteMembers"))
            /\ snapshot' = IF At(r, "deleteSnapshots") THEN None ELSE snapshot
            /\ connOwned' = (connOwned /\ ~At(r, "deleteConnMembers"))
            /\ lifecycle' = IF At(r, "deleteSource") THEN None ELSE lifecycle
            /\ conn' = IF At(r, "deleteConn") THEN None ELSE conn
            /\ Touch(r) /\ UNCHANGED asked
    /\ UNCHANGED <<connectors, job, seen>>

-----------------------------------------------------------------------------
(* An ask is resolved, then runs on the pool it was given.                 *)

Resolve(r) ==
    /\ \/ At(r, "resolveSource")
          /\ Move(r, IF Published THEN "resolveBinding" ELSE "refused")
       \/ At(r, "resolveBinding")
          /\ Move(r, IF binding # None /\ sourceOwned THEN "resolveSnapshot" ELSE "refused")
       \/ At(r, "resolveSnapshot")
          /\ Move(r, IF snapshot # None THEN "resolveConn" ELSE "refused")
       \/ At(r, "resolveConn")
          /\ Move(r, IF conn = None THEN "refused"
                     ELSE IF conn.health = "Unreachable" THEN "refused" ELSE "lookupConnector")
    /\ UNCHANGED <<rows, connectors, job, seen, touched>>

\* connectorFor: the cached connector, or one built from the row read next.
LookupConnector(r) ==
    /\ At(r, "lookupConnector")
    /\ seen' = [seen EXCEPT ![r].pool = cache]
    /\ Move(r, IF cache # None THEN "run" ELSE "buildRecord")
    /\ UNCHANGED <<rows, connectors, job, touched>>

BuildRecord(r) ==
    /\ At(r, "buildRecord")
    /\ seen' = [seen EXCEPT ![r].conn = conn]
    /\ Move(r, IF conn = None THEN "refused" ELSE "buildConnector")
    /\ UNCHANGED <<rows, connectors, job, touched>>

BuildConnector(r) ==
    /\ At(r, "buildConnector")
    /\ IF snapshot = None
       THEN Move(r, "refused") /\ UNCHANGED <<connectors, seen>>
       ELSE LET pool == [by |-> r, params |-> seen[r].conn.params,
                         overtaken |-> seen[r].overtaken] IN
            /\ cache' = pool
            /\ pools' = pools \cup {pool}
            /\ seen' = [seen EXCEPT ![r].pool = pool]
            /\ Move(r, "run")
    /\ UNCHANGED <<rows, job, touched>>

\* The turn ends with an answer, recorded under the source, or without one.
Run(r) ==
    /\ At(r, "run")
    /\ \/ Move(r, "done") /\ UNCHANGED <<asked, touched>>
       \/ /\ lifecycle # None
          /\ Move(r, "done") /\ asked' = TRUE /\ Touch(r)
    /\ UNCHANGED <<sourceRows, connRows, connectors, job, seen>>

-----------------------------------------------------------------------------

\* A statement fails; an edit that has committed then leaves the cache alone.
Fail(r) ==
    /\ InFlight(r) /\ ~At(r, "evict")
    /\ Move(r, IF At(r, "rereadConn") THEN "unevicted" ELSE "failed")
    /\ UNCHANGED <<rows, connectors, job, seen, touched>>

Crash ==
    /\ \E r \in Requests : InFlight(r)
    /\ pc' = [r \in Requests |-> IF InFlight(r) THEN "lost" ELSE pc[r]]
    /\ cache' = None
    /\ pools' = {}
    /\ UNCHANGED <<rows, job, seen, touched>>

Author(r) == Authorize(r) \/ ReadSnapshot(r) \/ SaveBinding(r) \/ SavePolicy(r) \/ Check(r)
             \/ SetLifecycle(r)
Connect(r) == ReadConn(r) \/ UpdateConn(r) \/ RereadConn(r) \/ Evict(r) \/ SetHealth(r)
              \/ SaveSnapshot(r) \/ Delete(r)
Ask(r) == Resolve(r) \/ LookupConnector(r) \/ BuildRecord(r) \/ BuildConnector(r) \/ Run(r)

Next ==
    \/ \E r \in Requests : Arrive(r) \/ Author(r) \/ Connect(r) \/ Ask(r) \/ Fail(r)
    \/ Crash

Spec == Init /\ [][Next]_vars

-----------------------------------------------------------------------------
(* Safety.                                                                 *)

\* A save or a publish that no other write came into leaves the source ready
\* or unpublished, whatever it was before (save's re-check, publish's check).
AuthoringKeepsPublishedReady ==
    [][\A r \in Requests :
         /\ InFlight(r) /\ pc'[r] = "done"
         /\ job[r].kind \in {"save", "publish"} /\ r \notin touched
         => (Published => Ready)']_vars

\* The cached connector has the connection's parameters, and none is cached for
\* a removed connection, unless it was being built while the cache was emptied
\* or an edit has not got to emptying it, or never will since reading the row
\* back failed (connectorFor, update, remove, evictConnector).  The stored health
\* is a result for the stored parameters, unless a probe and an edit overlapped
\* (update resets it, test writes it).
ConnectorIsCurrent ==
    /\ cache # None /\ ~cache.overtaken =>
         \/ conn # None /\ cache.params = conn.params
         \/ \E r \in Requests : pc[r] \in {"rereadConn", "evict", "unevicted"}
    /\ conn # None /\ conn.health # "Untested" /\ conn.tested # conn.params =>
         \E r \in touched : job[r].kind = "test" /\ pc[r] = "done"

\* A removal is stopped by a foreign key only if a question was ever asked of
\* the source or another request wrote meanwhile (deleteConnection).
BlockedOnlyByUse ==
    \A r \in Requests : pc[r] = "blocked" => asked \/ r \in touched

=============================================================================
