--------------------------- MODULE PublishingProofs ----------------------------
(***************************************************************************)
(* Publishing, for every set of tables, of requests and of parameter sets: *)
(* what a save or a publish leaves behind when no other write came into    *)
(* it, what a cached connector and a stored probe say about the row, and   *)
(* what can stop a removal.  The argument: what a request has read still   *)
(* holds as long as nobody has touched it.                                 *)
(***************************************************************************)
EXTENDS Publishing, TLAPS

Seen == [lifecycle : {"draft", "published", None}, ready : BOOLEAN,
         conn : Connection \cup {None}, pool : Pool \cup {None}, overtaken : BOOLEAN]

\* The rows are rows of their tables.
Typed == TypeOK /\ seen \in [Requests -> Seen]

\* The kinds of request that come to a place.
KindFits(kind, p) ==
    /\ p = "authorize" => kind \in {"save", "publish", "unpublish"}
    /\ p \in {"readSnapshot", "saveBinding", "savePolicy"} => kind = "save"
    /\ p \in {"checkSnapshot", "checkBinding", "checkPolicy"} => kind \in {"save", "publish"}
    /\ p = "setPublished" => kind = "publish"
    /\ p = "setDraft" => kind \in {"save", "unpublish"}
    /\ p = "readConn" => kind \in {"update", "test", "introspect", "remove"}
    /\ p \in {"updateConn", "rereadConn"} => kind = "update"
    /\ p = "evict" => kind \in {"update", "remove"}
    /\ p = "setHealth" => kind = "test"
    /\ p = "saveSnapshot" => kind = "introspect"
    /\ p \in Deletions => kind = "remove"
    /\ p \in {"lookupConnector", "buildRecord", "buildConnector", "run"} => kind = "ask"
    /\ p \in {"resolveSource", "resolveBinding", "resolveSnapshot", "resolveConn"} => kind = "ask"
KindsFit == \A r \in Requests : KindFits(job[r].kind, pc[r])

Captured == snapshot \notin {None, {}}
Included == binding \notin {None, {}}

\* What a request at p has read, s, or removed, is still so.
Stands(p, s) ==
    /\ p \in {"readSnapshot", "saveBinding", "savePolicy"} => s.lifecycle = lifecycle
    /\ p = "checkBinding" => (s.ready => Captured)
    /\ p = "checkPolicy" => (s.ready => Captured /\ Included)
    /\ p = "setPublished" => Ready
    /\ p = "setHealth" => s.conn = conn
    /\ p \in {"deletePolicy", "deleteMembers", "deleteLinks", "deleteSnapshots",
              "deleteConnMembers", "deleteSource"} => binding = None
    /\ p \in {"deleteMembers", "deleteLinks", "deleteSnapshots", "deleteConnMembers",
              "deleteSource"} => ~policy
    /\ p \in {"deleteLinks", "deleteSnapshots", "deleteConnMembers", "deleteSource"} => ~sourceOwned
    /\ p \in {"deleteConnMembers", "deleteSource", "deleteConn"} => snapshot = None
    /\ p \in {"deleteSource", "deleteConn"} => ~connOwned
    /\ p = "deleteConn" => lifecycle = None
    /\ p = "blocked" => asked
ReadsStand == \A r \in Requests \ touched : Stands(pc[r], seen[r])

Holding == {"updateConn", "setHealth", "buildConnector"}
RowsAreHeld == \A r \in Requests : pc[r] \in Holding => seen[r].conn # None

\* An edit, or a removal, that has committed and may not have emptied the cache.
Unsettled == \E r \in Requests : pc[r] \in {"rereadConn", "evict", "unevicted"}
Evicting == \E r \in Requests : pc[r] = "evict"

\* Of a row that is gone, the removal itself is at the cache.
CacheFits == cache # None /\ ~cache.overtaken =>
    /\ (conn # None /\ cache.params = conn.params) \/ Unsettled
    /\ conn # None \/ Evicting
BuildersFit == \A r \in Requests : pc[r] = "buildConnector" /\ ~seen[r].overtaken =>
    conn = None \/ seen[r].conn.params = conn.params \/ Unsettled

\* A result stored for other parameters than were probed: in the row, or in what
\* an edit has read and will write back.
Misreported(c) == c # None /\ c.health # "Untested" /\ c.tested # c.params
Overlapped == \E r \in touched : job[r].kind = "test" /\ pc[r] = "done"
ProbesFit ==
    /\ Misreported(conn) => Overlapped
    /\ \A r \in Requests : Misreported(seen[r].conn) => Overlapped

IInv ==
    Typed /\ KindsFit /\ ReadsStand /\ RowsAreHeld /\ CacheFits /\ BuildersFit /\ ProbesFit

-----------------------------------------------------------------------------
(* Steps that only read, and move a request.                               *)

\* What a request must bring, with what it has then read, to stand at p.
Fits(r, p, s) ==
    /\ p \in Points \ {"idle"} /\ s \in Seen
    /\ KindFits(job[r].kind, p)
    /\ r \notin touched => Stands(p, s)
    /\ p \in Holding => s.conn # None
    /\ p = "buildConnector" => s.conn = conn
    /\ Misreported(s.conn) => Overlapped
    /\ pc[r] = "rereadConn" => conn = None \/ p \in {"evict", "unevicted"}

\* A step that changes no row and no connector keeps IInv.
LEMMA LookKeeps ==
    ASSUME IInv, NEW r \in Requests, NEW p, NEW s, InFlight(r), pc[r] # "evict", Fits(r, p, s),
           Move(r, p), seen' = [seen EXCEPT ![r] = s],
           UNCHANGED <<rows, connectors, job, touched>>
    PROVE  IInv'
<1>a. /\ pc' = [pc EXCEPT ![r] = p] /\ pc \in [Requests -> Points] /\ p \in Points
      /\ seen' = [seen EXCEPT ![r] = s] /\ seen \in [Requests -> Seen] /\ s \in Seen
      /\ UNCHANGED <<conn, lifecycle, snapshot, binding, policy, connOwned, sourceOwned, asked,
                     cache, pools, job, touched>>
  BY DEF IInv, Typed, TypeOK, Fits, Move, rows, sourceRows, connRows, connectors
<1>b. Fits(r, p, s) /\ pc[r] \notin {"evict", "unevicted", "done", "idle"}
  BY DEF InFlight, Ended
<1>1. Typed'
  BY <1>a, <1>b DEF IInv, Typed, TypeOK, Seen, Fits
<1>2. KindsFit'
  BY <1>a, <1>b DEF IInv, Typed, TypeOK, KindsFit, KindFits, Deletions, Fits
<1>3. ReadsStand'
  BY <1>a, <1>b DEF IInv, Typed, TypeOK, ReadsStand, Stands, Captured, Included, Ready, Fits
<1>4. RowsAreHeld'
  BY <1>a, <1>b DEF IInv, Typed, TypeOK, RowsAreHeld, Holding, Fits
<1>5. CacheFits'
  BY <1>a, <1>b DEF IInv, Typed, TypeOK, CacheFits, Unsettled, Evicting, Fits
<1>6. BuildersFit'
  BY <1>a, <1>b DEF IInv, Typed, TypeOK, BuildersFit, Unsettled, Fits
<1>7. ProbesFit'
  BY <1>a, <1>b DEF IInv, Typed, TypeOK, ProbesFit, Misreported, Overlapped, Fits
<1> QED BY <1>1, <1>2, <1>3, <1>4, <1>5, <1>6, <1>7 DEF IInv

\* A step that reads nothing new moves the request with what it had read.
LEMMA QuietKeeps ==
    ASSUME IInv, NEW r \in Requests, NEW p, InFlight(r), pc[r] # "evict", Fits(r, p, seen[r]),
           Move(r, p), UNCHANGED <<rows, connectors, job, seen, touched>>
    PROVE  IInv'
<1>1. seen' = [seen EXCEPT ![r] = seen[r]]
  BY DEF IInv, Typed
<1> QED BY <1>1, LookKeeps

\* A request may end anywhere with what it had read, after an edit at the cache only
\* as one that left it alone.
LEMMA EndFits ==
    ASSUME IInv, NEW r \in Requests, NEW p \in {"done", "refused", "failed", "unevicted"},
           pc[r] = "rereadConn" => conn = None \/ p = "unevicted"
    PROVE  Fits(r, p, seen[r])
BY DEF Fits, Points, Ended, IInv, Typed, ProbesFit, KindFits, Stands, Holding, Deletions

\* A statement fails.
LEMMA FailKeeps ==
    ASSUME IInv, NEW r \in Requests, Fail(r)
    PROVE  IInv'
BY EndFits, QuietKeeps DEF Fail, At

\* What a request has read before carries over to what it goes on with.
LEMMA PlacesKnown ==
    ASSUME IInv, NEW r \in Requests
    PROVE  /\ seen[r] \in Seen /\ KindFits(job[r].kind, pc[r]) /\ pc \in [Requests -> Points]
           /\ r \notin touched => Stands(pc[r], seen[r])
           /\ Misreported(seen[r].conn) => Overlapped
           /\ Misreported(conn) => Overlapped
           /\ pc[r] \in Holding => seen[r].conn # None
BY DEF IInv, Typed, TypeOK, KindsFit, ReadsStand, ProbesFit, RowsAreHeld

\* The owner's call begins: what the lifecycle was.
LEMMA AuthorizeKeeps ==
    ASSUME IInv, NEW r \in Requests, Authorize(r)
    PROVE  IInv'
<1> DEFINE s == [seen[r] EXCEPT !.lifecycle = lifecycle]
           p == IF lifecycle = None \/ ~sourceOwned THEN "refused"
                ELSE CASE job[r].kind = "save" -> "readSnapshot"
                       [] job[r].kind = "publish" -> "checkSnapshot"
                       [] OTHER -> "setDraft"
<1>1. /\ pc[r] = "authorize" /\ Move(r, p) /\ UNCHANGED <<rows, connectors, job, touched>>
      /\ seen' = [seen EXCEPT ![r].lifecycle = lifecycle]
  BY DEF Authorize, At
<1>2. seen' = [seen EXCEPT ![r] = s] /\ s \in Seen /\ s.conn = seen[r].conn
      /\ s.lifecycle = lifecycle
  BY <1>1, PlacesKnown DEF Seen, IInv, Typed, TypeOK
<1>3. Fits(r, p, s)
  BY <1>1, <1>2, PlacesKnown DEF Fits, KindFits, Stands, Points, Deletions, Ended, Holding
<1>4. InFlight(r) /\ pc[r] # "evict"
  BY <1>1 DEF InFlight, Ended
<1> HIDE DEF s, p
<1> QED BY <1>1, <1>2, <1>3, <1>4, LookKeeps

\* A save reads the schema, a readiness check the three rows.
LEMMA ChecksKeep ==
    ASSUME IInv, NEW r \in Requests, ReadSnapshot(r) \/ Check(r)
    PROVE  IInv'
<1>1. InFlight(r) /\ pc[r] # "evict" /\ UNCHANGED <<rows, connectors, job, touched>>
  BY DEF ReadSnapshot, Check, InFlight, Ended, At
<1>2. CASE ReadSnapshot(r)
  <2> DEFINE p == IF job[r].tables \subseteq IF snapshot = None THEN {} ELSE snapshot
                  THEN "saveBinding" ELSE "refused"
  <2>1. pc[r] = "readSnapshot" /\ Move(r, p) /\ UNCHANGED seen
    BY <1>2 DEF ReadSnapshot, At
  <2>2. p \in {"saveBinding", "refused"}
    OBVIOUS
  <2> HIDE DEF p
  <2>3. Fits(r, p, seen[r])
    BY <2>1, <2>2, PlacesKnown DEF Fits, KindFits, Stands, Points, Deletions, Ended, Holding
  <2> QED BY <1>1, <2>1, <2>3, QuietKeeps
<1>3. ASSUME At(r, "checkSnapshot"), Move(r, "checkBinding"),
             seen' = [seen EXCEPT ![r].ready = snapshot \notin {None, {}}]
      PROVE  IInv'
  <2> DEFINE s == [seen[r] EXCEPT !.ready = snapshot \notin {None, {}}]
  <2>1. seen' = [seen EXCEPT ![r] = s] /\ s \in Seen /\ s.conn = seen[r].conn /\ s.ready = Captured
    BY <1>3, PlacesKnown DEF Seen, IInv, Typed, TypeOK, Captured
  <2> HIDE DEF s
  <2>2. Fits(r, "checkBinding", s)
    BY <1>3, <2>1, PlacesKnown DEF Fits, KindFits, Stands, Points, Deletions, Ended, Holding, At
  <2> QED BY <1>1, <1>3, <2>1, <2>2, LookKeeps
<1>4. ASSUME At(r, "checkBinding"), Move(r, "checkPolicy"),
             seen' = [seen EXCEPT ![r].ready = @ /\ binding \notin {None, {}}]
      PROVE  IInv'
  <2> DEFINE s == [seen[r] EXCEPT !.ready = @ /\ binding \notin {None, {}}]
  <2>1. seen' = [seen EXCEPT ![r] = s] /\ s \in Seen /\ s.conn = seen[r].conn
        /\ s.ready = (seen[r].ready /\ Included)
    BY <1>4, PlacesKnown DEF Seen, IInv, Typed, TypeOK, Included
  <2> HIDE DEF s
  <2>2. Fits(r, "checkPolicy", s)
    BY <1>4, <2>1, PlacesKnown DEF Fits, KindFits, Stands, Points, Deletions, Ended, Holding, At
  <2> QED BY <1>1, <1>4, <2>1, <2>2, LookKeeps
<1>5. ASSUME At(r, "checkPolicy"), UNCHANGED seen, NEW p,
             p = CASE job[r].kind = "publish" ->
                        IF seen[r].ready /\ policy THEN "setPublished" ELSE "refused"
                   [] OTHER -> IF seen[r].ready /\ policy THEN "done" ELSE "setDraft",
             Move(r, p)
      PROVE  IInv'
  <2>1. Fits(r, p, seen[r])
    BY <1>5, PlacesKnown
       DEF Fits, KindFits, Stands, Points, Deletions, Ended, Holding, At, Ready, Captured, Included
  <2> QED BY <1>1, <1>5, <2>1, QuietKeeps
<1> QED BY <1>2, <1>3, <1>4, <1>5 DEF Check

\* The row of the connection is read, to edit, probe, introspect or remove it.
LEMMA ReadConnKeeps ==
    ASSUME IInv, NEW r \in Requests, ReadConn(r)
    PROVE  IInv'
<1> DEFINE s == [seen[r] EXCEPT !.conn = conn]
           p == IF conn = None \/ ~connOwned THEN "refused"
                ELSE CASE job[r].kind = "update" -> "updateConn"
                       [] job[r].kind = "test" -> "setHealth"
                       [] job[r].kind = "introspect" -> "saveSnapshot"
                       [] OTHER -> "deleteBinding"
<1>1. /\ pc[r] = "readConn" /\ Move(r, p) /\ UNCHANGED <<rows, connectors, job, touched>>
      /\ seen' = [seen EXCEPT ![r].conn = conn]
  BY DEF ReadConn, At
<1>2. seen' = [seen EXCEPT ![r] = s] /\ s \in Seen /\ s.conn = conn
  BY <1>1, PlacesKnown DEF Seen, IInv, Typed, TypeOK
<1>3. Fits(r, p, s)
  BY <1>1, <1>2, PlacesKnown DEF Fits, KindFits, Stands, Points, Deletions, Ended, Holding
<1>4. InFlight(r) /\ pc[r] # "evict"
  BY <1>1 DEF InFlight, Ended
<1> HIDE DEF s, p
<1> QED BY <1>1, <1>2, <1>3, <1>4, LookKeeps

\* An edit reads its row back.
LEMMA RereadConnKeeps ==
    ASSUME IInv, NEW r \in Requests, RereadConn(r)
    PROVE  IInv'
<1> DEFINE p == IF conn = None THEN "refused" ELSE "evict"
<1>1. /\ pc[r] = "rereadConn" /\ Move(r, p) /\ UNCHANGED <<rows, connectors, job, seen, touched>>
  BY DEF RereadConn, At, AfterUpdate
<1>2. Fits(r, p, seen[r])
  BY <1>1, PlacesKnown DEF Fits, KindFits, Stands, Points, Deletions, Ended, Holding
<1>3. InFlight(r) /\ pc[r] # "evict"
  BY <1>1 DEF InFlight, Ended
<1> HIDE DEF p
<1> QED BY <1>1, <1>2, <1>3, QuietKeeps

\* An ask is resolved.
LEMMA ResolveKeeps ==
    ASSUME IInv, NEW r \in Requests, Resolve(r)
    PROVE  IInv'
<1>1. /\ pc[r] \in {"resolveSource", "resolveBinding", "resolveSnapshot", "resolveConn"}
      /\ UNCHANGED <<rows, connectors, job, seen, touched>>
  BY DEF Resolve, At
<1>2. PICK p \in {"resolveBinding", "resolveSnapshot", "resolveConn", "lookupConnector", "refused"} :
        Move(r, p)
  BY DEF Resolve
<1>3. Fits(r, p, seen[r])
  BY <1>1, PlacesKnown DEF Fits, KindFits, Stands, Points, Deletions, Ended, Holding
<1>4. InFlight(r) /\ pc[r] # "evict"
  BY <1>1 DEF InFlight, Ended
<1> QED BY <1>1, <1>2, <1>3, <1>4, QuietKeeps

\* The cached connector is taken, or the row is read to build one.
LEMMA ConnectorReadsKeep ==
    ASSUME IInv, NEW r \in Requests, LookupConnector(r) \/ BuildRecord(r)
    PROVE  IInv'
<1>1. /\ pc[r] \in {"lookupConnector", "buildRecord"} /\ UNCHANGED <<rows, connectors, job, touched>>
      /\ InFlight(r) /\ pc[r] # "evict"
  BY DEF LookupConnector, BuildRecord, At, InFlight, Ended
<1>2. CASE LookupConnector(r)
  <2> DEFINE s == [seen[r] EXCEPT !.pool = cache]
             p == IF cache # None THEN "run" ELSE "buildRecord"
  <2>1. pc[r] = "lookupConnector" /\ Move(r, p) /\ seen' = [seen EXCEPT ![r].pool = cache]
    BY <1>2 DEF LookupConnector, At
  <2>2. seen' = [seen EXCEPT ![r] = s] /\ s \in Seen /\ s.conn = seen[r].conn
    BY <2>1, PlacesKnown DEF Seen, IInv, Typed, TypeOK
  <2>3. Fits(r, p, s)
    BY <2>1, <2>2, PlacesKnown DEF Fits, KindFits, Stands, Points, Deletions, Ended, Holding
  <2> HIDE DEF s, p
  <2> QED BY <1>1, <2>1, <2>2, <2>3, LookKeeps
<1>3. CASE BuildRecord(r)
  <2> DEFINE s == [seen[r] EXCEPT !.conn = conn]
             p == IF conn = None THEN "refused" ELSE "buildConnector"
  <2>1. pc[r] = "buildRecord" /\ Move(r, p) /\ seen' = [seen EXCEPT ![r].conn = conn]
    BY <1>3 DEF BuildRecord, At
  <2>2. seen' = [seen EXCEPT ![r] = s] /\ s \in Seen /\ s.conn = conn
    BY <2>1, PlacesKnown DEF Seen, IInv, Typed, TypeOK
  <2>3. Fits(r, p, s)
    BY <2>1, <2>2, PlacesKnown DEF Fits, KindFits, Stands, Points, Deletions, Ended, Holding
  <2> HIDE DEF s, p
  <2> QED BY <1>1, <2>1, <2>2, <2>3, LookKeeps
<1> QED BY <1>2, <1>3

-----------------------------------------------------------------------------
(* Steps that write a row.                                                 *)

\* The others still in flight are touched; of those that ended, only whether the
\* source was asked of matters, and a question stays.
LEMMA OthersStand ==
    ASSUME IInv, NEW r \in Requests, NEW p, Touch(r), pc' = [pc EXCEPT ![r] = p],
           asked => asked', r \notin touched' => Stands(p, seen[r])', UNCHANGED seen
    PROVE  ReadsStand'
<1>1. ASSUME NEW q \in Requests \ touched', q # r PROVE Stands(pc[q], seen[q])'
  <2>1. q \notin touched /\ ~InFlight(q) /\ pc'[q] = pc[q]
    BY <1>1 DEF Touch, IInv, Typed, TypeOK
  <2>2. pc[q] \in {"idle"} \cup Ended /\ (pc[q] = "blocked" => asked)
    BY <1>1, <2>1 DEF InFlight, IInv, ReadsStand, Stands
  <2> QED BY <2>1, <2>2 DEF Stands, Ended
<1>2. pc'[r] = p
  BY DEF IInv, Typed, TypeOK
<1> QED BY <1>1, <1>2 DEF ReadsStand

\* A request that writes touches no more than requests.
LEMMA TouchedAreRequests ==
    ASSUME IInv, NEW r \in Requests, Touch(r)
    PROVE  touched' \subseteq Requests /\ touched \subseteq touched' /\ (r \in touched' => r \in touched)
BY DEF Touch, IInv, Typed, TypeOK

\* A write to the source's rows, or a capture, by a request that is not at the cache.
LEMMA WriteKeeps ==
    ASSUME IInv, NEW r \in Requests, InFlight(r), pc[r] \notin {"evict", "rereadConn"},
           NEW p \in Points \ {"idle", "buildConnector", "updateConn", "setHealth"},
           Touch(r), Move(r, p), KindFits(job[r].kind, p),
           TypeOK', asked => asked', r \notin touched' => Stands(p, seen[r])',
           UNCHANGED <<conn, connectors, job, seen>>
    PROVE  IInv'
<1>a. /\ pc' = [pc EXCEPT ![r] = p] /\ pc \in [Requests -> Points]
      /\ pc[r] \notin {"evict", "rereadConn", "unevicted", "done", "idle"}
      /\ touched \subseteq touched' /\ seen \in [Requests -> Seen]
      /\ UNCHANGED <<conn, cache, pools, job, seen>>
  BY TouchedAreRequests DEF IInv, Typed, TypeOK, Move, InFlight, Ended, connectors
<1>1. Typed'
  BY <1>a DEF IInv, Typed, TypeOK
<1>2. KindsFit'
  BY <1>a DEF IInv, Typed, TypeOK, KindsFit, KindFits, Deletions
<1>3. ReadsStand'
  BY <1>a, OthersStand
<1>4. RowsAreHeld'
  BY <1>a DEF IInv, Typed, TypeOK, RowsAreHeld, Holding
<1>5. CacheFits'
  BY <1>a DEF IInv, Typed, TypeOK, CacheFits, Unsettled, Evicting
<1>6. BuildersFit'
  BY <1>a DEF IInv, Typed, TypeOK, BuildersFit, Unsettled
<1>7. ProbesFit'
  BY <1>a DEF IInv, Typed, TypeOK, ProbesFit, Misreported, Overlapped
<1> QED BY <1>1, <1>2, <1>3, <1>4, <1>5, <1>6, <1>7 DEF IInv

\* The binding of a save, then its policy.
LEMMA SavesKeep ==
    ASSUME IInv, NEW r \in Requests, SaveBinding(r) \/ SavePolicy(r)
    PROVE  IInv'
<1>1. /\ pc[r] \in {"saveBinding", "savePolicy"} /\ InFlight(r) /\ pc[r] \notin {"evict", "rereadConn"}
      /\ UNCHANGED <<conn, connOwned, connectors, cache, pools, job, seen, asked, lifecycle, snapshot,
                     sourceOwned>>
      /\ job[r] \in Job /\ pc \in [Requests -> Points]
  BY DEF SaveBinding, SavePolicy, At, InFlight, Ended, connRows, connectors, IInv, Typed, TypeOK
<1>2. CASE lifecycle = None
  <2>1. Move(r, "failed") /\ UNCHANGED <<rows, connectors, job, seen, touched>>
    BY <1>1, <1>2 DEF SaveBinding, SavePolicy, rows, sourceRows, connRows
  <2>2. Fits(r, "failed", seen[r])
    BY <1>1, EndFits
  <2> QED BY <1>1, <2>1, <2>2, QuietKeeps
<1>3. CASE SaveBinding(r) /\ lifecycle # None
  <2>1. /\ Move(r, "savePolicy") /\ binding' = job[r].tables /\ Touch(r) /\ UNCHANGED policy
        /\ pc[r] = "saveBinding"
    BY <1>3 DEF SaveBinding, At
  <2>2. TypeOK'
    BY <1>1, <1>3, <2>1, TouchedAreRequests DEF IInv, Typed, TypeOK, Move, Job, Points
  <2>3. KindFits(job[r].kind, "savePolicy") /\ (r \notin touched' => Stands("savePolicy", seen[r])')
    BY <1>1, <2>1, TouchedAreRequests, PlacesKnown DEF KindFits, Stands, Deletions
  <2>4. "savePolicy" \in Points \ {"idle", "buildConnector", "updateConn", "setHealth"}
    BY DEF Points
  <2> QED BY <1>1, <2>1, <2>2, <2>3, <2>4, WriteKeeps
<1>4. CASE SavePolicy(r) /\ lifecycle # None
  <2>0. PICK p : p = AfterSave(r)
    OBVIOUS
  <2>1. /\ Move(r, p) /\ policy' = TRUE /\ Touch(r) /\ UNCHANGED binding /\ pc[r] = "savePolicy"
    BY <1>4, <2>0 DEF SavePolicy, At
  <2>2. p = IF seen[r].lifecycle = "published" THEN "checkSnapshot" ELSE "done"
    BY <2>0 DEF AfterSave
  <2>3. TypeOK'
    BY <1>1, <1>4, <2>1, <2>2, TouchedAreRequests DEF IInv, Typed, TypeOK, Move, Points, Ended
  <2>4. KindFits(job[r].kind, p) /\ (r \notin touched' => Stands(p, seen[r])')
    BY <1>1, <2>1, <2>2, TouchedAreRequests, PlacesKnown DEF KindFits, Stands, Deletions
  <2>5. p \in Points \ {"idle", "buildConnector", "updateConn", "setHealth"}
    BY <2>2 DEF Points, Ended
  <2> QED BY <1>1, <2>1, <2>3, <2>4, <2>5, WriteKeeps
<1> QED BY <1>2, <1>3, <1>4

\* The lifecycle is set, of a source that is there.
LEMMA SetLifecycleKeeps ==
    ASSUME IInv, NEW r \in Requests, SetLifecycle(r)
    PROVE  IInv'
<1>1. /\ pc[r] \in {"setDraft", "setPublished"} /\ InFlight(r)
      /\ pc[r] \notin {"evict", "rereadConn"} /\ Touch(r) /\ Move(r, "done")
      /\ lifecycle' \in {"draft", "published", None} /\ (lifecycle' = None <=> lifecycle = None)
      /\ UNCHANGED <<conn, connOwned, connectors, cache, pools, job, seen, asked, snapshot, binding,
                     policy, sourceOwned>>
      /\ pc \in [Requests -> Points]
  BY NullAssumption
     DEF SetLifecycle, At, InFlight, Ended, connRows, connectors, IInv, Typed, TypeOK
<1>2. TypeOK'
  BY <1>1, TouchedAreRequests DEF IInv, Typed, TypeOK, Move, Points, Ended
<1>3. KindFits(job[r].kind, "done") /\ Stands("done", seen[r])'
  BY DEF KindFits, Stands, Deletions
<1>4. "done" \in Points \ {"idle", "buildConnector", "updateConn", "setHealth"}
  BY DEF Points, Ended
<1> QED BY <1>1, <1>2, <1>3, <1>4, WriteKeeps

\* A capture, of a connection that is there.
LEMMA SaveSnapshotKeeps ==
    ASSUME IInv, NEW r \in Requests, SaveSnapshot(r)
    PROVE  IInv'
<1>1. /\ pc[r] = "saveSnapshot" /\ InFlight(r) /\ pc[r] \notin {"evict", "rereadConn"}
      /\ UNCHANGED <<conn, connOwned, connectors, cache, pools, job, seen, asked, lifecycle, binding,
                     policy, sourceOwned>>
      /\ pc \in [Requests -> Points]
  BY DEF SaveSnapshot, At, InFlight, Ended, connRows, connectors, IInv, Typed, TypeOK
<1>2. CASE conn = None
  <2>1. Move(r, "failed") /\ UNCHANGED <<rows, connectors, job, seen, touched>>
    BY <1>1, <1>2 DEF SaveSnapshot, rows, sourceRows, connRows
  <2>2. Fits(r, "failed", seen[r])
    BY <1>1, EndFits
  <2> QED BY <1>1, <2>1, <2>2, QuietKeeps
<1>3. CASE conn # None
  <2>1. Move(r, "done") /\ Touch(r) /\ snapshot' \in SUBSET Tables
    BY <1>3 DEF SaveSnapshot
  <2>2. TypeOK'
    BY <1>1, <1>3, <2>1, TouchedAreRequests DEF IInv, Typed, TypeOK, Move, Points, Ended
  <2>3. KindFits(job[r].kind, "done") /\ Stands("done", seen[r])'
    BY DEF KindFits, Stands, Deletions
  <2>4. "done" \in Points \ {"idle", "buildConnector", "updateConn", "setHealth"}
    BY DEF Points, Ended
  <2> QED BY <1>1, <2>1, <2>2, <2>3, <2>4, WriteKeeps
<1> QED BY <1>2, <1>3

\* A turn ends, with an answer under a source that is there or without one.
LEMMA RunKeeps ==
    ASSUME IInv, NEW r \in Requests, Run(r)
    PROVE  IInv'
<1>1. /\ pc[r] = "run" /\ InFlight(r) /\ pc[r] \notin {"evict", "rereadConn"} /\ Move(r, "done")
      /\ UNCHANGED <<conn, connOwned, connectors, cache, pools, job, seen, lifecycle, snapshot, binding,
                     policy, sourceOwned>>
      /\ pc \in [Requests -> Points]
  BY DEF Run, At, InFlight, Ended, sourceRows, connRows, connectors, IInv, Typed, TypeOK
<1>2. CASE UNCHANGED <<asked, touched>>
  <2>1. UNCHANGED <<rows, connectors, job, seen, touched>> /\ Fits(r, "done", seen[r])
    BY <1>1, <1>2, EndFits DEF rows, sourceRows, connRows
  <2> QED BY <1>1, <2>1, QuietKeeps
<1>3. CASE lifecycle # None /\ asked' = TRUE /\ Touch(r)
  <2>1. TypeOK'
    BY <1>1, <1>3, TouchedAreRequests DEF IInv, Typed, TypeOK, Move, Points, Ended
  <2>2. KindFits(job[r].kind, "done") /\ Stands("done", seen[r])'
    BY DEF KindFits, Stands, Deletions
  <2>3. "done" \in Points \ {"idle", "buildConnector", "updateConn", "setHealth"}
    BY DEF Points, Ended
  <2> QED BY <1>1, <1>3, <2>1, <2>2, <2>3, WriteKeeps
<1> QED BY <1>1, <1>2, <1>3 DEF Run

-----------------------------------------------------------------------------
(* A removal.                                                              *)

\* Each statement of a removal goes on with the next.
LEMMA RemovalsGoOn ==
    ASSUME NEW p \in Deletions
    PROVE  /\ NextDeletion[p] =
                CASE p = "deleteBinding" -> "deletePolicy" [] p = "deletePolicy" -> "deleteMembers"
                  [] p = "deleteMembers" -> "deleteLinks" [] p = "deleteLinks" -> "deleteSnapshots"
                  [] p = "deleteSnapshots" -> "deleteConnMembers"
                  [] p = "deleteConnMembers" -> "deleteSource" [] p = "deleteSource" -> "deleteConn"
                  [] p = "deleteConn" -> "evict"
           /\ NextDeletion[p] \in (Deletions \ {"deleteBinding"}) \cup {"evict"}
BY DEF Deletions, NextDeletion

\* A removal takes one row after another, unless a foreign key stops it.
LEMMA DeleteKeeps ==
    ASSUME IInv, NEW r \in Requests, Delete(r)
    PROVE  IInv'
<1>1. /\ pc[r] \in Deletions /\ InFlight(r) /\ pc[r] \notin {"evict", "rereadConn"}
      /\ UNCHANGED <<connectors, cache, pools, job, seen>> /\ pc \in [Requests -> Points]
  BY DEF Delete, Deletions, InFlight, Ended, connectors, IInv, Typed, TypeOK
<1>2. CASE Held(pc[r])
  <2>1. Move(r, "blocked") /\ UNCHANGED <<rows, connectors, job, seen, touched>>
    BY <1>1, <1>2 DEF Delete
  <2>2. Fits(r, "blocked", seen[r])
    BY <1>1, <1>2, PlacesKnown
       DEF Fits, KindFits, Stands, Points, Deletions, Ended, Holding, Held
  <2> QED BY <1>1, <2>1, <2>2, QuietKeeps
<1>0. PICK p : p = NextDeletion[pc[r]]
  OBVIOUS
<1>3. CASE ~Held(pc[r])
  <2>1. /\ Move(r, p) /\ Touch(r) /\ UNCHANGED asked
        /\ binding' = IF pc[r] \in {"deleteBinding", "deleteLinks"} THEN None ELSE binding
        /\ policy' = (policy /\ pc[r] # "deletePolicy")
        /\ sourceOwned' = (sourceOwned /\ pc[r] # "deleteMembers")
        /\ snapshot' = IF pc[r] = "deleteSnapshots" THEN None ELSE snapshot
        /\ connOwned' = (connOwned /\ pc[r] # "deleteConnMembers")
        /\ lifecycle' = IF pc[r] = "deleteSource" THEN None ELSE lifecycle
        /\ conn' = IF pc[r] = "deleteConn" THEN None ELSE conn
    BY <1>0, <1>3 DEF Delete, At
  <2>2. /\ pc[r] = "deleteSource" => binding = None /\ ~policy /\ ~sourceOwned /\ ~asked
        /\ pc[r] = "deleteConn" => lifecycle = None /\ snapshot = None /\ ~connOwned
    BY <1>3 DEF Held
  <2>3. /\ p \in (Deletions \ {"deleteBinding"}) \cup {"evict"}
        /\ p \in Points \ {"idle", "buildConnector", "updateConn", "setHealth"}
        /\ p = "deletePolicy" <=> pc[r] = "deleteBinding"
        /\ p = "deleteMembers" <=> pc[r] = "deletePolicy"
        /\ p = "deleteLinks" <=> pc[r] = "deleteMembers"
        /\ p = "deleteSnapshots" <=> pc[r] = "deleteLinks"
        /\ p = "deleteConnMembers" <=> pc[r] = "deleteSnapshots"
        /\ p = "deleteSource" <=> pc[r] = "deleteConnMembers"
        /\ p = "deleteConn" <=> pc[r] = "deleteSource"
        /\ p = "evict" <=> pc[r] = "deleteConn"
    BY <1>0, <1>1, RemovalsGoOn DEF Deletions, Points
  <2>4. KindFits(job[r].kind, p)
    BY <1>1, <2>3, PlacesKnown DEF KindFits, Deletions
  <2>5. r \notin touched' => Stands(p, seen[r])'
    BY <1>1, <2>1, <2>3, TouchedAreRequests, PlacesKnown DEF Stands, Deletions
  <2>6. TypeOK'
    BY <1>1, <2>1, <2>2, <2>3, TouchedAreRequests DEF IInv, Typed, TypeOK, Move
  <2>7. CASE pc[r] # "deleteConn"
    BY <1>1, <2>1, <2>3, <2>4, <2>5, <2>6, <2>7, WriteKeeps
  <2>8. CASE pc[r] = "deleteConn"
    <3>1. /\ pc' = [pc EXCEPT ![r] = "evict"] /\ conn' = None /\ touched \subseteq touched'
          /\ seen \in [Requests -> Seen] /\ job[r].kind = "remove"
      BY <2>1, <2>3, <2>8, TouchedAreRequests, PlacesKnown DEF Move, IInv, Typed, KindFits, Deletions
    <3>2. Typed'
      BY <1>1, <2>6, <3>1 DEF Typed
    <3>3. KindsFit'
      BY <1>1, <2>8, <3>1 DEF IInv, Typed, TypeOK, KindsFit, KindFits, Deletions
    <3>4. ReadsStand'
      BY <1>1, <2>1, <2>5, OthersStand DEF Move
    <3>5. RowsAreHeld'
      BY <1>1, <2>8, <3>1 DEF IInv, Typed, TypeOK, RowsAreHeld, Holding
    <3>6. CacheFits'
      BY <1>1, <2>8, <3>1 DEF IInv, Typed, TypeOK, CacheFits, Unsettled, Evicting
    <3>7. BuildersFit'
      BY <1>1, <2>8, <3>1 DEF IInv, Typed, TypeOK, BuildersFit, Unsettled
    <3>8. ProbesFit'
      BY <1>1, <2>8, <3>1 DEF IInv, Typed, TypeOK, ProbesFit, Misreported, Overlapped
    <3> QED BY <3>2, <3>3, <3>4, <3>5, <3>6, <3>7, <3>8 DEF IInv
  <2> QED BY <2>7, <2>8
<1> QED BY <1>2, <1>3

-----------------------------------------------------------------------------
(* Edits and probes of the connection.                                     *)

\* What an edit writes back is a row, misreported only if the one it read was.
LEMMA PatchIsARow ==
    ASSUME IInv, NEW r \in Requests, pc[r] = "updateConn"
    PROVE  /\ Patch(r) \in Connection /\ seen[r].conn \in Connection
           /\ Misreported(Patch(r)) => Misreported(seen[r].conn)
<1>1. seen[r].conn \in Connection /\ job[r].params \in Params \cup {None}
  BY PlacesKnown DEF IInv, Typed, TypeOK, Seen, Holding, Job
<1>2. CASE ~ParamsChanged(r)
  BY <1>1, <1>2 DEF Patch
<1>3. CASE ParamsChanged(r)
  <2>1. PICK params : /\ params = IF job[r].resent THEN seen[r].conn.params ELSE job[r].params
                      /\ Patch(r) = [seen[r].conn EXCEPT !.params = params, !.health = "Untested"]
    BY <1>1, <1>3 DEF Patch, Connection
  <2>2. params \in Params
    BY <1>1, <1>3, <2>1 DEF ParamsChanged, Connection
  <2>3. Patch(r) \in Connection /\ Patch(r).health = "Untested"
    BY <1>1, <2>1, <2>2 DEF Connection, Healths
  <2> QED BY <1>1, <2>3 DEF Misreported
<1> QED BY <1>2, <1>3

\* An edit writes its row back, and has still to empty the cache.
LEMMA UpdateConnKeeps ==
    ASSUME IInv, NEW r \in Requests, UpdateConn(r)
    PROVE  IInv'
<1>1. /\ pc[r] = "updateConn" /\ job[r].kind = "update" /\ pc \in [Requests -> Points]
      /\ pc' = [pc EXCEPT ![r] = "rereadConn"] /\ Touch(r) /\ touched \subseteq touched'
      /\ touched' \subseteq Requests /\ seen \in [Requests -> Seen]
      /\ UNCHANGED <<snapshot, binding, policy, sourceOwned, connOwned, asked, cache, pools, job,
                     seen>>
  BY TouchedAreRequests, PlacesKnown
     DEF UpdateConn, At, Move, connectors, KindFits, IInv, Typed, TypeOK
<1>2. /\ conn' \in Connection \cup {None} /\ (conn' = None <=> conn = None)
      /\ Misreported(conn') => Overlapped
      /\ lifecycle' \in {"draft", "published", None} /\ (lifecycle' = None <=> lifecycle = None)
  <2>1. /\ conn' = IF conn = None THEN None ELSE Patch(r)
        /\ lifecycle' = lifecycle \/ (lifecycle = "published" /\ lifecycle' = "draft")
        /\ lifecycle \in {"draft", "published", None}
    BY DEF UpdateConn, Published, IInv, Typed, TypeOK
  <2>2. Patch(r) \in Connection /\ Patch(r) # None /\ (Misreported(Patch(r)) => Overlapped)
    BY <1>1, PatchIsARow, PlacesKnown, NullAssumption
  <2>3. Misreported(conn') => Overlapped
    BY <2>1, <2>2 DEF Misreported
  <2> QED BY <2>1, <2>2, <2>3, NullAssumption
<1>3. ReadsStand'
  BY <1>1, OthersStand DEF Stands, Deletions
<1>4. Typed'
  BY <1>1, <1>2 DEF IInv, Typed, TypeOK, Points
<1>5. ProbesFit'
  <2>1. Overlapped => Overlapped'
    BY <1>1 DEF Overlapped
  <2>2. Misreported(conn)' => Overlapped
    BY <1>2 DEF Misreported
  <2>3. \A q \in Requests : Misreported(seen[q].conn)' => Overlapped
    BY <1>1 DEF Misreported, IInv, ProbesFit
  <2> QED BY <2>1, <2>2, <2>3 DEF ProbesFit
<1>6. KindsFit'
  BY <1>1, <1>2 DEF IInv, Typed, TypeOK, KindsFit, KindFits, Deletions
<1>7. RowsAreHeld'
  BY <1>1, <1>2 DEF IInv, Typed, TypeOK, RowsAreHeld, Holding
<1>8. CacheFits'
  BY <1>1, <1>2 DEF IInv, Typed, TypeOK, CacheFits, Unsettled, Evicting
<1>9. BuildersFit'
  BY <1>1, <1>2 DEF IInv, Typed, TypeOK, BuildersFit, Unsettled
<1> QED BY <1>3, <1>4, <1>5, <1>6, <1>7, <1>8, <1>9 DEF IInv

\* A probe's result is one of other parameters only if an edit came in between.
LEMMA SetHealthKeeps ==
    ASSUME IInv, NEW r \in Requests, SetHealth(r)
    PROVE  IInv'
<1>1. /\ pc[r] = "setHealth" /\ job[r].kind = "test" /\ pc \in [Requests -> Points]
      /\ pc' = [pc EXCEPT ![r] = "done"] /\ Touch(r) /\ touched \subseteq touched'
      /\ touched' \subseteq Requests /\ seen \in [Requests -> Seen] /\ seen[r].conn \in Connection
      /\ UNCHANGED <<lifecycle, snapshot, binding, policy, sourceOwned, connOwned, asked, cache, pools,
                     job, seen>>
      /\ r \notin touched => seen[r].conn = conn
  BY TouchedAreRequests, PlacesKnown
     DEF SetHealth, At, Move, sourceRows, connectors, KindFits, Stands, Holding, Seen, IInv, Typed,
         TypeOK
<1>2. PICK health \in Healths \ {"Untested"} :
        conn' = IF conn = None THEN None
                ELSE [conn EXCEPT !.health = health, !.tested = seen[r].conn.params]
  BY DEF SetHealth
<1>3. /\ conn' \in Connection \cup {None} /\ (conn' = None <=> conn = None)
      /\ conn # None => conn'.params = conn.params /\ conn'.tested = seen[r].conn.params
  BY <1>1, <1>2, NullAssumption DEF IInv, Typed, TypeOK, Connection
<1>4. ReadsStand'
  BY <1>1, OthersStand DEF Stands, Deletions
<1>5. Typed'
  BY <1>1, <1>3 DEF IInv, Typed, TypeOK, Points, Ended
<1>6. ProbesFit'
  <2>1. Overlapped => Overlapped'
    BY <1>1 DEF Overlapped
  <2>2. r \in touched => Overlapped'
    BY <1>1 DEF Overlapped
  <2>3. Misreported(conn)' => r \in touched
    BY <1>1, <1>3 DEF Misreported
  <2>4. \A q \in Requests : Misreported(seen[q].conn)' => Overlapped
    BY <1>1 DEF Misreported, IInv, ProbesFit
  <2> QED BY <2>1, <2>2, <2>3, <2>4 DEF ProbesFit
<1>7. KindsFit'
  BY <1>1, <1>3 DEF IInv, Typed, TypeOK, KindsFit, KindFits, Deletions
<1>8. RowsAreHeld'
  BY <1>1, <1>3 DEF IInv, Typed, TypeOK, RowsAreHeld, Holding
<1>9. CacheFits'
  BY <1>1, <1>3 DEF IInv, Typed, TypeOK, CacheFits, Unsettled, Evicting
<1>10. BuildersFit'
  BY <1>1, <1>3 DEF IInv, Typed, TypeOK, BuildersFit, Unsettled, Seen, Connection
<1> QED BY <1>4, <1>5, <1>6, <1>7, <1>8, <1>9, <1>10 DEF IInv

-----------------------------------------------------------------------------
(* The cache of connectors.                                                *)

\* The cache is emptied, and what is being built is overtaken.
LEMMA EvictKeeps ==
    ASSUME IInv, NEW r \in Requests, Evict(r)
    PROVE  IInv'
<1>1. /\ pc[r] = "evict" /\ pc \in [Requests -> Points] /\ pc' = [pc EXCEPT ![r] = "done"]
      /\ pools' = pools \ {cache} /\ cache' = None
      /\ seen' = [q \in Requests |-> IF pc[q] = "buildConnector"
                                     THEN [seen[q] EXCEPT !.overtaken = TRUE] ELSE seen[q]]
      /\ UNCHANGED <<conn, lifecycle, snapshot, binding, policy, connOwned, sourceOwned, asked, job,
                     touched>>
  BY DEF Evict, At, Move, rows, sourceRows, connRows, IInv, Typed, TypeOK
<1>2. \A q \in Requests : /\ seen'[q] \in Seen /\ seen'[q].conn = seen[q].conn
                          /\ pc[q] # "buildConnector" => seen'[q] = seen[q]
                          /\ pc[q] = "buildConnector" => seen'[q].overtaken
  BY <1>1 DEF IInv, Typed, Seen
<1>3. Typed'
  BY <1>1, <1>2 DEF IInv, Typed, TypeOK, Points, Ended, Seen
<1>4. \A q \in Requests : Stands(pc[q], seen[q]) => Stands(pc'[q], seen'[q])
  BY <1>1, <1>2 DEF Stands, Deletions
<1>5. KindsFit'
  BY <1>1, <1>2 DEF IInv, Typed, TypeOK, KindsFit, KindFits, Deletions
<1>6. ReadsStand'
  BY <1>1, <1>4 DEF IInv, ReadsStand, Stands, Captured, Included, Ready
<1>7. RowsAreHeld'
  BY <1>1, <1>2 DEF IInv, Typed, TypeOK, RowsAreHeld, Holding
<1>8. CacheFits'
  BY <1>1, <1>2 DEF IInv, Typed, TypeOK, CacheFits, Unsettled, Evicting
<1>9. BuildersFit'
  BY <1>1, <1>2 DEF IInv, Typed, TypeOK, BuildersFit, Unsettled
<1>10. ProbesFit'
  BY <1>1, <1>2 DEF IInv, Typed, TypeOK, ProbesFit, Misreported, Overlapped
<1> QED BY <1>3, <1>5, <1>6, <1>7, <1>8, <1>9, <1>10 DEF IInv

\* A connector of the row that was read goes into the cache.
LEMMA BuildConnectorKeeps ==
    ASSUME IInv, NEW r \in Requests, BuildConnector(r)
    PROVE  IInv'
<1>1. /\ pc[r] = "buildConnector" /\ job[r].kind = "ask" /\ pc \in [Requests -> Points]
      /\ InFlight(r) /\ seen[r] \in Seen /\ seen[r].conn \in Connection
      /\ UNCHANGED <<conn, lifecycle, snapshot, binding, policy, connOwned, sourceOwned, asked, job,
                     touched>>
  BY PlacesKnown DEF BuildConnector, At, InFlight, Ended, KindFits, Holding, Seen, rows, sourceRows,
     connRows, IInv, Typed, TypeOK
<1>2. CASE snapshot = None
  <2>1. Move(r, "refused") /\ UNCHANGED <<rows, connectors, job, seen, touched>>
    BY <1>2 DEF BuildConnector
  <2>2. Fits(r, "refused", seen[r])
    BY <1>1, EndFits
  <2> QED BY <1>1, <2>1, <2>2, QuietKeeps
<1>3. CASE snapshot # None
  <2> DEFINE pool == [by |-> r, params |-> seen[r].conn.params, overtaken |-> seen[r].overtaken]
  <2>1. /\ cache' = pool /\ pools' = pools \cup {pool} /\ pc' = [pc EXCEPT ![r] = "run"]
        /\ seen' = [seen EXCEPT ![r].pool = pool]
    BY <1>3 DEF BuildConnector, Move
  <2>2. pool \in Pool /\ pool.params = seen[r].conn.params /\ pool.overtaken = seen[r].overtaken
    BY <1>1 DEF Pool, Seen, Connection
  <2> HIDE DEF pool
  <2>3. /\ seen \in [Requests -> Seen] /\ seen' = [seen EXCEPT ![r] = seen'[r]]
        /\ seen'[r] \in Seen /\ seen'[r].conn = seen[r].conn
    BY <2>1, <2>2 DEF IInv, Typed, Seen
  <2>4. conn # None /\ (~pool.overtaken => pool.params = conn.params \/ Unsettled)
    BY <1>1, <1>3, <2>2 DEF IInv, Typed, TypeOK, BuildersFit
  <2>5. KindFits(job[r].kind, "run") /\ Stands("run", seen'[r])
    BY <1>1 DEF KindFits, Stands, Deletions
  <2>6. Typed'
    BY <1>1, <2>1, <2>2, <2>3 DEF IInv, Typed, TypeOK, Points, Ended
  <2>7. KindsFit'
    BY <1>1, <2>1, <2>2, <2>3 DEF IInv, Typed, TypeOK, KindsFit, KindFits, Deletions
  <2>8. ReadsStand'
    BY <1>1, <2>1, <2>3, <2>5 DEF IInv, ReadsStand, Stands, Captured, Included, Ready
  <2>9. RowsAreHeld'
    BY <1>1, <2>1, <2>2, <2>3 DEF IInv, Typed, TypeOK, RowsAreHeld, Holding
  <2>10. CacheFits'
    BY <1>1, <2>1, <2>2, <2>3, <2>4 DEF IInv, Typed, TypeOK, CacheFits, Unsettled, Evicting,
       Unsettled
  <2>11. BuildersFit'
    BY <1>1, <2>1, <2>2, <2>3 DEF IInv, Typed, TypeOK, BuildersFit, Unsettled
  <2>12. ProbesFit'
    BY <1>1, <2>1, <2>2, <2>3 DEF IInv, Typed, TypeOK, ProbesFit, Misreported, Overlapped
  <2> QED BY <2>6, <2>7, <2>8, <2>9, <2>10, <2>11, <2>12 DEF IInv
<1> QED BY <1>2, <1>3

\* A crash forgets the connectors and those who built them.
LEMMA CrashKeeps ==
    ASSUME IInv, Crash
    PROVE  IInv'
<1>1. /\ pc \in [Requests -> Points] /\ cache' = None /\ pools' = {}
      /\ pc' = [r \in Requests |-> IF InFlight(r) THEN "lost" ELSE pc[r]]
      /\ UNCHANGED <<conn, lifecycle, snapshot, binding, policy, connOwned, sourceOwned, asked, job,
                     seen, touched>>
  BY DEF Crash, rows, sourceRows, connRows, IInv, Typed, TypeOK
<1>2. \A r \in Requests : /\ pc'[r] \in {"idle"} \cup Ended
                          /\ pc'[r] \in {"blocked", "done"} => pc[r] = pc'[r]
                          /\ pc[r] = "done" => pc'[r] = "done"
  BY <1>1 DEF InFlight, Ended
<1>3. Typed'
  BY <1>1, <1>2 DEF IInv, Typed, TypeOK, Points, Ended
<1>4. KindsFit'
  BY <1>1, <1>2 DEF IInv, Typed, TypeOK, KindsFit, KindFits, Deletions, Ended
<1>5. ReadsStand'
  BY <1>1, <1>2 DEF IInv, Typed, TypeOK, ReadsStand, Stands, Captured, Included, Ready, Ended
<1>6. RowsAreHeld'
  BY <1>1, <1>2 DEF IInv, Typed, TypeOK, RowsAreHeld, Holding, Ended
<1>7. CacheFits'
  BY <1>1, <1>2 DEF IInv, Typed, TypeOK, CacheFits, Unsettled, Evicting, Ended
<1>8. BuildersFit'
  BY <1>1, <1>2 DEF IInv, Typed, TypeOK, BuildersFit, Unsettled, Ended
<1>9. ProbesFit'
  BY <1>1, <1>2 DEF IInv, Typed, TypeOK, ProbesFit, Misreported, Overlapped, Ended
<1> QED BY <1>3, <1>4, <1>5, <1>6, <1>7, <1>8, <1>9 DEF IInv

\* What a request arrives with.
LEMMA ArriveKeeps ==
    ASSUME IInv, NEW r \in Requests, Arrive(r)
    PROVE  IInv'
<1>1. PICK k \in Kinds :
        /\ \E tables \in IF k = "save" THEN SUBSET Tables ELSE {{}} :
           \E params \in IF k = "update" THEN Params \cup {None} ELSE {None} :
           \E resent \in IF k = "update" /\ params = None THEN BOOLEAN ELSE {FALSE} :
             job' = [job EXCEPT ![r] = [kind |-> k, tables |-> tables, params |-> params,
                                        resent |-> resent]]
        /\ Move(r, CASE k \in {"save", "publish", "unpublish"} -> "authorize"
                     [] k = "ask" -> "resolveSource"
                     [] OTHER -> "readConn")
  BY DEF Arrive
<1>2. PICK p : /\ p = CASE k \in {"save", "publish", "unpublish"} -> "authorize"
                        [] k = "ask" -> "resolveSource"
                        [] OTHER -> "readConn"
               /\ pc' = [pc EXCEPT ![r] = p]
  BY <1>1 DEF Move
<1>3. PICK j \in Job : j.kind = k /\ job' = [job EXCEPT ![r] = j]
  <2>1. PICK tables \in IF k = "save" THEN SUBSET Tables ELSE {{}} :
        \E params \in IF k = "update" THEN Params \cup {None} ELSE {None} :
        \E resent \in IF k = "update" /\ params = None THEN BOOLEAN ELSE {FALSE} :
          job' = [job EXCEPT ![r] = [kind |-> k, tables |-> tables, params |-> params,
                                     resent |-> resent]]
    BY <1>1
  <2>2. PICK params \in IF k = "update" THEN Params \cup {None} ELSE {None} :
        \E resent \in IF k = "update" /\ params = None THEN BOOLEAN ELSE {FALSE} :
          job' = [job EXCEPT ![r] = [kind |-> k, tables |-> tables, params |-> params,
                                     resent |-> resent]]
    BY <2>1
  <2>3. PICK resent \in IF k = "update" /\ params = None THEN BOOLEAN ELSE {FALSE} :
          job' = [job EXCEPT ![r] = [kind |-> k, tables |-> tables, params |-> params,
                                     resent |-> resent]]
    BY <2>2
  <2>4. tables \in SUBSET Tables /\ params \in Params \cup {None} /\ resent \in BOOLEAN
    OBVIOUS
  <2>5. [kind |-> k, tables |-> tables, params |-> params, resent |-> resent] \in Job
    BY <2>4 DEF Job
  <2> QED BY <2>3, <2>5
<1>4. /\ p \in {"authorize", "resolveSource", "readConn"} /\ KindFits(j.kind, p)
  BY <1>2, <1>3 DEF Kinds, KindFits, Deletions
<1>5. /\ pc[r] = "idle" /\ pc \in [Requests -> Points] /\ job \in [Requests -> Job]
      /\ UNCHANGED <<conn, lifecycle, snapshot, binding, policy, connOwned, sourceOwned, asked, cache,
                     pools, seen, touched>>
      /\ pc' = [pc EXCEPT ![r] = p] /\ job' = [job EXCEPT ![r] = j]
  BY <1>2, <1>3 DEF Arrive, At, rows, sourceRows, connRows, connectors, IInv, Typed, TypeOK
<1>6. Stands(p, seen[r])
  BY <1>4 DEF Stands
<1>7. Typed'
  BY <1>4, <1>5 DEF IInv, Typed, TypeOK, Points
<1>8. KindsFit'
  BY <1>4, <1>5 DEF IInv, Typed, TypeOK, KindsFit, KindFits, Deletions
<1>9. ReadsStand'
  BY <1>5, <1>6 DEF IInv, ReadsStand, Stands, Captured, Included, Ready
<1>10. RowsAreHeld'
  BY <1>4, <1>5 DEF IInv, Typed, TypeOK, RowsAreHeld, Holding
<1>11. CacheFits'
  BY <1>4, <1>5 DEF IInv, Typed, TypeOK, CacheFits, Unsettled, Evicting
<1>12. BuildersFit'
  BY <1>4, <1>5 DEF IInv, Typed, TypeOK, BuildersFit, Unsettled
<1>13. ProbesFit'
  BY <1>4, <1>5 DEF IInv, Typed, TypeOK, ProbesFit, Misreported, Overlapped
<1> QED BY <1>7, <1>8, <1>9, <1>10, <1>11, <1>12, <1>13 DEF IInv

-----------------------------------------------------------------------------
(* The theorems.                                                           *)

\* A connection just created, or a published source in use.
LEMMA InitIInv == Init => IInv
<1> SUFFICES ASSUME Init PROVE IInv
  OBVIOUS
<1>1. Typed
  <2>1. 0 \in Params
    BY PublishingAssumption DEF Params
  <2>2. NothingSeen \in Seen /\ Idle \in Job
    BY DEF NothingSeen, Seen, Idle, Job, Kinds
  <2>3. conn \in Connection
    BY <2>1 DEF Init, Connection, Healths
  <2>4. /\ conn # None /\ lifecycle \in {"draft", "published"} /\ lifecycle # None
        /\ {snapshot, binding} \subseteq {None} \cup SUBSET Tables
        /\ {policy, connOwned, sourceOwned, asked} \subseteq BOOLEAN
    BY <2>3, NullAssumption DEF Init
  <2>5. /\ cache = None /\ pools = {} /\ touched = {}
        /\ pc \in [Requests -> Points] /\ job \in [Requests -> Job] /\ seen \in [Requests -> Seen]
    BY <2>2 DEF Init, Points
  <2>6. \A r \in Requests : seen[r].conn \in Connection \cup {None}
    BY <2>5 DEF Seen
  <2> QED BY <2>3, <2>4, <2>5, <2>6 DEF Typed, TypeOK
<1>2. KindsFit /\ ReadsStand /\ RowsAreHeld /\ BuildersFit
  BY DEF Init, KindsFit, KindFits, ReadsStand, Stands, RowsAreHeld, Holding, BuildersFit, Deletions
<1>3. CacheFits /\ ProbesFit
  BY DEF Init, CacheFits, ProbesFit, Misreported, NothingSeen
<1> QED BY <1>1, <1>2, <1>3 DEF IInv

\* Every step keeps IInv.
LEMMA NextIInv == IInv /\ [Next]_vars => IInv'
<1> SUFFICES ASSUME IInv, [Next]_vars PROVE IInv'
  OBVIOUS
<1>1. ASSUME NEW r \in Requests, Arrive(r) \/ Fail(r) PROVE IInv'
  BY <1>1, ArriveKeeps, FailKeeps
<1>2. ASSUME NEW r \in Requests, Author(r) PROVE IInv'
  BY <1>2, AuthorizeKeeps, ChecksKeep, SavesKeep, SetLifecycleKeeps DEF Author
<1>3. ASSUME NEW r \in Requests, Connect(r) PROVE IInv'
  BY <1>3, ReadConnKeeps, UpdateConnKeeps, RereadConnKeeps, EvictKeeps, SetHealthKeeps,
     SaveSnapshotKeeps, DeleteKeeps DEF Connect
<1>4. ASSUME NEW r \in Requests, Ask(r) PROVE IInv'
  BY <1>4, ResolveKeeps, ConnectorReadsKeep, BuildConnectorKeeps, RunKeeps DEF Ask
<1>5. CASE Crash
  BY <1>5, CrashKeeps
<1>6. CASE UNCHANGED vars
  <2>1. UNCHANGED <<conn, lifecycle, snapshot, binding, policy, connOwned, sourceOwned, asked, cache,
                    pools, pc, job, seen, touched>>
    BY <1>6 DEF vars, rows, sourceRows, connRows, connectors
  <2> QED
    BY <2>1 DEF IInv, Typed, TypeOK, KindsFit, ReadsStand, Stands, Captured, Included, Ready,
       RowsAreHeld, CacheFits, BuildersFit, ProbesFit, Misreported, Overlapped, Unsettled, Evicting
<1> QED BY <1>1, <1>2, <1>3, <1>4, <1>5, <1>6 DEF Next

\* So it holds always.
LEMMA Invariance == Spec => []IInv
  BY InitIInv, NextIInv, PTL DEF Spec

\* The rows respect their foreign keys, and the requests their types.
THEOREM RowsAreTyped == Spec => []TypeOK
<1>1. IInv => TypeOK
  BY DEF IInv, Typed
<1> QED BY <1>1, Invariance, PTL

\* The cached connector has the parameters of the row, and the stored health is a
\* result for them, except through the overlaps that ConnectorIsCurrent names.
THEOREM CachesFollowEdits == Spec => []ConnectorIsCurrent
<1>1. IInv => ConnectorIsCurrent
  BY DEF IInv, ConnectorIsCurrent, CacheFits, Unsettled, ProbesFit, Misreported, Overlapped
<1> QED BY <1>1, Invariance, PTL

\* A removal that nothing interferes with is stopped only by a question asked.
THEOREM RemovalsStopForUse == Spec => []BlockedOnlyByUse
<1>1. IInv => BlockedOnlyByUse
  BY DEF IInv, BlockedOnlyByUse, ReadsStand, Stands
<1> QED BY <1>1, Invariance, PTL

\* A step of one request moves no other.
LEMMA OneMoves ==
    ASSUME IInv, NEW x \in Requests, Arrive(x) \/ Author(x) \/ Connect(x) \/ Ask(x) \/ Fail(x)
    PROVE  \A r \in Requests \ {x} : pc'[r] = pc[r]
<1>1. \A p, r : Move(x, p) /\ r \in Requests \ {x} => pc'[r] = pc[r]
  BY DEF Move, IInv, Typed, TypeOK
<1>2. CASE Arrive(x) \/ Fail(x)
  BY <1>1, <1>2 DEF Arrive, Fail
<1>3. CASE Author(x)
  BY <1>1, <1>3
     DEF Author, Authorize, ReadSnapshot, SaveBinding, SavePolicy, Check, SetLifecycle
<1>4. CASE Connect(x)
  BY <1>1, <1>4
     DEF Connect, ReadConn, UpdateConn, RereadConn, Evict, SetHealth, SaveSnapshot, Delete
<1>5. CASE Ask(x)
  BY <1>1, <1>5 DEF Ask, Resolve, LookupConnector, BuildRecord, BuildConnector, Run
<1> QED BY <1>2, <1>3, <1>4, <1>5

\* A save or a publish that no other write came into ends with a source that is
\* ready or unpublished: what it checked still stands when it ends.
LEMMA AuthorsLeaveReady ==
    ASSUME IInv, NEW r \in Requests, Author(r), pc'[r] = "done", r \notin touched
    PROVE  (Published => Ready)'
<1>1. Stands(pc[r], seen[r]) /\ KindFits(job[r].kind, pc[r]) /\ pc \in [Requests -> Points]
  BY PlacesKnown
<1>2. \A p : Move(r, p) => p = "done"
  BY <1>1 DEF Move
<1>3. CASE Authorize(r)
  <2>1. \E p \in {"refused", "readSnapshot", "checkSnapshot", "setDraft"} : Move(r, p)
    BY <1>3 DEF Authorize
  <2> QED BY <1>2, <2>1
<1>4. CASE ReadSnapshot(r)
  <2>1. \E p \in {"saveBinding", "refused"} : Move(r, p)
    BY <1>4 DEF ReadSnapshot
  <2> QED BY <1>2, <2>1
<1>5. CASE SaveBinding(r)
  BY <1>2, <1>5 DEF SaveBinding
<1>6. CASE SavePolicy(r)
  <2>1. lifecycle # "published" /\ UNCHANGED lifecycle
    BY <1>1, <1>2, <1>6 DEF SavePolicy, AfterSave, At, Stands
  <2> QED BY <2>1 DEF Published
<1>7. CASE Check(r)
  <2>1. pc[r] = "checkPolicy" /\ seen[r].ready /\ policy
    BY <1>2, <1>7 DEF Check, At
  <2>2. Ready /\ UNCHANGED rows
    BY <1>1, <1>7, <2>1 DEF Check, Stands, Captured, Included, Ready
  <2> QED BY <2>2 DEF Ready, rows, sourceRows
<1>8. CASE SetLifecycle(r)
  <2>1. CASE pc[r] = "setDraft"
    BY <1>8, <2>1, NullAssumption DEF SetLifecycle, At, Published
  <2>2. CASE pc[r] = "setPublished"
    BY <1>1, <1>8, <2>2 DEF SetLifecycle, Stands, Ready
  <2> QED BY <1>8, <2>1, <2>2 DEF SetLifecycle
<1> QED BY <1>3, <1>4, <1>5, <1>6, <1>7, <1>8 DEF Author

\* Authoring on its own never leaves a source published that is not ready.
THEOREM AuthoringIsChecked == Spec => AuthoringKeepsPublishedReady
<1> DEFINE Kept == \A r \in Requests :
             /\ InFlight(r) /\ pc'[r] = "done"
             /\ job[r].kind \in {"save", "publish"} /\ r \notin touched
             => (Published => Ready)'
<1>1. ASSUME IInv, Next, NEW r \in Requests, InFlight(r), pc'[r] = "done",
             job[r].kind \in {"save", "publish"}, r \notin touched
      PROVE  (Published => Ready)'
  <2>1. KindFits(job[r].kind, pc[r]) /\ pc[r] \notin {"idle", "done"}
    BY <1>1, PlacesKnown DEF InFlight, Ended
  <2>2. ~Crash
    BY <1>1 DEF Crash
  <2>3. PICK x \in Requests : Arrive(x) \/ Author(x) \/ Connect(x) \/ Ask(x) \/ Fail(x)
    BY <1>1, <2>2 DEF Next
  <2>4. x = r
    BY <1>1, <2>1, <2>3, OneMoves
  <2>5. ~Arrive(r) /\ ~Fail(r)
    BY <1>1, <2>1, PlacesKnown DEF Arrive, Fail, At, Move
  <2>6. ~Connect(r)
    BY <1>1, <2>1 DEF Connect, ReadConn, UpdateConn, RereadConn, Evict, SetHealth, SaveSnapshot,
       Delete, At, KindFits
  <2>7. ~Ask(r)
    BY <1>1, <2>1 DEF Ask, Resolve, LookupConnector, BuildRecord, BuildConnector, Run, At, KindFits
  <2> QED BY <1>1, <2>3, <2>4, <2>5, <2>6, <2>7, AuthorsLeaveReady
<1>2. IInv /\ [Next]_vars => [Kept]_vars
  BY <1>1
<1> HIDE DEF Kept
<1>3. Spec => [][Kept]_vars
  BY <1>2, Invariance, PTL DEF Spec
<1> QED BY <1>3 DEF AuthoringKeepsPublishedReady, Kept

=============================================================================
