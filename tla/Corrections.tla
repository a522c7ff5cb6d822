----------------------------- MODULE Corrections -----------------------------
(***************************************************************************)
(* What a Data Source knows and who may say so: its glossary terms and     *)
(* entity mappings, drafted by CalibrationService, verified, edited and    *)
(* discarded by VerificationService, and corrected through the review      *)
(* queue of SuggestionService (apps/web/lib).  Every statement commits on  *)
(* its own; requests interleave between any two.  A text stands for what   *)
(* an item says (a term, or a pair of references); a model's draft may     *)
(* list a text more than once.  The rerun an accepted correction triggers  *)
(* is InvestigationThread's.                                               *)
(***************************************************************************)
EXTENDS Naturals, FiniteSets

CONSTANTS
    Users,
    Requests,
    Raised,     \* suggestions submitted before the model starts
    Terms,      \* texts of glossary terms
    Pairs,      \* texts of entity mappings
    Seed,       \* origin of the items there were at the start
    MaxCopies,  \* bound: how often a draft lists one text
    None

ASSUME CorrectionsAssumption ==
    /\ Raised \cap Requests = {} /\ Terms \cap Pairs = {}
    /\ Seed \notin Requests /\ MaxCopies \in Nat \ {0}
    /\ None \notin Requests \cup Users \cup Raised \cup {"owner", "admin", "querier"}

VARIABLES
    roles,      \* data_source_memberships of the source
    items,      \* business_glossary_terms and entity_mappings
    queue,      \* suggestions of the source
    pc,         \* where each request stands
    job,        \* what it asks for, and for whom
    fresh,      \* how often its draft lists each text, as far as found new
    founding,   \* history: the roles at the start
    promoted,   \* history: which request verified which item
    seen        \* history: the items a calibration read before it wrote

rows == <<roles, items, queue>>
locals == <<job, fresh>>
history == <<founding, promoted, seen>>
vars == <<rows, pc, locals, history>>

Roles == {"owner", "admin", "querier"}
\* canDataSource(role, 'author')
Authors == {"owner", "admin"}

Texts == Terms \cup Pairs
KindOf(text) == IF text \in Terms THEN "glossary" ELSE "mapping"

Copies == 1..MaxCopies

\* A row's id tells who inserted it, what it then said and which of that draft's
\* entries it was; its wording is the request that wrote its definition last.
ItemIds == [origin : {Seed} \cup Requests, text : Texts, copy : Copies]

\* How often a draft lists each text.
Drafts == [Texts -> 0..MaxCopies]
EmptyDraft == [t \in Texts |-> 0]

Item == [text : Texts, wording : {Seed} \cup Requests,
         status : {"suggested", "verified"}, drafted : BOOLEAN]
Live == {i \in ItemIds : items[i] # None}

Suggestions == Raised \cup Requests
Suggestion == [status : {"open", "accepted", "rejected"}, by : Requests \cup {None},
               kind : {"glossary", "mapping", None}, item : ItemIds \cup {None}]
NewSuggestion == [status |-> "open", by |-> None, kind |-> None, item |-> None]

Reviews == {"accept", "reject"}
Edits == {"add", "promote", "discard", "edit"}
Kinds == {"submit", "calibrate"} \cup Reviews \cup Edits
Job == [op : Kinds, user : Users, sug : Suggestions \cup {None}, item : ItemIds \cup {None},
        kind : {"glossary", "mapping", None}, text : Texts \cup {None}, worded : BOOLEAN]
NewJob(op, u) == [op |-> op, user |-> u, sug |-> None, item |-> None,
                  kind |-> None, text |-> None, worded |-> FALSE]

Ended == {"done", "denied", "conflict", "failed"}
Points == {"idle", "checkQuery", "insertSuggestion", "authorize", "readSuggestion", "claim",
           "authorizeEdit", "updateDefinition", "authorizePromote", "setStatus",
           "insertItem", "deleteItem", "updateItem",
           "readSnapshot", "draft", "readTerms", "addTerms", "readMaps", "addMaps"} \cup Ended

TypeOK ==
    /\ roles \in [Users -> Roles \cup {None}]
    /\ \A i \in ItemIds : items[i] = None \/ items[i] \in Item
    /\ \A i \in ItemIds : items[i] # None => KindOf(items[i].text) = KindOf(i.text)
    /\ \A s \in Suggestions : queue[s] = None \/ queue[s] \in Suggestion
    /\ \A s \in Suggestions :
         queue[s] # None => (queue[s].status = "open") = (queue[s].by = None)
    /\ pc \in [Requests -> Points]
    /\ \A r \in Requests : pc[r] # "idle" => job[r] \in Job
    /\ fresh \in [Requests -> Drafts]
    /\ promoted \subseteq ItemIds \X Requests
    /\ seen \in [Requests -> SUBSET ItemIds]

\* A calibrated source with an open queue and an owner, who may lose his role.
Init ==
    /\ roles \in [Users -> Roles \cup {None}]
    /\ \E u \in Users : roles[u] = "owner"
    /\ \E drafts \in SUBSET Texts :
         items = [i \in ItemIds |->
                    IF i.origin = Seed /\ i.text \in drafts /\ i.copy = 1
                    THEN [text |-> i.text, wording |-> Seed, status |-> "suggested",
                          drafted |-> TRUE]
                    ELSE None]
    /\ queue = [s \in Suggestions |-> IF s \in Raised THEN NewSuggestion ELSE None]
    /\ pc = [r \in Requests |-> "idle"]
    /\ job = [r \in Requests |-> None]
    /\ fresh = [r \in Requests |-> EmptyDraft]
    /\ founding = roles
    /\ promoted = {}
    /\ seen = [r \in Requests |-> {}]

At(r, point) == pc[r] = point
Move(r, point) == pc' = [pc EXCEPT ![r] = point]

-----------------------------------------------------------------------------
(* A request arrives.                                                      *)

\* POST .../suggestions, from the Unblock Path of a blocked answer.
AskSubmit(r, u) == job' = [job EXCEPT ![r] = NewJob("submit", u)] /\ Move(r, "checkQuery")

\* POST .../suggestions/[sid]: the item is one the reviewer was shown.
AskReview(r, u) == \E s \in Suggestions :
    /\ queue[s] # None /\ Move(r, "authorize")
    /\ \/ job' = [job EXCEPT ![r] = [NewJob("reject", u) EXCEPT !.sug = s]]
       \/ \E i \in Live, k \in {"glossary", "mapping"}, worded \in BOOLEAN :
            /\ k = "mapping" => ~worded
            /\ job' = [job EXCEPT ![r] = [NewJob("accept", u) EXCEPT
                         !.sug = s, !.item = i, !.kind = k, !.worded = worded]]

\* POST .../context-items
AskEdit(r, u) ==
    /\ Move(r, "authorize")
    /\ \/ \E t \in Texts : job' = [job EXCEPT ![r] = [NewJob("add", u) EXCEPT !.text = t]]
       \/ \E op \in {"promote", "discard"}, i \in Live :
            job' = [job EXCEPT ![r] =
                      [NewJob(op, u) EXCEPT !.item = i, !.kind = KindOf(i.text)]]
       \/ \E i \in Live, t \in Texts :
            /\ KindOf(t) = KindOf(i.text)
            /\ job' = [job EXCEPT ![r] = [NewJob("edit", u) EXCEPT
                         !.item = i, !.kind = KindOf(i.text), !.text = t]]

\* POST .../calibrate
AskCalibrate(r, u) == job' = [job EXCEPT ![r] = NewJob("calibrate", u)] /\ Move(r, "authorize")

Arrive(r) == \E u \in Users :
    /\ At(r, "idle")
    /\ \/ AskSubmit(r, u) \/ AskReview(r, u) \/ AskEdit(r, u) \/ AskCalibrate(r, u)
    /\ UNCHANGED <<rows, fresh, history>>

-----------------------------------------------------------------------------
(* Capabilities.                                                           *)

\* submit reads the Investigation and the role of the caller.
CheckQuery(r) ==
    /\ At(r, "checkQuery")
    /\ IF roles[job[r].user] \in Roles THEN Move(r, "insertSuggestion") ELSE Move(r, "denied")
    /\ UNCHANGED <<rows, locals, history>>

InsertSuggestion(r) ==
    /\ At(r, "insertSuggestion")
    /\ queue' = [queue EXCEPT ![r] = NewSuggestion]
    /\ Move(r, "done")
    /\ UNCHANGED <<roles, items, locals, history>>

\* Mutation: any member may author.
MayAuthorAny(r) == roles[job[r].user] \in Roles

\* canDataSource over the role the caller has now.
MayAuthor(r) == roles[job[r].user] \in Authors

AfterAuthorize(r) ==
    CASE At(r, "authorizeEdit") -> "updateDefinition"
      [] At(r, "authorizePromote") \/ job[r].op = "promote" -> "setStatus"
      [] At(r, "authorize") /\ job[r].op \in Reviews -> "readSuggestion"
      [] At(r, "authorize") /\ job[r].op = "add" -> "insertItem"
      [] At(r, "authorize") /\ job[r].op = "discard" -> "deleteItem"
      [] At(r, "authorize") /\ job[r].op = "edit" -> "updateItem"
      [] OTHER -> "readSnapshot"

\* requireDataSourceCapability(..., 'author'); accept asks again before each write.
Authorize(r) ==
    /\ pc[r] \in {"authorize", "authorizeEdit", "authorizePromote"}
    /\ IF MayAuthor(r) THEN Move(r, AfterAuthorize(r)) ELSE Move(r, "denied")
    /\ UNCHANGED <<rows, locals, history>>

-----------------------------------------------------------------------------
(* The review of a suggestion.                                             *)

IsOpen(s) == queue[s] # None /\ queue[s].status = "open"

ReadSuggestion(r) ==
    /\ At(r, "readSuggestion")
    /\ IF IsOpen(job[r].sug) THEN Move(r, "claim") ELSE Move(r, "conflict")
    /\ UNCHANGED <<rows, locals, history>>

Verdict(r) == IF job[r].op = "accept" THEN "accepted" ELSE "rejected"

\* Mutation: an accept verifies only what it reworded.
AfterClaimWorded(r) ==
    IF job[r].op = "accept" /\ job[r].kind = "glossary" /\ job[r].worded
    THEN "authorizeEdit" ELSE "done"

\* What is left to write; an edited term is reworded before it is promoted.
AfterClaim(r) ==
    IF job[r].op = "reject" THEN "done"
    ELSE IF job[r].kind = "glossary" /\ job[r].worded THEN "authorizeEdit"
    ELSE "authorizePromote"

\* Mutation: the conditional update without its condition.
ClaimableAny(s) == queue[s] # None

\* setSuggestionReviewed updates the row only while it is open.
Claimable(s) == IsOpen(s)

\* An UPDATE or DELETE by id finds a row of that table, or none.
Hits(r) == job[r].item \in Live /\ KindOf(job[r].item.text) = job[r].kind

\* Mutation: the verdict recorded without its reviewer.
ClaimAnonymous(r) ==
    /\ At(r, "claim")
    /\ IF Claimable(job[r].sug)
       THEN /\ queue' = [queue EXCEPT ![job[r].sug].status = Verdict(r)]
            /\ Move(r, AfterClaim(r))
       ELSE Move(r, "conflict") /\ UNCHANGED queue
    /\ UNCHANGED <<roles, items, locals, history>>

\* The status, the reviewer and what it promotes, in one UPDATE ... RETURNING.
Claim(r) ==
    /\ At(r, "claim")
    /\ IF Claimable(job[r].sug)
       THEN /\ queue' = [queue EXCEPT ![job[r].sug] =
                           [status |-> Verdict(r), by |-> r,
                            kind |-> job[r].kind, item |-> job[r].item]]
            /\ Move(r, AfterClaim(r))
       ELSE Move(r, "conflict") /\ UNCHANGED queue
    /\ UNCHANGED <<roles, items, locals, history>>

-----------------------------------------------------------------------------
(* The rows the review and the verification write.                         *)

UpdateDefinition(r) ==
    /\ At(r, "updateDefinition")
    /\ items' = IF Hits(r) THEN [items EXCEPT ![job[r].item].wording = r] ELSE items
    /\ Move(r, "authorizePromote")
    /\ UNCHANGED <<roles, queue, locals, history>>

SetStatus(r) ==
    /\ At(r, "setStatus")
    /\ IF Hits(r) THEN /\ items' = [items EXCEPT ![job[r].item].status = "verified"]
                       /\ promoted' = promoted \cup {<<job[r].item, r>>}
                  ELSE UNCHANGED <<items, promoted>>
    /\ Move(r, "done")
    /\ UNCHANGED <<roles, queue, locals, founding, seen>>

InsertItem(r) ==
    /\ At(r, "insertItem")
    /\ items' = [items EXCEPT ![[origin |-> r, text |-> job[r].text, copy |-> 1]] =
                   [text |-> job[r].text, wording |-> r, status |-> "verified",
                    drafted |-> FALSE]]
    /\ Move(r, "done")
    /\ UNCHANGED <<roles, queue, locals, history>>

DeleteItem(r) ==
    /\ At(r, "deleteItem")
    /\ items' = IF Hits(r) THEN [items EXCEPT ![job[r].item] = None] ELSE items
    /\ Move(r, "done")
    /\ UNCHANGED <<roles, queue, locals, history>>

UpdateItem(r) ==
    /\ At(r, "updateItem")
    /\ items' = IF Hits(r)
                THEN [items EXCEPT ![job[r].item].text = job[r].text, ![job[r].item].wording = r]
                ELSE items
    /\ Move(r, "done")
    /\ UNCHANGED <<roles, queue, locals, history>>

-----------------------------------------------------------------------------
(* Calibration: a draft asked of the model, filtered against what there    *)
(* is, and inserted as Suggested; terms first, mappings after.             *)

ReadSnapshot(r) ==
    /\ At(r, "readSnapshot")
    /\ Move(r, "draft") \/ Move(r, "conflict")   \* a schema was captured, or none
    /\ UNCHANGED <<rows, locals, history>>

\* submit_calibration of the model, whatever it lists and however often, or what
\* the foreign keys of the schema say.
Draft(r) ==
    /\ At(r, "draft")
    /\ \E drafted \in Drafts : fresh' = [fresh EXCEPT ![r] = drafted]
    /\ Move(r, "readTerms")
    /\ UNCHANGED <<rows, job, history>>

OfKind(kind) == {i \in Live : KindOf(i.text) = kind}

\* Mutation: drafts compared with the verified items only.
KnownVerified(kind) == {items[i].text : i \in {j \in OfKind(kind) : items[j].status = "verified"}}

\* What items of any status already say.
Known(kind) == {items[i].text : i \in OfKind(kind)}

ReadKnown(r, point, kind, next) ==
    /\ At(r, point)
    /\ fresh' = [fresh EXCEPT ![r] = [t \in Texts |-> IF t \in Known(kind) THEN 0 ELSE @[t]]]
    /\ seen' = [seen EXCEPT ![r] = @ \cup OfKind(kind)]
    /\ Move(r, next)
    /\ UNCHANGED <<rows, job, founding, promoted>>

AddDrafts(r, point, texts, next) ==
    /\ At(r, point)
    /\ items' = [i \in ItemIds |->
                   IF i.origin = r /\ i.text \in texts /\ i.copy <= fresh[r][i.text]
                   THEN [text |-> i.text, wording |-> r, status |-> "suggested",
                         drafted |-> TRUE]
                   ELSE items[i]]
    /\ Move(r, next)
    /\ UNCHANGED <<roles, queue, locals, history>>

-----------------------------------------------------------------------------
(* Meanwhile a member is removed, a statement fails or the process dies.   *)

LoseRole(u) ==
    /\ roles[u] # None
    /\ roles' = [roles EXCEPT ![u] = None]
    /\ UNCHANGED <<items, queue, pc, locals, history>>

Fail(r) ==
    /\ pc[r] \notin Ended \cup {"idle"}
    /\ fresh' = [fresh EXCEPT ![r] = EmptyDraft]
    /\ Move(r, "failed")
    /\ UNCHANGED <<rows, job, history>>

Review(r) ==
    \/ CheckQuery(r) \/ InsertSuggestion(r)
    \/ Authorize(r) \/ ReadSuggestion(r) \/ Claim(r) \/ UpdateDefinition(r) \/ SetStatus(r)

Verification(r) == InsertItem(r) \/ DeleteItem(r) \/ UpdateItem(r)

Calibration(r) ==
    \/ ReadSnapshot(r) \/ Draft(r)
    \/ ReadKnown(r, "readTerms", "glossary", "addTerms")
    \/ AddDrafts(r, "addTerms", Terms, "readMaps")
    \/ ReadKnown(r, "readMaps", "mapping", "addMaps")
    \/ AddDrafts(r, "addMaps", Pairs, "done")

Next ==
    \/ \E r \in Requests : Arrive(r) \/ Review(r) \/ Verification(r) \/ Calibration(r) \/ Fail(r)
    \/ \E u \in Users : LoseRole(u)

Spec == Init /\ [][Next]_vars

-----------------------------------------------------------------------------
(* Properties.                                                             *)

Returned(r, ops) == pc[r] = "done" /\ job[r].op \in ops

\* However reviewers race, at most one is told that it decided a suggestion, and
\* what the row then says is that reviewer's verdict (setSuggestionReviewed).  One
\* who was turned away has changed no item: accept claims before it edits.
OneVerdict ==
    \A r \in Requests :
        /\ Returned(r, Reviews) =>
             /\ queue[job[r].sug].by = r
             /\ queue[job[r].sug].status = Verdict(r)
        /\ pc[r] = "conflict" =>
             \A i \in Live : items[i].wording # r /\ <<i, r>> \notin promoted

\* The writes of an accept commit one by one after its claim, and none is taken
\* back.  An accepted suggestion whose item is still unverified has its
\* accept under way, or one that died or lost its role half way, or named an
\* item of another table.
AcceptedIsApplied ==
    \A s \in Suggestions : queue[s] # None /\ queue[s].status = "accepted" =>
        LET r == queue[s].by
            i == queue[s].item IN
        \/ i \notin Live \/ KindOf(i.text) # queue[s].kind
        \/ items[i].status = "verified"
        \/ pc[r] \notin {"done", "conflict"}

\* "A querier never mutates Verified context": what the model is given was
\* verified by a request of somebody who could author, and nobody else has
\* decided a suggestion, reworded an item or drafted one.
OnlyAuthorsDecide ==
    LET Author(r) == founding[job[r].user] \in Authors IN
    /\ \A i \in Live :
         /\ items[i].wording # Seed => Author(items[i].wording)
         /\ items[i].status = "verified" =>
              \E r \in Requests :
                /\ Author(r)
                /\ <<i, r>> \in promoted \/ (items[i].drafted = FALSE /\ i.origin = r)
    /\ \A s \in Suggestions : queue[s] # None /\ queue[s].by # None => Author(queue[s].by)

FirstDraft(i) == items[i].drafted /\ items[i].wording = i.origin

\* calibrate compares its draft with what it reads after the model call, and no
\* index stops the insert.  So the drafts of two calibrations say the same only if
\* neither saw the other's, because they overlapped.  (Within one calibration a text
\* is written as often as the model lists it.)
DuplicatesNeedAnOverlap ==
    \A i, j \in Live :
        i.origin # j.origin /\ i.text = j.text /\ FirstDraft(i) /\ FirstDraft(j) =>
            /\ j.origin \in Requests => i \notin seen[j.origin]
            /\ i.origin \in Requests => j \notin seen[i.origin]

=============================================================================
