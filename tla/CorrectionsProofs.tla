--------------------------- MODULE CorrectionsProofs ---------------------------
(***************************************************************************)
(* That a review decides a suggestion once, that an accepted one is        *)
(* applied or died, that only authors decide and that duplicate drafts     *)
(* need an overlap: for every set of users, requests and texts.  The       *)
(* argument follows a request along its own statements: what its place     *)
(* says about its job, that the place is past the capability check, that   *)
(* it has written nothing before its claim, and that an item somebody      *)
(* names was inserted before, so that nothing brings it back.              *)
(***************************************************************************)
EXTENDS Corrections, TLAPS

\* The rows are rows of their tables.
Typed ==
    /\ TypeOK
    /\ items \in [ItemIds -> Item \cup {None}]
    /\ queue \in [Suggestions -> Suggestion \cup {None}]
    /\ job \in [Requests -> Job \cup {None}]

Naming == {"accept", "promote", "discard", "edit"}

\* What a request asks for names what its statements need.
JobsAreComplete == \A r \in Requests : pc[r] # "idle" =>
    /\ job[r].op \in Reviews => job[r].sug \in Suggestions
    /\ job[r].op \in Naming =>
         job[r].item \in ItemIds /\ job[r].item.origin # r
         /\ job[r].kind \in {"glossary", "mapping"}
    /\ job[r].op \in {"add", "edit"} => job[r].text \in Texts
    /\ job[r].op = "edit" => KindOf(job[r].text) = KindOf(job[r].item.text)

Calibrating == {"readSnapshot", "draft", "readTerms", "addTerms", "readMaps", "addMaps"}

\* The place of a request fits what it asks for.
PlacesFit == \A r \in Requests :
    /\ pc[r] \in {"checkQuery", "insertSuggestion"} => job[r].op = "submit"
    /\ pc[r] = "authorize" => job[r].op # "submit"
    /\ pc[r] \in {"readSuggestion", "claim"} => job[r].op \in Reviews
    /\ pc[r] \in {"authorizeEdit", "updateDefinition", "authorizePromote"} => job[r].op = "accept"
    /\ pc[r] = "setStatus" => job[r].op \in {"accept", "promote"}
    /\ pc[r] = "insertItem" => job[r].op = "add"
    /\ pc[r] = "deleteItem" => job[r].op = "discard"
    /\ pc[r] = "updateItem" => job[r].op = "edit"
    /\ pc[r] \in Calibrating => job[r].op = "calibrate"

Author(r) == founding[job[r].user] \in Authors
Unvetted == {"idle", "checkQuery", "insertSuggestion", "authorize"} \cup Ended

\* Nobody gains a role, and a request past its check was an author's.
VettedByRole ==
    /\ founding \in [Users -> Roles \cup {None}]
    /\ \A u \in Users : roles[u] \in {None, founding[u]}
    /\ \A r \in Requests : pc[r] \notin Unvetted => Author(r)

\* Where a request may still insert a text.
Inserting(text) ==
    {"idle", "authorize", "insertItem", "readSnapshot", "draft", "readTerms", "addTerms"}
    \cup IF text \in Terms THEN {} ELSE {"readMaps", "addMaps"}
Past(i) == i.origin \in Requests => pc[i.origin] \notin Inserting(i.text)

\* An item that is there, or that is named, was inserted before.
LiveArePast == \A i \in Live : Past(i)
SeenArePast == \A r \in Requests : \A i \in seen[r] : Past(i)
NamedArePast ==
    /\ \A r \in Requests : pc[r] # "idle" /\ job[r].op \in Naming => Past(job[r].item)
    /\ \A s \in Suggestions : queue[s] # None /\ queue[s].status = "accepted" =>
         queue[s].item \in ItemIds /\ Past(queue[s].item)

Unsent == {"idle", "checkQuery", "insertSuggestion"}

\* So was a suggestion that is there, or is reviewed.
SuggestionsAreSent ==
    /\ \A s \in Requests : queue[s] # None => pc[s] \notin Unsent
    /\ \A r \in Requests : pc[r] # "idle" /\ job[r].op \in Reviews /\ job[r].sug \in Requests =>
         pc[job[r].sug] \notin Unsent

Writing == {"authorizeEdit", "updateDefinition", "authorizePromote", "setStatus"}

\* A request between its claim and its end owns the verdict, and only such a
\* request or one that has ended does.
ClaimsAreHeld ==
    /\ \A r \in Requests :
         (pc[r] \in Writing /\ job[r].op = "accept") \/ Returned(r, Reviews) =>
             /\ queue[job[r].sug].by = r
             /\ queue[job[r].sug].status = Verdict(r)
    /\ \A s \in Suggestions : queue[s] # None /\ queue[s].status # "open" =>
         LET r == queue[s].by IN
         /\ r \in Requests /\ pc[r] \in Writing \cup {"done", "denied", "failed"}
         /\ job[r].op \in Reviews /\ job[r].sug = s
         /\ queue[s].status = Verdict(r)
         /\ queue[s].kind = job[r].kind /\ queue[s].item = job[r].item
         /\ Author(r)

Unwritten == {"idle", "authorize", "readSuggestion", "claim", "readSnapshot", "conflict"}

\* A request writes no item before its claim.
HandsOff == \A r \in Requests : pc[r] \in Unwritten =>
    \A i \in ItemIds : <<i, r>> \notin promoted /\ (i \in Live => items[i].wording # r)

\* What is there was worded and verified by authors.
WordsAreAuthors ==
    /\ \A i \in Live : items[i].wording # Seed => Author(items[i].wording)
    /\ \A i \in Live : items[i].status = "verified" /\ items[i].drafted =>
         \E r \in Requests : <<i, r>> \in promoted
    /\ \A i \in Live : items[i].drafted = FALSE => i.origin \in Requests /\ Author(i.origin)
    /\ \A i \in ItemIds, r \in Requests : <<i, r>> \in promoted => Author(r)

\* An item in its first wording says what its id says; a calibration that saw it
\* will not insert that text, and has not.
SeenAreSkipped ==
    /\ \A i \in Live : items[i].wording = i.origin => items[i].text = i.text
    /\ \A r \in Requests : \A i \in seen[r] :
         /\ i.origin # r /\ pc[r] \notin {"idle", "authorize", "readSnapshot", "draft"}
         /\ i \in Live /\ items[i].wording = i.origin =>
              /\ pc[r] \in Calibrating => fresh[r][i.text] = 0
              /\ \A j \in Live : j.origin = r /\ j.text = i.text => ~items[j].drafted

IInv ==
    /\ Typed /\ JobsAreComplete /\ PlacesFit /\ VettedByRole
    /\ LiveArePast /\ SeenArePast /\ NamedArePast /\ SuggestionsAreSent
    /\ ClaimsAreHeld /\ HandsOff /\ WordsAreAuthors /\ SeenAreSkipped /\ AcceptedIsApplied

-----------------------------------------------------------------------------
(* Steps that only move a request.                                         *)

\* What a request must bring to stand at p.
Fits(r, p) ==
    /\ pc[r] \notin Ended \cup {"idle"} /\ p \in Points \ {"idle", "checkQuery", "authorize"}
    /\ p = "insertSuggestion" => job[r].op = "submit" /\ pc[r] = "checkQuery"
    /\ p \in {"readSuggestion", "claim"} => job[r].op \in Reviews
    /\ p \in {"authorizeEdit", "updateDefinition", "authorizePromote"} => job[r].op = "accept"
    /\ p = "setStatus" => job[r].op \in {"accept", "promote"}
    /\ p = "insertItem" => job[r].op = "add"
    /\ p = "deleteItem" => job[r].op = "discard"
    /\ p = "updateItem" => job[r].op = "edit"
    /\ p \in Calibrating => job[r].op = "calibrate"
    /\ p \notin Unvetted => Author(r)
    /\ \A t \in Texts : p \in Inserting(t) => pc[r] \in Inserting(t)
    /\ p \in Unwritten => pc[r] \in Unwritten
    /\ pc[r] \in Writing => p \in Writing \cup {"done", "denied", "failed"}
    /\ p \in {"readSnapshot", "draft"} => pc[r] \in {"authorize", "readSnapshot"}
    /\ p \in Calibrating => pc[r] \in Calibrating \cup {"authorize"}

\* A verdict a request owns when it ends is carried out.
Applied(r) == \A s \in Suggestions :
    queue[s] # None /\ queue[s].status = "accepted" /\ queue[s].by = r =>
        \/ queue[s].item \notin Live \/ KindOf(queue[s].item.text) # queue[s].kind
        \/ items[queue[s].item].status = "verified"

\* A request that has claimed a suggestion owns its verdict.
Owns(r, p) ==
    (p \in Writing /\ job[r].op = "accept") \/ (p = "done" /\ job[r].op \in Reviews) =>
        queue[job[r].sug].by = r /\ queue[job[r].sug].status = Verdict(r)

\* What a step that decides nothing keeps, whatever it does to the items.
LEMMA RequestKeeps ==
    ASSUME IInv, NEW r \in Requests, NEW p, Fits(r, p), Owns(r, p), Move(r, p),
           UNCHANGED <<roles, queue, job, founding>>
    PROVE  /\ JobsAreComplete' /\ PlacesFit' /\ VettedByRole' /\ NamedArePast' /\ ClaimsAreHeld'
           /\ SuggestionsAreSent'
           /\ \A i \in ItemIds : Past(i) => Past(i)'
           /\ pc' = [pc EXCEPT ![r] = p] /\ pc' \in [Requests -> Points]
<1>a. /\ pc' = [pc EXCEPT ![r] = p] /\ pc \in [Requests -> Points] /\ p \in Points
      /\ UNCHANGED <<roles, queue, job, founding>>
  BY DEF IInv, Typed, TypeOK, Fits, Move
<1>1. JobsAreComplete' /\ PlacesFit'
  BY <1>a DEF IInv, JobsAreComplete, PlacesFit, Fits
<1>2. VettedByRole'
  BY <1>a DEF IInv, VettedByRole, Fits, Author
<1>3. ASSUME NEW i \in ItemIds, Past(i) PROVE Past(i)'
  BY <1>a, <1>3 DEF Past, Fits, ItemIds, Inserting
<1>4. NamedArePast'
  BY <1>a, <1>3 DEF IInv, NamedArePast, JobsAreComplete, Fits
<1>5. ClaimsAreHeld'
  BY <1>a DEF IInv, ClaimsAreHeld, Fits, Owns, Verdict, Author, Returned, Writing, Ended
<1>6. SuggestionsAreSent'
  BY <1>a DEF IInv, SuggestionsAreSent, Fits, Unsent
<1> QED BY <1>a, <1>1, <1>2, <1>3, <1>4, <1>5, <1>6

\* A step that changes no row keeps IInv.
LEMMA QuietKeeps ==
    ASSUME IInv, NEW r \in Requests, NEW p, Fits(r, p), Owns(r, p), Move(r, p),
           UNCHANGED <<rows, locals, history>>,
           p = "done" => Applied(r)
    PROVE  IInv'
<1>a. /\ pc' = [pc EXCEPT ![r] = p] /\ pc \in [Requests -> Points] /\ p \in Points
      /\ UNCHANGED <<roles, items, queue, job, fresh, founding, promoted, seen>>
  BY DEF IInv, Typed, TypeOK, Fits, Move, rows, locals, history
<1>b. /\ JobsAreComplete' /\ PlacesFit' /\ VettedByRole' /\ NamedArePast' /\ ClaimsAreHeld'
      /\ SuggestionsAreSent'
      /\ \A i \in ItemIds : Past(i) => Past(i)'
  BY <1>a, RequestKeeps
<1>1. Typed'
  BY <1>a DEF IInv, Typed, TypeOK, Fits
<1>2. LiveArePast' /\ SeenArePast'
  BY <1>a, <1>b DEF IInv, Typed, TypeOK, LiveArePast, SeenArePast, Live
<1>3. HandsOff' /\ WordsAreAuthors'
  BY <1>a DEF IInv, HandsOff, WordsAreAuthors, Fits, Author, Live
<1>4. SeenAreSkipped'
  BY <1>a DEF IInv, SeenAreSkipped, Fits, Live
<1>5. AcceptedIsApplied'
  BY <1>a DEF IInv, AcceptedIsApplied, Fits, Applied, Live, ClaimsAreHeld,
     Writing, Ended
<1> QED BY <1>b, <1>1, <1>2, <1>3, <1>4, <1>5 DEF IInv

\* A statement fails, or the process dies: the draft is gone, the rows stay.
LEMMA FailKeeps ==
    ASSUME IInv, NEW r \in Requests, Fail(r)
    PROVE  IInv'
<1>1. /\ Move(r, "failed") /\ pc[r] \notin Ended \cup {"idle"}
      /\ UNCHANGED <<roles, items, queue, job, founding, promoted, seen>>
      /\ fresh' \in [Requests -> Drafts]
      /\ \A q \in Requests \ {r} : fresh'[q] = fresh[q]
  BY CorrectionsAssumption DEF Fail, rows, history, EmptyDraft, Drafts, IInv, Typed, TypeOK
<1>2. Fits(r, "failed") /\ Owns(r, "failed")
  BY DEF Fits, Owns, Fail, Points, Ended, Unvetted, Writing, Inserting, Unwritten, Calibrating
<1>3. /\ JobsAreComplete' /\ PlacesFit' /\ VettedByRole' /\ NamedArePast' /\ ClaimsAreHeld'
      /\ SuggestionsAreSent'
      /\ \A i \in ItemIds : Past(i) => Past(i)'
      /\ pc' = [pc EXCEPT ![r] = "failed"] /\ pc' \in [Requests -> Points]
  BY <1>1, <1>2, RequestKeeps
<1>4. Typed'
  BY <1>1, <1>3 DEF IInv, Typed, TypeOK
<1>5. LiveArePast' /\ SeenArePast'
  BY <1>1, <1>3 DEF IInv, Typed, TypeOK, LiveArePast, SeenArePast, Live
<1>6. HandsOff' /\ WordsAreAuthors'
  BY <1>1, <1>3 DEF IInv, Typed, TypeOK, HandsOff, WordsAreAuthors, Unwritten, Author, Live
<1>7. SeenAreSkipped'
  BY <1>1, <1>3 DEF IInv, Typed, TypeOK, SeenAreSkipped, Live, Calibrating
<1>8. AcceptedIsApplied'
  BY <1>1, <1>3 DEF IInv, Typed, TypeOK, AcceptedIsApplied, Live
<1> QED BY <1>3, <1>4, <1>5, <1>6, <1>7, <1>8 DEF IInv

\* submit needs a role, any role.
LEMMA CheckQueryKeeps ==
    ASSUME IInv, NEW r \in Requests, CheckQuery(r)
    PROVE  IInv'
<1>1. \/ Move(r, "insertSuggestion") \/ Move(r, "denied")
  BY DEF CheckQuery
<1>2. \A p \in {"insertSuggestion", "denied"} : Fits(r, p) /\ Owns(r, p)
  BY DEF IInv, PlacesFit, CheckQuery, At, Fits, Owns, Points, Ended, Unvetted, Writing,
     Inserting, Unwritten, Calibrating
<1> QED BY <1>1, <1>2, QuietKeeps DEF CheckQuery

\* The capability check: what is past it is an author's.
LEMMA AuthorizeKeeps ==
    ASSUME IInv, NEW r \in Requests, Authorize(r)
    PROVE  IInv'
<1> DEFINE p == IF MayAuthor(r) THEN AfterAuthorize(r) ELSE "denied"
<1>1. Move(r, p) /\ UNCHANGED <<rows, locals, history>>
  BY DEF Authorize
<1>2. MayAuthor(r) => Author(r)
  BY CorrectionsAssumption
     DEF IInv, Typed, TypeOK, VettedByRole, Authorize, MayAuthor, Author, Authors, Job
<1>3. job[r].op \in Kinds /\ pc[r] \in {"authorize", "authorizeEdit", "authorizePromote"}
  BY DEF IInv, Typed, TypeOK, Authorize, Job
<1>4. Fits(r, p) /\ Owns(r, p) /\ p # "done"
  BY <1>2, <1>3 DEF IInv, PlacesFit, AfterAuthorize, At, Fits, Owns, Points, Ended, Unvetted,
     Writing, Inserting, Unwritten, Calibrating, Kinds, Edits, Reviews, ClaimsAreHeld
<1> QED BY <1>1, <1>4, QuietKeeps

\* The review reads the suggestion, the calibration the schema.
LEMMA ReadsKeep ==
    ASSUME IInv, NEW r \in Requests, ReadSuggestion(r) \/ ReadSnapshot(r)
    PROVE  IInv'
<1>1. CASE ReadSuggestion(r)
  <2>1. \A p \in {"claim", "conflict"} : Fits(r, p) /\ Owns(r, p)
    BY <1>1 DEF IInv, PlacesFit, VettedByRole, ReadSuggestion, At, Fits, Owns, Points, Ended,
       Unvetted, Writing, Inserting, Unwritten, Calibrating
  <2> QED BY <1>1, <2>1, QuietKeeps DEF ReadSuggestion
<1>2. CASE ReadSnapshot(r)
  <2>1. \A p \in {"draft", "conflict"} : Fits(r, p) /\ Owns(r, p)
    BY <1>2 DEF IInv, PlacesFit, VettedByRole, ReadSnapshot, At, Fits, Owns, Points, Ended,
       Unvetted, Writing, Inserting, Unwritten, Calibrating
  <2> QED BY <1>2, <2>1, QuietKeeps DEF ReadSnapshot
<1> QED BY <1>1, <1>2

-----------------------------------------------------------------------------
(* A request arrives.                                                      *)

\* The job k of a request that arrives at p is complete.
Brings(r, p, k) ==
    /\ pc' = [pc EXCEPT ![r] = p] /\ job' = [job EXCEPT ![r] = k]
    /\ p = "checkQuery" <=> k.op = "submit"
    /\ k.op \in Reviews => k.sug \in Suggestions /\ queue[k.sug] # None
    /\ k.op \in Naming => k.item \in Live /\ k.kind \in {"glossary", "mapping"}
    /\ k.op \in {"add", "edit"} => k.text \in Texts
    /\ k.op = "edit" => KindOf(k.text) = KindOf(k.item.text)

\* What it brings is complete, and it has done nothing yet.
LEMMA ArriveKeeps ==
    ASSUME IInv, NEW r \in Requests, Arrive(r)
    PROVE  IInv'
<1>1. PICK u \in Users : AskSubmit(r, u) \/ AskReview(r, u) \/ AskEdit(r, u) \/ AskCalibrate(r, u)
  BY DEF Arrive
<1>2. /\ pc[r] = "idle" /\ pc \in [Requests -> Points] /\ job \in [Requests -> Job \cup {None}]
      /\ UNCHANGED <<roles, items, queue, fresh, founding, promoted, seen>>
  BY DEF Arrive, At, rows, history, IInv, Typed, TypeOK
<1>3. \E p \in {"checkQuery", "authorize"} : \E k \in Job : Brings(r, p, k)
  <2>1. \A i \in Live : i \in ItemIds /\ KindOf(i.text) \in {"glossary", "mapping"}
    BY DEF Live, KindOf
  <2>2. ASSUME NEW k \in Job, Brings(r, "authorize", k)
        PROVE  \E p \in {"checkQuery", "authorize"} : \E l \in Job : Brings(r, p, l)
    BY <2>2
  <2>3. CASE AskSubmit(r, u)
    <3> DEFINE k == NewJob("submit", u)
    <3>1. k \in Job /\ Brings(r, "checkQuery", k)
      BY <2>3 DEF AskSubmit, Brings, NewJob, Job, Move, Kinds, Reviews, Naming, Edits
    <3> QED BY <3>1
  <2>4. CASE AskCalibrate(r, u)
    <3> DEFINE k == NewJob("calibrate", u)
    <3>1. k \in Job /\ Brings(r, "authorize", k)
      BY <2>4 DEF AskCalibrate, Brings, NewJob, Job, Move, Kinds, Reviews, Naming, Edits
    <3> QED BY <3>1, <2>2
  <2>5. ASSUME NEW s \in Suggestions, queue[s] # None, Move(r, "authorize"),
               job' = [job EXCEPT ![r] = [NewJob("reject", u) EXCEPT !.sug = s]]
        PROVE  \E p \in {"checkQuery", "authorize"} : \E l \in Job : Brings(r, p, l)
    <3> DEFINE k == [NewJob("reject", u) EXCEPT !.sug = s]
    <3>1. k \in Job /\ k.op = "reject" /\ k.sug = s
      BY DEF NewJob, Job, Kinds, Reviews
    <3>2. Brings(r, "authorize", k)
      BY <2>5, <3>1 DEF Brings, Move, Reviews, Naming
    <3> QED BY <3>1, <3>2, <2>2
  <2>6. ASSUME NEW s \in Suggestions, queue[s] # None, Move(r, "authorize"),
               NEW i \in Live, NEW l \in {"glossary", "mapping"}, NEW worded \in BOOLEAN,
               job' = [job EXCEPT ![r] = [NewJob("accept", u) EXCEPT
                         !.sug = s, !.item = i, !.kind = l, !.worded = worded]]
        PROVE  \E p \in {"checkQuery", "authorize"} : \E m \in Job : Brings(r, p, m)
    <3> DEFINE k == [NewJob("accept", u) EXCEPT
                       !.sug = s, !.item = i, !.kind = l, !.worded = worded]
    <3>1. k \in Job /\ k.op = "accept" /\ k.sug = s /\ k.item = i /\ k.kind = l
      BY <2>1 DEF NewJob, Job, Kinds, Reviews
    <3>2. Brings(r, "authorize", k)
      BY <2>6, <3>1 DEF Brings, Move, Reviews, Naming
    <3> QED BY <3>1, <3>2, <2>2
  <2>7. CASE AskReview(r, u)
    BY <2>5, <2>6, <2>7 DEF AskReview
  <2>8. ASSUME NEW t \in Texts, Move(r, "authorize"),
               job' = [job EXCEPT ![r] = [NewJob("add", u) EXCEPT !.text = t]]
        PROVE  \E p \in {"checkQuery", "authorize"} : \E l \in Job : Brings(r, p, l)
    <3> DEFINE k == [NewJob("add", u) EXCEPT !.text = t]
    <3>1. k \in Job /\ k.op = "add" /\ k.text = t
      BY DEF NewJob, Job, Kinds, Edits
    <3>2. Brings(r, "authorize", k)
      BY <2>8, <3>1 DEF Brings, Move, Reviews, Naming
    <3> QED BY <3>1, <3>2, <2>2
  <2>9. ASSUME NEW op \in {"promote", "discard"}, NEW i \in Live, Move(r, "authorize"),
               job' = [job EXCEPT ![r] =
                         [NewJob(op, u) EXCEPT !.item = i, !.kind = KindOf(i.text)]]
        PROVE  \E p \in {"checkQuery", "authorize"} : \E l \in Job : Brings(r, p, l)
    <3> DEFINE k == [NewJob(op, u) EXCEPT !.item = i, !.kind = KindOf(i.text)]
    <3>1. k \in Job /\ k.op = op /\ k.item = i /\ k.kind = KindOf(i.text)
      BY <2>1 DEF NewJob, Job, Kinds, Edits
    <3>2. Brings(r, "authorize", k)
      BY <2>1, <2>9, <3>1 DEF Brings, Move, Reviews, Naming
    <3> QED BY <3>1, <3>2, <2>2
  <2>10. ASSUME NEW i \in Live, NEW t \in Texts, KindOf(t) = KindOf(i.text),
                Move(r, "authorize"),
                job' = [job EXCEPT ![r] =
                  [NewJob("edit", u) EXCEPT !.item = i, !.kind = KindOf(i.text), !.text = t]]
         PROVE  \E p \in {"checkQuery", "authorize"} : \E l \in Job : Brings(r, p, l)
    <3> DEFINE k == [NewJob("edit", u) EXCEPT !.item = i, !.kind = KindOf(i.text), !.text = t]
    <3>1. k \in Job /\ k.op = "edit" /\ k.item = i /\ k.kind = KindOf(i.text) /\ k.text = t
      BY <2>1 DEF NewJob, Job, Kinds, Edits
    <3>2. Brings(r, "authorize", k)
      BY <2>1, <2>10, <3>1 DEF Brings, Move, Reviews, Naming
    <3> QED BY <3>1, <3>2, <2>2
  <2>11. CASE AskEdit(r, u)
    BY <2>8, <2>9, <2>10, <2>11 DEF AskEdit
  <2> QED BY <1>1, <2>3, <2>4, <2>7, <2>11
<1>4. PICK p \in {"checkQuery", "authorize"}, k \in Job :
        /\ pc' = [pc EXCEPT ![r] = p] /\ job' = [job EXCEPT ![r] = k]
        /\ p = "checkQuery" <=> k.op = "submit"
        /\ k.op \in Reviews => k.sug \in Suggestions /\ queue[k.sug] # None
        /\ k.op \in Naming => k.item \in Live /\ k.kind \in {"glossary", "mapping"}
        /\ k.op \in {"add", "edit"} => k.text \in Texts
        /\ k.op = "edit" => KindOf(k.text) = KindOf(k.item.text)
  BY <1>3 DEF Brings
<1>5. \A i \in Live : Past(i) /\ i.origin # r /\ i \in ItemIds
  BY <1>2 DEF IInv, LiveArePast, Past, Inserting, Live
<1>6. ASSUME NEW i, Past(i) PROVE Past(i)'
  BY <1>2, <1>4, <1>6 DEF Past, Inserting
<1>7. Typed'
  BY <1>2, <1>4 DEF IInv, Typed, TypeOK, Points
<1>8. JobsAreComplete' /\ PlacesFit'
  BY <1>2, <1>4, <1>5 DEF IInv, JobsAreComplete, PlacesFit, Calibrating
<1>9. VettedByRole'
  BY <1>2, <1>4 DEF IInv, VettedByRole, Author, Unvetted
<1>10. ClaimsAreHeld'
  BY <1>2, <1>4 DEF IInv, ClaimsAreHeld, Writing, Author, Returned, Verdict
<1>11. LiveArePast' /\ SeenArePast' /\ NamedArePast'
  <2>1. SeenArePast' /\ LiveArePast'
    BY <1>2, <1>6 DEF IInv, SeenArePast, LiveArePast, Live
  <2>2. NamedArePast'
    BY <1>2, <1>4, <1>5, <1>6 DEF IInv, NamedArePast
  <2> QED BY <2>1, <2>2
<1>12. HandsOff' /\ WordsAreAuthors'
  <2>1. HandsOff'
    BY <1>2, <1>4 DEF IInv, HandsOff, Live, Unwritten
  <2>2. \A q \in Requests : q # r => Author(q)' = Author(q)
    BY <1>2, <1>4 DEF Author
  <2>3. \A i \in Live : items[i].wording # r /\ i.origin # r
    BY <1>2, <1>5 DEF IInv, HandsOff, Live, Unwritten
  <2>4. \A i \in ItemIds : <<i, r>> \notin promoted
    BY <1>2 DEF IInv, HandsOff, Unwritten
  <2>5. \A i \in Live : items[i].wording \in {Seed} \cup Requests
    BY DEF IInv, Typed, Live, Item
  <2> QED BY <1>2, <2>1, <2>2, <2>3, <2>4, <2>5 DEF IInv, WordsAreAuthors, Live
<1>13. SeenAreSkipped'
  BY <1>2, <1>4 DEF IInv, SeenAreSkipped, Live, Calibrating
<1>14. AcceptedIsApplied'
  BY <1>2, <1>4 DEF IInv, AcceptedIsApplied, Live
<1>15. SuggestionsAreSent'
  BY <1>2, <1>4 DEF IInv, SuggestionsAreSent, Unsent
<1> QED BY <1>7, <1>8, <1>9, <1>10, <1>11, <1>12, <1>13, <1>14, <1>15 DEF IInv

\* A suggestion is submitted.
LEMMA InsertSuggestionKeeps ==
    ASSUME IInv, NEW r \in Requests, InsertSuggestion(r)
    PROVE  IInv'
<1>1. /\ pc[r] = "insertSuggestion" /\ job[r].op = "submit" /\ pc' = [pc EXCEPT ![r] = "done"]
      /\ queue' = [queue EXCEPT ![r] = NewSuggestion] /\ r \in Suggestions
      /\ UNCHANGED <<roles, items, job, fresh, founding, promoted, seen>>
  BY DEF IInv, PlacesFit, InsertSuggestion, At, Move, locals, history, Suggestions
<1>2. /\ NewSuggestion \in Suggestion /\ NewSuggestion.status = "open" /\ NewSuggestion.by = None
  BY DEF NewSuggestion, Suggestion
<1>3. Fits(r, "done")
  BY <1>1 DEF Fits, Points, Ended, Unvetted, Writing, Inserting, Unwritten, Calibrating
<1>4. queue[r] = None /\ \A q \in Requests : pc[q] # "idle" /\ job[q].op \in Reviews => job[q].sug # r
  BY <1>1 DEF IInv, SuggestionsAreSent, Unsent
<1>5. Typed'
  BY <1>1, <1>2 DEF IInv, Typed, TypeOK, Points, Ended
<1>6. JobsAreComplete' /\ PlacesFit' /\ VettedByRole'
  BY <1>1, <1>3 DEF IInv, Typed, TypeOK, JobsAreComplete, PlacesFit, VettedByRole, Fits, Author
<1>7. ASSUME NEW i \in ItemIds, Past(i) PROVE Past(i)'
  BY <1>1, <1>7 DEF Past, Inserting, IInv, Typed, TypeOK
<1>8. LiveArePast' /\ SeenArePast' /\ NamedArePast'
  BY <1>1, <1>2, <1>7 DEF IInv, Typed, TypeOK, LiveArePast, SeenArePast, NamedArePast,
     JobsAreComplete, Live
<1>9. SuggestionsAreSent'
  BY <1>1 DEF IInv, Typed, TypeOK, SuggestionsAreSent, Unsent
<1>10. ClaimsAreHeld'
  BY <1>1, <1>2, <1>4 DEF IInv, Typed, TypeOK, ClaimsAreHeld, Writing, Returned, Verdict, Author,
     Reviews
<1>11. HandsOff' /\ WordsAreAuthors' /\ SeenAreSkipped'
  BY <1>1 DEF IInv, Typed, TypeOK, HandsOff, WordsAreAuthors, SeenAreSkipped, Unwritten, Author,
     Live, Calibrating
<1>12. AcceptedIsApplied'
  BY <1>1, <1>2, <1>4 DEF IInv, Typed, TypeOK, AcceptedIsApplied, Live, ClaimsAreHeld, Writing
<1> QED BY <1>5, <1>6, <1>8, <1>9, <1>10, <1>11, <1>12 DEF IInv

-----------------------------------------------------------------------------
(* The claim.                                                              *)

\* The claim hits an open row, which nobody owned, or the review ends.
LEMMA ClaimKeeps ==
    ASSUME IInv, NEW r \in Requests, Claim(r)
    PROVE  IInv'
<1> DEFINE s == job[r].sug
           p == AfterClaim(r)
           row == [status |-> Verdict(r), by |-> r, kind |-> job[r].kind, item |-> job[r].item]
<1>1. /\ pc[r] = "claim" /\ job[r].op \in Reviews /\ s \in Suggestions /\ Author(r)
      /\ UNCHANGED <<roles, items, job, fresh, founding, promoted, seen>>
  BY DEF IInv, PlacesFit, JobsAreComplete, VettedByRole, Claim, At, locals, history, Unvetted,
     Ended
<1>2. CASE ~Claimable(s)
  <2>1. Fits(r, "conflict") /\ Owns(r, "conflict")
    BY <1>1 DEF Fits, Owns, Points, Ended, Unvetted, Writing, Inserting, Unwritten, Calibrating
  <2> QED BY <1>2, <2>1, QuietKeeps DEF Claim, rows
<1>3. CASE Claimable(s)
  <2>1. /\ queue' = [queue EXCEPT ![s] = row] /\ pc' = [pc EXCEPT ![r] = p]
        /\ queue[s] # None /\ queue[s].status = "open"
    BY <1>3 DEF Claim, Claimable, IsOpen, Move
  <2>2. /\ p \in {"done", "authorizeEdit", "authorizePromote"}
        /\ p = "done" <=> job[r].op = "reject"
        /\ job[r].op = "accept" \/ job[r].op = "reject"
    BY <1>1 DEF AfterClaim, Reviews
  <2>3. /\ row \in Suggestion /\ row.status = Verdict(r) /\ row.by = r /\ r # None
        /\ row.kind = job[r].kind /\ row.item = job[r].item
        /\ row.status \in {"accepted", "rejected"}
        /\ row.status = "accepted" <=> job[r].op = "accept"
    BY <1>1, <2>2, CorrectionsAssumption
       DEF IInv, Typed, TypeOK, Job, Suggestion, Verdict
  <2> HIDE DEF row, p
  <2>4. Fits(r, p)
    BY <1>1, <2>2 DEF Fits, Points, Ended, Unvetted, Writing, Inserting, Unwritten, Calibrating
  <2>5. Typed'
    BY <1>1, <2>1, <2>2, <2>3 DEF IInv, Typed, TypeOK, Points, Ended
  <2>6. JobsAreComplete' /\ PlacesFit' /\ VettedByRole'
    BY <1>1, <2>1, <2>4
       DEF IInv, Typed, TypeOK, JobsAreComplete, PlacesFit, VettedByRole, Fits, Author
  <2>7. ASSUME NEW i \in ItemIds, Past(i) PROVE Past(i)'
    BY <1>1, <2>1, <2>2, <2>7 DEF Past, Inserting, IInv, Typed, TypeOK
  <2>8. LiveArePast' /\ SeenArePast'
    BY <1>1, <2>7 DEF IInv, Typed, TypeOK, LiveArePast, SeenArePast, Live
  <2>9. NamedArePast'
    BY <1>1, <2>1, <2>2, <2>3, <2>7
       DEF IInv, Typed, TypeOK, NamedArePast, JobsAreComplete, Naming
  <2>10. SuggestionsAreSent'
    BY <1>1, <2>1, <2>2 DEF IInv, Typed, TypeOK, SuggestionsAreSent, Unsent
  <2>11. ClaimsAreHeld'
    BY <1>1, <2>1, <2>2, <2>3 DEF IInv, Typed, TypeOK, ClaimsAreHeld, Writing, Returned, Verdict,
       Author, Reviews
  <2>12. HandsOff' /\ WordsAreAuthors' /\ SeenAreSkipped'
    <3>1. HandsOff'
      BY <1>1, <2>1, <2>2 DEF IInv, Typed, TypeOK, HandsOff, Unwritten, Live
    <3>2. WordsAreAuthors'
      BY <1>1, <2>1, <2>2 DEF IInv, Typed, TypeOK, WordsAreAuthors, Author, Live
    <3>3. SeenAreSkipped'
      BY <1>1, <2>1, <2>2 DEF IInv, Typed, TypeOK, SeenAreSkipped, Live, Calibrating
    <3> QED BY <3>1, <3>2, <3>3
  <2>13. AcceptedIsApplied'
    BY <1>1, <2>1, <2>2, <2>3 DEF IInv, Typed, TypeOK, AcceptedIsApplied, Live, ClaimsAreHeld,
       Writing
  <2> QED BY <2>5, <2>6, <2>8, <2>9, <2>10, <2>11, <2>12, <2>13 DEF IInv
<1> QED BY <1>2, <1>3

-----------------------------------------------------------------------------
(* The rows a review and a verification write.                             *)

\* The definition is reworded by an author, under the claim.
LEMMA UpdateDefinitionKeeps ==
    ASSUME IInv, NEW r \in Requests, UpdateDefinition(r)
    PROVE  IInv'
<1>1. /\ pc[r] = "updateDefinition" /\ job[r].op = "accept" /\ Author(r)
      /\ Move(r, "authorizePromote")
      /\ UNCHANGED <<roles, queue, job, fresh, founding, promoted, seen>>
  BY DEF IInv, PlacesFit, VettedByRole, UpdateDefinition, At, locals, history, Unvetted, Ended
<1>2. Fits(r, "authorizePromote") /\ Owns(r, "authorizePromote")
  BY <1>1 DEF IInv, Fits, Owns, Points, Ended, Unvetted, Writing, Inserting, Unwritten,
     Calibrating, ClaimsAreHeld
<1>3. CASE ~Hits(r)
  BY <1>1, <1>2, <1>3, QuietKeeps DEF UpdateDefinition, rows
<1>4. CASE Hits(r)
  <2>1. /\ job[r].item \in Live /\ job[r].item.origin # r
        /\ items' = [items EXCEPT ![job[r].item].wording = r]
    BY <1>1, <1>4
       DEF UpdateDefinition, Hits, IInv, JobsAreComplete, Naming
  <2>2. /\ JobsAreComplete' /\ PlacesFit' /\ VettedByRole' /\ NamedArePast' /\ ClaimsAreHeld'
        /\ SuggestionsAreSent'
        /\ \A i \in ItemIds : Past(i) => Past(i)'
        /\ pc' = [pc EXCEPT ![r] = "authorizePromote"] /\ pc' \in [Requests -> Points]
    BY <1>1, <1>2, RequestKeeps
  <2>3. \A i \in Live : items[i] \in Item /\ i \in ItemIds
    BY DEF IInv, Typed, TypeOK, Live
  <2>4. /\ items' \in [ItemIds -> Item \cup {None}]
        /\ Live' \subseteq Live
        /\ \A i \in Live : /\ items'[i] \in Item
                          /\ items'[i].text = items[i].text
                          /\ items'[i].status = items[i].status
                          /\ items'[i].drafted = items[i].drafted
                          /\ items'[i].wording = IF i = job[r].item THEN r ELSE items[i].wording
    BY <2>1, <2>3 DEF IInv, Typed, Live, Item
  <2>5. Typed'
    BY <1>1, <2>2, <2>3, <2>4 DEF IInv, Typed, TypeOK, Live
  <2>6. LiveArePast' /\ SeenArePast'
    BY <1>1, <2>2, <2>3, <2>4 DEF IInv, Typed, TypeOK, LiveArePast, SeenArePast
  <2>7. HandsOff'
    BY <1>1, <2>2, <2>3, <2>4 DEF IInv, Typed, TypeOK, HandsOff, Unwritten
  <2>10. WordsAreAuthors'
    BY <1>1, <2>2, <2>3, <2>4 DEF IInv, WordsAreAuthors, Author
  <2>8. SeenAreSkipped'
    BY <1>1, <2>1, <2>2, <2>3, <2>4 DEF IInv, Typed, TypeOK, SeenAreSkipped, Calibrating
  <2>9. AcceptedIsApplied'
    BY <1>1, <2>2, <2>3, <2>4 DEF IInv, Typed, TypeOK, AcceptedIsApplied
  <2> QED BY <2>2, <2>5, <2>6, <2>7, <2>8, <2>9, <2>10 DEF IInv
<1> QED BY <1>3, <1>4

\* An item is verified, for an author; the accept that does it ends with it.
LEMMA SetStatusKeeps ==
    ASSUME IInv, NEW r \in Requests, SetStatus(r)
    PROVE  IInv'
<1>1. /\ pc[r] = "setStatus" /\ job[r].op \in {"accept", "promote"} /\ Author(r)
      /\ Move(r, "done")
      /\ UNCHANGED <<roles, queue, job, fresh, founding, seen>>
  BY DEF IInv, PlacesFit, VettedByRole, SetStatus, At, locals, Unvetted, Ended
<1>2. Fits(r, "done") /\ Owns(r, "done")
  BY <1>1 DEF IInv, Fits, Owns, Points, Ended, Unvetted, Writing, Inserting, Unwritten,
     Calibrating, ClaimsAreHeld, Reviews
<1>3. \A s \in Suggestions :
        queue[s] # None /\ queue[s].status = "accepted" /\ queue[s].by = r =>
          queue[s].item = job[r].item /\ queue[s].kind = job[r].kind
  BY DEF IInv, ClaimsAreHeld
<1>4. CASE ~Hits(r)
  <2>1. Applied(r)
    BY <1>3, <1>4 DEF Applied, Hits
  <2> QED BY <1>1, <1>2, <1>4, <2>1, QuietKeeps DEF SetStatus, rows, locals, history
<1>5. CASE Hits(r)
  <2>1. /\ job[r].item \in Live /\ job[r].item.origin # r
        /\ items' = [items EXCEPT ![job[r].item].status = "verified"]
        /\ promoted' = promoted \cup {<<job[r].item, r>>}
    BY <1>1, <1>5 DEF SetStatus, Hits, IInv, JobsAreComplete, Naming
  <2>2. /\ JobsAreComplete' /\ PlacesFit' /\ VettedByRole' /\ NamedArePast' /\ ClaimsAreHeld'
        /\ SuggestionsAreSent'
        /\ \A i \in ItemIds : Past(i) => Past(i)'
        /\ pc' = [pc EXCEPT ![r] = "done"] /\ pc' \in [Requests -> Points]
    BY <1>1, <1>2, RequestKeeps
  <2>3. \A i \in Live : items[i] \in Item /\ i \in ItemIds
    BY DEF IInv, Typed, TypeOK, Live
  <2>4. /\ items' \in [ItemIds -> Item \cup {None}]
        /\ Live' \subseteq Live
        /\ \A i \in Live :
             /\ items'[i] \in Item
             /\ items'[i].text = items[i].text
             /\ items'[i].status = IF i = job[r].item THEN "verified" ELSE items[i].status
             /\ items'[i].drafted = items[i].drafted
             /\ items'[i].wording = items[i].wording
    BY <2>1, <2>3 DEF IInv, Typed, Live, Item
  <2>5. Typed'
    BY <1>1, <2>1, <2>2, <2>3, <2>4 DEF IInv, Typed, TypeOK, Live
  <2>6. LiveArePast' /\ SeenArePast'
    BY <1>1, <2>2, <2>3, <2>4 DEF IInv, Typed, TypeOK, LiveArePast, SeenArePast
  <2>7. HandsOff'
    BY <1>1, <2>1, <2>2, <2>3, <2>4 DEF IInv, Typed, TypeOK, HandsOff, Unwritten
  <2>8. WordsAreAuthors'
    BY <1>1, <2>1, <2>2, <2>3, <2>4 DEF IInv, WordsAreAuthors, Author
  <2>9. SeenAreSkipped'
    BY <1>1, <2>2, <2>3, <2>4 DEF IInv, Typed, TypeOK, SeenAreSkipped, Calibrating
  <2>10. AcceptedIsApplied'
    BY <1>1, <1>3, <2>2, <2>3, <2>4 DEF IInv, Typed, TypeOK, AcceptedIsApplied
  <2> QED BY <2>2, <2>5, <2>6, <2>7, <2>8, <2>9, <2>10 DEF IInv
<1> QED BY <1>4, <1>5

\* An author writes an item himself: a row nobody has named yet.
LEMMA InsertItemKeeps ==
    ASSUME IInv, NEW r \in Requests, InsertItem(r)
    PROVE  IInv'
<1> DEFINE new == [origin |-> r, text |-> job[r].text, copy |-> 1]
           row == [text |-> job[r].text, wording |-> r, status |-> "verified", drafted |-> FALSE]
<1>1. /\ pc[r] = "insertItem" /\ job[r].op = "add" /\ Author(r) /\ Move(r, "done")
      /\ items' = [items EXCEPT ![new] = row] /\ job[r].text \in Texts
      /\ UNCHANGED <<roles, queue, job, fresh, founding, promoted, seen>>
  BY DEF IInv, PlacesFit, JobsAreComplete, VettedByRole, InsertItem, At, locals, history,
     Unvetted, Ended
<1>2. Fits(r, "done") /\ Owns(r, "done")
  BY <1>1 DEF IInv, Fits, Owns, Points, Ended, Unvetted, Writing, Inserting, Unwritten,
     Calibrating, Reviews
<1>3. /\ JobsAreComplete' /\ PlacesFit' /\ VettedByRole' /\ NamedArePast' /\ ClaimsAreHeld'
      /\ SuggestionsAreSent'
      /\ \A i \in ItemIds : Past(i) => Past(i)'
      /\ pc' = [pc EXCEPT ![r] = "done"] /\ pc' \in [Requests -> Points]
  BY <1>1, <1>2, RequestKeeps
<1>4. /\ new \in ItemIds /\ new.origin = r /\ new.text = job[r].text
      /\ row \in Item /\ row.text = job[r].text /\ row.wording = r /\ row.status = "verified"
      /\ row.drafted = FALSE
  BY <1>1, CorrectionsAssumption DEF ItemIds, Item, Copies
<1> HIDE DEF new, row
<1>5. \A i \in ItemIds : i = new => ~Past(i) /\ Past(i)'
  BY <1>1, <1>3, <1>4 DEF Past, Inserting, IInv, Typed, TypeOK
<1>6. /\ items' \in [ItemIds -> Item \cup {None}] /\ items'[new] = row
      /\ \A i \in ItemIds \ {new} : items'[i] = items[i] /\ (i \in Live' <=> i \in Live)
      /\ Live \subseteq ItemIds /\ Live' \subseteq ItemIds
      /\ \A i \in Live : items[i] \in Item
  BY <1>1, <1>4 DEF IInv, Typed, Live
<1>7. Typed'
  BY <1>1, <1>3, <1>4, <1>6 DEF IInv, Typed, TypeOK
<1>8. LiveArePast' /\ SeenArePast'
  BY <1>1, <1>3, <1>5, <1>6 DEF IInv, Typed, TypeOK, LiveArePast, SeenArePast
<1>9. HandsOff'
  BY <1>1, <1>3, <1>4, <1>6 DEF IInv, Typed, TypeOK, HandsOff, Unwritten
<1>10. WordsAreAuthors'
  BY <1>1, <1>3, <1>4, <1>6 DEF IInv, WordsAreAuthors, Author
<1>11. SeenAreSkipped'
  BY <1>1, <1>3, <1>4, <1>5, <1>6
     DEF IInv, Typed, TypeOK, SeenAreSkipped, SeenArePast, Calibrating
<1>12. AcceptedIsApplied'
  <2>1. \A s \in Suggestions : queue[s] # None /\ queue[s].status = "accepted" =>
          queue[s].by # r /\ queue[s].item # new
    BY <1>1, <1>5 DEF IInv, ClaimsAreHeld, NamedArePast, Reviews
  <2> QED BY <1>1, <1>3, <1>6, <2>1 DEF IInv, Typed, TypeOK, AcceptedIsApplied
<1> QED BY <1>3, <1>7, <1>8, <1>9, <1>10, <1>11, <1>12 DEF IInv

\* An item goes.
LEMMA DeleteItemKeeps ==
    ASSUME IInv, NEW r \in Requests, DeleteItem(r)
    PROVE  IInv'
<1>1. /\ pc[r] = "deleteItem" /\ job[r].op = "discard" /\ Move(r, "done")
      /\ UNCHANGED <<roles, queue, job, fresh, founding, promoted, seen>>
  BY DEF IInv, PlacesFit, DeleteItem, At, locals, history
<1>2. Fits(r, "done") /\ Owns(r, "done")
  BY <1>1 DEF IInv, Fits, Owns, Points, Ended, Unvetted, Writing, Inserting, Unwritten,
     Calibrating, Reviews
<1>3. /\ JobsAreComplete' /\ PlacesFit' /\ VettedByRole' /\ NamedArePast' /\ ClaimsAreHeld'
      /\ SuggestionsAreSent'
      /\ \A i \in ItemIds : Past(i) => Past(i)'
      /\ pc' = [pc EXCEPT ![r] = "done"] /\ pc' \in [Requests -> Points]
  BY <1>1, <1>2, RequestKeeps
<1>4. /\ items' \in [ItemIds -> Item \cup {None}] /\ Live' \subseteq Live
      /\ \A i \in Live' : items'[i] = items[i]
      /\ \A i \in ItemIds : items'[i] # None => items'[i] = items[i]
      /\ Live \subseteq ItemIds
      /\ \A i \in Live : items[i] \in Item
  BY <1>1 DEF DeleteItem, IInv, Typed, Live
<1>5. Typed'
  BY <1>1, <1>3, <1>4 DEF IInv, Typed, TypeOK
<1>6. LiveArePast' /\ SeenArePast'
  BY <1>1, <1>3, <1>4 DEF IInv, Typed, TypeOK, LiveArePast, SeenArePast
<1>7. HandsOff' /\ WordsAreAuthors'
  BY <1>1, <1>3, <1>4 DEF IInv, Typed, TypeOK, HandsOff, WordsAreAuthors, Author, Unwritten
<1>8. SeenAreSkipped'
  BY <1>1, <1>3, <1>4 DEF IInv, Typed, TypeOK, SeenAreSkipped, Calibrating
<1>9. AcceptedIsApplied'
  <2>1. \A s \in Suggestions : queue[s] # None /\ queue[s].status = "accepted" => queue[s].by # r
    BY <1>1 DEF IInv, ClaimsAreHeld, Reviews
  <2> QED BY <1>1, <1>3, <1>4, <2>1 DEF IInv, Typed, TypeOK, AcceptedIsApplied
<1> QED BY <1>3, <1>5, <1>6, <1>7, <1>8, <1>9 DEF IInv

\* An author rewrites an item; it is no longer in its first wording.
LEMMA UpdateItemKeeps ==
    ASSUME IInv, NEW r \in Requests, UpdateItem(r)
    PROVE  IInv'
<1>1. /\ pc[r] = "updateItem" /\ job[r].op = "edit" /\ Author(r) /\ Move(r, "done")
      /\ UNCHANGED <<roles, queue, job, fresh, founding, promoted, seen>>
  BY DEF IInv, PlacesFit, VettedByRole, UpdateItem, At, locals, history, Unvetted, Ended
<1>2. Fits(r, "done") /\ Owns(r, "done")
  BY <1>1 DEF IInv, Fits, Owns, Points, Ended, Unvetted, Writing, Inserting, Unwritten,
     Calibrating, Reviews
<1>3. \A s \in Suggestions : queue[s] # None /\ queue[s].status = "accepted" => queue[s].by # r
  BY <1>1 DEF IInv, ClaimsAreHeld, Reviews
<1>4. CASE ~Hits(r)
  BY <1>1, <1>2, <1>3, <1>4, QuietKeeps DEF UpdateItem, rows, locals, history, Applied
<1>5. CASE Hits(r)
  <2>1. /\ job[r].item \in Live /\ job[r].item.origin # r
        /\ job[r].text \in Texts /\ KindOf(job[r].text) = KindOf(job[r].item.text)
        /\ items' = [items EXCEPT ![job[r].item].text = job[r].text,
                                  ![job[r].item].wording = r]
    BY <1>1, <1>5 DEF UpdateItem, Hits, IInv, JobsAreComplete, Naming
  <2>2. /\ JobsAreComplete' /\ PlacesFit' /\ VettedByRole' /\ NamedArePast' /\ ClaimsAreHeld'
        /\ SuggestionsAreSent'
        /\ \A i \in ItemIds : Past(i) => Past(i)'
        /\ pc' = [pc EXCEPT ![r] = "done"] /\ pc' \in [Requests -> Points]
    BY <1>1, <1>2, RequestKeeps
  <2>3. \A i \in Live : items[i] \in Item /\ i \in ItemIds
    BY DEF IInv, Typed, TypeOK, Live
  <2>4. /\ items' \in [ItemIds -> Item \cup {None}]
        /\ Live' \subseteq Live
        /\ \A i \in Live :
             /\ items'[i] \in Item
             /\ items'[i].text = IF i = job[r].item THEN job[r].text ELSE items[i].text
             /\ items'[i].status = items[i].status
             /\ items'[i].drafted = items[i].drafted
             /\ items'[i].wording = IF i = job[r].item THEN r ELSE items[i].wording
    BY <2>1, <2>3 DEF IInv, Typed, Live, Item
  <2>5. Typed'
    BY <1>1, <2>1, <2>2, <2>3, <2>4 DEF IInv, Typed, TypeOK, Live
  <2>6. LiveArePast' /\ SeenArePast'
    BY <1>1, <2>2, <2>3, <2>4 DEF IInv, Typed, TypeOK, LiveArePast, SeenArePast
  <2>7. HandsOff'
    BY <1>1, <2>1, <2>2, <2>3, <2>4 DEF IInv, Typed, TypeOK, HandsOff, Unwritten
  <2>8. WordsAreAuthors'
    <3>1. /\ UNCHANGED <<job, founding, promoted>> /\ Author(r) /\ r \in Requests
          /\ \A i \in Live' : /\ i \in Live
                             /\ items'[i].status = items[i].status
                             /\ items'[i].drafted = items[i].drafted
                             /\ items'[i].wording \in {items[i].wording, r}
      BY <1>1, <2>4
    <3> QED BY <3>1 DEF IInv, WordsAreAuthors, Author
  <2>9. SeenAreSkipped'
    BY <1>1, <2>1, <2>2, <2>3, <2>4 DEF IInv, Typed, TypeOK, SeenAreSkipped, Calibrating
  <2>10. AcceptedIsApplied'
    BY <1>1, <1>3, <2>2, <2>3, <2>4 DEF IInv, Typed, TypeOK, AcceptedIsApplied
  <2> QED BY <2>2, <2>5, <2>6, <2>7, <2>8, <2>9, <2>10 DEF IInv
<1> QED BY <1>4, <1>5

-----------------------------------------------------------------------------
(* Calibration.                                                            *)

\* Where a calibration stands says who asked for it, and it owns no verdict.
LEMMA CalibrationFits ==
    ASSUME IInv, NEW r \in Requests, NEW p,
           <<pc[r], p>> \in {<<"draft", "readTerms">>, <<"readTerms", "addTerms">>,
                            <<"addTerms", "readMaps">>, <<"readMaps", "addMaps">>,
                            <<"addMaps", "done">>}
    PROVE  /\ Fits(r, p) /\ Owns(r, p) /\ job[r].op = "calibrate" /\ Author(r)
           /\ \A s \in Suggestions : queue[s] # None /\ queue[s].status = "accepted" =>
                queue[s].by # r
<1>1. /\ pc[r] \in {"draft", "readTerms", "addTerms", "readMaps", "addMaps"}
      /\ job[r].op = "calibrate" /\ Author(r)
  BY DEF IInv, PlacesFit, VettedByRole, Calibrating, Unvetted, Ended
<1>2. Fits(r, p)
  BY <1>1 DEF Fits, Points, Ended, Unvetted, Writing, Inserting, Unwritten, Calibrating
<1>3. Owns(r, p)
  BY <1>1 DEF Owns, Writing, Reviews
<1> QED BY <1>1, <1>2, <1>3 DEF IInv, ClaimsAreHeld, Reviews

\* A draft is asked of the model.
LEMMA DraftKeeps ==
    ASSUME IInv, NEW r \in Requests, Draft(r)
    PROVE  IInv'
<1>1. /\ pc[r] = "draft" /\ Move(r, "readTerms")
      /\ UNCHANGED <<roles, items, queue, job, founding, promoted, seen>>
      /\ fresh' \in [Requests -> Drafts] /\ \A q \in Requests \ {r} : fresh'[q] = fresh[q]
  BY DEF Draft, At, rows, history, IInv, Typed, TypeOK
<1>2. Fits(r, "readTerms") /\ Owns(r, "readTerms")
  BY <1>1, CalibrationFits
<1>3. /\ JobsAreComplete' /\ PlacesFit' /\ VettedByRole' /\ NamedArePast' /\ ClaimsAreHeld'
      /\ SuggestionsAreSent'
      /\ \A i \in ItemIds : Past(i) => Past(i)'
      /\ pc' = [pc EXCEPT ![r] = "readTerms"] /\ pc' \in [Requests -> Points]
  BY <1>1, <1>2, RequestKeeps
<1>4. Typed'
  BY <1>1, <1>3 DEF IInv, Typed, TypeOK
<1>5. LiveArePast' /\ SeenArePast'
  BY <1>1, <1>3 DEF IInv, Typed, TypeOK, LiveArePast, SeenArePast, Live
<1>6. HandsOff' /\ WordsAreAuthors'
  BY <1>1, <1>3 DEF IInv, Typed, TypeOK, HandsOff, WordsAreAuthors, Unwritten, Author, Live
<1>7. SeenAreSkipped'
  BY <1>1, <1>3 DEF IInv, Typed, TypeOK, SeenAreSkipped, Live, Calibrating
<1>8. AcceptedIsApplied'
  BY <1>1, <1>3 DEF IInv, Typed, TypeOK, AcceptedIsApplied, Live
<1> QED BY <1>3, <1>4, <1>5, <1>6, <1>7, <1>8 DEF IInv

\* The calibration reads what there is, before it inserts anything of that kind.
LEMMA ReadKnownKeeps ==
    ASSUME IInv, NEW r \in Requests, NEW point, NEW kind, NEW next,
           <<point, kind, next>> \in {<<"readTerms", "glossary", "addTerms">>,
                                     <<"readMaps", "mapping", "addMaps">>},
           ReadKnown(r, point, kind, next)
    PROVE  IInv'
<1>1. /\ pc[r] = point /\ Move(r, next)
      /\ UNCHANGED <<roles, items, queue, job, founding, promoted>>
      /\ fresh' = [fresh EXCEPT ![r] = [t \in Texts |-> IF t \in Known(kind) THEN 0 ELSE @[t]]]
      /\ seen' = [seen EXCEPT ![r] = @ \cup OfKind(kind)]
  BY DEF ReadKnown, At, rows
<1>2. Fits(r, next) /\ Owns(r, next) /\ next # "done"
  BY <1>1, CalibrationFits
<1>3. /\ JobsAreComplete' /\ PlacesFit' /\ VettedByRole' /\ NamedArePast' /\ ClaimsAreHeld'
      /\ SuggestionsAreSent'
      /\ \A i \in ItemIds : Past(i) => Past(i)'
      /\ pc' = [pc EXCEPT ![r] = next] /\ pc' \in [Requests -> Points]
  BY <1>1, <1>2, RequestKeeps
<1>4. /\ OfKind(kind) \subseteq Live /\ Live \subseteq ItemIds
      /\ \A i \in OfKind(kind) : items[i].text \in Known(kind) /\ KindOf(i.text) = kind
  BY DEF OfKind, Known, Live
<1>10. /\ fresh \in [Requests -> Drafts] /\ fresh' \in [Requests -> Drafts]
       /\ \A q \in Requests \ {r} : fresh'[q] = fresh[q]
       /\ \A t \in Texts :
            /\ t \in Known(kind) => fresh'[r][t] = 0
            /\ fresh[r][t] = 0 => fresh'[r][t] = 0
  BY <1>1, CorrectionsAssumption DEF IInv, Typed, TypeOK, Drafts
<1>5. Typed'
  BY <1>1, <1>3, <1>4, <1>10 DEF IInv, Typed, TypeOK
<1>6. LiveArePast' /\ SeenArePast'
  BY <1>1, <1>3, <1>4 DEF IInv, Typed, TypeOK, LiveArePast, SeenArePast, Live
<1>7. HandsOff' /\ WordsAreAuthors'
  BY <1>1, <1>3 DEF IInv, Typed, TypeOK, HandsOff, WordsAreAuthors, Unwritten, Author, Live
<1>8. SeenAreSkipped'
  <2>1. \A i \in OfKind(kind) : \A j \in Live : j.origin = r => j.text # i.text
    BY <1>1, <1>4 DEF IInv, LiveArePast, Past, Inserting, KindOf
  <2>2. \A i \in OfKind(kind) : i.origin # r
    BY <1>4, <2>1
  <2>3. \A i \in OfKind(kind) : items[i].wording = i.origin => i.text \in Known(kind)
    BY <1>4 DEF IInv, SeenAreSkipped
  <2>4. /\ fresh \in [Requests -> Drafts] /\ seen \in [Requests -> SUBSET ItemIds]
        /\ pc \in [Requests -> Points] /\ Live' = Live
        /\ \A i \in ItemIds : i.text \in Texts
    BY <1>1 DEF IInv, Typed, TypeOK, Live, ItemIds
  <2>5. ASSUME NEW q \in Requests, NEW i \in seen'[q]
        PROVE  /\ i.origin # q /\ pc'[q] \notin {"idle", "authorize", "readSnapshot", "draft"}
               /\ i \in Live /\ items[i].wording = i.origin =>
                    /\ pc'[q] \in Calibrating => fresh'[q][i.text] = 0
                    /\ \A j \in Live : j.origin = q /\ j.text = i.text => ~items[j].drafted
    <3>1. CASE q # r
      BY <1>1, <1>3, <1>10, <2>4, <2>5, <3>1 DEF IInv, SeenAreSkipped
    <3>2. CASE q = r /\ i \in OfKind(kind)
      BY <1>1, <1>3, <1>4, <1>10, <2>1, <2>2, <2>3, <2>4, <3>2
    <3>3. CASE q = r /\ i \in seen[r]
      BY <1>1, <1>3, <1>10, <2>4, <3>3 DEF IInv, SeenAreSkipped, Calibrating
    <3> QED BY <1>1, <2>4, <2>5, <3>1, <3>2, <3>3
  <2> QED BY <1>1, <2>4, <2>5 DEF IInv, SeenAreSkipped
<1>9. AcceptedIsApplied'
  BY <1>1, <1>2, <1>3, CalibrationFits DEF IInv, Typed, TypeOK, AcceptedIsApplied, Live
<1> QED BY <1>3, <1>5, <1>6, <1>7, <1>8, <1>9 DEF IInv

\* What is inserted was not there, and repeats nothing the calibration saw.
LEMMA AddDraftsKeeps ==
    ASSUME IInv, NEW r \in Requests, NEW point, NEW texts, NEW next,
           <<point, texts, next>> \in {<<"addTerms", Terms, "readMaps">>,
                                      <<"addMaps", Pairs, "done">>},
           AddDrafts(r, point, texts, next)
    PROVE  IInv'
<1> DEFINE New == {i \in ItemIds :
                    i.origin = r /\ i.text \in texts /\ i.copy <= fresh[r][i.text]}
<1>1. /\ pc[r] = point /\ Move(r, next)
      /\ UNCHANGED <<roles, queue, job, fresh, founding, promoted, seen>>
  BY DEF AddDrafts, At, locals, history
<1>2. /\ Fits(r, next) /\ Owns(r, next) /\ Author(r) /\ job[r].op = "calibrate"
      /\ \A s \in Suggestions : queue[s] # None /\ queue[s].status = "accepted" => queue[s].by # r
  BY <1>1, CalibrationFits
<1>3. /\ JobsAreComplete' /\ PlacesFit' /\ VettedByRole' /\ NamedArePast' /\ ClaimsAreHeld'
      /\ SuggestionsAreSent'
      /\ \A i \in ItemIds : Past(i) => Past(i)'
      /\ pc' = [pc EXCEPT ![r] = next] /\ pc' \in [Requests -> Points]
  BY <1>1, <1>2, RequestKeeps
<1>4. \A i \in New : i.text \in Texts /\ i.origin = r /\ fresh[r][i.text] # 0 /\ i \in ItemIds
  BY CorrectionsAssumption DEF ItemIds, Copies, Drafts, IInv, Typed, TypeOK
<1>5. \A i \in New : ~Past(i) /\ Past(i)'
  BY <1>1, <1>3, CorrectionsAssumption DEF Past, Inserting, IInv, Typed, TypeOK
<1>6. /\ items' \in [ItemIds -> Item \cup {None}]
      /\ \A i \in New : /\ items'[i] \in Item /\ items'[i].text = i.text /\ items'[i].wording = r
                       /\ items'[i].status = "suggested" /\ items'[i].drafted = TRUE
      /\ \A i \in ItemIds \ New : items'[i] = items[i] /\ (i \in Live' <=> i \in Live)
      /\ Live \subseteq ItemIds /\ Live' \subseteq ItemIds
      /\ \A i \in Live : items[i] \in Item
  BY <1>4 DEF AddDrafts, IInv, Typed, Live, Item
<1> HIDE DEF New
<1>7. Typed'
  BY <1>1, <1>3, <1>4, <1>6 DEF IInv, Typed, TypeOK
<1>8. LiveArePast' /\ SeenArePast'
  BY <1>1, <1>3, <1>5, <1>6 DEF IInv, Typed, TypeOK, LiveArePast, SeenArePast
<1>9. HandsOff'
  BY <1>1, <1>3, <1>4, <1>6 DEF IInv, Typed, TypeOK, HandsOff, Unwritten
<1>10. WordsAreAuthors'
  BY <1>1, <1>2, <1>3, <1>4, <1>6 DEF IInv, WordsAreAuthors, Author
<1>11. SeenAreSkipped'
  BY <1>1, <1>3, <1>4, <1>5, <1>6
     DEF IInv, Typed, TypeOK, SeenAreSkipped, SeenArePast, Calibrating
<1>12. AcceptedIsApplied'
  <2>1. \A s \in Suggestions : queue[s] # None /\ queue[s].status = "accepted" =>
          queue[s].by # r /\ queue[s].item \notin New
    BY <1>2, <1>5 DEF IInv, NamedArePast
  <2> QED BY <1>1, <1>3, <1>6, <2>1 DEF IInv, Typed, TypeOK, AcceptedIsApplied
<1> QED BY <1>3, <1>7, <1>8, <1>9, <1>10, <1>11, <1>12 DEF IInv

\* A member is removed: he had authored before.
LEMMA LoseRoleKeeps ==
    ASSUME IInv, NEW u \in Users, LoseRole(u)
    PROVE  IInv'
<1>1. /\ roles' = [roles EXCEPT ![u] = None] /\ roles \in [Users -> Roles \cup {None}]
      /\ UNCHANGED <<items, queue, pc, job, fresh, founding, promoted, seen>>
  BY DEF LoseRole, locals, history, IInv, Typed, TypeOK
<1>2. Typed'
  BY <1>1 DEF IInv, Typed, TypeOK
<1>3. VettedByRole'
  BY <1>1 DEF IInv, VettedByRole, Author
<1> QED
  BY <1>1, <1>2, <1>3 DEF IInv, JobsAreComplete, PlacesFit, LiveArePast, SeenArePast,
     NamedArePast, SuggestionsAreSent, ClaimsAreHeld, HandsOff, WordsAreAuthors, SeenAreSkipped,
     AcceptedIsApplied, Live, Past, Author, Returned, Verdict

-----------------------------------------------------------------------------
(* The theorems.                                                           *)

\* At the start nothing is asked and what there is are seeds.
LEMMA InitIInv == Init => IInv
<1> SUFFICES ASSUME Init PROVE IInv
  OBVIOUS
<1>1. /\ items \in [ItemIds -> Item \cup {None}]
      /\ \A i \in Live : /\ i \in ItemIds /\ i.origin = Seed /\ items[i] \in Item
                        /\ items[i].text = i.text /\ items[i].wording = Seed
                        /\ items[i].status = "suggested" /\ items[i].drafted = TRUE
  BY DEF Init, ItemIds, Item, Live
<1>2. /\ queue \in [Suggestions -> Suggestion \cup {None}]
      /\ \A s \in Suggestions : queue[s] # None =>
           s \in Raised /\ queue[s].status = "open" /\ queue[s].by = None
  BY DEF Init, Suggestions, Suggestion, NewSuggestion
<1>9. fresh \in [Requests -> Drafts]
  BY CorrectionsAssumption DEF Init, EmptyDraft, Drafts
<1>3. Typed
  BY <1>1, <1>2, <1>9 DEF Init, Typed, TypeOK, Points, Live
<1>4. JobsAreComplete /\ PlacesFit /\ VettedByRole
  BY DEF Init, JobsAreComplete, PlacesFit, VettedByRole, Unvetted, Calibrating
<1>5. LiveArePast /\ SeenArePast /\ NamedArePast
  BY <1>1, <1>2, CorrectionsAssumption DEF Init, LiveArePast, SeenArePast, NamedArePast, Past
<1>8. SuggestionsAreSent
  BY <1>2, CorrectionsAssumption DEF Init, SuggestionsAreSent, Suggestions
<1>6. ClaimsAreHeld /\ AcceptedIsApplied
  BY <1>2 DEF Init, ClaimsAreHeld, AcceptedIsApplied, Writing, Returned
<1>7. HandsOff /\ WordsAreAuthors /\ SeenAreSkipped
  BY <1>1, CorrectionsAssumption DEF Init, HandsOff, WordsAreAuthors, SeenAreSkipped
<1> QED BY <1>3, <1>4, <1>5, <1>6, <1>7, <1>8 DEF IInv

\* Every step keeps IInv.
LEMMA NextIInv == IInv /\ [Next]_vars => IInv'
<1> SUFFICES ASSUME IInv, [Next]_vars PROVE IInv'
  OBVIOUS
<1>1. ASSUME NEW r \in Requests, Arrive(r) PROVE IInv'
  BY <1>1, ArriveKeeps
<1>2. ASSUME NEW r \in Requests, Review(r) PROVE IInv'
  BY <1>2, CheckQueryKeeps, InsertSuggestionKeeps, AuthorizeKeeps, ReadsKeep, ClaimKeeps,
     UpdateDefinitionKeeps, SetStatusKeeps DEF Review
<1>3. ASSUME NEW r \in Requests, Verification(r) PROVE IInv'
  BY <1>3, InsertItemKeeps, DeleteItemKeeps, UpdateItemKeeps DEF Verification
<1>4. ASSUME NEW r \in Requests, Calibration(r) PROVE IInv'
  <2>1. CASE ReadSnapshot(r)
    BY <2>1, ReadsKeep
  <2>2. CASE Draft(r)
    BY <2>2, DraftKeeps
  <2>3. CASE ReadKnown(r, "readTerms", "glossary", "addTerms")
    BY <2>3, ReadKnownKeeps
  <2>4. CASE AddDrafts(r, "addTerms", Terms, "readMaps")
    BY <2>4, AddDraftsKeeps
  <2>5. CASE ReadKnown(r, "readMaps", "mapping", "addMaps")
    BY <2>5, ReadKnownKeeps
  <2>6. CASE AddDrafts(r, "addMaps", Pairs, "done")
    BY <2>6, AddDraftsKeeps
  <2> QED BY <1>4, <2>1, <2>2, <2>3, <2>4, <2>5, <2>6 DEF Calibration
<1>5. ASSUME NEW r \in Requests, Fail(r) PROVE IInv'
  BY <1>5, FailKeeps
<1>6. ASSUME NEW u \in Users, LoseRole(u) PROVE IInv'
  BY <1>6, LoseRoleKeeps
<1>7. CASE UNCHANGED vars
  <2>1. UNCHANGED <<roles, items, queue, pc, job, fresh, founding, promoted, seen>>
    BY <1>7 DEF vars, rows, locals, history
  <2>2. Typed' /\ JobsAreComplete' /\ PlacesFit' /\ VettedByRole'
    BY <2>1 DEF IInv, Typed, TypeOK, JobsAreComplete, PlacesFit, VettedByRole, Author
  <2>3. LiveArePast' /\ SeenArePast' /\ NamedArePast' /\ SuggestionsAreSent'
    BY <2>1 DEF IInv, LiveArePast, SeenArePast, NamedArePast, SuggestionsAreSent, Live, Past
  <2>4. ClaimsAreHeld' /\ HandsOff' /\ WordsAreAuthors'
    BY <2>1 DEF IInv, ClaimsAreHeld, HandsOff, WordsAreAuthors, Live, Author, Returned, Verdict
  <2>5. SeenAreSkipped' /\ AcceptedIsApplied'
    BY <2>1 DEF IInv, SeenAreSkipped, AcceptedIsApplied, Live
  <2> QED BY <2>2, <2>3, <2>4, <2>5 DEF IInv
<1> QED BY <1>1, <1>2, <1>3, <1>4, <1>5, <1>6, <1>7 DEF Next

\* So it holds always.
LEMMA Invariance == Spec => []IInv
  BY InitIInv, NextIInv, PTL DEF Spec

\* The rows and the requests are what their types say.
THEOREM RowsAreTyped == Spec => []TypeOK
<1>1. IInv => TypeOK
  BY DEF IInv, Typed
<1> QED BY <1>1, Invariance, PTL

\* However many reviewers race, one is told that it decided a suggestion, the
\* row says what it decided, and who was turned away wrote no item.
THEOREM ReviewsDecideOnce == Spec => []OneVerdict
<1>1. IInv => OneVerdict
  BY DEF IInv, OneVerdict, ClaimsAreHeld, HandsOff, Unwritten, Live
<1> QED BY <1>1, Invariance, PTL

\* An accepted suggestion whose item is unverified has its accept under way, or
\* one that died or was turned away half way.
THEOREM AcceptsAreApplied == Spec => []AcceptedIsApplied
<1>1. IInv => AcceptedIsApplied
  BY DEF IInv
<1> QED BY <1>1, Invariance, PTL

\* What the model is given, and every verdict, came from somebody who could author.
THEOREM DecidersAreAuthors == Spec => []OnlyAuthorsDecide
<1>1. ASSUME IInv PROVE OnlyAuthorsDecide
  <2>1. \A i \in Live : items[i].wording # Seed => Author(items[i].wording)
    BY <1>1 DEF IInv, WordsAreAuthors
  <2>2. ASSUME NEW i \in Live, items[i].status = "verified"
        PROVE  \E r \in Requests : Author(r) /\
                 (<<i, r>> \in promoted \/ (items[i].drafted = FALSE /\ i.origin = r))
    <3>1. i \in ItemIds /\ items[i] \in Item /\ items[i].drafted \in BOOLEAN
      BY <1>1 DEF IInv, Typed, TypeOK, Live, Item
    <3> QED BY <1>1, <2>2, <3>1 DEF IInv, WordsAreAuthors
  <2>3. \A s \in Suggestions : queue[s] # None /\ queue[s].by # None => Author(queue[s].by)
    BY <1>1 DEF IInv, Typed, TypeOK, ClaimsAreHeld
  <2> QED BY <2>1, <2>2, <2>3 DEF OnlyAuthorsDecide, Author
<1> QED BY <1>1, Invariance, PTL

\* Two drafts of one text come from calibrations neither of which saw the other's.
THEOREM DuplicatesOverlapped == Spec => []DuplicatesNeedAnOverlap
<1>1. IInv => DuplicatesNeedAnOverlap
  BY DEF IInv, DuplicatesNeedAnOverlap, SeenAreSkipped, FirstDraft
<1> QED BY <1>1, Invariance, PTL

=============================================================================
