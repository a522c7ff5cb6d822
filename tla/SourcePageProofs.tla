--------------------------- MODULE SourcePageProofs ----------------------------
(***************************************************************************)
(* SourcePage, for any sources and tables and however often the user       *)
(* clicks: when the form that says saved is the stored one, and what takes *)
(* edits away.  The argument: replies are told apart by the panel that     *)
(* asked, one load is under way at most, and a write whose reply is still  *)
(* to come excuses the form until a later load reads what it wrote.  The   *)
(* page loads anew also for a publication of a panel that is gone: what is *)
(* typed while one is under way counts as late.                            *)
(***************************************************************************)
EXTENDS SourcePage, TLAPS

\* What a request carries, there and back.
CallFits(r) ==
    /\ r.kind \in {"save", "calibrate"} => r.body \in Draft
    /\ r.kind = "load" /\ r.reply = "ok" => r.body \in Stored
    /\ r.kind # "overview" => r.reply \in {None, "ok", "failed"}
Typed == TypeOK /\ \A r \in net : CallFits(r)

\* Whose the requests under way are: an overview is the newest of all and nobody
\* else's; the panel's are about its own source, and one of them at most a load.
Addressed ==
    /\ \A r \in net : r.kind = "overview" => panel = None /\ r.n = issued
    /\ \A r \in net : r.kind = "load" => Heard(r)
    /\ \A r \in net : Heard(r) => r.id = panel.id
    /\ \A q, r \in net : q.kind \in {"overview", "load"} /\ r.kind = q.kind => q = r

Loading == \E r \in net : r.kind = "load"
\* A write has been done and the panel is about to hear of it.
Pending == \E r \in net : Heard(r) /\ r.kind \in Writes /\ r.reply = "ok"
Trusted == panel # None /\ ~Pending /\ panel.id \notin surprised

\* What a load brings is stored, and so is a clean form that no load will replace.
LoadsAreCurrent ==
    Trusted => \A r \in net : r.kind = "load" /\ r.reply = "ok" => r.body = stored[panel.id]
FormIsCurrent ==
    Trusted /\ Usable /\ ~panel.dirty /\ ~Loading =>
        /\ panel.form = stored[panel.id].draft
        /\ panel.data.published = stored[panel.id].published

Of(kind) == {r \in net : r.kind = kind /\ Heard(r)}
\* As long as no edit was made while a reply was awaited, what is under way was
\* asked for with the form as it is, or of a form without edits.
EditsAreAwaited ==
    /\ panel = None => ~unsaved
    /\ panel # None /\ ~late =>
         /\ unsaved => panel.dirty
         /\ Loading => ~unsaved /\ ~panel.dirty
         /\ \A r \in Of("save") : ~unsaved /\ (panel.dirty => panel.saving)
         /\ panel.dirty => \A q, r \in Of("save") : q = r
         /\ \A r \in Of("publish") : ~panel.dirty
         /\ \A r \in Of("calibrate") :
              r.body.overview = "" /\ panel.form.overview # "" => ~panel.dirty

\* So is the form while a publication of a panel that is gone, which will load the
\* page anew, is under way.
StraysAreClean ==
    panel # None /\ ~late /\ panel.dirty => \A r \in net : r.kind \in Lifecycles => Heard(r)

IInv ==
    Typed /\ Addressed /\ LoadsAreCurrent /\ FormIsCurrent /\ EditsAreAwaited /\ StraysAreClean

-----------------------------------------------------------------------------
(* Types.                                                                  *)

LEMMA StartIsTyped == Init => Typed
<1> SUFFICES ASSUME Init PROVE Typed
  OBVIOUS
<1>1. PICK s \in Sources : /\ view = [id |-> s, overview |-> None]
                           /\ net = {Request(1, "overview", s, None)}
  BY DEF Init
<1>2. Request(1, "overview", s, None) \in Call /\ CallFits(Request(1, "overview", s, None))
  BY DEF Request, Call, Kinds, CallFits
<1>3. stored \in [Sources -> Stored]
  BY DEF Init
<1>4. Request(1, "overview", s, None).n = 1
  BY DEF Request
<1> DEFINE first == Request(1, "overview", s, None)
<1>5. net = {first} /\ first \in Call /\ CallFits(first) /\ first.n = 1
  BY <1>1, <1>2, <1>4
<1> HIDE DEF first
<1>6. view \in [id : Sources, overview : Sources \cup {None}]
  BY <1>1
<1>7. /\ panel = None /\ issued = 1 /\ clicks = 0 /\ edits = 0
      /\ unsaved = FALSE /\ late = FALSE /\ surprised = {}
  BY DEF Init
<1>8. net \subseteq Call /\ \A r \in net : r.n \in 1..issued /\ CallFits(r)
  BY <1>5, <1>7
<1>9. issued \in Nat /\ clicks \in 0..MaxClicks /\ edits \in 0..MaxEdits
  BY <1>7, PageAssumption
<1>10. /\ panel \in Panel \cup {None} /\ (panel # None => panel.mount \in 1..issued)
       /\ unsaved \in BOOLEAN /\ late \in BOOLEAN /\ surprised \subseteq Sources
  BY <1>7
<1> QED BY <1>3, <1>6, <1>8, <1>9, <1>10 DEF Typed, TypeOK

\* A request as it is sent.
LEMMA SendFits ==
  ASSUME Typed, NEW kind \in Kinds, NEW id \in Sources, NEW body \in Draft \cup {None},
         kind \in {"save", "calibrate"} => body \in Draft,
         NEW rest \in SUBSET net, Send(kind, id, body, rest)
  PROVE  /\ issued' = issued + 1 /\ issued' \in Nat
         /\ net' \subseteq Call
         /\ \A r \in net' : r.n \in 1..issued' /\ CallFits(r)
<1> DEFINE new == Request(issued + 1, kind, id, body)
<1>1. new \in Call /\ new.n = issued + 1 /\ CallFits(new)
  BY PageAssumption DEF Typed, TypeOK, Request, Call, CallFits, Outcomes
<1>2. \A r \in rest : r \in Call /\ r.n \in 1..issued /\ CallFits(r)
  BY DEF Typed, TypeOK
<1>3. issued' = issued + 1 /\ net' = rest \cup {new} /\ issued \in Nat
  BY DEF Send, Typed, TypeOK
<1> HIDE DEF new
<1> QED BY <1>1, <1>2, <1>3

\* A request answered, or fewer of them.
LEMMA AnswerFits ==
  ASSUME Typed, NEW r \in net, NEW s \in Call, s.n = r.n, CallFits(s),
         net' = (net \ {r}) \cup {s}, UNCHANGED issued
  PROVE  net' \subseteq Call /\ \A q \in net' : q.n \in 1..issued' /\ CallFits(q)
BY DEF Typed, TypeOK

LEMMA UserKeepsTypes == Typed /\ User => Typed'
<1> SUFFICES ASSUME Typed, User PROVE Typed'
  OBVIOUS
<1> USE PageAssumption
<1>1. CASE Visit
  <2>1. PICK s \in Sources \ {view.id} : Click /\ LoadView(s, net) /\ UNCHANGED surprised
    BY <1>1 DEF Visit
  <2>2. Send("overview", s, None, Uncancelled(net)) /\ Uncancelled(net) \in SUBSET net
    BY <2>1 DEF LoadView, Uncancelled
  <2>3. "overview" \in Kinds
    BY DEF Kinds
  <2>4. /\ issued' = issued + 1 /\ issued' \in Nat
        /\ net' \subseteq Call
        /\ \A r \in net' : r.n \in 1..issued' /\ CallFits(r)
    BY <2>2, <2>3, SendFits
  <2>5. view' \in [id : Sources, overview : Sources \cup {None}]
    BY <2>1 DEF LoadView, Typed, TypeOK
  <2>6. clicks' \in 0..MaxClicks /\ UNCHANGED <<stored, edits>>
    BY <2>1 DEF Click, Typed, TypeOK
  <2>7. panel' = None /\ unsaved' = FALSE /\ late' = FALSE /\ UNCHANGED surprised
    BY <2>1 DEF LoadView
  <2> QED BY <2>4, <2>5, <2>6, <2>7 DEF Typed, TypeOK
<1>2. CASE Edit
  <2>1. PICK form \in Draft : panel' = [panel EXCEPT !.form = form, !.dirty = TRUE, !.saving = FALSE]
    BY <1>2 DEF Edit
  <2>2. panel \in Panel /\ panel # None /\ edits < MaxEdits /\ edits' = edits + 1
    BY <1>2 DEF Edit, Usable, Typed, TypeOK
  <2>3. panel' \in Panel /\ panel'.mount = panel.mount
    BY <2>1, <2>2 DEF Panel
  <2>4. edits' \in 0..MaxEdits
    BY <2>2 DEF Typed, TypeOK
  <2>5. /\ unsaved' \in BOOLEAN /\ late' \in BOOLEAN
        /\ UNCHANGED <<stored, view, net, issued, clicks, surprised>>
    BY <1>2 DEF Edit, Typed, TypeOK
  <2> QED BY <2>2, <2>3, <2>4, <2>5 DEF Typed, TypeOK
<1>3. ASSUME Usable, Click, NEW kind \in Kinds, NEW body \in Draft \cup {None},
             kind \in {"save", "calibrate"} => body \in Draft,
             Send(kind, panel.id, body, net),
             panel' \in Panel, panel'.mount = panel.mount,
             unsaved' \in BOOLEAN, UNCHANGED <<view, late, surprised>>
      PROVE  Typed'
  <2>1. panel \in Panel /\ panel # None /\ panel.id \in Sources
    BY <1>3 DEF Usable, Typed, TypeOK, Panel
  <2>2. /\ issued' = issued + 1 /\ issued' \in Nat
        /\ net' \subseteq Call
        /\ \A r \in net' : r.n \in 1..issued' /\ CallFits(r)
    BY <1>3, <2>1, SendFits
  <2>3. clicks' \in 0..MaxClicks /\ UNCHANGED <<stored, edits>>
    BY <1>3 DEF Click, Typed, TypeOK
  <2> QED BY <1>3, <2>1, <2>2, <2>3 DEF Typed, TypeOK
<1>4. {"save", "publish", "unpublish", "calibrate"} \subseteq Kinds
  BY DEF Kinds
<1>5. CASE Save
  <2>1. panel \in Panel /\ panel' = [panel EXCEPT !.saving = TRUE]
    BY <1>5 DEF Save, Usable, Typed, TypeOK
  <2>2. panel' \in Panel /\ panel'.mount = panel.mount /\ panel.form \in Draft
    BY <2>1 DEF Panel
  <2> QED BY <1>3, <1>4, <1>5, <2>2 DEF Save
<1>6. CASE SetLifecycle
  <2>1. panel \in Panel /\ panel' = [panel EXCEPT !.busy = TRUE]
    BY <1>6 DEF SetLifecycle, Usable, Typed, TypeOK
  <2>2. panel' \in Panel /\ panel'.mount = panel.mount
    BY <2>1 DEF Panel
  <2>3. unsaved' \in BOOLEAN
    BY <1>6 DEF SetLifecycle, history, Typed, TypeOK
  <2> QED BY <1>3, <1>4, <1>6, <2>2, <2>3 DEF SetLifecycle, history
<1>7. CASE Calibrate
  <2>1. panel \in Panel /\ panel' = [panel EXCEPT !.calibrating = TRUE]
    BY <1>7 DEF Calibrate, Usable, Typed, TypeOK
  <2>2. panel' \in Panel /\ panel'.mount = panel.mount /\ panel.form \in Draft
    BY <2>1 DEF Panel
  <2>3. unsaved' \in BOOLEAN
    BY <1>7 DEF Calibrate, history, Typed, TypeOK
  <2> QED BY <1>3, <1>4, <1>7, <2>2, <2>3 DEF Calibrate, history
<1> QED BY <1>1, <1>2, <1>5, <1>6, <1>7 DEF User

LEMMA ServersKeepTypes ==
  ASSUME Typed, NEW r \in net, Serve(r) \/ Fail(r)
  PROVE  Typed'
<1> USE PageAssumption DEF Lifecycles
<1>1. r \in Call /\ CallFits(r) /\ r.n \in 1..issued /\ r.id \in Sources
  BY DEF Typed, TypeOK, Call
<1>2. /\ UNCHANGED <<view, panel, issued, clicks, edits, unsaved, late>>
      /\ surprised' \subseteq Sources
  BY <1>1 DEF Serve, Fail, Unheard, Typed, TypeOK
<1>3. ASSUME NEW reply \in Outcomes, Reply(r, reply), stored' \in [Sources -> Stored],
             r.kind = "load" => reply # "ok",
             r.kind # "overview" => reply \in {"ok", "failed"}
      PROVE  Typed'
  <2> DEFINE s == [r EXCEPT !.reply = reply]
  <2>1. s \in Call /\ s.n = r.n /\ s.kind = r.kind /\ s.body = r.body /\ s.reply = reply
    BY <1>1 DEF Call
  <2>2. CallFits(s)
    BY <1>1, <1>3, <2>1 DEF CallFits
  <2>3. net' = (net \ {r}) \cup {s}
    BY <1>3 DEF Reply
  <2> HIDE DEF s
  <2>4. net' \subseteq Call /\ \A q \in net' : q.n \in 1..issued' /\ CallFits(q)
    BY <1>2, <2>1, <2>2, <2>3, AnswerFits
  <2> QED BY <1>2, <1>3, <2>4 DEF Typed, TypeOK
<1>4. stored[r.id] \in Stored /\ stored \in [Sources -> Stored]
  BY <1>1 DEF Typed, TypeOK
<1>5. \A o \in {"ok", "shown", "absent", "failed"} : o \in Outcomes
  BY DEF Outcomes
<1>6. CASE Fail(r)
  <2>1. Reply(r, "failed") /\ UNCHANGED stored
    BY <1>6 DEF Fail
  <2> QED BY <1>3, <1>4, <1>5, <2>1
<1>7. CASE Serve(r)
  <2>1. CASE r.kind = "overview" /\ UNCHANGED stored
    <3>1. PICK reply \in {"shown", "absent"} : Reply(r, reply)
      BY <1>7, <2>1 DEF Serve
    <3> QED BY <1>3, <1>4, <1>5, <2>1, <3>1
  <2>2. CASE r.kind = "load"
    <3> DEFINE s == [r EXCEPT !.reply = "ok", !.body = stored[r.id]]
    <3>1. s \in Call /\ s.n = r.n /\ s.kind = "load" /\ s.body = stored[r.id] /\ s.reply = "ok"
      BY <1>1, <1>4, <1>5, <2>2 DEF Call
    <3>2. CallFits(s)
      BY <1>4, <3>1 DEF CallFits
    <3>3. net' = (net \ {r}) \cup {s} /\ UNCHANGED stored
      BY <1>7, <2>2 DEF Serve
    <3> HIDE DEF s
    <3>4. net' \subseteq Call /\ \A q \in net' : q.n \in 1..issued' /\ CallFits(q)
      BY <1>2, <3>1, <3>2, <3>3, AnswerFits
    <3> QED BY <1>2, <3>3, <3>4 DEF Typed, TypeOK
  <2>3. CASE r.kind \in {"save", "publish", "unpublish"}
    <3>1. Reply(r, "ok")
      BY <1>7, <2>3 DEF Serve
    <3>2. stored' \in [Sources -> Stored]
      <4>1. r.kind = "save" => Written(stored[r.id], r.body) \in Stored
        BY <1>1, <1>4 DEF Written, CallFits, Stored
      <4>2. [stored[r.id] EXCEPT !.published = (r.kind = "publish")] \in Stored
        BY <1>4 DEF Stored
      <4> QED BY <1>4, <1>7, <2>3, <4>1, <4>2 DEF Serve
    <3> QED BY <1>3, <1>5, <2>3, <3>1, <3>2
  <2>4. CASE r.kind = "calibrate"
    <3>1. Reply(r, "ok") /\ UNCHANGED stored
      BY <1>7, <2>4 DEF Serve
    <3> QED BY <1>3, <1>4, <1>5, <2>4, <3>1
  <2> QED BY <1>7, <2>1, <2>2, <2>3, <2>4 DEF Serve
<1> QED BY <1>6, <1>7

\* The panel that an overview mounts.
LEMMA OverviewMounts ==
  ASSUME Typed, NEW r \in net, OverviewArrives(r)
  PROVE  \E id \in Sources :
           /\ Send("load", id, None, Rest(r))
           /\ panel' \in Panel /\ panel'.id = id /\ panel'.mount = r.n
           /\ panel'.data = None /\ panel'.dirty = FALSE
           /\ view' \in [id : Sources, overview : Sources \cup {None}]
<1> USE PageAssumption
<1>1. /\ view \in [id : Sources, overview : Sources \cup {None}]
      /\ view.id \in Sources /\ view.overview \in Sources \cup {None}
      /\ r.n \in Nat /\ r.id \in Sources
  BY DEF Typed, TypeOK, Call
<1>2. PICK shown \in {r.id, None, view.overview} :
        LET id == IF shown = None THEN view.id ELSE shown IN
        /\ view' = [view EXCEPT !.overview = shown]
        /\ panel' = [id |-> id, mount |-> r.n, data |-> None,
                     hidden |-> FALSE, form |-> [tables |-> {}, overview |-> ""],
                     dirty |-> FALSE, saving |-> FALSE, saved |-> FALSE,
                     busy |-> FALSE, calibrating |-> FALSE]
        /\ Send("load", id, None, Rest(r))
  BY DEF OverviewArrives
<1>3. PICK id \in Sources : id = IF shown = None THEN view.id ELSE shown
  BY <1>1
<1>4. [tables |-> {}, overview |-> ""] \in Draft
  BY DEF Draft
<1>5. /\ panel' = [id |-> id, mount |-> r.n, data |-> None,
                   hidden |-> FALSE, form |-> [tables |-> {}, overview |-> ""],
                   dirty |-> FALSE, saving |-> FALSE, saved |-> FALSE,
                   busy |-> FALSE, calibrating |-> FALSE]
      /\ Send("load", id, None, Rest(r))
  BY <1>2, <1>3
<1>6. panel' \in Panel
  BY <1>1, <1>4, <1>5 DEF Panel
<1>7. view' \in [id : Sources, overview : Sources \cup {None}]
  BY <1>1, <1>2
<1> QED BY <1>5, <1>6, <1>7

LEMMA RepliesKeepTypes ==
  ASSUME Typed, NEW r \in net, Replies(r)
  PROVE  Typed'
<1> USE PageAssumption
<1>1. /\ r \in Call /\ CallFits(r) /\ r.n \in 1..issued /\ r.id \in Sources
      /\ \A q \in net : q \in Call /\ q.n \in 1..issued /\ CallFits(q)
      /\ stored \in [Sources -> Stored]
      /\ view \in [id : Sources, overview : Sources \cup {None}]
      /\ view.id \in Sources /\ view.overview \in Sources \cup {None}
      /\ issued \in Nat /\ clicks \in 0..MaxClicks /\ edits \in 0..MaxEdits
      /\ surprised \subseteq Sources /\ late \in BOOLEAN /\ unsaved \in BOOLEAN
  BY DEF Typed, TypeOK, Call
<1>2. Arrive(r)
  BY DEF Replies, OverviewArrives, LoadArrives, SaveArrives, LifecycleArrives, CalibrateArrives,
         NobodyListens
<1>3. panel # None => panel \in Panel /\ panel.id \in Sources /\ panel.mount \in 1..issued
  BY DEF Typed, TypeOK, Panel
\* Nothing is asked, and the panel is still the one it was.
<1>4. ASSUME Read(r), panel # None => panel' \in Panel /\ panel'.mount = panel.mount,
             panel = None => panel' = None,
             unsaved' \in BOOLEAN, late' \in BOOLEAN, UNCHANGED <<view, surprised>>
      PROVE  Typed'
  <2>1. net' \subseteq net /\ UNCHANGED <<issued, stored, clicks, edits>>
    BY <1>2, <1>4 DEF Read, Rest, Arrive
  <2> QED BY <1>1, <1>3, <1>4, <2>1 DEF Typed, TypeOK
\* A load or an overview is asked for.
<1>5. ASSUME NEW kind \in {"load", "overview"}, NEW id \in Sources, NEW rest \in SUBSET net,
             Send(kind, id, None, rest),
             panel' = None \/ (panel' \in Panel /\ panel'.mount \in 1..issued),
             view' \in [id : Sources, overview : Sources \cup {None}],
             unsaved' \in BOOLEAN, late' \in BOOLEAN, UNCHANGED surprised
      PROVE  Typed'
  <2>1. kind \in Kinds /\ kind \notin {"save", "calibrate"}
    BY <1>5 DEF Kinds
  <2>2. /\ issued' = issued + 1 /\ issued' \in Nat
        /\ net' \subseteq Call
        /\ \A q \in net' : q.n \in 1..issued' /\ CallFits(q)
    BY <1>5, <2>1, SendFits
  <2>3. panel' # None => panel'.mount \in 1..issued'
    BY <1>1, <1>5, <2>2
  <2>4. UNCHANGED <<stored, clicks, edits>>
    BY <1>2 DEF Arrive
  <2> QED BY <1>1, <1>5, <2>2, <2>3, <2>4 DEF Typed, TypeOK
<1>6. CASE OverviewArrives(r)
  <2>1. PICK id \in Sources :
          /\ Send("load", id, None, Rest(r))
          /\ panel' \in Panel /\ panel'.mount = r.n
          /\ view' \in [id : Sources, overview : Sources \cup {None}]
    BY <1>6, OverviewMounts
  <2>2. Rest(r) \in SUBSET net
    BY DEF Rest
  <2>3. UNCHANGED <<unsaved, late, surprised>>
    BY <1>6 DEF OverviewArrives, history
  <2> QED BY <1>1, <1>5, <2>1, <2>2, <2>3
<1>7. CASE LoadArrives(r)
  <2>1. panel \in Panel /\ panel # None /\ Read(r)
    BY <1>3, <1>7 DEF LoadArrives
  <2>2. panel' \in Panel /\ panel'.mount = panel.mount
    <3>1. CASE r.reply = "failed"
      BY <1>7, <2>1, <3>1 DEF LoadArrives, Panel
    <3>2. CASE r.reply # "failed"
      <4>1. r.body \in Stored /\ r.body.draft \in Draft
        BY <1>1, <1>2, <1>7, <3>2 DEF LoadArrives, CallFits, Arrive, Stored
      <4>2. (panel.saved /\ panel.saving) \in BOOLEAN
        BY <2>1 DEF Panel
      <4>3. panel' = [panel EXCEPT !.hidden = FALSE, !.data = r.body, !.form = r.body.draft,
                        !.dirty = FALSE, !.saved = FALSE, !.saving = panel.saved /\ panel.saving]
        BY <1>7, <2>1, <3>2 DEF LoadArrives, Panel
      <4> QED BY <2>1, <4>1, <4>2, <4>3 DEF Panel
    <3> QED BY <3>1, <3>2
  <2>3. /\ unsaved' \in BOOLEAN /\ late' \in BOOLEAN
        /\ UNCHANGED <<view, surprised>>
    BY <1>1, <1>7 DEF LoadArrives, history
  <2> QED BY <1>4, <2>1, <2>2, <2>3
<1>8. CASE SaveArrives(r)
  <2>1. panel \in Panel /\ panel # None /\ panel.id \in Sources /\ panel.mount \in 1..issued
    BY <1>3, <1>8 DEF SaveArrives, Heard
  <2>2. panel' \in Panel /\ panel'.mount = panel.mount
    BY <1>8, <2>1 DEF SaveArrives, Panel
  <2>3. unsaved' \in BOOLEAN /\ UNCHANGED <<view, late, surprised>>
    BY <1>1, <1>8, <2>1 DEF SaveArrives, Panel
  <2>4. CASE r.reply = "ok"
    <3>1. Send("load", panel.id, None, Uncancelled(Rest(r))) /\ Uncancelled(Rest(r)) \in SUBSET net
      BY <1>8, <2>4 DEF SaveArrives, Uncancelled, Rest
    <3> QED BY <1>1, <1>5, <2>1, <2>2, <2>3, <3>1
  <2>5. CASE r.reply # "ok"
    BY <1>1, <1>4, <1>8, <2>1, <2>2, <2>3, <2>5 DEF SaveArrives
  <2> QED BY <2>4, <2>5
<1>9. CASE LifecycleArrives(r)
  <2>1. CASE r.reply = "ok"
    <3>1. LoadView(view.id, Rest(r)) /\ UNCHANGED surprised
      BY <1>9, <2>1 DEF LifecycleArrives
    <3>2. Send("overview", view.id, None, Uncancelled(Rest(r))) /\ Uncancelled(Rest(r)) \in SUBSET net
      BY <3>1 DEF LoadView, Uncancelled, Rest
    <3>3. view' \in [id : Sources, overview : Sources \cup {None}]
      BY <1>1, <3>1 DEF LoadView
    <3>4. panel' = None /\ unsaved' \in BOOLEAN /\ late' \in BOOLEAN
      BY <3>1 DEF LoadView
    <3> QED BY <1>1, <1>5, <3>1, <3>2, <3>3, <3>4
  <2>2. CASE r.reply # "ok"
    <3>1. panel' = [panel EXCEPT !.busy = FALSE] /\ Read(r) /\ UNCHANGED <<view, unsaved, late, surprised>>
      BY <1>9, <2>2 DEF LifecycleArrives, history
    <3>2. panel \in Panel /\ panel # None
      BY <1>3, <1>9, <2>2 DEF LifecycleArrives, Heard
    <3>3. panel' \in Panel /\ panel'.mount = panel.mount
      BY <3>1, <3>2 DEF Panel
    <3> QED BY <1>1, <1>4, <3>1, <3>2, <3>3
  <2> QED BY <2>1, <2>2
<1>10. CASE CalibrateArrives(r)
  <2>1. panel \in Panel /\ panel # None /\ Read(r)
    BY <1>3, <1>10 DEF CalibrateArrives, Heard
  <2>2. panel' \in Panel /\ panel'.mount = panel.mount
    <3>1. [panel EXCEPT !.calibrating = FALSE] \in Panel
      BY <2>1 DEF Panel
    <3>2. [panel.form EXCEPT !.overview = "drafted"] \in Draft
      BY <2>1 DEF Panel, Draft
    <3>3. [panel EXCEPT !.calibrating = FALSE, !.form.overview = "drafted", !.dirty = TRUE,
                        !.saving = FALSE] \in Panel
      BY <2>1, <3>2 DEF Panel
    <3> QED BY <1>10, <2>1, <3>1, <3>3 DEF CalibrateArrives, Panel
  <2>3. /\ unsaved' \in BOOLEAN /\ late' \in BOOLEAN
        /\ UNCHANGED <<view, surprised>>
    BY <1>1, <1>10 DEF CalibrateArrives, history
  <2> QED BY <1>4, <2>1, <2>2, <2>3
<1>11. CASE NobodyListens(r)
  BY <1>1, <1>3, <1>4, <1>11 DEF NobodyListens, history
<1> QED BY <1>6, <1>7, <1>8, <1>9, <1>10, <1>11 DEF Replies

LEMMA Typing == Typed /\ [Next]_vars => Typed'
<1>1. Typed /\ UNCHANGED vars => Typed'
  BY DEF Typed, TypeOK, vars, history
<1> QED BY <1>1, UserKeepsTypes, ServersKeepTypes, RepliesKeepTypes DEF Next

-----------------------------------------------------------------------------
(* The user's steps.                                                       *)

Steady == Addressed /\ LoadsAreCurrent /\ FormIsCurrent /\ EditsAreAwaited

\* The panel stays, with what it shows.
SamePanel ==
    /\ panel # None /\ panel' # None /\ panel' \in Panel
    /\ panel'.id = panel.id /\ panel'.mount = panel.mount
SameForm ==
    /\ SamePanel /\ UNCHANGED stored
    /\ panel'.data = panel.data /\ panel'.hidden = panel.hidden
    /\ panel'.form = panel.form /\ panel'.dirty = panel.dirty

LEMMA MountedOne == ASSUME Typed, panel # None PROVE panel \in Panel
BY DEF Typed, TypeOK

LEMMA SentOne ==
  ASSUME NEW kind \in Kinds, NEW id, NEW body, NEW rest, Send(kind, id, body, rest)
  PROVE  \E new : /\ net' = rest \cup {new} /\ issued' = issued + 1
                  /\ new.n = issued + 1 /\ new.kind = kind /\ new.id = id
                  /\ new.body = body /\ new.reply = None
<1> WITNESS Request(issued + 1, kind, id, body)
<1> QED BY DEF Send, Request

\* Leaving the page, or loading it anew.
LEMMA LoadingAnewIsSteady ==
  ASSUME IInv, NEW id, NEW rest \in SUBSET net, LoadView(id, rest)
  PROVE  Steady'
<1>1. PICK new : /\ net' = Uncancelled(rest) \cup {new} /\ issued' = issued + 1
                 /\ new.n = issued + 1 /\ new.kind = "overview"
  <2>1. "overview" \in Kinds
    BY DEF Kinds
  <2> QED BY <2>1, SentOne DEF LoadView
<1>2. panel' = None /\ unsaved' = FALSE
  BY DEF LoadView
<1>3. \A r \in net' : r = new \/ r.kind \notin {"overview", "load"}
  BY <1>1 DEF Uncancelled
<1>4. Addressed'
  BY <1>1, <1>2, <1>3 DEF Addressed, Heard
<1> QED BY <1>2, <1>4 DEF Steady, LoadsAreCurrent, FormIsCurrent, Trusted, EditsAreAwaited

LEMMA EditIsSteady == ASSUME IInv, Edit PROVE Steady'
<1> USE PageAssumption
<1>1. PICK form \in Draft : panel' = [panel EXCEPT !.form = form, !.dirty = TRUE, !.saving = FALSE]
  BY DEF Edit
<1>2. panel \in Panel /\ panel # None /\ UNCHANGED <<stored, net, issued, surprised>>
  BY MountedOne DEF Edit, Usable, IInv
<1>3. SamePanel /\ panel'.dirty = TRUE /\ panel'.data = panel.data
  BY <1>1, <1>2 DEF SamePanel, Panel
<1>4. \A r : Heard(r)' <=> Heard(r)
  BY <1>3 DEF Heard, SamePanel
<1>5. Addressed'
  BY <1>2, <1>3, <1>4 DEF IInv, Addressed, SamePanel
<1>6. LoadsAreCurrent'
  BY <1>2, <1>3, <1>4 DEF IInv, LoadsAreCurrent, Trusted, Pending, SamePanel
<1>7. FormIsCurrent'
  BY <1>3 DEF FormIsCurrent
<1>8. ASSUME ~late' PROVE \A r \in net : ~Heard(r)
  BY <1>8 DEF Edit, Awaiting
<1>9. EditsAreAwaited'
  <2>1. ASSUME ~late' PROVE ~Loading' /\ \A kind : Of(kind)' = {}
    BY <1>2, <1>4, <1>8, <2>1 DEF IInv, Addressed, Loading, Of
  <2> QED BY <1>3, <2>1 DEF EditsAreAwaited, SamePanel
<1> QED BY <1>5, <1>6, <1>7, <1>9 DEF Steady

\* A request of the panel's own.
LEMMA AskingIsSteady ==
  ASSUME IInv, NEW kind \in {"save", "publish", "unpublish", "calibrate"}, NEW body,
         Send(kind, panel.id, body, net), SameForm, UNCHANGED <<late, surprised>>,
         unsaved' => unsaved,
         kind = "save" => ~unsaved' /\ panel'.saving = TRUE /\ ~panel.saving,
         kind # "save" => panel'.saving = panel.saving,
         kind = "publish" => ~panel.dirty,
         kind = "calibrate" => body = panel.form
  PROVE  Steady'
<1> USE PageAssumption
<1>1. PICK new : /\ net' = net \cup {new} /\ issued' = issued + 1
                 /\ new.n = issued + 1 /\ new.kind = kind /\ new.id = panel.id
                 /\ new.body = body /\ new.reply = None
  <2>1. kind \in Kinds
    BY DEF Kinds
  <2> QED BY <2>1, SentOne
<1>2. None # "ok"
  BY DEF Outcomes
<1>3. \A r : Heard(r)' <=> Heard(r)
  BY DEF Heard, SameForm, SamePanel
<1>4. (Loading' <=> Loading) /\ (Pending' <=> Pending)
  BY <1>1, <1>2, <1>3 DEF Loading, Pending
<1>5. Addressed'
  BY <1>1, <1>3 DEF IInv, Addressed, SameForm, SamePanel
<1>6. LoadsAreCurrent'
  BY <1>1, <1>4 DEF IInv, LoadsAreCurrent, Trusted, SameForm, SamePanel
<1>7. FormIsCurrent'
  BY <1>4 DEF IInv, FormIsCurrent, Trusted, Usable, SameForm, SamePanel
<1>8. \A r \in net' : r \in net \/ r = new
  BY <1>1
<1>9. EditsAreAwaited'
  <2> SUFFICES ASSUME ~late
               PROVE  /\ unsaved' => panel'.dirty
                      /\ Loading' => ~unsaved' /\ ~panel'.dirty
                      /\ \A r \in Of("save")' : ~unsaved' /\ (panel'.dirty => panel'.saving)
                      /\ panel'.dirty => \A q, r \in Of("save")' : q = r
                      /\ \A r \in Of("publish")' : ~panel'.dirty
                      /\ \A r \in Of("calibrate")' :
                           r.body.overview = "" /\ panel'.form.overview # "" => ~panel'.dirty
    BY DEF EditsAreAwaited, SameForm, SamePanel
  <2>1. /\ unsaved => panel.dirty
        /\ Loading => ~unsaved /\ ~panel.dirty
        /\ \A r \in Of("save") : ~unsaved /\ (panel.dirty => panel.saving)
        /\ panel.dirty => \A q, r \in Of("save") : q = r
        /\ \A r \in Of("publish") : ~panel.dirty
        /\ \A r \in Of("calibrate") :
             r.body.overview = "" /\ panel.form.overview # "" => ~panel.dirty
    BY DEF IInv, EditsAreAwaited, SameForm, SamePanel
  <2>2. \A k : Of(k)' \subseteq Of(k) \cup (IF k = kind THEN {new} ELSE {})
    BY <1>1, <1>3 DEF Of
  <2>3. panel'.dirty = panel.dirty /\ panel'.form = panel.form
    BY DEF SameForm
  <2> QED BY <1>1, <1>4, <2>1, <2>2, <2>3
<1> QED BY <1>5, <1>6, <1>7, <1>9 DEF Steady

LEMMA UserIsSteady == ASSUME IInv, User PROVE Steady'
<1> USE PageAssumption
<1>1. CASE Visit
  <2>1. PICK s \in Sources \ {view.id} : LoadView(s, net)
    BY <1>1 DEF Visit
  <2> QED BY <2>1, LoadingAnewIsSteady
<1>2. CASE Save
  <2>1. panel \in Panel /\ panel # None
    BY <1>2, MountedOne DEF Save, Usable, IInv
  <2>2. SameForm /\ panel'.saving = TRUE
    BY <1>2, <2>1 DEF Save, Click, SameForm, SamePanel, Panel
  <2>3. /\ Send("save", panel.id, panel.form, net)
        /\ ~unsaved' /\ ~panel.saving /\ UNCHANGED <<late, surprised>>
    BY <1>2 DEF Save
  <2> QED BY <2>2, <2>3, AskingIsSteady
<1>3. CASE SetLifecycle
  <2>1. panel \in Panel /\ panel # None
    BY <1>3, MountedOne DEF SetLifecycle, Usable, IInv
  <2>2. SameForm /\ panel'.saving = panel.saving
    BY <1>3, <2>1 DEF SetLifecycle, Click, SameForm, SamePanel, Panel
  <2>3. \/ Send("publish", panel.id, None, net) /\ ~panel.dirty
        \/ Send("unpublish", panel.id, None, net)
    BY <1>3 DEF SetLifecycle, MayPublish
  <2>4. UNCHANGED <<unsaved, late, surprised>>
    BY <1>3 DEF SetLifecycle, history
  <2> QED BY <2>2, <2>3, <2>4, AskingIsSteady
<1>4. CASE Calibrate
  <2>1. panel \in Panel /\ panel # None
    BY <1>4, MountedOne DEF Calibrate, Usable, IInv
  <2>2. SameForm /\ panel'.saving = panel.saving
    BY <1>4, <2>1 DEF Calibrate, Click, SameForm, SamePanel, Panel
  <2>3. Send("calibrate", panel.id, panel.form, net) /\ UNCHANGED <<unsaved, late, surprised>>
    BY <1>4 DEF Calibrate, history
  <2> QED BY <2>2, <2>3, AskingIsSteady
<1> QED BY <1>1, <1>2, <1>3, <1>4, EditIsSteady DEF User

-----------------------------------------------------------------------------
(* Serving, failing and answering.                                         *)

\* A request is answered with s.
Answered(r, s) ==
    /\ net' = (net \ {r}) \cup {s} /\ UNCHANGED <<panel, issued, unsaved, late>>
    /\ s.n = r.n /\ s.kind = r.kind /\ s.id = r.id

LEMMA AnsweringIsSteady ==
  ASSUME IInv, NEW r \in net, NEW s, Answered(r, s),
         r.kind = "calibrate" => s.body = r.body
  PROVE  /\ Addressed' /\ EditsAreAwaited'
         /\ Loading' <=> Loading
         /\ \A q : Heard(q)' <=> Heard(q)
         /\ Heard(s) <=> Heard(r)
<1>1. (\A q : Heard(q)' <=> Heard(q)) /\ (Heard(s) <=> Heard(r))
  BY DEF Answered, Heard
<1>2. Loading' <=> Loading
  BY DEF Answered, Loading
<1>3. Addressed'
  BY <1>1 DEF IInv, Addressed, Answered
<1>4. EditsAreAwaited'
  <2>1. \A k : \A q \in Of(k)' : q \in Of(k) \/ (q = s /\ r \in Of(k))
    BY <1>1 DEF Of, Answered
  <2>2. \A k : \A q \in Of(k)' \ {s} : q # r
    BY DEF Of, Answered
  <2>3. UNCHANGED <<panel, unsaved, late>>
    BY DEF Answered
  <2>4. s.kind = r.kind
    BY DEF Answered
  <2> SUFFICES ASSUME panel # None, ~late
               PROVE  /\ unsaved => panel.dirty
                      /\ Loading' => ~unsaved /\ ~panel.dirty
                      /\ \A q \in Of("save")' : ~unsaved /\ (panel.dirty => panel.saving)
                      /\ panel.dirty => \A p, q \in Of("save")' : p = q
                      /\ \A q \in Of("publish")' : ~panel.dirty
                      /\ \A q \in Of("calibrate")' :
                           q.body.overview = "" /\ panel.form.overview # "" => ~panel.dirty
    BY <2>3 DEF IInv, EditsAreAwaited
  <2>5. /\ unsaved => panel.dirty
        /\ Loading => ~unsaved /\ ~panel.dirty
        /\ \A q \in Of("save") : ~unsaved /\ (panel.dirty => panel.saving)
        /\ panel.dirty => \A p, q \in Of("save") : p = q
        /\ \A q \in Of("publish") : ~panel.dirty
        /\ \A q \in Of("calibrate") :
             q.body.overview = "" /\ panel.form.overview # "" => ~panel.dirty
    BY DEF IInv, EditsAreAwaited
  <2>6. r \in Of("calibrate") => s.body = r.body
    BY DEF Of
  <2>7. panel.dirty => \A p, q \in Of("save")' : p = q
    <3>1. ASSUME panel.dirty, NEW p \in Of("save")', NEW q \in Of("save")', p # q PROVE FALSE
      <4>1. CASE p = s
        BY <2>1, <2>2, <2>5, <3>1, <4>1
      <4>2. CASE p # s
        BY <2>1, <2>2, <2>5, <3>1, <4>2
      <4> QED BY <4>1, <4>2
    <3> QED BY <3>1
  <2> QED BY <1>2, <2>1, <2>5, <2>6, <2>7
<1> QED BY <1>1, <1>2, <1>3, <1>4

LEMMA FailingIsSteady == ASSUME IInv, NEW r \in net, Fail(r) PROVE Steady'
<1>1. r \in Call
  BY DEF IInv, Typed, TypeOK
<1>2. PICK s : s = [r EXCEPT !.reply = "failed"]
  OBVIOUS
<1>3. Answered(r, s) /\ s.reply = "failed" /\ s.body = r.body
  BY <1>1, <1>2 DEF Fail, Reply, Answered, Call
<1>4. /\ Addressed' /\ EditsAreAwaited' /\ (Loading' <=> Loading)
      /\ \A q : Heard(q)' <=> Heard(q)
  BY <1>3, AnsweringIsSteady
<1>5. Trusted' => Trusted /\ stored' = stored /\ panel' = panel
  <2> SUFFICES ASSUME Trusted' PROVE Trusted
    BY <1>3 DEF Fail, Answered
  <2>1. panel # None /\ panel.id \notin surprised
    BY <1>3 DEF Trusted, Answered, Fail
  <2>2. ASSUME NEW q \in net, Heard(q), q.kind \in Writes, q.reply = "ok" PROVE FALSE
    <3>1. CASE q = r
      <4>1. surprised' = surprised \cup {r.id} /\ r.id = panel.id
        BY <2>2, <3>1 DEF Fail, IInv, Addressed
      <4> QED BY <1>3, <4>1 DEF Trusted, Answered
    <3>2. CASE q # r
      BY <1>3, <1>4, <2>2, <3>2 DEF Trusted, Pending, Answered
    <3> QED BY <3>1, <3>2
  <2> QED BY <2>1, <2>2 DEF Trusted, Pending
<1>6. LoadsAreCurrent'
  BY <1>3, <1>5 DEF IInv, LoadsAreCurrent, Answered
<1>7. FormIsCurrent'
  BY <1>4, <1>5 DEF IInv, FormIsCurrent, Usable
<1> QED BY <1>4, <1>6, <1>7 DEF Steady

LEMMA ServingIsSteady == ASSUME IInv, NEW r \in net, Serve(r) PROVE Steady'
<1> USE PageAssumption DEF Lifecycles
<1>1. r \in Call /\ r.id \in Sources /\ r.reply = None /\ None # "ok" /\ stored \in [Sources -> Stored]
  BY DEF IInv, Typed, TypeOK, Call, Outcomes, Serve
<1>2. UNCHANGED <<panel, issued, unsaved, late>>
  BY DEF Serve
<1>3. CASE r.kind \in {"overview", "calibrate"}
  <2>1. PICK reply : Reply(r, reply) /\ UNCHANGED <<stored, surprised>>
    BY <1>3 DEF Serve
  <2>2. PICK s : s = [r EXCEPT !.reply = reply]
    OBVIOUS
  <2>3. Answered(r, s) /\ s.body = r.body
    BY <1>1, <1>2, <2>1, <2>2 DEF Reply, Answered, Call
  <2>4. /\ Addressed' /\ EditsAreAwaited' /\ (Loading' <=> Loading)
        /\ \A q : Heard(q)' <=> Heard(q)
    BY <2>3, AnsweringIsSteady
  <2>5. Trusted' => Trusted
    BY <1>2, <1>3, <2>1, <2>3, <2>4 DEF Trusted, Pending, Answered, Writes
  <2>6. LoadsAreCurrent'
    BY <1>2, <1>3, <2>1, <2>3, <2>5 DEF IInv, LoadsAreCurrent, Answered
  <2>7. FormIsCurrent'
    BY <1>2, <2>1, <2>4, <2>5 DEF IInv, FormIsCurrent, Usable
  <2> QED BY <2>4, <2>6, <2>7 DEF Steady
<1>4. CASE r.kind = "load"
  <2>1. PICK s : s = [r EXCEPT !.reply = "ok", !.body = stored[r.id]]
    OBVIOUS
  <2>2. Answered(r, s) /\ s.body = stored[r.id] /\ UNCHANGED stored
    BY <1>1, <1>2, <1>4, <2>1 DEF Serve, Answered, Call
  <2>3. Addressed' /\ EditsAreAwaited' /\ (Loading' <=> Loading)
    BY <1>4, <2>2, AnsweringIsSteady
  <2>4. r.id = panel.id /\ \A q \in net' : q.kind = "load" => q = s
    BY <1>4, <2>2 DEF IInv, Addressed, Answered
  <2>5. LoadsAreCurrent'
    BY <1>2, <2>2, <2>4 DEF LoadsAreCurrent
  <2>6. FormIsCurrent'
    BY <1>4, <2>3 DEF FormIsCurrent, Loading
  <2> QED BY <2>3, <2>5, <2>6 DEF Steady
<1>5. CASE r.kind \in Writes
  <2>1. Reply(r, "ok") /\ surprised' = surprised \cup Unheard(r)
    BY <1>5 DEF Serve, Writes
  <2>2. PICK s : s = [r EXCEPT !.reply = "ok"]
    OBVIOUS
  <2>3. Answered(r, s) /\ s.reply = "ok"
    BY <1>1, <1>2, <2>1, <2>2 DEF Reply, Answered, Call
  <2>4. /\ Addressed' /\ EditsAreAwaited' /\ (Loading' <=> Loading)
        /\ (\A q : Heard(q)' <=> Heard(q)) /\ (Heard(s) <=> Heard(r))
    BY <1>5, <2>3, AnsweringIsSteady DEF Writes
  <2>5. Trusted' => Trusted /\ stored'[panel.id] = stored[panel.id]
    <3> SUFFICES ASSUME Trusted' PROVE Trusted /\ stored'[panel.id] = stored[panel.id]
      OBVIOUS
    <3>1. ~Heard(r)
      BY <1>5, <2>3, <2>4 DEF Trusted, Pending, Answered
    <3>2. panel # None /\ panel.id \notin surprised /\ panel.id # r.id
      BY <1>2, <2>1, <3>1 DEF Trusted, Unheard
    <3>3. ~Pending
      BY <1>1, <2>3, <2>4 DEF Trusted, Pending, Answered
    <3>4. stored'[panel.id] = stored[panel.id]
      <4>1. panel.id \in Sources
        BY <3>2, MountedOne DEF IInv, Panel
      <4> QED BY <1>1, <1>5, <3>2, <4>1 DEF Serve, Writes
    <3> QED BY <3>2, <3>3, <3>4 DEF Trusted
  <2>6. LoadsAreCurrent'
    BY <1>2, <1>5, <2>3, <2>5 DEF IInv, LoadsAreCurrent, Answered, Writes
  <2>7. FormIsCurrent'
    BY <1>2, <2>4, <2>5 DEF IInv, FormIsCurrent, Usable
  <2> QED BY <2>4, <2>6, <2>7 DEF Steady
<1> QED BY <1>1, <1>3, <1>4, <1>5 DEF Call, Kinds, Writes

-----------------------------------------------------------------------------
(* Replies.                                                                *)

\* A reply that leaves the form alone, taken from the network.
LEMMA TakingIsSteady ==
  ASSUME IInv, NEW r \in net, Read(r), UNCHANGED <<stored, surprised>>,
         SameForm \/ UNCHANGED panel,
         r.kind \in Writes /\ r.reply = "ok" => ~Heard(r),
         r.kind # "load"
  PROVE  Addressed' /\ LoadsAreCurrent' /\ FormIsCurrent' /\ \A q : Heard(q)' <=> Heard(q)
<1>1. net' = net \ {r} /\ UNCHANGED issued
  BY DEF Read, Rest
<1>2. \A q : Heard(q)' <=> Heard(q)
  BY DEF Heard, SameForm, SamePanel
<1>3. (panel # None <=> panel' # None) /\ (panel # None => panel'.id = panel.id)
  BY DEF SameForm, SamePanel
<1>4. Addressed'
  BY <1>1, <1>2, <1>3 DEF IInv, Addressed
<1>5. (Loading' <=> Loading) /\ (Pending' <=> Pending)
  BY <1>1, <1>2 DEF Loading, Pending
<1>6. Trusted' => Trusted
  BY <1>3, <1>5 DEF Trusted
<1>7. LoadsAreCurrent'
  BY <1>1, <1>3, <1>6 DEF IInv, LoadsAreCurrent, Trusted
<1>8. FormIsCurrent'
  BY <1>3, <1>5, <1>6 DEF IInv, FormIsCurrent, Trusted, Usable, SameForm
<1> QED BY <1>2, <1>4, <1>7, <1>8

\* What was awaited still is, with fewer requests under way.
LEMMA EditsStayAwaited ==
  ASSUME IInv, NEW r \in net, net' = net \ {r}, SamePanel,
         panel'.form = panel.form, panel'.dirty = panel.dirty, panel'.saving = panel.saving,
         UNCHANGED <<unsaved, late>>
  PROVE  EditsAreAwaited'
<1>1. \A k : Of(k)' \subseteq Of(k)
  BY DEF Of, Heard, SamePanel
<1>2. Loading' => Loading
  BY DEF Loading
<1>3. panel # None /\ panel' # None
  BY DEF SamePanel
<1>4. EditsAreAwaited
  BY DEF IInv
<1> QED BY <1>1, <1>2, <1>3, <1>4 DEF EditsAreAwaited

LEMMA OverviewIsSteady == ASSUME IInv, NEW r \in net, OverviewArrives(r) PROVE Steady'
<1> USE PageAssumption
<1>1. r.kind = "overview" /\ panel = None /\ r.n = issued /\ None # "ok"
  BY DEF OverviewArrives, IInv, Addressed, Outcomes
<1>2. PICK id \in Sources :
        /\ Send("load", id, None, Rest(r))
        /\ panel' \in Panel /\ panel'.id = id /\ panel'.mount = r.n
        /\ panel'.data = None /\ panel'.dirty = FALSE
  BY OverviewMounts DEF IInv
<1>3. PICK new : /\ net' = Rest(r) \cup {new} /\ issued' = issued + 1
                 /\ new.n = issued + 1 /\ new.kind = "load" /\ new.id = id /\ new.reply = None
  <2>1. "load" \in Kinds
    BY DEF Kinds
  <2>2. Send("load", id, None, Rest(r))
    BY <1>2
  <2> QED BY ONLY <2>1, <2>2, SentOne
<1>4. /\ panel'.mount = issued /\ UNCHANGED <<unsaved, late, surprised>>
  BY <1>1, <1>2 DEF OverviewArrives, history
<1>5. issued \in Nat /\ \A q \in net : q.n \in 1..issued
  BY DEF IInv, Typed, TypeOK
<1>6. \A q \in Rest(r) : q.kind \notin {"overview", "load"} /\ ~Heard(q)'
  <2>1. \A q \in Rest(r) : q.n <= issued /\ ~Heard(q)'
    BY <1>4, <1>5 DEF Rest, Heard
  <2>2. \A q \in Rest(r) : q \in net /\ q # r /\ ~Heard(q)
    BY <1>1 DEF Rest, Heard
  <2> QED BY <1>1, <2>1, <2>2 DEF IInv, Addressed
<1>7. panel' # None
  BY <1>2
<1>8. Heard(new)'
  BY <1>3, <1>4, <1>5, <1>7 DEF Heard
<1>9. \A q \in net' : q \in Rest(r) \/ q = new
  BY <1>3
<1>10. Addressed'
  BY <1>2, <1>3, <1>4, <1>6, <1>8, <1>9 DEF Addressed
<1>11. LoadsAreCurrent'
  BY <1>1, <1>3, <1>6, <1>9 DEF LoadsAreCurrent
<1>12. FormIsCurrent'
  BY <1>2 DEF FormIsCurrent, Usable
<1>13. EditsAreAwaited'
  <2>1. ~unsaved'
    BY <1>1, <1>4 DEF IInv, EditsAreAwaited
  <2> QED BY <1>2, <1>7, <2>1 DEF EditsAreAwaited
<1> QED BY <1>10, <1>11, <1>12, <1>13 DEF Steady

LEMMA LoadIsSteady == ASSUME IInv, NEW r \in net, LoadArrives(r) PROVE Steady'
<1> USE PageAssumption
<1>1. /\ r.kind = "load" /\ panel # None /\ panel \in Panel
      /\ net' = net \ {r} /\ UNCHANGED <<issued, stored, surprised>>
  BY MountedOne DEF LoadArrives, Arrive, Read, Rest, IInv, history
<1>2. r \in Call /\ CallFits(r)
  BY DEF IInv, Typed, TypeOK
<1>3. \A q \in net' : q.kind # "load"
  BY <1>1 DEF IInv, Addressed
<1>4. CASE r.reply = "failed"
  <2>1. panel' = [panel EXCEPT !.hidden = TRUE] /\ UNCHANGED <<unsaved, late>>
    BY <1>4 DEF LoadArrives, history
  <2>2. /\ SamePanel /\ panel'.hidden = TRUE
        /\ panel'.form = panel.form /\ panel'.dirty = panel.dirty /\ panel'.saving = panel.saving
    BY <1>1, <2>1 DEF SamePanel, Panel
  <2>3. \A q : Heard(q)' <=> Heard(q)
    BY <2>2 DEF Heard, SamePanel
  <2>4. Addressed'
    BY <1>1, <2>2, <2>3 DEF IInv, Addressed, SamePanel
  <2>5. LoadsAreCurrent' /\ FormIsCurrent'
    BY <1>3, <2>2 DEF LoadsAreCurrent, FormIsCurrent, Usable
  <2>6. EditsAreAwaited'
    BY <1>1, <2>1, <2>2, EditsStayAwaited
  <2> QED BY <2>4, <2>5, <2>6 DEF Steady
<1>5. CASE r.reply # "failed"
  <2>1. r.reply = "ok" /\ r.body \in Stored /\ r.body.draft \in Draft
    BY <1>1, <1>2, <1>5 DEF LoadArrives, Arrive, CallFits, Stored
  <2>2. /\ panel' = [panel EXCEPT !.hidden = FALSE, !.data = r.body, !.form = r.body.draft,
                        !.dirty = FALSE, !.saved = FALSE, !.saving = panel.saved /\ panel.saving]
        /\ unsaved' = FALSE
    BY <1>1, <1>5 DEF LoadArrives, Panel
  <2>3. (panel.saved /\ panel.saving) \in BOOLEAN
    BY <1>1 DEF Panel
  <2>4. panel' \in Panel
    BY <1>1, <2>1, <2>2, <2>3 DEF Panel
  <2>5. /\ SamePanel /\ panel'.data = r.body /\ panel'.form = r.body.draft
        /\ panel'.dirty = FALSE
    BY <1>1, <2>2, <2>4 DEF SamePanel, Panel
  <2>6. \A q : Heard(q)' <=> Heard(q)
    BY <2>5 DEF Heard, SamePanel
  <2>7. Addressed'
    BY <1>1, <2>5, <2>6 DEF IInv, Addressed, SamePanel
  <2>8. LoadsAreCurrent'
    BY <1>3 DEF LoadsAreCurrent
  <2>9. Pending' <=> Pending
    BY <1>1, <2>6 DEF Pending, Writes
  <2>10. Trusted' => r.body = stored'[panel'.id]
    BY <1>1, <2>1, <2>5, <2>9 DEF IInv, LoadsAreCurrent, Trusted, SamePanel
  <2>11. FormIsCurrent'
    BY <2>5, <2>10 DEF FormIsCurrent
  <2>12. EditsAreAwaited'
    BY <2>2, <2>5 DEF EditsAreAwaited, SamePanel
  <2> QED BY <2>7, <2>8, <2>11, <2>12 DEF Steady
<1> QED BY <1>4, <1>5

LEMMA SaveReplyIsSteady == ASSUME IInv, NEW r \in net, SaveArrives(r) PROVE Steady'
<1> USE PageAssumption
<1>1. /\ r.kind = "save" /\ Heard(r) /\ panel # None /\ panel \in Panel
      /\ UNCHANGED <<stored, surprised, late>>
  BY MountedOne DEF SaveArrives, Arrive, Heard, IInv
<1>2. r \in Of("save")
  BY <1>1 DEF Of
<1>3. CASE r.reply = "ok"
  <2>1. PICK new : /\ net' = Uncancelled(Rest(r)) \cup {new} /\ issued' = issued + 1
                   /\ new.n = issued + 1 /\ new.kind = "load" /\ new.id = panel.id
                   /\ new.reply = None
    <3>1. "load" \in Kinds
      BY DEF Kinds
    <3> QED BY <1>3, <3>1, SentOne DEF SaveArrives
  <2>2. SamePanel /\ panel'.dirty = FALSE /\ UNCHANGED unsaved
    <3>1. /\ panel' = [panel EXCEPT !.saving = FALSE, !.dirty = FALSE, !.saved = TRUE]
          /\ UNCHANGED unsaved
      BY <1>3 DEF SaveArrives
    <3> QED BY <1>1, <3>1 DEF SamePanel, Panel
  <2>3. \A q : Heard(q)' <=> Heard(q)
    BY <2>2 DEF Heard, SamePanel
  <2>4. \A q \in net' : q = new \/ (q \in net /\ q.kind \notin {"overview", "load"})
    BY <2>1 DEF Uncancelled, Rest
  <2>5. Heard(new)
    <3>1. panel.mount \in 1..issued /\ issued \in Nat
      BY <1>1 DEF IInv, Typed, TypeOK
    <3> QED BY <1>1, <2>1, <3>1 DEF Heard
  <2>6. Addressed'
    BY <2>1, <2>2, <2>3, <2>4, <2>5 DEF IInv, Addressed, SamePanel
  <2>7. LoadsAreCurrent'
    BY <2>1, <2>4 DEF LoadsAreCurrent, Outcomes
  <2>8. FormIsCurrent'
    BY <2>1 DEF FormIsCurrent, Loading
  <2>9. EditsAreAwaited'
    <3>1. ~late => ~unsaved
      BY <1>1, <1>2 DEF IInv, EditsAreAwaited
    <3> QED BY <1>1, <2>2, <3>1 DEF EditsAreAwaited, SamePanel
  <2> QED BY <2>6, <2>7, <2>8, <2>9 DEF Steady
<1>4. CASE r.reply # "ok"
  <2>1. panel' = [panel EXCEPT !.saving = FALSE] /\ Read(r) /\ unsaved' = panel.dirty
    BY <1>4 DEF SaveArrives
  <2>2. SameForm
    BY <1>1, <2>1 DEF SameForm, SamePanel, Panel
  <2>3. /\ Addressed' /\ LoadsAreCurrent' /\ FormIsCurrent' /\ (\A q : Heard(q)' <=> Heard(q))
    BY <1>1, <1>4, <2>1, <2>2, TakingIsSteady
  <2>4. EditsAreAwaited'
    <3>1. \A k : Of(k)' \subseteq Of(k) /\ \A q \in Of(k)' : q # r
      BY <2>1, <2>3 DEF Of, Read, Rest
    <3>2. Loading' => Loading
      BY <2>1 DEF Read, Rest, Loading
    <3>3. ~late /\ panel.dirty => \A q \in Of("save") : q = r
      BY <1>1, <1>2 DEF IInv, EditsAreAwaited
    <3>4. panel'.dirty = panel.dirty /\ panel'.form = panel.form /\ panel' # None
      BY <2>2 DEF SameForm, SamePanel
    <3>5. EditsAreAwaited
      BY DEF IInv
    <3>6. ~late /\ panel.dirty => Of("save")' = {}
      BY <3>1, <3>3
    <3>7. ~late => (Loading' => ~panel.dirty) /\ (\A q \in Of("publish")' : ~panel.dirty)
                   /\ \A q \in Of("calibrate")' :
                        q.body.overview = "" /\ panel.form.overview # "" => ~panel.dirty
      BY <1>1, <3>1, <3>2, <3>5 DEF EditsAreAwaited
    <3> QED BY <1>1, <2>1, <3>4, <3>6, <3>7 DEF EditsAreAwaited
  <2> QED BY <2>3, <2>4 DEF Steady
<1> QED BY <1>3, <1>4

LEMMA LifecycleReplyIsSteady == ASSUME IInv, NEW r \in net, LifecycleArrives(r) PROVE Steady'
<1> USE PageAssumption
<1>1. CASE r.reply = "ok"
  <2>1. LoadView(view.id, Rest(r)) /\ Rest(r) \in SUBSET net
    BY <1>1 DEF LifecycleArrives, Rest
  <2> QED BY <2>1, LoadingAnewIsSteady
<1>2. CASE r.reply # "ok"
  <2>1. /\ panel # None /\ panel \in Panel /\ UNCHANGED stored
        /\ r.kind \notin {"overview", "load"}
    BY <1>2, MountedOne DEF LifecycleArrives, Arrive, Heard, IInv, Lifecycles
  <2>2. /\ panel' = [panel EXCEPT !.busy = FALSE] /\ Read(r)
        /\ UNCHANGED <<unsaved, late, surprised>>
    BY <1>2 DEF LifecycleArrives, history
  <2>3. SameForm /\ panel'.saving = panel.saving
    BY <2>1, <2>2 DEF SameForm, SamePanel, Panel
  <2>4. Addressed' /\ LoadsAreCurrent' /\ FormIsCurrent'
    BY <1>2, <2>1, <2>2, <2>3, TakingIsSteady
  <2>5. EditsAreAwaited'
    BY <2>2, <2>3, EditsStayAwaited DEF SameForm, Read, Rest
  <2> QED BY <2>4, <2>5 DEF Steady
<1> QED BY <1>1, <1>2

LEMMA CalibrationIsSteady == ASSUME IInv, NEW r \in net, CalibrateArrives(r) PROVE Steady'
<1> USE PageAssumption
<1>1. /\ r.kind = "calibrate" /\ panel # None /\ panel \in Panel /\ UNCHANGED <<stored, surprised>>
      /\ Read(r) /\ net' = net \ {r} /\ UNCHANGED issued
  BY MountedOne DEF CalibrateArrives, Arrive, Heard, IInv, Read, Rest, history
<1>2. CASE panel' = [panel EXCEPT !.calibrating = FALSE] /\ UNCHANGED history
  <2>1. SameForm /\ panel'.saving = panel.saving
    BY <1>1, <1>2 DEF SameForm, SamePanel, Panel
  <2>2. Addressed' /\ LoadsAreCurrent' /\ FormIsCurrent'
    BY <1>1, <2>1, TakingIsSteady DEF Writes
  <2>3. EditsAreAwaited'
    BY <1>1, <1>2, <2>1, EditsStayAwaited DEF SameForm, history
  <2> QED BY <2>2, <2>3 DEF Steady
<1>3. CASE /\ panel' = [panel EXCEPT !.calibrating = FALSE, !.form.overview = "drafted",
                                     !.dirty = TRUE, !.saving = FALSE]
           /\ late' = (late \/ Awaiting(Rest(r))) /\ UNCHANGED unsaved
  <2>1. [panel.form EXCEPT !.overview = "drafted"] \in Draft
    BY <1>1 DEF Panel, Draft
  <2>2. SamePanel /\ panel'.dirty = TRUE
    BY <1>1, <1>3, <2>1 DEF SamePanel, Panel
  <2>3. \A q : Heard(q)' <=> Heard(q)
    BY <2>2 DEF Heard, SamePanel
  <2>4. Addressed'
    BY <1>1, <2>2, <2>3 DEF IInv, Addressed, SamePanel
  <2>5. LoadsAreCurrent'
    BY <1>1, <2>2, <2>3 DEF IInv, LoadsAreCurrent, Trusted, Pending, SamePanel, Writes
  <2>6. FormIsCurrent'
    BY <2>2 DEF FormIsCurrent
  <2>7. ASSUME ~late' PROVE ~Loading' /\ \A k : Of(k)' = {}
    <3>1. \A q \in net' : ~Heard(q)
      BY <1>1, <1>3, <2>7 DEF Awaiting, Rest
    <3> QED BY <1>1, <2>3, <3>1 DEF IInv, Addressed, Loading, Of
  <2>8. EditsAreAwaited'
    BY <2>2, <2>7 DEF EditsAreAwaited, SamePanel
  <2> QED BY <2>4, <2>5, <2>6, <2>8 DEF Steady
<1> QED BY <1>2, <1>3 DEF CalibrateArrives

LEMMA UnheardIsSteady == ASSUME IInv, NEW r \in net, NobodyListens(r) PROVE Steady'
<1>1. /\ ~Heard(r) /\ r.kind \notin {"overview", "load"} /\ Read(r)
      /\ UNCHANGED <<stored, panel, unsaved, late, surprised>>
  BY DEF NobodyListens, Arrive, history, Lifecycles
<1>2. Addressed' /\ LoadsAreCurrent' /\ FormIsCurrent' /\ (\A q : Heard(q)' <=> Heard(q))
  BY <1>1, TakingIsSteady
<1>3. EditsAreAwaited'
  <2>1. \A k : Of(k)' \subseteq Of(k)
    BY <1>1, <1>2 DEF Of, Read, Rest
  <2>2. Loading' => Loading
    BY <1>1 DEF Loading, Read, Rest
  <2>3. EditsAreAwaited
    BY DEF IInv
  <2> QED BY <1>1, <2>1, <2>2, <2>3 DEF EditsAreAwaited
<1> QED BY <1>2, <1>3 DEF Steady

\* A form gets edits only while no publication of a panel that is gone is under
\* way, or late; and a panel that stays asks for its own.
LEMMA StraysStayClean == ASSUME IInv, [Next]_vars PROVE StraysAreClean'
<1> SUFFICES ASSUME panel' # None, ~late', panel'.dirty,
                    NEW s \in net', s.kind \in Lifecycles, ~Heard(s)'
             PROVE  FALSE
  BY DEF StraysAreClean
<1> USE PageAssumption
\* The panel was there, with its edits, and the request too.
<1>1. ASSUME panel # None, panel'.mount = panel.mount, panel'.dirty = panel.dirty, late' = late,
             NEW q \in net, q.kind = s.kind, q.n = s.n
      PROVE  FALSE
  BY <1>1 DEF IInv, StraysAreClean, Heard
<1>2. panel # None => panel \in Panel
  BY MountedOne DEF IInv
<1>3. panel # None => panel.mount \in 1..issued /\ issued \in Nat
  BY DEF IInv, Typed, TypeOK
<1>4. CASE Visit
  BY <1>4 DEF Visit, LoadView
<1>5. CASE Edit
  BY <1>5 DEF Edit, Awaiting
<1>6. ASSUME Usable, NEW kind \in Kinds, NEW body, Send(kind, panel.id, body, net),
             panel'.mount = panel.mount, panel'.dirty = panel.dirty, late' = late
      PROVE  FALSE
  <2>1. PICK new : net' = net \cup {new} /\ new.n = issued + 1
    BY <1>6, SentOne
  <2>2. s # new
    BY <1>3, <1>6, <2>1 DEF Heard, Usable
  <2> QED BY <1>1, <1>6, <2>1, <2>2 DEF Usable
<1>7. {"save", "publish", "unpublish", "calibrate"} \subseteq Kinds
  BY DEF Kinds
<1>8. CASE Save
  <2>1. panel' = [panel EXCEPT !.saving = TRUE] /\ panel \in Panel
    BY <1>2, <1>8 DEF Save, Usable
  <2>2. panel'.mount = panel.mount /\ panel'.dirty = panel.dirty
    BY <2>1 DEF Panel
  <2> QED BY <1>6, <1>7, <1>8, <2>2 DEF Save
<1>9. CASE SetLifecycle
  <2>1. panel' = [panel EXCEPT !.busy = TRUE] /\ panel \in Panel
    BY <1>2, <1>9 DEF SetLifecycle, Usable
  <2>2. panel'.mount = panel.mount /\ panel'.dirty = panel.dirty
    BY <2>1 DEF Panel
  <2> QED BY <1>6, <1>7, <1>9, <2>2 DEF SetLifecycle, history
<1>10. CASE Calibrate
  <2>1. panel' = [panel EXCEPT !.calibrating = TRUE] /\ panel \in Panel
    BY <1>2, <1>10 DEF Calibrate, Usable
  <2>2. panel'.mount = panel.mount /\ panel'.dirty = panel.dirty
    BY <2>1 DEF Panel
  <2> QED BY <1>6, <1>7, <1>10, <2>2 DEF Calibrate, history
<1>11. ASSUME NEW r \in net, Serve(r) \/ Fail(r) PROVE FALSE
  <2>1. r \in Call /\ UNCHANGED <<panel, late>>
    BY <1>11 DEF IInv, Typed, TypeOK, Serve, Fail
  <2>2. PICK t : net' = (net \ {r}) \cup {t} /\ t.kind = r.kind /\ t.n = r.n
    <3>1. ASSUME NEW o, net' = (net \ {r}) \cup {[r EXCEPT !.reply = o]}
          PROVE  \E t : net' = (net \ {r}) \cup {t} /\ t.kind = r.kind /\ t.n = r.n
      <4>1. [r EXCEPT !.reply = o].kind = r.kind /\ [r EXCEPT !.reply = o].n = r.n
        BY <2>1 DEF Call
      <4> QED BY <3>1, <4>1
    <3>2. ASSUME NEW o, NEW b, net' = (net \ {r}) \cup {[r EXCEPT !.reply = o, !.body = b]}
          PROVE  \E t : net' = (net \ {r}) \cup {t} /\ t.kind = r.kind /\ t.n = r.n
      <4>1. /\ [r EXCEPT !.reply = o, !.body = b].kind = r.kind
            /\ [r EXCEPT !.reply = o, !.body = b].n = r.n
        BY <2>1 DEF Call
      <4> QED BY <3>2, <4>1
    <3>3. \/ \E o : net' = (net \ {r}) \cup {[r EXCEPT !.reply = o]}
          \/ \E o, b : net' = (net \ {r}) \cup {[r EXCEPT !.reply = o, !.body = b]}
      BY <1>11 DEF Serve, Fail, Reply
    <3> QED BY <3>1, <3>2, <3>3
  <2> QED BY <1>1, <2>1, <2>2
\* A request is taken, and the panel stays.
<1>12. ASSUME NEW r \in net, Read(r), panel # None, panel'.mount = panel.mount,
              panel'.dirty = panel.dirty, late' = late
       PROVE  FALSE
  BY <1>1, <1>12 DEF Read, Rest
<1>13. ASSUME NEW r \in net, OverviewArrives(r) PROVE FALSE
  BY <1>13, OverviewMounts DEF IInv
<1>14. ASSUME NEW r \in net, LoadArrives(r) PROVE FALSE
  <2>1. panel \in Panel /\ Read(r) /\ panel # None
    BY <1>2, <1>14 DEF LoadArrives
  <2>2. CASE r.reply = "failed"
    <3>1. panel' = [panel EXCEPT !.hidden = TRUE] /\ UNCHANGED late
      BY <1>14, <2>2 DEF LoadArrives, history
    <3> QED BY <1>12, <2>1, <3>1 DEF Panel
  <2>3. CASE r.reply # "failed"
    BY <1>14, <2>1, <2>3 DEF LoadArrives, Panel
  <2> QED BY <2>2, <2>3
<1>15. ASSUME NEW r \in net, SaveArrives(r) PROVE FALSE
  <2>1. panel \in Panel /\ panel # None /\ UNCHANGED late
    BY <1>2, <1>15 DEF SaveArrives, Heard
  <2>2. r.reply # "ok"
    BY <1>15, <2>1 DEF SaveArrives, Panel
  <2>3. panel' = [panel EXCEPT !.saving = FALSE] /\ Read(r)
    BY <1>15, <2>2 DEF SaveArrives
  <2> QED BY <1>12, <2>1, <2>3 DEF Panel
<1>16. ASSUME NEW r \in net, LifecycleArrives(r) PROVE FALSE
  <2>1. r.reply # "ok"
    BY <1>16 DEF LifecycleArrives, LoadView
  <2>2. panel' = [panel EXCEPT !.busy = FALSE] /\ Read(r) /\ panel # None /\ UNCHANGED late
    BY <1>16, <2>1 DEF LifecycleArrives, Heard, history
  <2> QED BY <1>2, <1>12, <2>2 DEF Panel
<1>17. ASSUME NEW r \in net, CalibrateArrives(r) PROVE FALSE
  <2>1. panel # None /\ panel \in Panel /\ Read(r)
    BY <1>2, <1>17 DEF CalibrateArrives, Heard
  <2>2. CASE panel' = [panel EXCEPT !.calibrating = FALSE] /\ UNCHANGED history
    BY <1>12, <2>1, <2>2 DEF Panel, history
  <2>3. CASE late' = (late \/ Awaiting(Rest(r)))
    BY <2>1, <2>3 DEF Awaiting, Read
  <2> QED BY <1>17, <2>2, <2>3 DEF CalibrateArrives
<1>18. ASSUME NEW r \in net, NobodyListens(r) PROVE FALSE
  <2>1. Read(r) /\ UNCHANGED <<panel, late>>
    BY <1>18 DEF NobodyListens, history
  <2> QED BY <1>12, <2>1
<1>19. CASE UNCHANGED vars
  <2>1. UNCHANGED <<net, panel, late>>
    BY <1>19 DEF vars, history
  <2> QED BY <1>1, <2>1
<1> QED BY <1>4, <1>5, <1>8, <1>9, <1>10, <1>11, <1>13, <1>14, <1>15, <1>16, <1>17, <1>18, <1>19
        DEF Next, User, Replies

-----------------------------------------------------------------------------
(* The invariant, and what follows from it.                                *)

LEMMA Start == Init => IInv
<1> SUFFICES ASSUME Init PROVE IInv
  OBVIOUS
<1>1. PICK new : net = {new} /\ new.kind = "overview" /\ new.n = 1
  <2>1. PICK s \in Sources : net = {Request(1, "overview", s, None)}
    BY DEF Init
  <2>2. Request(1, "overview", s, None).kind = "overview" /\ Request(1, "overview", s, None).n = 1
    BY DEF Request
  <2> QED BY <2>1, <2>2
<1>2. panel = None /\ issued = 1 /\ unsaved = FALSE
  BY DEF Init
<1>3. Addressed
  BY <1>1, <1>2 DEF Addressed, Heard
<1>4. LoadsAreCurrent /\ FormIsCurrent /\ EditsAreAwaited /\ StraysAreClean
  BY <1>2 DEF LoadsAreCurrent, FormIsCurrent, Trusted, EditsAreAwaited, StraysAreClean
<1> QED BY <1>3, <1>4, StartIsTyped DEF IInv

LEMMA Invariance == Spec => []IInv
<1>1. ASSUME IInv, [Next]_vars PROVE IInv'
  <2>1. Typed'
    BY <1>1, Typing DEF IInv
  <2>2. Steady'
    <3>1. CASE User
      BY <1>1, <3>1, UserIsSteady
    <3>2. ASSUME NEW r \in net, Serve(r) \/ Fail(r) \/ Replies(r) PROVE Steady'
      BY <1>1, <3>2, ServingIsSteady, FailingIsSteady, OverviewIsSteady, LoadIsSteady,
         SaveReplyIsSteady, LifecycleReplyIsSteady, CalibrationIsSteady, UnheardIsSteady
         DEF Replies
    <3>3. CASE UNCHANGED vars
      <4>1. Steady
        BY <1>1 DEF IInv, Steady
      <4>2. UNCHANGED <<stored, panel, net, issued, unsaved, late, surprised>>
        BY <3>3 DEF vars, history
      <4>3. Addressed' /\ (Pending' <=> Pending) /\ (Loading' <=> Loading)
        BY <4>1, <4>2 DEF Steady, Addressed, Heard, Pending, Loading
      <4>4. LoadsAreCurrent' /\ FormIsCurrent'
        BY <4>1, <4>2, <4>3 DEF Steady, LoadsAreCurrent, FormIsCurrent, Trusted, Usable
      <4>5. \A k : Of(k)' = Of(k)
        BY <4>2 DEF Of, Heard
      <4>6. EditsAreAwaited'
        BY <4>1, <4>2, <4>3, <4>5 DEF Steady, EditsAreAwaited
      <4> QED BY <4>3, <4>4, <4>6 DEF Steady
    <3> QED BY <1>1, <3>1, <3>2, <3>3 DEF Next
  <2>3. StraysAreClean'
    BY <1>1, StraysStayClean
  <2> QED BY <2>1, <2>2, <2>3 DEF IInv, Steady
<1> QED BY <1>1, Start, PTL DEF Spec

\* The page, its panel and the requests under way have their types.
THEOREM PageIsTyped == Spec => []TypeOK
<1>1. IInv => TypeOK
  BY DEF IInv, Typed
<1> QED BY <1>1, Invariance, PTL

\* With nothing under way, a form that has no unsaved edits is the stored draft,
\* and its badge the stored status.
THEOREM SavedMeansStored == Spec => []CleanFormIsStored
<1>1. IInv => CleanFormIsStored
  BY DEF IInv, FormIsCurrent, CleanFormIsStored, Trusted, Usable, Pending, Loading
<1> QED BY <1>1, Invariance, PTL

\* No reply takes unsaved edits away, unless one was made while a reply to the
\* panel, or to a publication of a panel that is gone, was under way, or the panel's
\* own source is unpublished.
THEOREM EditsSurviveReplies == Spec => EditsLostOnlyToAnOverlap
<1> DEFINE Kept == \A r \in net : r \notin net' /\ unsaved =>
         /\ LoadArrives(r) => late \/ panel'.form = panel.form \/ r.reply = "failed"
         /\ CalibrateArrives(r) => late \/ panel.form.overview = "" \/ panel'.form = panel.form
         /\ LifecycleArrives(r) =>
              late \/ (r.kind = "unpublish" /\ Heard(r)) \/ r.reply = "failed"
<1>1. ASSUME IInv, NEW r \in net, unsaved, ~late
      PROVE  /\ ~LoadArrives(r)
             /\ CalibrateArrives(r) => panel.form.overview = "" \/ panel'.form = panel.form
             /\ LifecycleArrives(r) => r.kind = "unpublish" /\ Heard(r)
  <2>1. panel # None /\ panel \in Panel /\ panel.dirty
    BY <1>1, MountedOne DEF IInv, EditsAreAwaited
  <2>2. ~LoadArrives(r)
    BY <1>1, <2>1 DEF IInv, EditsAreAwaited, LoadArrives, Loading
  <2>3. ASSUME CalibrateArrives(r), panel.form.overview # "" PROVE panel'.form = panel.form
    <3>1. r \in Of("calibrate")
      BY <2>3 DEF CalibrateArrives, Of
    <3>2. r.body.overview # ""
      BY <1>1, <2>1, <2>3, <3>1 DEF IInv, EditsAreAwaited
    <3> QED BY <2>1, <2>3, <3>2 DEF CalibrateArrives, Panel
  <2>4. ASSUME LifecycleArrives(r) PROVE r.kind = "unpublish" /\ Heard(r)
    <3>1. r.kind \in Lifecycles /\ Heard(r)
      BY <1>1, <2>1, <2>4 DEF IInv, StraysAreClean, LifecycleArrives
    <3>2. r \notin Of("publish")
      BY <1>1, <2>1 DEF IInv, EditsAreAwaited
    <3> QED BY <3>1, <3>2 DEF Of, Lifecycles
  <2> QED BY <2>2, <2>3, <2>4
<1>2. IInv /\ [Next]_vars => [Kept]_vars
  BY <1>1
<1> HIDE DEF Kept
<1>3. Spec => [][Kept]_vars
  BY <1>2, Invariance, PTL DEF Spec
<1> QED BY <1>3 DEF EditsLostOnlyToAnOverlap, Kept

=============================================================================
