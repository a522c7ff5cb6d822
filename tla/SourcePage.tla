------------------------------ MODULE SourcePage ------------------------------
(***************************************************************************)
(* DataSourceView and its AuthoringPanel: one tab in which an owner edits, *)
(* saves, publishes and calibrates.  The panel holds a copy of the stored  *)
(* draft that every answered request may replace, and the page unmounts    *)
(* the panel whenever it loads an overview.  A request is served in one    *)
(* step here: the statements of the service are Publishing's.              *)
(***************************************************************************)
EXTENDS Naturals

CONSTANTS
    Sources,    \* all of them authorable by the user, none the Sample
    Tables,
    MaxClicks,  \* bound: visits and buttons
    MaxEdits,   \* bound: edits
    None


VARIABLES
    stored,     \* the draft and lifecycle of each source
    view,       \* the page: its source, and whose overview it shows
    panel,      \* the AuthoringPanel, or None while it is not mounted
    net,        \* requests and replies under way
    issued,     \* requests so far
    clicks, edits,
    unsaved,    \* history: the form has edits that no save took along
    late,       \* history: one was made while a reply to the form was under way
    surprised   \* history: sources changed by a request nobody heard of

history == <<unsaved, late, surprised>>
vars == <<stored, view, panel, net, issued, clicks, edits, history>>

Draft == [tables : SUBSET Tables, overview : {"", "typed", "drafted"}]
Stored == [draft : Draft, published : BOOLEAN]
Panel == [id : Sources, mount : Nat, form : Draft, data : Stored \cup {None},
          hidden : BOOLEAN, dirty : BOOLEAN, saving : BOOLEAN, saved : BOOLEAN,
          busy : BOOLEAN, calibrating : BOOLEAN]
Lifecycles == {"publish", "unpublish"}
Kinds == {"overview", "load", "save", "publish", "unpublish", "calibrate"}
Outcomes == {"ok", "shown", "absent", "failed"}
Call == [n : Nat, kind : Kinds, id : Sources, body : Draft \cup Stored \cup {None},
         reply : Outcomes \cup {None}]

ASSUME PageAssumption ==
    /\ MaxClicks \in Nat /\ MaxEdits \in Nat
    /\ None \notin Sources /\ None \notin Panel /\ None \notin Stored /\ None \notin Outcomes

Ready(d) == d.tables # {}

TypeOK ==
    /\ stored \in [Sources -> Stored]
    /\ view \in [id : Sources, overview : Sources \cup {None}]
    /\ panel \in Panel \cup {None}
    /\ panel # None => panel.mount \in 1..issued
    /\ issued \in Nat /\ clicks \in 0..MaxClicks /\ edits \in 0..MaxEdits
    /\ net \subseteq Call
    /\ \A r \in net : r.n \in 1..issued
    /\ unsaved \in BOOLEAN /\ late \in BOOLEAN /\ surprised \subseteq Sources

Request(n, kind, id, body) == [n |-> n, kind |-> kind, id |-> id, body |-> body, reply |-> None]

Init ==
    /\ stored \in [Sources -> {s \in Stored :
                                 /\ s.draft.overview # "drafted"
                                 /\ s.published => Ready(s.draft)}]
    /\ \E s \in Sources :
         /\ view = [id |-> s, overview |-> None]
         /\ net = {Request(1, "overview", s, None)}
    /\ panel = None
    /\ issued = 1
    /\ clicks = 0 /\ edits = 0
    /\ unsaved = FALSE /\ late = FALSE /\ surprised = {}

Send(kind, id, body, rest) ==
    /\ issued' = issued + 1
    /\ net' = rest \cup {Request(issued + 1, kind, id, body)}

\* Mutation: an earlier load is not cancelled.
UncancelledAll(requests) == requests

\* A load or an overview asked for again, or by a component unmounted, is cancelled.
Uncancelled(requests) == {r \in requests : r.kind \notin {"overview", "load"}}

\* The panel that asked is still mounted.
Heard(r) == panel # None /\ r.n > panel.mount

\* A reply that can change the form: one to its panel, or one of any panel that
\* makes the page load anew.
Awaiting(requests) == \E r \in requests : Heard(r) \/ r.kind \in Lifecycles
Usable == panel # None /\ panel.data # None /\ ~panel.hidden

-----------------------------------------------------------------------------
(* The user.                                                               *)

Click ==
    /\ clicks < MaxClicks /\ clicks' = clicks + 1
    /\ UNCHANGED <<stored, edits>>

\* The overview loads, and the panel is not rendered meanwhile.
LoadView(id, rest) ==
    /\ view' = [view EXCEPT !.id = id]
    /\ panel' = None
    /\ Send("overview", id, None, Uncancelled(rest))
    /\ unsaved' = FALSE /\ late' = FALSE

Visit == \E s \in Sources \ {view.id} :
    /\ Click
    /\ LoadView(s, net)
    /\ UNCHANGED surprised

\* edited(): what is typed can be saved again, also while a save is under way.
Edit == \E form \in Draft :
    /\ Usable /\ edits < MaxEdits /\ form # panel.form
    /\ \/ form.overview = panel.form.overview
       \/ form.tables = panel.form.tables /\ form.overview # "drafted"
    /\ panel' = [panel EXCEPT !.form = form, !.dirty = TRUE, !.saving = FALSE]
    /\ edits' = edits + 1
    /\ unsaved' = TRUE /\ late' = (late \/ Awaiting(net))
    /\ UNCHANGED <<stored, view, net, issued, clicks, surprised>>

Save ==
    /\ Usable /\ ~panel.saving
    /\ Click
    /\ panel' = [panel EXCEPT !.saving = TRUE]
    /\ Send("save", panel.id, panel.form, net)
    /\ unsaved' = FALSE
    /\ UNCHANGED <<view, late, surprised>>

\* Mutation: a form with edits can be published.
MayPublishDirty == ~panel.data.published /\ Ready(panel.data.draft)

MayPublish == ~panel.dirty /\ ~panel.data.published /\ Ready(panel.data.draft)

SetLifecycle ==
    /\ Usable /\ ~panel.busy
    /\ Click
    /\ panel' = [panel EXCEPT !.busy = TRUE]
    /\ \/ MayPublish /\ Send("publish", panel.id, None, net)
       \/ panel.data.published /\ Send("unpublish", panel.id, None, net)
    /\ UNCHANGED <<view, history>>

\* The reply is judged by the overview there was at the click.
Calibrate ==
    /\ Usable /\ ~panel.calibrating
    /\ Click
    /\ panel' = [panel EXCEPT !.calibrating = TRUE]
    /\ Send("calibrate", panel.id, panel.form, net)
    /\ UNCHANGED <<view, history>>

-----------------------------------------------------------------------------
(* The server, and the network.                                            *)

Reply(r, reply) == net' = (net \ {r}) \cup {[r EXCEPT !.reply = reply]}

Unheard(r) == IF Heard(r) THEN {} ELSE {r.id}

\* A published source whose scope is emptied goes back to draft.
Written(s, draft) == [draft |-> draft, published |-> s.published /\ Ready(draft)]

Serve(r) ==
    /\ r.reply = None
    /\ LET s == stored[r.id] IN
       \/ /\ r.kind = "overview"    \* only a published source has one
          /\ Reply(r, IF s.published THEN "shown" ELSE "absent") /\ UNCHANGED <<stored, surprised>>
       \/ /\ r.kind = "load"
          /\ net' = (net \ {r}) \cup {[r EXCEPT !.reply = "ok", !.body = s]}
          /\ UNCHANGED stored
          /\ surprised' = surprised \ {r.id}
       \/ /\ r.kind = "save"
          /\ Reply(r, "ok") /\ stored' = [stored EXCEPT ![r.id] = Written(s, r.body)]
          /\ surprised' = surprised \cup Unheard(r)
       \/ /\ r.kind = "publish" => Ready(s.draft)
          /\ r.kind \in Lifecycles
          /\ Reply(r, "ok")
          /\ stored' = [stored EXCEPT ![r.id].published = (r.kind = "publish")]
          /\ surprised' = surprised \cup Unheard(r)
       \/ /\ r.kind = "calibrate"   \* writes suggestions only
          /\ Reply(r, "ok") /\ UNCHANGED <<stored, surprised>>
    /\ UNCHANGED <<view, panel, issued, clicks, edits, unsaved, late>>

Writes == {"save", "publish", "unpublish"}

\* The request is refused, or it or its reply is lost.
Fail(r) ==
    /\ r.reply # "failed"
    /\ Reply(r, "failed")
    /\ surprised' = IF r.kind \in Writes /\ r.reply = "ok" THEN surprised \cup {r.id}
                                                            ELSE surprised
    /\ UNCHANGED <<stored, view, panel, issued, clicks, edits, unsaved, late>>

-----------------------------------------------------------------------------
(* Replies.                                                                *)

Arrive(r) ==
    /\ r.reply # None
    /\ UNCHANGED <<stored, clicks, edits>>

Rest(r) == net \ {r}
Read(r) == net' = Rest(r) /\ UNCHANGED issued

\* Without an overview the page shows the draft it was sent to; when the fetch
\* itself fails it goes on showing the overview it had.
OverviewArrives(r) ==
    /\ r.kind = "overview" /\ panel = None /\ Arrive(r)
    /\ \E shown \in IF r.reply = "shown" THEN {r.id}
                    ELSE IF r.reply = "absent" THEN {None} ELSE {None, view.overview} :
         LET id == IF shown = None THEN view.id ELSE shown IN
         /\ view' = [view EXCEPT !.overview = shown]
         /\ panel' = [id |-> id, mount |-> r.n, data |-> None,
                      hidden |-> FALSE, form |-> [tables |-> {}, overview |-> ""],
                      dirty |-> FALSE, saving |-> FALSE, saved |-> FALSE,
                      busy |-> FALSE, calibrating |-> FALSE]
         /\ Send("load", id, None, Rest(r))
    /\ UNCHANGED history

\* The refetch of a save leaves the status alone.  A refetch that fails hides the panel.
LoadArrives(r) ==
    /\ r.kind = "load" /\ panel # None /\ Arrive(r) /\ Read(r)
    /\ IF r.reply = "failed"
       THEN panel' = [panel EXCEPT !.hidden = TRUE] /\ UNCHANGED history
       ELSE /\ panel' = [panel EXCEPT !.hidden = FALSE, !.data = r.body,
                           !.form = r.body.draft, !.dirty = FALSE, !.saved = FALSE,
                           !.saving = panel.saved /\ @]
            /\ unsaved' = FALSE /\ late' = FALSE /\ UNCHANGED surprised
    /\ UNCHANGED view

SaveArrives(r) ==
    /\ r.kind = "save" /\ Heard(r) /\ Arrive(r)
    /\ IF r.reply = "ok"
       THEN /\ panel' = [panel EXCEPT !.saving = FALSE, !.dirty = FALSE, !.saved = TRUE]
            /\ Send("load", panel.id, None, Uncancelled(Rest(r)))
            /\ UNCHANGED unsaved
       ELSE /\ panel' = [panel EXCEPT !.saving = FALSE]
            /\ Read(r)
            /\ unsaved' = panel.dirty
    /\ UNCHANGED <<view, late, surprised>>

\* onLifecycleChange loads the page anew, also when the panel that asked is gone
\* and another source is being shown or loaded.
LifecycleArrives(r) ==
    /\ r.kind \in Lifecycles /\ Arrive(r)
    /\ \/ /\ r.reply = "ok"
          /\ LoadView(view.id, Rest(r)) /\ UNCHANGED surprised
       \/ /\ r.reply # "ok" /\ Heard(r)
          /\ panel' = [panel EXCEPT !.busy = FALSE] /\ Read(r) /\ UNCHANGED <<view, history>>

\* A drafted overview is put into the form unless there was one at the click; the
\* model may have drafted none.
CalibrateArrives(r) ==
    /\ r.kind = "calibrate" /\ Heard(r) /\ Arrive(r) /\ Read(r)
    /\ \/ panel' = [panel EXCEPT !.calibrating = FALSE] /\ UNCHANGED <<view, history>>
       \/ /\ r.reply = "ok" /\ r.body.overview = ""
          /\ panel' = [panel EXCEPT !.calibrating = FALSE, !.form.overview = "drafted",
                                    !.dirty = TRUE, !.saving = FALSE]
          /\ late' = (late \/ Awaiting(Rest(r))) /\ UNCHANGED <<view, unsaved, surprised>>

\* The state of a panel that is gone is not set.
NobodyListens(r) ==
    /\ ~Heard(r)
    /\ r.kind \in {"save", "calibrate"} \/ (r.kind \in Lifecycles /\ r.reply # "ok")
    /\ Arrive(r) /\ Read(r)
    /\ UNCHANGED <<view, panel, history>>

User == Visit \/ Edit \/ Save \/ SetLifecycle \/ Calibrate
Replies(r) == OverviewArrives(r) \/ LoadArrives(r) \/ SaveArrives(r) \/ LifecycleArrives(r)
              \/ CalibrateArrives(r) \/ NobodyListens(r)

Next ==
    \/ User
    \/ \E r \in net : Serve(r) \/ Fail(r) \/ Replies(r)

Spec == Init /\ [][Next]_vars

-----------------------------------------------------------------------------
(* Properties.                                                             *)

\* When nothing is under way and the panel says nothing is unsaved, what it shows
\* is what is stored, also after saves that overlapped (edited() lets a second
\* one start), failures, refetches and remounts; unless a write was answered to
\* nobody since the panel last read.
CleanFormIsStored ==
    Usable /\ net = {} /\ ~panel.dirty /\ panel.id \notin surprised =>
        /\ panel.form = stored[panel.id].draft
        /\ panel.data.published = stored[panel.id].published

\* A reply takes edits from the form that no save has taken along only if one was
\* made while a reply was under way, of the panel or of a publication asked for in
\* a panel that is gone, or if the source is unpublished: the panel is then mounted
\* anew (Publish alone asks for a saved form).
EditsLostOnlyToAnOverlap ==
    [][\A r \in net : r \notin net' /\ unsaved =>
         /\ LoadArrives(r) => late \/ panel'.form = panel.form \/ r.reply = "failed"
         /\ CalibrateArrives(r) => late \/ panel.form.overview = "" \/ panel'.form = panel.form
         /\ LifecycleArrives(r) =>
              late \/ (r.kind = "unpublish" /\ Heard(r)) \/ r.reply = "failed"]_vars

=============================================================================
