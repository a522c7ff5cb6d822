------------------------------ MODULE AskConsole ------------------------------
(***************************************************************************)
(* The conversation on screen and the turns behind it: the Thread          *)
(* component over useInvestigationStream, the ask route with its choice of *)
(* model, and what the investigation service has stored when a frame is    *)
(* written.  One browser tab; the requests it abandons go on at the        *)
(* server.  Versions, locks and corrections are InvestigationThread's, the *)
(* run is AgentRunner's; progress and usage frames are left out.           *)
(*                                                                         *)
(* React runs the settle effect of a commit before the next user event.    *)
(***************************************************************************)
EXTENDS Naturals, Sequences, SequencesExt

CONSTANTS
    MaxAsks,    \* bound on the turns asked
    Questions,
    Models,
    Old,        \* an Investigation of an earlier visit
    None

ASSUME AskConsoleAssumption ==
    /\ MaxAsks \in Nat /\ Old \notin Nat /\ None \notin Questions \cup Models \cup Nat \cup {Old}

VARIABLES
    visit,      \* who asks, and of what: fixed for the visit
    stored,     \* Investigations, by the turn that created them
    req,        \* the turns at the server
    wire,       \* what each turn's ask() has still to read
    aborted,    \* turns whose AbortController fired
    screen,     \* state of the Thread component
    stream,     \* state of useInvestigationStream
    disturbed   \* history: a turn was abandoned or a connection lost

server == <<stored, req>>
client == <<wire, aborted, screen, stream, disturbed>>
vars == <<visit, server, client>>

Asks == 1..MaxAsks
Investigations == Asks \cup {Old}
Earlier == 0    \* the turns of Old

Turn == [asked : Questions \cup {None}, by : Asks \cup {Earlier}]
Investigation == [model : Models \cup {None}, turns : Seq(Turn)]
Points == {"sent", "starting", "running", "saving",
           "refused", "answered", "replied", "failed", "cancelled"}
Request == [at : Points, question : Questions, answers : Questions \cup {None},
            inv : Investigations \cup {None}, rerun : BOOLEAN,
            model : Models \cup {None}]   \* asked for, and then run on
Exchange == [question : Questions, show : {"answer", "message", "stopped", "error"},
             of : Asks \cup {Earlier, None}]
Stream == [status : {"idle", "streaming", "done", "error", "aborted"},
           question : Questions \cup {None}, turn : Asks \cup {None},
           answer : Asks \cup {None}, message : BOOLEAN]
ASSUME NoneIsNoRecord == None \notin Investigation \cup Request

\* Signed in, or anonymous on the Sample or on any other source.
Visits == {"member", "sample", "stranger"}
INITIAL == [status |-> "idle", question |-> None, turn |-> None,
            answer |-> None, message |-> FALSE]
Screen == [key : Investigations \cup {None}, history : Seq(Exchange),
           inv : Investigations \cup {None}, loading : BOOLEAN, rerun : BOOLEAN]

\* exchangesFrom: an answer with no question before it replaces the last one shown.
Paired(out, t) ==
    IF t.asked # None THEN Append(out, [question |-> t.asked, show |-> "answer", of |-> t.by])
    ELSE IF out = <<>> THEN out
    ELSE [out EXCEPT ![Len(out)].of = t.by]

ExchangesFrom(turns) ==
    LET out[n \in 0..Len(turns)] ==
          IF n = 0 THEN <<>> ELSE Paired(out[n - 1], turns[n])
    IN out[Len(turns)]

TypeOK ==
    /\ visit \in Visits
    /\ \A i \in Investigations : stored[i] = None \/ stored[i] \in Investigation
    /\ \A r \in Asks : req[r] = None \/ req[r] \in Request
    /\ wire \in [Asks -> {"none", "open", "payload", "body", "closed"}]
    /\ aborted \subseteq Asks /\ disturbed \in BOOLEAN
    /\ screen \in Screen
    /\ \A e \in Range(screen.history) : e.show \in {"message", "stopped"} => e.of = None
    /\ stream \in Stream

\* A new conversation.  Old has answered two questions, on the model it is bound
\* to or (legacy) on none.
Init ==
    /\ visit \in Visits
    /\ \E p, q \in Questions, m \in Models \cup {None} :
         /\ p # q
         /\ stored = [i \in Investigations |->
                        IF i = Old THEN [model |-> m, turns |-> <<[asked |-> p, by |-> Earlier],
                                                                 [asked |-> q, by |-> Earlier]>>]
                        ELSE None]
    /\ req = [r \in Asks |-> None]
    /\ wire = [r \in Asks |-> "none"]
    /\ aborted = {} /\ disturbed = FALSE
    /\ screen = [key |-> None, history |-> <<>>, inv |-> None, loading |-> FALSE, rerun |-> FALSE]
    /\ stream = INITIAL

-----------------------------------------------------------------------------
(* The hook.                                                               *)

\* The newest controller is the one controllerRef holds.
Current == {r \in Asks : wire[r] # "none" /\ \A s \in Asks : wire[s] # "none" => s <= r}
Reading == {r \in Current : wire[r] \in {"open", "payload"}}

\* The active model of a list read at any time since; anonymous visitors have none.
Picks == IF visit = "member" THEN Models \cup {None} ELSE {None}

\* An aborted read rejects and ask() returns; the body of a refused request is
\* read under a catch of its own.
Abort ==
    /\ aborted' = aborted \cup Current
    /\ disturbed' = (disturbed \/ \E r \in Current : wire[r] # "closed")

Hushed == [r \in Asks |-> IF r \in Reading THEN "closed" ELSE wire[r]]

Ask(q, again) == \E r \in Asks :
    /\ wire[r] = "none" /\ \A s \in 1..(r - 1) : wire[s] # "none"
    /\ Abort
    /\ wire' = [Hushed EXCEPT ![r] = "open"]
    /\ stream' = [INITIAL EXCEPT !.status = "streaming", !.question = q, !.turn = r]
    /\ \E picked \in Picks :
         req' = [req EXCEPT ![r] =
                   [at |-> "sent", question |-> q, answers |-> None, inv |-> screen.inv,
                    rerun |-> again /\ screen.inv # None, model |-> picked]]

Stop ==
    /\ stream.status = "streaming"
    /\ Abort /\ wire' = Hushed
    /\ stream' = [stream EXCEPT !.status = "aborted"]
    /\ UNCHANGED <<visit, server, screen>>

-----------------------------------------------------------------------------
(* What arrives.                                                           *)

Heard(r) == wire[r] = "open" /\ r \notin aborted

\* The frame of an answer or of a message, and then done.
Payload(r) ==
    /\ Heard(r) /\ req[r].at \in {"answered", "replied"}
    /\ stream' = IF req[r].at = "answered" THEN [stream EXCEPT !.answer = r]
                                           ELSE [stream EXCEPT !.message = TRUE]
    /\ wire' = [wire EXCEPT ![r] = "payload"]
    /\ UNCHANGED <<visit, server, aborted, screen, disturbed>>

Done(r) ==
    /\ wire[r] = "payload" /\ r \notin aborted
    /\ stream' = [stream EXCEPT !.status = "done"]
    /\ wire' = [wire EXCEPT ![r] = "closed"]
    /\ UNCHANGED <<visit, server, aborted, screen, disturbed>>

\* The error frame of a run that failed.
ErrorFrame(r) ==
    /\ Heard(r) /\ req[r].at = "failed"
    /\ stream' = [stream EXCEPT !.status = "error"]
    /\ wire' = [wire EXCEPT ![r] = "closed"]
    /\ UNCHANGED <<visit, server, aborted, screen, disturbed>>

\* A response that is not ok, and its body: read whatever was aborted meanwhile.
Refusal(r) ==
    /\ Heard(r) /\ req[r].at = "refused"
    /\ wire' = [wire EXCEPT ![r] = "body"]
    /\ UNCHANGED <<visit, server, aborted, screen, stream, disturbed>>

RefusalBody(r) ==
    /\ wire[r] = "body"
    /\ stream' = [stream EXCEPT !.status = "error"]
    /\ wire' = [wire EXCEPT ![r] = "closed"]
    /\ UNCHANGED <<visit, server, aborted, screen, disturbed>>

\* Mutation: a broken connection taken for an abort of our own.
LostInSilence(r) ==
    /\ r \in Reading \ aborted
    /\ wire' = [wire EXCEPT ![r] = "closed"]
    /\ disturbed' = TRUE /\ aborted' = aborted \cup {r}
    /\ UNCHANGED <<visit, server, screen, stream>>

\* The connection breaks: ask() catches it, and the route's signal fires.
Lost(r) ==
    /\ r \in Reading \ aborted
    /\ stream' = [stream EXCEPT !.status = "error"]
    /\ wire' = [wire EXCEPT ![r] = "closed"]
    /\ disturbed' = TRUE /\ aborted' = aborted \cup {r}
    /\ UNCHANGED <<visit, server, screen>>

-----------------------------------------------------------------------------
(* The Thread component.                                                   *)

\* What arrived of a turn, an answer before all else.
Settled ==
    [question |-> stream.question,
     show |-> IF stream.answer # None THEN "answer"
              ELSE IF stream.message THEN "message"
              ELSE IF stream.status = "aborted" THEN "stopped" ELSE "error",
     of |-> stream.answer]

ToSettle == stream.status \in {"done", "error", "aborted"} /\ stream.question # None

\* Mutation: a rerun appended like any other turn.
PlaceAtEnd(history) == Append(history, Settled)

\* A rerun replaces the answer of the last exchange, or leaves it.
Place(history) ==
    IF ~screen.rerun THEN Append(history, Settled)
    ELSE IF Settled.show # "answer" THEN history
    ELSE IF history = <<>> THEN <<Settled>>
    ELSE [history EXCEPT ![Len(history)].show = "answer", ![Len(history)].of = Settled.of]

CreatedBy(r) == IF req[r].inv = None THEN r ELSE req[r].inv

\* answer.investigationId
Continues == IF stream.answer = None THEN screen.inv ELSE CreatedBy(stream.answer)

Settle ==
    /\ ToSettle
    /\ screen' = [screen EXCEPT !.history = Place(screen.history), !.inv = Continues, !.rerun = FALSE]
    /\ stream' = INITIAL
    /\ Abort /\ wire' = Hushed      \* reset()
    /\ UNCHANGED <<visit, server>>

Answered(e) == e.show = "answer"
Latest == screen.history[Len(screen.history)]
Quiet == stream.status # "streaming" /\ ~screen.loading

\* The composer is disabled while a turn streams; the follow-ups an answer
\* recommends are not.
Submit == \E q \in Questions :
    /\ ~ToSettle
    /\ \/ Quiet
       \/ \E n \in DOMAIN screen.history :
            /\ Answered(screen.history[n])
            /\ ~(screen.rerun /\ n = Len(screen.history))
    /\ Ask(q, FALSE)
    /\ UNCHANGED <<visit, stored, screen>>

Rerun ==
    /\ ~ToSettle
    /\ screen.history # <<>> /\ Answered(Latest) /\ ~screen.rerun
    /\ Ask(Latest.question, TRUE)
    /\ screen' = [screen EXCEPT !.rerun = TRUE]
    /\ UNCHANGED <<visit, stored>>

\* Another key: unmounted, and mounted afresh on i.  What the old component
\* still reads it reads in vain.
Mount(i) ==
    /\ ~ToSettle
    /\ screen' = [key |-> i, history |-> <<>>, inv |-> i, loading |-> i # None, rerun |-> FALSE]
    /\ stream' = INITIAL
    /\ Abort /\ wire' = [r \in Asks |-> IF wire[r] = "none" THEN "none" ELSE "closed"]
    /\ UNCHANGED <<visit, server>>

NewChat == Mount(None)
SelectThread == \E i \in Investigations \ {screen.key} : stored[i] # None /\ Mount(i)

Loaded ==
    /\ screen.loading
    /\ screen' = [screen EXCEPT !.loading = FALSE,
                    !.history = IF @ = <<>> THEN ExchangesFrom(stored[screen.inv].turns) ELSE @]
    /\ UNCHANGED <<visit, server, wire, aborted, stream, disturbed>>

LoadFailed ==
    /\ screen.loading
    /\ screen' = [screen EXCEPT !.loading = FALSE]
    /\ disturbed' = TRUE
    /\ UNCHANGED <<visit, server, wire, aborted, stream>>

-----------------------------------------------------------------------------
(* The server.                                                             *)

\* Mutation: the client's selection decides for follow-ups too.
WantedByPicker(r) == req[r].model

\* A follow-up runs on the model its Investigation is bound to.
Wanted(r) == IF req[r].inv # None THEN stored[req[r].inv].model ELSE req[r].model

\* The registered models with a base URL: members create and remove them at any
\* time, so a request may find any.
Registries == SUBSET Models

\* resolveConfig: a model that was removed, or has no base URL, is not runnable.
Resolved(model, runnable) == {model} \cap runnable

\* resolveDefaultConfig: the newest runnable one, whichever that is.
Defaults(runnable) == runnable

\* What askSseResponse runs a turn on, None being the fixture; nothing is a
\* refusal (404, 409, 503).
Offers(r, runnable) ==
    IF Wanted(r) # None THEN IF visit = "member" THEN Resolved(Wanted(r), runnable) ELSE {}
    ELSE IF req[r].inv = None /\ visit = "member" THEN Defaults(runnable)
    ELSE IF visit = "sample" THEN {None} ELSE {}

At(r, point) == req[r] # None /\ req[r].at = point

Route(r) == \E runnable \in Registries :
    /\ At(r, "sent")
    /\ IF Offers(r, runnable) = {} THEN req' = [req EXCEPT ![r].at = "refused"]
       ELSE \E m \in Offers(r, runnable) :
              req' = [req EXCEPT ![r].at = "starting", ![r].model = m]
    /\ UNCHANGED <<visit, stored, client>>

\* Mutation: the thread is searched from its beginning.
FirstAsked(turns) == turns[Min({n \in DOMAIN turns : turns[n].asked # None})].asked

LastAsked(turns) == turns[Max({n \in DOMAIN turns : turns[n].asked # None})].asked

\* ask reads the thread; a rerun answers the last question stored there.
\* A source that is unavailable is told in a message.
Read(r) ==
    /\ At(r, "starting")
    /\ \/ req' = [req EXCEPT ![r].at = "running",
                    ![r].answers = IF req[r].rerun THEN LastAsked(stored[req[r].inv].turns)
                                   ELSE req[r].question]
       \/ \E end \in {"replied", "failed"} : req' = [req EXCEPT ![r].at = end]
    /\ UNCHANGED <<visit, stored, client>>

\* The run ends; an abort counts if the run still looks.
Conclude(r) ==
    /\ At(r, "running")
    /\ \/ \E end \in {"saving", "replied", "failed"} : req' = [req EXCEPT ![r].at = end]
       \/ r \in aborted /\ req' = [req EXCEPT ![r].at = "cancelled"]
    /\ UNCHANGED <<visit, stored, client>>

Saved(r) == [asked |-> IF req[r].rerun THEN None ELSE req[r].question, by |-> r]

\* createInvestigation and saveAnswer, then the answer frame.
Save(r) ==
    /\ At(r, "saving")
    /\ \/ /\ req' = [req EXCEPT ![r].at = "answered"]
          /\ stored' = [stored EXCEPT ![CreatedBy(r)] =
                          IF @ = None THEN [model |-> req[r].model, turns |-> <<Saved(r)>>]
                          ELSE [model |-> @.model, turns |-> Append(@.turns, Saved(r))]]
       \/ req' = [req EXCEPT ![r].at = "failed"] /\ UNCHANGED stored
    /\ UNCHANGED <<visit, client>>

-----------------------------------------------------------------------------

Arrival(r) ==
    \/ Payload(r) \/ Done(r) \/ ErrorFrame(r) \/ Refusal(r) \/ RefusalBody(r)
Serve(r) == Route(r) \/ Read(r) \/ Conclude(r) \/ Save(r)
User == Submit \/ Rerun \/ Stop \/ NewChat \/ SelectThread

Next ==
    \/ User \/ Settle \/ Loaded \/ LoadFailed
    \/ \E r \in Asks : Arrival(r) \/ Lost(r) \/ Serve(r)

\* The server runs what it accepted (the agent's budget is AgentRunner's), the
\* browser reads what arrives, and React runs its effects.
Fairness ==
    /\ WF_vars(Settle) /\ WF_vars(Loaded \/ LoadFailed)
    /\ WF_vars(\E r \in Asks : Arrival(r)) /\ WF_vars(\E r \in Asks : Serve(r))

Spec == Init /\ [][Next]_vars /\ Fairness

-----------------------------------------------------------------------------
(* Properties.                                                             *)

AnswersOf(history) ==
    LET shown[n \in 0..Len(history)] ==
          IF n = 0 THEN <<>>
          ELSE IF Answered(history[n]) THEN Append(shown[n - 1], history[n])
          ELSE shown[n - 1]
    IN shown[Len(history)]
ShownAnswers == AnswersOf(screen.history)
Resting == stream.status = "idle" /\ ~screen.loading

\* "a conversation never switches models mid-thread": every answer stored in an
\* Investigation was given by the model it is bound to, however the picker and
\* the registry have changed since.
OneModelPerThread ==
    \A i \in Investigations : stored[i] # None =>
        \A t \in Range(stored[i].turns) : t.by # Earlier => req[t.by].model = stored[i].model

\* Every answer on screen is stored in the Investigation that the next follow-up
\* will continue, so that what the reader sees is what the model is told; and
\* unless a turn was abandoned or a connection lost, the conversation on screen
\* is the one a reload would rebuild from the stored thread.
ScreenMirrorsThread ==
    /\ \A e \in Range(screen.history) : Answered(e) =>
         /\ screen.inv # None /\ stored[screen.inv] # None
         /\ \E t \in Range(stored[screen.inv].turns) : t.by = e.of
    /\ ~disturbed /\ Resting /\ screen.inv # None =>
         ShownAnswers = ExchangesFrom(stored[screen.inv].turns)

\* As long as no turn was abandoned and no connection lost, every answer on screen
\* answers the question it stands under, although a rerun is asked with the
\* question on screen and answered with the last one stored.
AnswersFitTheirQuestions ==
    ~disturbed =>
        \A e \in Range(screen.history) : Answered(e) /\ e.of \in Asks =>
            req[e.of].answers = e.question

\* Every turn stops streaming: it is answered, replied to, refused, lost or stopped.
EveryTurnSettles ==
    stream.status = "streaming" ~> stream.status # "streaming"

=============================================================================
