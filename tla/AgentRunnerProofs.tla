-------------------------- MODULE AgentRunnerProofs --------------------------
(***************************************************************************)
(* What a turn guarantees for every step budget: a model that concludes    *)
(* when it is told to is never cut off by the budget, a stopped turn ends  *)
(* as cancelled, an answer rests on recorded evidence, and the transcript  *)
(* is one the model's API accepts.  The argument has three parts.  Control *)
(* says where in the budget a turn can stand: in the last step only after  *)
(* its one correction, if the model has obeyed.  Records says that each    *)
(* step has at most one record, that a record numbers its evidence by what *)
(* was there before, and that the statement at the engine is the only one  *)
(* not recorded yet.  Told says which call waits for its response, and     *)
(* which result or rejection the next request has still to tell.           *)
(***************************************************************************)
EXTENDS AgentRunner, SequenceTheorems, FiniteSetTheorems, TLAPS

Outcome ==
    /\ outcome.kind \in {"none", "answer", "message", "aborted", "failed"}
    /\ outcome.kind = "answer" =>
         outcome.status \in Statuses /\ outcome.confidence \in LegalConfidences[outcome.status]
    /\ outcome.kind # "none" => pc = "done"

\* Over the last two steps an obedient model drafts; its second draft follows
\* its first one's rejection.
Window ==
    MaxIterations >= 2 /\ obeyed =>
        /\ iter < MaxIterations
        /\ iter + 1 = MaxIterations => retried
        /\ pc \in {"connecting", "running"} => ~MustFinalize

Control ==
    /\ client \in Clients
    /\ connector \in Connectors
    /\ pc \in {"start", "loop", "asking", "connecting", "running", "done"}
    /\ iter \in 0..MaxIterations
    /\ stopped \in BOOLEAN
    /\ retried \in BOOLEAN
    /\ explained \in BOOLEAN
    /\ obeyed \in BOOLEAN
    /\ pc \in {"asking", "connecting", "running"} => iter < MaxIterations
    /\ Outcome /\ Window /\ StopEndsTurnWithinBudget

-----------------------------------------------------------------------------
(* Facts about the operators.                                              *)

\* A non-answer has no confidence, which is legal for each of its statuses.
LEMMA NonAnswersAreLegal ==
    /\ \A missing : StatusFor(missing) \in Statuses \ {"Answered"}
    /\ "NoReliableAnswer" \in Statuses
    /\ \A s \in Statuses \ {"Answered"} : "CannotDetermine" \in LegalConfidences[s]
  BY DEF StatusFor, Statuses, LegalConfidences, Confidences

\* A non-answer ends the turn with a legal outcome.
LEMMA NonAnswerEnds ==
    ASSUME NEW status \in Statuses \ {"Answered"}, NonAnswer(status)
    PROVE  pc' = "done" /\ outcome' = Answer(status, "CannotDetermine", {}) /\ Outcome'
<1>1. pc' = "done" /\ outcome' = Answer(status, "CannotDetermine", {})
  BY DEF NonAnswer, End
<1>2. /\ outcome'.kind = "answer" /\ outcome'.status = status
      /\ outcome'.confidence = "CannotDetermine"
  BY <1>1 DEF Answer
<1> QED BY <1>1, <1>2, NonAnswersAreLegal DEF Outcome

\* So does any other end.
LEMMA Ends ==
    ASSUME NEW kind \in {"message", "aborted", "failed"}, End([kind |-> kind])
    PROVE  pc' = "done" /\ outcome'.kind = kind /\ Outcome'
  BY DEF End, Outcome

-----------------------------------------------------------------------------
(* Control.                                                                *)

\* Starting, or ending before it, stays in control.
LEMMA StartControls == ASSUME Control, Start PROVE Control'
<1>1. CASE stopped /\ End([kind |-> "aborted"])
  BY <1>1, Ends DEF Control, Start, fixed, gathered, clientVars, Window, MustFinalize,
     StopEndsTurnWithinBudget
<1>2. CASE ~stopped /\ End([kind |-> "message"])
  BY <1>2, Ends DEF Control, Start, fixed, gathered, clientVars, Window, MustFinalize,
     StopEndsTurnWithinBudget
<1>3. CASE ~stopped /\ pc' = "loop" /\ UNCHANGED outcome
  BY <1>3 DEF Control, Start, fixed, gathered, clientVars, Window, MustFinalize,
     StopEndsTurnWithinBudget, Outcome
<1> QED BY <1>1, <1>2, <1>3 DEF Start

\* So does the passage between two steps: the next request is within the budget.
LEMMA LoopControls == ASSUME Control, Loop PROVE Control'
<1>1. CASE OutOfBudget
  <2>1. NonAnswer("NoReliableAnswer") /\ UNCHANGED <<fixed, iter, retried, stopped, explained, obeyed>>
    BY <1>1 DEF Loop, clientVars
  <2>2. pc' = "done" /\ Outcome'
    BY <2>1, NonAnswerEnds, NonAnswersAreLegal
  <2> QED BY <1>1, <2>1, <2>2 DEF Control, OutOfBudget, fixed, Window, MustFinalize,
             StopEndsTurnWithinBudget
<1>2. CASE ~OutOfBudget /\ stopped
  <2>1. End([kind |-> "aborted"]) /\ UNCHANGED <<fixed, iter, retried, stopped, explained, obeyed>>
    BY <1>2 DEF Loop, clientVars
  <2>2. pc' = "done" /\ outcome'.kind = "aborted" /\ Outcome'
    BY <2>1, Ends
  <2> QED BY <2>1, <2>2 DEF Control, fixed, Window, MustFinalize, StopEndsTurnWithinBudget
<1>3. CASE ~OutOfBudget /\ ~stopped
  <2>1. /\ pc' = "asking" /\ UNCHANGED <<fixed, iter, retried, stopped, obeyed, outcome>>
        /\ explained' \in BOOLEAN
    BY <1>3, Zenon DEF Loop, clientVars, Control
  <2>2. iter < MaxIterations /\ pc = "loop"
    BY <1>3, BudgetAssumption DEF Control, OutOfBudget, Loop
  <2> QED BY <1>3, <2>1, <2>2 DEF Control, fixed, Window, MustFinalize, Outcome,
             StopEndsTurnWithinBudget
<1> QED BY <1>1, <1>2, <1>3

\* So does Stop, which no end follows yet.
LEMMA StopControls == ASSUME Control, Stop PROVE Control'
  BY DEF Control, Stop, fixed, runnerVars, clientVars, Outcome, Window, MustFinalize,
     StopEndsTurnWithinBudget

\* So does a failed request, which ends a stopped turn as cancelled.
LEMMA ModelFailsControls == ASSUME Control, ModelFails PROVE Control'
<1>1. PICK kind \in {"aborted", "failed"} :
        End([kind |-> kind]) /\ kind = IF stopped THEN "aborted" ELSE "failed"
  BY DEF ModelFails
<1>2. pc' = "done" /\ outcome'.kind = kind /\ Outcome'
  BY <1>1, Ends
<1>3. UNCHANGED <<fixed, iter, retried, stopped, clientVars, obeyed>>
  BY DEF ModelFails
<1> QED BY <1>1, <1>2, <1>3 DEF Control, fixed, clientVars, Window, MustFinalize,
           StopEndsTurnWithinBudget

\* What the reply of the model leaves to the action that takes it.
LEMMA ReplyControls ==
    ASSUME Control, NEW kind, Reply(kind)
    PROVE  /\ pc = "asking" /\ stopped = FALSE /\ iter < MaxIterations
           /\ UNCHANGED <<fixed, stopped, explained>>
           /\ obeyed' \in BOOLEAN
           /\ obeyed' => obeyed /\ (MustFinalize => kind = "final")
<1>1. /\ pc = "asking" /\ ~stopped /\ UNCHANGED <<fixed, stopped, explained>>
      /\ obeyed' = (obeyed /\ (MustFinalize => kind = "final"))
  BY DEF Reply
<1>2. obeyed' \in BOOLEAN /\ (obeyed' => obeyed /\ (MustFinalize => kind = "final"))
  BY <1>1, Zenon
<1> QED BY <1>1, <1>2 DEF Control

\* A reply that ends the turn.
LEMMA LastReplyControls ==
    ASSUME Control, NEW kind, Reply(kind), pc' = "done", Outcome', UNCHANGED <<iter, retried>>
    PROVE  Control'
<1>1. /\ pc = "asking" /\ stopped = FALSE /\ iter < MaxIterations
      /\ UNCHANGED <<fixed, stopped, explained>>
      /\ obeyed' \in BOOLEAN /\ (obeyed' => obeyed)
  BY ReplyControls
<1> QED BY <1>1 DEF Control, fixed, Window, StopEndsTurnWithinBudget

\* One after which the turn goes on: an obedient model had drafted, or was not
\* told to yet.
LEMMA NextReplyControls ==
    ASSUME Control, NEW kind, Reply(kind), NextIteration, retried' \in BOOLEAN,
           retried => retried', kind = "final" => ~retried /\ retried'
    PROVE  Control'
<1>1. /\ pc = "asking" /\ stopped = FALSE /\ iter < MaxIterations
      /\ UNCHANGED <<fixed, stopped, explained>> /\ obeyed' \in BOOLEAN
      /\ obeyed' => obeyed /\ (MustFinalize => kind = "final")
  BY ReplyControls
<1>2. pc' = "loop" /\ iter' = iter + 1 /\ outcome' = outcome
  BY DEF NextIteration
<1>3. iter \in Nat /\ MaxIterations \in Nat /\ iter' \in 0..MaxIterations
  BY <1>1, <1>2, BudgetAssumption DEF Control
<1>4. Window'
  <2> SUFFICES ASSUME MaxIterations >= 2, obeyed'
               PROVE  iter' < MaxIterations /\ (iter' + 1 = MaxIterations => retried')
    BY <1>2 DEF Window
  <2>1. CASE MustFinalize
    BY <2>1, <1>1, <1>2, <1>3 DEF Control, Window, MustFinalize
  <2>2. CASE ~MustFinalize
    BY <2>2, <1>2, <1>3 DEF MustFinalize
  <2> QED BY <2>1, <2>2
<1> QED BY <1>1, <1>2, <1>3, <1>4 DEF Control, fixed, Outcome, StopEndsTurnWithinBudget

\* So does each decision of the model.
LEMMA ModelControls == ASSUME Control, Model PROVE Control'
<1>1. CASE ModelFails
  BY <1>1, ModelFailsControls
<1>2. CASE Reasoning
  <2>1. Reply("reasoning") /\ NextIteration /\ retried' = retried
    BY <1>2 DEF Reasoning
  <2> QED BY <2>1, NextReplyControls DEF Control
<1>3. CASE Conversational
  <2>1. Reply("message") /\ End([kind |-> "message"]) /\ UNCHANGED <<iter, retried>>
    BY <1>3 DEF Conversational
  <2> QED BY <2>1, Ends, LastReplyControls
<1>4. CASE Unblock
  <2>1. PICK missing \in (SUBSET MissingKinds) \ {{}} : NonAnswer(StatusFor(missing))
    BY <1>4 DEF Unblock
  <2>2. pc' = "done" /\ Outcome'
    BY <2>1, NonAnswerEnds, NonAnswersAreLegal
  <2> QED BY <1>4, <2>2, LastReplyControls DEF Unblock
<1>5. CASE NoAction
  <2>1. pc' = "done" /\ Outcome'
    BY <1>5, NonAnswerEnds, NonAnswersAreLegal DEF NoAction
  <2> QED BY <1>5, <2>1, LastReplyControls DEF NoAction
<1>6. CASE Final
  <2>1. PICK draft \in Drafts :
          \/ /\ Valid(draft) /\ End(Answer("Answered", draft.confidence, draft.cites))
             /\ UNCHANGED <<iter, retried>>
          \/ NonAnswer("NoReliableAnswer") /\ UNCHANGED <<iter, retried>>
          \/ ~retried /\ NextIteration /\ retried' = TRUE
    BY <1>6 DEF Final
  <2>2. CASE Valid(draft) /\ End(Answer("Answered", draft.confidence, draft.cites))
             /\ UNCHANGED <<iter, retried>>
    <3>1. pc' = "done" /\ Outcome'
      BY <2>2 DEF End, Answer, Valid, Outcome, Statuses
    <3> QED BY <1>6, <2>2, <3>1, LastReplyControls DEF Final
  <2>3. CASE NonAnswer("NoReliableAnswer") /\ UNCHANGED <<iter, retried>>
    <3>1. pc' = "done" /\ Outcome'
      BY <2>3, NonAnswerEnds, NonAnswersAreLegal
    <3> QED BY <1>6, <2>3, <3>1, LastReplyControls DEF Final
  <2>4. CASE ~retried /\ NextIteration /\ retried' = TRUE
    <3>1. Reply("final") /\ retried' \in BOOLEAN
      BY <1>6, <2>4 DEF Final
    <3> QED BY <2>4, <3>1, NextReplyControls
  <2> QED BY <2>1, <2>2, <2>3, <2>4
<1>7. CASE Propose
  <2>1. Reply("query") /\ retried' = retried
    BY <1>7 DEF Propose
  <2>2. CASE \E reason \in {"not_read_only", "admin_or_maintenance"} :
               NonAnswer(StatusFor(MissingFor(reason))) /\ iter' = iter
    <3>1. pc' = "done" /\ Outcome'
      BY <2>2, NonAnswerEnds, NonAnswersAreLegal
    <3> QED BY <2>1, <2>2, <3>1, LastReplyControls
  <2>3. CASE NextIteration
    BY <2>1, <2>3, NextReplyControls DEF Control
  <2>4. CASE pc' \in {"connecting", "running"} /\ UNCHANGED <<iter, outcome>>
    <3>1. /\ stopped = FALSE /\ iter < MaxIterations /\ pc = "asking"
          /\ UNCHANGED <<fixed, stopped, explained>> /\ obeyed' \in BOOLEAN
          /\ obeyed' => obeyed /\ (MustFinalize => "query" = "final")
      BY <2>1, ReplyControls, Zenon
    <3>2. obeyed' => obeyed /\ ~MustFinalize
      BY <3>1
    <3> QED BY <2>1, <2>4, <3>1, <3>2 DEF Control, fixed, Outcome, Window, MustFinalize,
               StopEndsTurnWithinBudget
  <2> QED BY <1>7, <2>2, <2>3, <2>4 DEF Propose
<1> QED BY <1>1, <1>2, <1>3, <1>4, <1>5, <1>6, <1>7 DEF Model

\* The statement ends: the step was not one of the last two, or was disobeyed.
LEMMA NextStatementControls ==
    ASSUME Control, pc \in {"connecting", "running"}, NextIteration,
           UNCHANGED <<fixed, retried, stopped, clientVars, obeyed>>
    PROVE  Control'
<1>1. /\ pc' = "loop" /\ iter' = iter + 1 /\ outcome' = outcome
      /\ iter \in Nat /\ MaxIterations \in Nat /\ iter < MaxIterations
  BY BudgetAssumption DEF NextIteration, Control
<1>2. Window'
  BY <1>1 DEF Control, Window, MustFinalize
<1> QED BY <1>1, <1>2 DEF Control, fixed, clientVars, Outcome, StopEndsTurnWithinBudget

\* So does the executor, whose statement completes at most the step it is in.
LEMMA EngineControls == ASSUME Control, Engine PROVE Control'
<1>1. CASE stopped /\ End([kind |-> "aborted"])
           /\ UNCHANGED <<fixed, iter, retried, stopped, clientVars, obeyed>>
  BY <1>1, Ends DEF Control, fixed, clientVars, Window, MustFinalize, StopEndsTurnWithinBudget
<1>2. CASE Connected /\ ~stopped
  BY <1>2 DEF Connected, Control, fixed, clientVars, Outcome, Window, MustFinalize,
     StopEndsTurnWithinBudget
<1>3. CASE StatementOk \/ (StatementFails /\ ~stopped)
  BY <1>3, NextStatementControls DEF StatementOk, StatementFails
<1> QED BY <1>1, <1>2, <1>3 DEF Engine, Connected, StatementFails

\* Every step stays in control.
LEMMA ControlKept == ASSUME Control, [Next]_vars PROVE Control'
<1>1. CASE UNCHANGED vars
  BY <1>1 DEF vars, fixed, runnerVars, clientVars, Control, Outcome, Window, MustFinalize,
     StopEndsTurnWithinBudget
<1> QED BY <1>1, StartControls, LoopControls, StopControls, ModelControls, EngineControls DEF Next

-----------------------------------------------------------------------------
(* Types of what a turn gathers and of the transcript.                     *)

Refs == [kind : {"E", "qe"}, n : Nat]
Runs == [ref : Refs, step : Steps, ok : BOOLEAN]
Calls == [step : Nat, n : Nat]
Messages == [role : {"user", "assistant", "tool"}, calls : SUBSET Calls,
             about : {"result", "rejection", "prompt", "decision"}, step : Nat]

Gathered ==
    /\ sent \subseteq Steps
    /\ evidence \in Seq(sent)
    /\ runs \in Seq(Runs)
    /\ results \in Seq([step : Steps])
    /\ pc = "running" => Step \in sent

Chat ==
    /\ transcript \in Seq(Messages)
    /\ pending \in [kind : {"none", "query", "final"}, call : Calls]
    /\ consumed \in 0..Len(results)

\* What the client appends are messages.
LEMMA AppendedAreMessages ==
    ASSUME Gathered, Chat
    PROVE  NewResult \in Seq(Messages) /\ Rejection \in Seq(Messages) /\ Prompt \in Seq(Messages)
<1>1. NewResult \in Seq(Messages)
  <2>1. CASE Len(results) > consumed /\ (client = "tools" => pending.kind = "query")
    <3>1. results[Len(results)].step \in Nat
      <4>1. Len(results) \in 1..Len(results)
        BY <2>1 DEF Gathered, Chat
      <4>2. results[Len(results)] \in [step : Steps]
        BY <4>1, ElementOfSeq DEF Gathered
      <4> QED BY <4>2 DEF Steps
    <3> DEFINE m == Message(IF client = "tools" THEN "tool" ELSE "user", {pending.call},
                            "result", results[Len(results)].step)
    <3>2. m \in Messages
      BY <3>1 DEF Message, Messages, Chat
    <3>3. NewResult = <<m>>
      BY <2>1 DEF NewResult
    <3> HIDE DEF m
    <3> QED BY <3>2, <3>3
  <2>2. CASE ~(Len(results) > consumed /\ (client = "tools" => pending.kind = "query"))
    BY <2>2 DEF NewResult
  <2> QED BY <2>1, <2>2
<1>2. Rejection \in Seq(Messages)
  <2>1. \/ Rejection = <<>>
        \/ Rejection = <<Message("tool", {pending.call}, "rejection", 0)>>
        \/ Rejection = <<Message("user", {}, "rejection", 0)>>
    BY Zenon DEF Rejection
  <2>2. /\ Message("tool", {pending.call}, "rejection", 0) \in Messages
        /\ Message("user", {}, "rejection", 0) \in Messages
    BY DEF Message, Messages, Chat
  <2>3. <<>> \in Seq(Messages) /\ \A m \in Messages : <<m>> \in Seq(Messages)
    OBVIOUS
  <2> QED BY <2>1, <2>2, <2>3, Zenon
<1>3. Prompt \in Seq(Messages)
  <2>1. Message("user", {}, "prompt", 0) \in Messages
    BY DEF Message, Messages
  <2> QED BY <2>1 DEF Prompt
<1> QED BY <1>1, <1>2, <1>3

\* The transcript stays one of messages when a request is prepared.
LEMMA LoopChats == ASSUME Gathered, Chat, Loop PROVE Chat'
<1>1. CASE UNCHANGED clientVars
  BY <1>1 DEF Loop, Chat, clientVars, gathered
<1>2. CASE /\ transcript' = transcript \o NewResult \o Rejection \o Prompt
           /\ consumed' \in {consumed, Len(results)}
           /\ pending' \in {NoCall, pending}
  <2>1. transcript' \in Seq(Messages)
    <3>1. transcript \o NewResult \in Seq(Messages)
      BY AppendedAreMessages, ConcatProperties DEF Chat
    <3>2. transcript \o NewResult \o Rejection \in Seq(Messages)
      BY <3>1, AppendedAreMessages, ConcatProperties
    <3> QED BY <1>2, <3>2, AppendedAreMessages, ConcatProperties
  <2>2. results' = results /\ consumed' \in 0..Len(results)
    BY <1>2 DEF Loop, gathered, Gathered, Chat
  <2>3. NoCall \in [kind : {"none", "query", "final"}, call : Calls]
    BY DEF NoCall, Call, Calls
  <2> QED BY <1>2, <2>1, <2>2, <2>3 DEF Chat
<1> QED BY <1>1, <1>2, Zenon DEF Loop

\* The reply joins the transcript.
LEMMA ReplyChats ==
    ASSUME Control, Chat, NEW kind \in {"reasoning", "message", "unblock", "none", "final", "query"},
           Reply(kind), results' = results \/ \E x : results' = Append(results, x),
           results \in Seq([step : Steps]), results' \in Seq([step : Steps])
    PROVE  Chat'
<1>1. Len(results') >= Len(results) /\ consumed' = consumed
  BY DEF Reply
<1>2. consumed' \in 0..Len(results')
  BY <1>1 DEF Chat
<1>3. CASE client = "fixture"
  BY <1>2, <1>3 DEF Reply, Chat
<1>4. CASE client # "fixture"
  <2>1. (IF client = "tools" /\ kind # "none" THEN 1..2 ELSE {0}) \subseteq {0, 1, 2}
    OBVIOUS
  <2>2. PICK n \in {0, 1, 2} :
          /\ transcript' = Append(transcript, Message("assistant", Kept({Call(Step, k) : k \in 1..n}),
                                                      "decision", Step))
          /\ pending' = IF n > 0 /\ kind \in {"query", "final"}
                        THEN [kind |-> kind, call |-> Call(Step, 1)] ELSE pending
    BY <1>4, <2>1, Zenon DEF Reply
  <2>3. Step \in Nat /\ 1..n \subseteq Nat
    BY DEF Control, Step
  <2>4. Kept({Call(Step, k) : k \in 1..n}) \subseteq Calls
    BY <2>3 DEF Kept, Call, Calls
  <2>5. Message("assistant", Kept({Call(Step, k) : k \in 1..n}), "decision", Step) \in Messages
    BY <2>3, <2>4 DEF Message, Messages
  <2>6. transcript' \in Seq(Messages)
    BY <2>2, <2>5, AppendProperties DEF Chat
  <2>7. pending' \in [kind : {"none", "query", "final"}, call : Calls]
    BY <2>2, <2>3 DEF Chat, Call, Calls
  <2> QED BY <1>2, <2>6, <2>7 DEF Chat
<1> QED BY <1>3, <1>4

-----------------------------------------------------------------------------
(* Records.                                                                *)

Cites == outcome.kind = "answer" =>
    /\ outcome.cites \subseteq DOMAIN evidence
    /\ outcome.status = "Answered" => outcome.cites # {}

\* Evidence and the references of the runs that produced it match one to one.
Numbered ==
    /\ \A i \in DOMAIN evidence : \E r \in DOMAIN runs :
         runs[r] = [ref |-> Ref("E", i), step |-> evidence[i], ok |-> TRUE]
    /\ \A r \in DOMAIN runs : runs[r].ref.kind = "E" => runs[r].ref.n \in DOMAIN evidence
    /\ \A r, q \in DOMAIN runs :
         runs[r].ref.kind = "E" /\ runs[r].ref = runs[q].ref => r = q

\* A step has one record at most, a past one if the turn goes on; only the
\* statement at the engine, and one that was stopped, may have none.
Once ==
    /\ \A r, q \in DOMAIN runs : runs[r].step = runs[q].step => r = q
    /\ pc # "done" => \A r \in DOMAIN runs : runs[r].step <= iter
    /\ outcome.kind # "aborted" =>
         \A s \in sent : \/ pc = "running" /\ s = Step
                        \/ \E r \in DOMAIN runs : runs[r].step = s

Records == Gathered /\ Numbered /\ Once

\* The records are runs, so each names its step.
LEMMA RecordsAreRuns ==
    ASSUME Gathered
    PROVE  /\ DOMAIN runs = 1..Len(runs) /\ Len(runs) \in Nat
           /\ \A r \in DOMAIN runs :
                runs[r] \in Runs /\ runs[r].ref \in Refs /\ runs[r].step \in Nat
<1>1. DOMAIN runs = 1..Len(runs) /\ Len(runs) \in Nat
  BY DEF Gathered
<1>2. \A r \in DOMAIN runs : runs[r] \in Runs
  BY <1>1, ElementOfSeq DEF Gathered
<1>3. \A run \in Runs : run.ref \in Refs /\ run.step \in Nat
  BY DEF Runs, Steps
<1> QED BY <1>1, <1>2, <1>3

\* A step that gathers nothing.
LEMMA QuietRecords ==
    ASSUME Control, Records, UNCHANGED gathered, pc # "done",
           \/ UNCHANGED <<pc, iter, outcome>>
           \/ pc # "running" /\ pc' # "running" /\ iter' \in {iter, iter + 1}
    PROVE  Records'
<1>1. Gathered'
  BY DEF Records, Gathered, gathered, Step
<1>2. Numbered'
  BY DEF Records, Numbered, gathered
<1>3. Once'
  <2>1. outcome.kind = "none"
    BY DEF Control, Outcome
  <2>2. \A r \in DOMAIN runs : runs[r].step \in Nat
    BY RecordsAreRuns DEF Records
  <2>3. iter \in Nat
    BY DEF Control
  <2> QED BY <2>1, <2>2, <2>3 DEF Records, Once, gathered, Step
<1> QED BY <1>1, <1>2, <1>3 DEF Records

\* A statement reaches the engine.
LEMMA SentRecords ==
    ASSUME Control, Records, pc \in {"asking", "connecting"}, pc' = "running",
           sent' = sent \cup {Step}, UNCHANGED <<iter, outcome, evidence, runs, results>>
    PROVE  Records'
<1>1. iter < MaxIterations /\ iter \in Nat /\ Step \in Steps /\ Step' = Step
  BY BudgetAssumption DEF Control, Step, Steps
<1>2. Gathered'
  <2>1. evidence \in Seq(sent \cup {Step})
    BY DEF Records, Gathered
  <2> QED BY <1>1, <2>1 DEF Records, Gathered
<1>3. Numbered'
  BY DEF Records, Numbered
<1>4. Once'
  BY <1>1 DEF Records, Once
<1> QED BY <1>2, <1>3, <1>4 DEF Records

\* A run of this step is recorded: new evidence with the next number, or a
\* failure.
LEMMA RunRecords ==
    ASSUME Control, Records, pc \in {"asking", "connecting", "running"}, NextIteration,
           sent' = sent, NEW run \in Runs, run.step = Step,
           runs' = Append(runs, run), results' = Append(results, [step |-> Step]),
           \/ evidence' = evidence /\ run.ref.kind = "qe"
           \/ /\ pc = "running" /\ evidence' = Append(evidence, Step)
              /\ run = [ref |-> Ref("E", Len(evidence) + 1), step |-> Step, ok |-> TRUE]
    PROVE  Records'
<1>1. /\ pc' = "loop" /\ iter' = iter + 1 /\ outcome' = outcome
      /\ iter < MaxIterations /\ iter \in Nat /\ Step \in Steps /\ Step = iter + 1
  BY BudgetAssumption DEF NextIteration, Control, Step, Steps
<1>2. /\ DOMAIN runs = 1..Len(runs) /\ Len(runs) \in Nat
      /\ DOMAIN runs' = 1..(Len(runs) + 1)
      /\ runs'[Len(runs) + 1] = run
      /\ \A r \in DOMAIN runs : runs'[r] = runs[r] /\ runs[r].step \in Nat /\ runs[r].step <= iter
  <2>1. /\ Len(runs') = Len(runs) + 1 /\ runs'[Len(runs) + 1] = run
        /\ \A r \in 1..Len(runs) : runs'[r] = runs[r]
        /\ runs' \in Seq(Runs)
    BY AppendProperties DEF Records, Gathered
  <2>2. DOMAIN runs' = 1..Len(runs')
    BY <2>1
  <2> QED BY <2>1, <2>2, RecordsAreRuns DEF Records, Once
<1>3. Gathered'
  <2>1. runs' \in Seq(Runs) /\ results' \in Seq([step : Steps])
    BY <1>1, AppendProperties DEF Records, Gathered
  <2>2. evidence \in Seq(sent) /\ (pc = "running" => Step \in sent)
    BY DEF Records, Gathered
  <2>3. evidence' \in Seq(sent')
    BY <2>2, AppendProperties
  <2> QED BY <1>1, <2>1, <2>3 DEF Records, Gathered
<1>4. Once'
  <2>1. \A r, q \in DOMAIN runs' : runs'[r].step = runs'[q].step => r = q
    BY <1>1, <1>2 DEF Records, Once
  <2>2. \A r \in DOMAIN runs' : runs'[r].step <= iter'
    BY <1>1, <1>2
  <2>3. outcome.kind # "aborted" => \A s \in sent' : \E r \in DOMAIN runs' : runs'[r].step = s
    BY <1>1, <1>2 DEF Records, Once
  <2> QED BY <1>1, <2>1, <2>2, <2>3 DEF Once
<1>5. Numbered'
  <2>1. /\ DOMAIN evidence = 1..Len(evidence) /\ Len(evidence) \in Nat
        /\ \A r \in DOMAIN runs : runs[r].ref \in Refs
    BY RecordsAreRuns DEF Records, Gathered
  <2>2. CASE evidence' = evidence /\ run.ref.kind = "qe"
    BY <1>2, <2>2 DEF Records, Numbered
  <2>3. CASE /\ pc = "running" /\ evidence' = Append(evidence, Step)
             /\ run = [ref |-> Ref("E", Len(evidence) + 1), step |-> Step, ok |-> TRUE]
    <3>1. /\ DOMAIN evidence' = 1..(Len(evidence) + 1)
          /\ evidence'[Len(evidence) + 1] = Step
          /\ \A i \in DOMAIN evidence : evidence'[i] = evidence[i]
      <4>1. evidence \in Seq(sent) /\ Step \in sent
        BY <2>3 DEF Records, Gathered
      <4>2. /\ Len(evidence') = Len(evidence) + 1 /\ evidence'[Len(evidence) + 1] = Step
            /\ \A i \in 1..Len(evidence) : evidence'[i] = evidence[i]
            /\ evidence' \in Seq(sent)
        BY <2>3, <4>1, AppendProperties
      <4>3. DOMAIN evidence' = 1..Len(evidence')
        BY <4>2
      <4> QED BY <2>1, <4>2, <4>3
    <3>2. run.ref.kind = "E" /\ run.ref.n = Len(evidence) + 1
      BY <2>3 DEF Ref
    <3>3. ASSUME NEW i \in DOMAIN evidence'
          PROVE  \E r \in DOMAIN runs' :
                    runs'[r] = [ref |-> Ref("E", i), step |-> evidence'[i], ok |-> TRUE]
      <4>1. CASE i \in DOMAIN evidence
        BY <1>2, <3>1, <4>1 DEF Records, Numbered
      <4>2. CASE i = Len(evidence) + 1
        <5>1. run = [ref |-> Ref("E", i), step |-> evidence'[i], ok |-> TRUE]
          BY <2>3, <3>1, <4>2, Zenon
        <5>2. Len(runs) + 1 \in DOMAIN runs' /\ runs'[Len(runs) + 1] = run
          BY <1>2
        <5> QED BY <5>1, <5>2, Zenon
      <4>3. i \in DOMAIN evidence \/ i = Len(evidence) + 1
        BY <2>1, <3>1
      <4> QED BY <4>1, <4>2, <4>3
    <3>4. \A r \in DOMAIN runs' : runs'[r].ref.kind = "E" => runs'[r].ref.n \in DOMAIN evidence'
      BY <1>2, <2>1, <3>1, <3>2 DEF Records, Numbered
    <3>5. \A r, q \in DOMAIN runs' :
            runs'[r].ref.kind = "E" /\ runs'[r].ref = runs'[q].ref => r = q
      BY <1>2, <2>1, <3>2 DEF Records, Numbered
    <3> QED BY <3>3, <3>4, <3>5 DEF Numbered
  <2> QED BY <2>2, <2>3
<1> QED BY <1>3, <1>4, <1>5 DEF Records

\* A failed run is numbered by the failures before it.
LEMMA FailureRecords ==
    ASSUME Control, Records, pc \in {"asking", "connecting", "running"}, NextIteration,
           RecordFailure(Step), UNCHANGED <<sent, evidence>>
    PROVE  Records'
<1> DEFINE failed == Cardinality({i \in DOMAIN runs : ~runs[i].ok})
           run == [ref |-> Ref("qe", failed + 1), step |-> Step, ok |-> FALSE]
<1>1. failed \in Nat
  <2>1. IsFiniteSet(DOMAIN runs)
    BY FS_Interval DEF Records, Gathered
  <2> QED BY <2>1, FS_Subset, FS_CardinalityType
<1>2. Step \in Steps
  BY BudgetAssumption DEF Control, Step, Steps
<1>3. run \in Runs /\ run.step = Step /\ run.ref.kind = "qe"
  <2> HIDE DEF failed
  <2> QED BY <1>1, <1>2 DEF Runs, Refs, Ref
<1>4. runs' = Append(runs, run) /\ results' = Append(results, [step |-> Step])
  BY DEF RecordFailure
<1> HIDE DEF run
<1> QED BY <1>3, <1>4, RunRecords

\* What the model decides is told, gathers at most one run, and cites evidence.
LEMMA ModelRecords ==
    ASSUME Control, Records, Chat, Cites, Model PROVE Records' /\ Chat' /\ Cites'
<1>1. CASE ModelFails
  <2>1. /\ pc = "asking" /\ pc' = "done" /\ outcome'.kind \in {"aborted", "failed"}
        /\ UNCHANGED <<iter, gathered, clientVars>>
    BY <1>1 DEF ModelFails, End
  <2> QED BY <2>1, QuietRecords DEF Chat, Cites, clientVars, gathered
<1>2. ASSUME NEW kind \in {"reasoning", "message", "unblock", "none", "final", "query"},
             Reply(kind), UNCHANGED gathered, pc' # "running", iter' \in {iter, iter + 1}, Cites'
      PROVE  Records' /\ Chat' /\ Cites'
  <2>1. pc = "asking"
    BY <1>2 DEF Reply
  <2>2. Records'
    BY <1>2, <2>1, QuietRecords
  <2>3. results' = results /\ results \in Seq([step : Steps])
    BY <1>2 DEF gathered, Records, Gathered
  <2> QED BY <1>2, <2>2, <2>3, ReplyChats
<1>3. \A status : NonAnswer(status) => pc' = "done" /\ (Cites' \/ status = "Answered")
  BY DEF NonAnswer, End, Answer, Cites
<1>4. \A missing : NonAnswer(StatusFor(missing)) => pc' = "done" /\ Cites'
  BY <1>3, NonAnswersAreLegal
<1>5. outcome.kind = "none" \/ pc = "done"
  BY DEF Control, Outcome
<1>6. CASE Reasoning
  <2>1. /\ Reply("reasoning") /\ UNCHANGED <<gathered, outcome>>
        /\ pc = "asking" /\ pc' = "loop" /\ iter' = iter + 1
    BY <1>6 DEF Reasoning, NextIteration, Reply
  <2>2. Cites'
    BY <1>5, <2>1 DEF Cites
  <2> QED BY <1>2, <2>1, <2>2
<1>7. CASE Conversational
  <2>1. Reply("message") /\ UNCHANGED <<gathered, iter>> /\ pc' = "done" /\ Cites'
    BY <1>7 DEF Conversational, End, Cites
  <2> QED BY <1>2, <2>1
<1>8. CASE Unblock \/ NoAction
  <2>1. PICK kind \in {"unblock", "none"} :
          Reply(kind) /\ UNCHANGED <<gathered, iter>> /\ pc' = "done" /\ Cites'
    BY <1>4, <1>8 DEF Unblock, NoAction
  <2> QED BY <1>2, <2>1
<1>9. CASE Final
  <2>1. PICK draft \in Drafts :
          \/ /\ Valid(draft) /\ End(Answer("Answered", draft.confidence, draft.cites))
             /\ iter' = iter
          \/ NonAnswer("NoReliableAnswer") /\ iter' = iter
          \/ NextIteration
    BY <1>9 DEF Final
  <2>2. Reply("final") /\ UNCHANGED gathered /\ pc = "asking"
    BY <1>9 DEF Final, Reply
  <2>3. CASE Valid(draft) /\ End(Answer("Answered", draft.confidence, draft.cites)) /\ iter' = iter
    <3>1. pc' = "done" /\ Cites'
      BY <2>2, <2>3 DEF End, Answer, Valid, Cites, gathered
    <3> QED BY <1>2, <2>2, <2>3, <3>1
  <2>4. CASE NonAnswer("NoReliableAnswer") /\ iter' = iter
    BY <1>2, <1>3, <2>2, <2>4
  <2>5. CASE NextIteration
    <3>1. pc' = "loop" /\ iter' = iter + 1 /\ Cites'
      BY <1>5, <2>2, <2>5 DEF NextIteration, Cites
    <3> QED BY <1>2, <2>2, <3>1
  <2> QED BY <2>1, <2>3, <2>4, <2>5
<1>10. CASE Propose
  <2>1. Reply("query") /\ pc = "asking" /\ outcome.kind = "none"
    BY <1>5, <1>10 DEF Propose, Reply
  <2>2. CASE /\ \E reason \in {"not_read_only", "admin_or_maintenance"} :
                  NonAnswer(StatusFor(MissingFor(reason)))
             /\ UNCHANGED <<iter, gathered>>
    <3>1. pc' = "done" /\ Cites'
      BY <1>4, <2>2
    <3> QED BY <1>2, <2>1, <2>2, <3>1
  <2>3. CASE NextIteration /\ RecordFailure(Step) /\ UNCHANGED <<sent, evidence>>
    <3>1. Records' /\ Cites'
      BY <2>1, <2>3, FailureRecords DEF NextIteration, Cites
    <3>2. /\ \E x : results' = Append(results, x)
          /\ results \in Seq([step : Steps]) /\ results' \in Seq([step : Steps])
      BY <2>3, <3>1 DEF RecordFailure, Records, Gathered
    <3> QED BY <2>1, <3>1, <3>2, ReplyChats
  <2>4. CASE /\ IF connector = "postgres"
                THEN pc' = "connecting" /\ UNCHANGED sent
                ELSE pc' = "running" /\ sent' = sent \cup {Step}
             /\ UNCHANGED <<iter, evidence, runs, results, outcome>>
    <3>1. CASE pc' = "connecting" /\ UNCHANGED sent
      <4>1. Cites' /\ UNCHANGED gathered
        BY <2>1, <2>4, <3>1 DEF Cites, gathered
      <4> QED BY <1>2, <2>1, <2>4, <3>1, <4>1
    <3>2. CASE pc' = "running" /\ sent' = sent \cup {Step}
      <4>1. Records' /\ Cites'
        BY <2>1, <2>4, <3>2, SentRecords DEF Cites
      <4>2. results' = results /\ results \in Seq([step : Steps])
        BY <2>4 DEF Records, Gathered
      <4> QED BY <2>1, <4>1, <4>2, ReplyChats
    <3> QED BY <2>4, <3>1, <3>2
  <2> QED BY <1>10, <2>2, <2>3, <2>4 DEF Propose
<1> QED BY <1>1, <1>6, <1>7, <1>8, <1>9, <1>10 DEF Model

\* Between requests nothing is gathered; what was is told.
LEMMA TurnRecords ==
    ASSUME Control, Records, Chat, Cites, Start \/ Loop \/ Stop
    PROVE  Records' /\ Chat' /\ Cites'
<1>1. UNCHANGED gathered /\ outcome.kind # "answer" /\ pc # "done"
  BY DEF Start, Loop, Stop, Control, Outcome
<1>2. Records'
  <2>1. \/ UNCHANGED <<pc, iter, outcome>>
        \/ pc # "running" /\ pc' # "running" /\ iter' \in {iter, iter + 1}
    BY DEF Start, Loop, Stop, NonAnswer, End, runnerVars
  <2> QED BY <1>1, <2>1, QuietRecords
<1>3. Chat'
  <2>1. CASE UNCHANGED clientVars
    BY <1>1, <2>1 DEF Chat, clientVars, gathered
  <2> QED BY <2>1, LoopChats DEF Start, Stop, Records
<1>4. Cites'
  <2>1. CASE outcome'.kind # "answer"
    BY <2>1 DEF Cites
  <2>2. CASE NonAnswer("NoReliableAnswer")
    BY <2>2 DEF NonAnswer, End, Answer, Cites
  <2> QED BY <1>1, <2>1, <2>2 DEF Start, Loop, Stop, End
<1> QED BY <1>2, <1>3, <1>4

\* What the executor reports is recorded, evidence or not.
LEMMA EngineRecords ==
    ASSUME Control, Records, Chat, Cites, Engine PROVE Records' /\ Chat' /\ Cites'
<1>1. /\ pc \in {"connecting", "running"} /\ outcome.kind = "none"
      /\ UNCHANGED clientVars
  BY DEF Engine, Connected, StatementOk, StatementFails, Control, Outcome
<1>2. ASSUME results' = results \/ (\E x : results' = Append(results, x)), Records' PROVE Chat'
  <2>1. Len(results') >= Len(results) /\ Len(results') \in Nat
    BY <1>2 DEF Records, Gathered
  <2> QED BY <1>1, <2>1 DEF Chat, clientVars
<1>3. CASE Connected
  <2>1. CASE stopped
    <3>1. End([kind |-> "aborted"]) /\ UNCHANGED <<iter, gathered>>
      BY <1>3, <2>1 DEF Connected, gathered
    <3>2. pc' = "done" /\ outcome'.kind = "aborted"
      BY <3>1 DEF End
    <3>3. Records'
      BY <1>3, <3>1, <3>2, QuietRecords DEF Connected
    <3> QED BY <1>2, <3>1, <3>2, <3>3 DEF Cites, gathered
  <2>2. CASE ~stopped
    <3>1. /\ pc = "connecting" /\ pc' = "running" /\ sent' = sent \cup {Step}
          /\ UNCHANGED <<iter, outcome, evidence, runs, results>>
      BY <1>3, <2>2 DEF Connected
    <3> QED BY <1>1, <1>2, <3>1, SentRecords DEF Cites
  <2> QED BY <2>1, <2>2
<1>4. CASE StatementOk
  <2> DEFINE run == [ref |-> Ref("E", Len(evidence) + 1), step |-> Step, ok |-> TRUE]
  <2>1. /\ pc = "running" /\ evidence' = Append(evidence, Step) /\ NextIteration /\ sent' = sent
        /\ runs' = Append(runs, run) /\ results' = Append(results, [step |-> Step])
    BY <1>4 DEF StatementOk
  <2>2. run \in Runs /\ run.step = Step
    <3>1. Step \in Steps /\ Len(evidence) \in Nat
      BY <2>1 DEF Records, Gathered
    <3> QED BY <3>1 DEF Runs, Refs, Ref
  <2>3. Records'
    BY <2>1, <2>2, RunRecords
  <2> QED BY <1>1, <1>2, <2>1, <2>3 DEF NextIteration, Cites
<1>5. CASE StatementFails
  <2>1. CASE stopped
    <3>1. /\ pc' = "done" /\ outcome' = [kind |-> "aborted"]
          /\ UNCHANGED <<iter, gathered>>
      BY <1>5, <2>1 DEF StatementFails, End, gathered
    <3>2. outcome'.kind = "aborted" /\ Gathered' /\ Numbered'
      BY <3>1 DEF Records, Gathered, Numbered, gathered
    <3>3. Once'
      BY <3>1, <3>2 DEF Records, Once, gathered
    <3> QED BY <1>2, <3>1, <3>2, <3>3 DEF Records, Cites, gathered
  <2>2. CASE ~stopped
    <3>1. /\ NextIteration /\ RecordFailure(Step) /\ UNCHANGED <<sent, evidence>>
      BY <1>5, <2>2 DEF StatementFails
    <3>2. Records'
      BY <1>1, <3>1, FailureRecords
    <3> QED BY <1>1, <1>2, <3>1, <3>2 DEF RecordFailure, NextIteration, Cites
  <2> QED BY <2>1, <2>2
<1> QED BY <1>3, <1>4, <1>5 DEF Engine

-----------------------------------------------------------------------------
(* The theorems.                                                           *)

\* The inductive invariant of a turn.
TurnInv == Control /\ Records /\ Chat /\ Cites

\* A turn starts in the invariant.
LEMMA TurnStarts == Init => TurnInv
<1> SUFFICES ASSUME Init PROVE TurnInv
  OBVIOUS
<1>1. Control
  <2>1. outcome.kind = "none" /\ Outcome
    BY DEF Init, NoOutcome, Outcome
  <2>2. iter \in 0..MaxIterations /\ Window
    BY BudgetAssumption DEF Init, Window
  <2> QED BY <2>1, <2>2 DEF Init, Control, StopEndsTurnWithinBudget
<1>2. Records
  BY DEF Init, NoOutcome, Records, Gathered, Numbered, Once
<1>3. Chat
  BY DEF Init, Chat, NoCall, Call, Calls
<1>4. Cites
  BY DEF Init, NoOutcome, Cites
<1> QED BY <1>1, <1>2, <1>3, <1>4 DEF TurnInv

\* Every step keeps it.
LEMMA TurnInvKept == TurnInv /\ [Next]_vars => TurnInv'
<1> SUFFICES ASSUME TurnInv, [Next]_vars PROVE TurnInv'
  OBVIOUS
<1>1. Control'
  BY ControlKept DEF TurnInv
<1>2. CASE UNCHANGED vars
  BY <1>1, <1>2 DEF TurnInv, vars, runnerVars, gathered, clientVars, Records, Gathered, Numbered,
     Once, Chat, Cites, Step
<1>3. CASE Next
  BY <1>1, <1>3, TurnRecords, ModelRecords, EngineRecords DEF TurnInv, Next
<1> QED BY <1>2, <1>3

\* The invariant bounds and grounds a turn.
LEMMA InvImplies ==
    TurnInv => TypeOK /\ AnswerIsGrounded /\ ObedientModelConcludes /\ StopEndsTurnWithinBudget
<1> SUFFICES ASSUME TurnInv
             PROVE  TypeOK /\ AnswerIsGrounded /\ ObedientModelConcludes /\ StopEndsTurnWithinBudget
  OBVIOUS
<1>1. TypeOK
  <2>1. \A r \in DOMAIN runs : runs[r].step \in Steps /\ runs[r].ok \in BOOLEAN
    BY RecordsAreRuns DEF TurnInv, Records, Runs
  <2>2. \A i \in DOMAIN results : results[i].step \in Steps
    <3>1. \A i \in DOMAIN results : results[i] \in [step : Steps]
      <4>1. results \in Seq([step : Steps]) /\ DOMAIN results = 1..Len(results)
        BY DEF TurnInv, Records, Gathered
      <4> QED BY <4>1, ElementOfSeq
    <3> QED BY <3>1
  <2>3. \A i \in DOMAIN transcript : transcript[i].role \in {"user", "assistant", "tool"}
    <3>1. \A i \in DOMAIN transcript : transcript[i] \in Messages
      BY DEF TurnInv, Chat
    <3> QED BY <3>1 DEF Messages
  <2> QED BY <2>1, <2>2, <2>3 DEF TypeOK, TurnInv, Control, Outcome, Records, Gathered, Chat
<1>2. AnswerIsGrounded
  <2>1. ASSUME NEW i \in DOMAIN evidence
        PROVE  \E r \in DOMAIN runs :
                 /\ runs[r] = [ref |-> Ref("E", i), step |-> evidence[i], ok |-> TRUE]
                 /\ \A q \in DOMAIN runs \ {r} : runs[q].ref # runs[r].ref
    <3>1. PICK r \in DOMAIN runs :
            runs[r] = [ref |-> Ref("E", i), step |-> evidence[i], ok |-> TRUE]
      BY DEF TurnInv, Records, Numbered
    <3>2. runs[r].ref.kind = "E"
      BY <3>1 DEF Ref
    <3> QED BY <3>1, <3>2 DEF TurnInv, Records, Numbered
  <2>2. ASSUME pc \in {"loop", "asking"} \/ outcome.kind \in {"answer", "message"},
               NEW s \in sent
        PROVE  Cardinality({r \in DOMAIN runs : runs[r].step = s}) = 1
    <3>1. pc # "running" /\ outcome.kind # "aborted"
      BY <2>2 DEF TurnInv, Control, Outcome
    <3>2. PICK r \in DOMAIN runs : runs[r].step = s
      BY <3>1 DEF TurnInv, Records, Once
    <3>3. {q \in DOMAIN runs : runs[q].step = s} = {r}
      BY <3>2 DEF TurnInv, Records, Once
    <3> QED BY <3>3, FS_Singleton
  <2> QED BY <2>1, <2>2 DEF AnswerIsGrounded, TurnInv, Cites
<1>3. ObedientModelConcludes
  BY DEF TurnInv, Control, Window, ObedientModelConcludes
<1> QED BY <1>1, <1>2, <1>3 DEF TurnInv, Control

\* For every budget, a turn's state has its types: what a reply or a statement
\* appends to the chat and to the records is of the kind the next step expects.
THEOREM TurnIsTyped == Spec => []TypeOK
  BY TurnStarts, TurnInvKept, InvImplies, PTL DEF Spec

\* For every budget, evidence and the runs that produced it match one to one, an
\* Answered cites some evidence and nothing else, and no statement that reached the
\* engine is missing from the records of a turn that reports something
\* (AgentRunner.run, G3 and G4).
THEOREM TurnIsGrounded == Spec => []AnswerIsGrounded
  BY TurnStarts, TurnInvKept, InvImplies, PTL DEF Spec

\* For every budget of at least two steps, a model that drafts when it is told to
\* is never cut off: one rejected draft still leaves a step.
THEOREM ObedienceConcludes == Spec => []ObedientModelConcludes
  BY TurnStarts, TurnInvKept, InvImplies, PTL DEF Spec

\* For every budget, Stop within it ends the turn as cancelled.
THEOREM StopEnds == Spec => []StopEndsTurnWithinBudget
  BY TurnStarts, TurnInvKept, InvImplies, PTL DEF Spec

-----------------------------------------------------------------------------
(* The transcript.                                                         *)

\* The call c of message i has its response right behind it.
Responded(i, c) ==
    /\ i + 1 \in DOMAIN transcript
    /\ transcript[i + 1].role = "tool" /\ c \in transcript[i + 1].calls
    /\ transcript[i + 1].about = "result" => transcript[i + 1].step = c.step

\* Only the call of the last message may wait for one: the pending one.
CallsAnswered ==
    \A i \in DOMAIN transcript : \A c \in transcript[i].calls :
        transcript[i].role = "assistant" =>
            \/ Responded(i, c)
            \/ i = Len(transcript) /\ pending.kind # "none" /\ c = pending.call

\* What is pending while the turn goes on: nothing when the model is asked, the
\* query being run, and then the query whose result is new or the draft rejected.
PendingFits ==
    /\ pc \in {"start", "asking"} \/ client = "structured" => pending.kind = "none"
    /\ client = "tools" /\ pc \in {"connecting", "running"} =>
         pending.kind = "query" /\ pending.call.step = Step
    /\ client = "tools" /\ pc = "loop" =>
         /\ pending.kind = "query" <=> Len(results) = consumed + 1
         /\ pending.kind = "query" => pending.call.step = results[Len(results)].step
    /\ pending.kind = "final" => pc = "loop" /\ retried

\* Each result is told once when its turn comes, and nothing else as a result.
ResultsTold ==
    /\ \A j, k \in DOMAIN results : results[j].step = results[k].step => j = k
    /\ \A k \in DOMAIN results : results[k].step <= iter
    /\ Len(results) <= consumed + 1 /\ (pc # "loop" => Len(results) = consumed)
    /\ \A k \in 1..consumed : \E i \in DOMAIN transcript : Positions("result", results[k].step) = {i}
    /\ \A i \in DOMAIN transcript : transcript[i].about = "result" =>
         \E k \in 1..consumed : transcript[i].step = results[k].step

\* A rejection that has still to be told.
Owed == IF client = "tools" THEN pending.kind = "final" ELSE retried /\ ~explained

\* The one rejection is told once.
RejectionTold ==
    /\ retried /\ ~Owed => \E i \in DOMAIN transcript : Positions("rejection", 0) = {i}
    /\ ~retried \/ Owed => Positions("rejection", 0) = {}
    /\ Owed => pc = "loop" /\ retried
    /\ explained => retried

Told == client # "fixture" /\ pc # "done" =>
    CallsAnswered /\ PendingFits /\ ResultsTold /\ RejectionTold

\* At most one message is added.
LEMMA AddsOne ==
    ASSUME NEW X \in Seq(Messages), NEW m \in Messages, NEW k \in {0, 1},
           NEW Y, Y = X \o (IF k = 1 THEN <<m>> ELSE <<>>)
    PROVE  /\ Y \in Seq(Messages) /\ Len(Y) = Len(X) + k /\ Len(X) \in Nat
           /\ \A i \in 1..Len(X) : Y[i] = X[i]
           /\ k = 1 => Y[Len(X) + 1] = m
<1>1. CASE k = 1
  <2>1. Y = Append(X, m)
    BY <1>1
  <2> QED BY <1>1, <2>1, AppendProperties
<1>2. CASE k = 0
  <2>1. Y = X
    BY <1>2
  <2> QED BY <1>2, <2>1
<1> QED BY <1>1, <1>2

\* What a request adds behind the n messages so far: the new result (a = 1), the
\* rejection (b = 1) and the prompt (p = 1).
Adds(n, a, b, p) ==
    /\ n \in Nat /\ a \in {0, 1} /\ b \in {0, 1} /\ p \in {0, 1}
    /\ DOMAIN transcript = 1..n /\ n = Len(transcript)
    /\ DOMAIN transcript' = 1..(n + a + b + p)
    /\ \A i \in 1..n : transcript'[i] = transcript[i]
    /\ a = 1 =>
         /\ transcript'[n + 1].role = (IF client = "tools" THEN "tool" ELSE "user")
         /\ transcript'[n + 1].calls = {pending.call} /\ transcript'[n + 1].about = "result"
         /\ transcript'[n + 1].step = results[Len(results)].step
    /\ b = 1 =>
         /\ transcript'[n + a + 1].role = (IF client = "tools" THEN "tool" ELSE "user")
         /\ client = "tools" => transcript'[n + a + 1].calls = {pending.call}
         /\ transcript'[n + a + 1].about = "rejection" /\ transcript'[n + a + 1].step = 0
    /\ p = 1 =>
         /\ transcript'[n + a + b + 1].role = "user" /\ transcript'[n + a + b + 1].about = "prompt"
    /\ a = 1 <=> Len(results) > consumed /\ (client = "tools" => pending.kind = "query")
    /\ b = 1 <=> Owed
    /\ consumed' = IF a = 1 THEN Len(results) ELSE consumed
    /\ pending' = IF a = 1 \/ b = 1 THEN NoCall ELSE pending

\* It adds those.
LEMMA RequestAdds ==
    ASSUME TurnInv, Loop, pc' = "asking", client # "fixture"
    PROVE  \E n, a, b, p : Adds(n, a, b, p)
<1>1. /\ transcript' = transcript \o NewResult \o Rejection \o Prompt
      /\ consumed' = IF NewResult # <<>> THEN Len(results) ELSE consumed
      /\ pending' = IF NewResult \o Rejection # <<>> THEN NoCall ELSE pending
  BY DEF Loop, NonAnswer, End
<1>2. client \in {"tools", "structured"} /\ transcript \in Seq(Messages) /\ Gathered /\ Chat
  BY DEF TurnInv, Control, Clients, Chat, Records
<1> DEFINE r == Message(IF client = "tools" THEN "tool" ELSE "user", {pending.call}, "result",
                        results[Len(results)].step)
           j == Message(IF client = "tools" THEN "tool" ELSE "user",
                        IF client = "tools" THEN {pending.call} ELSE {}, "rejection", 0)
           q == Message("user", {}, "prompt", 0)
           a == IF NewResult = <<>> THEN 0 ELSE 1
           b == IF Rejection = <<>> THEN 0 ELSE 1
           p == IF Prompt = <<>> THEN 0 ELSE 1
<1>3. /\ r.role = (IF client = "tools" THEN "tool" ELSE "user") /\ r.calls = {pending.call}
      /\ r.about = "result" /\ r.step = results[Len(results)].step
      /\ j.role = (IF client = "tools" THEN "tool" ELSE "user")
      /\ client = "tools" => j.calls = {pending.call}
      /\ j.about = "rejection" /\ j.step = 0 /\ q.role = "user" /\ q.about = "prompt"
  BY DEF Message
<1>4. /\ NewResult = IF a = 1 THEN <<r>> ELSE <<>>
      /\ a = 1 <=> Len(results) > consumed /\ (client = "tools" => pending.kind = "query")
  BY DEF NewResult
<1>5. Rejection = (IF b = 1 THEN <<j>> ELSE <<>>) /\ (b = 1 <=> Owed)
  <2>1. CASE client = "tools"
    BY <2>1 DEF Rejection, Owed
  <2>2. CASE client = "structured"
    BY <2>2 DEF Rejection, Owed
  <2> QED BY <1>2, <2>1, <2>2
<1>6. Prompt = IF p = 1 THEN <<q>> ELSE <<>>
  BY DEF Prompt
<1>7. (a = 1 => r \in Messages) /\ j \in Messages /\ q \in Messages
  <2>1. a = 1 => r \in Messages
    <3> SUFFICES ASSUME a = 1 PROVE r \in Messages
      OBVIOUS
    <3>1. <<r>> \in Seq(Messages)
      BY <1>2, <1>4, AppendedAreMessages
    <3> HIDE DEF r
    <3> QED BY <3>1
  <2>2. j \in Messages /\ q \in Messages
    BY <1>2 DEF Message, Messages, Chat
  <2> QED BY <2>1, <2>2
<1>8. a \in {0, 1} /\ b \in {0, 1} /\ p \in {0, 1}
  OBVIOUS
<1>9. (NewResult # <<>> <=> a = 1) /\ (NewResult \o Rejection # <<>> <=> a = 1 \/ b = 1)
  BY <1>4, <1>5
<1> HIDE DEF r, j, q, a, b, p
<1> DEFINE X == transcript \o NewResult
           Y == X \o Rejection
           Z == Y \o Prompt
           n == Len(transcript)
<1>10. /\ X \in Seq(Messages) /\ Len(X) = n + a /\ n \in Nat
       /\ \A i \in 1..n : X[i] = transcript[i]
       /\ a = 1 => X[n + 1] = r
  <2>1. CASE a = 1
    BY <1>2, <1>4, <1>7, <1>8, <2>1, AddsOne
  <2>2. CASE a = 0
    <3>1. X = transcript
      BY <1>2, <1>4, <2>2
    <3> QED BY <1>2, <2>2, <3>1
  <2> QED BY <1>8, <2>1, <2>2
<1> HIDE DEF X
<1>11. /\ Y \in Seq(Messages) /\ Len(Y) = Len(X) + b
       /\ \A i \in 1..Len(X) : Y[i] = X[i]
       /\ b = 1 => Y[Len(X) + 1] = j
  BY <1>5, <1>7, <1>8, <1>10, AddsOne
<1> HIDE DEF Y
<1>12. /\ Z \in Seq(Messages) /\ Len(Z) = Len(Y) + p
       /\ \A i \in 1..Len(Y) : Z[i] = Y[i]
       /\ p = 1 => Z[Len(Y) + 1] = q
  BY <1>6, <1>7, <1>8, <1>11, AddsOne
<1>13. transcript' = Z
  BY <1>1 DEF X, Y
<1> HIDE DEF Z
<1>14. /\ DOMAIN transcript = 1..n /\ DOMAIN transcript' = 1..(n + a + b + p)
       /\ \A i \in 1..n : transcript'[i] = transcript[i]
       /\ a = 1 => transcript'[n + 1] = r
       /\ b = 1 => transcript'[n + a + 1] = j
       /\ p = 1 => transcript'[n + a + b + 1] = q
  <2>1. DOMAIN transcript = 1..n /\ DOMAIN transcript' = 1..(n + a + b + p)
    BY <1>2, <1>8, <1>10, <1>11, <1>12, <1>13
  <2>2. \A i \in 1..n : i \in 1..Len(X) /\ i \in 1..Len(Y)
    BY <1>8, <1>10, <1>11
  <2>3. a = 1 => n + 1 \in 1..Len(X) /\ n + 1 \in 1..Len(Y)
    BY <1>8, <1>10, <1>11
  <2>4. b = 1 => n + a + 1 \in 1..Len(Y)
    BY <1>8, <1>10, <1>11
  <2> QED BY <1>10, <1>11, <1>12, <1>13, <2>1, <2>2, <2>3, <2>4
<1>15. Adds(n, a, b, p)
  BY <1>1, <1>3, <1>4, <1>5, <1>8, <1>9, <1>10, <1>14 DEF Adds
<1> QED BY <1>15

\* A request leaves nothing pending and nothing untold.
LEMMA LoopTells == ASSUME TurnInv, TurnInv', Told, Loop PROVE Told'
<1> SUFFICES ASSUME client # "fixture", pc' # "done"
             PROVE  CallsAnswered' /\ PendingFits' /\ ResultsTold' /\ RejectionTold'
  BY DEF Told, Loop, fixed
<1>1. /\ pc = "loop" /\ pc' = "asking" /\ UNCHANGED <<client, iter, retried, results>>
      /\ explained' = (client = "structured" /\ retried)
      /\ CallsAnswered /\ PendingFits /\ ResultsTold /\ RejectionTold
  BY DEF Loop, NonAnswer, End, Told, fixed, gathered
<1>2. PICK n, a, b, p : Adds(n, a, b, p)
  BY <1>1, RequestAdds
<1>3. /\ n \in Nat /\ a \in {0, 1} /\ b \in {0, 1} /\ p \in {0, 1}
      /\ DOMAIN transcript = 1..n /\ n = Len(transcript)
      /\ DOMAIN transcript' = 1..(n + a + b + p)
      /\ \A i \in 1..n : transcript'[i] = transcript[i]
  BY <1>2, Zenon DEF Adds
<1>4. /\ a = 1 =>
           /\ transcript'[n + 1].role = (IF client = "tools" THEN "tool" ELSE "user")
           /\ transcript'[n + 1].calls = {pending.call} /\ transcript'[n + 1].about = "result"
           /\ transcript'[n + 1].step = results[Len(results)].step
      /\ b = 1 =>
           /\ transcript'[n + a + 1].role = (IF client = "tools" THEN "tool" ELSE "user")
           /\ client = "tools" => transcript'[n + a + 1].calls = {pending.call}
           /\ transcript'[n + a + 1].about = "rejection" /\ transcript'[n + a + 1].step = 0
      /\ p = 1 =>
           /\ transcript'[n + a + b + 1].role = "user"
           /\ transcript'[n + a + b + 1].about = "prompt"
  BY <1>2, Zenon DEF Adds
<1>5. /\ client \in {"tools", "structured"} /\ pending.kind \in {"none", "query", "final"}
      /\ results \in Seq([step : Steps]) /\ Len(results) \in Nat /\ DOMAIN results = 1..Len(results)
      /\ consumed \in 0..Len(results)
  BY DEF TurnInv, Control, Clients, Chat, Records, Gathered
<1>6. /\ a = 1 <=> Len(results) = consumed + 1
      /\ b = 1 <=> Owed
      /\ consumed' = Len(results) /\ (a = 0 => consumed = Len(results))
  <2>1. /\ a = 1 <=> Len(results) > consumed /\ (client = "tools" => pending.kind = "query")
        /\ b = 1 <=> Owed
        /\ consumed' = IF a = 1 THEN Len(results) ELSE consumed
    BY <1>2, Zenon DEF Adds
  <2>2. client = "tools" => (pending.kind = "query" <=> Len(results) = consumed + 1)
    BY <1>1 DEF PendingFits
  <2>3. Len(results) <= consumed + 1
    BY <1>1 DEF ResultsTold
  <2>4. /\ Len(results) \in Nat /\ consumed \in Nat /\ consumed <= Len(results)
        /\ Len(results) > consumed <=> Len(results) = consumed + 1
    <3>1. Len(results) \in Nat /\ consumed \in Nat /\ consumed <= Len(results)
      BY <1>5
    <3>2. PICK m \in Nat : m = Len(results)
      BY <3>1
    <3>3. m > consumed <=> m = consumed + 1
      BY <2>3, <3>1, <3>2
    <3> QED BY <3>1, <3>2, <3>3
  <2>5. a = 1 <=> Len(results) = consumed + 1
    BY <1>5, <2>1, <2>2, <2>4
  <2>6. consumed' = Len(results) /\ (a = 0 => consumed = Len(results))
    <3>1. CASE a = 1
      BY <2>1, <3>1
    <3>2. CASE a # 1
      <4>1. Len(results) <= consumed
        BY <2>3, <2>4, <2>5, <3>2
      <4> QED BY <2>1, <2>4, <3>2, <4>1
    <3> QED BY <3>1, <3>2
  <2> QED BY <2>1, <2>5, <2>6
<1>7. pending'.kind = "none"
  BY <1>1, <1>2, <1>5, <1>6 DEF Adds, PendingFits, Owed, NoCall
<1>8. \A i \in DOMAIN transcript' :
        i \in 1..n \/ (a = 1 /\ i = n + 1) \/ (b = 1 /\ i = n + a + 1) \/ (p = 1 /\ i = n + a + b + 1)
  BY <1>3
<1>9. CallsAnswered'
  <2> SUFFICES ASSUME NEW i \in DOMAIN transcript', NEW c \in transcript'[i].calls,
                      transcript'[i].role = "assistant"
               PROVE  Responded(i, c)'
    BY DEF CallsAnswered
  <2>1. i \in 1..n /\ transcript'[i] = transcript[i]
    BY <1>3, <1>4, <1>8
  <2>2. CASE Responded(i, c)
    BY <1>3, <2>1, <2>2 DEF Responded
  <2>3. CASE i = n /\ pending.kind # "none" /\ c = pending.call
    <3>1. client = "tools"
      BY <1>1, <1>5, <2>3 DEF PendingFits
    <3>2. CASE pending.kind = "query"
      <4>1. a = 1 /\ pending.call.step = results[Len(results)].step
        BY <1>1, <1>6, <3>1, <3>2 DEF PendingFits
      <4> QED BY <1>3, <1>4, <2>3, <3>1, <4>1 DEF Responded
    <3>3. CASE pending.kind = "final"
      <4>1. a = 0 /\ b = 1
        BY <1>1, <1>3, <1>6, <3>1, <3>3 DEF PendingFits, Owed
      <4>2. n + a + 1 = n + 1
        BY <1>3, <4>1
      <4> QED BY <1>3, <1>4, <2>3, <3>1, <4>1, <4>2 DEF Responded
    <3> QED BY <1>5, <2>3, <3>2, <3>3
  <2> QED BY <1>1, <1>3, <2>1, <2>2, <2>3 DEF CallsAnswered
<1>10. PendingFits'
  BY <1>1, <1>7 DEF PendingFits
<1>11. \A s : Positions("result", s)' =
         Positions("result", s) \cup
           (IF a = 1 /\ s = results[Len(results)].step THEN {n + 1} ELSE {})
  <2>1. a = 1 => n + 1 \in DOMAIN transcript'
    BY <1>3
  <2>2. \A i \in 1..n : i \in DOMAIN transcript'
    BY <1>3
  <2> QED BY <1>3, <1>4, <1>8, <2>1, <2>2 DEF Positions
<1>12. ResultsTold'
  <2>1. \A i \in DOMAIN transcript' : transcript'[i].about = "result" =>
          \E k \in 1..Len(results) : transcript'[i].step = results[k].step
    <3> SUFFICES ASSUME NEW i \in DOMAIN transcript', transcript'[i].about = "result"
                 PROVE  \E k \in 1..Len(results) : transcript'[i].step = results[k].step
      OBVIOUS
    <3>1. CASE i \in 1..n
      BY <1>1, <1>3, <1>5, <3>1 DEF ResultsTold
    <3>2. CASE a = 1 /\ i = n + 1
      BY <1>4, <1>5, <1>6, <3>2
    <3> QED BY <1>4, <1>8, <3>1, <3>2
  <2>2. ASSUME NEW k \in 1..Len(results)
        PROVE  \E i \in DOMAIN transcript' : Positions("result", results[k].step)' = {i}
    <3>1. CASE k <= consumed
      <4>0. k \in 1..consumed
        BY <1>5, <3>1
      <4>1. PICK i \in DOMAIN transcript : Positions("result", results[k].step) = {i}
        BY <1>1, <4>0, Zenon DEF ResultsTold
      <4>2. a = 1 => results[k].step # results[Len(results)].step
        BY <1>1, <1>5, <1>6, <3>1 DEF ResultsTold
      <4>3. PICK s : s = results[k].step
        OBVIOUS
      <4>4. Positions("result", s)' = {i} /\ s' = s
        BY <1>11, <4>1, <4>2, <4>3
      <4>5. i \in DOMAIN transcript'
        BY <1>3
      <4>6. results'[k].step = s
        BY <1>1, <4>3
      <4> QED BY <4>4, <4>5, <4>6
    <3>2. CASE a = 1 /\ k = Len(results)
      <4>1. PICK s : s = results[k].step
        OBVIOUS
      <4>2. Positions("result", s) = {}
        <5>1. \A m \in 1..consumed : results[m].step # s
          BY <1>1, <1>5, <1>6, <3>2, <4>1 DEF ResultsTold
        <5> QED BY <1>1, <5>1 DEF ResultsTold, Positions
      <4>3. Positions("result", s)' = {n + 1}
        BY <1>11, <3>2, <4>1, <4>2
      <4>4. n + 1 \in DOMAIN transcript'
        BY <1>3, <3>2
      <4>5. results'[k].step = s
        BY <1>1, <4>1
      <4> QED BY <4>3, <4>4, <4>5
    <3>3. k <= consumed \/ (a = 1 /\ k = Len(results))
      <4>1. PICK m \in Nat : m = Len(results)
        BY <1>5
      <4>2. k \in 1..m /\ consumed \in 0..m /\ (m = consumed \/ (a = 1 /\ m = consumed + 1))
        BY <1>3, <1>5, <1>6, <4>1
      <4>3. k <= consumed \/ (a = 1 /\ k = m)
        BY <4>2
      <4> QED BY <4>1, <4>3
    <3> QED BY <3>1, <3>2, <3>3
  <2>3. (\A k \in 1..consumed : \E i \in DOMAIN transcript :
            Positions("result", results[k].step) = {i})'
    BY <1>1, <1>6, <2>2
  <2>4. (\A i \in DOMAIN transcript : transcript[i].about = "result" =>
           \E k \in 1..consumed : transcript[i].step = results[k].step)'
    BY <1>1, <1>6, <2>1
  <2>5. (/\ \A j, k \in DOMAIN results : results[j].step = results[k].step => j = k
         /\ \A k \in DOMAIN results : results[k].step <= iter
         /\ Len(results) <= consumed + 1 /\ (pc # "loop" => Len(results) = consumed))'
    <3>1. /\ \A j, k \in DOMAIN results : results[j].step = results[k].step => j = k
          /\ \A k \in DOMAIN results : results[k].step <= iter
      BY <1>1 DEF ResultsTold
    <3>2. Len(results) <= Len(results) + 1
      BY <1>5
    <3> QED BY <1>1, <1>6, <3>1, <3>2
  <2> QED BY <2>3, <2>4, <2>5 DEF ResultsTold
<1>13. Positions("rejection", 0)' =
         Positions("rejection", 0) \cup (IF b = 1 THEN {n + a + 1} ELSE {})
  <2>1. b = 1 => n + a + 1 \in DOMAIN transcript'
    BY <1>3
  <2>2. \A i \in 1..n : i \in DOMAIN transcript'
    BY <1>3
  <2> QED BY <1>3, <1>4, <1>8, <2>1, <2>2 DEF Positions
<1>14. RejectionTold'
  <2>1. Owed' = FALSE /\ (explained' => retried)
    BY <1>1, <1>5, <1>7 DEF Owed
  <2>2. ASSUME retried PROVE \E i \in DOMAIN transcript' : Positions("rejection", 0)' = {i}
    <3>1. CASE Owed
      <4>1. n + a + 1 \in DOMAIN transcript'
        BY <1>3, <1>6, <3>1
      <4> QED BY <1>1, <1>6, <1>13, <3>1, <4>1 DEF RejectionTold
    <3>2. CASE ~Owed
      <4>1. PICK i \in DOMAIN transcript : Positions("rejection", 0) = {i}
        BY <1>1, <2>2, <3>2 DEF RejectionTold
      <4>2. i \in DOMAIN transcript' /\ b # 1
        BY <1>3, <1>6, <3>2
      <4> QED BY <1>13, <4>1, <4>2
    <3> QED BY <3>1, <3>2
  <2>3. ~retried => Positions("rejection", 0)' = {}
    BY <1>1, <1>6, <1>13 DEF RejectionTold
  <2> QED BY <1>1, <2>1, <2>2, <2>3 DEF RejectionTold
<1> QED BY <1>9, <1>10, <1>12, <1>14

\* The transcript tells the same results and rejections as before.
TellsTheSame ==
    /\ \A i \in DOMAIN transcript : i \in DOMAIN transcript' /\ transcript'[i] = transcript[i]
    /\ \A i \in DOMAIN transcript' : transcript'[i].about \in {"result", "rejection"} =>
         i \in DOMAIN transcript

\* So each is where it was.
LEMMA SamePlaces ==
    ASSUME TellsTheSame
    PROVE  /\ \A s : Positions("result", s)' = Positions("result", s)
           /\ Positions("rejection", 0)' = Positions("rejection", 0)
  BY DEF TellsTheSame, Positions

\* A record of this step is a new result.
LEMMA NewResultTells ==
    ASSUME TurnInv, ResultsTold, TellsTheSame, pc \in {"asking", "connecting", "running"},
           results' = Append(results, [step |-> Step]), consumed' = consumed,
           iter' = iter + 1, pc' = "loop"
    PROVE  /\ ResultsTold' /\ Len(results') = consumed + 1
           /\ results'[Len(results')].step = Step /\ Len(results) = consumed
<1>1. /\ results \in Seq([step : Steps]) /\ iter \in 0..MaxIterations /\ iter < MaxIterations
  BY DEF TurnInv, Records, Gathered, Control
<1>2. Step = iter + 1 /\ Step \in Steps /\ iter \in Nat /\ [step |-> Step] \in [step : Steps]
  BY <1>1, BudgetAssumption DEF Step, Steps
<1>3. /\ Len(results) \in Nat /\ DOMAIN results = 1..Len(results)
      /\ DOMAIN results' = 1..(Len(results) + 1) /\ Len(results') = Len(results) + 1
      /\ results'[Len(results) + 1] = [step |-> Step]
      /\ \A k \in 1..Len(results) : results'[k] = results[k]
  <2>1. /\ Len(results') = Len(results) + 1
        /\ results'[Len(results) + 1] = [step |-> Step]
        /\ \A k \in 1..Len(results) : results'[k] = results[k]
        /\ results' \in Seq([step : Steps])
    BY <1>1, <1>2, AppendProperties
  <2> QED BY <1>1, <2>1
<1>4. Len(results) = consumed
  BY DEF ResultsTold
<1>5. \A k \in 1..Len(results) : results[k].step \in Nat /\ results[k].step <= iter
  <2>1. \A k \in 1..Len(results) : results[k] \in [step : Steps]
    BY <1>1, ElementOfSeq
  <2> QED BY <1>3, <2>1 DEF ResultsTold, Steps
<1>6. (\A j, k \in DOMAIN results : results[j].step = results[k].step => j = k)'
  BY <1>2, <1>3, <1>5 DEF ResultsTold
<1>7. (\A k \in DOMAIN results : results[k].step <= iter)'
  BY <1>2, <1>3, <1>5
<1>8. \A k \in 1..consumed : results'[k] = results[k]
  BY <1>3, <1>4
<1>9. (\A k \in 1..consumed : \E i \in DOMAIN transcript :
          Positions("result", results[k].step) = {i})'
  <2>1. ASSUME NEW k \in 1..consumed
        PROVE  \E i \in DOMAIN transcript' : Positions("result", results[k].step)' = {i}
    <3>1. PICK s : s = results[k].step
      OBVIOUS
    <3>2. PICK i \in DOMAIN transcript : Positions("result", s) = {i}
      BY <3>1, Zenon DEF ResultsTold
    <3>3. results'[k].step = s /\ Positions("result", s)' = {i} /\ i \in DOMAIN transcript'
      BY <1>8, <3>1, <3>2, SamePlaces DEF TellsTheSame
    <3> QED BY <3>3
  <2> QED BY <2>1
<1>10. (\A i \in DOMAIN transcript : transcript[i].about = "result" =>
          \E k \in 1..consumed : transcript[i].step = results[k].step)'
  BY <1>8 DEF ResultsTold, TellsTheSame
<1>11. (Len(results) <= consumed + 1 /\ (pc # "loop" => Len(results) = consumed))'
  BY <1>3, <1>4
<1>12. ResultsTold'
  BY <1>6, <1>7, <1>9, <1>10, <1>11 DEF ResultsTold
<1>13. Len(results') = consumed + 1 /\ results'[Len(results')].step = Step
  BY <1>3, <1>4
<1> QED BY <1>4, <1>12, <1>13

\* A step that records nothing adds no result to tell.
LEMMA NoResultTells ==
    ASSUME TurnInv, ResultsTold, TellsTheSame, UNCHANGED <<results, consumed>>, pc # "loop",
           iter' \in {iter, iter + 1}
    PROVE  ResultsTold' /\ Len(results) = consumed
<1>1. Len(results) = consumed /\ Len(results) \in Nat /\ iter \in Nat
  BY DEF ResultsTold, TurnInv, Records, Gathered, Control
<1>2. (\A k \in 1..consumed : \E i \in DOMAIN transcript :
          Positions("result", results[k].step) = {i})'
  <2>1. ASSUME NEW k \in 1..consumed
        PROVE  \E i \in DOMAIN transcript' : Positions("result", results[k].step)' = {i}
    <3>1. PICK s : s = results[k].step
      OBVIOUS
    <3>2. PICK i \in DOMAIN transcript : Positions("result", s) = {i}
      BY <3>1, Zenon DEF ResultsTold
    <3>3. results'[k].step = s /\ Positions("result", s)' = {i} /\ i \in DOMAIN transcript'
      BY <3>1, <3>2, SamePlaces DEF TellsTheSame
    <3> QED BY <3>3
  <2> QED BY <2>1
<1>3. (\A i \in DOMAIN transcript : transcript[i].about = "result" =>
          \E k \in 1..consumed : transcript[i].step = results[k].step)'
  BY DEF ResultsTold, TellsTheSame
<1>4. (\A k \in DOMAIN results : results[k].step <= iter)'
  <2>1. \A k \in DOMAIN results : results[k].step \in Nat /\ results[k].step <= iter
    <3>1. results \in Seq([step : Steps]) /\ DOMAIN results = 1..Len(results)
      BY DEF TurnInv, Records, Gathered
    <3>2. \A k \in DOMAIN results : results[k] \in [step : Steps]
      BY <3>1, ElementOfSeq
    <3> QED BY <3>2 DEF ResultsTold, Steps
  <2> QED BY <1>1, <2>1
<1>5. (\A j, k \in DOMAIN results : results[j].step = results[k].step => j = k)'
  BY DEF ResultsTold
<1>6. (Len(results) <= consumed + 1 /\ (pc # "loop" => Len(results) = consumed))'
  BY <1>1
<1> QED BY <1>1, <1>2, <1>3, <1>4, <1>5, <1>6 DEF ResultsTold

\* The reply of the model adds its decision, of which only tools leave a call.
LEMMA ReplyTells ==
    ASSUME TurnInv, Told, NEW kind \in {"query", "final"}, Reply(kind), client # "fixture"
    PROVE  /\ CallsAnswered' /\ TellsTheSame /\ consumed' = consumed /\ pc = "asking"
           /\ CallsAnswered /\ PendingFits /\ ResultsTold /\ RejectionTold
           /\ UNCHANGED <<client, explained>> /\ client \in {"tools", "structured"}
           /\ client = "tools" => pending'.kind = kind /\ pending'.call.step = Step
           /\ client = "structured" => pending'.kind = "none"
<1>1. /\ pc = "asking" /\ UNCHANGED <<client, consumed, explained>>
      /\ CallsAnswered /\ PendingFits /\ ResultsTold /\ RejectionTold
      /\ pending.kind = "none"
  BY DEF Reply, Told, fixed, PendingFits
<1>2. PICK n \in IF client = "tools" THEN 1..2 ELSE {0} :
        /\ transcript' = Append(transcript, Message("assistant", Kept({Call(Step, k) : k \in 1..n}),
                                                    "decision", Step))
        /\ pending' = IF n > 0 /\ kind \in {"query", "final"}
                      THEN [kind |-> kind, call |-> Call(Step, 1)] ELSE pending
  BY Zenon DEF Reply
<1> DEFINE m == Message("assistant", Kept({Call(Step, k) : k \in 1..n}), "decision", Step)
<1>3. /\ m.role = "assistant" /\ m.about = "decision"
      /\ \A c \in m.calls : client = "tools" /\ c = Call(Step, 1)
  <2>1. m.role = "assistant" /\ m.about = "decision"
        /\ m.calls = Kept({Call(Step, k) : k \in 1..n})
    BY DEF Message
  <2>2. n # 0 => client = "tools"
    BY <1>2
  <2>3. n = 0 => 1..n = {}
    OBVIOUS
  <2> QED BY <2>1, <2>2, <2>3 DEF Kept, Call
<1>4. m \in Messages
  <2>1. Step \in Nat /\ 1..n \subseteq Nat
    BY <1>2 DEF TurnInv, Control, Step
  <2>2. Kept({Call(Step, k) : k \in 1..n}) \subseteq Calls
    BY <2>1 DEF Kept, Call, Calls
  <2> QED BY <2>1, <2>2 DEF Message, Messages
<1> HIDE DEF m
<1>5. /\ DOMAIN transcript = 1..Len(transcript) /\ Len(transcript) \in Nat
      /\ DOMAIN transcript' = 1..(Len(transcript) + 1)
      /\ transcript'[Len(transcript) + 1] = m
      /\ \A i \in 1..Len(transcript) : transcript'[i] = transcript[i]
      /\ Len(transcript') = Len(transcript) + 1
  <2>1. transcript \in Seq(Messages) /\ transcript' = Append(transcript, m)
    BY <1>2 DEF TurnInv, Chat, m
  <2> QED BY <1>4, <2>1, AppendProperties
<1>6. TellsTheSame
  BY <1>3, <1>5 DEF TellsTheSame
<1>7. /\ client \in {"tools", "structured"}
      /\ client = "tools" => pending' = [kind |-> kind, call |-> Call(Step, 1)]
      /\ client = "structured" => pending' = pending
  <2>1. client \in {"tools", "structured"}
    BY DEF TurnInv, Control, Clients
  <2>2. (n > 0 <=> client = "tools") /\ (client = "tools" => n \in 1..2)
    BY <1>2, <2>1
  <2> QED BY <1>2, <2>1, <2>2
<1>8. CallsAnswered'
  <2> SUFFICES ASSUME NEW i \in DOMAIN transcript', NEW c \in transcript'[i].calls,
                      transcript'[i].role = "assistant"
               PROVE  \/ Responded(i, c)'
                      \/ i = Len(transcript') /\ pending'.kind # "none" /\ c = pending'.call
    BY DEF CallsAnswered
  <2>1. CASE i \in 1..Len(transcript)
    <3>1. Responded(i, c)
      BY <1>1, <1>5, <2>1 DEF CallsAnswered
    <3> QED BY <1>5, <3>1 DEF Responded
  <2>2. CASE i = Len(transcript) + 1
    BY <1>3, <1>5, <1>7, <2>2
  <2> QED BY <1>5, <2>1, <2>2
<1>9. (pending'.kind = kind /\ pending'.call.step = Step) \/ client = "structured"
  BY <1>7 DEF Call
<1> QED BY <1>1, <1>6, <1>7, <1>8, <1>9

\* A decision after which the turn goes on keeps what is told in order.
LEMMA ModelTells == ASSUME TurnInv, TurnInv', Told, Model PROVE Told'
<1> SUFFICES ASSUME client # "fixture", pc' # "done"
             PROVE  CallsAnswered' /\ PendingFits' /\ ResultsTold' /\ RejectionTold'
  <2>1. client' = client
    BY DEF Model, ModelFails, Reasoning, Conversational, Unblock, NoAction, Final, Propose, Reply,
       fixed
  <2> QED BY <2>1 DEF Told
<1>1. CASE Final
  <2>1. Reply("final") /\ UNCHANGED gathered
    BY <1>1 DEF Final
  <2>2. ~retried /\ retried' = TRUE /\ pc' = "loop" /\ iter' = iter + 1
    BY <1>1 DEF Final, NonAnswer, End, NextIteration
  <2>3. results' = results
    BY <2>1 DEF gathered
  <2>4. /\ CallsAnswered' /\ TellsTheSame /\ consumed' = consumed /\ pc = "asking"
        /\ ResultsTold /\ RejectionTold
        /\ UNCHANGED <<client, explained>> /\ client \in {"tools", "structured"}
        /\ client = "tools" => pending'.kind = "final"
        /\ client = "structured" => pending'.kind = "none"
    BY <2>1, ReplyTells
  <2>5. ResultsTold' /\ Len(results) = consumed
    BY <2>2, <2>3, <2>4, NoResultTells
  <2>6. PendingFits'
    <3>1. consumed \in Nat
      BY DEF TurnInv, Chat
    <3>2. Len(results') # consumed' + 1
      BY <2>3, <2>4, <2>5, <3>1
    <3> QED BY <2>2, <2>4, <3>2 DEF PendingFits
  <2>7. RejectionTold'
    <3>1. Positions("rejection", 0)' = {}
      BY <2>2, <2>4, SamePlaces DEF RejectionTold
    <3>2. ~explained'
      BY <2>2, <2>4 DEF RejectionTold
    <3>3. Owed'
      BY <2>2, <2>4, <3>2 DEF Owed
    <3> QED BY <2>2, <3>1, <3>2, <3>3 DEF RejectionTold
  <2> QED BY <2>4, <2>5, <2>6, <2>7
<1>2. CASE Propose
  <2>1. Reply("query") /\ retried' = retried
    BY <1>2 DEF Propose
  <2>2. /\ CallsAnswered' /\ TellsTheSame /\ consumed' = consumed /\ pc = "asking"
        /\ ResultsTold /\ RejectionTold
        /\ UNCHANGED <<client, explained>> /\ client \in {"tools", "structured"}
        /\ client = "tools" => pending'.kind = "query" /\ pending'.call.step = Step
        /\ client = "structured" => pending'.kind = "none"
    BY <2>1, ReplyTells
  <2>3. RejectionTold'
    <3>1. Positions("rejection", 0)' = Positions("rejection", 0)
      BY <2>2, SamePlaces
    <3>2. ~Owed /\ ~Owed'
      BY <2>1, <2>2 DEF RejectionTold, Owed
    <3>3. retried => \E i \in DOMAIN transcript' : Positions("rejection", 0)' = {i}
      BY <2>2, <3>1, <3>2 DEF RejectionTold, TellsTheSame
    <3> QED BY <2>1, <2>2, <3>1, <3>2, <3>3 DEF RejectionTold
  <2>4. CASE NextIteration /\ RecordFailure(Step)
    <3>1. results' = Append(results, [step |-> Step]) /\ pc' = "loop" /\ iter' = iter + 1
      BY <2>4 DEF NextIteration, RecordFailure
    <3>2. /\ ResultsTold' /\ Len(results') = consumed + 1
          /\ results'[Len(results')].step = Step /\ Len(results) = consumed
      BY <2>2, <3>1, NewResultTells
    <3>3. PendingFits'
      BY <2>2, <3>1, <3>2 DEF PendingFits
    <3> QED BY <2>2, <2>3, <3>2, <3>3
  <2>5. CASE pc' \in {"connecting", "running"} /\ UNCHANGED <<iter, results>>
    <3>1. ResultsTold'
      BY <2>2, <2>5, NoResultTells
    <3>2. Step' = Step
      BY <2>5 DEF Step
    <3>3. PendingFits'
      BY <2>2, <2>5, <3>2 DEF PendingFits
    <3> QED BY <2>2, <2>3, <3>1, <3>3
  <2> QED BY <1>2, <2>4, <2>5 DEF Propose, NonAnswer, End
<1>3. CASE ModelFails \/ Reasoning \/ Conversational \/ Unblock \/ NoAction
  BY <1>3 DEF ModelFails, Reasoning, Conversational, Unblock, NoAction, NonAnswer, End
<1> QED BY <1>1, <1>2, <1>3 DEF Model

\* What was told stays told while the chat does not change.
LEMMA SilenceTells ==
    ASSUME UNCHANGED <<client, retried, clientVars>>, CallsAnswered, RejectionTold,
           pc' = pc \/ pc # "loop"
    PROVE  CallsAnswered' /\ RejectionTold' /\ TellsTheSame
<1>1. UNCHANGED <<transcript, pending, consumed, explained>>
  BY DEF clientVars
<1>2. CallsAnswered'
  BY <1>1 DEF CallsAnswered, Responded
<1>3. RejectionTold'
  BY <1>1 DEF RejectionTold, Owed, Positions
<1>4. TellsTheSame
  BY <1>1 DEF TellsTheSame
<1> QED BY <1>2, <1>3, <1>4

\* The executor records a result to tell, or is still at it.
LEMMA EngineTells == ASSUME TurnInv, TurnInv', Told, Engine PROVE Told'
<1>1. UNCHANGED <<client, retried, clientVars>> /\ pc \in {"connecting", "running"}
  BY DEF Engine, Connected, StatementOk, StatementFails, fixed
<1> SUFFICES ASSUME client # "fixture", pc' # "done"
             PROVE  CallsAnswered' /\ PendingFits' /\ ResultsTold' /\ RejectionTold'
  BY <1>1 DEF Told
<1>2. /\ CallsAnswered /\ PendingFits /\ ResultsTold /\ RejectionTold
      /\ client \in {"tools", "structured"}
      /\ UNCHANGED <<pending, consumed>>
  BY <1>1 DEF Told, TurnInv, Control, Clients, clientVars
<1>3. CallsAnswered' /\ RejectionTold' /\ TellsTheSame
  BY <1>1, <1>2, SilenceTells
<1>4. CASE Connected
  <2>1. pc' = "running" /\ UNCHANGED <<iter, results>>
    BY <1>4 DEF Connected, End
  <2>2. ResultsTold'
    BY <1>1, <1>2, <1>3, <2>1, NoResultTells
  <2>3. PendingFits'
    <3>1. Step' = Step
      BY <2>1 DEF Step
    <3> QED BY <1>1, <1>2, <2>1, <3>1 DEF PendingFits
  <2> QED BY <1>3, <2>2, <2>3
<1>5. CASE NextIteration /\ results' = Append(results, [step |-> Step])
  <2>1. pc' = "loop" /\ iter' = iter + 1
    BY <1>5 DEF NextIteration
  <2>2. /\ ResultsTold' /\ Len(results') = consumed + 1 /\ results'[Len(results')].step = Step
    BY <1>1, <1>2, <1>3, <1>5, <2>1, NewResultTells
  <2>3. PendingFits'
    BY <1>1, <1>2, <2>1, <2>2 DEF PendingFits
  <2> QED BY <1>3, <2>2, <2>3
<1> QED BY <1>4, <1>5 DEF Engine, StatementOk, StatementFails, RecordFailure, End

\* The turn starts, or Stop is pressed.
LEMMA RestTells == ASSUME TurnInv, TurnInv', Told, Start \/ Stop \/ UNCHANGED vars PROVE Told'
<1>1. UNCHANGED <<client, iter, retried, results, clientVars>>
  BY DEF Start, Stop, vars, fixed, runnerVars, gathered
<1> SUFFICES ASSUME client # "fixture", pc' # "done"
             PROVE  CallsAnswered' /\ PendingFits' /\ ResultsTold' /\ RejectionTold'
  BY <1>1 DEF Told
<1>2. UNCHANGED <<transcript, pending, consumed, explained>>
  BY <1>1 DEF clientVars
<1>3. CASE pc' = pc
  <2>1. CallsAnswered /\ PendingFits /\ ResultsTold /\ RejectionTold
    BY <1>3 DEF Told
  <2>2. CallsAnswered' /\ RejectionTold'
    BY <1>1, <1>3, <2>1, SilenceTells
  <2>3. PendingFits'
    BY <1>1, <1>2, <1>3, <2>1 DEF PendingFits, Step
  <2>4. ResultsTold'
    BY <1>1, <1>2, <1>3, <2>1 DEF ResultsTold, Positions
  <2> QED BY <2>2, <2>3, <2>4
<1>4. CASE Start /\ pc' = "loop"
  <2>1. pc = "start" /\ CallsAnswered /\ PendingFits /\ ResultsTold /\ RejectionTold
    BY <1>4 DEF Start, Told
  <2>2. CallsAnswered' /\ RejectionTold' /\ TellsTheSame
    BY <1>1, <2>1, SilenceTells
  <2>3. ResultsTold' /\ Len(results) = consumed
    BY <1>1, <1>2, <2>1, <2>2, NoResultTells
  <2>4. PendingFits'
    <3>1. consumed \in Nat
      BY DEF TurnInv, Chat
    <3>2. Len(results') # consumed' + 1
      BY <1>1, <1>2, <2>3, <3>1
    <3> QED BY <1>1, <1>2, <1>4, <2>1, <3>2 DEF PendingFits
  <2> QED BY <2>2, <2>3, <2>4
<1> QED BY <1>3, <1>4 DEF Start, Stop, End, vars, runnerVars

\* Nothing is told before the turn starts.
LEMMA InitTold == Init => Told
<1> SUFFICES ASSUME Init PROVE CallsAnswered /\ PendingFits /\ ResultsTold /\ RejectionTold
  BY DEF Told
<1>1. /\ pc = "start" /\ retried = FALSE /\ results = <<>> /\ transcript = <<>> /\ consumed = 0
      /\ explained = FALSE /\ pending.kind = "none"
  BY DEF Init, NoCall
<1>2. 1..0 = {} /\ Len(results) = 0 /\ DOMAIN results = {} /\ DOMAIN transcript = {}
  BY <1>1
<1>3. CallsAnswered
  BY <1>2 DEF CallsAnswered
<1>4. PendingFits
  BY <1>1 DEF PendingFits
<1>5. ResultsTold
  BY <1>1, <1>2 DEF ResultsTold
<1>6. RejectionTold
  BY <1>1, <1>2 DEF RejectionTold, Owed, Positions
<1> QED BY <1>3, <1>4, <1>5, <1>6

\* The request that the model is asked with is well formed.
LEMMA ToldImplies == TurnInv /\ Told => TranscriptIsWellFormed
<1> SUFFICES ASSUME TurnInv, Told, pc = "asking", client # "fixture"
             PROVE  /\ \A i \in DOMAIN transcript : \A c \in transcript[i].calls :
                         transcript[i].role = "assistant" =>
                           /\ i + 1 \in DOMAIN transcript
                           /\ transcript[i + 1].role = "tool" /\ c \in transcript[i + 1].calls
                           /\ transcript[i + 1].about = "result" => transcript[i + 1].step = c.step
                    /\ \A k \in DOMAIN results :
                         Cardinality(Positions("result", results[k].step)) = 1
                    /\ Cardinality(Positions("rejection", 0)) = IF retried THEN 1 ELSE 0
  BY DEF TranscriptIsWellFormed
<1>1. CallsAnswered /\ PendingFits /\ ResultsTold /\ RejectionTold
  BY DEF Told
<1>2. \A i \in DOMAIN transcript : \A c \in transcript[i].calls :
        transcript[i].role = "assistant" => Responded(i, c)
  BY <1>1 DEF CallsAnswered, PendingFits
<1>3. ASSUME NEW k \in DOMAIN results
      PROVE  Cardinality(Positions("result", results[k].step)) = 1
  <2>1. k \in 1..consumed
    BY <1>1 DEF ResultsTold, TurnInv, Records, Gathered
  <2>2. PICK i \in DOMAIN transcript : Positions("result", results[k].step) = {i}
    BY <1>1, <2>1, Zenon DEF ResultsTold
  <2> QED BY <2>2, FS_Singleton
<1>4. Cardinality(Positions("rejection", 0)) = IF retried THEN 1 ELSE 0
  <2>1. ~Owed
    BY <1>1 DEF RejectionTold
  <2>2. CASE retried
    <3>1. PICK i \in DOMAIN transcript : Positions("rejection", 0) = {i}
      BY <1>1, <2>1, <2>2, Zenon DEF RejectionTold
    <3> QED BY <2>2, <3>1, FS_Singleton
  <2>3. CASE ~retried
    BY <1>1, <2>3, FS_EmptySet DEF RejectionTold
  <2> QED BY <2>2, <2>3
<1> QED BY <1>2, <1>3, <1>4 DEF Responded

\* For every budget, whenever a model is asked, each tool call so far has its
\* response right behind it, and each result and the rejection were told once
\* (OpenAIAgentProvider's messages).
THEOREM TurnIsTold == Spec => []TranscriptIsWellFormed
<1>1. TurnInv /\ TurnInv' /\ Told /\ [Next]_vars => Told'
  BY LoopTells, ModelTells, EngineTells, RestTells DEF Next
<1> QED BY TurnStarts, TurnInvKept, InitTold, <1>1, ToldImplies, PTL DEF Spec
=============================================================================
