----------------------------- MODULE AgentRunner ------------------------------
(***************************************************************************)
(* One turn of the agent: AgentRunner.run (packages/core/agent), the model *)
(* client that keeps the chat transcript (packages/core/provider-openai)   *)
(* and the statement it has in flight at the executor (packages/           *)
(* connectors).  The model is external: at each request it may decide      *)
(* anything, fail, or ignore what it was told.  Stop may be pressed at any *)
(* await.                                                                  *)
(***************************************************************************)
EXTENDS Naturals, Sequences, FiniteSets

CONSTANT MaxIterations   \* the per-turn step budget, 16 by default

ASSUME BudgetAssumption == MaxIterations \in Nat \ {0}

VARIABLES
    client,      \* how decisions are obtained: tool calls, JSON objects, a script
    connector,   \* what executes the statements
    pc,          \* where the turn stands
    iter,        \* the loop's counter
    stopped,     \* signal.aborted
    retried,     \* finalRetried
    sent,        \* steps whose statement reached the engine
    evidence,    \* the Evidence gathered: the step each item came from
    runs,        \* queryRuns
    results,     \* history.toolResults
    transcript,  \* messages, as the next request will send them
    pending,     \* tool call waiting for its response: pendingCallId, pendingFinalCallId
    consumed,    \* results already fed back
    explained,   \* validationFeedbackConsumed
    obeyed,      \* when told to finalize, the model has always done so
    outcome      \* what run returned or threw

runnerVars == <<pc, iter, retried>>
clientVars == <<transcript, pending, consumed, explained>>
gathered == <<sent, evidence, runs, results>>
fixed == <<client, connector>>
vars == <<fixed, runnerVars, stopped, gathered, clientVars, obeyed, outcome>>

Clients == {"tools", "structured", "fixture"}
Connectors == {"postgres", "sample"}
Steps == 1..MaxIterations
MissingKinds == {"business_object", "time_range", "authorization", "mutation_required",
                 "ambiguous_definition", "unverified_mapping", "insufficient_results"}
\* Those a turn can end with; Partial is in the contract, but nothing produces it.
Statuses == {"Answered", "BlockedByPolicy", "NoReliableAnswer", "NeedsClarification"}
Confidences == {"High", "Medium", "Low", "CannotDetermine"}
LegalConfidences == [s \in Statuses |->   \* LEGAL_STATUS_CONFIDENCE
    CASE s = "Answered" -> Confidences \ {"CannotDetermine"}
      [] s = "NoReliableAnswer" -> {"Low", "CannotDetermine"}
      [] OTHER -> {"CannotDetermine"}]

Ref(kind, n) == [kind |-> kind, n |-> n]   \* E1, E2, ... and qe1, qe2, ...
Call(step, n) == [step |-> step, n |-> n]  \* n-th tool call of the reply of a step
NoCall == [kind |-> "none", call |-> Call(0, 0)]
Message(role, calls, about, step) ==
    [role |-> role, calls |-> calls, about |-> about, step |-> step]
NoOutcome == [kind |-> "none"]
Answer(status, confidence, cites) ==
    [kind |-> "answer", status |-> status, confidence |-> confidence, cites |-> cites]

TypeOK ==
    /\ client \in Clients
    /\ connector \in Connectors
    /\ pc \in {"start", "loop", "asking", "connecting", "running", "done"}
    /\ iter \in 0..MaxIterations
    /\ {stopped, retried, explained, obeyed} \subseteq BOOLEAN
    /\ sent \subseteq Steps
    /\ evidence \in Seq(sent)
    /\ \A i \in DOMAIN runs : runs[i].step \in Steps /\ runs[i].ok \in BOOLEAN
    /\ \A i \in DOMAIN results : results[i].step \in Steps
    /\ \A i \in DOMAIN transcript :
         transcript[i].role \in {"user", "assistant", "tool"}
    /\ pending.kind \in {"none", "query", "final"}
    /\ consumed \in 0..Len(results)
    /\ outcome.kind \in {"none", "answer", "message", "aborted", "failed"}
    /\ outcome.kind = "answer" =>
         outcome.status \in Statuses /\ outcome.confidence \in LegalConfidences[outcome.status]

Init ==
    /\ client \in Clients
    /\ connector \in Connectors
    /\ pc = "start"
    /\ iter = 0
    /\ stopped = FALSE
    /\ retried = FALSE
    /\ sent = {}
    /\ evidence = <<>>
    /\ runs = <<>>
    /\ results = <<>>
    /\ transcript = <<>>
    /\ pending = NoCall
    /\ consumed = 0
    /\ explained = FALSE
    /\ obeyed = TRUE
    /\ outcome = NoOutcome

Step == iter + 1   \* names the decision of this iteration

\* Mutation: one step too many.
OutOfBudgetLate == iter > MaxIterations
OutOfBudget == iter = MaxIterations

\* Mutation: only the very last step.
MustFinalizeOnce == iter + 1 >= MaxIterations

\* Over the last two steps the model is told to answer with what it has.
MustFinalize == iter + 2 >= MaxIterations

-----------------------------------------------------------------------------
(* How a turn ends.                                                        *)

End(result) == pc' = "done" /\ outcome' = result

\* An Answer carries all the evidence gathered this turn, whatever its status.
\* Findings and charts of a draft cite evidence; a non-answer cites none.
NonAnswer(status) == End(Answer(status, "CannotDetermine", {}))

\* What toDraft can make of the arguments of final_answer: always an Answered, with
\* a confidence of the list, perhaps without its reason; findings that cite
\* nothing are dropped, the others may cite evidence there is not.
Drafts == [confidence : Confidences, reason : BOOLEAN, cites : SUBSET (1..(Len(evidence) + 1))]

\* Mutation: citations are not looked up.
ValidShape(draft) ==
    draft.confidence \in LegalConfidences["Answered"] /\ draft.reason /\ draft.cites # {}

\* validateAnswer and the schema: a legal confidence with its reason, at least
\* one finding, and no citation of unknown evidence.
Valid(draft) ==
    /\ draft.confidence \in LegalConfidences["Answered"]
    /\ draft.reason
    /\ draft.cites # {}
    /\ draft.cites \subseteq DOMAIN evidence

\* resolveUnblock: a policy block dominates, then unreliable, then clarification.
StatusFor(missing) ==
    IF missing \cap {"mutation_required", "authorization"} # {} THEN "BlockedByPolicy"
    ELSE IF missing \cap {"unverified_mapping", "insufficient_results"} # {}
         THEN "NoReliableAnswer"
         ELSE "NeedsClarification"

\* gateRejectToMissing, for the reasons that end a turn.
MissingFor(reason) ==
    IF reason = "not_read_only" THEN {"mutation_required"} ELSE {"insufficient_results"}

NextIteration == pc' = "loop" /\ iter' = iter + 1 /\ UNCHANGED outcome

-----------------------------------------------------------------------------
(* The loop.                                                               *)

\* A greeting gets a canned reply; an aborted signal ends the run before it.
Start ==
    /\ pc = "start"
    /\ \/ stopped /\ End([kind |-> "aborted"])
       \/ ~stopped /\ End([kind |-> "message"])
       \/ ~stopped /\ pc' = "loop" /\ UNCHANGED outcome
    /\ UNCHANGED <<fixed, iter, retried, stopped, gathered, clientVars, obeyed>>

\* What the client appends before a request: the newest result, as the response
\* to the call that asked for it; why a final answer was rejected, once; and the
\* question or the last-step notice.
NewResult ==
    IF Len(results) > consumed /\ (client = "tools" => pending.kind = "query")
    THEN <<Message(IF client = "tools" THEN "tool" ELSE "user", {pending.call},
                   "result", results[Len(results)].step)>>
    ELSE <<>>

\* Mutation: only JSON clients are told why a draft was rejected.
RejectionOfJson ==
    IF client = "structured" /\ retried /\ ~explained
    THEN <<Message("user", {}, "rejection", 0)>> ELSE <<>>

Rejection ==
    CASE client = "tools" /\ pending.kind = "final" ->
           <<Message("tool", {pending.call}, "rejection", 0)>>
      [] client = "structured" /\ retried /\ ~explained ->
           <<Message("user", {}, "rejection", 0)>>
      [] OTHER -> <<>>

Prompt ==
    IF transcript = <<>> \/ MustFinalize THEN <<Message("user", {}, "prompt", 0)>> ELSE <<>>

\* Between steps: out of budget, stopped, or one more request to the model.
Loop ==
    /\ pc = "loop"
    /\ IF OutOfBudget
       THEN NonAnswer("NoReliableAnswer") /\ UNCHANGED clientVars
       ELSE IF stopped
       THEN End([kind |-> "aborted"]) /\ UNCHANGED clientVars
       ELSE /\ pc' = "asking"
            /\ IF client = "fixture"
               THEN UNCHANGED clientVars
               ELSE /\ transcript' = transcript \o NewResult \o Rejection \o Prompt
                    /\ consumed' = IF NewResult # <<>> THEN Len(results) ELSE consumed
                    /\ pending' = IF NewResult \o Rejection # <<>> THEN NoCall ELSE pending
                    /\ explained' = (client = "structured" /\ retried)
            /\ UNCHANGED outcome
    /\ UNCHANGED <<fixed, iter, retried, stopped, gathered, obeyed>>

\* Mutation: a cancelled request counts as a failed one.
ModelFailsAlways ==
    /\ pc = "asking"
    /\ client # "fixture"
    /\ End([kind |-> "failed"])
    /\ UNCHANGED <<fixed, iter, retried, stopped, gathered, clientVars, obeyed>>

\* The request fails for good, or is cancelled: a request whose signal fires
\* always rejects.
ModelFails ==
    /\ pc = "asking"
    /\ client # "fixture"
    /\ End([kind |-> IF stopped THEN "aborted" ELSE "failed"])
    /\ UNCHANGED <<fixed, iter, retried, stopped, gathered, clientVars, obeyed>>

\* Mutation: all the tool calls of a reply are recorded.
KeptAll(calls) == calls

\* Of the tool calls of a reply only the first, which is acted on, is recorded.
Kept(calls) == {c \in calls : c.n = 1}

\* The reply arrives; the assistant message joins the transcript, and a query
\* or a final answer leaves its call pending.
Reply(kind) ==
    /\ pc = "asking"
    /\ ~stopped
    /\ obeyed' = (obeyed /\ (MustFinalize => kind = "final"))
    /\ IF client = "fixture"
       THEN UNCHANGED <<transcript, pending>>
       ELSE \E n \in IF client = "tools" /\ kind # "none" THEN 1..2 ELSE {0} :
              /\ transcript' =
                   Append(transcript, Message("assistant", Kept({Call(Step, k) : k \in 1..n}),
                                              "decision", Step))
              /\ pending' = IF n > 0 /\ kind \in {"query", "final"}
                            THEN [kind |-> kind, call |-> Call(Step, 1)] ELSE pending
    /\ UNCHANGED <<fixed, stopped, consumed, explained>>

\* Mutation: reasoning is free.
ReasoningFree ==
    /\ client = "fixture"
    /\ Reply("reasoning")
    /\ pc' = "loop"
    /\ UNCHANGED <<iter, outcome, retried, gathered>>

\* Only scripted providers reason aloud.
Reasoning ==
    /\ client = "fixture"
    /\ Reply("reasoning")
    /\ NextIteration
    /\ UNCHANGED <<retried, gathered>>

\* reply and draft_sql make no claim about the data.
Conversational ==
    /\ Reply("message")
    /\ End([kind |-> "message"])
    /\ UNCHANGED <<iter, retried, gathered>>

\* cannot_answer names what is missing.
Unblock ==
    /\ Reply("unblock")
    /\ \E missing \in (SUBSET MissingKinds) \ {{}} : NonAnswer(StatusFor(missing))
    /\ UNCHANGED <<iter, retried, gathered>>

\* The reply takes no action.
NoAction ==
    /\ client # "fixture"
    /\ Reply("none")
    /\ NonAnswer(StatusFor({"insufficient_results"}))
    /\ UNCHANGED <<iter, retried, gathered>>

\* A draft that meets the contract is the answer; one that does not is sent
\* back once, and after that replaced by an honest non-answer.
Final ==
    /\ Reply("final")
    /\ \E draft \in Drafts :
         IF Valid(draft)
         THEN End(Answer("Answered", draft.confidence, draft.cites)) /\ UNCHANGED <<iter, retried>>
         ELSE IF retried
         THEN NonAnswer("NoReliableAnswer") /\ UNCHANGED <<iter, retried>>
         ELSE NextIteration /\ retried' = TRUE
    /\ UNCHANGED gathered

\* A run that is not evidence: recorded, and fed back so the model can correct.
RecordFailure(step) ==
    LET failed == Cardinality({i \in DOMAIN runs : ~runs[i].ok}) IN
    /\ runs' = Append(runs, [ref |-> Ref("qe", failed + 1), step |-> step, ok |-> FALSE])
    /\ results' = Append(results, [step |-> step])

\* The safety gate: writes and maintenance end the turn, mistakes are fed back,
\* the rest goes to the engine.
Propose ==
    /\ Reply("query")
    /\ \/ /\ \E reason \in {"not_read_only", "admin_or_maintenance"} :
               NonAnswer(StatusFor(MissingFor(reason)))
          /\ UNCHANGED <<iter, gathered>>
       \/ NextIteration /\ RecordFailure(Step) /\ UNCHANGED <<sent, evidence>>
       \/ /\ IF connector = "postgres"
             THEN pc' = "connecting" /\ UNCHANGED sent
             ELSE pc' = "running" /\ sent' = sent \cup {Step}
          /\ UNCHANGED <<iter, evidence, runs, results, outcome>>
    /\ UNCHANGED retried

\* A pooled connection and its pid are there: the statement starts, unless the
\* signal fired meanwhile.
Connected ==
    /\ pc = "connecting"
    /\ IF stopped
       THEN End([kind |-> "aborted"]) /\ UNCHANGED sent
       ELSE pc' = "running" /\ sent' = sent \cup {Step} /\ UNCHANGED outcome
    /\ UNCHANGED <<fixed, iter, retried, stopped, evidence, runs, results, clientVars, obeyed>>

\* The statement returns rows, also when it was being cancelled too late.
StatementOk ==
    /\ pc = "running"
    /\ evidence' = Append(evidence, Step)
    /\ runs' = Append(runs, [ref |-> Ref("E", Len(evidence) + 1), step |-> Step, ok |-> TRUE])
    /\ results' = Append(results, [step |-> Step])
    /\ NextIteration
    /\ UNCHANGED <<fixed, retried, stopped, sent, clientVars, obeyed>>

\* No connection, an engine error or a time limit is fed back; a cancelled
\* statement ends the turn.
StatementFails ==
    /\ pc \in {"connecting", "running"}
    /\ IF stopped
       THEN End([kind |-> "aborted"]) /\ UNCHANGED <<iter, runs, results>>
       ELSE RecordFailure(Step) /\ NextIteration
    /\ UNCHANGED <<fixed, retried, stopped, sent, evidence, clientVars, obeyed>>

\* Stop, or the client leaves, while the turn awaits something.
Stop ==
    /\ pc \in {"start", "connecting", "running"} \/ (pc = "asking" /\ client # "fixture")
    /\ ~stopped
    /\ stopped' = TRUE
    /\ UNCHANGED <<fixed, runnerVars, gathered, clientVars, obeyed, outcome>>

-----------------------------------------------------------------------------

Model == ModelFails \/ Reasoning \/ Conversational \/ Unblock \/ NoAction \/ Final \/ Propose
Engine == Connected \/ StatementOk \/ StatementFails
Next == Start \/ Loop \/ Model \/ Engine \/ Stop

\* The event loop runs; the transport gives up on a silent model; the engine's
\* statement_timeout ends every statement.
Fairness == WF_vars(Start \/ Loop) /\ WF_vars(Model) /\ WF_vars(Engine)

Spec == Init /\ [][Next]_vars /\ Fairness

-----------------------------------------------------------------------------
(* Safety.                                                                 *)

Positions(about, step) ==
    {i \in DOMAIN transcript : transcript[i].about = about /\ transcript[i].step = step}

\* Whenever the model is asked again, every tool call of the transcript is
\* answered by the very next message, a query's call with the result of that
\* query, and each result and each rejection has been told exactly once: an
\* unanswered call makes the provider refuse the request (OpenAIAgentProvider).
TranscriptIsWellFormed ==
    pc = "asking" /\ client # "fixture" =>
        /\ \A i \in DOMAIN transcript : \A c \in transcript[i].calls :
             transcript[i].role = "assistant" =>
                 /\ i + 1 \in DOMAIN transcript
                 /\ transcript[i + 1].role = "tool" /\ c \in transcript[i + 1].calls
                 /\ transcript[i + 1].about = "result" => transcript[i + 1].step = c.step
        /\ \A k \in DOMAIN results : Cardinality(Positions("result", results[k].step)) = 1
        /\ Cardinality(Positions("rejection", 0)) = IF retried THEN 1 ELSE 0

\* Each item of Evidence was produced by one recorded, successful run that
\* carries its reference and no other run does, so saveAnswer can bind it; a
\* returned Answered cites some of it and nothing else (G3, AgentRunner.run).  A
\* turn that goes on, answers or replies has recorded every statement that reached
\* the engine, once, failed ones too (G4); a stopped turn reports nothing.
AnswerIsGrounded ==
    /\ \A i \in DOMAIN evidence :
         \E r \in DOMAIN runs :
            /\ runs[r] = [ref |-> Ref("E", i), step |-> evidence[i], ok |-> TRUE]
            /\ \A q \in DOMAIN runs \ {r} : runs[q].ref # runs[r].ref
    /\ outcome.kind = "answer" =>
         /\ outcome.cites \subseteq DOMAIN evidence
         /\ outcome.status = "Answered" => outcome.cites # {}
    /\ pc \in {"loop", "asking"} \/ outcome.kind \in {"answer", "message"} =>
         \A s \in sent : Cardinality({r \in DOMAIN runs : runs[r].step = s}) = 1

\* With a model that finalizes when it is told to, no turn runs out of budget:
\* the last two steps leave room for an answer and its one correction.
ObedientModelConcludes ==
    MaxIterations >= 2 /\ obeyed => iter < MaxIterations

\* A stopped turn ends as cancelled, so nothing of it is persisted, except that
\* a statement of the last budgeted step that completes although Stop was pressed
\* leaves the loop without passing its check (AgentRunner.run).
StopEndsTurnWithinBudget ==
    stopped /\ pc = "done" /\ iter < MaxIterations => outcome.kind = "aborted"

-----------------------------------------------------------------------------
(* Liveness.                                                               *)

\* Every turn ends, whatever the model does (the step budget).
EveryTurnEnds == <>(pc = "done")
=============================================================================
