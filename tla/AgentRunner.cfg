\* Two free steps and the two in which the model is told to finalize.
SPECIFICATION Spec
CONSTANT MaxIterations = 4
INVARIANTS
  TypeOK
  TranscriptIsWellFormed
  AnswerIsGrounded
  ObedientModelConcludes
  StopEndsTurnWithinBudget
PROPERTIES
  EveryTurnEnds
\* A turn that is done stays done.
CHECK_DEADLOCK FALSE
