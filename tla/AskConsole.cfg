\* Two turns of one tab over an earlier thread or a new one.
SPECIFICATION Spec
CONSTANTS
  MaxAsks = 2
  Questions = {why, when}
  Models = {m1, m2}
  Old = old
  None = none
INVARIANTS
  OneModelPerThread
  ScreenMirrorsThread
  AnswersFitTheirQuestions
PROPERTIES
  EveryTurnSettles
\* The visit may end.
CHECK_DEADLOCK FALSE
