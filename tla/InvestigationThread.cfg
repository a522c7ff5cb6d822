\* An opener and two asks that race: enough for a correction or a rerun against a
\* follow-up, and for a queue of two behind a lock holder.
SPECIFICATION Spec
CONSTANTS
  Asks = {opener, a1, a2}
  Opener = opener
  None = none
INVARIANTS
  TypeOK
  VersionChain
  TurnsMirrorAnswers
  CorrectionReplacesRaised
  RefusedOnlyWhenOvertaken
PROPERTIES
  AppendOnlyLog
  EveryAskSettles
\* Every ask may end: the thread is then at rest.
CHECK_DEADLOCK FALSE
