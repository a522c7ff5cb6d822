\* Three requests: a pair that races and one before, after or between them.
SPECIFICATION Spec
CONSTANTS
  Tables = {table}
  Requests = {r1, r2, r3}
  MaxParams = 1
  None = none
SYMMETRY AnyRequest
INVARIANTS
  TypeOK
  ConnectorIsCurrent
  BlockedOnlyByUse
PROPERTY AuthoringKeepsPublishedReady
\* Every request may have ended.
CHECK_DEADLOCK FALSE
