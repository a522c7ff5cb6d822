\* Any two requests on one source with an open suggestion: two reviewers, two
\* calibrations, or a review against an edit, while members are removed.
SPECIFICATION Spec
CONSTANTS
  Users = {ann, bob}
  Requests = {r1, r2}
  Raised = {s1}
  Terms = {spend, churn}
  Pairs = {fk}
  Seed = seed
  MaxCopies = 2
  None = none
SYMMETRY Interchangeable
INVARIANTS
  TypeOK
  OneVerdict
  AcceptedIsApplied
  OnlyAuthorsDecide
  DuplicatesNeedAnOverlap
\* Every request may have ended.
CHECK_DEADLOCK FALSE
