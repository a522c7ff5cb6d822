\* A lone owner, one link and any three requests: enough for one to be made an
\* owner and for two others to redeem, remove, log in or roll back across it.
SPECIFICATION Spec
CONSTANTS
  Founders = {ann}
  Links = {link}
  Requests = {r1, r2, r3}
  Names = {new1, new2}
  MaxTime = 1
  None = none
SYMMETRY Interchangeable
INVARIANTS
  TypeOK
  OneJoinPerLink
  RolesAreGranted
  LoserLeavesNothing
  OneFirstUser
PROPERTY LastOwnerLostOnlyToARace
\* Every request may have ended.
CHECK_DEADLOCK FALSE
