SPECIFICATION Spec
CONSTANTS
  Founders = {ann, bob}
  Links = {link}
  Requests = {r1, r2}
  Names = {new1}
  MaxTime = 0
  None = none
INVARIANT SourceKeepsAnOwner
CHECK_DEADLOCK FALSE
