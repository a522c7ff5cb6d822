\* An interrupted boot rolls back.
SPECIFICATION BootSpec
CONSTANTS
  N = 12
  DataSources = 3
  Lifecycle = 4
  Repeatable = {7, 12}
  Needs <- MCNeeds
  Requests = {r1}
INVARIANT EveryBootRuns
