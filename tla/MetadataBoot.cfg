\* The migrations as they are, over every data directory a release left behind.
SPECIFICATION BootSpec
CONSTANTS
  N = 12
  DataSources = 3
  Lifecycle = 4
  Repeatable = {7, 12}
  Needs <- MCNeeds
  Requests = {r1, r2}
INVARIANTS
  ServesWholeSchema
  UntornBootsRun
PROPERTIES
  TransientFailuresPass
