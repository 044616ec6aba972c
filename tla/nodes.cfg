\* One pass through the three nodes, first or cached, for every combination of
\* providers, way to start the sandbox and fields of the request.  The threshold is
\* one that two records of two fields can meet exactly.
SPECIFICATION FairSpec
CONSTANTS
  title = title  price = price
  Field <- TwoFields
  MinTenths = 5
  Requests <- AllRequests
  Setups <- AllSetups
  Programs <- SomePrograms
  Outputs <- SomeOutputs
INVARIANTS OnlyWatchedCodeRuns PassedIsEarned ProvidersExhausted
PROPERTY ImplementsPass
CHECK_DEADLOCK FALSE
