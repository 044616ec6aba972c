\* Two overlapping runs, of one request or of two, with memory errors and crashes.
SPECIFICATION FairSpec
CONSTANTS
  a1 = a1  a2 = a2  t1 = t1  t2 = t2  articles = articles  products = products
  None = None
  Run <- TwoRuns
  Thread <- TwoThreads
  DataType <- TwoTypes
  Requests <- RepeatedOrSeparate
  Faulty <- TwoRuns
  Mortal = TRUE
INVARIANTS TypeOK EarnedSuccess NoStaleRecords AlertHasAnalysis ContextIsBacked
PROPERTY EveryRunAnswered
CHECK_DEADLOCK FALSE
