\* Two runs share a session, a thread, both or neither, with restarts, expiry and
\* Redis errors, in production and in development.
SPECIFICATION Spec
CONSTANTS
  r1 = r1  r2 = r2  t1 = t1  t2 = t2  s1 = s1  s2 = s2
  Run <- TwoRuns
  Thread <- TwoThreads
  Session <- TwoSessions
  Requests <- AllRequests
  Environment <- BothEnvironments
  Talk <- TwoEach
  Limit = 3
  Faulty <- SecondRun
INVARIANTS NewMessagesSaved BufferIsRecent ProductionIsDurable
