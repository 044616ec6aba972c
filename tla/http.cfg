\* Two callers share one client; every mixture of tasks and threads, every answer.
SPECIFICATION FairSpec
CONSTANTS
  c1 = c1  c2 = c2
  Caller <- TwoCallers
  Interval = 2
  Modes <- AllModes
  None = None
  Redirects <- ZeroOrOne
  MaxAddresses = 2
INVARIANT GivesUpLate
PROPERTIES Paced FetchEnds
