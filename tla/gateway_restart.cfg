\* README.md:171-172, recovery after a worker restart, against in-process tasks.
SPECIFICATION FairSpec
CONSTANTS
  j1 = j1  j2 = j2  r1 = r1  r2 = r2  w1 = w1  w2 = w2
  Job <- OneJob
  Run <- TwoRuns
  JobOf <- SameId
  Worker <- TwoWorkers
  WorkerOf <- OnBoth
  NoRun = NoRun
  Faulty <- Nothing
  Mortal <- TwoWorkers
  Removable <- Nothing
PROPERTY RecoversAfterRestart
