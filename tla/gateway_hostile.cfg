\* Two runs of one job id on two workers, with every hazard of the environment;
\* the Redis commands of the first never raise, those of the second may.
SPECIFICATION Spec
CONSTANTS
  j1 = j1  j2 = j2  r1 = r1  r2 = r2  w1 = w1  w2 = w2
  Job <- OneJob
  Run <- TwoRuns
  JobOf <- SameId
  Worker <- TwoWorkers
  WorkerOf <- OnBoth
  NoRun = NoRun
  Faulty <- SecondRun
  Mortal <- TwoWorkers
  Removable <- OneJob
INVARIANTS NoOrphan CompletedHasResult KeptKeysExpire FailedNeedsFault
PROPERTIES StaleResultNeedsRerun
