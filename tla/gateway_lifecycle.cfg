\* Two jobs, posted once each, one of them by the command line client: nothing
\* goes wrong with the first; the second meets Redis errors, crashes and
\* shutdowns of its worker, and the removal of its keys.
SPECIFICATION CliFairSpec
CONSTANTS
  j1 = j1  j2 = j2  r1 = r1  r2 = r2  w1 = w1  w2 = w2
  Job <- TwoJobs
  Run <- TwoRuns
  JobOf <- OwnIds
  Worker <- TwoWorkers
  WorkerOf <- OnBoth
  NoRun = NoRun
  Faulty <- SecondRun
  Mortal <- SecondWorker
  Removable <- SecondJob
  Commands <- TwoRuns
PROPERTIES ImplementsFairLifecycle CliEnds CliShowsOutcome
