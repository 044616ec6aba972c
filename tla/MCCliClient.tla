------------------------------ MODULE MCCliClient -----------------------------
(***************************************************************************)
(* Instances of CliClient for TLC: two jobs, one of which is posted by the *)
(* crawl command; the second of them meets every fault.                    *)
(***************************************************************************)
EXTENDS CliClient, TLC

CONSTANTS j1, j2, r1, r2, w1, w2

TwoJobs == {j1, j2}
TwoRuns == {r1, r2}
TwoWorkers == {w1, w2}

OwnIds == r1 :> j1 @@ r2 :> j2
OnBoth == r1 :> w1 @@ r2 :> w2
SecondRun == {r2}
SecondWorker == {w2}

SecondJob == {j2}
===============================================================================
