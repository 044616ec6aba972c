------------------------------ MODULE MCGateway -------------------------------
(***************************************************************************)
(* Instances of Gateway for TLC: two submissions, which either name two    *)
(* jobs or resubmit the same one, accepted by the two workers the image    *)
(* starts.                                                                 *)
(***************************************************************************)
EXTENDS Gateway, TLC

CONSTANTS j1, j2, r1, r2, w1, w2

OneJob == {j1}
TwoJobs == {j1, j2}
TwoRuns == {r1, r2}
TwoWorkers == {w1, w2}

DistinctIds == r1 :> j1 @@ r2 :> j2
SameId == r1 :> j1 @@ r2 :> j1

OnBoth == r1 :> w1 @@ r2 :> w2
SecondRun == {r2}
SecondWorker == {w2}

Nothing == {}
===============================================================================
