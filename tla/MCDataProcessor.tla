---------------------------- MODULE MCDataProcessor ----------------------------
(* Instances of DataProcessor for TLC: who delivers what, and the batches.  *)
EXTENDS DataProcessor

CONSTANTS j1, s1, s2, a1, a2, a3

\* s1 is delivered twice, and s2 submits the same job again.
MCJobOf == [s \in Submission |-> j1]

MCSubmissionOf == [a \in Attempt |-> IF a = a3 THEN s2 ELSE s1]

\* Every batch of up to two records over all values, one key optional, and
\* every batch of three over the values that interact.
Wide == UNION {[{"title"} \cup more -> Value] : more \in {{}, {"body"}}}

Narrow == [{"title", "body"} -> {"zero", "blank", "plain", "padded", "escaped"}]

MCWideBatches == BoundedSeq(Wide, 2)

MCAllBatches == MCWideBatches \cup [1..3 -> Narrow]

Rec(title, body) == [f \in {"title", "body"} |-> IF f = "title" THEN title ELSE body]

\* A batch with nothing to store, one every format can hold, and one that every
\* format but JSON refuses.
MCSomeBatches ==
  {<<Rec("blank", "plain")>>,
   <<Rec("plain", "padded")>>,
   <<[f \in {"title"} |-> "plain"], Rec("plain", "zero"), Rec("padded", "false")>>}

\* Every small batch, delivered once to a store that is ready.
MCSingle ==
  {[batch |-> [s \in Submission |-> b], format |-> [s \in Submission |-> "json"],
    bucket |-> "before", sent |-> {a2}] : b \in MCAllBatches}

\* Three deliveries of two submissions, in every format, with or without a bucket.
MCOverlapping ==
  [batch : [Submission -> MCSomeBatches], format : [Submission -> {"csv", "json", "parquet"}],
   bucket : {"absent", "before"}, sent : {Attempt}]

MCStarts == MCSingle \cup MCOverlapping
===============================================================================
