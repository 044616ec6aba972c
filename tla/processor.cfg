\* Every small batch through one undisturbed POST /process, and two submissions of
\* a job, the first delivered twice, with an object store that may fail for one
\* of the deliveries.
SPECIFICATION Spec
CONSTANTS
  j1 = j1
  s1 = s1  s2 = s2
  a1 = a1  a2 = a2  a3 = a3
  Job = {j1}
  Submission = {s1, s2}
  Attempt = {a1, a2, a3}
  JobOf <- MCJobOf
  SubmissionOf <- MCSubmissionOf
  Field = {"title", "body"}
  Required = {"title"}
  Starts <- MCStarts
  LastSecond = 1
  Faulty = {a1}
  NoObject = NoObject
INVARIANTS TypeOK NothingLost KeptInOrder GradeIsEarned PathHoldsReply UnstoredHasReason
CHECK_DEADLOCK FALSE
