\* One execute with two attempts per call, under the event loop's fairness.
SPECIFICATION FairSpec
CONSTANT MaxAttempts = 2
INVARIANTS TypeOK HonestStatus AgentIsFallback AuditAgrees
PROPERTIES NothingLate ImplementsPipeline
CHECK_DEADLOCK FALSE
