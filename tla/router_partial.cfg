\* The comment at job_router.py:137 against what the code does.
SPECIFICATION Spec
CONSTANT MaxAttempts = 1
INVARIANT FailedProcessingIsPartial
CHECK_DEADLOCK FALSE
