\* The docstring of robots.py:1 against what the graph does.
SPECIFICATION Spec
CONSTANTS
  a1 = a1  a2 = a2  t1 = t1  t2 = t2  articles = articles  products = products
  None = None
  Run <- TwoRuns
  Thread <- TwoThreads
  DataType <- TwoTypes
  Requests <- SeparateOnly
  Faulty <- Nobody
  Mortal = FALSE
PROPERTY PreflightBeforeTarget
CHECK_DEADLOCK FALSE
