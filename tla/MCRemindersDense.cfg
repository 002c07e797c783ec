\* A recurring event whose occurrences are closer than the margin: every task
\* finishes before the clock moves on, nothing fails, nothing is updated.
CONSTANTS
  Content <- DenseContent
  Identifier = {i1, i2}
  i1 = i1
  i2 = i2
  Minute = 2
  Margin = 3
  Batch = 3
  JobIndex = 1
  Event = {e1}
  Handler = {h1}
  Run = {r1, r2}
  JobInterval = 2
  None = None
  Punctual = TRUE
  MaxTime = 16
  MaxUpdates = 0
  MaxCrashes = 0
  MaxFailures = 0
SPECIFICATION Spec
CHECK_DEADLOCK FALSE
INVARIANT SentOnTime
