\* A recurring event with a reminder after each occurrence: every task finishes
\* before the clock moves on, nothing fails, nothing is updated.
CONSTANTS
  Content <- FollowUpContent
  Identifier = {i1, i2}
  i1 = i1
  i2 = i2
  Minute = 2
  Margin = 3
  Batch = 3
  JobIndex = 1
  Event = {e1}
  Handler = {h1}
  Run = {r1, r2}
  JobInterval = 2
  None = None
  Punctual = TRUE
  MaxTime = 16
  MaxUpdates = 0
  MaxCrashes = 0
  MaxFailures = 0
SPECIFICATION Spec
CHECK_DEADLOCK FALSE
INVARIANT NothingForgotten
