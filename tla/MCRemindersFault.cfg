\* One request and the job on one event, with a crash and a failing statement at
\* any point; due work is done before the clock moves on.
CONSTANTS
  Content <- RaceContent
  Identifier = {i1, i2}
  i1 = i1
  i2 = i2
  Minute = 1
  Margin = 1
  Batch = 2
  JobIndex = 0
  Event = {e1}
  Handler = {h1}
  Run = {r1, r2}
  JobInterval = 2
  None = None
  Punctual = TRUE
  MaxTime = 4
  MaxUpdates = 1
  MaxCrashes = 1
  MaxFailures = 1
SPECIFICATION FairSpec
CHECK_DEADLOCK FALSE
INVARIANT AtMostOnce
PROPERTY DueIsCollected
