\* Two requests, the generation job and overlapping runs of the sender race on one
\* event, and the clock moves at any time. Nothing fails here (MCRemindersFault).
CONSTANTS
  Content <- RaceContent
  Identifier = {i1, i2}
  i1 = i1
  i2 = i2
  Minute = 1
  Margin = 1
  Batch = 2
  JobIndex = 0
  Event = {e1}
  Handler = {h1, h2}
  Run = {r1, r2}
  JobInterval = 2
  None = None
  Punctual = FALSE
  MaxTime = 3
  MaxUpdates = 1
  MaxCrashes = 0
  MaxFailures = 0
SPECIFICATION Spec
VIEW View
SYMMETRY Interchangeable
CHECK_DEADLOCK FALSE
INVARIANTS TypeOK AtMostOnce NeverEarly SingleSource
PROPERTY KeepsPromise
