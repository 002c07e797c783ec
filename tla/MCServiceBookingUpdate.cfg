\* A group of one gets a second spot while a client books.
CONSTANTS
  Host = {h1, h2}
  Client = {c1}
  Slot = {s1}
  Near = {s1}
  Services <- OneSpot
  Options <- TwoSpots
  Wanted <- Choices
  Overlap = TRUE
  Limit <- OneEach
SPECIFICATION Spec
SYMMETRY Interchangeable
CHECK_DEADLOCK FALSE
INVARIANT ClosedMeansFull
