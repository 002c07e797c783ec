\* Every kind of service, two clients that book at the same time, and updates
\* between their bookings.
CONSTANTS
  Host = {h1, h2}
  Client = {c1, c2}
  Slot = {s1, s2}
  Near = {s1}
  Services <- EveryKind
  Options <- Updates
  Wanted <- Choices
  Overlap = FALSE
  Limit <- Limits
SPECIFICATION Spec
SYMMETRY Interchangeable
CHECK_DEADLOCK FALSE
INVARIANTS TypeOK SeatsCounted ClosedMeansFull OverbookedByFew DoubleBookedByFew  TakesTurns
