\* One host with an event that has no duration.
CONSTANTS
  h1 = h1
  h2 = h2
  this = this
  other = other
  Host = {h1}
  Users <- OneUser
  Resource <- NoticeResources
  Event <- PanicEvents
  This = this
  Query <- OneQuery
  Multi = {"any"}
  Interval = {1, 2}
  MaxSpan = 8
  MaxInstances = 2
  Week = 7
  Hours = 5
  MaxIntervals = 4
  None = None
  MaxTime = 0
  MaxDisturbances = 0
SPECIFICATION Spec
INVARIANT NeverPanics
