\* Two hosts, one available by calendar and one by schedule; at most one change of
\* the events or one failing read during a query.
CONSTANTS
  h1 = h1
  h2 = h2
  this = this
  other = other
  Host = {h1, h2}
  Users <- TwoUsers
  Resource <- TwoResources
  Event <- TwoEvents
  This = this
  Query <- TwoQueries
  Multi = {"any", "all", "closed"}
  Interval = {1, 2}
  MaxSpan = 8
  MaxInstances = 2
  Week = 7
  Hours = 5
  MaxIntervals = 4
  None = None
  MaxTime = 1
  MaxDisturbances = 1
SPECIFICATION Spec
INVARIANTS TypeOK NoSlotOverBusy OnlyOfferedTime NothingWithheld ScheduleKeepsNotice
