SPECIFICATION Spec
CONSTANTS
    k1 = k1  k2 = k2  p1 = p1  p2 = p2
    a1 = a1  a2 = a2  u1 = u1  u2 = u2  c1 = c1  c2 = c2  s1 = s1  s2 = s2  v1 = v1  v2 = v2
    e1 = e1  e2 = e2  e3 = e3  x1 = x1  y1 = y1  y2 = y2  y3 = y3  y4 = y4  g1 = g1  g2 = g2
    w0 = w0  w1 = w1
    None = None
    Client = {k1, k2}
    Server = {p1, p2}
    Account = {a1, a2}
    User = {u1, u2}
    Calendar = {c1, c2}
    Schedule = {s1, s2}
    Service = {v1, v2}
    Event = {e1, e2, e3}
    Status <- MCStatus
    MaxInstances = 2
    Rank <- MCRank
    MaxReturned = 2
    Provider <- MCProvider
    ExtCalendar = {x1}
    ExtEvent = {y1, y2, y3, y4}
    Grant = {g1, g2}
    Field <- MCField
    Value = {w0, w1}
    Scenarios <- MCScenarios
    DisableReminders = FALSE
    Life = 3
    Margin = 2
    Latency = 1
    TimeToLive = 1
    Delay = 1
SYMMETRY Connections
INVARIANTS
    TypeOK
    OwnersAgree
    HostsShareAccount
    PlansAreOwn
    OnlyOverlapsLose
    OneGrant
    TokensStillValid
    CopiesTracked
    CopiesCurrent
    CacheBounded
    CacheCoherent
    NoPhantoms
    PhantomsAreOverrides
    NothingMissed
    AnswersOwn
    EveryPageCounts
    TimesDerived
PROPERTIES
    DeletedStaysDeleted
    PolicyRespected
CHECK_DEADLOCK FALSE
