------------------------------- MODULE Server -------------------------------
(***************************************************************************)
(* The server as its clients see it: requests of all the use cases of      *)
(* Directory, Lookups, Integrations, EventSync, EventQueries and Accounts, *)
(* interleaved statement by statement over one database, the providers and *)
(* the caches of accounts.                                                 *)
(***************************************************************************)
EXTENDS Directory, Lookups, EventSync, EventQueries, Accounts

VARIABLES
    crossed,    \* events and accounts that two requests worked on at once
    abandoned   \* events that went other than by a request to delete the
                \* event, and calendars that a synced calendar was taken from
                \* or that are synced although their user disconnected

serverVars == <<requestVars, remote, accountVars, crossed, abandoned>>

----------------------------------------------------------------------------
(* What a calendar, schedule, service or event is of, in a database *)
OwnerIn(d, x) ==
    CASE x \in Calendar /\ Stored(d.calendars, x) -> d.calendars[x].user
      [] x \in Schedule /\ Stored(d.schedules, x) -> d.schedules[x].user
      [] x \in Service /\ Stored(d.services, x) -> d.services[x].account
      [] x \in Event /\ Stored(d.events, x) -> d.events[x].user
      [] OTHER -> None

OwnersIn(d) == [x \in Owned |-> OwnerIn(d, x)]
HomesIn(d) == [u \in User |-> IF Stored(d.users, u) THEN {d.users[u].account} ELSE {}]

Init ==
    /\ scenario \in DOMAIN Scenarios
    /\ db \in Scenarios[scenario].dbs
    /\ remote = Scenarios[scenario].remote
    /\ calls = [k \in Client |-> None]
    /\ made = 0 /\ failures = 0 /\ now = 0
    /\ origin = OwnersIn(db) /\ homes = HomesIn(db)
    /\ kept = [x \in Updated |-> [f \in Field |-> None]]
    /\ cache = [s \in Server |-> [a \in Account |-> None]]
    /\ current = [a \in Account |-> [d \in Data |-> None]]
    /\ crossed = {} /\ abandoned = {}

(* A provider answers within Latency, and a row enters the cache within    *)
(* Delay of being read                                                     *)
Patience(q) ==
    IF q.at \in {"store", "write"} /\ q.asked # None THEN q.asked + Latency
    ELSE IF q.at = "remember" THEN q.asked + Delay
    ELSE Scenarios[scenario].time
Tick ==
    /\ now < Scenarios[scenario].time
    /\ \A k \in Client : calls[k] # None => now < Patience(calls[k])
    /\ now' = now + 1
    /\ UNCHANGED <<db, calls, bounds, ghostVars, remote, accountVars>>

(* What a request works on, of events and accounts *)
WorksOn(q) ==
    IF q = None THEN {}
    ELSE CASE q.op = "DeleteManyEvents" -> q.todo
           [] q.op = "CreateBatchEvents" /\ q.at \notin {"user", "find", "write"} ->
                ({q.event} \ {None}) \union {n.event : n \in q.queue}
           [] q.op \in {"SetAccount", "GetAccount", "InitDefaultAccount"} -> {q.account}
           [] OTHER -> {q.event} \ {None}

Met(c) ==
    UNION {{x \in WorksOn(c[k]) : \E l \in Client \ {k} : x \in WorksOn(c[l])} : k \in Client}

EventsLost ==
    {e \in IdsOf(db.events) \ IdsOf(db'.events) :
        ~\E k \in Client : At(k, "DeleteEvent", "write") /\ calls[k].event = e
                   /\ calls'[k] = None}

(* A calendar may be synced by another user than its own; the copies are   *)
(* made with the token of its own user all the same                        *)
Connection(d, s) == <<d.calendars[s.calendar].user, s.provider>>
Disconnected(s) ==
    /\ Stored(db.calendars, s.calendar)
    /\ Stored(db.grants, Connection(db, s)) /\ ~Stored(db'.grants, Connection(db, s))

Noticed ==
    /\ crossed' = crossed \union Met(calls')
    /\ abandoned' = abandoned \union EventsLost \union
                    {s.calendar : s \in (db.synced \ db'.synced) \union
                                        {t \in db'.synced : Disconnected(t)}}

Handle(k) ==
    \/ (Guard(k) \/ DirectoryNext(k) \/ LookupsNext(k) \/ IntegrationsNext(k)
        \/ EventQueriesNext(k) \/ StatementFails(k)) /\ UNCHANGED <<remote, accountVars>>
    \/ EventSyncNext(k) /\ UNCHANGED accountVars
    \/ AccountsNext(k) /\ UNCHANGED remote

Step(k) ==
    \/ Begin(k) /\ UNCHANGED <<remote, accountVars>>
    \/ calls[k] # None /\ Handle(k)

Next == ((\E k \in Client : Step(k)) \/ Tick) /\ Noticed

Spec == Init /\ [][Next]_serverVars

Quiet == \A k \in Client : calls[k] = None

----------------------------------------------------------------------------
(* What the routes let through: the ids and values of a request are of the *)
(* kind its use case takes, what it creates has all its fields, the        *)
(* requests that are about an account come with its key, and the token of  *)
(* a user, with its policy, is accepted by the routes for users only.      *)
Making == {"CreateUser", "CreateCalendar", "CreateSchedule", "CreateService", "CreateEvent",
           "CreateBatchEvents", "CreateAccount", "InitDefaultAccount"}
ByKeyOnly == {"SetAccount", "GetAccount", "InitDefaultAccount"}
(* The routes behind protect_route_middleware, for the token of a user     *)
TokenRoutes ==
    {"GetMe", "OAuthIntegration", "RemoveIntegration", "CreateCalendar", "GetCalendars",
     "GetCalendar", "DeleteCalendar", "UpdateCalendar", "GetCalendarEvents", "ExportIcal",
     "GetExternalCalendars", "CreateEvent", "GetEvent", "UpdateEvent", "DeleteEvent",
     "GetEventInstances", "CreateSchedule", "GetSchedule", "UpdateSchedule", "DeleteSchedule"}
TimesPatch ==
    [start : SUBSET Int, length : SUBSET Nat, busy : SUBSET BOOLEAN, status : SUBSET Status,
     rule : SUBSET (Rule \union {None}), exdates : SUBSET SUBSET Int,
     series : SUBSET (Event \union {None}), original : SUBSET (Int \union {None})]
Asked(q) ==
    /\ DOMAIN q = DOMAIN Blank
    /\ q.account \in Account /\ q.user \in User \union {None}
    /\ q.calendar \in Calendar \union {None} /\ q.schedule \in Schedule \union {None}
    /\ q.service \in Service \union {None} /\ q.event \in Event \union {None}
    /\ q.key \in Value \union {None} /\ q.patch \in [Field -> Value \union {None}]
    /\ q.op \in Making => q.patch \in Data
    /\ q.op = "CreateUser" => q.user \in User
    /\ q.op \in Creates => q.times \in Times
    /\ q.op = "UpdateEvent" => q.times \in TimesPatch \union {None}
    /\ q.op = "CreateBatchEvents" => q.queue \subseteq Calendar /\ q.signed = None
    /\ q.op = "DeleteManyEvents" => q.todo \subseteq Event
    /\ q.op \in IntegrationOps => q.provider \in Provider /\ q.ext \in ExtCalendar \union {None}
    /\ q.op \in {"AddSyncCalendar", "AddExtBusyCalendar"} => q.ext \in ExtCalendar
    /\ IF q.op \in ByKeyOnly THEN q.server \in Server /\ q.signed = None ELSE q.server = None
    /\ q.policy # None => q.signed # None
    /\ q.signed # None => q.op \in TokenRoutes /\ q.user \in User
    /\ q.op = "GetMe" => q.signed # None
    /\ IF q.op \in QueryOps THEN Asking(q) ELSE q.reading = None
ASSUME RequestsAssumption ==
    \A s \in DOMAIN Scenarios : \A q \in Scenarios[s].requests : Asked(q)

(* What the statements of a use case put into its request: where it is,    *)
(* and what they read; it is a record still, and None is none              *)
Held ==
    {"account", "public", "user", "calendar", "schedule", "event", "apikey", "select", "remember",
     "forget", "find", "guarded", "write", "copies", "ownerOfCopies", "token", "client", "renew",
     "store", "connected", "record", "next"}
    \union Int \union {None} \union Account \union User \union Event \union Provider
    \union AccountRow \union UserRow \union EventRow \union GrantRow
    \union [token : Token, at : Int] \union [s : SyncKey, copy : ExtEvent]
    \union (SUBSET SyncKey) \union (SUBSET CopyKey)
    \union (SUBSET [event : Event, row : EventRow])
Stages(q) == [DOMAIN q -> {q[x] : x \in DOMAIN q} \union Held]
ASSUME NoneIsNoCall ==
    \A s \in DOMAIN Scenarios : \A q \in Scenarios[s].requests : None \notin Stages(q)

(* What the tables hold when a behaviour starts is what requests left      *)
ASSUME DatabasesAssumption ==
    \A s \in DOMAIN Scenarios :
        /\ Scenarios[s].remote \in [ExtEvent -> RemoteEvent \union {None}]
        /\ \A d \in Scenarios[s].dbs :
            /\ Consistent(d, OwnersIn(d), HomesIn(d))
            /\ \A k \in d.copies : Scenarios[s].remote[k.copy] # None
            /\ \A g \in IdsOf(d.grants) :
                    d.grants[g].expires <= d.grants[g].access.until + Latency

(* The copies of earlier requests, none of which failed, are as these      *)
(* requests left them: each has the row it is found by, of a stored event, *)
(* in a synced calendar whose user is connected by a client of the account *)
Integrated(d) ==
    \A g \in IdsOf(d.grants) : <<d.grants[g].account, g[2]>> \in d.integrations
Linked(d, s) ==
    \E t \in d.synced : t.calendar = s.calendar /\ t.provider = s.provider /\ t.ext = s.ext
Placed(d) ==
    \A r \in d.copies :
        /\ Stored(d.events, r.event) /\ d.events[r.event].calendar = r.calendar
        /\ Linked(d, r)
ASSUME CopiesAssumption ==
    \A s \in DOMAIN Scenarios : \A d \in Scenarios[s].dbs :
        LET copies == Scenarios[s].remote IN
        /\ Integrated(d) /\ Placed(d)
        /\ \A r \in d.copies :
            /\ copies[r.copy] = [event |-> r.event, calendar |-> r.calendar,
                                 data |-> d.events[r.event].data, there |-> TRUE]
            /\ Stored(d.grants, <<d.events[r.event].user, r.provider>>)
        /\ \A x \in ExtEvent :
            copies[x] # None /\ copies[x].there => \E r \in d.copies : r.copy = x

----------------------------------------------------------------------------
TypeOK ==
    /\ db \in Database
    /\ scenario \in DOMAIN Scenarios
    /\ LET limits == Scenarios[scenario]
       IN  made \in 0..limits.limit /\ failures \in 0..limits.faults /\ now \in 0..limits.time
    /\ origin \in [Owned -> User \union Account \union {None}]
    /\ homes \in [User -> SUBSET Account]
    /\ kept \in [Updated -> [Field -> Value \union {None}]]
    /\ remote \in [ExtEvent -> RemoteEvent \union {None}]
    /\ crossed \subseteq Event \union Account
    /\ abandoned \subseteq Event \union Calendar

(* Unless a user id was given to two accounts one after the other, the     *)
(* copies of the owner that calendars, events and integrations carry agree *)
(* with their user and calendar, although they are written by statements   *)
(* that run long after the owner was looked up.                            *)
Settled(u) == Cardinality(homes[u]) = 1
OwnersAgree ==
    /\ \A c \in IdsOf(db.calendars) :
        LET u == db.calendars[c].user
        IN  Stored(db.users, u) /\ (Settled(u) => db.calendars[c].account = db.users[u].account)
    /\ \A e \in IdsOf(db.events) :
        LET row == db.events[e]
        IN  /\ CalendarOfUser(db, row.calendar, row.user)
            /\ Settled(row.user) => row.account = db.users[row.user].account
    /\ \A g \in IdsOf(db.grants) :
        Settled(g[1]) => db.grants[g].account = db.users[g[1]].account

(* "How to make sure user and service is in same account?" (TODO in        *)
(* init_tables.sql): no constraint does, but the use cases do, for every   *)
(* user id that stayed in one account.                                     *)
HostsShareAccount ==
    \A h \in IdsOf(db.hosts) :
        Settled(h[2]) => db.services[h[1]].account = db.users[h[2]].account

(* "How to make sure user is owner of calendar and schedule?" (TODO in     *)
(* init_tables.sql): the calendar and the schedule of a host's plan and    *)
(* its busy calendars are the host's own.  This is also what makes every   *)
(* deletion of a user succeed: a busy calendar of somebody else would      *)
(* refuse it.                                                              *)
PlansAreOwn ==
    /\ \A h \in IdsOf(db.hosts) :
        /\ db.hosts[h].calendar # None => CalendarOfUser(db, db.hosts[h].calendar, h[2])
        /\ db.hosts[h].schedule # None => ScheduleOfUser(db, db.hosts[h].schedule, h[2])
    /\ \A b \in db.busy :
        CalendarOfUser(db, b[3], b[2]) /\ UserDeleteAccepted(db, db.calendars[b[3]].user)

(* What was deleted stays deleted: no request that read a row before it    *)
(* went brings it back when it saves the row.                              *)
DeletedStaysDeleted ==
    [][\A x \in Owned : origin[x] # None /\ OwnerIn(db, x) = None => OwnerIn(db', x) = None]_serverVars

(* The id of a row tells of which table it is                              *)
ASSUME KindsAssumption ==
    /\ Account \intersect (User \union Owned) = {} /\ User \intersect Owned = {}

(* What a request was answered about a field stands until a later request  *)
(* names the field, or one saves what it read before the change: a lost    *)
(* update needs two requests that overlap, or an account from the cache.   *)
RowIn(d, x) ==
    CASE x \in Account -> d.accounts[x] [] x \in User -> d.users[x]
      [] x \in Calendar -> d.calendars[x] [] x \in Schedule -> d.schedules[x]
      [] x \in Service -> d.services[x] [] OTHER -> d.events[x]
OnlyOverlapsLose ==
    \A x \in Updated, f \in Field :
        kept[x][f] # None /\ RowIn(db, x) # None => RowIn(db, x).data[f] = kept[x][f]

(* A request with the token of a user changes, creates and deletes         *)
(* calendars, events and schedules of that user only, and only as the      *)
(* policy of the token permits: what is rejected is not permitted whatever *)
(* is allowed.  Events that go with their calendar need no permission.     *)
MayDo(policy, permission) ==
    /\ {permission, "All"} \intersect policy.reject = {}
    /\ {permission, "All"} \intersect policy.allow # {}
Verb(before, after) ==
    IF before = None THEN "Create" ELSE IF after = None THEN "Delete" ELSE "Update"
Deeds ==
    {<<db.calendars[c], db'.calendars[c], "Calendar">> : c \in Calendar} \union
    {<<db.schedules[s], db'.schedules[s], "Schedule">> : s \in Schedule} \union
    {<<db.events[e], db'.events[e], "CalendarEvent">> :
        e \in {x \in Event : Stored(db.events, x) =>
                             Stored(db'.calendars, db.events[x].calendar)}}
Lawful(q, d) ==
    /\ (IF d[1] = None THEN d[2] ELSE d[1]).user = q.user
    /\ CASE d[3] = "Calendar" -> MayDo(q.policy,
            [Create |-> "CreateCalendar", Update |-> "UpdateCalendar",
             Delete |-> "DeleteCalendar"][Verb(d[1], d[2])])
         [] d[3] = "Schedule" -> MayDo(q.policy,
            [Create |-> "CreateSchedule", Update |-> "UpdateSchedule",
             Delete |-> "DeleteSchedule"][Verb(d[1], d[2])])
         [] OTHER -> MayDo(q.policy,
            [Create |-> "CreateCalendarEvent", Update |-> "UpdateCalendarEvent",
             Delete |-> "DeleteCalendarEvent"][Verb(d[1], d[2])])
PolicyRespected ==
    [][\A k \in Client :
        calls[k] # None /\ calls[k].policy # None /\ calls'[k] # calls[k] =>
            \A d \in Deeds : d[1] # d[2] => Lawful(calls[k], d)]_serverVars

(* What a request is shown is of its account, and for a token of its user, *)
(* whatever is deleted and created between the guard and the lookup,       *)
(* unless a user id was given to two accounts.  Schedules are not compared *)
(* with the user of a token, nor the calendars of a user with the account  *)
(* of a key.                                                               *)
AnswersOwn ==
    \A k \in Client :
        calls[k] # None /\ calls[k].at = "shown" =>
            LET q == calls[k] IN
            \A x \in q.todo :
                /\ (x.user # None => Settled(x.user)) =>
                        \/ x.account = q.account
                        \/ q.op = "GetCalendars" /\ q.signed = None
                        \/ q.op = "GetSchedule" /\ q.signed # None
                /\ q.signed # None => x.user = q.user \/ q.op = "GetSchedule"

----------------------------------------------------------------------------
(* The access token and the refresh token of a stored integration are of   *)
(* the same grant, even when a user disconnects and connects again while a *)
(* request renews the token of the earlier connection.                     *)
OneGrant ==
    \A g \in IdsOf(db.grants) : db.grants[g].access.grant = db.grants[g].refresh

(* A token is valid when it is handed to a request, although the server    *)
(* counts its life from the moment the provider's answer arrives.          *)
TokensStillValid ==
    \A k \in Client :
        calls[k] # None /\ calls[k].at = "connected" =>
            calls[k].grant.token.until > calls[k].grant.at

(* When no request is under way, no call failed and the subscribers run, a *)
(* copy at a provider belongs to a stored event that has the row to find   *)
(* the copy by; excused are events on which two requests met, those that   *)
(* went with their calendar, service or synced calendar or in a deletion   *)
(* of many events, those whose user disconnected or changed the account.   *)
Excused(e, c) ==
    e \in crossed \/ {e, c} \intersect abandoned # {} \/ ~Settled(origin[e])
CopiesTracked ==
    Quiet /\ failures = 0 /\ ~DisableReminders =>
        \A x \in ExtEvent :
            remote[x] # None /\ remote[x].there
            /\ ~Excused(remote[x].event, remote[x].calendar) =>
                /\ Stored(db.events, remote[x].event)
                /\ \E r \in CopiesOf(db, remote[x].event) : r.copy = x

(* Then, too, a copy that has a row is there and says what its event says. *)
CopiesCurrent ==
    Quiet /\ failures = 0 /\ ~DisableReminders =>
        \A r \in db.copies :
            ~Excused(r.event, r.calendar) =>
                remote[r.copy].there /\ remote[r.copy].data = db.events[r.event].data

----------------------------------------------------------------------------
(* An account that a request is handed was the stored one at most the life *)
(* of an entry of the cache ago, and the time it takes to make the entry:  *)
(* settings changed by another process are noticed by then.                *)
CacheBounded ==
    \A k \in Client :
        LET q == calls[k] IN
        q # None /\ q.op \in {"SetAccount", "GetAccount"} /\ q.at = "find" =>
            \/ db.accounts[q.account].data = q.row.data
            \/ /\ current[q.account][q.row.data] # None
               /\ current[q.account][q.row.data] >= q.asked - (TimeToLive + Delay)

(* As long as only one process serves an account, and one request at a     *)
(* time, what the cache hands out is the stored account.                   *)
CacheCoherent ==
    \A s \in Server, a \in Account :
        (/\ Remembered(s, a) /\ Quiet /\ failures = 0 /\ a \notin crossed
         /\ \A q \in Scenarios[scenario].requests : q.server \in {None, s}) => cache[s][a].row = db.accounts[a]
=============================================================================
