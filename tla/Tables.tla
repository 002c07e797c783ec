------------------------------- MODULE Tables -------------------------------
(***************************************************************************)
(* The tables of nittei that its requests share, apart from those of       *)
(* Reminders and of reservations, and every statement the repositories     *)
(* run on them (crates/infra/src/repos/*/postgres.rs).  The database is a   *)
(* record of tables; a statement is a function from databases to           *)
(* databases.  It does in one step what PostgreSQL does in one step: the   *)
(* checks of keys and foreign keys (the ...Accepted operators) and the     *)
(* cascades of deletions (init_tables.sql).                                *)
(*                                                                         *)
(* A row that is absent is None.  Names, settings and metadata are the     *)
(* Data of a row: a value for each Field, of which only equality matters.  *)
(***************************************************************************)
EXTENDS EventTimes

CONSTANTS
    Account, User, Calendar, Schedule, Service,
    Provider,           \* google and outlook
    ExtCalendar,        \* identifiers of calendars at a provider
    ExtEvent,           \* identifiers of events at a provider
    Grant,              \* authorizations a user can give to an account
    Field, Value        \* the columns of a row that an update may name

ASSUME NoneIsNoId ==
    None \notin Account \union User \union Calendar \union Schedule \union
                Service \union Event \union Value

(* Ids are drawn at random: those of different tables differ               *)
ASSUME IdsAssumption ==
    /\ Calendar \intersect (Schedule \union Service \union Event) = {}
    /\ Schedule \intersect (Service \union Event) = {}
    /\ Service \intersect Event = {}

ASSUME ProviderAssumption == Provider = {"google", "outlook"}

Data == [Field -> Value]

(* The rows *)
AccountRow == [data : Data]
UserRow == [account : Account, external : Value \union {None}, data : Data]
CalendarRow == [user : User, account : Account, key : Value \union {None}, data : Data]
ScheduleRow == [user : User, data : Data]
ServiceRow == [account : Account, data : Data]
EventRow == [calendar : Calendar, user : User, account : Account,
             service : Service \union {None}, data : Data, times : Times]
HostRow == [calendar : Calendar \union {None}, schedule : Schedule \union {None}]
(* An access token is of the grant it was obtained with and really expires  *)
(* at `until`; `expires` is when the server believes it does.              *)
Token == [grant : Grant, until : Int]
GrantRow == [account : Account, access : Token, refresh : Grant, expires : Int]

ASSUME NoneIsNoRow ==
    None \notin AccountRow \union UserRow \union CalendarRow \union ScheduleRow \union
                ServiceRow \union HostRow \union EventRow \union GrantRow

BusyKey == Service \X User \X Calendar
ExtBusyKey == [service : Service, user : User, provider : Provider, ext : ExtCalendar]
SyncKey == [calendar : Calendar, user : User, provider : Provider, ext : ExtCalendar]
CopyKey == [event : Event, calendar : Calendar, provider : Provider,
            ext : ExtCalendar, copy : ExtEvent]

Database ==
    [accounts     : [Account -> AccountRow \union {None}],
     integrations : SUBSET (Account \X Provider),
     users        : [User -> UserRow \union {None}],
     grants       : [User \X Provider -> GrantRow \union {None}],
     calendars    : [Calendar -> CalendarRow \union {None}],
     synced       : SUBSET SyncKey,
     schedules    : [Schedule -> ScheduleRow \union {None}],
     services     : [Service -> ServiceRow \union {None}],
     hosts        : [Service \X User -> HostRow \union {None}],
     busy         : SUBSET BusyKey,
     extBusy      : SUBSET ExtBusyKey,
     events       : [Event -> EventRow \union {None}],
     copies       : SUBSET CopyKey]

Stored(table, id) == id \in DOMAIN table /\ table[id] # None
IdsOf(table) == {id \in DOMAIN table : table[id] # None}
Put(table, id, row) == [table EXCEPT ![id] = row]
Without(table, ids) == [id \in DOMAIN table |-> IF id \in ids THEN None ELSE table[id]]

\* Mutants of Merged: the fields an update does not name are set to null, or
\* to their default.
MergedWhole(row, patch) == [row EXCEPT !.data = patch]
MergedDefault(row, patch) ==
    [row EXCEPT !.data = [f \in Field |-> IF patch[f] = None THEN CHOOSE v \in Value : TRUE
                                           ELSE patch[f]]]
(* The row with the fields that an update names replaced *)
Merged(row, patch) ==
    [row EXCEPT !.data = [f \in Field |-> IF patch[f] = None THEN @[f] ELSE patch[f]]]

----------------------------------------------------------------------------
(* Lookups.  Calendars carry a copy of the account of their user, events a *)
(* copy of the user and the account of their calendar; schedules are joined *)
(* with their user.                                                        *)

CalendarsOf(db, u) == {c \in IdsOf(db.calendars) : db.calendars[c].user = u}
SchedulesOf(db, u) == {s \in IdsOf(db.schedules) : db.schedules[s].user = u}
EventsOf(db, cs) == {e \in IdsOf(db.events) : db.events[e].calendar \in cs}

UserInAccount(db, u, a) == Stored(db.users, u) /\ db.users[u].account = a
\* Mutant of ServiceInAccount: the account is not compared.
ServiceInAny(db, v, a) == Stored(db.services, v)
ServiceInAccount(db, v, a) == Stored(db.services, v) /\ db.services[v].account = a
CalendarOfUser(db, c, u) == Stored(db.calendars, c) /\ db.calendars[c].user = u
ScheduleOfUser(db, s, u) == Stored(db.schedules, s) /\ db.schedules[s].user = u
EventOfUser(db, e, u) == Stored(db.events, e) /\ db.events[e].user = u
HasIntegration(db, u, p) == db.grants[<<u, p>>] # None
SyncsOf(db, c) == {s \in db.synced : s.calendar = c}
CopiesOf(db, e) == {k \in db.copies : k.event = e}

----------------------------------------------------------------------------
(* Cascades.  Each takes the database and the keys that disappear.         *)

(* externally_synced_calendars rows take their copies' rows with them *)
SyncsDropped(db, ss) ==
    LET gone(k) == \E s \in ss : /\ s.calendar = k.calendar
                                 /\ s.provider = k.provider /\ s.ext = k.ext
    IN  [db EXCEPT !.synced = @ \ ss, !.copies = {k \in @ : ~gone(k)}]

EventsDropped(db, es) ==
    [db EXCEPT !.events = Without(@, es), !.copies = {k \in @ : k.event \notin es}]

GrantsDropped(db, gs) ==
    LET d == [db EXCEPT !.grants = Without(@, gs),
                        !.extBusy = {b \in @ : <<b.user, b.provider>> \notin gs}]
    IN  SyncsDropped(d, {s \in d.synced : <<s.user, s.provider>> \in gs})

HostsDropped(db, hs) ==
    [db EXCEPT !.hosts = Without(@, hs),
               !.busy = {b \in @ : <<b[1], b[2]>> \notin hs},
               !.extBusy = {b \in @ : <<b.service, b.user>> \notin hs}]

(* service_users.available_calendar_uid and _schedule_uid: SET NULL        *)
PlanCleared(plan, cs, ss) ==
    [plan EXCEPT !.calendar = IF @ \in cs THEN None ELSE @,
                 !.schedule = IF @ \in ss THEN None ELSE @]
PlansCleared(db, cs, ss) ==
    [db EXCEPT !.hosts = [h \in DOMAIN @ |->
        IF @[h] = None THEN None ELSE PlanCleared(@[h], cs, ss)]]

CalendarsDropped(db, cs) ==
    LET d == EventsDropped(PlansCleared(db, cs, {}), EventsOf(db, cs))
    IN  [SyncsDropped(d, {s \in d.synced : s.calendar \in cs})
            EXCEPT !.calendars = Without(@, cs),
                   !.copies = {k \in @ : k.calendar \notin cs}]

SchedulesDropped(db, ss) ==
    [PlansCleared(db, {}, ss) EXCEPT !.schedules = Without(@, ss)]

----------------------------------------------------------------------------
(* Statements of the repositories *)

(* users.external_id is UNIQUE, in all accounts together *)
ExternalTaken(db, u, external) ==
    external # None /\ \E v \in IdsOf(db.users) \ {u} : db.users[v].external = external
UserInsertAccepted(db, u, row) ==
    ~Stored(db.users, u) /\ Stored(db.accounts, row.account) /\ ~ExternalTaken(db, u, row.external)
UserInserted(db, u, row) == [db EXCEPT !.users = Put(@, u, row)]
UserSaveAccepted(db, u, row) == Stored(db.users, u) => ~ExternalTaken(db, u, row.external)
UserSaved(db, u, row) ==
    IF Stored(db.users, u) THEN [db EXCEPT !.users = Put(@, u, row)] ELSE db

(* Foreign keys are checked after the cascades: a busy calendar holds its  *)
(* calendar, unless its own row goes with the same user                    *)
UserDeleted(db, u) ==
    LET d == HostsDropped(db, {h \in IdsOf(db.hosts) : h[2] = u})
        e == GrantsDropped(d, {g \in IdsOf(db.grants) : g[1] = u})
        f == SchedulesDropped(CalendarsDropped(e, CalendarsOf(db, u)), SchedulesOf(db, u))
    IN  [f EXCEPT !.users = Without(@, {u})]
UserDeleteAccepted(db, u) ==
    \A b \in UserDeleted(db, u).busy : Stored(UserDeleted(db, u).calendars, b[3])

\* Mutant of CalendarInsertAccepted: calendars.user_uid refers to nothing.
CalendarInsertUnchecked(db, row) == TRUE
(* UNIQUE (user_uid, key); no request changes the key of a calendar *)
CalendarInsertAccepted(db, row) ==
    /\ Stored(db.users, row.user)
    /\ row.key # None => \A c \in CalendarsOf(db, row.user) : db.calendars[c].key # row.key
CalendarInserted(db, c, row) == [db EXCEPT !.calendars = Put(@, c, row)]
\* Mutant of CalendarSaved: the save inserts a row that is not there.
CalendarUpserted(db, c, row) == [db EXCEPT !.calendars = Put(@, c, row)]
CalendarSaved(db, c, row) ==
    IF Stored(db.calendars, c)
    THEN [db EXCEPT !.calendars = Put(@, c, [db.calendars[c] EXCEPT !.data = row.data])]
    ELSE db
CalendarDeleted(db, c) == CalendarsDropped(db, {c} \intersect IdsOf(db.calendars))
CalendarDeleteAccepted(db, c) == \A b \in db.busy : b[3] # c

ScheduleInsertAccepted(db, u) == Stored(db.users, u)
ScheduleInserted(db, s, row) == [db EXCEPT !.schedules = Put(@, s, row)]
ScheduleSaved(db, s, row) ==
    IF Stored(db.schedules, s)
    THEN [db EXCEPT !.schedules = Put(@, s, [db.schedules[s] EXCEPT !.data = row.data])]
    ELSE db
ScheduleDeleted(db, s) == SchedulesDropped(db, {s} \intersect IdsOf(db.schedules))

ServiceInsertAccepted(db, a) == Stored(db.accounts, a)
ServiceInserted(db, v, row) == [db EXCEPT !.services = Put(@, v, row)]
ServiceSaved(db, v, row) ==
    IF Stored(db.services, v)
    THEN [db EXCEPT !.services = Put(@, v, [db.services[v] EXCEPT !.data = row.data])]
    ELSE db
ServiceDeleted(db, v) ==
    LET d == HostsDropped(db, {h \in IdsOf(db.hosts) : h[1] = v})
        es == {e \in IdsOf(db.events) : db.events[e].service = v}
    IN  [EventsDropped(d, es) EXCEPT !.services = Without(@, {v})]

(* The references of a service_users row *)
PlanAccepted(db, row) ==
    /\ row.calendar # None => Stored(db.calendars, row.calendar)
    /\ row.schedule # None => Stored(db.schedules, row.schedule)
HostInsertAccepted(db, v, u, row) ==
    /\ Stored(db.services, v) /\ Stored(db.users, u)
    /\ ~Stored(db.hosts, <<v, u>>)
    /\ PlanAccepted(db, row)
HostInserted(db, v, u, row) == [db EXCEPT !.hosts = Put(@, <<v, u>>, row)]
HostSaveAccepted(db, v, u, row) == Stored(db.hosts, <<v, u>>) => PlanAccepted(db, row)
HostSaved(db, v, u, row) ==
    IF Stored(db.hosts, <<v, u>>) THEN [db EXCEPT !.hosts = Put(@, <<v, u>>, row)] ELSE db
HostBusyDeleted(db, v, u) == [db EXCEPT !.busy = {b \in @ : <<b[1], b[2]>> # <<v, u>>}]
HostDeleted(db, v, u) == HostsDropped(db, {<<v, u>>} \intersect IdsOf(db.hosts))

BusyExists(db, v, u, c) == <<v, u, c>> \in db.busy
BusyInsertAccepted(db, v, u, c) ==
    /\ Stored(db.hosts, <<v, u>>) /\ Stored(db.calendars, c)
    /\ <<v, u, c>> \notin db.busy
BusyInserted(db, v, u, c) == [db EXCEPT !.busy = @ \union {<<v, u, c>>}]
BusyDeleted(db, v, u, c) == [db EXCEPT !.busy = @ \ {<<v, u, c>>}]

(* The lookup of an external busy calendar does not name the provider *)
ExtBusyExists(db, b) ==
    Cardinality({x \in db.extBusy : /\ x.service = b.service /\ x.user = b.user
                                    /\ x.ext = b.ext}) = 1
ExtBusyInsertAccepted(db, b) ==
    /\ Stored(db.hosts, <<b.service, b.user>>)
    /\ Stored(db.grants, <<b.user, b.provider>>)
    /\ b \notin db.extBusy
ExtBusyInserted(db, b) == [db EXCEPT !.extBusy = @ \union {b}]
ExtBusyDeleted(db, b) == [db EXCEPT !.extBusy = @ \ {b}]

(* account_integrations and user_integrations *)
IntegrationInsertAccepted(db, a, p) == Stored(db.accounts, a) /\ <<a, p>> \notin db.integrations
IntegrationInserted(db, a, p) == [db EXCEPT !.integrations = @ \union {<<a, p>>}]
IntegrationDeleted(db, a, p) ==
    [GrantsDropped(db, {g \in IdsOf(db.grants) : g[2] = p /\ db.grants[g].account = a})
        EXCEPT !.integrations = @ \ {<<a, p>>}]

GrantInsertAccepted(db, u, p, row) ==
    /\ Stored(db.users, u) /\ ~Stored(db.grants, <<u, p>>)
    /\ <<row.account, p>> \in db.integrations
GrantInserted(db, u, p, row) == [db EXCEPT !.grants = Put(@, <<u, p>>, row)]
\* Mutant of GrantSaved: the refresh token is not among the columns saved.
GrantSavedAccess(db, u, p, row) ==
    IF Stored(db.grants, <<u, p>>)
    THEN [db EXCEPT !.grants = Put(@, <<u, p>>, [db.grants[<<u, p>>] EXCEPT
            !.access = row.access, !.expires = row.expires])]
    ELSE db
(* UPDATE user_integrations SET access_token, access_token_expires_ts,     *)
(* refresh_token: the tokens of the row the request read, with the renewed *)
(* access token                                                            *)
GrantSaved(db, u, p, row) ==
    IF Stored(db.grants, <<u, p>>)
    THEN [db EXCEPT !.grants = Put(@, <<u, p>>,
            [row EXCEPT !.account = db.grants[<<u, p>>].account])]
    ELSE db
GrantDeleted(db, u, p) == GrantsDropped(db, {<<u, p>>} \intersect IdsOf(db.grants))

(* externally_synced_calendars and externally_synced_calendar_events *)
SyncInsertAccepted(db, s) ==
    /\ Stored(db.calendars, s.calendar) /\ Stored(db.grants, <<s.user, s.provider>>)
    /\ \A t \in db.synced : [t EXCEPT !.user = s.user] # s
SyncInserted(db, s) == [db EXCEPT !.synced = @ \union {s}]
SyncDeleted(db, s) == SyncsDropped(db, {s} \intersect db.synced)

CopyInsertAccepted(db, k) ==
    /\ Stored(db.events, k.event) /\ k \notin db.copies
    /\ \E s \in db.synced : /\ s.calendar = k.calendar
                            /\ s.provider = k.provider /\ s.ext = k.ext
\* Mutant of CopyInserted: one row for each event.
CopyReplaced(db, k) == [db EXCEPT !.copies = {j \in @ : j.event # k.event} \union {k}]
CopyInserted(db, k) == [db EXCEPT !.copies = @ \union {k}]

EventInsertAccepted(db, row) ==
    /\ Stored(db.calendars, row.calendar)
    /\ row.service # None => Stored(db.services, row.service)
EventInserted(db, e, row) == [db EXCEPT !.events = Put(@, e, row)]
(* insert_many: all or none of the events *)
EventsInserted(db, new) ==
    [db EXCEPT !.events = [e \in DOMAIN @ |->
        IF \E n \in new : n.event = e THEN (CHOOSE n \in new : n.event = e).row ELSE @[e]]]
EventSaveAccepted(db, e, row) ==
    Stored(db.events, e) /\ row.service # None => Stored(db.services, row.service)
EventSaved(db, e, row) ==
    IF Stored(db.events, e)
    THEN [db EXCEPT !.events = Put(@, e,
            [db.events[e] EXCEPT !.data = row.data, !.times = row.times,
                                 !.service = row.service])]
    ELSE db
EventsDeleted(db, es) == EventsDropped(db, es \intersect IdsOf(db.events))

AccountInserted(db, a, row) == [db EXCEPT !.accounts = Put(@, a, row)]
AccountSaved(db, a, row) ==
    IF Stored(db.accounts, a) THEN [db EXCEPT !.accounts = Put(@, a, row)] ELSE db

----------------------------------------------------------------------------
(* What the rows of a database say of each other, when `origin` is what    *)
(* each calendar, schedule, service and event was created for and `homes`  *)
(* the accounts under which each user id was ever stored.                  *)

UsersAtHome(d, homes) ==
    \A u \in IdsOf(d.users) : d.users[u].account \in homes[u]
CalendarsOwned(d, origin, homes) ==
    \A c \in IdsOf(d.calendars) :
        LET row == d.calendars[c]
        IN  origin[c] = row.user /\ Stored(d.users, row.user) /\ row.account \in homes[row.user]
SchedulesOwned(d, origin) ==
    \A s \in IdsOf(d.schedules) :
        origin[s] = d.schedules[s].user /\ Stored(d.users, d.schedules[s].user)
ServicesOwned(d, origin) ==
    \A v \in IdsOf(d.services) : origin[v] = d.services[v].account
EventsOwned(d, origin, homes) ==
    \A e \in IdsOf(d.events) :
        LET row == d.events[e]
        IN  /\ origin[e] = row.user /\ CalendarOfUser(d, row.calendar, row.user)
            /\ row.account \in homes[row.user]
PlanOwned(plan, u, origin) ==
    /\ plan.calendar # None => origin[plan.calendar] = u
    /\ plan.schedule # None => origin[plan.schedule] = u
HostsPlaced(d, origin, homes) ==
    \A h \in IdsOf(d.hosts) :
        /\ Stored(d.services, h[1]) /\ Stored(d.users, h[2])
        /\ d.services[h[1]].account \in homes[h[2]]
        /\ PlanOwned(d.hosts[h], h[2], origin) /\ PlanAccepted(d, d.hosts[h])
BusyOwned(d) ==
    \A b \in d.busy : Stored(d.hosts, <<b[1], b[2]>>) /\ CalendarOfUser(d, b[3], b[2])
GrantsPlaced(d, homes) ==
    \A g \in IdsOf(d.grants) :
        Stored(d.users, g[1]) /\ d.grants[g].account \in homes[g[1]]
(* A token is of the grant that it can be renewed with *)
GrantsWhole(d) ==
    \A g \in IdsOf(d.grants) : d.grants[g].access.grant = d.grants[g].refresh
Derived(t) == t.end = t.start + t.length /\ t.until = Lasts(t.rule, t.length)
EventsDerived(d) == \A e \in IdsOf(d.events) : Derived(d.events[e].times)

Consistent(d, origin, homes) ==
    /\ d \in Database
    /\ UsersAtHome(d, homes)
    /\ CalendarsOwned(d, origin, homes)
    /\ SchedulesOwned(d, origin) /\ ServicesOwned(d, origin)
    /\ EventsOwned(d, origin, homes)
    /\ HostsPlaced(d, origin, homes) /\ BusyOwned(d)
    /\ GrantsPlaced(d, homes) /\ GrantsWhole(d) /\ EventsDerived(d)
=============================================================================
