------------------------------ MODULE Lookups -------------------------------
(***************************************************************************)
(* The use cases that show rows of the database to a client as they are:   *)
(* the get_...rs of api/src/{user,calendar,schedule,service,event}.  A     *)
(* guard may have looked the row up before; the use case looks it up again *)
(***************************************************************************)
EXTENDS Requests

(* What is shown of a row: its id, the user and the account it is of       *)
Users(us) == {[id |-> u, user |-> u, account |-> db.users[u].account] : u \in us}
Calendars(cs) ==
    {[id |-> c, user |-> db.calendars[c].user, account |-> db.calendars[c].account] : c \in cs}
Schedules(ss) ==
    {[id |-> s, user |-> db.schedules[s].user,
      account |-> db.users[db.schedules[s].user].account] : s \in ss}
Services(vs) == {[id |-> v, user |-> None, account |-> db.services[v].account] : v \in vs}
Events(es) ==
    {[id |-> e, user |-> db.events[e].user, account |-> db.events[e].account] : e \in es}

Show(k, rows) ==
    /\ calls' = IF rows = {} THEN [calls EXCEPT ![k] = None]
                ELSE [calls EXCEPT ![k].at = "shown", ![k].row = None, ![k].todo = rows]
    /\ UNCHANGED <<db, bounds, now, ghostVars>>

(* find_by_metadata: rows of the account that contain the metadata of the  *)
(* request; any of them, as the statement limits their number and asks for *)
(* no order                                                                *)
Matches(data, metadata) == \A f \in Field : metadata[f] # None => data[f] = metadata[f]
ShowSome(k, op, rows) == At(k, op, "find") /\ \E page \in SUBSET rows : Show(k, page)

----------------------------------------------------------------------------
(* The user of a token is the one its guard has read *)
GetMe(k) ==
    LET q == calls[k] IN
    At(k, "GetMe", "find") /\ Show(k, {[id |-> q.user, user |-> q.user, account |-> q.row.account]})

GetUser(k) ==
    LET q == calls[k] IN
    At(k, "GetUser", "find")
    /\ Show(k, Users({u \in {q.user} : UserInAccount(db, u, q.account)}))

(* External ids are unique among the users of all accounts *)
UserByExternalId(external) ==
    {u \in IdsOf(db.users) : external # None /\ db.users[u].external = external}
GetUserByExternalId(k) ==
    LET q == calls[k] IN
    At(k, "GetUserByExternalId", "find")
    /\ Show(k, Users({u \in UserByExternalId(q.key) : UserInAccount(db, u, q.account)}))

UsersByMeta(q) ==
    {u \in IdsOf(db.users) : db.users[u].account = q.account /\ Matches(db.users[u].data, q.patch)}
GetUsersByMeta(k) == ShowSome(k, "GetUsersByMeta", Users(UsersByMeta(calls[k])))

----------------------------------------------------------------------------
GetCalendar(k) ==
    LET q == calls[k] IN
    At(k, "GetCalendar", "find")
    /\ Show(k, Calendars({c \in {q.calendar} : CalendarOfUser(db, c, q.user)}))

(* All calendars of a user, or the one with a key.  With the key of an     *)
(* account, the account of the user is not compared.                       *)
CalendarsByKey(u, key) == {c \in CalendarsOf(db, u) : db.calendars[c].key = key}
GetCalendars(k) ==
    LET q == calls[k] IN
    At(k, "GetCalendars", "find")
    /\ Show(k, Calendars(IF q.key = None THEN CalendarsOf(db, q.user)
                         ELSE CalendarsByKey(q.user, q.key)))

CalendarsByMeta(q) ==
    {c \in IdsOf(db.calendars) :
        db.calendars[c].account = q.account /\ Matches(db.calendars[c].data, q.patch)}
GetCalendarsByMeta(k) ==
    ShowSome(k, "GetCalendarsByMeta", Calendars(CalendarsByMeta(calls[k])))

----------------------------------------------------------------------------
(* With a token, the user of the schedule is not compared.                 *)
GetSchedule(k) ==
    LET q == calls[k] IN
    At(k, "GetSchedule", "find")
    /\ Show(k, Schedules({s \in {q.schedule} : Stored(db.schedules, s)}))

SchedulesByMeta(q) ==
    {s \in IdsOf(db.schedules) : /\ UserInAccount(db, db.schedules[s].user, q.account)
                                 /\ Matches(db.schedules[s].data, q.patch)}
GetSchedulesByMeta(k) ==
    ShowSome(k, "GetSchedulesByMeta", Schedules(SchedulesByMeta(calls[k])))

(* A service is shown with its hosts *)
ServiceWithUsers(v) == {h[2] : h \in {g \in IdsOf(db.hosts) : g[1] = v}}
GetService(k) ==
    LET q == calls[k] IN
    At(k, "GetService", "find")
    /\ Show(k, IF ServiceInAccount(db, q.service, q.account)
               THEN Services({q.service}) \union Users(ServiceWithUsers(q.service)) ELSE {})

ServicesByMeta(q) ==
    {v \in IdsOf(db.services) :
        db.services[v].account = q.account /\ Matches(db.services[v].data, q.patch)}
GetServicesByMeta(k) ==
    ShowSome(k, "GetServicesByMeta", Services(ServicesByMeta(calls[k])))

----------------------------------------------------------------------------
(* What the guard of the event has read is what is shown; the user of a    *)
(* token has the event looked up.                                          *)
GetEvent(k) ==
    LET q == calls[k] IN
    \/ At(k, "GetEvent", "guarded")
       /\ Show(k, {[id |-> q.event, user |-> q.row.user, account |-> q.row.account]})
    \/ At(k, "GetEvent", "find")
       /\ Show(k, Events({e \in {q.event} : EventOfUser(db, e, q.user)}))

(* External ids of events group them *)
EventsByExternalId(q) ==
    {e \in IdsOf(db.events) :
        db.events[e].account = q.account /\ db.events[e].data["key"] = q.key}
GetEventByExternalId(k) ==
    At(k, "GetEventByExternalId", "find") /\ Show(k, Events(EventsByExternalId(calls[k])))

EventsByMeta(q) ==
    {e \in IdsOf(db.events) :
        db.events[e].account = q.account /\ Matches(db.events[e].data, q.patch)}
GetEventsByMeta(k) == ShowSome(k, "GetEventsByMeta", Events(EventsByMeta(calls[k])))

LookupOps ==
    {"GetMe", "GetUser", "GetUserByExternalId", "GetUsersByMeta", "GetCalendar", "GetCalendars",
     "GetCalendarsByMeta", "GetSchedule", "GetSchedulesByMeta", "GetService", "GetServicesByMeta",
     "GetEvent", "GetEventByExternalId", "GetEventsByMeta"}

LookupsNext(k) ==
    /\ calls[k].op \in LookupOps
    /\ \/ GetMe(k) \/ GetUser(k) \/ GetUserByExternalId(k) \/ GetUsersByMeta(k)
       \/ GetCalendar(k) \/ GetCalendars(k) \/ GetCalendarsByMeta(k)
       \/ GetSchedule(k) \/ GetSchedulesByMeta(k) \/ GetService(k) \/ GetServicesByMeta(k)
       \/ GetEvent(k) \/ GetEventByExternalId(k) \/ GetEventsByMeta(k)
       \/ calls[k].at = "shown" /\ Answer(k) /\ UNCHANGED <<db, bounds, now, ghostVars>>
=============================================================================
