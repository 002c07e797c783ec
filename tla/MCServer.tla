------------------------------ MODULE MCServer ------------------------------
(* Small instances of Server, one scenario for each group of use cases that *)
(* share tables.                                                           *)
EXTENDS Server, TLC

CONSTANTS k1, k2, p1, p2, a1, a2, u1, u2, c1, c2, s1, s2, v1, v2, e1, e2, e3,
          x1, y1, y2, y3, y4, g1, g2, w0, w1

MCField == {"key", "rest"}
MCStatus == {"confirmed", "tentative", "cancelled"}
MCRank == e1 :> 1 @@ e2 :> 2 @@ e3 :> 3
MCProvider == {"google", "outlook"}
Connections == Permutations({k1, k2})

Row(w) == [f \in MCField |-> w]
Patch(f, w) == [h \in MCField |-> IF h = f THEN w ELSE None]

(* A table with the rows of `rows` *)
Table(ids, rows) == [id \in ids |-> IF id \in DOMAIN rows THEN rows[id] ELSE None]

UserOf(a) == [account |-> a, external |-> None, data |-> Row(w0)]
CalendarOf(u, a) == [user |-> u, account |-> a, key |-> None, data |-> Row(w0)]
Accounts12 == a1 :> [data |-> Row(w0)] @@ a2 :> [data |-> Row(w0)]
Bare ==
    [accounts     |-> Table(Account, Accounts12),
     integrations |-> {},
     users        |-> Table(User, u1 :> UserOf(a1)),
     grants       |-> Table(User \X Provider, <<>>),
     calendars    |-> Table(Calendar, c1 :> CalendarOf(u1, a1)),
     synced       |-> {},
     schedules    |-> Table(Schedule, s1 :> [user |-> u1, data |-> Row(w0)]),
     services     |-> Table(Service, v1 :> [account |-> a1, data |-> Row(w0)]),
     hosts        |-> Table(Service \X User, <<>>),
     busy         |-> {},
     extBusy      |-> {},
     events       |-> Table(Event, <<>>),
     copies       |-> {}]
NoRemote == Table(ExtEvent, <<>>)

Hosted ==
    [Bare EXCEPT
        !.users = Table(User, u1 :> UserOf(a1) @@
                              u2 :> UserOf(a2)),
        !.calendars = Table(Calendar, c1 :> CalendarOf(u1, a1) @@
                                      c2 :> CalendarOf(u2, a2)),
        !.hosts = Table(Service \X User, <<v1, u1>> :> [calendar |-> c1, schedule |-> None])]

(* Events at [1, 3) and so on; exceptions; a series every second unit *)
Once(start, length) ==
    Completed([start |-> start, length |-> length, end |-> 0, busy |-> TRUE,
               status |-> "confirmed", rule |-> None, until |-> None, exdates |-> {},
               series |-> None, original |-> None])
Series(start, length, until) ==
    Completed([Once(start, length) EXCEPT !.rule = [every |-> 2, until |-> until]])
Exception(start, original) == [Once(start, 1) EXCEPT !.series = e1, !.original = original]

TokenOf(g, until) == [grant |-> g, until |-> until]
\* A token whose issuing took a unit of time
GrantOf(g, expires) ==
    [account |-> a1, access |-> TokenOf(g, expires - 1), refresh |-> g, expires |-> expires]
Connected1 ==
    [Bare EXCEPT !.hosts = Table(Service \X User,
                                 <<v1, u1>> :> [calendar |-> c1, schedule |-> None]),
                   !.integrations = {<<a1, "google">>},
                   !.grants = Table(User \X Provider, <<u1, "google">> :> GrantOf(g1, 2))]

Sync(p) == [calendar |-> c1, user |-> u1, provider |-> p, ext |-> x1]
TheEvent == [calendar |-> c1, user |-> u1, account |-> a1, service |-> None, data |-> Row(w0),
             times |-> Once(1, 2)]
CopyAt(p, y) == [event |-> e1, calendar |-> c1, provider |-> p, ext |-> x1, copy |-> y]
Synced ==
    [Connected1 EXCEPT
        !.calendars[c2] = Connected1.calendars[c1],
        !.integrations = {<<a1, "google">>, <<a1, "outlook">>},
        !.grants = Table(User \X Provider, <<u1, "google">> :> GrantOf(g1, 2) @@
                                           <<u1, "outlook">> :> GrantOf(g2, 9)),
        !.synced = {Sync("google"), Sync("outlook")},
        !.events = Table(Event, e1 :> TheEvent),
        !.copies = {CopyAt("google", y1), CopyAt("outlook", y2)}]
TheRemote == [event |-> e1, calendar |-> c1, data |-> Row(w0), there |-> TRUE]
(* The token for Google is about to expire *)
Lapsed == [Synced EXCEPT !.grants[<<u1, "google">>] = GrantOf(g1, 1)]
(* The calendar is synced with Google by another user than its own *)
Borrowed ==
    [Synced EXCEPT !.users[u2] = UserOf(a1), !.grants[<<u2, "google">>] = GrantOf(g2, 9),
                   !.synced = {[Sync("google") EXCEPT !.user = u2], Sync("outlook")}]
NoSync == [Synced EXCEPT !.synced = {}, !.copies = {}]
Alone == [Bare EXCEPT !.accounts[a2] = None]
BothRemote == Table(ExtEvent, y1 :> TheRemote @@ y2 :> TheRemote)

----------------------------------------------------------------------------
(* Requests *)
Req(op, rest) ==
    rest @@ [Blank EXCEPT !.op = op, !.account = a1, !.user = u1,
                          !.times = IF op \in Creates THEN Once(1, 2) ELSE None]
OfUser(op, rest) ==
    Req(op, rest @@ [signed |-> w0, policy |-> [allow |-> {"All"}, reject |-> {}]])

Directory1 ==
    {Req("CreateUser", [account |-> a2, patch |-> Row(w0)]),
     Req("CreateUser", [user |-> u2, key |-> w1, patch |-> Row(w0)]),
     Req("UpdateUser", [key |-> w1, patch |-> Patch("key", w1)]),
     Req("UpdateUser", [patch |-> Patch("rest", w1)]),
     Req("DeleteUser", [op |-> "DeleteUser"]),
     Req("CreateCalendar", [key |-> w1, patch |-> Row(w0)]),
     Req("UpdateCalendar", [calendar |-> c1, patch |-> Patch("key", w1)]),
     Req("UpdateCalendar", [calendar |-> c1, patch |-> Patch("rest", w1)]),
     Req("DeleteCalendar", [calendar |-> c1]),
     Req("CreateSchedule", [patch |-> Row(w0)]),
     Req("UpdateSchedule", [schedule |-> s1, patch |-> Patch("key", w1)]),
     Req("UpdateSchedule", [schedule |-> s1, patch |-> Patch("rest", w1)]),
     Req("DeleteSchedule", [schedule |-> s1]),
     Req("CreateEvent", [calendar |-> c1, patch |-> Row(w0)])}

Plan(op, c, s) == Req(op, [service |-> v1, calendar |-> c, schedule |-> s])
Hosts1 ==
    {Plan("AddUserToService", c1, None), Plan("AddUserToService", None, s1),
     Plan("UpdateServiceUser", c1, None), Plan("UpdateServiceUser", None, s1),
     Plan("UpdateServiceUser", c2, None),
     Plan("RemoveUserFromService", None, None),
     Req("AddUserToService", [account |-> a2, user |-> u2, service |-> v1]),
     Req("AddUserToService", [user |-> u2, service |-> v1]),
     Plan("AddBusyCalendar", c2, None),
     Plan("AddBusyCalendar", c1, None), Plan("RemoveBusyCalendar", c1, None),
     Req("CreateService", [patch |-> Row(w0)]),
     Req("DeleteService", [service |-> v1]),
     Req("DeleteCalendar", [calendar |-> c1]),
     Req("DeleteSchedule", [schedule |-> s1]),
     Req("DeleteUser", [op |-> "DeleteUser"]),
     Req("CreateUser", [account |-> a2, patch |-> Row(w0)])}

OfGoogle == [provider |-> "google", ext |-> x1, service |-> v1, calendar |-> c1]
Tokens1 ==
    {Req(op, OfGoogle) :
        op \in {"OAuthIntegration", "RemoveIntegration", "GetExternalCalendars",
                "RemoveAccountIntegration"}}
Syncs1 ==
    {Req(op, OfGoogle) :
        op \in {"AddExtBusyCalendar", "RemoveExtBusyCalendar", "RemoveIntegration",
                "AddAccountIntegration", "RemoveAccountIntegration"}} \union
    {Req(op, OfGoogle) : op \in {"AddSyncCalendar", "RemoveSyncCalendar"}}

Events1 ==
    {OfUser("CreateEvent", [calendar |-> c1, patch |-> Row(w0)]),
     Req("CreateBatchEvents", [queue |-> {c1}, patch |-> Row(w0)]),
     Req("UpdateEvent", [event |-> e1, patch |-> Patch("key", w1)]),
     OfUser("UpdateEvent", [event |-> e1, patch |-> Patch("rest", w1)]),
     Req("DeleteEvent", [event |-> e1]),
     OfUser("DeleteEvent", [event |-> e1])}
Losses1 ==
    {Req("UpdateEvent", [event |-> e1, patch |-> Patch("key", w1)]),
     Req("DeleteEvent", [event |-> e1]),
     Req("UpdateEvent", [event |-> e1, service |-> v1, patch |-> Patch("rest", w1)]),
     Req("DeleteService", [service |-> v1]),
     Req("DeleteManyEvents", [todo |-> {e1, e2}]),
     Req("CreateBatchEvents", [queue |-> {c1, c2}, patch |-> Row(w0)]),
     Req("DeleteCalendar", [calendar |-> c1]),
     Req("RemoveIntegration", OfGoogle),
     Req("RemoveSyncCalendar", OfGoogle)}

Leaving1 ==
    {Req("RemoveIntegration", OfGoogle),
     Req("UpdateEvent", [event |-> e1, patch |-> Patch("key", w1)]),
     Req("DeleteEvent", [event |-> e1]),
     Req("CreateEvent", [calendar |-> c1, patch |-> Row(w0)])}

Policies ==
    {[allow |-> {"All"}, reject |-> {"DeleteCalendar"}],
     [allow |-> {"UpdateCalendar", "CreateCalendarEvent", "DeleteSchedule"}, reject |-> {}],
     [allow |-> {"DeleteCalendar", "UpdateCalendarEvent", "UpdateSchedule", "DeleteCalendarEvent"},
      reject |-> {"UpdateCalendarEvent"}],
     [allow |-> {"All"}, reject |-> {"All"}]}
Policies1 ==
    {OfUser(op, [policy |-> p, calendar |-> c1, schedule |-> s1, event |-> e1,
                 patch |-> Patch("key", w1)]) :
        p \in Policies,
        op \in {"UpdateCalendar", "DeleteCalendar", "UpdateSchedule", "DeleteSchedule",
                "UpdateEvent", "DeleteEvent"}} \union
    {OfUser(op, [policy |-> p, calendar |-> c1, patch |-> Row(w1)]) :
        p \in Policies, op \in {"CreateCalendar", "CreateSchedule", "CreateEvent"}}

Processes1 ==
    {Req("SetAccount", [server |-> p1, patch |-> Patch("key", w1)]),
     Req("GetAccount", [server |-> p2])}
Stale1 == Processes1 \union
    {Req("InitDefaultAccount", [server |-> p, account |-> a2, patch |-> Row(w0)]) : p \in {p1, p2}} \union
    {Req("AddAccountIntegration", [account |-> a2, provider |-> "google"]),
     Req("SetAccount", [server |-> p2, patch |-> Patch("rest", w1)])}
Accounts1 ==
    {Req("SetAccount", [server |-> p1, patch |-> Patch("key", w1)]),
     Req("SetAccount", [server |-> p1, patch |-> Patch("rest", w1)]),
     Req("GetAccount", [server |-> p1]),
     Req("InitDefaultAccount", [server |-> p1, patch |-> Row(w0)]),
     Req("CreateAccount", [patch |-> Row(w0)])}

(* Queries of the window [2, 4] *)
Window == [start |-> 2, end |-> 4]
Confirmed == [statuses |-> {"confirmed"}, busy |-> {TRUE}]
Anything == [statuses |-> {"confirmed", "tentative"}, busy |-> BOOLEAN]
Asks(op, rest, want) ==
    Req(op, rest @@ [reading |-> Wants(want @@ [Wish EXCEPT !.window = Window])])
Searching(op, filter, sort, limit) ==
    Asks(op, [user |-> u1],
         [filter |-> filter, sort |-> sort, limit |-> limit])

Ranges1 ==
    {Asks("GetEventsForUsersInTimeRange", [user |-> None], which @@ [users |-> {u1}]) :
        which \in {Confirmed, Anything}} \union
    {Asks("GetEventsForUsersInTimeRange", [user |-> None], Anything @@ [users |-> {u1, u2}]),
     Asks("GetUserFreeBusy", [user |-> u1], [statuses |-> {"confirmed"}, calendars |-> {c1}])} \union
    {Asks("GetEventsByCalendars", [user |-> u1], [calendars |-> cs]) :
        cs \in {{}, {c1}, {c1, c2}}} \union
    {Asks("GetCalendarEvents", [calendar |-> c1], Confirmed),
     Asks("ExportIcal", [calendar |-> c1], [limit |-> 1]),
     Asks("ExportIcal", [calendar |-> c2], [limit |-> 1]),
     Asks("GetEventInstances", [event |-> e1], Confirmed),
     Asks("GetEventInstances", [event |-> e1], [window |-> [start |-> 0, end |-> 5]]),
     Asks("GetUserFreeBusy", [user |-> u1], [statuses |-> {"confirmed"}]),
     Asks("GetMultipleFreeBusy", [user |-> None], [users |-> {u1}])}

(* Two accounts, each with a user that has everything *)
Everyone ==
    [Hosted EXCEPT
        !.schedules = Table(Schedule, s1 :> [user |-> u1, data |-> Row(w0)] @@
                                      s2 :> [user |-> u2, data |-> Row(w0)]),
        !.users[u1].external = w0, !.calendars[c1].key = w0,
        !.events = Table(Event, e1 :> TheEvent @@
            e2 :> [TheEvent EXCEPT !.calendar = c2, !.user = u2, !.account = a2])]
AllOfRow == [calendar |-> c1, schedule |-> s1, service |-> v1, event |-> e1]
OfToken(op) == OfUser(op, AllOfRow)
ByKey(op) == Req(op, AllOfRow)
Shown1 ==
    {OfToken("GetMe"), OfToken("GetCalendar"), OfToken("GetCalendars"), OfToken("GetEvent"),
     ByKey("GetUser"), ByKey("GetCalendar"), ByKey("GetCalendars"), ByKey("GetEvent")}
Lookups1 == Shown1 \union
    {Req(op, [account |-> a, key |-> w0, patch |-> Patch("key", w0)] @@ AllOfRow) :
        a \in {a1, a2},
        op \in {"GetUser", "GetUserByExternalId", "GetUsersByMeta", "GetCalendarsByMeta",
                "GetSchedulesByMeta", "GetService", "GetServicesByMeta",
                "GetEventByExternalId", "GetEventsByMeta"}} \union
    {ByKey("GetSchedule"), OfToken("GetSchedule"), OfUser("GetSchedule", [schedule |-> s2]),
     Req("GetCalendar", [calendar |-> c2]), OfUser("GetEvent", [event |-> e2]), OfUser("GetCalendars", [key |-> w0])}
Movers1 ==
    {Req("DeleteUser", [op |-> "DeleteUser"]),
     Req("CreateUser", [account |-> a2, patch |-> Row(w0)]),
     Req("DeleteCalendar", [calendar |-> c1]),
     Req("UpdateUser", [account |-> a2, user |-> u2, patch |-> Patch("rest", w1)])}

(* A series or a single event, and perhaps an exception of it *)
Firsts == {Series(0, 1, None), Series(0, 3, None), Series(0, 1, 2), Once(1, 1), Once(3, 1)}
Seconds ==
    {[Exception(start, original) EXCEPT !.busy = kind[1], !.status = kind[2]] :
        start \in {0, 3, 5}, original \in {0, 2, None},
        kind \in {<<TRUE, "confirmed">>, <<FALSE, "confirmed">>, <<TRUE, "cancelled">>}}
WithEvents(first, second, c) ==
    LET event(times, d) == [TheEvent EXCEPT !.times = times, !.calendar = d]
    IN  [Bare EXCEPT
            !.calendars[c2] = Bare.calendars[c1],
            !.events = [e \in Event |-> CASE e = e1 /\ first # None -> event(first, c1)
                                          [] e = e2 /\ second # None -> event(second, c)
                                          [] OTHER -> None]]
(* An exception that recurs or that has one itself, an exception of an     *)
(* event that does not recur, and one of a series of another account       *)
Recurring(t) == Completed([t EXCEPT !.rule = [every |-> 2, until |-> None]])
OddDiaries ==
    {[WithEvents(Series(0, 1, None), second, c1) EXCEPT
            !.events[e3] = [TheEvent EXCEPT !.times = [third EXCEPT !.series = e2], !.data = Row(w1)]] :
        second \in {Exception(3, 2), Recurring(Exception(1, 2)), Recurring(Exception(2, 2)),
                    [Recurring(Exception(1, 2)) EXCEPT !.busy = FALSE]},
        third \in {Exception(2, 3), Exception(5, 3), Exception(5, 2)}} \union
    {WithEvents(Once(3, 1), Exception(2, 3), c1),
     WithEvents(Once(3, 1), Exception(5, 3), c1),
     WithEvents(Series(0, 1, None), [Exception(3, 2) EXCEPT !.exdates = {3}], c1),
     [Hosted EXCEPT !.events = Table(Event,
        e1 :> [TheEvent EXCEPT !.times = Series(0, 1, None), !.calendar = c2, !.user = u2, !.account = a2] @@
        e2 :> [TheEvent EXCEPT !.times = Exception(3, 2)])]}
Diaries ==
    OddDiaries \union
    {WithEvents(first, second, c) :
        first \in Firsts \union {None}, second \in Seconds \union {None}, c \in {c1, c2}}

Retime(e, patch) == Req("UpdateEvent", [event |-> e, times |-> patch @@ Unnamed])
Edits1 ==
    {Req("CreateEvent", [calendar |-> c1, patch |-> Row(w0), times |-> Exception(5, 2)]),
     Retime(e1, [length |-> {3}]), Retime(e1, [start |-> {1}, exdates |-> {{3}}]),
     Retime(e1, [rule |-> {[every |-> 2, until |-> 2]}, exdates |-> {{2}}]),
     Retime(e2, [original |-> {4}]),
     Req("DeleteEvent", [event |-> e1])}
Races1 ==
    Edits1 \union
    {Asks("GetEventsForUsersInTimeRange", [user |-> None], Anything @@ [users |-> {u1}]),
     Asks("GetEventInstances", [event |-> e1], Confirmed),
     Asks("GetMultipleFreeBusy", [user |-> None], [users |-> {u1}])}

Lines(e) == [Req("CreateEvent", [calendar |-> c1, patch |-> Row(w0)]) EXCEPT !.times = e]
Searches1 ==
    {Searching("SearchEvents", {}, ByUid, 1), Searching("SearchEvents", {}, ByUid, 2),
     Searching("AccountSearchEvents", {[column |-> "start_time", op |-> "gte", arg |-> 1]}, ByUid, 1),
     Searching("SearchEvents", {}, None, 3),
     Searching("SearchEvents", {[column |-> "status", op |-> "eq", arg |-> "confirmed"]},
               [column |-> "start_time", descending |-> TRUE], 1),
     Searching("AccountSearchEvents", {[column |-> "recurrence_jsonb", op |-> "recurring at", arg |-> 4]},
               None, 2),
     Lines(Once(0, 1)), Retime(e2, [start |-> {4}]),
     Req("DeleteEvent", [event |-> e1]), Req("DeleteEvent", [event |-> e2])}

Scenario(requests, limit, faults, time, start, copies) ==
    [requests |-> requests, limit |-> limit, faults |-> faults, time |-> time,
     dbs |-> start, remote |-> copies]
MCScenarios ==
    [directory  |-> Scenario(Directory1, 3, 0, 0, {Bare}, NoRemote),
     hosts      |-> Scenario(Hosts1, 3, 1, 0, {Hosted}, NoRemote),
     tokens     |-> Scenario(Tokens1, 3, 1, 3, {Connected1}, NoRemote),
     syncs      |-> Scenario(Syncs1, 3, 1, 0, {Connected1}, NoRemote),
     events     |-> Scenario(Events1, 2, 0, 0, {Lapsed}, BothRemote),
     outages    |-> Scenario(Events1 \union Ranges1, 1, 1, 0, {Lapsed, Synced}, BothRemote),
     losses     |-> Scenario(Losses1, 2, 0, 0, {Synced}, BothRemote),
     leaving    |-> Scenario(Leaving1, 2, 0, 0, {Borrowed}, BothRemote),
     policies   |-> Scenario(Policies1, 2, 0, 0, {NoSync}, NoRemote),
     accounts   |-> Scenario(Accounts1, 3, 0, 0, {Alone}, NoRemote),
     lookups    |-> Scenario(Lookups1 \union Movers1, 2, 0, 0, {Everyone}, NoRemote),
     moves      |-> Scenario(Movers1 \union Shown1, 3, 0, 0, {Everyone}, NoRemote),
     ranges     |-> Scenario(Ranges1, 1, 0, 0, Diaries, NoRemote),
     races      |-> Scenario(Races1, 3, 0, 0, {WithEvents(Series(0, 1, None), Exception(3, 2), c2)}, NoRemote),
     searches   |-> Scenario(Searches1, 3, 0, 0, {WithEvents(Series(0, 1, None), Exception(3, 2), c2)}, NoRemote),
     stale      |-> Scenario(Stale1, 3, 0, 0, {Alone}, NoRemote),
     processes  |-> Scenario(Processes1, 3, 0, 3, {Bare}, NoRemote)]
=============================================================================
