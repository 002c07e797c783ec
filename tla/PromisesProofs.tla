--------------------------- MODULE PromisesProofs ---------------------------
(***************************************************************************)
(* What the server promises its clients, beyond the tables' agreement with *)
(* each other (ServerProofs): that what an update was answered stands,     *)
(* that tokens are valid when they are used, that settings cached by a     *)
(* process are stale for a bounded time and right where one process serves *)
(* the account, that a token does only what its policy permits, and that   *)
(* what is shown is of the account that asked.                             *)
(***************************************************************************)
EXTENDS ServerProofs

----------------------------------------------------------------------------
(* What the statements do to the rows *)

(* The rows of a table stay or go *)
Going(t, s) == DOMAIN s = DOMAIN t /\ \A x \in DOMAIN t : s[x] = t[x] \/ s[x] = None
(* A statement that only takes rows away, from the tables with an owner    *)
Goes(d, r) ==
    /\ DOMAIN r = DOMAIN d /\ r.accounts = d.accounts
    /\ Going(d.users, r.users) /\ Going(d.grants, r.grants)
    /\ Going(d.calendars, r.calendars) /\ Going(d.schedules, r.schedules)
    /\ Going(d.services, r.services) /\ Going(d.events, r.events)
(* A statement on none of them *)
Aside(d, r) ==
    /\ DOMAIN r = DOMAIN d /\ r.accounts = d.accounts /\ r.users = d.users
    /\ r.calendars = d.calendars /\ r.schedules = d.schedules
    /\ r.services = d.services /\ r.events = d.events
TableNames ==
    {"accounts", "integrations", "users", "grants", "calendars", "synced", "schedules",
     "services", "hosts", "busy", "extBusy", "events", "copies"}

(* Rows that are left out are gone, the others stay.                       *)
LEMMA WithoutGoes ==
    ASSUME NEW t, NEW ids
    PROVE  Going(t, t) /\ Going(t, Without(t, ids))
  BY DEF Going, Without

(* Rows that stayed or went, and then stayed or went again, stayed or went.*)
LEMMA GoesTwice ==
    ASSUME NEW d, NEW e, NEW r, Goes(d, e), Goes(e, r)
    PROVE  Goes(d, r)
  <1>1. ASSUME NEW t, NEW s, NEW u, Going(t, s), Going(s, u) PROVE Going(t, u)
    BY <1>1 DEF Going
  <1> QED BY <1>1 DEF Goes

(* The cascades take rows away and change none.                            *)
LEMMA DropsGo ==
    ASSUME NEW d, DOMAIN d = TableNames
    PROVE  /\ \A ss : Goes(d, SyncsDropped(d, ss)) /\ Aside(d, SyncsDropped(d, ss))
                      /\ SyncsDropped(d, ss).grants = d.grants
           /\ \A es : Goes(d, EventsDropped(d, es))
                      /\ EventsDropped(d, es).events = Without(d.events, es)
                      /\ EventsDropped(d, es).calendars = d.calendars
                      /\ EventsDropped(d, es).schedules = d.schedules
           /\ \A hs : Goes(d, HostsDropped(d, hs)) /\ Aside(d, HostsDropped(d, hs))
           /\ \A cs, ss : Goes(d, PlansCleared(d, cs, ss)) /\ Aside(d, PlansCleared(d, cs, ss))
  <1>1. ASSUME NEW ss
        PROVE  Goes(d, SyncsDropped(d, ss)) /\ Aside(d, SyncsDropped(d, ss))
               /\ SyncsDropped(d, ss).grants = d.grants
    BY WithoutGoes DEF SyncsDropped, Goes, Aside, TableNames
  <1>2. ASSUME NEW es
        PROVE  /\ Goes(d, EventsDropped(d, es))
               /\ EventsDropped(d, es).events = Without(d.events, es)
               /\ EventsDropped(d, es).calendars = d.calendars
               /\ EventsDropped(d, es).schedules = d.schedules
    BY WithoutGoes DEF EventsDropped, Goes, TableNames
  <1>3. ASSUME NEW hs PROVE Goes(d, HostsDropped(d, hs)) /\ Aside(d, HostsDropped(d, hs))
    BY WithoutGoes DEF HostsDropped, Goes, Aside, TableNames
  <1>4. ASSUME NEW cs, NEW ss
        PROVE  Goes(d, PlansCleared(d, cs, ss)) /\ Aside(d, PlansCleared(d, cs, ss))
    BY WithoutGoes DEF PlansCleared, Goes, Aside, TableNames
  <1> QED BY <1>1, <1>2, <1>3, <1>4

(* The grants that are revoked take syncs with them, and nothing else.     *)
LEMMA GrantsGo ==
    ASSUME NEW d, DOMAIN d = TableNames, NEW gs
    PROVE  Goes(d, GrantsDropped(d, gs)) /\ Aside(d, GrantsDropped(d, gs))
  <1> DEFINE a == [d EXCEPT !.grants = Without(@, gs),
                            !.extBusy = {b \in @ : <<b.user, b.provider>> \notin gs}]
             ss == {s \in a.synced : <<s.user, s.provider>> \in gs}
  <1>1. DOMAIN a = TableNames /\ Goes(d, a) /\ Aside(d, a)
    BY WithoutGoes DEF Goes, Aside, TableNames
  <1>2. GrantsDropped(d, gs) = SyncsDropped(a, ss)
    BY DEF GrantsDropped
  <1> HIDE DEF a, ss
  <1>3. Goes(a, SyncsDropped(a, ss)) /\ Aside(a, SyncsDropped(a, ss))
    BY <1>1, DropsGo
  <1> QED BY <1>1, <1>2, <1>3, GoesTwice DEF Aside

(* Calendars take their events with them, and no schedule.                 *)
LEMMA CalendarsGo ==
    ASSUME NEW d \in Database, NEW cs
    PROVE  LET r == CalendarsDropped(d, cs)
           IN  /\ Goes(d, r)
               /\ r.calendars = Without(d.calendars, cs) /\ r.schedules = d.schedules
               /\ r.events = Without(d.events, EventsOf(d, cs))
  <1> DEFINE a == PlansCleared(d, cs, {})
             es == EventsOf(d, cs)
             b == EventsDropped(a, es)
             ss == {s \in b.synced : s.calendar \in cs}
             c == SyncsDropped(b, ss)
             r == [c EXCEPT !.calendars = Without(@, cs),
                            !.copies = {k \in @ : k.calendar \notin cs}]
  <1>0. DOMAIN d = TableNames
    BY DEF Database, TableNames
  <1>1. Goes(d, a) /\ Aside(d, a) /\ DOMAIN a = TableNames
    BY <1>0, DropsGo DEF Goes
  <1>2. EventsOf(d, cs) = EventsOf(a, cs)
    BY <1>1 DEF Aside, EventsOf
  <1>3. CalendarsDropped(d, cs) = r
    BY DEF CalendarsDropped
  <1> HIDE DEF a
  <1>4. /\ Goes(a, b) /\ b.events = Without(a.events, es)
        /\ b.calendars = a.calendars /\ b.schedules = a.schedules /\ DOMAIN b = TableNames
    BY <1>1, DropsGo DEF Goes
  <1> HIDE DEF b
  <1>5. Goes(b, c) /\ Aside(b, c) /\ DOMAIN c = TableNames
    BY <1>4, DropsGo DEF Goes
  <1> HIDE DEF c
  <1>6. /\ DOMAIN r = TableNames /\ Goes(c, r) /\ r.calendars = Without(c.calendars, cs)
        /\ r.schedules = c.schedules /\ r.events = c.events
    BY <1>5, WithoutGoes DEF Goes, TableNames
  <1> HIDE DEF r
  <1>7. Goes(d, r)
    BY <1>1, <1>4, <1>5, <1>6, GoesTwice
  <1> QED BY <1>1, <1>3, <1>4, <1>5, <1>6, <1>7 DEF Aside

(* Schedules go alone.                                                     *)
LEMMA SchedulesGo ==
    ASSUME NEW d, DOMAIN d = TableNames, NEW ss
    PROVE  LET r == SchedulesDropped(d, ss)
           IN  /\ Goes(d, r) /\ r.schedules = Without(d.schedules, ss)
               /\ r.calendars = d.calendars /\ r.events = d.events
  <1> DEFINE a == PlansCleared(d, {}, ss)
             r == [a EXCEPT !.schedules = Without(@, ss)]
  <1>1. Goes(d, a) /\ Aside(d, a) /\ DOMAIN a = TableNames
    BY DropsGo DEF Goes
  <1>2. SchedulesDropped(d, ss) = r
    BY DEF SchedulesDropped
  <1> HIDE DEF a
  <1>3. /\ Goes(a, r) /\ r.schedules = Without(a.schedules, ss)
        /\ r.calendars = a.calendars /\ r.events = a.events
    BY <1>1, WithoutGoes DEF Goes, TableNames
  <1> HIDE DEF r
  <1> QED BY <1>1, <1>2, <1>3, GoesTwice DEF Aside

(* A user takes rows away and changes none.                                *)
LEMMA UserGoes ==
    ASSUME NEW d \in Database, NEW o, NEW h, Consistent(d, o, h), NEW u
    PROVE  Goes(d, UserDeleted(d, u))
  <1> DEFINE hs == {x \in IdsOf(d.hosts) : x[2] = u}
             a == HostsDropped(d, hs)
             gs == {g \in IdsOf(d.grants) : g[1] = u}
             b == GrantsDropped(a, gs)
             cs == CalendarsOf(d, u)
             c == CalendarsDropped(b, cs)
             ss == SchedulesOf(d, u)
             e == SchedulesDropped(c, ss)
             r == [e EXCEPT !.users = Without(@, {u})]
  <1>1. UserDeleted(d, u) = r
    BY DEF UserDeleted
  <1>2. Goes(d, a) /\ DOMAIN a = TableNames
    BY DropsGo DEF Database, TableNames, Goes
  <1>3. Consistent(a, o, h)
    BY HostsDroppedKeeps DEF Kept
  <1> HIDE DEF a
  <1>4. Goes(a, b) /\ b \in Database
    <2>1. Consistent(b, o, h)
      BY <1>3, GrantsDroppedKeeps DEF Kept
    <2> QED BY <2>1, <1>2, GrantsGo DEF Consistent
  <1> HIDE DEF b
  <1>5. Goes(b, c) /\ DOMAIN c = TableNames
    BY <1>4, CalendarsGo DEF Goes, Database, TableNames
  <1> HIDE DEF c
  <1>6. Goes(c, e) /\ DOMAIN e = TableNames
    BY <1>5, SchedulesGo DEF Goes
  <1> HIDE DEF e
  <1>7. Goes(e, r)
    BY <1>6, WithoutGoes DEF Goes, TableNames
  <1> HIDE DEF r
  <1> QED BY <1>1, <1>2, <1>4, <1>5, <1>6, <1>7, GoesTwice

(* A service takes rows away and changes none.                             *)
LEMMA ServiceGoes ==
    ASSUME NEW d \in Database, NEW v
    PROVE  Goes(d, ServiceDeleted(d, v))
  <1> DEFINE hs == {x \in IdsOf(d.hosts) : x[1] = v}
             a == HostsDropped(d, hs)
             es == {e \in IdsOf(d.events) : d.events[e].service = v}
             b == EventsDropped(a, es)
             r == [b EXCEPT !.services = Without(@, {v})]
  <1>1. ServiceDeleted(d, v) = r
    BY DEF ServiceDeleted
  <1>2. Goes(d, a) /\ DOMAIN a = TableNames
    BY DropsGo DEF Database, TableNames, Goes
  <1> HIDE DEF a
  <1>3. Goes(a, b) /\ DOMAIN b = TableNames
    BY <1>2, DropsGo DEF Goes
  <1> HIDE DEF b
  <1>4. Goes(b, r)
    BY <1>3, WithoutGoes DEF Goes, TableNames
  <1> HIDE DEF r
  <1> QED BY <1>1, <1>2, <1>3, <1>4, GoesTwice

(* What a statement of Directory on a row of its own leaves alone          *)
Spares(d, r) == DOMAIN r = DOMAIN d /\ r.accounts = d.accounts /\ Going(d.grants, r.grants)

(* The statements of Directory change no account and only delete grants.   *)
LEMMA DirectorySpares ==
    ASSUME NEW d, Consistent(d, origin, homes), NEW x, NEW y, NEW z, NEW row
    PROVE  /\ Spares(d, d)
           /\ Spares(d, UserInserted(d, x, row)) /\ Spares(d, UserSaved(d, x, row))
           /\ Spares(d, UserDeleted(d, x))
           /\ Spares(d, CalendarInserted(d, x, row)) /\ Spares(d, CalendarSaved(d, x, row))
           /\ Spares(d, CalendarDeleted(d, x))
           /\ Spares(d, ScheduleInserted(d, x, row)) /\ Spares(d, ScheduleSaved(d, x, row))
           /\ Spares(d, ScheduleDeleted(d, x))
           /\ Spares(d, ServiceInserted(d, x, row)) /\ Spares(d, ServiceDeleted(d, x))
           /\ Spares(d, HostInserted(d, x, y, row)) /\ Spares(d, HostSaved(d, x, y, row))
           /\ Spares(d, HostBusyDeleted(d, x, y)) /\ Spares(d, HostDeleted(d, x, y))
           /\ Spares(d, BusyInserted(d, x, y, z)) /\ Spares(d, BusyDeleted(d, x, y, z))
  <1>0. d \in Database /\ DOMAIN d = TableNames /\ Going(d.grants, d.grants)
    BY WithoutGoes DEF Consistent, Database, TableNames
  <1>1. /\ Spares(d, d)
        /\ Spares(d, UserInserted(d, x, row)) /\ Spares(d, UserSaved(d, x, row))
    BY <1>0 DEF Spares, UserInserted, UserSaved, TableNames
  <1>2. Spares(d, CalendarInserted(d, x, row)) /\ Spares(d, ScheduleInserted(d, x, row))
    BY <1>0 DEF Spares, CalendarInserted, ScheduleInserted, TableNames
  <1>3. Spares(d, CalendarSaved(d, x, row)) /\ Spares(d, ScheduleSaved(d, x, row))
    BY <1>0 DEF Spares, CalendarSaved, ScheduleSaved, TableNames
  <1>4. Spares(d, ServiceInserted(d, x, row)) /\ Spares(d, HostInserted(d, x, y, row))
    BY <1>0 DEF Spares, ServiceInserted, HostInserted, TableNames
  <1>5. Spares(d, HostSaved(d, x, y, row)) /\ Spares(d, HostBusyDeleted(d, x, y))
    BY <1>0 DEF Spares, HostSaved, HostBusyDeleted, TableNames
  <1>6. Spares(d, BusyInserted(d, x, y, z)) /\ Spares(d, BusyDeleted(d, x, y, z))
    BY <1>0 DEF Spares, BusyInserted, BusyDeleted, TableNames
  <1>7. ASSUME NEW r, Goes(d, r) PROVE Spares(d, r)
    BY <1>7 DEF Goes, Spares
  <1>8. Goes(d, UserDeleted(d, x)) /\ Goes(d, ServiceDeleted(d, x))
    BY <1>0, UserGoes, ServiceGoes
  <1>9. Goes(d, CalendarDeleted(d, x)) /\ Goes(d, ScheduleDeleted(d, x))
    BY <1>0, CalendarsGo, SchedulesGo DEF CalendarDeleted, ScheduleDeleted
  <1>10. Goes(d, HostDeleted(d, x, y))
    BY <1>0, DropsGo DEF HostDeleted
  <1> QED BY <1>1, <1>2, <1>3, <1>4, <1>5, <1>6, <1>7, <1>8, <1>9, <1>10

(* Where the use cases of Directory go, and the statements they run        *)
DirectorySteps == {"service", "plan", "host", "busy", "exists", "owner", "write"}
Moved(k, steps) == Answer(k) \/ \E s \in steps : Goto(k, s) \/ \E row : Proceed(k, s, row)
Saves(d, r) ==
    \E x, row : \/ r = UserInserted(d, x, row) \/ r = UserSaved(d, x, row)
                \/ r = CalendarInserted(d, x, row) \/ r = CalendarSaved(d, x, row)
                \/ r = ScheduleInserted(d, x, row) \/ r = ScheduleSaved(d, x, row)
                \/ r = ServiceInserted(d, x, row)
Deletes(d, r) ==
    \E x : \/ r = UserDeleted(d, x) \/ r = CalendarDeleted(d, x)
           \/ r = ScheduleDeleted(d, x) \/ r = ServiceDeleted(d, x)
Hosts(d, r) ==
    \E x, y : \/ \E row : r = HostInserted(d, x, y, row) \/ r = HostSaved(d, x, y, row)
              \/ r = HostBusyDeleted(d, x, y) \/ r = HostDeleted(d, x, y)
              \/ \E z : r = BusyInserted(d, x, y, z) \/ r = BusyDeleted(d, x, y, z)

(* The use cases of Directory change no account and no token, and move     *)
(* from statement to statement of their own.                               *)
LEMMA DirectoryTrail ==
    ASSUME Inv, NEW k \in Client, calls[k] # None, DirectoryNext(k)
    PROVE  /\ Spares(db, db') /\ UNCHANGED now /\ Moved(k, DirectorySteps)
           /\ calls[k].op \in OwnedOps \union ServiceOps
           /\ db' = db \/ Saves(db, db') \/ Deletes(db, db') \/ Hosts(db, db')
  <1> DEFINE q == calls[k]
             Goal == /\ UNCHANGED now /\ Moved(k, DirectorySteps)
                     /\ db' = db \/ Saves(db, db') \/ Deletes(db, db') \/ Hosts(db, db')
  <1>0. Consistent(db, origin, homes)
    BY Found
  <1>1. {"service", "plan", "host", "busy", "exists", "owner", "write"} \subseteq DirectorySteps
    BY DEF DirectorySteps
  <1>2. ASSUME CreateUser(k) PROVE Goal
    BY <1>1, <1>2, Zenon
       DEF CreateUser, Find, Write, DirectoryUnchanged, Moved, Saves
  <1>3. ASSUME UpdateUser(k) PROVE Goal
    BY <1>1, <1>3, Zenon
       DEF UpdateUser, Find, Save, Write, DirectoryUnchanged, Moved, Saves
  <1>4. ASSUME DeleteUser(k) PROVE Goal
    BY <1>1, <1>4, Zenon
       DEF DeleteUser, Find, Write, DirectoryUnchanged, Moved, Deletes
  <1>5. ASSUME CreateCalendar(k) PROVE Goal
    BY <1>1, <1>5, Zenon
       DEF CreateCalendar, DirectoryUnchanged, Moved, Saves
  <1>6. ASSUME UpdateCalendar(k) PROVE Goal
    BY <1>1, <1>6, Zenon
       DEF UpdateCalendar, Find, Save, Write, DirectoryUnchanged, Moved, Saves
  <1>7. ASSUME DeleteCalendar(k) PROVE Goal
    BY <1>1, <1>7, Zenon
       DEF DeleteCalendar, Find, Write, DirectoryUnchanged, Moved, Deletes
  <1>8. ASSUME CreateSchedule(k) PROVE Goal
    BY <1>1, <1>8, Zenon
       DEF CreateSchedule, Find, Write, DirectoryUnchanged, Moved, Saves
  <1>9. ASSUME UpdateSchedule(k) PROVE Goal
    BY <1>1, <1>9, Zenon
       DEF UpdateSchedule, Find, Save, Write, DirectoryUnchanged, Moved, Saves
  <1>10. ASSUME DeleteSchedule(k) PROVE Goal
    BY <1>1, <1>10, Zenon
       DEF DeleteSchedule, Find, Write, DirectoryUnchanged, Moved, Deletes
  <1>11. ASSUME CreateService(k) PROVE Goal
    BY <1>1, <1>11, Zenon
       DEF CreateService, DirectoryUnchanged, Moved, Saves
  <1>12. ASSUME DeleteService(k) PROVE Goal
    BY <1>1, <1>12, Zenon
       DEF DeleteService, Find, Write, DirectoryUnchanged, Moved, Deletes
  <1>13. ASSUME AddUserToService(k) PROVE Goal
    BY <1>1, <1>13, Zenon
       DEF AddUserToService, CheckPlan, Find, Write, DirectoryUnchanged, Moved, Hosts
  <1>14. ASSUME UpdateServiceUser(k) PROVE Goal
    BY <1>1, <1>14, Zenon
       DEF UpdateServiceUser, CheckPlan, Find, Write, DirectoryUnchanged, Moved, Hosts
  <1>15. ASSUME RemoveUserFromService(k) PROVE Goal
    BY <1>1, <1>15, Zenon
       DEF RemoveUserFromService, Find, Write, DirectoryUnchanged, Moved, Hosts
  <1>16. ASSUME AddBusyCalendar(k) PROVE Goal
    BY <1>1, <1>16, Zenon
       DEF AddBusyCalendar, Find, Write, DirectoryUnchanged, Moved, Hosts
  <1>17. ASSUME RemoveBusyCalendar(k) PROVE Goal
    BY <1>1, <1>17, Zenon
       DEF RemoveBusyCalendar, Find, Write, DirectoryUnchanged, Moved, Hosts
  <1> HIDE DEF Goal
  <1>18. Goal
    BY <1>2, <1>3, <1>4, <1>5, <1>6, <1>7, <1>8, <1>9,
       <1>10, <1>11, <1>12, <1>13, <1>14, <1>15, <1>16, <1>17 DEF DirectoryNext
  <1>19. Spares(db, db')
    BY <1>0, <1>18, DirectorySpares DEF Goal, Saves, Deletes, Hosts
  <1> QED BY <1>18, <1>19 DEF Goal, DirectoryNext

----------------------------------------------------------------------------
(* Tokens.  A stored token outlives what the row says by no more than a    *)
(* provider takes to answer, and a request that waits for a provider has   *)
(* asked it no longer ago than that.  None of those requests shows rows.   *)

GrantsLive(d) ==
    \A g \in IdsOf(d.grants) : d.grants[g].expires <= d.grants[g].access.until + Latency
Waiting(q) == q.at = "store" \/ (q.op = "OAuthIntegration" /\ q.at = "write")
Timely(q, t) ==
    /\ Waiting(q) => /\ q.asked \in Int /\ q.asked <= t /\ t <= q.asked + Latency
                     /\ q.grant.access.until = q.asked + Life
    /\ q.at \in {"connected", "record"} => q.grant.token.until > q.grant.at
    /\ q.at = "shown" => q.op \in LookupOps
TokenInv ==
    /\ Inv /\ GrantsLive(db)
    /\ \A k \in Client : calls[k] # None => Timely(calls[k], now)

(* Rows that stay or go leave the tokens that stay as they are.            *)
LEMMA SparedLive ==
    ASSUME NEW d, NEW r, Going(d.grants, r.grants), GrantsLive(d)
    PROVE  GrantsLive(r)
  BY DEF Going, GrantsLive, IdsOf

(* A statement that is not of a provider waits for none.                   *)
LEMMA ElsewhereTimely ==
    ASSUME NEW q, NEW t, q.at \notin {"store", "connected", "record"},
           q.op = "OAuthIntegration" => q.at # "write",
           q.at = "shown" => q.op \in LookupOps
    PROVE  Timely(q, t)
  BY DEF Timely, Waiting

(* A grant that is stored in time lives as its row says.                   *)
LEMMA StoredLive ==
    ASSUME Inv, GrantsLive(db), NEW u \in User, NEW p \in Provider, NEW g \in GrantRow,
           NEW asked \in Int, asked <= now, now <= asked + Latency, g.access.until = asked + Life,
           \/ db' = GrantSaved(db, u, p, Renewed(g))
           \/ db' = GrantInserted(db, u, p, Renewed(g))
    PROVE  GrantsLive(db')
  <1>1. /\ db \in Database /\ now \in Nat /\ Life \in Nat /\ Latency \in Nat
        /\ DOMAIN db.grants = User \X Provider
    BY NowTyped, LatencyAssumption DEF Inv, Consistent, Database
  <1> DEFINE row == Renewed(g)
             a == db.grants[<<u, p>>].account
             saved == [row EXCEPT !.account = a]
  <1>2. row.expires = now + Life /\ row.access = g.access /\ DOMAIN row = {"account", "access", "refresh", "expires"}
    BY DEF Renewed, GrantRow
  <1> HIDE DEF row
  <1>3. saved.expires = now + Life /\ saved.access = g.access
    BY <1>2
  <1> HIDE DEF saved
  <1>4. now + Life <= g.access.until + Latency
    BY <1>1
  <1>5. \/ db'.grants = db.grants
        \/ \E s \in {row, saved} : db'.grants = [db.grants EXCEPT ![<<u, p>>] = s]
    BY <1>1 DEF GrantSaved, GrantInserted, Put, Database, row, saved
  <1>6. CASE db'.grants = db.grants
    BY <1>6 DEF GrantsLive, IdsOf
  <1>7. ASSUME NEW s \in {row, saved}, db'.grants = [db.grants EXCEPT ![<<u, p>>] = s]
        PROVE  GrantsLive(db')
    <2>1. s.expires <= s.access.until + Latency
      BY <1>2, <1>3, <1>4, <1>7
    <2>2. ASSUME NEW g2 \in IdsOf(db'.grants)
          PROVE  db'.grants[g2].expires <= db'.grants[g2].access.until + Latency
      <3>1. CASE g2 = <<u, p>>
        BY <1>1, <1>7, <2>1, <3>1
      <3>2. CASE g2 # <<u, p>>
        BY <1>1, <1>7, <3>2 DEF GrantsLive, IdsOf
      <3> QED BY <3>1, <3>2
    <2> QED BY <2>2 DEF GrantsLive
  <1> QED BY <1>5, <1>6, <1>7

(* A request goes on as the same use case of the same caller.              *)
Core(q, r) ==
    /\ DOMAIN r = DOMAIN q /\ r.op = q.op /\ r.server = q.server
    /\ r.policy = q.policy /\ r.signed = q.signed

(* A grant is stored for a client of its account, or saved with its tokens *)
Connects(d, r) ==
    \E u, p : \E row \in GrantRow :
        \/ r = GrantSaved(d, u, p, Renewed(row))
        \/ GrantInsertAccepted(d, u, p, row) /\ r = GrantInserted(d, u, p, Renewed(row))

(* Obtaining a token, from the table or from a provider, is timely.        *)
LEMMA TokenTrail ==
    ASSUME TokenInv, NEW k \in Client, calls[k] # None, calls[k].op \in IntegrationOps \union Copied,
           NEW giveUp, GetAccessToken(k, giveUp)
    PROVE  /\ UNCHANGED now /\ GrantsLive(db') /\ Aside(db, db')
           /\ db' = db \/ Connects(db, db')
           /\ giveUp \/ \E r : /\ calls' = [calls EXCEPT ![k] = r] /\ Core(calls[k], r)
                               /\ SameSubject(calls[k], r) /\ r.row = calls[k].row
                               /\ r.at \in Tokening /\ Timely(r, now)
  <1> DEFINE q == calls[k]
             Becoming == \E r : /\ calls' = [calls EXCEPT ![k] = r] /\ Core(q, r)
                                /\ SameSubject(q, r) /\ r.row = q.row
                                /\ r.at \in Tokening /\ Timely(r, now)
             Goal == /\ UNCHANGED now /\ GrantsLive(db') /\ Aside(db, db')
                     /\ db' = db \/ Connects(db, db')
                     /\ giveUp \/ Becoming
  <1>0. /\ Inv /\ Consistent(db, origin, homes) /\ db \in Database /\ DOMAIN q = DOMAIN Blank
        /\ DOMAIN calls = Client /\ GrantsLive(db) /\ Timely(q, now)
        /\ q.at \in Tokening => q.user \in User /\ q.provider \in Provider
        /\ q.at \in {"client", "renew", "store"} => q.grant \in WholeGrant
        /\ now \in Nat /\ now + Life \in Int /\ Life \in Nat /\ Latency \in Nat /\ Margin \in Nat
        /\ Latency < Margin /\ Latency < Life
    BY Found, NowTyped, LatencyAssumption DEF TokenInv, Holds, TokenHolds
  <1>1. ASSUME NEW token, Connected(k, token), token.until > now PROVE Becoming
    <2> DEFINE r == [q EXCEPT !.at = "connected", !.grant = Handed(token), !.asked = None]
    <2>1. calls' = [calls EXCEPT ![k] = r]
      BY <1>0, <1>1 DEF Connected
    <2>2. Core(q, r) /\ SameSubject(q, r) /\ r.row = q.row /\ r.at = "connected" /\ r.grant = Handed(token)
      BY <1>0 DEF Core, SameSubject, Blank
    <2> HIDE DEF r
    <2>3. Timely(r, now)
      BY <1>1, <2>2 DEF Timely, Waiting, Handed
    <2> QED BY <2>1, <2>2, <2>3 DEF Tokening
  <1>2. ASSUME NEW s \in {"client", "renew"}, NEW grant,
               \/ calls' = [calls EXCEPT ![k].at = s, ![k].grant = grant]
               \/ Goto(k, s)
        PROVE  Becoming
    <2>1. CASE calls' = [calls EXCEPT ![k].at = s, ![k].grant = grant]
      <3> DEFINE r == [q EXCEPT !.at = s, !.grant = grant]
      <3>1. calls' = [calls EXCEPT ![k] = r]
        BY <1>0, <2>1
      <3>2. Core(q, r) /\ SameSubject(q, r) /\ r.row = q.row /\ r.at = s
        BY <1>0 DEF Core, SameSubject, Blank
      <3> HIDE DEF r
      <3>3. Timely(r, now)
        BY <1>2, <3>2 DEF Timely, Waiting
      <3> QED BY <3>1, <3>2, <3>3 DEF Tokening
    <2>2. CASE Goto(k, s)
      <3>1. PICK r : calls' = [calls EXCEPT ![k] = r] /\ SameCall(q, r) /\ r.at = s /\ r.row = q.row
        BY <1>0, <2>2, GotoIs
      <3>2. Timely(r, now)
        BY <1>2, <3>1 DEF Timely, Waiting
      <3>3. Core(q, r) /\ SameSubject(q, r)
        BY <3>1 DEF SameCall, SameOrder, Core, SameSubject
      <3> QED BY <3>1, <3>2, <3>3 DEF Tokening
    <2> QED BY <1>2, <2>1, <2>2
  <1>3. ASSUME FindToken(k, giveUp) PROVE Goal
    <2> DEFINE row == db.grants[<<q.user, q.provider>>]
    <2>1. q.at = "token" /\ UNCHANGED <<db, now>> /\ q.user \in User /\ q.provider \in Provider
      BY <1>0, <1>3 DEF FindToken, IntegrationsUnchanged, Tokening
    <2>2. \/ giveUp
          \/ row # None /\ StillValid(row) /\ Connected(k, row.access)
          \/ calls' = [calls EXCEPT ![k].at = "client", ![k].grant = row]
      BY <1>3 DEF FindToken
    <2>3. ASSUME row # None, StillValid(row) PROVE row.access.until > now
      <3>1. <<q.user, q.provider>> \in IdsOf(db.grants) /\ row \in GrantRow
        BY <1>0, <2>1, <2>3 DEF IdsOf, Database
      <3>2. row.expires <= row.access.until + Latency
        BY <1>0, <3>1 DEF GrantsLive
      <3>3. row.expires \in Int /\ row.access.until \in Int
        BY <3>1 DEF GrantRow, Token
      <3> HIDE DEF row
      <3> QED BY <1>0, <2>3, <3>2, <3>3 DEF StillValid
    <2> HIDE DEF row
    <2>4. giveUp \/ Becoming
      BY <1>1, <1>2, <2>2, <2>3
    <2>5. GrantsLive(db') /\ Aside(db, db')
      BY <1>0, <2>1 DEF Aside
    <2> QED BY <2>1, <2>4, <2>5
  <1>4. ASSUME FindClient(k, giveUp) PROVE Goal
    <2>1. UNCHANGED <<db, now>> /\ (giveUp \/ Goto(k, "renew"))
      BY <1>4 DEF FindClient, IntegrationsUnchanged
    <2>2. giveUp \/ Becoming
      BY <1>2, <2>1
    <2> QED BY <1>0, <2>1, <2>2 DEF Aside
  <1>5. ASSUME RenewToken(k, giveUp) PROVE Goal
    <2>1. /\ UNCHANGED <<db, now>> /\ q.at = "renew"
          /\ \/ giveUp
             \/ calls' = [calls EXCEPT ![k].at = "store", ![k].asked = now,
                                       ![k].grant.access = Issued(q.grant.refresh)]
      BY <1>5 DEF RenewToken
    <2>2. ASSUME calls' = [calls EXCEPT ![k].at = "store", ![k].asked = now,
                                        ![k].grant.access = Issued(q.grant.refresh)]
          PROVE  Becoming
      <3> DEFINE token == Issued(q.grant.refresh)
                 g == [q.grant EXCEPT !.access = token]
                 r == [q EXCEPT !.at = "store", !.asked = now, !.grant = g]
      <3>1. calls' = [calls EXCEPT ![k] = r]
        BY <1>0, <2>2 DEF Blank
      <3>2. q.grant \in GrantRow /\ token.until = now + Life
        BY <1>0, <2>1 DEF WholeGrant, Issued
      <3> HIDE DEF token
      <3>3. g.access = token
        BY <3>2 DEF GrantRow
      <3> HIDE DEF g
      <3>4. Core(q, r) /\ SameSubject(q, r) /\ r.row = q.row /\ r.at = "store" /\ r.asked = now
            /\ r.grant = g
        BY <1>0 DEF Core, SameSubject, Blank
      <3> HIDE DEF r
      <3>5. Timely(r, now)
        BY <1>0, <3>2, <3>3, <3>4 DEF Timely, Waiting
      <3> QED BY <3>1, <3>4, <3>5 DEF Tokening
    <2> QED BY <1>0, <2>1, <2>2 DEF Aside
  <1>6. ASSUME StoreToken(k) PROVE Goal
    <2>1. /\ q.at = "store" /\ UNCHANGED now /\ Connected(k, q.grant.access)
          /\ db' = db \/ db' = GrantSaved(db, q.user, q.provider, Renewed(q.grant))
      BY <1>6 DEF StoreToken
    <2>2. /\ q.asked \in Int /\ q.asked <= now /\ now <= q.asked + Latency
          /\ q.grant.access.until = q.asked + Life
          /\ q.user \in User /\ q.provider \in Provider /\ q.grant \in GrantRow
      BY <1>0, <2>1 DEF Timely, Waiting, WholeGrant, Tokening
    <2>3. Becoming
      <3>1. q.grant.access.until > now
        BY <1>0, <2>2
      <3> QED BY <1>1, <2>1, <3>1
    <2>4. GrantsLive(db')
      BY <1>0, <2>1, <2>2, StoredLive
    <2>5. Aside(db, db')
      BY <1>0, <2>1 DEF GrantSaved, Database, Aside
    <2>6. db' = db \/ Connects(db, db')
      BY <2>1, <2>2 DEF Connects
    <2> QED BY <2>1, <2>3, <2>4, <2>5, <2>6
  <1> HIDE DEF Goal
  <1>7. Goal
    BY <1>3, <1>4, <1>5, <1>6 DEF GetAccessToken
  <1> QED BY <1>7 DEF Goal

(* The statements on what is built on an integration                       *)
IntegrationSteps == {"none", "exchange", "exists", "token", "insert", "delete"}
Links(d, r) ==
    \/ \E a, p : r = IntegrationInserted(d, a, p) \/ r = IntegrationDeleted(d, a, p)
    \/ \E u, p : r = GrantDeleted(d, u, p)
    \/ \E s : r = SyncInserted(d, s) \/ r = SyncDeleted(d, s)
              \/ r = ExtBusyInserted(d, s) \/ r = ExtBusyDeleted(d, s)

(* They change no account, and of the tokens only remove some.             *)
LEMMA LinksSpare ==
    ASSUME NEW d \in Database, NEW r, Links(d, r)
    PROVE  Spares(d, r) /\ Aside(d, r)
  <1>0. DOMAIN d = TableNames /\ Going(d.grants, d.grants)
    BY WithoutGoes DEF Database, TableNames
  <1>1. ASSUME NEW a, NEW p, r = IntegrationInserted(d, a, p) PROVE Spares(d, r) /\ Aside(d, r)
    BY <1>0, <1>1 DEF Spares, Aside, IntegrationInserted, TableNames
  <1>2. ASSUME NEW a, NEW p, r = IntegrationDeleted(d, a, p) PROVE Spares(d, r) /\ Aside(d, r)
    <2> DEFINE gs == {g \in IdsOf(d.grants) : g[2] = p /\ d.grants[g].account = a}
               e == GrantsDropped(d, gs)
    <2>1. Goes(d, e) /\ Aside(d, e)
      BY <1>0, GrantsGo
    <2>2. r = [e EXCEPT !.integrations = @ \ {<<a, p>>}]
      BY <1>2 DEF IntegrationDeleted
    <2> HIDE DEF e
    <2> QED BY <1>0, <2>1, <2>2 DEF Spares, Aside, Goes, TableNames
  <1>3. ASSUME NEW u, NEW p, r = GrantDeleted(d, u, p) PROVE Spares(d, r) /\ Aside(d, r)
    BY <1>0, <1>3, GrantsGo DEF GrantDeleted, Goes, Spares, Aside
  <1>4. ASSUME NEW s, r = SyncInserted(d, s) \/ r = ExtBusyInserted(d, s) \/ r = ExtBusyDeleted(d, s)
        PROVE  Spares(d, r) /\ Aside(d, r)
    BY <1>0, <1>4 DEF Spares, Aside, SyncInserted, ExtBusyInserted, ExtBusyDeleted, TableNames
  <1>5. ASSUME NEW s, r = SyncDeleted(d, s) PROVE Spares(d, r) /\ Aside(d, r)
    BY <1>0, <1>5, DropsGo DEF SyncDeleted, Goes, Spares, Aside
  <1> QED BY <1>1, <1>2, <1>3, <1>4, <1>5 DEF Links

(* The use cases on integrations wait for providers in time.               *)
LEMMA IntegrationTrail ==
    ASSUME TokenInv, NEW k \in Client, calls[k] # None, IntegrationsNext(k)
    PROVE  /\ UNCHANGED <<now, origin, homes, kept>> /\ GrantsLive(db') /\ Aside(db, db')
           /\ db' = db \/ Links(db, db') \/ Connects(db, db')
           /\ calls[k].at \notin Guards
           /\ calls[k].op \in IntegrationOps
           /\ Answer(k) \/ \E r : /\ calls' = [calls EXCEPT ![k] = r] /\ Core(calls[k], r)
                                  /\ SameSubject(calls[k], r) /\ Timely(r, now)
  <1> DEFINE q == calls[k]
             Becoming == \E r : /\ calls' = [calls EXCEPT ![k] = r] /\ Core(q, r)
                                /\ SameSubject(q, r) /\ Timely(r, now)
             Goal == /\ UNCHANGED <<now, origin, homes, kept>> /\ GrantsLive(db') /\ Aside(db, db')
                     /\ db' = db \/ Links(db, db') \/ Connects(db, db')
                     /\ q.at \notin Guards
                     /\ Answer(k) \/ Becoming
             From == IntegrationSteps \union {"find", "connected", "delete"}
             Plain == /\ UNCHANGED <<now, ghostVars>> /\ \E s \in From : q.at = s
                      /\ db' = db \/ Links(db, db')
                      /\ Moved(k, IntegrationSteps)
  <1>0. /\ Inv /\ Consistent(db, origin, homes) /\ db \in Database /\ DOMAIN q = DOMAIN Blank
        /\ DOMAIN calls = Client /\ GrantsLive(db) /\ Timely(q, now) /\ q.op \in IntegrationOps
        /\ Holds(q, origin, homes, remote)
        /\ now \in Nat /\ now + Life \in Int /\ Life \in Nat /\ Latency \in Nat
    BY Found, NowTyped, LatencyAssumption DEF TokenInv, IntegrationsNext
  <1>1. ASSUME Plain PROVE Goal
    <2>1. GrantsLive(db') /\ Aside(db, db') /\ UNCHANGED <<now, origin, homes, kept>>
      BY <1>0, <1>1, LinksSpare, SparedLive DEF Spares, Aside, ghostVars
    <2>5. q.at \notin Guards
      BY <1>1 DEF Guards, IntegrationSteps
    <2>2. ASSUME NEW s \in IntegrationSteps, NEW row, Goto(k, s) \/ Proceed(k, s, row)
          PROVE  Becoming
      <3>1. PICK r : calls' = [calls EXCEPT ![k] = r] /\ SameCall(q, r) /\ r.at = s
        BY <1>0, <2>2, GotoIs, ProceedIs
      <3>2. Core(q, r) /\ SameSubject(q, r)
        BY <3>1 DEF SameCall, SameOrder, Core, SameSubject
      <3>3. Timely(r, now)
        BY <3>1 DEF Timely, Waiting, IntegrationSteps
      <3> QED BY <3>1, <3>2, <3>3
    <2>3. ASSUME NEW s \in IntegrationSteps, Goto(k, s) PROVE Becoming
      BY <2>2, <2>3
    <2> HIDE DEF Becoming
    <2>4. Answer(k) \/ Becoming
      BY <1>1, <2>2, <2>3 DEF Moved
    <2> QED BY <1>1, <2>1, <2>4, <2>5
  <1>2. /\ IntegrationSteps = {"none", "exchange", "exists", "token", "insert", "delete"}
        /\ From = {"none", "exchange", "exists", "token", "insert", "delete", "find", "connected"}
    BY DEF IntegrationSteps
  <1> HIDE DEF From
  <1>3. ASSUME AddAccountIntegration(k) PROVE Plain
    BY <1>2, <1>3, Zenon DEF AddAccountIntegration, IntegrationsUnchanged, Links, Moved, At
  <1>4. ASSUME RemoveAccountIntegration(k) PROVE Plain
    BY <1>2, <1>4, Zenon DEF RemoveAccountIntegration, IntegrationsUnchanged, Links, Moved, At
  <1>5. ASSUME RemoveIntegration(k) PROVE Plain
    BY <1>2, <1>5, Zenon DEF RemoveIntegration, IntegrationsUnchanged, Links, Moved, At
  <1>6. ASSUME GetExternalCalendars(k) PROVE Plain
    BY <1>2, <1>6, Zenon DEF GetExternalCalendars, IntegrationsUnchanged, Links, Moved, At
  <1>7. ASSUME AddSyncCalendar(k) PROVE Plain
    BY <1>2, <1>7, Zenon DEF AddSyncCalendar, IntegrationsUnchanged, Links, Moved, At
  <1>8. ASSUME RemoveSyncCalendar(k) PROVE Plain
    BY <1>2, <1>8, Zenon DEF RemoveSyncCalendar, IntegrationsUnchanged, Links, Moved, At
  <1>9. ASSUME AddExtBusyCalendar(k) PROVE Plain
    BY <1>2, <1>9, Zenon DEF AddExtBusyCalendar, IntegrationsUnchanged, Links, Moved, At
  <1>10. ASSUME RemoveExtBusyCalendar(k) PROVE Plain
    BY <1>2, <1>10, Zenon DEF RemoveExtBusyCalendar, IntegrationsUnchanged, Links, Moved, At
  <1>11. ASSUME OAuthIntegration(k) PROVE Goal
    <2>1. CASE /\ At(k, "OAuthIntegration", "find")
               /\ IF <<q.account, q.provider>> \in db.integrations THEN Goto(k, "none") ELSE Answer(k)
               /\ UNCHANGED db /\ IntegrationsUnchanged
      <3>1. Plain
        BY <1>2, <2>1, Zenon DEF IntegrationsUnchanged, Links, Moved, At
      <3> QED BY <1>1, <3>1
    <2>2. CASE /\ At(k, "OAuthIntegration", "none")
               /\ IF HasIntegration(db, q.user, q.provider) THEN Answer(k) ELSE Goto(k, "exchange")
               /\ UNCHANGED db /\ IntegrationsUnchanged
      <3>1. Plain
        BY <1>2, <2>2, Zenon DEF IntegrationsUnchanged, Links, Moved, At
      <3> QED BY <1>1, <3>1
    <2>3. ASSUME NEW g \in Grant, At(k, "OAuthIntegration", "exchange"),
                 calls' = [calls EXCEPT ![k].at = "write", ![k].asked = now,
                                  ![k].grant = [account |-> q.account, access |-> Issued(g),
                                                refresh |-> g, expires |-> 0]],
                 UNCHANGED db, IntegrationsUnchanged
          PROVE  Goal
      <3> DEFINE row == [account |-> q.account, access |-> Issued(g), refresh |-> g, expires |-> 0]
                 r == [q EXCEPT !.at = "write", !.asked = now, !.grant = row]
      <3>1. calls' = [calls EXCEPT ![k] = r]
        BY <1>0, <2>3
      <3>2. row.access.until = now + Life
        BY DEF Issued
      <3> HIDE DEF row
      <3>3. Core(q, r) /\ SameSubject(q, r) /\ r.at = "write" /\ r.asked = now /\ r.grant = row
        BY <1>0 DEF Core, SameSubject, Blank
      <3> HIDE DEF r
      <3>4. Timely(r, now)
        BY <1>0, <3>2, <3>3 DEF Timely, Waiting
      <3>5. UNCHANGED <<db, now, origin, homes, kept>> /\ q.at = "exchange"
        BY <2>3 DEF IntegrationsUnchanged, At, ghostVars
      <3> QED BY <1>0, <3>1, <3>3, <3>4, <3>5 DEF Aside, Guards
    <2>4. CASE /\ At(k, "OAuthIntegration", "write") /\ Answer(k)
               /\ db' = IF GrantInsertAccepted(db, q.user, q.provider, q.grant)
                        THEN GrantInserted(db, q.user, q.provider, Renewed(q.grant)) ELSE db
               /\ IntegrationsUnchanged
      <3>1. /\ q.grant \in GrantRow /\ q.provider \in Provider /\ q.user \in User
            /\ q.asked \in Int /\ q.asked <= now /\ now <= q.asked + Latency
            /\ q.grant.access.until = q.asked + Life
        BY <1>0, <2>4 DEF At, Holds, TokenHolds, WholeGrant, Shape, AtHome, UserRouted, Timely, Waiting
      <3>2. UNCHANGED now /\ (db' = db \/ db' = GrantInserted(db, q.user, q.provider, Renewed(q.grant)))
        BY <2>4 DEF IntegrationsUnchanged
      <3>3. GrantsLive(db')
        BY <1>0, <3>1, <3>2, StoredLive
      <3>4. Aside(db, db')
        BY <1>0, <3>2 DEF GrantInserted, Database, Aside
      <3>5. UNCHANGED <<origin, homes, kept>> /\ q.at = "write"
        BY <2>4 DEF IntegrationsUnchanged, At, ghostVars
      <3>6. db' = db \/ Connects(db, db')
        BY <2>4, <3>1 DEF Connects
      <3> QED BY <2>4, <3>2, <3>3, <3>4, <3>5, <3>6 DEF Guards
    <2> HIDE DEF Goal
    <2> QED BY <1>11, <2>1, <2>2, <2>3, <2>4 DEF OAuthIntegration
  <1>12. ASSUME GetAccessToken(k, Answer(k)) PROVE Goal
    <2> DEFINE giveUp == Answer(k)
    <2>1. GetAccessToken(k, giveUp)
      BY <1>12
    <2> HIDE DEF giveUp
    <2>2. /\ UNCHANGED now /\ GrantsLive(db') /\ Aside(db, db')
          /\ db' = db \/ Connects(db, db')
          /\ giveUp \/ Becoming
      BY <1>0, <2>1, TokenTrail
    <2>3. UNCHANGED <<origin, homes, kept>> /\ q.at \notin Guards
      BY <1>0, <2>1, TokenMoves DEF Guards
    <2> QED BY <2>2, <2>3 DEF giveUp
  <1> HIDE DEF Goal, Plain
  <1>13. Goal
    BY <1>1, <1>3, <1>4, <1>5, <1>6, <1>7, <1>8, <1>9, <1>10, <1>11, <1>12 DEF IntegrationsNext
  <1> QED BY <1>0, <1>13 DEF Goal

(* The statements on events and their copies change no account and no      *)
(* token.                                                                  *)
LEMMA EventsSpare ==
    ASSUME NEW d \in Database, NEW x, NEW row
    PROVE  /\ Spares(d, d) /\ Spares(d, EventInserted(d, x, row)) /\ Spares(d, EventsInserted(d, x))
           /\ Spares(d, EventSaved(d, x, row)) /\ Spares(d, EventsDeleted(d, x))
           /\ Spares(d, CopyInserted(d, x))
  <1>0. DOMAIN d = TableNames /\ Going(d.grants, d.grants)
    BY WithoutGoes DEF Database, TableNames
  <1>1. Spares(d, d) /\ Spares(d, EventInserted(d, x, row)) /\ Spares(d, EventsInserted(d, x))
    BY <1>0 DEF Spares, EventInserted, EventsInserted, TableNames
  <1>2. Spares(d, EventSaved(d, x, row)) /\ Spares(d, CopyInserted(d, x))
    BY <1>0 DEF Spares, EventSaved, CopyInserted, TableNames
  <1>3. Spares(d, EventsDeleted(d, x))
    BY <1>0, DropsGo DEF EventsDeleted, Goes, Spares
  <1> QED BY <1>1, <1>2, <1>3

(* Copies that are done with, or what remains of them, are no new token.   *)
LEMMA RemainingTimely ==
    ASSUME NEW q, DOMAIN q = DOMAIN Blank, q.op \in Copied, NEW t,
           q.at \in {"connected", "record"} => Timely(q, t), NEW rows
    PROVE  /\ AfterCopies(q) # None => Core(q, AfterCopies(q)) /\ Timely(AfterCopies(q), t)
           /\ q.at \in {"connected", "record"} /\ Remaining(q, rows) # None =>
                Core(q, Remaining(q, rows)) /\ Timely(Remaining(q, rows), t)
  <1>0. q.op # "OAuthIntegration"
    BY DEF Copied, Creates
  <1>1. ASSUME AfterCopies(q) # None
        PROVE  Core(q, AfterCopies(q)) /\ Timely(AfterCopies(q), t)
    <2> DEFINE r == AfterCopies(q)
    <2>1. Core(q, r) /\ r.at \in {"write", "next"}
      BY <1>1 DEF AfterCopies, Core, Blank
    <2> HIDE DEF r
    <2>2. Timely(r, t)
      BY <1>0, <2>1, ElsewhereTimely DEF Core
    <2> QED BY <2>1, <2>2 DEF r
  <1>2. ASSUME q.at \in {"connected", "record"}, Remaining(q, rows) # None
        PROVE  Core(q, Remaining(q, rows)) /\ Timely(Remaining(q, rows), t)
    <2> DEFINE r == Remaining(q, rows)
    <2>1. CASE rows = {}
      BY <1>1, <1>2, <2>1 DEF Remaining
    <2>2. CASE rows # {}
      <3>1. Core(q, r) /\ r.grant = q.grant /\ r.at \in {"connected", "token"}
        BY <2>2 DEF Remaining, Core, Blank
      <3> HIDE DEF r
      <3>2. Timely(r, t)
        BY <1>0, <1>2, <3>1 DEF Timely, Waiting, Core
      <3> QED BY <3>1, <3>2 DEF r
    <2> QED BY <2>1, <2>2
  <1> QED BY <1>1, <1>2

(* The use cases on events wait for providers in time.                     *)
LEMMA EventTrail ==
    ASSUME TokenInv, NEW k \in Client, calls[k] # None, EventSyncNext(k)
    PROVE  /\ UNCHANGED now /\ GrantsLive(db') /\ db'.accounts = db.accounts
           /\ calls[k].op \in Syncing
           /\ \E r : /\ calls' = [calls EXCEPT ![k] = r]
                     /\ r # None => Core(calls[k], r) /\ Timely(r, now)
  <1> DEFINE q == calls[k]
             Becoming == \E r : /\ calls' = [calls EXCEPT ![k] = r]
                                /\ r # None => Core(q, r) /\ Timely(r, now)
             Goal == /\ UNCHANGED now /\ GrantsLive(db') /\ db'.accounts = db.accounts /\ Becoming
             Steps == {"write", "copies", "next", "ownerOfCopies", "token"}
             Written == \/ \E e, row : db' = EventInserted(db, e, row) \/ db' = EventSaved(db, e, row)
                        \/ \E new : db' = EventsInserted(db, new) \/ db' = EventsDeleted(db, new)
                        \/ \E c : db' = CopyInserted(db, c)
  <1>0. /\ Inv /\ Consistent(db, origin, homes) /\ db \in Database /\ DOMAIN q = DOMAIN Blank
        /\ DOMAIN calls = Client /\ GrantsLive(db) /\ Timely(q, now) /\ q.op \in Syncing
        /\ q.op # "OAuthIntegration"
    BY Found DEF TokenInv, EventSyncNext, Syncing, Copied, Creates
  <1>1. ASSUME UNCHANGED db \/ Written PROVE GrantsLive(db') /\ db'.accounts = db.accounts
    <2>1. Spares(db, db')
      BY <1>0, <1>1, EventsSpare
    <2> QED BY <1>0, <2>1, SparedLive DEF Spares
  <1> HIDE DEF Written
  <1>2. ASSUME Answer(k) PROVE Becoming
    BY <1>2 DEF Answer
  <1>3. ASSUME NEW r, calls' = [calls EXCEPT ![k] = r], Core(q, r), r.at \in Steps PROVE Becoming
    BY <1>0, <1>3, ElsewhereTimely DEF Core
  <1>4. ASSUME NEW s \in Steps, NEW row, Goto(k, s) \/ Proceed(k, s, row) PROVE Becoming
    <2>1. PICK r : calls' = [calls EXCEPT ![k] = r] /\ SameCall(q, r) /\ r.at = s
      BY <1>0, <1>4, GotoIs, ProceedIs
    <2> QED BY <1>3, <2>1 DEF SameCall, SameOrder, Core
  <1>5. ASSUME q.op \in Copied, GiveUp(k) PROVE Becoming
    BY <1>0, <1>5, RemainingTimely DEF GiveUp
  <1>6. ASSUME q.op \in Copied, q.at \in {"connected", "record"}, NEW rows,
               \/ calls' = [calls EXCEPT ![k] = Remaining(q, rows)]
               \/ calls' = [calls EXCEPT ![k] = Remaining([q EXCEPT !.sync = None], rows)]
        PROVE  Becoming
    <2>1. CASE calls' = [calls EXCEPT ![k] = Remaining(q, rows)]
      BY <1>0, <1>6, <2>1, RemainingTimely
    <2>2. CASE calls' = [calls EXCEPT ![k] = Remaining([q EXCEPT !.sync = None], rows)]
      <3> DEFINE b == [q EXCEPT !.sync = None]
      <3>1. Core(q, b) /\ b.at = q.at /\ b.asked = q.asked /\ b.grant = q.grant /\ DOMAIN b = DOMAIN Blank
        BY <1>0 DEF Core, Blank
      <3>2. calls' = [calls EXCEPT ![k] = Remaining(b, rows)]
        BY <2>2
      <3> HIDE DEF b
      <3>3. Timely(b, now) /\ b.op \in Copied
        BY <1>0, <1>6, <3>1 DEF Timely, Waiting, Core
      <3>4. Remaining(b, rows) # None => Core(b, Remaining(b, rows)) /\ Timely(Remaining(b, rows), now)
        BY <1>6, <3>1, <3>3, RemainingTimely
      <3> QED BY <3>1, <3>2, <3>4 DEF Core
    <2> QED BY <1>6, <2>1, <2>2
  <1>7. ASSUME NEW r, Core(q, r), r.at \in Steps, Notify(k, r) PROVE Becoming
    <2>1. CASE DisableReminders
      BY <1>2, <1>7, <2>1 DEF Notify, Answer
    <2>2. CASE ~DisableReminders
      BY <1>3, <1>7, <2>2 DEF Notify
    <2> QED BY <2>1, <2>2
  <1>8. {"write", "copies", "next", "ownerOfCopies", "token"} \subseteq Steps
    OBVIOUS
  <1>9. ASSUME NEW op, NEW s, EventUseCase(k, op, s) PROVE UNCHANGED now
    BY <1>9 DEF EventUseCase
  <1>10. ASSUME CreateEvent(k) PROVE Goal
    <2>1. CASE /\ EventUseCase(k, "CreateEvent", "find")
               /\ IF CalendarOfUser(db, q.calendar, q.user) THEN Goto(k, "write") ELSE Answer(k)
               /\ UNCHANGED <<db, origin, kept>>
      BY <1>1, <1>2, <1>4, <1>8, <1>9, <2>1
    <2>2. ASSUME NEW e \in FreshEvents, NEW row,
                 EventUseCase(k, "CreateEvent", "write"),
                 IF EventInsertAccepted(db, row)
                 THEN /\ db' = EventInserted(db, e, row)
                      /\ origin' = [origin EXCEPT ![e] = q.user]
                      /\ Notify(k, [q EXCEPT !.at = "copies", !.event = e, !.row = row])
                 ELSE Answer(k) /\ UNCHANGED <<db, origin>>
          PROVE  Goal
      <3> DEFINE r == [q EXCEPT !.at = "copies", !.event = e, !.row = row]
      <3>1. Core(q, r) /\ r.at \in Steps
        BY <1>0 DEF Core, Blank
      <3>2. \/ Notify(k, r) /\ Written
            \/ Answer(k) /\ UNCHANGED db
        BY <2>2 DEF Written
      <3> HIDE DEF r
      <3> QED BY <1>1, <1>2, <1>7, <1>9, <2>2, <3>1, <3>2
    <2> HIDE DEF Goal
    <2> QED BY <1>10, <2>1, <2>2 DEF CreateEvent
  <1>11. ASSUME CreateBatchEvents(k) PROVE Goal
    <2>1. CASE /\ EventUseCase(k, "CreateBatchEvents", "find")
               /\ IF \A c \in q.queue : CalendarOfUser(db, c, q.user) THEN Goto(k, "write") ELSE Answer(k)
               /\ UNCHANGED <<db, origin, kept>>
      BY <1>1, <1>2, <1>4, <1>8, <1>9, <2>1
    <2>2. ASSUME NEW new, EventUseCase(k, "CreateBatchEvents", "write"),
                 \/ db' = EventsInserted(db, new) /\ Notify(k, [q EXCEPT !.at = "next", !.queue = new])
                 \/ Answer(k) /\ UNCHANGED db
          PROVE  Goal
      <3> DEFINE r == [q EXCEPT !.at = "next", !.queue = new]
      <3>1. Core(q, r) /\ r.at \in Steps
        BY <1>0 DEF Core, Blank
      <3>2. \/ Notify(k, r) /\ Written
            \/ Answer(k) /\ UNCHANGED db
        BY <2>2 DEF Written
      <3> HIDE DEF r
      <3> QED BY <1>1, <1>2, <1>7, <1>9, <2>2, <3>1, <3>2
    <2>3. ASSUME NEW n, EventUseCase(k, "CreateBatchEvents", "next"), UNCHANGED db,
                 calls' = [calls EXCEPT ![k].at = "copies", ![k].event = n.event,
                                        ![k].row = n.row, ![k].queue = @ \ {n}]
          PROVE  Goal
      <3> DEFINE r == [q EXCEPT !.at = "copies", !.event = n.event, !.row = n.row, !.queue = @ \ {n}]
      <3>1. calls' = [calls EXCEPT ![k] = r]
        BY <1>0, <2>3 DEF Blank
      <3>2. Core(q, r) /\ r.at \in Steps
        BY <1>0 DEF Core, Blank
      <3> HIDE DEF r
      <3> QED BY <1>1, <1>3, <1>9, <2>3, <3>1, <3>2
    <2> HIDE DEF Goal
    <2> QED BY <1>11, <2>1, <2>2, <2>3 DEF CreateBatchEvents
  <1>12. ASSUME UpdateEvent(k) PROVE Goal
    <2>1. ASSUME NEW s, NEW row, EventUseCase(k, "UpdateEvent", s), UNCHANGED db,
                 Answer(k) \/ Goto(k, "write") \/ Proceed(k, "write", row)
          PROVE  Goal
      BY <1>1, <1>2, <1>4, <1>8, <1>9, <2>1
    <2>2. ASSUME NEW row, EventUseCase(k, "UpdateEvent", "write"),
                 \/ /\ db' = EventSaved(db, q.event, row)
                    /\ Notify(k, [q EXCEPT !.at = "copies", !.row = row])
                 \/ Answer(k) /\ UNCHANGED db
          PROVE  Goal
      <3> DEFINE r == [q EXCEPT !.at = "copies", !.row = row]
      <3>1. Core(q, r) /\ r.at \in Steps
        BY <1>0 DEF Core, Blank
      <3>2. \/ Notify(k, r) /\ Written
            \/ Answer(k) /\ UNCHANGED db
        BY <2>2 DEF Written
      <3> HIDE DEF r
      <3> QED BY <1>1, <1>2, <1>7, <1>9, <2>2, <3>1, <3>2
    <2> HIDE DEF Goal
    <2> QED BY <1>12, <2>1, <2>2 DEF UpdateEvent
  <1>13. ASSUME DeleteEvent(k) PROVE Goal
    <2>1. ASSUME NEW s, EventUseCase(k, "DeleteEvent", s), UNCHANGED db, NEW row,
                 \/ Answer(k)
                 \/ calls' = [calls EXCEPT ![k].at = IF DisableReminders THEN "write" ELSE "copies",
                                           ![k].row = row]
          PROVE  Goal
      <3> DEFINE t == IF DisableReminders THEN "write" ELSE "copies"
                 r == [q EXCEPT !.at = t, !.row = row]
      <3>1. CASE Answer(k)
        BY <1>1, <1>2, <1>9, <2>1, <3>1
      <3>2. CASE calls' = [calls EXCEPT ![k].at = t, ![k].row = row]
        <4>1. calls' = [calls EXCEPT ![k] = r]
          BY <1>0, <3>2
        <4>2. Core(q, r) /\ r.at \in Steps
          BY <1>0 DEF Core, Blank
        <4> HIDE DEF r
        <4> QED BY <1>1, <1>3, <1>9, <2>1, <4>1, <4>2
      <3> QED BY <2>1, <3>1, <3>2
    <2>2. CASE /\ EventUseCase(k, "DeleteEvent", "write") /\ Answer(k)
               /\ db' = EventsDeleted(db, {q.event})
      <3>1. Written
        BY <2>2 DEF Written
      <3> QED BY <1>1, <1>2, <1>9, <2>2, <3>1
    <2> HIDE DEF Goal
    <2> QED BY <1>13, <2>1, <2>2 DEF DeleteEvent
  <1>14. ASSUME DeleteManyEvents(k) PROVE Goal
    <2> DEFINE found == q.todo \intersect IdsOf(db.events)
    <2>1. ASSUME EventUseCase(k, "DeleteManyEvents", "find"), UNCHANGED db,
                 \/ calls' = [calls EXCEPT ![k].at = "write", ![k].todo = found]
                 \/ Answer(k)
          PROVE  Goal
      <3> DEFINE r == [q EXCEPT !.at = "write", !.todo = found]
      <3>1. CASE Answer(k)
        BY <1>1, <1>2, <1>9, <2>1, <3>1
      <3>2. CASE calls' = [calls EXCEPT ![k].at = "write", ![k].todo = found]
        <4>1. calls' = [calls EXCEPT ![k] = r]
          BY <1>0, <3>2
        <4>2. Core(q, r) /\ r.at \in Steps
          BY <1>0 DEF Core, Blank
        <4> HIDE DEF r
        <4> QED BY <1>1, <1>3, <1>9, <2>1, <4>1, <4>2
      <3> QED BY <2>1, <3>1, <3>2
    <2>2. CASE /\ EventUseCase(k, "DeleteManyEvents", "write") /\ Answer(k)
               /\ db' = EventsDeleted(db, q.todo)
      <3>1. Written
        BY <2>2 DEF Written
      <3> QED BY <1>1, <1>2, <1>9, <2>2, <3>1
    <2> HIDE DEF Goal, found
    <2> QED BY <1>14, <2>1, <2>2 DEF DeleteManyEvents, found
  <1>15. ASSUME NEW ops \in {Creates, {"UpdateEvent", "DeleteEvent"}}, NEW rows, FindCopies(k, ops, rows)
         PROVE  Goal
    <2>1. /\ q.op \in Copied /\ UNCHANGED <<db, now>>
          /\ GiveUp(k) \/ calls' = [calls EXCEPT ![k].at = "ownerOfCopies", ![k].todo = rows]
      BY <1>15 DEF FindCopies, SyncUnchanged, Copied
    <2> DEFINE r == [q EXCEPT !.at = "ownerOfCopies", !.todo = rows]
    <2>2. CASE GiveUp(k)
      BY <1>1, <1>5, <2>1, <2>2
    <2>3. CASE calls' = [calls EXCEPT ![k].at = "ownerOfCopies", ![k].todo = rows]
      <3>1. calls' = [calls EXCEPT ![k] = r] /\ Core(q, r) /\ r.at \in Steps
        BY <1>0, <2>3 DEF Core, Blank
      <3> HIDE DEF r
      <3> QED BY <1>1, <1>3, <2>1, <3>1
    <2> QED BY <2>1, <2>2, <2>3
  <1>16. ASSUME FindCopiesOwner(k) PROVE Goal
    <2> DEFINE u == q.row.user
               a == db.users[u].account
               p == FirstProvider(q.todo)
               r == [q EXCEPT !.at = "token", !.user = u, !.account = a, !.provider = p]
    <2>1. /\ q.at = "ownerOfCopies" /\ UNCHANGED <<db, now>>
          /\ GiveUp(k) \/ calls' = [calls EXCEPT ![k].at = "token", ![k].user = u, ![k].account = a,
                                                 ![k].provider = p]
      BY <1>16 DEF FindCopiesOwner, SyncUnchanged
    <2> HIDE DEF u, a, p
    <2>2. CASE GiveUp(k)
      <3>1. CASE q.op \in Copied
        BY <1>1, <1>5, <2>1, <2>2, <3>1
      <3>2. CASE q.op \notin Copied
        <4>1. AfterCopies(q) # None => Core(q, AfterCopies(q)) /\ AfterCopies(q).at \in Steps
          BY <1>0 DEF AfterCopies, Core, Blank
        <4> QED BY <1>1, <1>2, <1>3, <2>1, <2>2, <4>1 DEF GiveUp, Answer
      <3> QED BY <3>1, <3>2
    <2>3. CASE calls' = [calls EXCEPT ![k].at = "token", ![k].user = u, ![k].account = a, ![k].provider = p]
      <3>1. calls' = [calls EXCEPT ![k] = r] /\ Core(q, r) /\ r.at \in Steps
        BY <1>0, <2>3 DEF Core, Blank
      <3> HIDE DEF r
      <3> QED BY <1>1, <1>3, <2>1, <3>1
    <2> QED BY <2>1, <2>2, <2>3
  <1>17. ASSUME NeedsToken(k, Creates \union {"UpdateEvent", "DeleteEvent"}),
                GetAccessToken(k, GiveUp(k))
         PROVE  Goal
    <2> DEFINE giveUp == GiveUp(k)
    <2>1. q.op \in Copied /\ GetAccessToken(k, giveUp)
      BY <1>17 DEF NeedsToken, Copied
    <2> HIDE DEF giveUp
    <2>2. /\ UNCHANGED now /\ GrantsLive(db') /\ db'.accounts = db.accounts
          /\ giveUp \/ \E r : /\ calls' = [calls EXCEPT ![k] = r] /\ Core(q, r) /\ Timely(r, now)
      BY <2>1, TokenTrail DEF Aside
    <2>3. giveUp => Becoming
      BY <1>5, <2>1 DEF giveUp
    <2> QED BY <2>2, <2>3
  <1>18. ASSUME CreateCopy(k) PROVE Goal
    <2>1. q.op \in Copied /\ q.at = "connected" /\ UNCHANGED <<db, now>>
      BY <1>18 DEF CreateCopy, Copying, SyncUnchanged, Copied
    <2>2. ASSUME NEW s, calls' = [calls EXCEPT ![k].at = "record", ![k].sync = s] PROVE Becoming
      <3> DEFINE r == [q EXCEPT !.at = "record", !.sync = s]
      <3>1. calls' = [calls EXCEPT ![k] = r] /\ Core(q, r) /\ r.at = "record" /\ r.grant = q.grant
        BY <1>0, <2>2 DEF Core, Blank
      <3> HIDE DEF r
      <3>2. Timely(r, now)
        BY <1>0, <2>1, <3>1 DEF Timely, Waiting
      <3> QED BY <3>1, <3>2
    <2>3. \/ \E rows : calls' = [calls EXCEPT ![k] = Remaining(q, rows)]
          \/ \E s : calls' = [calls EXCEPT ![k].at = "record", ![k].sync = s]
      BY <1>18, Zenon DEF CreateCopy
    <2>4. Becoming
      BY <1>6, <2>1, <2>2, <2>3
    <2> QED BY <1>1, <2>1, <2>4
  <1>19. ASSUME RecordCopy(k) PROVE Goal
    <2>1. q.op \in Copied /\ q.at = "record" /\ UNCHANGED now
      BY <1>19 DEF RecordCopy, SyncUnchanged, Copied
    <2>2. /\ \E rows : calls' = [calls EXCEPT ![k] = Remaining([q EXCEPT !.sync = None], rows)]
          /\ UNCHANGED db \/ Written
      BY <1>19, Zenon DEF RecordCopy, Written
    <2>3. Becoming
      BY <1>6, <2>1, <2>2
    <2> QED BY <1>1, <2>1, <2>2, <2>3
  <1>20. ASSUME ChangeCopy(k) \/ RemoveCopy(k) PROVE Goal
    <2>1. q.op \in Copied /\ q.at = "connected" /\ UNCHANGED <<db, now>>
      BY <1>20 DEF ChangeCopy, RemoveCopy, Copying, SyncUnchanged, Copied
    <2>2. \E rows : calls' = [calls EXCEPT ![k] = Remaining(q, rows)]
      BY <1>20, Zenon DEF ChangeCopy, RemoveCopy
    <2>3. Becoming
      BY <1>6, <2>1, <2>2
    <2> QED BY <1>1, <2>1, <2>3
  <1> HIDE DEF Goal
  <1>21. Goal
    BY <1>10, <1>11, <1>12, <1>13, <1>14, <1>15, <1>16, <1>17, <1>18, <1>19, <1>20 DEF EventSyncNext
  <1> QED BY <1>0, <1>21 DEF Goal

(* A request that goes on at a statement which waits for no provider       *)
Plainly(k, steps) ==
    Answer(k) \/ \E r : /\ calls' = [calls EXCEPT ![k] = r]
                        /\ Core(calls[k], r) /\ r.at \in steps

AccountSteps == {"apikey", "select", "remember", "find", "forget", "insert", "integrate"}
(* The use cases on accounts change no token.                              *)
LEMMA AccountTrail ==
    ASSUME Inv, NEW k \in Client, calls[k] # None, AccountsNext(k)
    PROVE  /\ UNCHANGED now /\ db'.grants = db.grants /\ calls[k].op \in AccountOps
           /\ Plainly(k, AccountSteps)
  <1> DEFINE q == calls[k]
             Goal == UNCHANGED now /\ db'.grants = db.grants /\ Plainly(k, AccountSteps)
             Touched == \/ UNCHANGED db
                        \/ \E a, row : db' = AccountInserted(db, a, row) \/ db' = AccountSaved(db, a, row)
                        \/ \E a, p : db' = IntegrationInserted(db, a, p)
  <1>0. db \in Database /\ DOMAIN q = DOMAIN Blank /\ DOMAIN calls = Client
    BY Found
  <1>1. AccountSteps = {"apikey", "select", "remember", "find", "forget", "insert", "integrate"}
    BY DEF AccountSteps
  <1>2. ASSUME Touched PROVE db'.grants = db.grants
    BY <1>0, <1>2 DEF AccountInserted, AccountSaved, IntegrationInserted, Database
  <1> HIDE DEF Touched
  <1>3. ASSUME NEW s \in AccountSteps, Goto(k, s) PROVE Plainly(k, AccountSteps)
    <2>1. PICK r : calls' = [calls EXCEPT ![k] = r] /\ SameCall(q, r) /\ r.at = s
      BY <1>3, GotoIs
    <2> QED BY <2>1 DEF SameCall, SameOrder, Core, Plainly
  <1>4. ASSUME NEW s \in AccountSteps, NEW row, Identified(k, row, s) PROVE Plainly(k, AccountSteps)
    <2> DEFINE r == [q EXCEPT !.row = row, !.at = s, !.asked = now]
    <2>1. calls' = [calls EXCEPT ![k] = r] /\ Core(q, r) /\ r.at = s
      BY <1>0, <1>4 DEF Identified, Core, Blank
    <2> HIDE DEF r
    <2> QED BY <2>1 DEF Plainly
  <1>5. ASSUME Answer(k) PROVE Plainly(k, AccountSteps)
    BY <1>5 DEF Plainly
  <1>6. ASSUME FindByApiKey(k) PROVE Goal
    <2>1. /\ UNCHANGED <<db, now>>
          /\ \/ Answer(k) \/ \E s \in AccountSteps : Goto(k, s) \/ \E row : Identified(k, row, s)
      BY <1>1, <1>6, Zenon DEF FindByApiKey, AccountsUnchanged
    <2> QED BY <1>3, <1>4, <1>5, <2>1
  <1>7. ASSUME CreateAccount(k) \/ SetAccount(k) \/ GetAccount(k) PROVE Goal
    <2>1. UNCHANGED now /\ Touched /\ (Answer(k) \/ Goto(k, "forget"))
      BY <1>7, Zenon DEF CreateAccount, SetAccount, GetAccount, AccountsUnchanged, Touched
    <2> QED BY <1>1, <1>2, <1>3, <1>5, <2>1
  <1>8. ASSUME InitDefaultAccount(k), AccountsUnchanged PROVE Goal
    <2>1. /\ UNCHANGED now /\ Touched
          /\ \/ Answer(k) \/ Goto(k, "apikey")
             \/ calls' = [calls EXCEPT ![k].at = "integrate", ![k].provider = "google"]
             \/ q.at = "integrate" /\ calls' = [calls EXCEPT ![k].provider = "outlook"]
      BY <1>8, Zenon DEF InitDefaultAccount, AccountsUnchanged, Touched, At
    <2> DEFINE r1 == [q EXCEPT !.at = "integrate", !.provider = "google"]
               r2 == [q EXCEPT !.provider = "outlook"]
    <2>2. CASE calls' = [calls EXCEPT ![k].at = "integrate", ![k].provider = "google"]
      <3>1. calls' = [calls EXCEPT ![k] = r1] /\ Core(q, r1) /\ r1.at = "integrate"
        BY <1>0, <2>2 DEF Core, Blank
      <3> HIDE DEF r1
      <3> QED BY <1>1, <1>2, <2>1, <3>1 DEF Plainly
    <2>3. CASE q.at = "integrate" /\ calls' = [calls EXCEPT ![k].provider = "outlook"]
      <3>1. calls' = [calls EXCEPT ![k] = r2] /\ Core(q, r2) /\ r2.at = "integrate"
        BY <1>0, <2>3 DEF Core, Blank
      <3> HIDE DEF r2
      <3> QED BY <1>1, <1>2, <2>1, <3>1 DEF Plainly
    <2> QED BY <1>1, <1>2, <1>3, <1>5, <2>1, <2>2, <2>3
  <1> HIDE DEF Goal
  <1>9. Goal
    BY <1>6, <1>7, <1>8 DEF AccountsNext
  <1> QED BY <1>9 DEF Goal, AccountsNext

QuerySteps ==
    {"find", "both", "once", "recurring", "exceptions", "events", "itsCalendar", "search", "answered"}
Queried(k, steps) == \E s \in steps : Goto(k, s) \/ \E r : Advance(k, s, r)
(* The searches of events read, from statement to statement.               *)
LEMMA QueryTrail ==
    ASSUME Inv, NEW k \in Client, calls[k] # None, EventQueriesNext(k)
    PROVE  UNCHANGED <<db, now, origin, homes, kept>> /\ Plainly(k, QuerySteps)
           /\ (Answer(k) \/ calls[k].op \in QueryOps)
  <1> DEFINE q == calls[k]
             Goal == Answer(k) \/ Queried(k, QuerySteps)
  <1>0. DOMAIN q = DOMAIN Blank /\ DOMAIN calls = Client
    BY Found
  <1>1. QuerySteps = {"find", "both", "once", "recurring", "exceptions", "events", "itsCalendar",
                      "search", "answered"}
    BY DEF QuerySteps
  <1>2. ASSUME GetEventsForUsersInTimeRange(k) PROVE Goal
    BY <1>1, <1>2, Zenon DEF GetEventsForUsersInTimeRange, Reads, AnswerFrom, Queried
  <1>3. ASSUME GetEventsByCalendars(k) PROVE Goal
    BY <1>1, <1>3, Zenon DEF GetEventsByCalendars, AnswerFrom, Queried
  <1>4. ASSUME GetCalendarEvents(k) PROVE Goal
    BY <1>1, <1>4, Zenon DEF GetCalendarEvents, AnswerFrom, Queried
  <1>5. ASSUME ExportIcal(k) PROVE Goal
    BY <1>1, <1>5, Zenon DEF ExportIcal, AnswerFrom, Queried
  <1>6. ASSUME GetEventInstances(k) PROVE Goal
    BY <1>1, <1>6, Zenon DEF GetEventInstances, AnswerFrom, Queried
  <1>7. ASSUME GetUserFreeBusy(k) PROVE Goal
    BY <1>1, <1>7, Zenon DEF GetUserFreeBusy, AnswerFrom, Queried
  <1>8. ASSUME GetMultipleFreeBusy(k) PROVE Goal
    BY <1>1, <1>8, Zenon DEF GetMultipleFreeBusy, AnswerFrom, Queried
  <1>9. ASSUME SearchEvents(k) PROVE Goal
    BY <1>1, <1>9, Zenon DEF SearchEvents, AnswerFrom, Queried
  <1> HIDE DEF Goal
  <1>10. Goal
    BY <1>2, <1>3, <1>4, <1>5, <1>6, <1>7, <1>8, <1>9 DEF EventQueriesNext, Goal
  <1>11. ASSUME NEW s \in QuerySteps, Goto(k, s) PROVE Plainly(k, QuerySteps)
    <2>1. PICK r : calls' = [calls EXCEPT ![k] = r] /\ SameCall(q, r) /\ r.at = s
      BY <1>11, GotoIs
    <2> QED BY <2>1 DEF SameCall, SameOrder, Core, Plainly
  <1>12. ASSUME NEW s \in QuerySteps, NEW reading, Advance(k, s, reading) PROVE Plainly(k, QuerySteps)
    <2> DEFINE r == [q EXCEPT !.at = s, !.reading = reading]
    <2>1. calls' = [calls EXCEPT ![k] = r] /\ Core(q, r) /\ r.at = s
      BY <1>0, <1>12 DEF Advance, Core, Blank
    <2> HIDE DEF r
    <2> QED BY <2>1 DEF Plainly
  <1>13. Plainly(k, QuerySteps)
    BY <1>10, <1>11, <1>12 DEF Goal, Queried, Plainly
  <1> QED BY <1>13, QueryMoves DEF ghostVars

(* What is looked up is shown, and the tables are left alone.              *)
LEMMA LookupTrail ==
    ASSUME Inv, NEW k \in Client, calls[k] # None, LookupsNext(k)
    PROVE  /\ UNCHANGED <<db, now, origin, homes, kept>> /\ Plainly(k, {"shown"})
           /\ calls[k].op \in LookupOps
  <1> DEFINE q == calls[k]
  <1>0. DOMAIN q = DOMAIN Blank /\ DOMAIN calls = Client
    BY Found
  <1>1. UNCHANGED <<db, now, origin, homes, kept>> /\ (Answer(k) \/ \E rows : Show(k, rows))
    BY LookupMoves DEF ghostVars
  <1>2. ASSUME NEW rows, Show(k, rows) PROVE Plainly(k, {"shown"})
    <2> DEFINE r == [q EXCEPT !.at = "shown", !.row = None, !.todo = rows]
    <2>1. CASE rows = {}
      BY <1>2, <2>1 DEF Show, Plainly, Answer
    <2>2. CASE rows # {}
      <3>1. calls' = [calls EXCEPT ![k] = r] /\ Core(q, r) /\ r.at = "shown"
        BY <1>0, <1>2, <2>2 DEF Show, Core, Blank
      <3> HIDE DEF r
      <3> QED BY <3>1 DEF Plainly
    <2> QED BY <2>1, <2>2
  <1> QED BY <1>1, <1>2 DEF Plainly, LookupsNext

(* A guard hands the request to the next guard, or to its use case.        *)
LEMMA GuardTrail ==
    ASSUME Inv, NEW k \in Client, calls[k] # None, Guard(k)
    PROVE  /\ UNCHANGED <<db, now, origin, homes, kept>>
           /\ Plainly(k, {"user", "find", "guarded"})
  <1> DEFINE q == calls[k]
             Goal == Plainly(k, {"user", "find", "guarded"})
  <1>0. DOMAIN q = DOMAIN Blank /\ DOMAIN calls = Client
    BY Found
  <1>1. ASSUME NEW s \in {"user", "find", "guarded"}, NEW row, Proceed(k, s, row) PROVE Goal
    <2>1. PICK r : calls' = [calls EXCEPT ![k] = r] /\ SameCall(q, r) /\ r.at = s
      BY <1>1, ProceedIs
    <2> QED BY <2>1 DEF SameCall, SameOrder, Core, Plainly
  <1>2. ASSUME NEW s \in {"user", "find", "guarded"}, NEW u, NEW row,
               \/ calls' = [calls EXCEPT ![k].at = s, ![k].user = u]
               \/ calls' = [calls EXCEPT ![k].at = s, ![k].row = row, ![k].user = u]
        PROVE  Goal
    <2> DEFINE r1 == [q EXCEPT !.at = s, !.user = u]
               r2 == [q EXCEPT !.at = s, !.row = row, !.user = u]
    <2>1. \/ calls' = [calls EXCEPT ![k] = r1]
          \/ calls' = [calls EXCEPT ![k] = r2]
      BY <1>0, <1>2
    <2>2. Core(q, r1) /\ r1.at = s /\ Core(q, r2) /\ r2.at = s
      BY <1>0 DEF Core, Blank
    <2> HIDE DEF r1, r2
    <2> QED BY <2>1, <2>2 DEF Plainly
  <1>3. Answer(k) => Goal
    BY DEF Plainly
  <1> HIDE DEF Goal
  <1>4. GuardAccount(k) => Goal
    <2> DEFINE s == IF q.at = "public" THEN "find" ELSE "user"
    <2>1. GuardAccount(k) => Answer(k) \/ \E row : Proceed(k, s, row)
      BY Zenon DEF GuardAccount, Refused
    <2> QED BY <2>1, <1>1, <1>3
  <1>5. GuardUser(k) => Goal
    <2>1. GuardUser(k) => Answer(k) \/ \E row : Proceed(k, "find", row)
      BY Zenon DEF GuardUser, Refused
    <2> QED BY <2>1, <1>1, <1>3
  <1>6. GuardCalendar(k) => Goal
    <2> DEFINE s == IF q.op = "UpdateCalendar" THEN "user" ELSE "find"
    <2>1. GuardCalendar(k) => Answer(k) \/ \E u : calls' = [calls EXCEPT ![k].at = s, ![k].user = u]
      BY Zenon DEF GuardCalendar, Refused
    <2> QED BY <2>1, <1>2, <1>3
  <1>7. GuardSchedule(k) => Goal
    <2>1. GuardSchedule(k) =>
            Answer(k) \/ \E u : calls' = [calls EXCEPT ![k].at = "find", ![k].user = u]
      BY Zenon DEF GuardSchedule, Refused
    <2> QED BY <2>1, <1>2, <1>3
  <1>8. GuardEvent(k) => Goal
    <2>1. GuardEvent(k) =>
            \/ Answer(k)
            \/ \E u, row : calls' = [calls EXCEPT ![k].at = "guarded", ![k].row = row, ![k].user = u]
      BY Zenon DEF GuardEvent, Refused
    <2> QED BY <2>1, <1>2, <1>3
  <1>9. Goal
    BY <1>4, <1>5, <1>6, <1>7, <1>8 DEF Guard
  <1> QED BY <1>9 DEF Goal, Guard, ghostVars

(* A request begins at its first guard, with what its client named.        *)
LEMMA BeginTrail ==
    ASSUME Inv, NEW k \in Client, Begin(k)
    PROVE  /\ UNCHANGED <<db, now, origin, homes, kept>>
           /\ \E q, r : /\ Asked(q) /\ calls' = [calls EXCEPT ![k] = r]
                        /\ SameCall(q, r) /\ r.at = Entry(q)
                        /\ r.at \in Guards \union {"find", "apikey"}
  <1>1. PICK q \in Scenarios[scenario].requests : calls' = [calls EXCEPT ![k] = [q EXCEPT !.at = Entry(q)]]
    BY DEF Begin
  <1> DEFINE r == [q EXCEPT !.at = Entry(q)]
  <1>2. Asked(q)
    BY RequestsAssumption DEF Inv, Bounded
  <1>3. SameCall(q, r) /\ r.at = Entry(q)
    BY <1>2 DEF Asked, SameCall, SameOrder, Blank
  <1>4. Entry(q) \in Guards \union {"find", "apikey"}
    BY RouteIs DEF Entry, Guards
  <1> HIDE DEF r
  <1>5. calls' = [calls EXCEPT ![k] = r]
    BY <1>1 DEF r
  <1> QED BY <1>2, <1>3, <1>4, <1>5 DEF Begin, ghostVars

(* Whatever a request does, the tokens it stores and uses are timely.      *)
LEMMA StepTimely ==
    ASSUME TokenInv, NEW k \in Client, Step(k)
    PROVE  /\ UNCHANGED now /\ GrantsLive(db')
           /\ \A j \in Client : calls'[j] # None => Timely(calls'[j], now)
  <1> DEFINE q == calls[k]
             Turn == calls'[k] # None => Timely(calls'[k], now)
  <1>0. Inv /\ DOMAIN calls = Client /\ GrantsLive(db)
    BY DEF TokenInv, Inv
  <1>1. ASSUME NEW steps, "store" \notin steps, "connected" \notin steps, "record" \notin steps,
               Plainly(k, steps), "write" \notin steps \/ q.op # "OAuthIntegration",
               "shown" \notin steps \/ q.op \in LookupOps
        PROVE  Turn
    <2>1. CASE Answer(k)
      BY <1>0, <2>1 DEF Answer
    <2>2. ASSUME NEW r, calls' = [calls EXCEPT ![k] = r], Core(q, r), r.at \in steps PROVE Turn
      <3>1. Timely(r, now)
        BY <1>1, <2>2, ElsewhereTimely DEF Core
      <3> QED BY <1>0, <2>2, <3>1
    <2> QED BY <1>1, <2>1, <2>2 DEF Plainly
  <1>2. CASE Begin(k)
    <2>1. PICK r : calls' = [calls EXCEPT ![k] = r] /\ r.at \in Guards \union {"find", "apikey"}
      BY <1>0, <1>2, BeginTrail
    <2>2. UNCHANGED <<db, now>>
      BY <1>0, <1>2, BeginTrail
    <2>3. Timely(r, now)
      BY <2>1, ElsewhereTimely DEF Guards
    <2>4. Turn
      BY <1>0, <2>1, <2>3
    <2> QED BY <1>0, <2>1, <2>2, <2>4 DEF TokenInv
  <1>3. ASSUME q # None, Handle(k) PROVE UNCHANGED now /\ GrantsLive(db') /\ Turn
    <2>1. CASE Guard(k)
      BY <1>0, <1>1, <1>3, <2>1, GuardTrail
    <2>2. CASE DirectoryNext(k)
      <3>1. Spares(db, db') /\ UNCHANGED now /\ Moved(k, DirectorySteps) /\ q.op # "OAuthIntegration"
        BY <1>0, <1>3, <2>2, DirectoryTrail DEF OwnedOps, ServiceOps
      <3>2. GrantsLive(db')
        BY <1>0, <3>1, SparedLive DEF Spares
      <3>3. Plainly(k, DirectorySteps)
        <4>1. ASSUME NEW s \in DirectorySteps, NEW row, Goto(k, s) \/ Proceed(k, s, row)
              PROVE  Plainly(k, DirectorySteps)
          <5>1. PICK r : calls' = [calls EXCEPT ![k] = r] /\ SameCall(q, r) /\ r.at = s
            BY <1>0, <1>3, <4>1, GotoIs, ProceedIs
          <5> QED BY <5>1 DEF SameCall, SameOrder, Core, Plainly
        <4>2. ASSUME NEW s \in DirectorySteps, Goto(k, s) PROVE Plainly(k, DirectorySteps)
          BY <4>1, <4>2
        <4>3. Answer(k) => Plainly(k, DirectorySteps)
          BY DEF Plainly
        <4> QED BY <3>1, <4>1, <4>2, <4>3 DEF Moved
      <3> QED BY <1>1, <3>1, <3>2, <3>3 DEF DirectorySteps
    <2>3. CASE LookupsNext(k)
      BY <1>0, <1>1, <1>3, <2>3, LookupTrail
    <2>4. CASE IntegrationsNext(k)
      BY <1>0, <1>3, <2>4, IntegrationTrail DEF Answer
    <2>5. CASE EventQueriesNext(k)
      BY <1>0, <1>1, <1>3, <2>5, QueryTrail DEF QuerySteps
    <2>6. CASE StatementFails(k)
      BY <1>0, <2>6 DEF StatementFails, Answer
    <2>7. CASE EventSyncNext(k)
      BY <1>0, <1>3, <2>7, EventTrail
    <2>8. CASE AccountsNext(k)
      <3>1. UNCHANGED now /\ db'.grants = db.grants /\ Plainly(k, AccountSteps)
        BY <1>0, <1>3, <2>8, AccountTrail
      <3>2. GrantsLive(db')
        BY <1>0, <3>1 DEF GrantsLive
      <3> QED BY <1>1, <3>1, <3>2 DEF AccountSteps
    <2> QED BY <1>3, <2>1, <2>2, <2>3, <2>4, <2>5, <2>6, <2>7, <2>8 DEF Handle
  <1>4. CASE q # None /\ Handle(k)
    <2>1. \A j \in Client \ {k} : calls'[j] = calls[j]
      BY <1>0, StepFine DEF Fine, CallFine
    <2> QED BY <1>3, <1>4, <2>1 DEF TokenInv
  <1> QED BY <1>2, <1>4 DEF Step

(* Every token a request stores was answered in time, and every token that *)
(* is handed out was checked to be valid.                                  *)
LEMMA TokensTimely == Spec => []TokenInv
  <1>1. Init => TokenInv
    BY InitInv, DatabasesAssumption DEF Init, TokenInv, GrantsLive
  <1>2. TokenInv /\ [Next]_serverVars => TokenInv'
    <2>1. ASSUME TokenInv, NEW k \in Client, Step(k), Noticed PROVE TokenInv'
      <3>1. Inv'
        BY <2>1, NextKeeps DEF TokenInv, Next
      <3> QED BY <2>1, <3>1, StepTimely DEF TokenInv
    <2>2. ASSUME TokenInv, Tick, Noticed PROVE TokenInv'
      <3>1. Inv' /\ UNCHANGED <<db, calls>> /\ now' = now + 1 /\ now \in Nat
        BY <2>2, NextKeeps, NowTyped DEF TokenInv, Next, Tick
      <3>2. ASSUME NEW k \in Client, calls[k] # None PROVE Timely(calls[k], now + 1)
        <4> DEFINE q == calls[k]
        <4>1. Timely(q, now) /\ now < Patience(q)
          BY <2>2, <3>2 DEF TokenInv, Tick
        <4>2. CASE Waiting(q)
          <5>1. q.at \in {"store", "write"} /\ q.asked \in Int /\ q.asked <= now
                /\ q.grant.access.until = q.asked + Life
            BY <4>1, <4>2 DEF Timely, Waiting
          <5>2. q.asked # None
            BY <5>1, NoneIsNoTime
          <5>3. now < q.asked + Latency
            BY <4>1, <5>1, <5>2 DEF Patience
          <5> QED BY <3>1, <4>1, <5>1, <5>3, LatencyAssumption DEF Timely
        <4>3. CASE ~Waiting(q)
          BY <4>1, <4>3 DEF Timely
        <4> QED BY <4>2, <4>3
      <3> QED BY <2>2, <3>1, <3>2 DEF TokenInv
    <2>3. ASSUME TokenInv, UNCHANGED serverVars PROVE TokenInv'
      <3>1. Inv' /\ UNCHANGED <<db, calls, now>>
        BY <2>3, NextKeeps DEF TokenInv, serverVars, requestVars
      <3> QED BY <2>3, <3>1 DEF TokenInv
    <2> QED BY <2>1, <2>2, <2>3 DEF Next
  <1> QED BY <1>1, <1>2, PTL DEF Spec

(* A token is valid when it is handed to a request, although the server    *)
(* counts its life from the moment the provider's answer arrives: the      *)
(* margin it leaves is longer than any answer takes                        *)
(* (oauth/get_access_token of google and outlook).                         *)
THEOREM TokensStayValid == Spec => []TokensStillValid
  <1>1. TokenInv => TokensStillValid
    BY DEF TokenInv, Timely, TokensStillValid
  <1> QED BY <1>1, TokensTimely, PTL

----------------------------------------------------------------------------
(* Accounts from a cache.  An account that is cached, or was handed to a   *)
(* request, was the stored one no longer ago than its time says.           *)

Recent(accounts, cur, a, d, t) ==
    \/ accounts[a] # None /\ accounts[a].data = d
    \/ cur[a][d] # None /\ cur[a][d] >= t
CurrentTyped(cur, t) ==
    /\ cur = [a \in Account |-> [d \in Data |-> cur[a][d]]]
    /\ \A a \in Account, d \in Data : cur[a][d] # None => cur[a][d] \in Int /\ cur[a][d] <= t
CacheFresh(ca, accounts, cur, t) ==
    \A s \in Server, a \in Account :
        ca[s][a] # None =>
            /\ ca[s][a].until \in Int /\ ca[s][a].until <= t + TimeToLive
            /\ Recent(accounts, cur, a, ca[s][a].row.data, ca[s][a].until - (TimeToLive + Delay))
HandedFresh(q, accounts, cur, t) ==
    /\ q.op \in ByKeyOnly /\ q.at = "remember" =>
            /\ q.asked \in Int /\ q.asked <= t /\ t <= q.asked + Delay
            /\ Recent(accounts, cur, q.account, q.row.data, q.asked)
    /\ q.op \in ByKeyOnly /\ q.at = "find" =>
            /\ q.asked \in Int /\ q.asked <= t
            /\ Recent(accounts, cur, q.account, q.row.data, q.asked - (TimeToLive + Delay))
CacheInv ==
    /\ Inv /\ CurrentTyped(current, now) /\ CacheFresh(cache, db.accounts, current, now)
    /\ \A k \in Client : calls[k] # None => HandedFresh(calls[k], db.accounts, current, now)

(* How a statement on accounts changes the table, and what is noted of it  *)
AccountsMove ==
    \/ db'.accounts = db.accounts /\ current' = current
    \/ db'.accounts = db.accounts /\ current' = Noted
    \/ /\ \E a \in Account : \E row : db.accounts[a] = None /\ db'.accounts = [db.accounts EXCEPT ![a] = row]
       /\ current' = current
    \/ /\ \E a \in Account : \E row :
            db.accounts[a] # None /\ row # None /\ db'.accounts = [db.accounts EXCEPT ![a] = row]
       /\ current' = Noted

(* What was the stored account at a time stays so noted.                   *)
LEMMA RecentOn ==
    ASSUME CacheInv, AccountsMove
    PROVE  /\ CurrentTyped(current', now)
           /\ \A a \in Account, t \in Int, d \in Data :
                t <= now /\ Recent(db.accounts, current, a, d, t) =>
                    Recent(db'.accounts, current', a, d, t)
  <1>0. /\ CurrentTyped(current, now) /\ now \in Nat /\ DOMAIN db.accounts = Account
        /\ \A a \in Account : db.accounts[a] # None => db.accounts[a].data \in Data
        /\ None \notin Int
    BY Found, NowTyped, NoneIsNoTime DEF CacheInv, Inv, Consistent, Database, AccountRow
  <1>1. ASSUME current' = Noted
        PROVE  /\ CurrentTyped(current', now)
               /\ \A a \in Account : \A d \in Data :
                    current'[a][d] = IF db.accounts[a] # None /\ db.accounts[a].data = d THEN now
                                     ELSE current[a][d]
    <2>1. DOMAIN current = Account /\ \A a \in Account : DOMAIN current[a] = Data
      BY <1>0 DEF CurrentTyped
    <2>2. /\ DOMAIN current' = Account
          /\ \A a \in Account : DOMAIN current'[a] = Data
      BY <1>1, <2>1 DEF Noted
    <2>3. \A a \in Account : \A d \in Data :
             current'[a][d] = IF db.accounts[a] # None /\ db.accounts[a].data = d THEN now
                              ELSE current[a][d]
      BY <1>0, <1>1, <2>1 DEF Noted
    <2>4. current' = [a \in Account |-> [d \in Data |-> current'[a][d]]]
      <3>1. \A a \in Account : current'[a] = [d \in Data |-> current'[a][d]]
        <4> TAKE a \in Account
        <4>1. CASE db.accounts[a] = None
          BY <1>0, <1>1, <4>1 DEF Noted, CurrentTyped
        <4>2. CASE db.accounts[a] # None
          <5>1. current'[a] = [current[a] EXCEPT ![db.accounts[a].data] = now]
            BY <1>1, <4>2 DEF Noted
          <5> QED BY <2>1, <5>1
        <4> QED BY <4>1, <4>2
      <3>2. current' = [a \in Account |-> current'[a]]
        BY <1>1 DEF Noted
      <3> QED BY <3>1, <3>2
    <2>5. \A a \in Account, d \in Data :
             current'[a][d] # None => current'[a][d] \in Int /\ current'[a][d] <= now
      BY <1>0, <2>3 DEF CurrentTyped
    <2> QED BY <2>3, <2>4, <2>5 DEF CurrentTyped
  <1>2. CurrentTyped(current', now)
    BY <1>0, <1>1 DEF AccountsMove
  <1>3. ASSUME NEW a \in Account, NEW t \in Int, NEW d \in Data, t <= now, Recent(db.accounts, current, a, d, t)
        PROVE  Recent(db'.accounts, current', a, d, t)
    <2>1. ASSUME current' = current, db.accounts[a] # None => db'.accounts[a] = db.accounts[a]
          PROVE  Recent(db'.accounts, current', a, d, t)
      BY <1>3, <2>1 DEF Recent
    <2>2. CASE current' = Noted
      <3>1. CASE db.accounts[a] # None /\ db.accounts[a].data = d
        <4>1. current'[a][d] = now /\ now # None /\ now >= t
          BY <1>0, <1>1, <1>3, <2>2, <3>1
        <4> QED BY <4>1 DEF Recent
      <3>2. CASE ~(db.accounts[a] # None /\ db.accounts[a].data = d)
        <4>1. current[a][d] # None /\ current[a][d] >= t
          BY <1>3, <3>2 DEF Recent
        <4>2. current'[a][d] = current[a][d]
          BY <1>1, <2>2, <3>2
        <4> QED BY <4>1, <4>2 DEF Recent
      <3> QED BY <3>1, <3>2
    <2>3. ASSUME NEW b \in Account, NEW row, db.accounts[b] = None, db.accounts[a] # None,
                 db'.accounts = [db.accounts EXCEPT ![b] = row]
          PROVE  db'.accounts[a] = db.accounts[a]
      BY <1>0, <2>3
    <2> QED BY <2>1, <2>2, <2>3 DEF AccountsMove
  <1> QED BY <1>2, <1>3

(* A statement that is not of the lookup of an account is handed none.     *)
LEMMA ElsewhereFresh ==
    ASSUME NEW q, NEW accounts, NEW cur, NEW t,
           q.op \notin ByKeyOnly \/ q.at \notin {"remember", "find"}
    PROVE  HandedFresh(q, accounts, cur, t)
  BY DEF HandedFresh

(* The use cases on accounts hand out, and cache, what was read in time.   *)
LEMMA AccountsFresh ==
    ASSUME CacheInv, NEW k \in Client, calls[k] # None, AccountsNext(k)
    PROVE  /\ UNCHANGED now /\ AccountsMove
           /\ CacheFresh(cache', db'.accounts, current', now)
           /\ calls'[k] # None => HandedFresh(calls'[k], db'.accounts, current', now)
  <1> DEFINE q == calls[k]
             a == q.account
             p == q.server
             Fresh1 == CacheFresh(cache', db'.accounts, current', now)
             Handed1 == calls'[k] # None => HandedFresh(calls'[k], db'.accounts, current', now)
  <1>0. /\ Inv /\ db \in Database /\ DOMAIN q = DOMAIN Blank /\ DOMAIN calls = Client
        /\ q.op \in AccountOps /\ a \in Account /\ Shape(q) /\ AccountHolds(q)
        /\ now \in Nat /\ TimeToLive \in Nat /\ Delay \in Nat
        /\ HandedFresh(q, db.accounts, current, now) /\ CacheFresh(cache, db.accounts, current, now)
        /\ DOMAIN cache = Server /\ \A s \in Server : DOMAIN cache[s] = Account
        /\ \A s \in Server, b \in Account : cache[s][b] # None => cache[s][b].row.data \in Data
    BY Found, NowTyped, CacheAssumption
       DEF CacheInv, Holds, Shape, Inv, GhostsTyped, AccountRow, AccountsNext
  <1>1. UNCHANGED now
    BY <1>0, AccountTrail
  <1>2. ASSUME AccountsMove, UNCHANGED cache PROVE Fresh1
    <2>1. ASSUME NEW s \in Server, NEW b \in Account, cache[s][b] # None
          PROVE  /\ cache[s][b].until \in Int /\ cache[s][b].until <= now + TimeToLive
                 /\ Recent(db'.accounts, current', b, cache[s][b].row.data,
                           cache[s][b].until - (TimeToLive + Delay))
      <3> DEFINE t == cache[s][b].until - (TimeToLive + Delay)
      <3>1. /\ cache[s][b].until \in Int /\ cache[s][b].until <= now + TimeToLive
            /\ Recent(db.accounts, current, b, cache[s][b].row.data, t)
        BY <1>0, <2>1 DEF CacheFresh
      <3>2. t \in Int /\ t <= now
        BY <1>0, <3>1
      <3> QED BY <1>0, <1>2, <2>1, <3>1, <3>2, RecentOn
    <2> QED BY <1>2, <2>1 DEF CacheFresh
  <1>3. ASSUME NEW s, s \notin {"remember", "find"}, Goto(k, s) PROVE Handed1
    <2>1. PICK r : calls' = [calls EXCEPT ![k] = r] /\ r.at = s
      BY <1>0, <1>3, GotoIs
    <2> QED BY <1>0, <1>3, <2>1, ElsewhereFresh
  <1>4. Answer(k) => Handed1
    BY <1>0 DEF Answer
  <1>5. ASSUME NEW s, NEW row, Identified(k, row, s)
        PROVE  \E r : /\ calls' = [calls EXCEPT ![k] = r] /\ r.row = row /\ r.at = s /\ r.asked = now
                      /\ r.op = q.op /\ r.account = a
    <2> DEFINE r == [q EXCEPT !.row = row, !.at = s, !.asked = now]
    <2>1. calls' = [calls EXCEPT ![k] = r] /\ r.row = row /\ r.at = s /\ r.asked = now
          /\ r.op = q.op /\ r.account = a
      BY <1>0, <1>5 DEF Identified, Blank
    <2> HIDE DEF r
    <2> QED BY <2>1
  <1>6. ASSUME FindByApiKey(k) PROVE AccountsMove /\ Fresh1 /\ Handed1
    <2>0. UNCHANGED db /\ q.op \in AccountOps
      BY <1>0, <1>6 DEF FindByApiKey
    <2>1. ASSUME q.at = "apikey", UNCHANGED accountVars,
                 IF Remembered(p, a) THEN Identified(k, cache[p][a].row, "find") ELSE Goto(k, "select")
          PROVE  AccountsMove /\ Fresh1 /\ Handed1
      <3>1. AccountsMove /\ UNCHANGED cache
        BY <2>0, <2>1 DEF AccountsMove, accountVars
      <3>2. CASE Remembered(p, a)
        <4>1. q.op \in ByKeyOnly /\ p \in Server
          BY <1>0, <2>1 DEF AccountHolds, AccountOps, ByKeyOnly, Shape
        <4> DEFINE c == cache[p][a]
        <4>2. PICK r : /\ calls' = [calls EXCEPT ![k] = r] /\ r.row = c.row /\ r.at = "find"
                       /\ r.asked = now /\ r.op = q.op /\ r.account = a
          BY <1>5, <2>1, <3>2
        <4>3. /\ c # None /\ now < c.until /\ c.until \in Int /\ c.row.data \in Data
              /\ Recent(db.accounts, current, a, c.row.data, c.until - (TimeToLive + Delay))
          BY <1>0, <3>2, <4>1 DEF Remembered, CacheFresh
        <4> HIDE DEF c
        <4>4. Recent(db'.accounts, current', a, c.row.data, c.until - (TimeToLive + Delay))
          BY <2>0, <2>1, <4>3 DEF accountVars
        <4>5. current'[a][c.row.data] # None => current'[a][c.row.data] \in Int
          BY <1>0, <3>1, <4>3, RecentOn DEF CurrentTyped
        <4>6. Recent(db'.accounts, current', a, c.row.data, now - (TimeToLive + Delay))
          BY <1>0, <4>3, <4>4, <4>5 DEF Recent
        <4>7. HandedFresh(r, db'.accounts, current', now)
          BY <1>0, <4>2, <4>6 DEF HandedFresh
        <4> QED BY <1>0, <1>2, <3>1, <4>2, <4>7
      <3>3. CASE ~Remembered(p, a)
        BY <1>2, <1>3, <2>1, <3>1, <3>3
      <3> QED BY <3>2, <3>3
    <2>2. ASSUME q.at = "select", current' = Noted, UNCHANGED cache,
                 IF Stored(db.accounts, a) THEN Identified(k, db.accounts[a], "remember")
                 ELSE IF q.op = "InitDefaultAccount" THEN Goto(k, "insert") ELSE Answer(k)
          PROVE  AccountsMove /\ Fresh1 /\ Handed1
      <3>1. AccountsMove
        BY <2>0, <2>2 DEF AccountsMove
      <3>2. CASE Stored(db.accounts, a)
        <4>1. PICK r : /\ calls' = [calls EXCEPT ![k] = r] /\ r.row = db.accounts[a]
                       /\ r.at = "remember" /\ r.asked = now /\ r.op = q.op /\ r.account = a
          BY <1>5, <2>2, <3>2
        <4>2. Recent(db'.accounts, current', a, r.row.data, now)
          BY <1>0, <2>0, <3>2, <4>1 DEF Recent, Stored, IdsOf, Database
        <4>3. HandedFresh(r, db'.accounts, current', now)
          BY <1>0, <4>1, <4>2 DEF HandedFresh
        <4> QED BY <1>0, <1>2, <2>2, <3>1, <4>1, <4>3
      <3>3. CASE ~Stored(db.accounts, a)
        BY <1>2, <1>3, <1>4, <2>2, <3>1, <3>3
      <3> QED BY <3>2, <3>3
    <2>3. ASSUME q.at = "remember", Goto(k, "find"), UNCHANGED current,
                 cache' = [cache EXCEPT ![p][a] = [row |-> q.row, until |-> now + TimeToLive]]
          PROVE  AccountsMove /\ Fresh1 /\ Handed1
      <3> DEFINE d == q.row.data
      <3>1. /\ q.op \in ByKeyOnly /\ p \in Server /\ q.row \in AccountRow
            /\ q.asked \in Int /\ q.asked <= now /\ now <= q.asked + Delay
            /\ Recent(db.accounts, current, a, d, q.asked)
        BY <1>0, <2>3 DEF AccountHolds, AccountOps, ByKeyOnly, Shape, HandedFresh
      <3>2. AccountsMove /\ d \in Data
        BY <2>0, <2>3, <3>1 DEF AccountsMove, AccountRow
      <3> HIDE DEF d
      <3>3. current'[a][d] # None => current'[a][d] \in Int
        BY <1>0, <3>2, RecentOn DEF CurrentTyped
      <3>4. /\ Recent(db'.accounts, current', a, d, now - Delay)
            /\ Recent(db'.accounts, current', a, d, q.asked - (TimeToLive + Delay))
        <4>1. Recent(db'.accounts, current', a, d, q.asked)
          BY <2>0, <2>3, <3>1
        <4> QED BY <1>0, <3>1, <3>3, <4>1 DEF Recent
      <3>5. Handed1
        <4>1. PICK r : calls' = [calls EXCEPT ![k] = r] /\ r = [q EXCEPT !.at = "find"]
          BY <1>0, <2>3 DEF Goto
        <4>2. r.op = q.op /\ r.account = a /\ r.row = q.row /\ r.at = "find" /\ r.asked = q.asked
          BY <1>0, <4>1 DEF Blank
        <4>3. HandedFresh(r, db'.accounts, current', now)
          BY <3>1, <3>4, <4>2 DEF HandedFresh, d
        <4> QED BY <1>0, <4>1, <4>3
      <3>6. Fresh1
        <4> DEFINE c == [row |-> q.row, until |-> now + TimeToLive]
        <4>1. c.row = q.row /\ c.until = now + TimeToLive
          OBVIOUS
        <4> HIDE DEF c
        <4>2. \A s \in Server, b \in Account :
                cache'[s][b] = IF s = p /\ b = a THEN c ELSE cache[s][b]
          BY <1>0, <2>3, <3>1 DEF c
        <4>3. c.until \in Int /\ c.until <= now + TimeToLive /\ c.until - (TimeToLive + Delay) = now - Delay
          BY <1>0, <4>1
        <4>4. Recent(db'.accounts, current', a, c.row.data, c.until - (TimeToLive + Delay))
          BY <3>4, <4>1, <4>3 DEF d
        <4> QED BY <1>0, <2>0, <2>3, <4>2, <4>3, <4>4 DEF CacheFresh
      <3> QED BY <3>2, <3>5, <3>6
    <2> HIDE DEF Fresh1, Handed1, p, a
    <2>4. \/ /\ q.at = "apikey" /\ UNCHANGED accountVars
             /\ IF Remembered(p, a) THEN Identified(k, cache[p][a].row, "find") ELSE Goto(k, "select")
          \/ /\ q.at = "select" /\ current' = Noted /\ UNCHANGED cache
             /\ IF Stored(db.accounts, a) THEN Identified(k, db.accounts[a], "remember")
                ELSE IF q.op = "InitDefaultAccount" THEN Goto(k, "insert") ELSE Answer(k)
          \/ /\ q.at = "remember" /\ Goto(k, "find") /\ UNCHANGED current
             /\ cache' = [cache EXCEPT ![p][a] = [row |-> q.row, until |-> now + TimeToLive]]
      BY <1>6 DEF FindByApiKey, p, a
    <2> QED BY <2>1, <2>2, <2>3, <2>4
  <1>7. ASSUME NEW row, NEW b \in Account, UNCHANGED accountVars, db.accounts[b] = None,
               db' = AccountInserted(db, b, row)
        PROVE  AccountsMove /\ Fresh1
    <2>1. db'.accounts = [db.accounts EXCEPT ![b] = row]
      BY <1>0, <1>7 DEF AccountInserted, Put, Database
    <2>2. AccountsMove
      BY <1>7, <2>1 DEF AccountsMove, accountVars
    <2> QED BY <1>2, <1>7, <2>2 DEF accountVars
  <1>8. ASSUME db'.accounts = db.accounts, UNCHANGED accountVars PROVE AccountsMove /\ Fresh1
    <2>1. AccountsMove
      BY <1>8 DEF AccountsMove, accountVars
    <2> QED BY <1>2, <1>8, <2>1 DEF accountVars
  <1> DEFINE Goal == AccountsMove /\ Fresh1 /\ Handed1
  <1>9. ASSUME CreateAccount(k) PROVE Goal
    <2>1. /\ Answer(k) /\ UNCHANGED accountVars
          /\ \E b \in {x \in Account : db.accounts[x] = None} : \E row : db' = AccountInserted(db, b, row)
      BY <1>9, Zenon DEF CreateAccount
    <2> QED BY <1>4, <1>7, <2>1
  <1>10. ASSUME SetAccount(k) PROVE Goal
    <2>1. CASE /\ db' = AccountSaved(db, a, Merged(q.row, q.patch))
               /\ current' = Noted /\ Goto(k, "forget") /\ UNCHANGED cache
               /\ q.op = "SetAccount" /\ q.at = "find"
      <3> DEFINE row == Merged(q.row, q.patch)
      <3>1. row # None
        <4>1. q.row \in AccountRow /\ q.patch \in [Field -> Value \union {None}]
          BY <1>0, <2>1 DEF AccountHolds, ByKeyOnly, Shape
        <4>2. row \in AccountRow
          BY <4>1, MergedTyped
        <4> QED BY <4>2, NoneIsNoRow
      <3> HIDE DEF row
      <3>2. \/ db'.accounts = db.accounts
            \/ db.accounts[a] # None /\ db'.accounts = [db.accounts EXCEPT ![a] = row]
        BY <1>0, <2>1 DEF AccountSaved, Put, Database, Stored, IdsOf, row
      <3>3. AccountsMove
        BY <1>0, <2>1, <3>1, <3>2 DEF AccountsMove
      <3> QED BY <1>2, <1>3, <2>1, <3>3
    <2>2. CASE /\ cache' = [cache EXCEPT ![p][a] = None] /\ Answer(k) /\ UNCHANGED <<db, current>>
               /\ q.op = "SetAccount"
      <3>1. AccountsMove
        BY <2>2 DEF AccountsMove
      <3>2. \A s \in Server, b \in Account :
              cache'[s][b] # None => cache'[s][b] = cache[s][b]
        <4>1. p \in Server
          BY <1>0, <2>2 DEF Shape, ByKeyOnly
        <4> QED BY <1>0, <2>2, <4>1
      <3>3. Fresh1
        <4>1. ASSUME NEW s \in Server, NEW b \in Account, cache'[s][b] # None
              PROVE  /\ cache'[s][b].until \in Int /\ cache'[s][b].until <= now + TimeToLive
                     /\ Recent(db'.accounts, current', b, cache'[s][b].row.data,
                               cache'[s][b].until - (TimeToLive + Delay))
          <5>1. cache'[s][b] = cache[s][b]
            BY <3>2, <4>1
          <5> QED BY <1>0, <2>2, <4>1, <5>1 DEF CacheFresh
        <4> QED BY <4>1 DEF CacheFresh
      <3> QED BY <1>4, <2>2, <3>1, <3>3
    <2>3. \/ /\ db' = AccountSaved(db, a, Merged(q.row, q.patch))
             /\ current' = Noted /\ Goto(k, "forget") /\ UNCHANGED cache
             /\ q.op = "SetAccount" /\ q.at = "find"
          \/ /\ cache' = [cache EXCEPT ![p][a] = None] /\ Answer(k) /\ UNCHANGED <<db, current>>
             /\ q.op = "SetAccount"
      BY <1>10, Zenon DEF SetAccount, At
    <2> QED BY <2>1, <2>2, <2>3
  <1>11. ASSUME GetAccount(k) PROVE Goal
    BY <1>4, <1>8, <1>11 DEF GetAccount
  <1>12. ASSUME InitDefaultAccount(k), UNCHANGED accountVars PROVE Goal
    <2>1. \/ db'.accounts = db.accounts
          \/ \E row : db.accounts[a] = None /\ db' = AccountInserted(db, a, row)
      <3>1. \/ UNCHANGED db
            \/ \E b, x : db' = IntegrationInserted(db, b, x)
            \/ ~Stored(db.accounts, a) /\ \E row : db' = AccountInserted(db, a, row)
        BY <1>12, Zenon DEF InitDefaultAccount
      <3>2. \A b, x : IntegrationInserted(db, b, x).accounts = db.accounts
        BY <1>0 DEF IntegrationInserted, Database
      <3>3. ~Stored(db.accounts, a) => db.accounts[a] = None
        BY <1>0 DEF Stored, IdsOf, Database
      <3> QED BY <3>1, <3>2, <3>3
    <2>2. calls'[k] # None => calls'[k].at \notin {"remember", "find"}
      <3> DEFINE r1 == [q EXCEPT !.at = "integrate", !.provider = "google"]
                 r2 == [q EXCEPT !.provider = "outlook"]
      <3>1. \/ Answer(k) \/ Goto(k, "apikey")
            \/ calls' = [calls EXCEPT ![k].at = "integrate", ![k].provider = "google"]
            \/ q.at = "integrate" /\ calls' = [calls EXCEPT ![k].provider = "outlook"]
        BY <1>12, Zenon DEF InitDefaultAccount, At
      <3>2. r1.at = "integrate" /\ r2.at = q.at
        BY <1>0 DEF Blank
      <3>3. CASE Goto(k, "apikey")
        BY <1>0, <3>3, GotoIs
      <3>4. CASE calls' = [calls EXCEPT ![k].at = "integrate", ![k].provider = "google"]
        <4>1. calls'[k] = r1
          BY <1>0, <3>4
        <4> QED BY <3>2, <4>1
      <3>5. CASE q.at = "integrate" /\ calls' = [calls EXCEPT ![k].provider = "outlook"]
        <4>1. calls'[k] = r2
          BY <1>0, <3>5
        <4> QED BY <3>2, <3>5, <4>1
      <3> QED BY <1>0, <3>1, <3>3, <3>4, <3>5 DEF Answer
    <2>3. Handed1
      BY <1>4, <2>2, ElsewhereFresh
    <2> QED BY <1>0, <1>7, <1>8, <1>12, <2>1, <2>3
  <1> HIDE DEF Goal
  <1>13. Goal
    BY <1>6, <1>9, <1>10, <1>11, <1>12 DEF AccountsNext, Goal
  <1> QED BY <1>1, <1>13 DEF Goal

(* The other use cases leave the accounts alone, and are not those that    *)
(* come with the key of an account.                                        *)
LEMMA AccountsSpared ==
    ASSUME TokenInv, NEW k \in Client, calls[k] # None,
           \/ Guard(k) \/ DirectoryNext(k) \/ LookupsNext(k) \/ IntegrationsNext(k)
           \/ EventQueriesNext(k) \/ StatementFails(k) \/ EventSyncNext(k)
    PROVE  /\ UNCHANGED now /\ db'.accounts = db.accounts
           /\ calls'[k] # None => calls'[k].op \notin ByKeyOnly
           /\ calls[k].op \in ByKeyOnly => calls[k].at = "answered" \/ StatementFails(k)
  <1> DEFINE q == calls[k]
             Elsewhere == calls'[k] # None => calls'[k].op \notin ByKeyOnly
             Goal == /\ UNCHANGED now /\ db'.accounts = db.accounts /\ Elsewhere
                     /\ q.op \in ByKeyOnly => q.at = "answered" \/ StatementFails(k)
  <1>0. Inv /\ DOMAIN calls = Client
    BY DEF TokenInv, Inv
  <1>1. ASSUME NEW steps, Plainly(k, steps), Answer(k) \/ q.op \notin ByKeyOnly
        PROVE  Elsewhere
    BY <1>0, <1>1 DEF Plainly, Core, Answer
  <1>2. CASE Guard(k)
    <2>1. q.op \notin ByKeyOnly
      BY <1>0, <1>2 DEF Guard, Guards, Inv, Holds, AccountHolds
    <2> QED BY <1>0, <1>1, <1>2, <2>1, GuardTrail
  <1>3. CASE DirectoryNext(k)
    <2>1. Spares(db, db') /\ UNCHANGED now /\ Moved(k, DirectorySteps) /\ q.op \notin ByKeyOnly
      BY <1>0, <1>3, DirectoryTrail DEF OwnedOps, ServiceOps, ByKeyOnly
    <2>2. ASSUME NEW s, NEW row, Goto(k, s) \/ Proceed(k, s, row) PROVE Elsewhere
      <3>1. PICK r : calls' = [calls EXCEPT ![k] = r] /\ SameCall(q, r)
        BY <1>0, <2>2, GotoIs, ProceedIs
      <3> QED BY <1>0, <2>1, <3>1 DEF SameCall, SameOrder
    <2>3. ASSUME NEW s, Goto(k, s) PROVE Elsewhere
      BY <2>2, <2>3
    <2>4. Elsewhere
      BY <1>0, <2>1, <2>2, <2>3 DEF Moved, Answer
    <2> QED BY <2>1, <2>4 DEF Spares
  <1>4. CASE LookupsNext(k)
    <2>1. q.op \notin ByKeyOnly
      BY <1>0, <1>4, LookupTrail DEF LookupOps, ByKeyOnly
    <2> QED BY <1>0, <1>1, <1>4, <2>1, LookupTrail
  <1>5. CASE IntegrationsNext(k)
    <2>1. q.op \notin ByKeyOnly
      BY <1>5 DEF IntegrationsNext, IntegrationOps, ByKeyOnly
    <2>2. Elsewhere
      BY <1>0, <1>5, <2>1, IntegrationTrail DEF Answer, Core
    <2> QED BY <1>5, <2>1, <2>2, IntegrationTrail DEF Aside
  <1>6. CASE EventQueriesNext(k)
    <2>1. Answer(k) \/ q.op \notin ByKeyOnly
      BY <1>0, <1>6, QueryTrail DEF QueryOps, Searches, ByKeyOnly
    <2>2. q.at = "answered" \/ q.op \in QueryOps
      <3>1. \/ q.at = "answered" \/ GetEventsForUsersInTimeRange(k) \/ GetEventsByCalendars(k)
            \/ GetCalendarEvents(k) \/ ExportIcal(k) \/ GetEventInstances(k) \/ GetUserFreeBusy(k)
            \/ GetMultipleFreeBusy(k) \/ SearchEvents(k)
        BY <1>6 DEF EventQueriesNext
      <3>2. SearchEvents(k) => q.op \in QueryOps
        BY Zenon DEF SearchEvents, Reads, QueryOps
      <3> QED BY <3>1, <3>2, Zenon
              DEF GetEventsForUsersInTimeRange, GetEventsByCalendars, GetCalendarEvents, ExportIcal,
                  GetEventInstances, GetUserFreeBusy, GetMultipleFreeBusy, Reads, QueryOps
    <2>3. q.op \in ByKeyOnly => q.op \notin QueryOps
      BY DEF QueryOps, Searches, ByKeyOnly
    <2> QED BY <1>0, <1>1, <1>6, <2>1, <2>2, <2>3, QueryTrail
  <1>7. CASE StatementFails(k)
    BY <1>0, <1>7 DEF StatementFails, Answer
  <1>8. CASE EventSyncNext(k)
    <2>1. q.op \notin ByKeyOnly
      BY <1>8, EventTrail DEF Syncing, Copied, Creates, ByKeyOnly
    <2>2. Elsewhere
      BY <1>0, <1>8, <2>1, EventTrail DEF Core
    <2> QED BY <1>8, <2>1, <2>2, EventTrail
  <1> HIDE DEF Goal
  <1>9. Goal
    BY <1>2, <1>3, <1>4, <1>5, <1>6, <1>7, <1>8 DEF Goal
  <1> QED BY <1>9 DEF Goal

(* An account that a request is handed was the stored one at most the life *)
(* of an entry of the cache ago, and the time it takes to make the entry:  *)
(* settings changed by another process are noticed by then                 *)
(* (account/postgres.rs, find_by_apikey).                                  *)
THEOREM CacheStaysBounded == Spec => []CacheBounded
  <1>1. Init => CacheInv
    BY InitInv DEF Init, CacheInv, CurrentTyped, CacheFresh
  <1>2. TokenInv /\ CacheInv /\ [Next]_serverVars => CacheInv'
    <2>1. ASSUME TokenInv, CacheInv, NEW k \in Client, Step(k), Noticed PROVE CacheInv'
      <3>0. /\ Inv /\ Inv' /\ CurrentTyped(current, now) /\ DOMAIN calls = Client
            /\ \A j \in Client : calls[j] # None => HandedFresh(calls[j], db.accounts, current, now)
            /\ CacheFresh(cache, db.accounts, current, now)
        BY <2>1, NextKeeps DEF CacheInv, Next, Inv
      <3>1. ASSUME UNCHANGED <<now, accountVars>>, db'.accounts = db.accounts,
                   calls'[k] # None => calls'[k].op \notin ByKeyOnly \/ calls'[k].at \notin {"remember", "find"}
            PROVE  /\ UNCHANGED now /\ AccountsMove
                   /\ CacheFresh(cache', db'.accounts, current', now)
                   /\ calls'[k] # None => HandedFresh(calls'[k], db'.accounts, current', now)
        BY <3>0, <3>1, ElsewhereFresh DEF AccountsMove, accountVars
      <3>2. ASSUME Begin(k), UNCHANGED <<remote, accountVars>>
            PROVE  /\ UNCHANGED now /\ AccountsMove
                   /\ CacheFresh(cache', db'.accounts, current', now)
                   /\ calls'[k] # None => HandedFresh(calls'[k], db'.accounts, current', now)
        <4>1. PICK q, r : /\ Asked(q) /\ calls' = [calls EXCEPT ![k] = r]
                          /\ SameCall(q, r) /\ r.at = Entry(q)
          BY <3>0, <3>2, BeginTrail
        <4>2. r.op \in ByKeyOnly => r.at = "apikey"
          BY <4>1, NoneIsNoServer DEF Asked, Entry, SameCall, SameOrder
        <4>3. UNCHANGED <<db, now>>
          BY <3>0, <3>2, BeginTrail
        <4> QED BY <3>0, <3>1, <3>2, <4>1, <4>2, <4>3
      <3>3. ASSUME calls[k] # None, UNCHANGED accountVars,
                   \/ Guard(k) \/ DirectoryNext(k) \/ LookupsNext(k) \/ IntegrationsNext(k)
                   \/ EventQueriesNext(k) \/ StatementFails(k) \/ EventSyncNext(k)
            PROVE  /\ UNCHANGED now /\ AccountsMove
                   /\ CacheFresh(cache', db'.accounts, current', now)
                   /\ calls'[k] # None => HandedFresh(calls'[k], db'.accounts, current', now)
        <4>1. UNCHANGED now /\ db'.accounts = db.accounts
              /\ (calls'[k] # None => calls'[k].op \notin ByKeyOnly)
          BY <2>1, <3>3, AccountsSpared
        <4> QED BY <3>1, <3>3, <4>1
      <3>4. /\ UNCHANGED now /\ AccountsMove
            /\ CacheFresh(cache', db'.accounts, current', now)
            /\ calls'[k] # None => HandedFresh(calls'[k], db'.accounts, current', now)
        <4>1. CASE Begin(k) /\ UNCHANGED <<remote, accountVars>>
          BY <3>2, <4>1
        <4>2. CASE calls[k] # None /\ Handle(k)
          BY <2>1, <3>3, <4>2, AccountsFresh DEF Handle
        <4> QED BY <2>1, <4>1, <4>2 DEF Step
      <3>5. \A j \in Client \ {k} : calls'[j] = calls[j]
        BY <2>1, <3>0, StepFine DEF Fine, CallFine
      <3>6. ASSUME NEW j \in Client, calls'[j] # None
            PROVE  HandedFresh(calls'[j], db'.accounts, current', now)
        <4>1. CASE j = k
          BY <3>4, <3>6, <4>1
        <4>2. CASE j # k
          <5> DEFINE q == calls[j]
          <5>1. /\ calls'[j] = q /\ HandedFresh(q, db.accounts, current, now) /\ AccountHolds(q)
                /\ q.account \in Account /\ now \in Nat /\ TimeToLive \in Nat /\ Delay \in Nat
            BY <3>0, <3>5, <3>6, <4>2, NowTyped, CacheAssumption DEF Inv, Holds, Shape
          <5>2. q.op \in ByKeyOnly /\ q.at \in {"remember", "find"} => q.row.data \in Data
            BY <5>1 DEF AccountHolds, AccountRow
          <5> HIDE DEF q
          <5>3. ASSUME NEW t \in Int, t <= now, q.row.data \in Data,
                       Recent(db.accounts, current, q.account, q.row.data, t)
                PROVE  Recent(db'.accounts, current', q.account, q.row.data, t)
            BY <2>1, <3>4, <5>1, <5>3, RecentOn
          <5>4. HandedFresh(q, db'.accounts, current', now)
            <6>1. CASE q.op \in ByKeyOnly /\ q.at = "remember"
              BY <5>1, <5>2, <5>3, <6>1 DEF HandedFresh
            <6>2. CASE q.op \in ByKeyOnly /\ q.at = "find"
              <7>1. q.asked - (TimeToLive + Delay) \in Int /\ q.asked - (TimeToLive + Delay) <= now
                BY <5>1, <6>2 DEF HandedFresh
              <7> QED BY <5>1, <5>2, <5>3, <6>2, <7>1 DEF HandedFresh
            <6> QED BY <6>1, <6>2 DEF HandedFresh
          <5> QED BY <5>1, <5>4
        <4> QED BY <4>1, <4>2
      <3>7. CurrentTyped(current', now)
        BY <2>1, <3>4, RecentOn
      <3> QED BY <3>0, <3>4, <3>6, <3>7 DEF CacheInv
    <2>2. ASSUME CacheInv, Tick, Noticed PROVE CacheInv'
      <3>1. /\ Inv' /\ UNCHANGED <<db, calls, cache, current>> /\ now' = now + 1 /\ now \in Nat
            /\ TimeToLive \in Nat /\ Delay \in Nat
        BY <2>2, NextKeeps, NowTyped, CacheAssumption DEF CacheInv, Next, Tick, accountVars
      <3>2. ASSUME NEW k \in Client, calls[k] # None
            PROVE  HandedFresh(calls[k], db.accounts, current, now + 1)
        <4> DEFINE q == calls[k]
        <4>1. HandedFresh(q, db.accounts, current, now) /\ now < Patience(q)
          BY <2>2, <3>2 DEF CacheInv, Tick
        <4>2. q.op \in ByKeyOnly /\ q.at = "remember" => q.asked \in Int /\ now < q.asked + Delay
          BY <4>1 DEF Patience, HandedFresh
        <4> HIDE DEF q
        <4>3. HandedFresh(q, db.accounts, current, now + 1)
          BY <3>1, <4>1, <4>2 DEF HandedFresh
        <4> QED BY <4>3 DEF q
      <3>3. CurrentTyped(current, now + 1) /\ CacheFresh(cache, db.accounts, current, now + 1)
        <4>1. CurrentTyped(current, now) /\ CacheFresh(cache, db.accounts, current, now)
          BY <2>2 DEF CacheInv
        <4>2. CurrentTyped(current, now + 1)
          BY <3>1, <4>1 DEF CurrentTyped
        <4>3. CacheFresh(cache, db.accounts, current, now + 1)
          BY <3>1, <4>1 DEF CacheFresh
        <4> QED BY <4>2, <4>3
      <3> QED BY <3>1, <3>2, <3>3 DEF CacheInv
    <2>3. ASSUME CacheInv, UNCHANGED serverVars PROVE CacheInv'
      <3>1. Inv' /\ UNCHANGED <<db, calls, now, cache, current>>
        BY <2>3, NextKeeps DEF CacheInv, serverVars, requestVars, accountVars
      <3> QED BY <2>3, <3>1 DEF CacheInv
    <2> QED BY <2>1, <2>2, <2>3 DEF Next
  <1>3. CacheInv => CacheBounded
    BY DEF CacheInv, HandedFresh, Recent, CacheBounded, ByKeyOnly
  <1> QED BY <1>1, <1>2, <1>3, TokensTimely, PTL DEF Spec

----------------------------------------------------------------------------
(* Policies.  A request with the token of a user is of a route for tokens, *)
(* and past its guards its policy authorizes what its use case asks for.   *)

Entitled(q) ==
    /\ q.policy # None => q.signed # None
    /\ q.signed # None => q.op \in TokenRoutes
    /\ q.policy # None =>
            q.at \in {"account", "user"} \/ Authorizes(q.policy, Permissions(q.op))

(* No statement of a use case is run for a request at a guard.             *)
LEMMA PastGuards ==
    ASSUME NEW k \in Client,
           DirectoryNext(k) \/ LookupsNext(k) \/ EventQueriesNext(k) \/ EventSyncNext(k)
    PROVE  calls[k].at \notin Guards
  <1> DEFINE Past == calls[k].at \notin Guards
             Stands == \E op : At(k, op, "find") \/ At(k, op, "write") \/ At(k, op, "service")
                              \/ At(k, op, "plan") \/ At(k, op, "host") \/ At(k, op, "guarded")
                              \/ At(k, op, "next")
             Reader == \E op : Reads(k, op, {"find"}) \/ Reads(k, op, {"both", "once"})
                              \/ Reads(k, op, {"both", "recurring"}) \/ Reads(k, op, {"exceptions"})
                              \/ Reads(k, op, {"events"}) \/ Reads(k, op, {"find", "guarded"})
                              \/ Reads(k, op, {"itsCalendar"}) \/ Reads(k, op, {"search"})
                              \/ Reads(k, op, {"answered"})
  <1>9. Stands => Past
    BY DEF At, Guards
  <1>10. Reader => Past
    <2>1. \A op, steps : Reads(k, op, steps) => calls[k].at \in steps
      BY DEF Reads
    <2>2. Reader => calls[k].at \in {"find", "both", "once", "recurring", "exceptions", "events",
                                     "guarded", "itsCalendar", "search", "answered"}
      BY <2>1
    <2> HIDE DEF Reader
    <2> QED BY <2>2 DEF Guards
  <1> HIDE DEF Stands, Reader
  <1>1. CreateUser(k) \/ UpdateUser(k) \/ DeleteUser(k) => Past
    <2>1. CreateUser(k) => Stands
      BY Zenon DEF CreateUser, Find, Write, Stands
    <2>2. UpdateUser(k) \/ DeleteUser(k) => Stands
      BY Zenon DEF UpdateUser, DeleteUser, Find, Save, Write, Stands
    <2> QED BY <1>9, <2>1, <2>2
  <1>2. CreateCalendar(k) \/ UpdateCalendar(k) \/ DeleteCalendar(k) => Past
    <2>1. CreateCalendar(k) => Stands
      BY Zenon DEF CreateCalendar, Stands
    <2>2. UpdateCalendar(k) \/ DeleteCalendar(k) => Stands
      BY Zenon DEF UpdateCalendar, DeleteCalendar, Find, Save, Write, Stands
    <2> QED BY <1>9, <2>1, <2>2
  <1>3. CreateSchedule(k) \/ UpdateSchedule(k) \/ DeleteSchedule(k) => Past
    <2>1. CreateSchedule(k) => Stands
      BY Zenon DEF CreateSchedule, Find, Write, Stands
    <2>2. UpdateSchedule(k) \/ DeleteSchedule(k) => Stands
      BY Zenon DEF UpdateSchedule, DeleteSchedule, Find, Save, Write, Stands
    <2> QED BY <1>9, <2>1, <2>2
  <1>4. CreateService(k) \/ DeleteService(k) \/ AddUserToService(k) \/ UpdateServiceUser(k) => Past
    <2>1. CreateService(k) \/ DeleteService(k) => Stands
      BY Zenon DEF CreateService, DeleteService, Find, Write, Stands
    <2>2. AddUserToService(k) => Stands
      BY Zenon DEF AddUserToService, CheckPlan, Find, Write, Stands
    <2>3. UpdateServiceUser(k) => Stands
      BY Zenon DEF UpdateServiceUser, CheckPlan, Find, Write, Stands
    <2> QED BY <1>9, <2>1, <2>2, <2>3
  <1>5. RemoveUserFromService(k) \/ AddBusyCalendar(k) \/ RemoveBusyCalendar(k) => Past
    BY SMT DEF RemoveUserFromService, AddBusyCalendar, RemoveBusyCalendar, Find, Write, At, Guards
  <1>6. LookupsNext(k) => Past
    <2>1. GetMe(k) \/ GetUser(k) \/ GetUserByExternalId(k) \/ GetUsersByMeta(k) \/ GetEvent(k)
          \/ GetCalendar(k) \/ GetCalendars(k) \/ GetCalendarsByMeta(k) => Past
      BY SMT DEF GetMe, GetUser, GetUserByExternalId, GetUsersByMeta, GetCalendar, GetCalendars,
          GetCalendarsByMeta, GetEvent, ShowSome, At, Guards
    <2>2. GetSchedule(k) \/ GetSchedulesByMeta(k) \/ GetService(k) \/ GetServicesByMeta(k)
          \/ GetEventByExternalId(k) \/ GetEventsByMeta(k) => Past
      BY SMT DEF GetSchedule, GetSchedulesByMeta, GetService, GetServicesByMeta, GetEventByExternalId,
          GetEventsByMeta, ShowSome, At, Guards
    <2> QED BY <2>1, <2>2 DEF LookupsNext, Guards
  <1>7. EventQueriesNext(k) => Past
    <2>1. GetEventsForUsersInTimeRange(k) \/ GetEventsByCalendars(k) => Reader
      BY Zenon DEF GetEventsForUsersInTimeRange, GetEventsByCalendars, Reader
    <2>2. GetCalendarEvents(k) \/ ExportIcal(k) => Reader
      BY Zenon DEF GetCalendarEvents, ExportIcal, Reader
    <2>3. GetEventInstances(k) \/ GetUserFreeBusy(k) => Reader
      BY Zenon DEF GetEventInstances, GetUserFreeBusy, Reader
    <2>4. GetMultipleFreeBusy(k) \/ SearchEvents(k) => Reader
      BY Zenon DEF GetMultipleFreeBusy, SearchEvents, Reader
    <2>5. calls[k].at = "answered" => Past
      BY DEF Guards
    <2>6. EventQueriesNext(k) => Reader \/ calls[k].at = "answered"
      BY <2>1, <2>2, <2>3, <2>4, Zenon DEF EventQueriesNext
    <2> QED BY <1>10, <2>5, <2>6
  <1>8. EventSyncNext(k) => Past
    <2>1. CreateEvent(k) \/ UpdateEvent(k) \/ DeleteEvent(k) => Stands
      BY Zenon DEF CreateEvent, UpdateEvent, DeleteEvent, EventUseCase, Stands
    <2>4. CreateBatchEvents(k) \/ DeleteManyEvents(k) => Stands
      BY Zenon DEF CreateBatchEvents, DeleteManyEvents, EventUseCase, Stands
    <2>2. (\E ops, rows : FindCopies(k, ops, rows)) \/ FindCopiesOwner(k) \/ CreateCopy(k)
          \/ RecordCopy(k) \/ ChangeCopy(k) \/ RemoveCopy(k) => Past
      BY SMT DEF FindCopies, FindCopiesOwner, CreateCopy, RecordCopy, ChangeCopy, RemoveCopy,
          Copying, Guards
    <2>3. (\E ops : NeedsToken(k, ops)) => Past
      BY DEF NeedsToken, Guards
    <2> QED BY <1>9, <2>1, <2>2, <2>3, <2>4, Zenon DEF EventSyncNext
  <1> QED BY <1>1, <1>2, <1>3, <1>4, <1>5, <1>6, <1>7, <1>8 DEF DirectoryNext

(* Past its find, a request to change or delete a calendar, a schedule or  *)
(* an event is of the user whose row that is.                              *)
OfEvents == {"UpdateEvent", "DeleteEvent"}
Finding == Guards \union {"find"}
Bound(q, o) ==
    /\ q.op \in {"UpdateCalendar", "DeleteCalendar"} /\ q.at = "write" =>
            q.user \in User /\ q.calendar \in Calendar /\ o[q.calendar] = q.user
    /\ q.op \in {"UpdateSchedule", "DeleteSchedule"} /\ q.at = "write" =>
            q.user \in User /\ q.schedule \in Schedule /\ o[q.schedule] = q.user
    /\ q.op \in OfEvents /\ q.at \notin Finding =>
            /\ q.user \in User /\ q.event \in Event /\ o[q.event] = q.user
            /\ q.row.user = q.user

PolicyInv ==
    /\ TokenInv
    /\ \A k \in Client : calls[k] # None => Entitled(calls[k]) /\ Bound(calls[k], origin)

(* A request is bound to the same user when ids are given to other rows.   *)
LEMMA BoundOn ==
    ASSUME NEW q, NEW o, NEW o2, Bound(q, o), \A x \in Owned : o[x] # None => o2[x] = o[x]
    PROVE  Bound(q, o2)
  <1>1. \A x \in Owned : o[x] \in User => o2[x] = o[x]
    BY NoneIsNoId
  <1>2. Calendar \subseteq Owned /\ Schedule \subseteq Owned /\ Event \subseteq Owned
    BY DEF Owned
  <1> QED BY <1>1, <1>2 DEF Bound

(* A row that a find has read is of the user its id was created for.       *)
LEMMA RowsOwned ==
    ASSUME NEW d, NEW o, NEW h, Consistent(d, o, h), NEW x, NEW u
    PROVE  /\ CalendarOfUser(d, x, u) => u \in User /\ x \in Calendar /\ o[x] = u
           /\ ScheduleOfUser(d, x, u) => u \in User /\ x \in Schedule /\ o[x] = u
           /\ EventOfUser(d, x, u) =>
                u \in User /\ x \in Event /\ o[x] = u /\ d.events[x].user = u
  <1>1. d \in Database
    BY DEF Consistent
  <1>2. CalendarOfUser(d, x, u) => u \in User /\ x \in Calendar /\ o[x] = u
    <2>1. CalendarOfUser(d, x, u) => x \in Calendar /\ d.calendars[x] \in CalendarRow
      BY <1>1 DEF CalendarOfUser, Stored, Database
    <2> QED BY <1>1, <2>1 DEF Consistent, CalendarsOwned, CalendarOfUser, Stored, IdsOf, CalendarRow
  <1>3. ScheduleOfUser(d, x, u) => u \in User /\ x \in Schedule /\ o[x] = u
    <2>1. ScheduleOfUser(d, x, u) => x \in Schedule /\ d.schedules[x] \in ScheduleRow
      BY <1>1 DEF ScheduleOfUser, Stored, Database
    <2> QED BY <1>1, <2>1 DEF Consistent, SchedulesOwned, ScheduleOfUser, Stored, IdsOf, ScheduleRow
  <1>4. EventOfUser(d, x, u) => u \in User /\ x \in Event /\ o[x] = u /\ d.events[x].user = u
    <2>1. EventOfUser(d, x, u) => x \in Event /\ d.events[x] \in EventRow
      BY <1>1 DEF EventOfUser, Stored, Database
    <2> QED BY <1>1, <2>1 DEF Consistent, EventsOwned, EventOfUser, Stored, IdsOf, EventRow
  <1> QED BY <1>2, <1>3, <1>4

(* A guard hands an event to its use case with the user of the event.      *)
LEMMA GuardBound ==
    ASSUME Inv, NEW k \in Client, calls[k] # None, Guard(k), calls'[k] # None
    PROVE  Bound(calls'[k], origin)
  <1> DEFINE q == calls[k]
             row == db.events[q.event]
             r == [q EXCEPT !.at = "guarded", !.row = row, !.user = row.user]
  <1>0. DOMAIN q = DOMAIN Blank /\ DOMAIN calls = Client /\ Consistent(db, origin, homes)
    BY Found
  <1>1. PICK c : calls' = [calls EXCEPT ![k] = c] /\ c.at \in {"user", "find", "guarded"}
    <2>1. Plainly(k, {"user", "find", "guarded"})
      BY GuardTrail
    <2> QED BY <1>0, <2>1 DEF Plainly, Answer
  <1>2. calls'[k] = c
    BY <1>0, <1>1
  <1>3. CASE c.at # "guarded"
    BY <1>1, <1>2, <1>3 DEF Bound, Finding, Guards
  <1>4. CASE GuardEvent(k)
    <2>1. Stored(db.events, q.event) /\ calls' = [calls EXCEPT ![k] = r]
      BY <1>0, <1>2, <1>4 DEF GuardEvent, Refused, Answer
    <2>2. r.op = q.op /\ r.event = q.event /\ r.row = row /\ r.user = row.user /\ r.at = "guarded"
      BY <1>0 DEF Blank
    <2>3. calls'[k] = r
      BY <1>0, <2>1
    <2>4. row.user \in User /\ q.event \in Event /\ origin[q.event] = row.user
      BY <1>0, <2>1, RowsOwned DEF EventOfUser
    <2> HIDE DEF r, row
    <2> QED BY <2>2, <2>3, <2>4 DEF Bound
  <1>5. CASE ~GuardEvent(k)
    <2>1. ASSUME NEW s \in {"user", "find"}, NEW row2, Proceed(k, s, row2) PROVE c.at = s
      BY <1>0, <1>2, <2>1, ProceedIs
    <2>2. GuardAccount(k) => Answer(k) \/ \E row2 : Proceed(k, IF q.at = "public" THEN "find" ELSE "user", row2)
      BY Zenon DEF GuardAccount, Refused
    <2>3. GuardUser(k) => Answer(k) \/ \E row2 : Proceed(k, "find", row2)
      BY Zenon DEF GuardUser, Refused
    <2>4. Answer(k) => FALSE
      BY <1>0 DEF Answer
    <2>5. ASSUME NEW s, NEW u, calls' = [calls EXCEPT ![k].at = s, ![k].user = u] PROVE c.at = s
      <3>1. calls'[k] = [q EXCEPT !.at = s, !.user = u]
        BY <1>0, <2>5
      <3> QED BY <1>0, <1>2, <3>1 DEF Blank
    <2>6. GuardCalendar(k) => Answer(k) \/
            \E u : calls' = [calls EXCEPT ![k].at = IF q.op = "UpdateCalendar" THEN "user" ELSE "find",
                                          ![k].user = u]
      BY Zenon DEF GuardCalendar, Refused
    <2>7. GuardSchedule(k) => Answer(k) \/ \E u : calls' = [calls EXCEPT ![k].at = "find", ![k].user = u]
      BY Zenon DEF GuardSchedule, Refused
    <2>8. c.at # "guarded"
      <3>1. GuardAccount(k) \/ GuardUser(k) => c.at # "guarded"
        BY <2>1, <2>2, <2>3, <2>4
      <3>2. GuardCalendar(k) \/ GuardSchedule(k) => c.at # "guarded"
        BY <2>4, <2>5, <2>6, <2>7
      <3> QED BY <1>5, <3>1, <3>2 DEF Guard
    <2> QED BY <1>3, <2>8
  <1> QED BY <1>4, <1>5

(* A statement of a use case on rows with an owner is of that use case.    *)
LEMMA OwnedOp ==
    ASSUME NEW k \in Client
    PROVE  /\ CreateUser(k) => calls[k].op = "CreateUser"
           /\ UpdateUser(k) => calls[k].op = "UpdateUser"
           /\ DeleteUser(k) => calls[k].op = "DeleteUser"
           /\ CreateCalendar(k) => calls[k].op = "CreateCalendar"
           /\ UpdateCalendar(k) => calls[k].op = "UpdateCalendar"
           /\ DeleteCalendar(k) => calls[k].op = "DeleteCalendar"
           /\ CreateSchedule(k) => calls[k].op = "CreateSchedule"
           /\ UpdateSchedule(k) => calls[k].op = "UpdateSchedule"
           /\ DeleteSchedule(k) => calls[k].op = "DeleteSchedule"
  <1>1. CreateUser(k) => calls[k].op = "CreateUser"
    BY Zenon DEF CreateUser, Find, Write, At
  <1>2. UpdateUser(k) => calls[k].op = "UpdateUser"
    BY Zenon DEF UpdateUser, Find, Save, Write, At
  <1>3. DeleteUser(k) => calls[k].op = "DeleteUser"
    BY Zenon DEF DeleteUser, Find, Write, At
  <1>4. CreateCalendar(k) => calls[k].op = "CreateCalendar"
    BY Zenon DEF CreateCalendar, At
  <1>5. UpdateCalendar(k) => calls[k].op = "UpdateCalendar"
    BY Zenon DEF UpdateCalendar, Find, Save, Write, At
  <1>6. DeleteCalendar(k) => calls[k].op = "DeleteCalendar"
    BY Zenon DEF DeleteCalendar, Find, Write, At
  <1>7. CreateSchedule(k) => calls[k].op = "CreateSchedule"
    BY Zenon DEF CreateSchedule, Find, Write, At
  <1>8. UpdateSchedule(k) => calls[k].op = "UpdateSchedule"
    BY Zenon DEF UpdateSchedule, Find, Save, Write, At
  <1>9. DeleteSchedule(k) => calls[k].op = "DeleteSchedule"
    BY Zenon DEF DeleteSchedule, Find, Write, At
  <1> QED BY <1>1, <1>2, <1>3, <1>4, <1>5, <1>6, <1>7, <1>8, <1>9

(* Calendars and schedules are found by their user before they are changed *)
(* or deleted.                                                             *)
LEMMA DirectoryBound ==
    ASSUME Inv, NEW k \in Client, calls[k] # None, DirectoryNext(k), calls'[k] # None
    PROVE  Bound(calls'[k], origin)
  <1> DEFINE q == calls[k]
  <1>0. DOMAIN q = DOMAIN Blank /\ DOMAIN calls = Client /\ Consistent(db, origin, homes)
    BY Found
  <1>1. PICK r : calls' = [calls EXCEPT ![k] = r] /\ SameCall(q, r)
    <2>1. Moved(k, DirectorySteps)
      BY DirectoryTrail
    <2>2. ~Answer(k)
      BY <1>0 DEF Answer
    <2> QED BY <2>1, <2>2, GotoIs, ProceedIs DEF Moved
  <1>2. calls'[k] = r /\ q.op \in OwnedOps \union ServiceOps
    BY <1>0, <1>1, DirectoryTrail
  <1>3. ASSUME NEW op, NEW found, NEW step, NEW row, Find(k, op, found, step, row) PROVE found
    BY <1>0, <1>3 DEF Find, Answer
  <1>4. ASSUME NEW op, NEW accepted, NEW result, Write(k, op, accepted, result) PROVE FALSE
    BY <1>0, <1>4 DEF Write, Answer
  <1>5. CASE q.op \in {"UpdateCalendar", "DeleteCalendar"}
    <2>1. UpdateCalendar(k) \/ DeleteCalendar(k)
      BY <1>5, OwnedOp DEF DirectoryNext, ServiceOps
    <2>2. CalendarOfUser(db, q.calendar, q.user)
      <3> DEFINE found == CalendarOfUser(db, q.calendar, q.user)
      <3>1. \/ \E op, step, row : Find(k, op, found, step, row)
            \/ \E op, accepted, result : Write(k, op, accepted, result)
        BY <2>1, Zenon DEF UpdateCalendar, DeleteCalendar, Save
      <3> HIDE DEF found
      <3>2. found
        BY <1>3, <1>4, <3>1
      <3> QED BY <3>2 DEF found
    <2>3. q.user \in User /\ q.calendar \in Calendar /\ origin[q.calendar] = q.user
      BY <1>0, <2>2, RowsOwned
    <2> QED BY <1>1, <1>2, <1>5, <2>3 DEF Bound, SameCall, SameOrder, OfEvents
  <1>6. CASE q.op \in {"UpdateSchedule", "DeleteSchedule"}
    <2>1. UpdateSchedule(k) \/ DeleteSchedule(k)
      BY <1>6, OwnedOp DEF DirectoryNext, ServiceOps
    <2>2. ScheduleOfUser(db, q.schedule, q.user)
      <3> DEFINE found == ScheduleOfUser(db, q.schedule, q.user)
      <3>1. \/ \E op, step, row : Find(k, op, found, step, row)
            \/ \E op, accepted, result : Write(k, op, accepted, result)
        BY <2>1, Zenon DEF UpdateSchedule, DeleteSchedule, Save
      <3> HIDE DEF found
      <3>2. found
        BY <1>3, <1>4, <3>1
      <3> QED BY <3>2 DEF found
    <2>3. q.user \in User /\ q.schedule \in Schedule /\ origin[q.schedule] = q.user
      BY <1>0, <2>2, RowsOwned
    <2> QED BY <1>1, <1>2, <1>6, <2>3 DEF Bound, SameCall, SameOrder, OfEvents
  <1>7. q.op \notin OfEvents
    BY <1>2 DEF OwnedOps, ServiceOps, OfEvents
  <1> QED BY <1>1, <1>2, <1>5, <1>6, <1>7 DEF Bound, SameCall, SameOrder

(* A request keeps the event it changes or deletes, and its user, while it *)
(* deals with the copies.                                                  *)
LEMMA EventBound ==
    ASSUME TokenInv, NEW k \in Client, calls[k] # None, Bound(calls[k], origin), EventSyncNext(k),
           calls'[k] # None
    PROVE  Bound(calls'[k], origin)
  <1> DEFINE q == calls[k]
             Tracks(r) == r.op = q.op /\ r.event = q.event /\ r.user = q.user /\ r.row.user = q.user
             Goal == Bound(calls'[k], origin)
             Subject == /\ q.user \in User /\ q.event \in Event /\ origin[q.event] = q.user
                        /\ q.row.user = q.user
  <1>0. /\ Inv /\ Consistent(db, origin, homes) /\ DOMAIN q = DOMAIN Blank /\ DOMAIN calls = Client
        /\ Holds(q, origin, homes, remote) /\ q.op \in Syncing
    BY Found, EventTrail DEF TokenInv
  <1>1. CASE q.op \notin OfEvents
    <2>1. PICK r : calls' = [calls EXCEPT ![k] = r] /\ (r # None => Core(q, r))
      BY EventTrail
    <2>2. calls'[k] = r /\ r.op = q.op
      BY <1>0, <2>1 DEF Core
    <2> QED BY <1>0, <1>1, <2>2 DEF Bound, Syncing, Copied, Creates
  <1>2. ASSUME q.op \in OfEvents PROVE Goal
    <2>1. q.at = "find" \/ Subject
      BY <1>2, PastGuards DEF Bound, Finding
    <2>2. ASSUME Subject, NEW r, calls' = [calls EXCEPT ![k] = r], Tracks(r) PROVE Goal
      <3>1. calls'[k] = r
        BY <1>0, <2>2
      <3> QED BY <1>2, <2>2, <3>1 DEF Bound, OfEvents
    <2>3. ASSUME EventOfUser(db, q.event, q.user), NEW r, calls' = [calls EXCEPT ![k] = r],
                 r.op = q.op, r.event = q.event, r.user = q.user, r.row = db.events[q.event]
          PROVE  Goal
      <3>1. calls'[k] = r
        BY <1>0, <2>3
      <3>2. q.user \in User /\ q.event \in Event /\ origin[q.event] = q.user
            /\ db.events[q.event].user = q.user
        BY <1>0, <2>3, RowsOwned
      <3> QED BY <1>2, <2>3, <3>1, <3>2 DEF Bound, OfEvents
    <2>4. Answer(k) => FALSE
      BY <1>0 DEF Answer
    <2>5. ASSUME Subject, GiveUp(k) PROVE Goal
      <3>1. AfterCopies(q) # None
        BY <1>0, <2>5 DEF GiveUp
      <3>2. SameWork(q, AfterCopies(q))
        BY <1>0, <3>1, AfterCopiesIs
      <3> QED BY <2>2, <2>5, <3>2 DEF GiveUp, SameWork
    <2>6. ASSUME Subject, NEW rows, calls' = [calls EXCEPT ![k] = Remaining(q, rows)] PROVE Goal
      <3> DEFINE r == Remaining(q, rows)
      <3>1. CASE rows = {}
        BY <2>5, <2>6, <3>1 DEF Remaining, GiveUp
      <3>2. CASE rows # {}
        <4>1. Tracks(r)
          BY <1>0, <2>6, <3>2 DEF Remaining, Blank
        <4> HIDE DEF r
        <4>2. calls' = [calls EXCEPT ![k] = r]
          BY <2>6 DEF r
        <4> QED BY <2>2, <2>6, <4>1, <4>2
      <3> QED BY <3>1, <3>2
    <2>7. ASSUME Subject, Goto(k, "write") PROVE Goal
      <3>1. PICK r : calls' = [calls EXCEPT ![k] = r] /\ SameCall(q, r) /\ r.row = q.row
        BY <1>0, <2>7, GotoIs
      <3> QED BY <2>2, <2>7, <3>1 DEF SameCall, SameOrder
    <2>8. ASSUME UpdateEvent(k) PROVE Goal
      <3>1. CASE q.at = "guarded"
        <4>1. Answer(k) \/ Goto(k, "write")
          BY <2>8, <3>1 DEF UpdateEvent, EventUseCase, At
        <4> QED BY <2>1, <2>4, <2>7, <3>1, <4>1
      <3>2. CASE q.at = "find"
        <4>1. \/ Answer(k)
              \/ EventOfUser(db, q.event, q.user) /\ Proceed(k, "write", db.events[q.event])
          BY <2>8, <3>2 DEF UpdateEvent, EventUseCase, At
        <4>2. PICK r : calls' = [calls EXCEPT ![k] = r] /\ SameCall(q, r) /\ r.row = db.events[q.event]
          BY <1>0, <2>4, <4>1, ProceedIs
        <4> QED BY <2>3, <2>4, <4>1, <4>2 DEF SameCall, SameOrder
      <3>3. CASE q.at = "write"
        <4> DEFINE row == Updating(q)
                   r == [q EXCEPT !.at = "copies", !.row = row]
        <4>1. \/ Answer(k)
              \/ Notify(k, r)
          BY <2>8, <3>3 DEF UpdateEvent, EventUseCase, At
        <4>2. calls' = [calls EXCEPT ![k] = r]
          BY <2>4, <4>1 DEF Notify, Answer
        <4>3. UpdateEvent(k) => q.op = "UpdateEvent"
          BY Zenon DEF UpdateEvent, EventUseCase, At
        <4>4. row.user = q.row.user
          <5> DEFINE merged == Merged(q.row, q.patch)
                     service == IF q.service = None THEN merged.service ELSE q.service
                     times == IF q.times = None THEN merged.times ELSE Retimed(merged.times, q.times)
          <5>1. q.row \in EventRow
            BY <1>0, <2>8, <3>3, <4>3 DEF Holds, EventHolds
          <5>2. merged \in EventRow
            BY <1>0, <5>1, MergedTyped DEF Holds, Shape
          <5>4. merged.user = q.row.user
            BY <5>1 DEF Merged, EventRow
          <5>3. row = [merged EXCEPT !.service = service, !.times = times]
            BY DEF Updating
          <5> HIDE DEF merged, service, times
          <5> QED BY <5>2, <5>3, <5>4 DEF EventRow
        <4> HIDE DEF row
        <4>5. Subject
          BY <2>1, <3>3
        <4>6. Tracks(r)
          BY <1>0, <4>4, <4>5 DEF Blank
        <4> HIDE DEF r
        <4> QED BY <2>2, <4>2, <4>5, <4>6
      <3>4. UpdateEvent(k) => q.at \in {"guarded", "find", "write"}
        <4>1. UpdateEvent(k) => \E s \in {"guarded", "find", "write"} : EventUseCase(k, "UpdateEvent", s)
          BY Zenon DEF UpdateEvent
        <4> QED BY <4>1 DEF EventUseCase, At
      <3> QED BY <2>8, <3>1, <3>2, <3>3, <3>4
    <2>9. ASSUME DeleteEvent(k) PROVE Goal
      <3> DEFINE to == IF DisableReminders THEN "write" ELSE "copies"
                 Deleting(row) == calls' = [calls EXCEPT ![k].at = to, ![k].row = row]
      <3>1. ASSUME NEW row, Deleting(row)
            PROVE  \E r : /\ calls' = [calls EXCEPT ![k] = r]
                          /\ r.op = q.op /\ r.event = q.event /\ r.user = q.user /\ r.row = row
        <4> DEFINE r == [q EXCEPT !.at = to, !.row = row]
        <4>1. calls' = [calls EXCEPT ![k] = r]
          BY <1>0, <3>1
        <4>2. r.op = q.op /\ r.event = q.event /\ r.user = q.user /\ r.row = row
          BY <1>0 DEF Blank
        <4> QED BY <4>1, <4>2
      <3>2. \/ EventUseCase(k, "DeleteEvent", "guarded")
               /\ (Answer(k) \/ Deleting(q.row))
            \/ EventUseCase(k, "DeleteEvent", "find")
               /\ (Answer(k) \/ (EventOfUser(db, q.event, q.user)
                                 /\ Deleting(db.events[q.event])))
            \/ Answer(k)
        BY <2>9, Zenon DEF DeleteEvent
      <3> HIDE DEF to, Deleting
      <3>3. ASSUME EventUseCase(k, "DeleteEvent", "guarded"), Deleting(q.row) PROVE Goal
        <4>1. Subject
          BY <2>1, <3>3 DEF EventUseCase, At
        <4> QED BY <2>2, <3>1, <3>3, <4>1
      <3>4. ASSUME EventOfUser(db, q.event, q.user), Deleting(db.events[q.event]) PROVE Goal
        BY <2>3, <3>1, <3>4
      <3> HIDE DEF Goal
      <3> QED BY <2>4, <3>2, <3>3, <3>4
    <2>10. ASSUME NEW ops, NEW rows, FindCopies(k, ops, rows) PROVE Goal
      <3> DEFINE r == [q EXCEPT !.at = "ownerOfCopies", !.todo = rows]
      <3>1. Subject
        BY <2>1, <2>10 DEF FindCopies
      <3>2. GiveUp(k) \/ calls' = [calls EXCEPT ![k] = r]
        BY <1>0, <2>10 DEF FindCopies
      <3>3. Tracks(r)
        BY <1>0, <3>1 DEF Blank
      <3> HIDE DEF r
      <3> QED BY <2>2, <2>5, <3>1, <3>2, <3>3
    <2>11. ASSUME FindCopiesOwner(k) PROVE Goal
      <3> DEFINE u == q.row.user
                 a == db.users[u].account
                 p == FirstProvider(q.todo)
                 r == [q EXCEPT !.at = "token", !.user = u, !.account = a, !.provider = p]
      <3>1. Subject
        BY <2>1, <2>11 DEF FindCopiesOwner
      <3>2. GiveUp(k) \/ calls' = [calls EXCEPT ![k] = r]
        BY <1>0, <2>11 DEF FindCopiesOwner
      <3> HIDE DEF a, p
      <3>3. Tracks(r)
        BY <1>0, <3>1 DEF Blank
      <3> HIDE DEF r
      <3> QED BY <2>2, <2>5, <3>1, <3>2, <3>3
    <2>12. ASSUME NEW ops, NeedsToken(k, ops), GetAccessToken(k, GiveUp(k)) PROVE Goal
      <3> DEFINE giveUp == GiveUp(k)
      <3>1. GetAccessToken(k, giveUp)
        BY <2>12
      <3> HIDE DEF giveUp
      <3>2. Subject /\ q.op \in Copied
        BY <1>2, <2>1, <2>12 DEF NeedsToken, OfEvents, Copied
      <3>3. \/ giveUp
            \/ \E r : /\ calls' = [calls EXCEPT ![k] = r]
                      /\ SameSubject(q, r) /\ r.row = q.row
        BY <3>1, <3>2, TokenTrail
      <3>4. giveUp => Goal
        BY <2>5, <3>2 DEF giveUp
      <3> QED BY <2>2, <3>2, <3>3, <3>4 DEF SameSubject
    <2>13. ASSUME ChangeCopy(k) \/ RemoveCopy(k) PROVE Goal
      <3>1. Subject
        BY <2>1, <2>13 DEF ChangeCopy, RemoveCopy, Copying
      <3>2. \E rows : calls' = [calls EXCEPT ![k] = Remaining(q, rows)]
        BY <2>13, Zenon DEF ChangeCopy, RemoveCopy
      <3> QED BY <2>6, <3>1, <3>2
    <2>14. ASSUME CreateEvent(k) \/ CreateBatchEvents(k) \/ DeleteManyEvents(k) PROVE Goal
      <3>1. \E op \in {"CreateEvent", "CreateBatchEvents", "DeleteManyEvents"} : \E s : At(k, op, s)
        BY <2>14, Zenon DEF CreateEvent, CreateBatchEvents, DeleteManyEvents, EventUseCase
      <3> QED BY <1>2, <3>1 DEF At, OfEvents
    <2>15. ASSUME CreateCopy(k) \/ RecordCopy(k) PROVE Goal
      <3>1. q.op \in Creates
        BY <2>15 DEF CreateCopy, RecordCopy, Copying
      <3> QED BY <1>2, <3>1 DEF Creates, OfEvents
    <2> HIDE DEF Goal
    <2> QED BY <2>8, <2>9, <2>10, <2>11, <2>12, <2>13, <2>14, <2>15 DEF EventSyncNext
  <1> QED BY <1>1, <1>2

(* Whatever a request does next, it stays entitled to what it asks for and *)
(* bound to what it found.                                                 *)
LEMMA StepPolicies ==
    ASSUME PolicyInv, NEW k \in Client, Step(k), calls'[k] # None
    PROVE  Entitled(calls'[k]) /\ Bound(calls'[k], origin)
  <1> DEFINE q == calls[k]
             Six == {"UpdateCalendar", "DeleteCalendar", "UpdateSchedule", "DeleteSchedule"}
                        \union OfEvents
  <1>0. TokenInv /\ Inv /\ DOMAIN calls = Client
    BY DEF PolicyInv, TokenInv, Inv
  <1>1. CASE Begin(k)
    <2>1. PICK a, r : /\ Asked(a) /\ calls' = [calls EXCEPT ![k] = r] /\ SameCall(a, r)
                      /\ r.at = Entry(a) /\ r.at \in Guards \union {"find", "apikey"}
      BY <1>0, <1>1, BeginTrail
    <2>2. calls'[k] = r /\ r.op = a.op /\ r.policy = a.policy /\ r.signed = a.signed
      BY <1>0, <2>1 DEF SameCall, SameOrder
    <2>3. Entitled(r)
      BY <2>1, <2>2 DEF Entitled, Asked, Entry
    <2>4. r.op \in OfEvents => r.at # "apikey"
      BY <2>1, <2>2, RouteIs DEF Asked, Entry, OfEvents, ByKeyOnly, Guards
    <2>5. Bound(r, origin)
      BY <2>1, <2>4 DEF Bound, Finding, Guards
    <2> QED BY <2>2, <2>3, <2>5
  <1>2. ASSUME q # None, Handle(k) PROVE Entitled(calls'[k]) /\ Bound(calls'[k], origin)
    <2>0. Entitled(q) /\ Bound(q, origin)
      BY <1>2 DEF PolicyInv
    <2>1. ASSUME NEW r, calls' = [calls EXCEPT ![k] = r], r # None => Core(q, r),
                 q.at \notin {"account", "user"} \/ q.policy = None
          PROVE  Entitled(calls'[k])
      <3>1. calls'[k] = r /\ Core(q, r)
        BY <1>0, <2>1
      <3> QED BY <2>0, <2>1, <3>1 DEF Core, Entitled
    <2>2. ASSUME NEW steps, Plainly(k, steps)
          PROVE  \E r : calls' = [calls EXCEPT ![k] = r] /\ (r # None => Core(q, r))
      BY <2>2 DEF Plainly, Answer
    <2>3. ASSUME NEW r, calls' = [calls EXCEPT ![k] = r], r # None => Core(q, r), q.op \notin Six
          PROVE  Bound(calls'[k], origin)
      <3>1. calls'[k] = r /\ r.op = q.op
        BY <1>0, <2>3 DEF Core
      <3> QED BY <2>3, <3>1 DEF Bound
    <2> HIDE DEF Six
    <2>4. CASE Guard(k)
      <3>1. PICK r : calls' = [calls EXCEPT ![k] = r] /\ (r # None => Core(q, r))
        BY <1>0, <1>2, <2>2, <2>4, GuardTrail
      <3>2. calls'[k] = r /\ Core(q, r)
        BY <1>0, <3>1
      <3>3. CASE q.at = "account"
        <4>1. GuardAccount(k)
          BY <2>4, <3>3 DEF Guard
        <4>2. \E row : Proceed(k, "user", row)
          BY <1>0, <3>3, <4>1 DEF GuardAccount, Refused, Answer
        <4>3. calls'[k].at = "user"
          BY <1>0, <1>2, <4>2, ProceedIs
        <4> QED BY <1>0, <1>2, <2>0, <2>4, <3>2, <4>3, GuardBound DEF Entitled, Core
      <3>4. CASE q.at = "user"
        <4>1. GuardUser(k)
          BY <2>4, <3>4 DEF Guard
        <4>2. q.policy # None => Authorizes(q.policy, Permissions(q.op))
          BY <1>0, <4>1 DEF GuardUser, Refused, Answer
        <4> QED BY <1>0, <1>2, <2>0, <2>4, <3>2, <4>2, GuardBound DEF Entitled, Core
      <3>5. CASE q.at \notin {"account", "user"}
        BY <1>0, <1>2, <2>1, <2>4, <3>1, <3>5, GuardBound
      <3> QED BY <3>3, <3>4, <3>5
    <2>5. CASE DirectoryNext(k)
      <3>1. q.at \notin {"account", "user"}
        BY <2>5, PastGuards DEF Guards
      <3>2. PICK r : calls' = [calls EXCEPT ![k] = r] /\ (r # None => Core(q, r))
        <4>1. Moved(k, DirectorySteps) /\ ~Answer(k)
          BY <1>0, <1>2, <2>5, DirectoryTrail DEF Answer
        <4>2. \E r : calls' = [calls EXCEPT ![k] = r] /\ SameCall(q, r)
          BY <1>0, <1>2, <4>1, GotoIs, ProceedIs DEF Moved
        <4> QED BY <4>2 DEF SameCall, SameOrder, Core
      <3> QED BY <1>0, <1>2, <2>1, <2>5, <3>1, <3>2, DirectoryBound
    <2>6. CASE LookupsNext(k)
      <3>1. q.at \notin {"account", "user"}
        BY <2>6, PastGuards DEF Guards
      <3>2. q.op \notin Six
        BY <1>0, <1>2, <2>6, LookupTrail DEF LookupOps, Six, OfEvents
      <3>3. \E r : calls' = [calls EXCEPT ![k] = r] /\ (r # None => Core(q, r))
        BY <1>0, <1>2, <2>2, <2>6, LookupTrail
      <3> QED BY <2>1, <2>3, <3>1, <3>2, <3>3
    <2>7. CASE IntegrationsNext(k)
      <3>1. q.at \notin {"account", "user"} /\ q.op \notin Six
        BY <1>0, <1>2, <2>7, IntegrationTrail DEF Guards, IntegrationOps, Six, OfEvents
      <3>2. \E r : calls' = [calls EXCEPT ![k] = r] /\ (r # None => Core(q, r))
        BY <1>0, <1>2, <2>7, IntegrationTrail DEF Answer
      <3> QED BY <2>1, <2>3, <3>1, <3>2
    <2>8. CASE EventQueriesNext(k)
      <3>1. q.at \notin {"account", "user"}
        BY <2>8, PastGuards DEF Guards
      <3>2. q.op \notin Six
        BY <1>0, <1>2, <2>8, QueryTrail DEF QueryOps, Searches, Six, OfEvents, Answer
      <3>3. \E r : calls' = [calls EXCEPT ![k] = r] /\ (r # None => Core(q, r))
        BY <1>0, <1>2, <2>2, <2>8, QueryTrail
      <3> QED BY <2>1, <2>3, <3>1, <3>2, <3>3
    <2>9. CASE StatementFails(k)
      BY <1>0, <2>9 DEF StatementFails, Answer
    <2>10. CASE EventSyncNext(k)
      <3>1. q.at \notin {"account", "user"}
        BY <2>10, PastGuards DEF Guards
      <3>2. \E r : calls' = [calls EXCEPT ![k] = r] /\ (r # None => Core(q, r))
        BY <1>0, <1>2, <2>10, EventTrail
      <3> QED BY <1>0, <1>2, <2>0, <2>1, <2>10, <3>1, <3>2, EventBound
    <2>11. CASE AccountsNext(k)
      <3>1. q.op \in AccountOps
        BY <1>0, <1>2, <2>11, AccountTrail
      <3>2. q.op \notin Six /\ q.op \notin TokenRoutes
        BY <3>1 DEF AccountOps, TokenRoutes, Six, OfEvents
      <3>3. q.policy = None
        BY <2>0, <3>2 DEF Entitled
      <3>4. \E r : calls' = [calls EXCEPT ![k] = r] /\ (r # None => Core(q, r))
        BY <1>0, <1>2, <2>2, <2>11, AccountTrail
      <3> QED BY <2>1, <2>3, <3>2, <3>3, <3>4
    <2> QED BY <1>2, <2>4, <2>5, <2>6, <2>7, <2>8, <2>9, <2>10, <2>11 DEF Handle
  <1> QED BY <1>1, <1>2 DEF Step

(* Every request is entitled and bound, whatever the other requests do.    *)
LEMMA PoliciesKept == Spec => []PolicyInv
  <1>1. Init => PolicyInv
    <2>1. Init => \A k \in Client : calls[k] = None
      BY DEF Init
    <2>2. Init => TokenInv
      BY InitInv, DatabasesAssumption DEF Init, TokenInv, GrantsLive
    <2> QED BY <2>1, <2>2 DEF PolicyInv
  <1>2. PolicyInv /\ TokenInv' /\ [Next]_serverVars => PolicyInv'
    <2>1. ASSUME PolicyInv, TokenInv', NEW k \in Client, Step(k) PROVE PolicyInv'
      <3>1. Inv /\ Fine(k)
        BY <2>1, StepFine DEF PolicyInv, TokenInv
      <3>2. ASSUME NEW j \in Client, calls'[j] # None
            PROVE  Entitled(calls'[j]) /\ Bound(calls'[j], origin)
        BY <2>1, <3>1, <3>2, StepPolicies DEF Fine, CallFine, PolicyInv
      <3>3. \A x \in Owned : origin[x] # None => origin'[x] = origin[x]
        BY <3>1 DEF Fine, GhostsFine
      <3>4. ASSUME NEW j \in Client, calls'[j] # None PROVE Bound(calls'[j], origin')
        BY <3>2, <3>3, <3>4, BoundOn
      <3> QED BY <2>1, <3>2, <3>4 DEF PolicyInv
    <2>2. ASSUME PolicyInv, TokenInv', Tick \/ UNCHANGED serverVars PROVE PolicyInv'
      <3>1. UNCHANGED <<calls, origin>>
        BY <2>2 DEF Tick, ghostVars, serverVars, requestVars
      <3> QED BY <2>2, <3>1 DEF PolicyInv
    <2> QED BY <2>1, <2>2 DEF Next
  <1> QED BY <1>1, <1>2, TokensTimely, PTL DEF Spec

(* A policy that authorizes a permission allows it, and rejects neither it *)
(* nor everything (Policy::authorize).                                     *)
LEMMA MayDoIt ==
    ASSUME NEW policy, NEW p, Authorizes(policy, {p})
    PROVE  MayDo(policy, p)
  BY DEF Authorizes, MayDo

(* What a use case does to a row is what its policy was asked about.       *)
LEMMA LawfulIs ==
    ASSUME NEW q, Authorizes(q.policy, Permissions(q.op)), NEW a, NEW b
    PROVE  /\ a = None /\ b.user = q.user =>
                /\ q.op = "CreateCalendar" => Lawful(q, <<a, b, "Calendar">>)
                /\ q.op = "CreateSchedule" => Lawful(q, <<a, b, "Schedule">>)
                /\ q.op = "CreateEvent" => Lawful(q, <<a, b, "CalendarEvent">>)
           /\ a # None /\ b # None /\ a.user = q.user =>
                /\ q.op = "UpdateCalendar" => Lawful(q, <<a, b, "Calendar">>)
                /\ q.op = "UpdateSchedule" => Lawful(q, <<a, b, "Schedule">>)
                /\ q.op = "UpdateEvent" => Lawful(q, <<a, b, "CalendarEvent">>)
           /\ a # None /\ b = None /\ a.user = q.user =>
                /\ q.op = "DeleteCalendar" => Lawful(q, <<a, b, "Calendar">>)
                /\ q.op = "DeleteSchedule" => Lawful(q, <<a, b, "Schedule">>)
                /\ q.op = "DeleteEvent" => Lawful(q, <<a, b, "CalendarEvent">>)
  <1>1. CASE a = None /\ b.user = q.user
    <2>1. Verb(a, b) = "Create"
      BY <1>1 DEF Verb
    <2>2. /\ Permissions("CreateCalendar") = {"CreateCalendar"}
          /\ Permissions("CreateSchedule") = {"CreateSchedule"}
          /\ Permissions("CreateEvent") = {"CreateCalendarEvent"}
      BY DEF Permissions
    <2>3. /\ q.op = "CreateCalendar" => MayDo(q.policy, "CreateCalendar")
          /\ q.op = "CreateSchedule" => MayDo(q.policy, "CreateSchedule")
          /\ q.op = "CreateEvent" => MayDo(q.policy, "CreateCalendarEvent")
      BY <2>2, MayDoIt
    <2> QED BY <1>1, <2>1, <2>3 DEF Lawful
  <1>2. CASE a # None /\ b # None /\ a.user = q.user
    <2>1. Verb(a, b) = "Update"
      BY <1>2 DEF Verb
    <2>2. /\ Permissions("UpdateCalendar") = {"UpdateCalendar"}
          /\ Permissions("UpdateSchedule") = {"UpdateSchedule"}
          /\ Permissions("UpdateEvent") = {"UpdateCalendarEvent"}
      BY DEF Permissions
    <2>3. /\ q.op = "UpdateCalendar" => MayDo(q.policy, "UpdateCalendar")
          /\ q.op = "UpdateSchedule" => MayDo(q.policy, "UpdateSchedule")
          /\ q.op = "UpdateEvent" => MayDo(q.policy, "UpdateCalendarEvent")
      BY <2>2, MayDoIt
    <2> QED BY <1>2, <2>1, <2>3 DEF Lawful
  <1>3. CASE a # None /\ b = None /\ a.user = q.user
    <2>1. Verb(a, b) = "Delete"
      BY <1>3 DEF Verb
    <2>2. /\ Permissions("DeleteCalendar") = {"DeleteCalendar"}
          /\ Permissions("DeleteSchedule") = {"DeleteSchedule"}
          /\ Permissions("DeleteEvent") = {"DeleteCalendarEvent"}
      BY DEF Permissions
    <2>3. /\ q.op = "DeleteCalendar" => MayDo(q.policy, "DeleteCalendar")
          /\ q.op = "DeleteSchedule" => MayDo(q.policy, "DeleteSchedule")
          /\ q.op = "DeleteEvent" => MayDo(q.policy, "DeleteCalendarEvent")
      BY <2>2, MayDoIt
    <2> QED BY <1>3, <2>1, <2>3 DEF Lawful
  <1> QED BY <1>1, <1>2, <1>3

(* What happened to the calendars, schedules and events of a request       *)
Lawfully(q) == \A d \in Deeds : d[1] # d[2] => Lawful(q, d)
CalendarsLawful(q) ==
    \A c \in Calendar : db.calendars[c] # db'.calendars[c] =>
        Lawful(q, <<db.calendars[c], db'.calendars[c], "Calendar">>)
SchedulesLawful(q) ==
    \A s \in Schedule : db.schedules[s] # db'.schedules[s] =>
        Lawful(q, <<db.schedules[s], db'.schedules[s], "Schedule">>)
EventsLawful(q) ==
    \A e \in Event :
        /\ Stored(db.events, e) => Stored(db'.calendars, db.events[e].calendar)
        /\ db.events[e] # db'.events[e]
        => Lawful(q, <<db.events[e], db'.events[e], "CalendarEvent">>)

(* Deeds are on calendars, schedules and events.                           *)
LEMMA LawfullyIs ==
    ASSUME NEW q, CalendarsLawful(q), SchedulesLawful(q), EventsLawful(q)
    PROVE  Lawfully(q)
  BY DEF Lawfully, Deeds, CalendarsLawful, SchedulesLawful, EventsLawful

(* A calendar and a schedule of a request's user are created, changed and  *)
(* deleted by the use case that its policy was asked about.                *)
LEMMA OwnedLawful ==
    ASSUME PolicyInv, NEW k \in Client, calls[k] # None, calls[k].policy # None, DirectoryNext(k)
    PROVE  Lawfully(calls[k])
  <1> DEFINE q == calls[k]
             Same == /\ db'.calendars = db.calendars /\ db'.schedules = db.schedules
                     /\ db'.events = db.events
  <1>0. /\ Inv /\ Consistent(db, origin, homes) /\ db \in Database /\ DOMAIN db = TableNames
        /\ Holds(q, origin, homes, remote) /\ Shape(q)
        /\ Entitled(q) /\ Bound(q, origin) /\ None \notin User
    BY Found, NoneIsNoId DEF PolicyInv, TokenInv, Database, TableNames
  <1>1. /\ q.op \in TokenRoutes /\ q.at \notin Guards
        /\ Authorizes(q.policy, Permissions(q.op))
    BY <1>0, PastGuards DEF Entitled, Guards
  <1>2. Same => Lawfully(q)
    BY LawfullyIs DEF CalendarsLawful, SchedulesLawful, EventsLawful
  <1>3. /\ \A c \in Calendar : db.calendars[c] # None => origin[c] = db.calendars[c].user
        /\ \A c \in Calendar : origin[c] = None => db.calendars[c] = None
        /\ \A s \in Schedule : db.schedules[s] # None => origin[s] = db.schedules[s].user
        /\ \A s \in Schedule : origin[s] = None => db.schedules[s] = None
    <2>1. ASSUME NEW c \in Calendar, db.calendars[c] # None
          PROVE  origin[c] = db.calendars[c].user /\ db.calendars[c].user \in User
      BY <1>0, <2>1 DEF Consistent, CalendarsOwned, Database, IdsOf, Stored
    <2>2. ASSUME NEW s \in Schedule, db.schedules[s] # None
          PROVE  origin[s] = db.schedules[s].user /\ db.schedules[s].user \in User
      BY <1>0, <2>2 DEF Consistent, SchedulesOwned, Database, IdsOf, Stored
    <2> QED BY <1>0, <2>1, <2>2
  <1>4. ASSUME NEW c \in Calendar, origin[c] = None, NEW row, row.user = q.user,
               db' = CalendarInserted(db, c, row), q.op = "CreateCalendar"
        PROVE  Lawfully(q)
    <2>1. /\ db'.calendars = [db.calendars EXCEPT ![c] = row] /\ db'.schedules = db.schedules
          /\ db'.events = db.events /\ DOMAIN db.calendars = Calendar
      BY <1>0, <1>4 DEF CalendarInserted, Put, TableNames, Database
    <2>2. Lawful(q, <<db.calendars[c], row, "Calendar">>)
      BY <1>1, <1>3, <1>4, LawfulIs
    <2>3. CalendarsLawful(q)
      BY <2>1, <2>2 DEF CalendarsLawful
    <2> QED BY <2>1, <2>3, LawfullyIs DEF SchedulesLawful, EventsLawful
  <1>5. ASSUME NEW s \in Schedule, origin[s] = None, NEW row, row.user = q.user,
               db' = ScheduleInserted(db, s, row), q.op = "CreateSchedule"
        PROVE  Lawfully(q)
    <2>1. /\ db'.schedules = [db.schedules EXCEPT ![s] = row] /\ db'.calendars = db.calendars
          /\ db'.events = db.events /\ DOMAIN db.schedules = Schedule
      BY <1>0, <1>5 DEF ScheduleInserted, Put, TableNames, Database
    <2>2. Lawful(q, <<db.schedules[s], row, "Schedule">>)
      BY <1>1, <1>3, <1>5, LawfulIs
    <2>3. SchedulesLawful(q)
      BY <2>1, <2>2 DEF SchedulesLawful
    <2> QED BY <2>1, <2>3, LawfullyIs DEF CalendarsLawful, EventsLawful
  <1>6. ASSUME q.op = "UpdateCalendar", q.at = "write",
               db' = CalendarSaved(db, q.calendar, Merged(q.row, q.patch))
        PROVE  Lawfully(q)
    <2> DEFINE c == q.calendar
               a == db.calendars[c]
               data == Merged(q.row, q.patch).data
               b == [a EXCEPT !.data = data]
    <2>1. c \in Calendar /\ origin[c] = q.user
      BY <1>0, <1>6 DEF Bound
    <2>2. data \in Data
      BY <1>0, <1>6, MergedTyped DEF Holds, DirectoryHolds, Shape
    <2>3. CASE ~Stored(db.calendars, c)
      BY <1>2, <1>6, <2>3 DEF CalendarSaved
    <2>4. CASE Stored(db.calendars, c)
      <3>1. /\ db'.calendars = [db.calendars EXCEPT ![c] = b] /\ db'.schedules = db.schedules
            /\ db'.events = db.events /\ DOMAIN db.calendars = Calendar
        BY <1>0, <1>6, <2>4 DEF CalendarSaved, Put, TableNames, Database
      <3>2. a # None /\ a.user = q.user /\ a \in CalendarRow
        BY <1>0, <1>3, <2>1, <2>4 DEF Stored, Database
      <3> HIDE DEF a, data
      <3>3. b # None
        <4>1. b \in CalendarRow
          BY <2>2, <3>2 DEF CalendarRow
        <4> QED BY <4>1, NoneIsNoRow
      <3> HIDE DEF b
      <3>4. Lawful(q, <<a, b, "Calendar">>)
        BY <1>1, <1>6, <3>2, <3>3, LawfulIs
      <3>5. CalendarsLawful(q)
        BY <3>1, <3>4 DEF CalendarsLawful, a
      <3> QED BY <3>1, <3>5, LawfullyIs DEF SchedulesLawful, EventsLawful
    <2> QED BY <2>3, <2>4
  <1>7. ASSUME q.op = "UpdateSchedule", q.at = "write",
               db' = ScheduleSaved(db, q.schedule, Merged(q.row, q.patch))
        PROVE  Lawfully(q)
    <2> DEFINE c == q.schedule
               a == db.schedules[c]
               data == Merged(q.row, q.patch).data
               b == [a EXCEPT !.data = data]
    <2>1. c \in Schedule /\ origin[c] = q.user
      BY <1>0, <1>7 DEF Bound
    <2>2. data \in Data
      BY <1>0, <1>7, MergedTyped DEF Holds, DirectoryHolds, Shape
    <2>3. CASE ~Stored(db.schedules, c)
      BY <1>2, <1>7, <2>3 DEF ScheduleSaved
    <2>4. CASE Stored(db.schedules, c)
      <3>1. /\ db'.schedules = [db.schedules EXCEPT ![c] = b] /\ db'.calendars = db.calendars
            /\ db'.events = db.events /\ DOMAIN db.schedules = Schedule
        BY <1>0, <1>7, <2>4 DEF ScheduleSaved, Put, TableNames, Database
      <3>2. a # None /\ a.user = q.user /\ a \in ScheduleRow
        BY <1>0, <1>3, <2>1, <2>4 DEF Stored, Database
      <3> HIDE DEF a, data
      <3>3. b # None
        <4>1. b \in ScheduleRow
          BY <2>2, <3>2 DEF ScheduleRow
        <4> QED BY <4>1, NoneIsNoRow
      <3> HIDE DEF b
      <3>4. Lawful(q, <<a, b, "Schedule">>)
        BY <1>1, <1>7, <3>2, <3>3, LawfulIs
      <3>5. SchedulesLawful(q)
        BY <3>1, <3>4 DEF SchedulesLawful, a
      <3> QED BY <3>1, <3>5, LawfullyIs DEF CalendarsLawful, EventsLawful
    <2> QED BY <2>3, <2>4
  <1>8. ASSUME q.op = "DeleteCalendar", q.at = "write", db' = CalendarDeleted(db, q.calendar)
        PROVE  Lawfully(q)
    <2> DEFINE cs == {q.calendar} \intersect IdsOf(db.calendars)
    <2>1. q.calendar \in Calendar /\ origin[q.calendar] = q.user
      BY <1>0, <1>8 DEF Bound
    <2>2. /\ db'.calendars = Without(db.calendars, cs) /\ db'.schedules = db.schedules
          /\ db'.events = Without(db.events, EventsOf(db, cs))
      BY <1>0, <1>8, CalendarsGo DEF CalendarDeleted
    <2>3. CalendarsLawful(q)
      <3>1. ASSUME NEW c \in Calendar, db.calendars[c] # db'.calendars[c]
            PROVE  db.calendars[c] # None /\ db'.calendars[c] = None /\ db.calendars[c].user = q.user
        <4>1. DOMAIN db.calendars = Calendar
          BY <1>0 DEF Database
        <4>2. c \in cs /\ db'.calendars[c] = None
          BY <2>2, <3>1, <4>1 DEF Without
        <4> QED BY <1>3, <2>1, <3>1, <4>2
      <3> QED BY <1>1, <1>8, <3>1, LawfulIs DEF CalendarsLawful
    <2>4. EventsLawful(q)
      <3>1. ASSUME NEW e \in Event, db.events[e] # db'.events[e]
            PROVE  Stored(db.events, e) /\ ~Stored(db'.calendars, db.events[e].calendar)
        <4>1. DOMAIN db.events = Event /\ DOMAIN db.calendars = Calendar
          BY <1>0 DEF Database
        <4>2. e \in EventsOf(db, cs)
          BY <2>2, <3>1, <4>1 DEF Without
        <4> QED BY <2>2, <4>1, <4>2 DEF EventsOf, IdsOf, Stored, Without
      <3> QED BY <3>1 DEF EventsLawful
    <2> QED BY <2>2, <2>3, <2>4, LawfullyIs DEF SchedulesLawful
  <1>9. ASSUME q.op = "DeleteSchedule", q.at = "write", db' = ScheduleDeleted(db, q.schedule)
        PROVE  Lawfully(q)
    <2> DEFINE ss == {q.schedule} \intersect IdsOf(db.schedules)
    <2>1. q.schedule \in Schedule /\ origin[q.schedule] = q.user
      BY <1>0, <1>9 DEF Bound
    <2>2. /\ db'.schedules = Without(db.schedules, ss) /\ db'.calendars = db.calendars
          /\ db'.events = db.events
      BY <1>0, <1>9, SchedulesGo DEF ScheduleDeleted
    <2>3. SchedulesLawful(q)
      <3>1. ASSUME NEW s \in Schedule, db.schedules[s] # db'.schedules[s]
            PROVE  db.schedules[s] # None /\ db'.schedules[s] = None /\ db.schedules[s].user = q.user
        <4>1. DOMAIN db.schedules = Schedule
          BY <1>0 DEF Database
        <4>2. s \in ss /\ db'.schedules[s] = None
          BY <2>2, <3>1, <4>1 DEF Without
        <4> QED BY <1>3, <2>1, <3>1, <4>2
      <3> QED BY <1>1, <1>9, <3>1, LawfulIs DEF SchedulesLawful
    <2> QED BY <2>2, <2>3, LawfullyIs DEF CalendarsLawful, EventsLawful
  <1>10. UNCHANGED db => Lawfully(q)
    BY <1>2
  <1> HIDE DEF Same
  <1>11. CreateCalendar(k) => Lawfully(q)
    <2> DEFINE row == [user |-> q.user, account |-> q.account, key |-> q.key,
                       data |-> [f \in Field |-> q.patch[f]]]
    <2>1. CreateCalendar(k) =>
            UNCHANGED db \/ \E c \in {x \in Calendar : origin[x] = None} : db' = CalendarInserted(db, c, row)
      BY Zenon DEF CreateCalendar
    <2>2. row.user = q.user
      OBVIOUS
    <2> HIDE DEF row
    <2> QED BY <1>4, <1>10, <2>1, <2>2, OwnedOp
  <1>12. CreateSchedule(k) => Lawfully(q)
    <2>1. CreateSchedule(k) =>
            \/ UNCHANGED db
            \/ At(k, "CreateSchedule", "write")
               /\ \E s \in {x \in Schedule : origin[x] = None} : db' = ScheduleInserted(db, s, q.row)
      BY Zenon DEF CreateSchedule, Find, Write
    <2>2. At(k, "CreateSchedule", "write") => q.row.user = q.user
      BY <1>0 DEF At, Holds, DirectoryHolds
    <2> QED BY <1>5, <1>10, <2>1, <2>2, OwnedOp
  <1>13. UpdateCalendar(k) => Lawfully(q)
    <2>1. UpdateCalendar(k) =>
            \/ UNCHANGED db
            \/ /\ At(k, "UpdateCalendar", "write")
               /\ db' = IF TRUE THEN CalendarSaved(db, q.calendar, Merged(q.row, q.patch)) ELSE db
      BY Zenon DEF UpdateCalendar, Find, Save, Write
    <2> QED BY <1>6, <1>10, <2>1 DEF At
  <1>14. UpdateSchedule(k) => Lawfully(q)
    <2>1. UpdateSchedule(k) =>
            \/ UNCHANGED db
            \/ /\ At(k, "UpdateSchedule", "write")
               /\ db' = IF TRUE THEN ScheduleSaved(db, q.schedule, Merged(q.row, q.patch)) ELSE db
      BY Zenon DEF UpdateSchedule, Find, Save, Write
    <2> QED BY <1>7, <1>10, <2>1 DEF At
  <1>15. DeleteCalendar(k) => Lawfully(q)
    <2>1. DeleteCalendar(k) =>
            \/ UNCHANGED db
            \/ At(k, "DeleteCalendar", "write") /\ db' = CalendarDeleted(db, q.calendar)
      BY Zenon DEF DeleteCalendar, Find, Write
    <2> QED BY <1>8, <1>10, <2>1 DEF At
  <1>16. DeleteSchedule(k) => Lawfully(q)
    <2>1. DeleteSchedule(k) =>
            \/ UNCHANGED db
            \/ /\ At(k, "DeleteSchedule", "write")
               /\ db' = IF TRUE THEN ScheduleDeleted(db, q.schedule) ELSE db
      BY Zenon DEF DeleteSchedule, Find, Write
    <2> QED BY <1>9, <1>10, <2>1 DEF At
  <1>17. q.op \notin {"CreateUser", "UpdateUser", "DeleteUser"} \union ServiceOps
    BY <1>1 DEF TokenRoutes, ServiceOps
  <1> QED BY <1>11, <1>12, <1>13, <1>14, <1>15, <1>16, <1>17, OwnedOp DEF DirectoryNext

(* An event of a request's user is created, changed and deleted by the use *)
(* case that its policy was asked about; its copies are none of these.     *)
LEMMA EventsLawfulToo ==
    ASSUME PolicyInv, NEW k \in Client, calls[k] # None, calls[k].policy # None, EventSyncNext(k)
    PROVE  Lawfully(calls[k])
  <1> DEFINE q == calls[k]
             Same == /\ db'.calendars = db.calendars /\ db'.schedules = db.schedules
                     /\ db'.events = db.events
  <1>0. /\ TokenInv /\ Inv /\ Consistent(db, origin, homes) /\ db \in Database /\ DOMAIN db = TableNames
        /\ Holds(q, origin, homes, remote) /\ Shape(q)
        /\ Entitled(q) /\ Bound(q, origin) /\ None \notin User
    BY Found, NoneIsNoId DEF PolicyInv, TokenInv, Database, TableNames
  <1>1. /\ q.op \in TokenRoutes /\ q.at \notin Guards
        /\ Authorizes(q.policy, Permissions(q.op))
    BY <1>0, PastGuards DEF Entitled, Guards
  <1>2. q.op \in {"CreateEvent", "UpdateEvent", "DeleteEvent"}
    BY <1>1 DEF EventSyncNext, Creates, TokenRoutes
  <1>3. Same => Lawfully(q)
    BY LawfullyIs DEF CalendarsLawful, SchedulesLawful, EventsLawful
  <1>4. /\ \A e \in Event : db.events[e] # None => origin[e] = db.events[e].user
        /\ \A e \in Event : origin[e] = None => db.events[e] = None
    <2>1. ASSUME NEW e \in Event, db.events[e] # None
          PROVE  origin[e] = db.events[e].user /\ db.events[e].user \in User
      BY <1>0, <2>1 DEF Consistent, EventsOwned, Database, EventRow, IdsOf, Stored
    <2> QED BY <1>0, <2>1
  <1>5. ASSUME NEW e \in Event, NEW a, NEW b, db.events[e] = a, Lawful(q, <<a, b, "CalendarEvent">>),
               db'.events = [db.events EXCEPT ![e] = b],
               db'.calendars = db.calendars, db'.schedules = db.schedules
        PROVE  Lawfully(q)
    <2>1. DOMAIN db.events = Event
      BY <1>0 DEF Database
    <2>2. EventsLawful(q)
      BY <1>5, <2>1 DEF EventsLawful
    <2> QED BY <1>5, <2>2, LawfullyIs DEF CalendarsLawful, SchedulesLawful
  <1>6. ASSUME NEW e \in Event, origin[e] = None, NEW row, row.user = q.user,
               db' = EventInserted(db, e, row), q.op = "CreateEvent"
        PROVE  Lawfully(q)
    <2>1. /\ db'.events = [db.events EXCEPT ![e] = row] /\ db'.schedules = db.schedules
          /\ db'.calendars = db.calendars
      BY <1>0, <1>6 DEF EventInserted, Put, TableNames
    <2>2. Lawful(q, <<db.events[e], row, "CalendarEvent">>)
      BY <1>1, <1>4, <1>6, LawfulIs
    <2> QED BY <1>5, <1>6, <2>1, <2>2
  <1>7. ASSUME q.op = "UpdateEvent", q.at = "write", db' = EventSaved(db, q.event, Updating(q))
        PROVE  Lawfully(q)
    <2> DEFINE e == q.event
               a == db.events[e]
               new == Updating(q)
               b == [a EXCEPT !.data = new.data, !.times = new.times, !.service = new.service]
    <2>1. e \in Event /\ origin[e] = q.user
      BY <1>0, <1>7 DEF Bound, OfEvents, Finding, Guards
    <2>2. new \in EventRow
      <3>1. q.row \in EventRow /\ Derived(q.row.times)
        BY <1>0, <1>7 DEF Holds, EventHolds
      <3> QED BY <1>0, <1>7, <3>1, UpdatingIs
    <2> HIDE DEF new
    <2>3. CASE ~Stored(db.events, e)
      BY <1>3, <1>7, <2>3 DEF EventSaved, new
    <2>4. CASE Stored(db.events, e)
      <3>1. /\ db'.events = [db.events EXCEPT ![e] = b] /\ db'.schedules = db.schedules
            /\ db'.calendars = db.calendars
        BY <1>0, <1>7, <2>4 DEF EventSaved, Put, TableNames, new
      <3>2. a # None /\ a.user = q.user /\ a \in EventRow
        BY <1>0, <1>4, <2>1, <2>4 DEF Stored, Database
      <3> HIDE DEF a
      <3>3. b # None
        <4>1. b \in EventRow
          BY <2>2, <3>2 DEF EventRow
        <4> QED BY <4>1, NoneIsNoRow
      <3> HIDE DEF b
      <3>4. Lawful(q, <<a, b, "CalendarEvent">>)
        BY <1>1, <1>7, <3>2, <3>3, LawfulIs
      <3> QED BY <1>5, <2>1, <3>1, <3>4 DEF a
    <2> QED BY <2>3, <2>4
  <1>8. ASSUME q.op = "DeleteEvent", q.at = "write", db' = EventsDeleted(db, {q.event})
        PROVE  Lawfully(q)
    <2> DEFINE e == q.event
               es == {e} \intersect IdsOf(db.events)
    <2>1. e \in Event /\ origin[e] = q.user
      BY <1>0, <1>8 DEF Bound, OfEvents, Finding, Guards
    <2>2. /\ db'.events = Without(db.events, es) /\ db'.schedules = db.schedules
          /\ db'.calendars = db.calendars
      BY <1>0, <1>8, DropsGo DEF EventsDeleted
    <2>3. DOMAIN db.events = Event
      BY <1>0 DEF Database
    <2>4. CASE db.events[e] = None
      <3>1. db'.events = db.events
        <4>1. es = {}
          BY <2>4 DEF IdsOf
        <4>2. db.events \in [Event -> EventRow \union {None}]
          BY <1>0 DEF Database
        <4> HIDE DEF es
        <4> QED BY <2>2, <4>1, <4>2 DEF Without
      <3> QED BY <1>3, <2>2, <3>1
    <2>5. CASE db.events[e] # None
      <3>1. db'.events = [db.events EXCEPT ![e] = None]
        BY <2>1, <2>2, <2>3, <2>5 DEF Without, IdsOf
      <3>2. Lawful(q, <<db.events[e], None, "CalendarEvent">>)
        BY <1>1, <1>4, <1>8, <2>1, <2>5, LawfulIs
      <3> QED BY <1>5, <2>1, <2>2, <3>1, <3>2
    <2> QED BY <2>4, <2>5
  <1>9. UNCHANGED db \/ Aside(db, db') => Lawfully(q)
    BY <1>3 DEF Aside
  <1> HIDE DEF Same
  <1>10. CreateEvent(k) => Lawfully(q)
    <2> DEFINE row == NewEvent(q, q.calendar)
    <2>1. CreateEvent(k) =>
            \/ UNCHANGED db
            \/ /\ EventUseCase(k, "CreateEvent", "write")
               /\ \E e \in FreshEvents : db' = EventInserted(db, e, row)
      BY Zenon DEF CreateEvent
    <2>2. row.user = q.user
      BY DEF NewEvent
    <2> HIDE DEF row
    <2> QED BY <1>6, <1>9, <2>1, <2>2 DEF EventUseCase, At, FreshEvents
  <1>11. UpdateEvent(k) => Lawfully(q)
    <2>1. UpdateEvent(k) =>
            \/ UNCHANGED db
            \/ EventUseCase(k, "UpdateEvent", "write") /\ db' = EventSaved(db, q.event, Updating(q))
      BY Zenon DEF UpdateEvent
    <2> QED BY <1>7, <1>9, <2>1 DEF EventUseCase, At
  <1>12. DeleteEvent(k) => Lawfully(q)
    <2>1. DeleteEvent(k) =>
            \/ UNCHANGED db
            \/ EventUseCase(k, "DeleteEvent", "write") /\ db' = EventsDeleted(db, {q.event})
      BY Zenon DEF DeleteEvent
    <2> QED BY <1>8, <1>9, <2>1 DEF EventUseCase, At
  <1>13. ~CreateBatchEvents(k) /\ ~DeleteManyEvents(k)
    <2>1. CreateBatchEvents(k) \/ DeleteManyEvents(k) =>
            \E op \in {"CreateBatchEvents", "DeleteManyEvents"} : \E s : EventUseCase(k, op, s)
      BY Zenon DEF CreateBatchEvents, DeleteManyEvents
    <2> QED BY <1>2, <2>1 DEF EventUseCase, At
  <1>14. (\E ops, rows : FindCopies(k, ops, rows)) \/ FindCopiesOwner(k) \/ CreateCopy(k)
         \/ ChangeCopy(k) \/ RemoveCopy(k) => UNCHANGED db
    BY Zenon DEF FindCopies, FindCopiesOwner, CreateCopy, ChangeCopy, RemoveCopy
  <1>15. RecordCopy(k) => Lawfully(q)
    <2>1. RecordCopy(k) => UNCHANGED db \/ \E row : db' = CopyInserted(db, row)
      BY Zenon DEF RecordCopy
    <2>2. \A row : Aside(db, CopyInserted(db, row))
      BY <1>0 DEF Aside, CopyInserted, TableNames
    <2> QED BY <1>9, <2>1, <2>2
  <1>16. ASSUME GetAccessToken(k, GiveUp(k)) PROVE Lawfully(q)
    <2> DEFINE giveUp == GiveUp(k)
    <2>1. GetAccessToken(k, giveUp)
      BY <1>16
    <2> HIDE DEF giveUp
    <2>2. q.op \in IntegrationOps \union Copied
      BY <1>2 DEF Copied, Creates
    <2>3. Aside(db, db')
      BY <1>0, <2>1, <2>2, TokenTrail
    <2> QED BY <1>9, <2>3
  <1> HIDE DEF q
  <1>17. UNCHANGED db => Lawfully(q)
    BY <1>9
  <1>18. EventSyncNext(k) =>
            \/ CreateEvent(k) \/ UpdateEvent(k) \/ DeleteEvent(k) \/ CreateBatchEvents(k)
            \/ DeleteManyEvents(k) \/ (\E ops, rows : FindCopies(k, ops, rows)) \/ FindCopiesOwner(k)
            \/ CreateCopy(k) \/ ChangeCopy(k) \/ RemoveCopy(k) \/ RecordCopy(k)
            \/ GetAccessToken(k, GiveUp(k))
    BY Zenon DEF EventSyncNext
  <1>19. Lawfully(q)
    BY <1>10, <1>11, <1>12, <1>13, <1>14, <1>15, <1>16, <1>17, <1>18
  <1> QED BY <1>19 DEF q

(* Every statement of a request with a policy is one that it allows.       *)
LEMMA StepLawful ==
    ASSUME PolicyInv, NEW k \in Client, calls[k] # None, calls[k].policy # None, Handle(k)
    PROVE  Lawfully(calls[k])
  <1> DEFINE q == calls[k]
  <1>0. TokenInv /\ Inv /\ Entitled(q)
    BY DEF PolicyInv, TokenInv
  <1>1. Aside(db, db') \/ UNCHANGED db => Lawfully(q)
    BY LawfullyIs DEF CalendarsLawful, SchedulesLawful, EventsLawful, Aside
  <1>2. Guard(k) \/ LookupsNext(k) \/ EventQueriesNext(k) => UNCHANGED db
    BY <1>0, GuardTrail, LookupTrail, QueryTrail
  <1>3. StatementFails(k) => UNCHANGED db
    BY DEF StatementFails
  <1>4. IntegrationsNext(k) => Aside(db, db')
    BY <1>0, IntegrationTrail
  <1>5. ~AccountsNext(k)
    <2>1. q.op \in TokenRoutes
      BY <1>0 DEF Entitled
    <2>2. AccountOps \intersect TokenRoutes = {}
      BY DEF AccountOps, TokenRoutes
    <2> QED BY <1>0, <2>1, <2>2, AccountTrail
  <1>6. DirectoryNext(k) => Lawfully(q)
    BY OwnedLawful
  <1>7. EventSyncNext(k) => Lawfully(q)
    BY EventsLawfulToo
  <1> HIDE DEF q
  <1>8. Handle(k) => \/ Guard(k) \/ LookupsNext(k) \/ EventQueriesNext(k) \/ StatementFails(k)
                     \/ IntegrationsNext(k) \/ AccountsNext(k) \/ DirectoryNext(k) \/ EventSyncNext(k)
    BY Zenon DEF Handle
  <1>9. Lawfully(q)
    BY <1>1, <1>2, <1>3, <1>4, <1>5, <1>6, <1>7, <1>8
  <1> QED BY <1>9 DEF q

(* No policy of a token is overstepped, whatever the requests of others do *)
(* between its guards and its statements: calendars, schedules and events  *)
(* are only created, changed and deleted by a request of their user whose  *)
(* policy allows it (Policy::authorize).                                   *)
THEOREM PoliciesHold == Spec => PolicyRespected
  <1>1. ASSUME PolicyInv, NEW j \in Client, Step(j), NEW k \in Client,
               calls[k] # None, calls[k].policy # None, calls'[k] # calls[k]
        PROVE  \A d \in Deeds : d[1] # d[2] => Lawful(calls[k], d)
    <2>1. Fine(j)
      BY <1>1, StepFine DEF PolicyInv, TokenInv
    <2>2. k = j
      BY <1>1, <2>1 DEF Fine, CallFine
    <2>3. Handle(k)
      BY <1>1, <2>2 DEF Step, Begin
    <2> QED BY <1>1, <2>3, StepLawful DEF Lawfully
  <1>2. UNCHANGED calls => \A k \in Client : calls'[k] = calls[k]
    OBVIOUS
  <1>3. Next => (\E j \in Client : Step(j)) \/ UNCHANGED calls
    BY DEF Next, Tick, requestVars
  <1>4. PolicyInv /\ [Next]_serverVars =>
            [\A k \in Client :
                calls[k] # None /\ calls[k].policy # None /\ calls'[k] # calls[k] =>
                    \A d \in Deeds : d[1] # d[2] => Lawful(calls[k], d)]_serverVars
    BY <1>1, <1>2, <1>3
  <1> QED BY <1>4, PoliciesKept, PTL DEF Spec, PolicyRespected

----------------------------------------------------------------------------
(* Promises.  What an answered update promised about a field is what the   *)
(* row holds; nothing is promised of an event that was not created yet.    *)

PromiseInv ==
    /\ Inv /\ OnlyOverlapsLose
    /\ \A e \in Event : origin[e] = None => \A f \in Field : kept[e][f] = None
Stands(x) == \A f \in Field :
    kept'[x][f] # None /\ RowIn(db', x) # None => RowIn(db', x).data[f] = kept'[x][f]

(* A row is put into the table of its id. *)
PutAt(d, x, row, r) ==
    \/ x \in Account /\ r = [d EXCEPT !.accounts = Put(@, x, row)]
    \/ x \in User /\ r = [d EXCEPT !.users = Put(@, x, row)]
    \/ x \in Calendar /\ r = [d EXCEPT !.calendars = Put(@, x, row)]
    \/ x \in Schedule /\ r = [d EXCEPT !.schedules = Put(@, x, row)]
    \/ x \in Service /\ r = [d EXCEPT !.services = Put(@, x, row)]
    \/ x \in Event /\ r = [d EXCEPT !.events = Put(@, x, row)]

(* A row that is put into the table of its id is the row of that id.       *)
LEMMA PutIn ==
    ASSUME NEW d \in Database, NEW x, NEW row, NEW r, PutAt(d, x, row, r), NEW y \in Updated
    PROVE  x \in Updated /\ RowIn(r, y) = IF y = x THEN row ELSE RowIn(d, y)
  <1>0. /\ DOMAIN d = TableNames
        /\ DOMAIN d.accounts = Account /\ DOMAIN d.users = User /\ DOMAIN d.calendars = Calendar
        /\ DOMAIN d.schedules = Schedule /\ DOMAIN d.services = Service /\ DOMAIN d.events = Event
    BY DEF Database, TableNames
  <1> DEFINE Goal == x \in Updated /\ RowIn(r, y) = IF y = x THEN row ELSE RowIn(d, y)
  <1>1. ASSUME x \in Account, r = [d EXCEPT !.accounts = Put(@, x, row)] PROVE Goal
    BY <1>0, <1>1, KindsAssumption, IdsAssumption DEF RowIn, Put, Updated, Owned, TableNames
  <1>2. ASSUME x \in User, r = [d EXCEPT !.users = Put(@, x, row)] PROVE Goal
    BY <1>0, <1>2, KindsAssumption, IdsAssumption DEF RowIn, Put, Updated, Owned, TableNames
  <1>3. ASSUME x \in Calendar, r = [d EXCEPT !.calendars = Put(@, x, row)] PROVE Goal
    BY <1>0, <1>3, KindsAssumption, IdsAssumption DEF RowIn, Put, Updated, Owned, TableNames
  <1>4. ASSUME x \in Schedule, r = [d EXCEPT !.schedules = Put(@, x, row)] PROVE Goal
    BY <1>0, <1>4, KindsAssumption, IdsAssumption DEF RowIn, Put, Updated, Owned, TableNames
  <1>5. ASSUME x \in Service, r = [d EXCEPT !.services = Put(@, x, row)] PROVE Goal
    BY <1>0, <1>5, KindsAssumption, IdsAssumption DEF RowIn, Put, Updated, Owned, TableNames
  <1>6. ASSUME x \in Event, r = [d EXCEPT !.events = Put(@, x, row)] PROVE Goal
    BY <1>0, <1>6, KindsAssumption, IdsAssumption DEF RowIn, Put, Updated, Owned, TableNames
  <1> HIDE DEF Goal
  <1>7. Goal
    BY <1>1, <1>2, <1>3, <1>4, <1>5, <1>6, Zenon DEF PutAt
  <1> QED BY <1>7 DEF Goal

(* Rows that stay or go are still as they were.                            *)
LEMMA GoneIn ==
    ASSUME NEW d \in Database, NEW r, Goes(d, r) \/ Aside(d, r), NEW y \in Updated
    PROVE  RowIn(r, y) = RowIn(d, y) \/ RowIn(r, y) = None
  <1>0. /\ DOMAIN d.accounts = Account /\ DOMAIN d.users = User /\ DOMAIN d.calendars = Calendar
        /\ DOMAIN d.schedules = Schedule /\ DOMAIN d.services = Service /\ DOMAIN d.events = Event
    BY DEF Database
  <1>1. CASE Aside(d, r)
    BY <1>1 DEF Aside, RowIn
  <1>2. CASE Goes(d, r)
    BY <1>0, <1>2, KindsAssumption, IdsAssumption DEF Goes, Going, RowIn, Updated, Owned
  <1> QED BY <1>1, <1>2

(* Statements that promise nothing new *)
KeptQuiet ==
    /\ UNCHANGED kept
    /\ \A y \in Updated : \/ RowIn(db', y) = RowIn(db, y) \/ RowIn(db', y) = None
                          \/ y \in Event /\ origin[y] = None
(* A row under a new id, of which nothing is promised *)
KeptAnew ==
    \E x \in Updated : /\ kept' = NewRow(x)
                       /\ \A y \in Updated \ {x} : RowIn(db', y) = RowIn(db, y)
(* A row that is saved with the fields of a request replaced *)
SavedAs(x, patch, read) ==
    /\ x \in Updated \ Fresh
    /\ Keeps(x, patch, read, RowIn(db, x))
    /\ \A y \in Updated \ {x} : RowIn(db', y) = RowIn(db, y)
    /\ RowIn(db', x) # None =>
        /\ RowIn(db, x) # None
        /\ \A f \in Field :
            RowIn(db', x).data[f] = IF patch[f] = None THEN read.data[f] ELSE patch[f]
KeptSaved == \E x, patch, read : SavedAs(x, patch, read)

(* Each of the three leaves every promise standing.                        *)
LEMMA PromisesOn ==
    ASSUME PromiseInv, KeptQuiet \/ KeptAnew \/ KeptSaved
    PROVE  \A x \in Updated : Stands(x)
  <1>0. kept \in [Updated -> [Field -> Value \union {None}]] /\ Event \subseteq Updated
    BY DEF PromiseInv, Inv, GhostsTyped, Updated, Owned
  <1>1. CASE KeptQuiet
    BY <1>1 DEF KeptQuiet, PromiseInv, OnlyOverlapsLose, Stands
  <1>2. CASE KeptAnew
    <2>1. PICK x \in Updated : /\ kept' = NewRow(x)
                               /\ \A y \in Updated \ {x} : RowIn(db', y) = RowIn(db, y)
      BY <1>2 DEF KeptAnew
    <2>2. \A f \in Field : kept'[x][f] = None
      BY <1>0, <2>1 DEF NewRow
    <2>3. \A y \in Updated \ {x} : kept'[y] = kept[y]
      BY <1>0, <2>1 DEF NewRow
    <2>4. Stands(x)
      BY <2>2 DEF Stands
    <2>5. ASSUME NEW y \in Updated \ {x} PROVE Stands(y)
      BY <2>1, <2>3, <2>5 DEF PromiseInv, OnlyOverlapsLose, Stands
    <2> QED BY <2>4, <2>5
  <1>3. CASE KeptSaved
    <2>0. PICK x, patch, read : SavedAs(x, patch, read)
      BY <1>3, Zenon DEF KeptSaved
    <2>1. /\ x \in Updated /\ Keeps(x, patch, read, RowIn(db, x))
          /\ \A y \in Updated \ {x} : RowIn(db', y) = RowIn(db, y)
          /\ RowIn(db', x) # None =>
                /\ RowIn(db, x) # None
                /\ \A f \in Field :
                    RowIn(db', x).data[f] = IF patch[f] = None THEN read.data[f] ELSE patch[f]
      BY <2>0 DEF SavedAs
    <2>2. \A y \in Updated \ {x} : kept'[y] = kept[y]
      BY <1>0, <2>1 DEF Keeps
    <2>3. \A f \in Field : kept'[x][f] = IF patch[f] # None THEN patch[f]
                                ELSE IF RowIn(db, x) = read THEN kept[x][f] ELSE None
      BY <1>0, <2>1 DEF Keeps
    <2>4. Stands(x)
      <3>1. ASSUME NEW f \in Field, kept'[x][f] # None, RowIn(db', x) # None
            PROVE  RowIn(db', x).data[f] = kept'[x][f]
        <4>1. CASE patch[f] # None
          BY <2>1, <2>3, <3>1, <4>1
        <4>2. CASE patch[f] = None
          <5>1. RowIn(db, x) = read /\ kept'[x][f] = kept[x][f]
            BY <2>3, <3>1, <4>2
          <5> QED BY <2>1, <3>1, <4>2, <5>1 DEF PromiseInv, OnlyOverlapsLose
        <4> QED BY <4>1, <4>2
      <3> QED BY <3>1 DEF Stands
    <2> QED BY <2>1, <2>2, <2>4 DEF PromiseInv, OnlyOverlapsLose, Stands
  <1> QED BY <1>1, <1>2, <1>3

(* What the statements do to promises                                      *)
LEMMA PromiseForms ==
    ASSUME db \in Database
    PROVE  /\ UNCHANGED kept /\ (db' = db \/ Goes(db, db') \/ Aside(db, db')) => KeptQuiet
           /\ \A x, row : PutAt(db, x, row, db') /\ kept' = NewRow(x) => KeptAnew
           /\ \A x, row, patch, read :
                /\ PutAt(db, x, row, db') /\ x \notin Fresh /\ RowIn(db, x) # None
                /\ Keeps(x, patch, read, RowIn(db, x))
                /\ \A f \in Field : row.data[f] = IF patch[f] = None THEN read.data[f] ELSE patch[f]
                => KeptSaved
           /\ \A x, patch, read :
                x \in Updated \ Fresh /\ db' = db /\ RowIn(db, x) = None
                /\ Keeps(x, patch, read, RowIn(db, x)) => KeptSaved
  <1>1. ASSUME NEW x, NEW row, PutAt(db, x, row, db')
        PROVE  /\ x \in Updated
               /\ \A y \in Updated : RowIn(db', y) = IF y = x THEN row ELSE RowIn(db, y)
    <2>1. x \in Updated
      BY <1>1 DEF PutAt, Updated, Owned
    <2> QED BY <1>1, <2>1, PutIn
  <1>2. UNCHANGED kept /\ (db' = db \/ Goes(db, db') \/ Aside(db, db')) => KeptQuiet
    <2>1. ASSUME Goes(db, db') \/ Aside(db, db') PROVE
            \A y \in Updated : RowIn(db', y) = RowIn(db, y) \/ RowIn(db', y) = None
      BY <2>1, GoneIn
    <2>2. db' = db => \A y \in Updated : RowIn(db', y) = RowIn(db, y)
      OBVIOUS
    <2> QED BY <2>1, <2>2 DEF KeptQuiet
  <1>3. ASSUME NEW x, NEW row, PutAt(db, x, row, db'), kept' = NewRow(x) PROVE KeptAnew
    BY <1>1, <1>3 DEF KeptAnew
  <1>4. ASSUME NEW x, NEW row, NEW patch, NEW read,
               PutAt(db, x, row, db'), x \notin Fresh, RowIn(db, x) # None,
               Keeps(x, patch, read, RowIn(db, x)),
               \A f \in Field : row.data[f] = IF patch[f] = None THEN read.data[f] ELSE patch[f]
        PROVE  KeptSaved
    <2>1. SavedAs(x, patch, read)
      BY <1>1, <1>4 DEF SavedAs
    <2> QED BY <2>1 DEF KeptSaved
  <1>5. ASSUME NEW x \in Updated \ Fresh, NEW patch, NEW read, db' = db, RowIn(db, x) = None,
               Keeps(x, patch, read, RowIn(db, x))
        PROVE  KeptSaved
    <2>1. SavedAs(x, patch, read)
      BY <1>5 DEF SavedAs
    <2> QED BY <2>1 DEF KeptSaved
  <1> QED BY <1>2, <1>3, <1>4, <1>5

(* The fields of a merged row                                              *)
LEMMA MergedFields ==
    ASSUME NEW row, NEW patch, "data" \in DOMAIN row
    PROVE  /\ DOMAIN Merged(row, patch) = DOMAIN row
           /\ \A f \in Field : Merged(row, patch).data[f]
                                = IF patch[f] = None THEN row.data[f] ELSE patch[f]
  BY DEF Merged

(* The row of an id is found in its table; a row that has an owner has an  *)
(* id that was given.                                                      *)
LEMMA RowInIs ==
    ASSUME Inv
    PROVE  /\ \A x \in Account : RowIn(db, x) = db.accounts[x] /\ x \in Updated \ Fresh
           /\ \A x \in User : RowIn(db, x) = db.users[x] /\ x \in Updated \ Fresh
           /\ \A x \in Calendar : /\ RowIn(db, x) = db.calendars[x]
                                  /\ db.calendars[x] # None => x \notin Fresh
           /\ \A x \in Schedule : /\ RowIn(db, x) = db.schedules[x]
                                  /\ db.schedules[x] # None => x \notin Fresh
           /\ \A x \in Event : /\ RowIn(db, x) = db.events[x]
                               /\ db.events[x] # None => x \notin Fresh
  <1>0. Consistent(db, origin, homes) /\ db \in Database /\ None \notin User
    BY NoneIsNoId DEF Inv, Consistent
  <1>1. /\ \A x \in Account : RowIn(db, x) = db.accounts[x] /\ x \in Updated \ Fresh
        /\ \A x \in User : RowIn(db, x) = db.users[x] /\ x \in Updated \ Fresh
    BY KindsAssumption DEF RowIn, Updated, Owned, Fresh
  <1>2. /\ \A x \in Calendar : RowIn(db, x) = db.calendars[x]
        /\ \A x \in Schedule : RowIn(db, x) = db.schedules[x]
        /\ \A x \in Event : RowIn(db, x) = db.events[x]
    BY KindsAssumption, IdsAssumption DEF RowIn, Owned
  <1>3. ASSUME NEW x \in Calendar, db.calendars[x] # None PROVE x \notin Fresh
    BY <1>0, <1>3 DEF Consistent, CalendarsOwned, Database, CalendarRow, IdsOf, Stored, Fresh
  <1>4. ASSUME NEW x \in Schedule, db.schedules[x] # None PROVE x \notin Fresh
    BY <1>0, <1>4 DEF Consistent, SchedulesOwned, Database, ScheduleRow, IdsOf, Stored, Fresh
  <1>5. ASSUME NEW x \in Event, db.events[x] # None PROVE x \notin Fresh
    BY <1>0, <1>5 DEF Consistent, EventsOwned, Database, EventRow, IdsOf, Stored, Fresh
  <1> QED BY <1>1, <1>2, <1>3, <1>4, <1>5

(* The use cases of Directory leave every promise standing.                *)
LEMMA DirectoryPromises ==
    ASSUME Inv, NEW k \in Client, calls[k] # None, DirectoryNext(k)
    PROVE  KeptQuiet \/ KeptAnew \/ KeptSaved
  <1> DEFINE q == calls[k]
             Goal == KeptQuiet \/ KeptAnew \/ KeptSaved
             new == Merged(q.row, q.patch)
             user == [new EXCEPT !.external = IF q.key = None THEN @ ELSE q.key]
             Sets(row) == \A f \in Field :
                row.data[f] = IF q.patch[f] = None THEN q.row.data[f] ELSE q.patch[f]
  <1>0. /\ Consistent(db, origin, homes) /\ db \in Database /\ DOMAIN db = TableNames
        /\ Holds(q, origin, homes, remote) /\ Shape(q)
    BY Found DEF Database, TableNames
  <1>1. ASSUME UNCHANGED <<db, kept>> PROVE Goal
    BY <1>0, <1>1, PromiseForms
  <1>2. ASSUME UNCHANGED kept, Goes(db, db') \/ Aside(db, db') PROVE Goal
    BY <1>0, <1>2, PromiseForms
  <1>3. ASSUME NEW x, NEW row, PutAt(db, x, row, db'), kept' = NewRow(x) PROVE Goal
    BY <1>0, <1>3, PromiseForms
  <1>4. ASSUME NEW x, NEW row, PutAt(db, x, row, db'), x \notin Fresh, RowIn(db, x) # None,
               Keeps(x, q.patch, q.row, RowIn(db, x)), Sets(row)
        PROVE  Goal
    BY <1>0, <1>4, PromiseForms
  <1>5. "data" \in DOMAIN q.row => Sets(new) /\ DOMAIN new = DOMAIN q.row
    BY MergedFields
  <1> HIDE DEF Goal
  <1>6. ASSUME q.op = "UpdateUser", q.at = "write", db' = UserSaved(db, q.user, user),
               IF Stored(db.users, q.user) THEN Keeps(q.user, q.patch, q.row, db.users[q.user])
                                           ELSE UNCHANGED kept
        PROVE  Goal
    <2>1. CASE ~Stored(db.users, q.user)
      BY <1>1, <1>6, <2>1 DEF UserSaved
    <2>2. CASE Stored(db.users, q.user)
      <3>1. q.user \in User /\ "data" \in DOMAIN q.row
        BY <1>0, <1>6 DEF Holds, DirectoryHolds, UserRow
      <3>2. Sets(user)
        BY <1>5, <3>1
      <3> HIDE DEF user
      <3>3. PutAt(db, q.user, user, db')
        BY <1>6, <2>2, <3>1 DEF PutAt, UserSaved
      <3>4. RowIn(db, q.user) = db.users[q.user] /\ q.user \notin Fresh
        BY <3>1, RowInIs
      <3> QED BY <1>4, <1>6, <2>2, <3>2, <3>3, <3>4 DEF Stored
    <2> QED BY <2>1, <2>2
  <1>7. ASSUME q.op = "UpdateCalendar", q.at = "write", db' = CalendarSaved(db, q.calendar, new),
               IF Stored(db.calendars, q.calendar)
               THEN Keeps(q.calendar, q.patch, q.row, db.calendars[q.calendar]) ELSE UNCHANGED kept
        PROVE  Goal
    <2>1. CASE ~Stored(db.calendars, q.calendar)
      BY <1>1, <1>7, <2>1 DEF CalendarSaved
    <2>2. CASE Stored(db.calendars, q.calendar)
      <3> DEFINE row == [db.calendars[q.calendar] EXCEPT !.data = new.data]
      <3>1. q.calendar \in Calendar /\ db.calendars[q.calendar] \in CalendarRow
            /\ "data" \in DOMAIN q.row
        BY <1>0, <1>7, <2>2 DEF Holds, DirectoryHolds, CalendarRow, Database, Stored
      <3>2. Sets(new)
        BY <1>5, <3>1
      <3>3. PutAt(db, q.calendar, row, db')
        BY <1>7, <2>2, <3>1 DEF PutAt, CalendarSaved
      <3>4. row.data = new.data
        BY <3>1 DEF CalendarRow
      <3> HIDE DEF row, new
      <3>5. RowIn(db, q.calendar) = db.calendars[q.calendar] /\ q.calendar \notin Fresh
        BY <2>2, <3>1, RowInIs DEF Stored
      <3> QED BY <1>4, <1>7, <2>2, <3>2, <3>3, <3>4, <3>5 DEF Stored
    <2> QED BY <2>1, <2>2
  <1>8. ASSUME q.op = "UpdateSchedule", q.at = "write", db' = ScheduleSaved(db, q.schedule, new),
               IF Stored(db.schedules, q.schedule)
               THEN Keeps(q.schedule, q.patch, q.row, db.schedules[q.schedule]) ELSE UNCHANGED kept
        PROVE  Goal
    <2>1. CASE ~Stored(db.schedules, q.schedule)
      BY <1>1, <1>8, <2>1 DEF ScheduleSaved
    <2>2. CASE Stored(db.schedules, q.schedule)
      <3> DEFINE row == [db.schedules[q.schedule] EXCEPT !.data = new.data]
      <3>1. q.schedule \in Schedule /\ db.schedules[q.schedule] \in ScheduleRow
            /\ "data" \in DOMAIN q.row
        BY <1>0, <1>8, <2>2 DEF Holds, DirectoryHolds, ScheduleRow, Database, Stored
      <3>2. Sets(new)
        BY <1>5, <3>1
      <3>3. PutAt(db, q.schedule, row, db')
        BY <1>8, <2>2, <3>1 DEF PutAt, ScheduleSaved
      <3>4. row.data = new.data
        BY <3>1 DEF ScheduleRow
      <3> HIDE DEF row, new
      <3>5. RowIn(db, q.schedule) = db.schedules[q.schedule] /\ q.schedule \notin Fresh
        BY <2>2, <3>1, RowInIs DEF Stored
      <3> QED BY <1>4, <1>8, <2>2, <3>2, <3>3, <3>4, <3>5 DEF Stored
    <2> QED BY <2>1, <2>2
  <1> HIDE DEF Sets, new, user
  <1>9. ASSUME UNCHANGED kept, Deletes(db, db') \/ Hosts(db, db') PROVE Goal
    <2>1. ASSUME NEW x, db' = UserDeleted(db, x) \/ db' = CalendarDeleted(db, x)
                 \/ db' = ScheduleDeleted(db, x) \/ db' = ServiceDeleted(db, x)
          PROVE  Goes(db, db')
      BY <1>0, <2>1, UserGoes, CalendarsGo, SchedulesGo, ServiceGoes
         DEF CalendarDeleted, ScheduleDeleted
    <2>2. ASSUME NEW x, NEW y, NEW row, db' = HostInserted(db, x, y, row) \/ db' = HostSaved(db, x, y, row)
          PROVE  Aside(db, db')
      BY <1>0, <2>2 DEF HostInserted, HostSaved, Aside, TableNames
    <2>3. ASSUME NEW x, NEW y, db' = HostBusyDeleted(db, x, y)
          PROVE  Aside(db, db')
      BY <1>0, <2>3 DEF HostBusyDeleted, Aside, TableNames
    <2>4. ASSUME NEW x, NEW y, db' = HostDeleted(db, x, y)
          PROVE  Aside(db, db')
      BY <1>0, <2>4, DropsGo DEF HostDeleted
    <2>5. ASSUME NEW x, NEW y, NEW z, db' = BusyInserted(db, x, y, z) \/ db' = BusyDeleted(db, x, y, z)
          PROVE  Aside(db, db')
      BY <1>0, <2>5 DEF BusyInserted, BusyDeleted, Aside, TableNames
    <2>6. Deletes(db, db') => Goes(db, db')
      BY <2>1 DEF Deletes
    <2>7. Hosts(db, db') => Aside(db, db')
      BY <2>2, <2>3, <2>4, <2>5 DEF Hosts
    <2> QED BY <1>2, <1>9, <2>6, <2>7
  <1>10. CreateUser(k) => Goal
    <2> DEFINE accepted == UserInsertAccepted(db, q.user, q.row)
    <2>1. CreateUser(k) =>
            \/ UNCHANGED <<db, kept>>
            \/ /\ At(k, "CreateUser", "write")
               /\ db' = IF accepted THEN UserInserted(db, q.user, q.row) ELSE db
               /\ IF accepted
                  THEN homes' = [homes EXCEPT ![q.user] = @ \union {q.account}] /\ kept' = NewRow(q.user)
                  ELSE UNCHANGED <<homes, kept>>
      BY Zenon DEF CreateUser, Find, Write, DirectoryUnchanged, ghostVars
    <2>2. At(k, "CreateUser", "write") => q.user \in User
      BY <1>0 DEF At, Shape
    <2> HIDE DEF accepted
    <2> QED BY <1>1, <1>3, <2>1, <2>2 DEF PutAt, UserInserted
  <1>11. UpdateUser(k) => Goal
    <2> DEFINE accepted == UserSaveAccepted(db, q.user, user)
    <2>1. UpdateUser(k) =>
            \/ UNCHANGED <<db, kept>>
            \/ /\ At(k, "UpdateUser", "write")
               /\ db' = IF accepted THEN UserSaved(db, q.user, user) ELSE db
               /\ IF accepted /\ Stored(db.users, q.user)
                  THEN Keeps(q.user, q.patch, q.row, db.users[q.user]) ELSE UNCHANGED kept
      BY Zenon DEF UpdateUser, Find, Save, Write, DirectoryUnchanged, ghostVars, user, new
    <2> HIDE DEF accepted
    <2> QED BY <1>1, <1>6, <2>1 DEF At
  <1>12. DeleteUser(k) \/ DeleteCalendar(k) \/ DeleteSchedule(k) \/ DeleteService(k) => Goal
    <2>1. DeleteUser(k) => UNCHANGED kept /\ (db' = db \/ Deletes(db, db'))
      BY Zenon DEF DeleteUser, Find, Write, DirectoryUnchanged, ghostVars, Deletes
    <2>2. DeleteCalendar(k) => UNCHANGED kept /\ (db' = db \/ Deletes(db, db'))
      BY Zenon DEF DeleteCalendar, Find, Write, DirectoryUnchanged, ghostVars, Deletes
    <2>3. DeleteSchedule(k) => UNCHANGED kept /\ (db' = db \/ Deletes(db, db'))
      BY Zenon DEF DeleteSchedule, Find, Write, DirectoryUnchanged, ghostVars, Deletes
    <2>4. DeleteService(k) => UNCHANGED kept /\ (db' = db \/ Deletes(db, db'))
      BY Zenon DEF DeleteService, Find, Write, DirectoryUnchanged, ghostVars, Deletes
    <2> QED BY <1>1, <1>9, <2>1, <2>2, <2>3, <2>4
  <1>13. CreateCalendar(k) => Goal
    <2> DEFINE row == [user |-> q.user, account |-> q.account, key |-> q.key,
                       data |-> [f \in Field |-> q.patch[f]]]
    <2>1. CreateCalendar(k) =>
            \/ UNCHANGED <<db, kept>>
            \/ \E c \in {x \in Calendar : origin[x] = None} :
                    db' = CalendarInserted(db, c, row) /\ kept' = NewRow(c)
      BY Zenon DEF CreateCalendar
    <2> HIDE DEF row
    <2> QED BY <1>1, <1>3, <2>1 DEF PutAt, CalendarInserted
  <1>14. UpdateCalendar(k) => Goal
    <2>1. UpdateCalendar(k) =>
            \/ UNCHANGED <<db, kept>>
            \/ /\ At(k, "UpdateCalendar", "write")
               /\ db' = IF TRUE THEN CalendarSaved(db, q.calendar, new) ELSE db
               /\ IF TRUE /\ Stored(db.calendars, q.calendar)
                  THEN Keeps(q.calendar, q.patch, q.row, db.calendars[q.calendar]) ELSE UNCHANGED kept
      BY Zenon DEF UpdateCalendar, Find, Save, Write, DirectoryUnchanged, ghostVars, new
    <2> QED BY <1>1, <1>7, <2>1 DEF At
  <1>15. CreateSchedule(k) => Goal
    <2> DEFINE accepted == ScheduleInsertAccepted(db, q.user)
    <2>1. CreateSchedule(k) =>
            \/ UNCHANGED <<db, kept>>
            \/ \E s \in {x \in Schedule : origin[x] = None} :
                /\ db' = IF accepted THEN ScheduleInserted(db, s, q.row) ELSE db
                /\ IF accepted THEN origin' = [origin EXCEPT ![s] = q.user] /\ kept' = NewRow(s)
                   ELSE UNCHANGED <<origin, kept>>
      BY Zenon DEF CreateSchedule, Find, Write, DirectoryUnchanged, ghostVars
    <2> HIDE DEF accepted
    <2> QED BY <1>1, <1>3, <2>1 DEF PutAt, ScheduleInserted
  <1>16. UpdateSchedule(k) => Goal
    <2>1. UpdateSchedule(k) =>
            \/ UNCHANGED <<db, kept>>
            \/ /\ At(k, "UpdateSchedule", "write")
               /\ db' = IF TRUE THEN ScheduleSaved(db, q.schedule, new) ELSE db
               /\ IF TRUE /\ Stored(db.schedules, q.schedule)
                  THEN Keeps(q.schedule, q.patch, q.row, db.schedules[q.schedule]) ELSE UNCHANGED kept
      BY Zenon DEF UpdateSchedule, Find, Save, Write, DirectoryUnchanged, ghostVars, new
    <2> QED BY <1>1, <1>8, <2>1 DEF At
  <1>17. CreateService(k) => Goal
    <2> DEFINE row == [account |-> q.account, data |-> [f \in Field |-> q.patch[f]]]
    <2>1. CreateService(k) =>
            \E v \in {x \in Service : origin[x] = None} :
                    db' = ServiceInserted(db, v, row) /\ kept' = NewRow(v)
      BY Zenon DEF CreateService
    <2> HIDE DEF row
    <2> QED BY <1>3, <2>1 DEF PutAt, ServiceInserted
  <1>18. AddUserToService(k) \/ UpdateServiceUser(k) \/ RemoveUserFromService(k)
         \/ AddBusyCalendar(k) \/ RemoveBusyCalendar(k) => Goal
    <2>1. AddUserToService(k) => UNCHANGED kept /\ (db' = db \/ Hosts(db, db'))
      BY Zenon DEF AddUserToService, CheckPlan, Find, Write, DirectoryUnchanged, ghostVars, Hosts
    <2>2. UpdateServiceUser(k) => UNCHANGED kept /\ (db' = db \/ Hosts(db, db'))
      BY Zenon DEF UpdateServiceUser, CheckPlan, Find, Write, DirectoryUnchanged, ghostVars, Hosts
    <2>3. RemoveUserFromService(k) => UNCHANGED kept /\ (db' = db \/ Hosts(db, db'))
      BY Zenon DEF RemoveUserFromService, Find, Write, DirectoryUnchanged, ghostVars, Hosts
    <2>4. AddBusyCalendar(k) => UNCHANGED kept /\ (db' = db \/ Hosts(db, db'))
      BY Zenon DEF AddBusyCalendar, Find, Write, DirectoryUnchanged, ghostVars, Hosts
    <2>5. RemoveBusyCalendar(k) => UNCHANGED kept /\ (db' = db \/ Hosts(db, db'))
      BY Zenon DEF RemoveBusyCalendar, Find, Write, DirectoryUnchanged, ghostVars, Hosts
    <2> QED BY <1>1, <1>9, <2>1, <2>2, <2>3, <2>4, <2>5
  <1>19. Goal
    BY <1>10, <1>11, <1>12, <1>13, <1>14, <1>15, <1>16, <1>17, <1>18, Zenon DEF DirectoryNext
  <1> QED BY <1>19 DEF Goal

(* So do the use cases on accounts, which are never deleted.               *)
LEMMA AccountPromises ==
    ASSUME Inv, NEW k \in Client, calls[k] # None, AccountsNext(k)
    PROVE  KeptQuiet \/ KeptAnew \/ KeptSaved
  <1> DEFINE q == calls[k]
             Goal == KeptQuiet \/ KeptAnew \/ KeptSaved
             new == Merged(q.row, q.patch)
             blank(x) == kept' = [kept EXCEPT ![x] = [f \in Field |-> None]]
  <1>0. /\ db \in Database /\ DOMAIN db = TableNames /\ DOMAIN db.accounts = Account
        /\ Holds(q, origin, homes, remote) /\ Shape(q)
    BY Found DEF Database, TableNames
  <1>1. ASSUME UNCHANGED kept, db' = db \/ \E a, p : db' = IntegrationInserted(db, a, p) PROVE Goal
    <2>1. db' = db \/ Aside(db, db')
      BY <1>0, <1>1 DEF IntegrationInserted, Aside, TableNames
    <2> QED BY <1>0, <1>1, <2>1, PromiseForms
  <1>2. ASSUME NEW x \in Account, NEW row, db' = AccountInserted(db, x, row), blank(x) PROVE Goal
    <2>1. PutAt(db, x, row, db') /\ kept' = NewRow(x)
      BY <1>2 DEF PutAt, AccountInserted, NewRow
    <2> QED BY <1>0, <2>1, PromiseForms
  <1>3. ASSUME q.op = "SetAccount", q.at = "find", db' = AccountSaved(db, q.account, new),
               Keeps(q.account, q.patch, q.row, db.accounts[q.account])
        PROVE  Goal
    <2>1. q.account \in Account /\ "data" \in DOMAIN q.row
      BY <1>0, <1>3 DEF Holds, Shape, AccountHolds, ByKeyOnly, AccountRow
    <2>2. RowIn(db, q.account) = db.accounts[q.account] /\ q.account \in Updated \ Fresh
      BY <2>1, RowInIs
    <2>3. \A f \in Field : new.data[f] = IF q.patch[f] = None THEN q.row.data[f] ELSE q.patch[f]
      BY <2>1, MergedFields
    <2> HIDE DEF new
    <2>4. CASE Stored(db.accounts, q.account)
      <3>1. PutAt(db, q.account, new, db')
        BY <1>3, <2>1, <2>4 DEF PutAt, AccountSaved
      <3> QED BY <1>0, <1>3, <2>2, <2>3, <2>4, <3>1, PromiseForms DEF Stored
    <2>5. CASE ~Stored(db.accounts, q.account)
      <3>1. db' = db /\ db.accounts[q.account] = None
        BY <1>0, <1>3, <2>1, <2>5 DEF AccountSaved, Stored
      <3> QED BY <1>0, <1>3, <2>2, <3>1, PromiseForms
    <2> QED BY <2>4, <2>5
  <1> HIDE DEF Goal, new
  <1>4. FindByApiKey(k) \/ GetAccount(k) => UNCHANGED <<db, kept>>
    BY Zenon DEF FindByApiKey, GetAccount
  <1>5. CreateAccount(k) => Goal
    <2> DEFINE row == [data |-> [f \in Field |-> q.patch[f]]]
    <2>1. CreateAccount(k) => \E a \in {x \in Account : db.accounts[x] = None} :
                                db' = AccountInserted(db, a, row) /\ blank(a)
      BY Zenon DEF CreateAccount
    <2> HIDE DEF row, blank
    <2> QED BY <1>2, <2>1
  <1>6. SetAccount(k) => Goal
    <2>1. SetAccount(k) =>
            \/ UNCHANGED <<db, kept>>
            \/ /\ At(k, "SetAccount", "find") /\ db' = AccountSaved(db, q.account, new)
               /\ Keeps(q.account, q.patch, q.row, db.accounts[q.account])
      BY Zenon DEF SetAccount, new
    <2> QED BY <1>1, <1>3, <2>1 DEF At
  <1>7. InitDefaultAccount(k) => Goal
    <2> DEFINE row == [data |-> [f \in Field |-> q.patch[f]]]
    <2>1. InitDefaultAccount(k) =>
            \/ UNCHANGED kept /\ (db' = db \/ \E a, p : db' = IntegrationInserted(db, a, p))
            \/ db' = AccountInserted(db, q.account, row) /\ blank(q.account)
      BY Zenon DEF InitDefaultAccount
    <2>2. q.account \in Account
      BY <1>0 DEF Shape
    <2> HIDE DEF row, blank
    <2> QED BY <1>1, <1>2, <2>1, <2>2
  <1>8. Goal
    BY <1>1, <1>4, <1>5, <1>6, <1>7, Zenon DEF AccountsNext
  <1> QED BY <1>8 DEF Goal

(* And the use cases on events: an event that is created has an id of      *)
(* which nothing was promised.                                             *)
LEMMA EventPromises ==
    ASSUME TokenInv, NEW k \in Client, calls[k] # None, EventSyncNext(k)
    PROVE  KeptQuiet \/ KeptAnew \/ KeptSaved
  <1> DEFINE q == calls[k]
             Goal == KeptQuiet \/ KeptAnew \/ KeptSaved
             e == q.event
             new == Updating(q)
             merged == Merged(q.row, q.patch)
  <1>0. /\ Inv /\ db \in Database /\ DOMAIN db = TableNames /\ DOMAIN db.events = Event
        /\ Holds(q, origin, homes, remote) /\ Shape(q)
    BY Found DEF TokenInv, Database, TableNames
  <1>1. ASSUME UNCHANGED kept, db' = db \/ Goes(db, db') \/ Aside(db, db') PROVE Goal
    BY <1>0, <1>1, PromiseForms
  <1>2. ASSUME UNCHANGED kept, NEW x \in FreshEvents, NEW row, db' = EventInserted(db, x, row)
        PROVE  Goal
    <2>1. PutAt(db, x, row, db') /\ x \in Event /\ origin[x] = None
      BY <1>2 DEF PutAt, EventInserted, FreshEvents
    <2> QED BY <1>0, <1>2, <2>1, PutIn DEF KeptQuiet
  <1>3. ASSUME UNCHANGED kept, NEW rows, \A n \in rows : n.event \in FreshEvents,
               db' = EventsInserted(db, rows)
        PROVE  Goal
    <2>1. /\ db'.accounts = db.accounts /\ db'.users = db.users /\ db'.calendars = db.calendars
          /\ db'.schedules = db.schedules /\ db'.services = db.services
          /\ \A x \in Event : db'.events[x] = db.events[x] \/ x \in FreshEvents
      BY <1>0, <1>3 DEF EventsInserted, TableNames
    <2>2. ASSUME NEW y \in Updated
          PROVE  RowIn(db', y) = RowIn(db, y) \/ (y \in Event /\ origin[y] = None)
      BY <2>1 DEF RowIn, FreshEvents, Updated, Owned
    <2> QED BY <1>3, <2>2 DEF KeptQuiet
  <1>4. ASSUME q.op = "UpdateEvent", q.at = "write", db' = EventSaved(db, e, new),
               IF Stored(db.events, e) THEN Keeps(e, q.patch, q.row, db.events[e]) ELSE UNCHANGED kept
        PROVE  Goal
    <2>1. CASE ~Stored(db.events, e)
      BY <1>1, <1>4, <2>1 DEF EventSaved
    <2>2. CASE Stored(db.events, e)
      <3> DEFINE row == [db.events[e] EXCEPT !.data = new.data, !.times = new.times,
                                             !.service = new.service]
      <3>1. e \in Event /\ db.events[e] \in EventRow /\ DOMAIN q.row = DOMAIN db.events[e]
        BY <1>0, <1>4, <2>2 DEF Holds, EventHolds, EventRow, Database, Stored
      <3>2. /\ DOMAIN merged = DOMAIN q.row
            /\ \A f \in Field : merged.data[f] = IF q.patch[f] = None THEN q.row.data[f] ELSE q.patch[f]
        <4>1. "data" \in DOMAIN q.row
          BY <3>1 DEF EventRow
        <4> QED BY <4>1, MergedFields
      <3> HIDE DEF merged
      <3>3. new.data = merged.data
        <4> DEFINE s == IF q.service = None THEN merged.service ELSE q.service
                   t == IF q.times = None THEN merged.times ELSE Retimed(merged.times, q.times)
        <4>1. new = [merged EXCEPT !.service = s, !.times = t]
          BY DEF Updating, merged
        <4> HIDE DEF s, t, new
        <4> QED BY <4>1
      <3> HIDE DEF new
      <3>4. PutAt(db, e, row, db')
        BY <1>4, <2>2, <3>1 DEF PutAt, EventSaved
      <3>5. row.data = new.data
        BY <3>1 DEF EventRow
      <3> HIDE DEF row
      <3>6. RowIn(db, e) = db.events[e] /\ e \notin Fresh
        BY <1>0, <2>2, <3>1, RowInIs DEF Stored
      <3>7. /\ Keeps(e, q.patch, q.row, RowIn(db, e)) /\ RowIn(db, e) # None
            /\ \A f \in Field : row.data[f] = IF q.patch[f] = None THEN q.row.data[f] ELSE q.patch[f]
        BY <1>4, <2>2, <3>2, <3>3, <3>5, <3>6 DEF Stored
      <3> QED BY <1>0, <3>4, <3>6, <3>7, PromiseForms
    <2> QED BY <2>1, <2>2
  <1> HIDE DEF Goal, new
  <1>5. CreateEvent(k) => Goal
    <2>1. CreateEvent(k) => UNCHANGED kept /\ (db' = db \/ \E x \in FreshEvents :
                                    db' = EventInserted(db, x, NewEvent(q, q.calendar)))
      BY Zenon DEF CreateEvent
    <2> QED BY <1>1, <1>2, <2>1
  <1>6. CreateBatchEvents(k) => Goal
    <2> DEFINE drawn(id) == {[event |-> id[c], row |-> NewEvent(q, c)] : c \in q.queue}
    <2>1. CreateBatchEvents(k) =>
            UNCHANGED kept /\ (db' = db \/ \E id \in {i \in [q.queue -> FreshEvents] : Injective(i)} :
                                                db' = EventsInserted(db, drawn(id)))
      BY Zenon DEF CreateBatchEvents
    <2>2. \A id \in [q.queue -> FreshEvents] : \A n \in drawn(id) : n.event \in FreshEvents
      OBVIOUS
    <2> HIDE DEF drawn
    <2> QED BY <1>1, <1>3, <2>1, <2>2
  <1>7. UpdateEvent(k) => Goal
    <2>1. UpdateEvent(k) =>
            \/ UNCHANGED <<db, kept>>
            \/ /\ EventUseCase(k, "UpdateEvent", "write") /\ db' = EventSaved(db, e, new)
               /\ IF Stored(db.events, e) THEN Keeps(e, q.patch, q.row, db.events[e]) ELSE UNCHANGED kept
      BY Zenon DEF UpdateEvent, new
    <2> QED BY <1>1, <1>4, <2>1 DEF EventUseCase, At
  <1>8. DeleteEvent(k) \/ DeleteManyEvents(k) => Goal
    <2>1. DeleteEvent(k) \/ DeleteManyEvents(k) =>
            UNCHANGED kept /\ (db' = db \/ \E es : db' = EventsDeleted(db, es))
      BY Zenon DEF DeleteEvent, DeleteManyEvents
    <2>2. \A es : Goes(db, EventsDeleted(db, es))
      BY <1>0, DropsGo DEF EventsDeleted
    <2> QED BY <1>1, <2>1, <2>2
  <1>9. (\E ops, rows : FindCopies(k, ops, rows)) \/ FindCopiesOwner(k) \/ CreateCopy(k)
        \/ ChangeCopy(k) \/ RemoveCopy(k) => UNCHANGED <<db, kept>>
    BY Zenon DEF FindCopies, FindCopiesOwner, CreateCopy, ChangeCopy, RemoveCopy, SyncUnchanged, ghostVars
  <1>10. RecordCopy(k) => Goal
    <2>1. RecordCopy(k) => UNCHANGED kept /\ (db' = db \/ \E row : db' = CopyInserted(db, row))
      BY Zenon DEF RecordCopy, SyncUnchanged, ghostVars
    <2>2. \A row : Aside(db, CopyInserted(db, row))
      BY <1>0 DEF Aside, CopyInserted, TableNames
    <2> QED BY <1>1, <2>1, <2>2
  <1>11. ASSUME NEW ops, NeedsToken(k, ops), q.op \in Copied, GetAccessToken(k, GiveUp(k)) PROVE Goal
    <2> DEFINE giveUp == GiveUp(k)
    <2>1. GetAccessToken(k, giveUp)
      BY <1>11
    <2> HIDE DEF giveUp
    <2>2. Aside(db, db')
      BY <1>11, <2>1, TokenTrail
    <2>3. UNCHANGED kept
      BY <1>0, <1>11, <2>1, TokenMoves
    <2> QED BY <1>1, <2>2, <2>3
  <1> HIDE DEF q, e
  <1>12. UNCHANGED <<db, kept>> => Goal
    BY <1>1
  <1>13. EventSyncNext(k) =>
            \/ CreateEvent(k) \/ UpdateEvent(k) \/ DeleteEvent(k) \/ CreateBatchEvents(k)
            \/ DeleteManyEvents(k) \/ (\E ops, rows : FindCopies(k, ops, rows)) \/ FindCopiesOwner(k)
            \/ CreateCopy(k) \/ ChangeCopy(k) \/ RemoveCopy(k) \/ RecordCopy(k)
            \/ (NeedsToken(k, Creates \union {"UpdateEvent", "DeleteEvent"}) /\ GetAccessToken(k, GiveUp(k)))
    BY Zenon DEF EventSyncNext
  <1>14. \A ops : NeedsToken(k, ops) => q.op \in ops
    BY DEF NeedsToken, q
  <1>15. Goal
    BY <1>5, <1>6, <1>7, <1>8, <1>9, <1>10, <1>11, <1>12, <1>13, <1>14 DEF Copied
  <1> QED BY <1>15 DEF Goal

(* Whatever a request does next, no promise is broken.                     *)
LEMMA StepPromises ==
    ASSUME TokenInv, NEW k \in Client, Step(k)
    PROVE  KeptQuiet \/ KeptAnew \/ KeptSaved
  <1>0. Inv /\ db \in Database
    BY Found DEF TokenInv, Inv, Consistent
  <1>1. UNCHANGED kept /\ (db' = db \/ Aside(db, db')) => KeptQuiet
    BY <1>0, PromiseForms
  <1>2. CASE Begin(k)
    BY <1>1, <1>2, Zenon DEF Begin, ghostVars
  <1>3. ASSUME calls[k] # None, Handle(k) PROVE KeptQuiet \/ KeptAnew \/ KeptSaved
    <2>1. Guard(k) \/ LookupsNext(k) \/ EventQueriesNext(k) => UNCHANGED <<db, kept>>
      BY <1>0, <1>3, GuardTrail, LookupTrail, QueryTrail
    <2>2. StatementFails(k) => UNCHANGED <<db, kept>>
      BY DEF StatementFails, ghostVars
    <2>3. IntegrationsNext(k) => UNCHANGED kept /\ Aside(db, db')
      BY <1>3, IntegrationTrail
    <2>4. AccountsNext(k) \/ DirectoryNext(k) \/ EventSyncNext(k) => KeptQuiet \/ KeptAnew \/ KeptSaved
      BY <1>0, <1>3, AccountPromises, DirectoryPromises, EventPromises
    <2>5. Handle(k) => \/ Guard(k) \/ LookupsNext(k) \/ EventQueriesNext(k) \/ StatementFails(k)
                       \/ IntegrationsNext(k) \/ AccountsNext(k) \/ DirectoryNext(k) \/ EventSyncNext(k)
      BY Zenon DEF Handle
    <2> QED BY <1>1, <1>3, <2>1, <2>2, <2>3, <2>4, <2>5
  <1> QED BY <1>2, <1>3 DEF Step

(* What a request was answered about a field stands: a lost update needs   *)
(* two requests that overlap, or an account from the cache (the saves of   *)
(* the repositories write the whole row that the use case read).           *)
THEOREM PromisesStand == Spec => []OnlyOverlapsLose
  <1>1. Init => PromiseInv
    <2>1. Init => kept = [x \in Updated |-> [f \in Field |-> None]]
      BY DEF Init
    <2>2. Event \subseteq Updated
      BY DEF Updated, Owned
    <2> QED BY <2>1, <2>2, InitInv DEF PromiseInv, OnlyOverlapsLose
  <1>2. PromiseInv /\ TokenInv /\ [Next]_serverVars => PromiseInv'
    <2>1. ASSUME PromiseInv, TokenInv, NEW k \in Client, Step(k), Inv' PROVE PromiseInv'
      <3>1. KeptQuiet \/ KeptAnew \/ KeptSaved
        BY <2>1, StepPromises
      <3>2. OnlyOverlapsLose'
        BY <2>1, <3>1, PromisesOn DEF OnlyOverlapsLose, Stands
      <3>3. Fine(k) /\ kept \in [Updated -> [Field -> Value \union {None}]] /\ Event \subseteq Updated
        BY <2>1, StepFine DEF PromiseInv, Inv, GhostsTyped, Updated, Owned
      <3>4. ASSUME NEW e \in Event, origin'[e] = None, NEW f \in Field PROVE kept'[e][f] = None
        <4>1. origin[e] = None /\ kept[e][f] = None /\ e \in Fresh /\ e \in Updated
          BY <2>1, <3>3, <3>4 DEF Fine, GhostsFine, PromiseInv, Fresh, Owned
        <4>2. CASE KeptQuiet
          BY <4>1, <4>2 DEF KeptQuiet
        <4>3. CASE KeptAnew
          <5>1. PICK x \in Updated : kept' = NewRow(x)
            BY <4>3 DEF KeptAnew
          <5> QED BY <3>3, <3>4, <4>1, <5>1 DEF NewRow
        <4>4. CASE KeptSaved
          <5>1. PICK x, patch, read : SavedAs(x, patch, read)
            BY <4>4, Zenon DEF KeptSaved
          <5>2. x # e /\ Keeps(x, patch, read, RowIn(db, x))
            BY <4>1, <5>1 DEF SavedAs
          <5> QED BY <3>3, <4>1, <5>2 DEF Keeps
        <4> QED BY <3>1, <4>2, <4>3, <4>4
      <3> QED BY <2>1, <3>2, <3>4 DEF PromiseInv
    <2>2. ASSUME PromiseInv, Inv', Tick \/ UNCHANGED serverVars PROVE PromiseInv'
      <3>1. UNCHANGED <<db, origin, kept>>
        BY <2>2 DEF Tick, ghostVars, serverVars, requestVars
      <3> QED BY <2>2, <3>1 DEF PromiseInv, OnlyOverlapsLose, RowIn
    <2>3. ASSUME PromiseInv, [Next]_serverVars PROVE Inv'
      BY <2>3, NextKeeps DEF PromiseInv
    <2> QED BY <2>1, <2>2, <2>3 DEF Next
  <1>3. PromiseInv => OnlyOverlapsLose
    BY DEF PromiseInv
  <1> QED BY <1>1, <1>2, <1>3, TokensTimely, PTL DEF Spec

----------------------------------------------------------------------------
(* Answers.  What a request shows is in rows that its guard or its find    *)
(* has compared with its account or its user.                              *)

(* What is shown of a row x to a request q *)
Fits(q, x, h) ==
    /\ x.user # None =>
        /\ x.user \in User /\ x.account \in h[x.user]
        /\ \/ q.account \in h[x.user]
           \/ q.op = "GetCalendars" /\ q.signed = None
           \/ q.op = "GetSchedule" /\ q.signed # None
    /\ x.user = None => x.account = q.account
    /\ q.signed # None => x.user = q.user \/ q.op = "GetSchedule"

(* Where the routes of what is looked up lead a request                    *)
Routed(q) ==
    /\ q.at # "public" /\ (q.at \in {"account", "user"} => q.signed # None)
    /\ q.at = "calendar" => q.op = "GetCalendar"
    /\ q.at = "schedule" => q.op = "GetSchedule"
    /\ q.at = "event" => q.op = "GetEvent"
    /\ q.op = "GetMe" => q.signed # None

(* What a guard has established when the row is looked up again            *)
Compared(q, o, h) ==
    /\ q.op \in {"GetMe", "GetCalendar", "GetEvent"} /\ q.at = "find" => AtHome(q, h)
    /\ q.op = "GetMe" /\ q.at = "find" => q.row.account = q.account
    /\ q.op = "GetCalendars" /\ q.at = "find" => q.signed = None \/ AtHome(q, h)
    /\ q.op = "GetSchedule" /\ q.at = "find" /\ q.signed = None =>
            AtHome(q, h) /\ q.schedule \in Schedule /\ o[q.schedule] = q.user
    /\ q.op = "GetEvent" /\ q.at = "guarded" =>
            AtHome(q, h) /\ q.row.user = q.user /\ q.row.account = q.account

Showing(q, o, h) ==
    q.op \in LookupOps =>
        /\ Routed(q) /\ Compared(q, o, h)
        /\ q.at = "shown" => \A x \in q.todo : Fits(q, x, h)

AnswerInv ==
    /\ PolicyInv
    /\ \A k \in Client : calls[k] # None => Showing(calls[k], origin, homes)

(* What was compared and shown stays so when ids are given to other rows   *)
(* and users are stored in further accounts.                               *)
LEMMA ShowingOn ==
    ASSUME NEW q, NEW o, NEW h, Showing(q, o, h), NEW o2, NEW h2,
           \A x \in Owned : o[x] # None => o2[x] = o[x],
           \A u \in User : h[u] \subseteq h2[u]
    PROVE  Showing(q, o2, h2)
  <1>1. AtHome(q, h) => AtHome(q, h2)
    BY DEF AtHome
  <1>2. ASSUME q.schedule \in Schedule, o[q.schedule] = q.user, q.user \in User
        PROVE  o2[q.schedule] = q.user
    BY <1>2, NoneIsNoId DEF Owned
  <1>3. Compared(q, o, h) => Compared(q, o2, h2)
    BY <1>1, <1>2 DEF Compared, AtHome
  <1>4. \A x : Fits(q, x, h) => Fits(q, x, h2)
    BY DEF Fits
  <1> QED BY <1>3, <1>4 DEF Showing

(* The guards of the routes of what is looked up, for the key of an        *)
(* account (configure_routes of user, calendar, schedule, service, event). *)
LEMMA LookupRoutes ==
    ASSUME NEW op \in LookupOps
    PROVE  /\ op = "GetCalendar" => RouteGuard(op) = "calendar"
           /\ op = "GetSchedule" => RouteGuard(op) = "schedule"
           /\ op = "GetEvent" => RouteGuard(op) = "event"
           /\ op \notin {"GetCalendar", "GetSchedule", "GetEvent"} => RouteGuard(op) = "find"
  <1> DEFINE guards == {UserRoutes(op), CalendarRoutes(op), ScheduleRoutes(op), EventRoutes(op)}
  <1>1. /\ UserRoutes(op) = "find"
        /\ CalendarRoutes(op) = IF op = "GetCalendar" THEN "calendar" ELSE "find"
        /\ ScheduleRoutes(op) = IF op = "GetSchedule" THEN "schedule" ELSE "find"
        /\ EventRoutes(op) = IF op = "GetEvent" THEN "event" ELSE "find"
    BY DEF LookupOps, UserRoutes, CalendarRoutes, ScheduleRoutes, EventRoutes
  <1>2. RouteGuard(op) = IF guards = {"find"} THEN "find" ELSE CHOOSE g \in guards : g # "find"
    BY DEF RouteGuard
  <1>3. ASSUME NEW g, g # "find", guards = {"find", g} PROVE RouteGuard(op) = g
    BY <1>2, <1>3
  <1>4. op = "GetCalendar" => guards = {"find", "calendar"}
    BY <1>1
  <1>5. op = "GetSchedule" => guards = {"find", "schedule"}
    BY <1>1
  <1>6. op = "GetEvent" => guards = {"find", "event"}
    BY <1>1
  <1>7. op \notin {"GetCalendar", "GetSchedule", "GetEvent"} => guards = {"find"}
    BY <1>1
  <1> HIDE DEF guards
  <1> QED BY <1>2, <1>3, <1>4, <1>5, <1>6, <1>7

(* What the rows of the tables show is of a user and one of its accounts.  *)
LEMMA RowsFit ==
    ASSUME NEW d, NEW o, NEW h, Consistent(d, o, h)
    PROVE  /\ \A u \in IdsOf(d.users) : u \in User /\ d.users[u].account \in h[u]
           /\ \A c \in IdsOf(d.calendars) :
                d.calendars[c].user \in User /\ d.calendars[c].account \in h[d.calendars[c].user]
           /\ \A s \in IdsOf(d.schedules) :
                /\ s \in Schedule /\ d.schedules[s].user \in IdsOf(d.users)
                /\ o[s] = d.schedules[s].user
           /\ \A e \in IdsOf(d.events) :
                d.events[e].user \in User /\ d.events[e].account \in h[d.events[e].user]
           /\ \A g \in IdsOf(d.hosts) :
                g[2] \in IdsOf(d.users) /\ d.services[g[1]].account \in h[g[2]]
  <1>0. d \in Database
    BY DEF Consistent
  <1>1. \A u : Stored(d.users, u) => u \in User /\ u \in IdsOf(d.users)
    BY <1>0 DEF Stored, IdsOf, Database
  <1>2. \A u \in IdsOf(d.users) : u \in User /\ d.users[u].account \in h[u]
    BY <1>0 DEF Consistent, UsersAtHome, IdsOf, Database
  <1>3. \A c \in IdsOf(d.calendars) :
            d.calendars[c].user \in User /\ d.calendars[c].account \in h[d.calendars[c].user]
    BY <1>1 DEF Consistent, CalendarsOwned
  <1>4. \A s \in IdsOf(d.schedules) :
            /\ s \in Schedule /\ d.schedules[s].user \in IdsOf(d.users)
            /\ o[s] = d.schedules[s].user
    BY <1>0, <1>1 DEF Consistent, SchedulesOwned, IdsOf, Database
  <1>5. ASSUME NEW e \in IdsOf(d.events)
        PROVE  d.events[e].user \in User /\ d.events[e].account \in h[d.events[e].user]
    <2>1. CalendarOfUser(d, d.events[e].calendar, d.events[e].user)
          /\ d.events[e].account \in h[d.events[e].user]
      BY DEF Consistent, EventsOwned
    <2> QED BY <1>3, <2>1 DEF CalendarOfUser, Stored, IdsOf
  <1>6. \A g \in IdsOf(d.hosts) :
            g[2] \in IdsOf(d.users) /\ d.services[g[1]].account \in h[g[2]]
    BY <1>1 DEF Consistent, HostsPlaced
  <1> QED BY <1>2, <1>3, <1>4, <1>5, <1>6

(* What is shown of a row is its user and its account.                     *)
LEMMA ShownIs ==
    ASSUME NEW ids
    PROVE  /\ \A x \in Users(ids) : \E u \in ids : x.user = u /\ x.account = db.users[u].account
           /\ \A x \in Calendars(ids) : \E c \in ids :
                x.user = db.calendars[c].user /\ x.account = db.calendars[c].account
           /\ \A x \in Schedules(ids) : \E s \in ids :
                x.user = db.schedules[s].user /\ x.account = db.users[db.schedules[s].user].account
           /\ \A x \in Services(ids) : \E v \in ids :
                x.user = None /\ x.account = db.services[v].account
           /\ \A x \in Events(ids) : \E e \in ids :
                x.user = db.events[e].user /\ x.account = db.events[e].account
  <1>1. \A x \in Users(ids) : \E u \in ids : x.user = u /\ x.account = db.users[u].account
    BY DEF Users
  <1>2. \A x \in Calendars(ids) : \E c \in ids :
            x.user = db.calendars[c].user /\ x.account = db.calendars[c].account
    BY DEF Calendars
  <1>3. \A x \in Schedules(ids) : \E s \in ids :
            x.user = db.schedules[s].user /\ x.account = db.users[db.schedules[s].user].account
    BY DEF Schedules
  <1>4. \A x \in Services(ids) : \E v \in ids :
            x.user = None /\ x.account = db.services[v].account
    BY DEF Services
  <1>5. \A x \in Events(ids) : \E e \in ids :
            x.user = db.events[e].user /\ x.account = db.events[e].account
    BY DEF Events
  <1> QED BY <1>1, <1>2, <1>3, <1>4, <1>5

(* Whatever is looked up, the rows shown are of the account or the user    *)
(* that the request was let through for.                                   *)
LEMMA LookupShows ==
    ASSUME AnswerInv, NEW k \in Client, calls[k] # None, LookupsNext(k)
    PROVE  Answer(k) \/ \E rows : Show(k, rows) /\ \A x \in rows : Fits(calls[k], x, homes)
  <1> DEFINE q == calls[k]
             Fit(rows) == \A x \in rows : Fits(q, x, homes)
             Goal == Answer(k) \/ \E rows : Show(k, rows) /\ Fit(rows)
  <1>0. /\ Inv /\ Consistent(db, origin, homes) /\ q.account \in Account
        /\ q.op \in LookupOps /\ Routed(q) /\ Compared(q, origin, homes)
        /\ q.signed # None => q.op \in TokenRoutes
    BY Found DEF AnswerInv, PolicyInv, TokenInv, Showing, LookupsNext, Entitled, Inv, Holds, Shape
  <1>00. None \notin User
    BY NoneIsNoId
  <1>1. ASSUME q.op \notin TokenRoutes,
               NEW us, us \subseteq {u \in IdsOf(db.users) : db.users[u].account = q.account}
        PROVE  Fit(Users(us))
    <2>1. \A u \in us : u \in User /\ q.account \in homes[u] /\ db.users[u].account = q.account
      BY <1>0, <1>1, RowsFit
    <2>2. \A x \in Users(us) : \E u \in us : x.user = u /\ x.account = db.users[u].account
      BY ShownIs
    <2> QED BY <1>0, <1>00, <1>1, <2>1, <2>2 DEF Fits
  <1>2. ASSUME q.op \notin TokenRoutes,
               NEW cs, cs \subseteq {c \in IdsOf(db.calendars) : db.calendars[c].account = q.account}
        PROVE  Fit(Calendars(cs))
    <2>1. \A c \in cs : db.calendars[c].user \in User /\ db.calendars[c].account = q.account
                        /\ db.calendars[c].account \in homes[db.calendars[c].user]
      BY <1>0, <1>2, RowsFit
    <2>2. \A x \in Calendars(cs) : \E c \in cs :
                x.user = db.calendars[c].user /\ x.account = db.calendars[c].account
      BY ShownIs
    <2> QED BY <1>0, <1>00, <1>2, <2>1, <2>2 DEF Fits
  <1>3. ASSUME q.op \notin TokenRoutes,
               NEW es, es \subseteq {e \in IdsOf(db.events) : db.events[e].account = q.account}
        PROVE  Fit(Events(es))
    <2>1. \A e \in es : db.events[e].user \in User /\ db.events[e].account = q.account
                        /\ db.events[e].account \in homes[db.events[e].user]
      BY <1>0, <1>3, RowsFit
    <2>2. \A x \in Events(es) : \E e \in es :
                x.user = db.events[e].user /\ x.account = db.events[e].account
      BY ShownIs
    <2> QED BY <1>0, <1>00, <1>3, <2>1, <2>2 DEF Fits
  <1>4. ASSUME q.op \notin TokenRoutes,
               NEW ss, ss \subseteq {s \in IdsOf(db.schedules) :
                                        UserInAccount(db, db.schedules[s].user, q.account)}
        PROVE  Fit(Schedules(ss))
    <2>1. \A s \in ss : /\ db.schedules[s].user \in User
                        /\ db.users[db.schedules[s].user].account = q.account
                        /\ q.account \in homes[db.schedules[s].user]
      BY <1>0, <1>4, RowsFit DEF UserInAccount
    <2>2. \A x \in Schedules(ss) : \E s \in ss :
                x.user = db.schedules[s].user /\ x.account = db.users[db.schedules[s].user].account
      BY ShownIs
    <2> QED BY <1>0, <1>00, <1>4, <2>1, <2>2 DEF Fits
  <1>5. ASSUME q.op \notin TokenRoutes,
               NEW vs, vs \subseteq {v \in IdsOf(db.services) : db.services[v].account = q.account}
        PROVE  Fit(Services(vs))
    <2>1. \A x \in Services(vs) : \E v \in vs : x.user = None /\ x.account = db.services[v].account
      BY ShownIs
    <2> QED BY <1>0, <1>5, <2>1 DEF Fits
  <1>6. ASSUME NEW op, q.op = op, op \in {"GetUser", "GetUserByExternalId", "GetUsersByMeta", "GetCalendarsByMeta",
                            "GetSchedulesByMeta", "GetService", "GetServicesByMeta",
                            "GetEventByExternalId", "GetEventsByMeta"}
        PROVE  q.op \notin TokenRoutes
    BY <1>6 DEF TokenRoutes
  <1>7. ASSUME NEW all, Fit(all), NEW op, ShowSome(k, op, all) PROVE Goal
    BY <1>7 DEF ShowSome
  <1> HIDE DEF Fit
  <1>8. GetUser(k) \/ GetUserByExternalId(k) => Goal
    <2>1. CASE GetUser(k)
      <3> DEFINE us == {u \in {q.user} : UserInAccount(db, u, q.account)}
      <3>1. q.op = "GetUser" /\ Show(k, Users(us))
        BY <2>1 DEF GetUser, At
      <3>2. us \subseteq {u \in IdsOf(db.users) : db.users[u].account = q.account}
        BY DEF UserInAccount, Stored, IdsOf
      <3> HIDE DEF us
      <3> QED BY <1>1, <1>6, <3>1, <3>2
    <2>2. CASE GetUserByExternalId(k)
      <3> DEFINE us == {u \in UserByExternalId(q.key) : UserInAccount(db, u, q.account)}
      <3>1. q.op = "GetUserByExternalId" /\ Show(k, Users(us))
        BY <2>2 DEF GetUserByExternalId, At
      <3>2. us \subseteq {u \in IdsOf(db.users) : db.users[u].account = q.account}
        BY DEF UserInAccount, Stored, IdsOf
      <3> HIDE DEF us
      <3> QED BY <1>1, <1>6, <3>1, <3>2
    <2> QED BY <2>1, <2>2
  <1>9. GetUsersByMeta(k) \/ GetCalendarsByMeta(k) \/ GetSchedulesByMeta(k) => Goal
    <2>1. CASE GetUsersByMeta(k)
      <3>1. ShowSome(k, "GetUsersByMeta", Users(UsersByMeta(q)))
        BY <2>1 DEF GetUsersByMeta
      <3>2. UsersByMeta(q) \subseteq {u \in IdsOf(db.users) : db.users[u].account = q.account}
        BY DEF UsersByMeta
      <3>3. q.op = "GetUsersByMeta"
        BY <3>1 DEF ShowSome, At
      <3> QED BY <1>1, <1>6, <1>7, <3>1, <3>2, <3>3
    <2>2. CASE GetCalendarsByMeta(k)
      <3>1. ShowSome(k, "GetCalendarsByMeta", Calendars(CalendarsByMeta(q)))
        BY <2>2 DEF GetCalendarsByMeta
      <3>2. CalendarsByMeta(q) \subseteq
                {c \in IdsOf(db.calendars) : db.calendars[c].account = q.account}
        BY DEF CalendarsByMeta
      <3>3. q.op = "GetCalendarsByMeta"
        BY <3>1 DEF ShowSome, At
      <3> QED BY <1>2, <1>6, <1>7, <3>1, <3>2, <3>3
    <2>3. CASE GetSchedulesByMeta(k)
      <3>1. ShowSome(k, "GetSchedulesByMeta", Schedules(SchedulesByMeta(q)))
        BY <2>3 DEF GetSchedulesByMeta
      <3>2. SchedulesByMeta(q) \subseteq
                {s \in IdsOf(db.schedules) : UserInAccount(db, db.schedules[s].user, q.account)}
        BY DEF SchedulesByMeta
      <3>3. q.op = "GetSchedulesByMeta"
        BY <3>1 DEF ShowSome, At
      <3> QED BY <1>4, <1>6, <1>7, <3>1, <3>2, <3>3
    <2> QED BY <2>1, <2>2, <2>3
  <1>10. GetServicesByMeta(k) \/ GetEventsByMeta(k) \/ GetEventByExternalId(k) => Goal
    <2>1. CASE GetServicesByMeta(k)
      <3>1. ShowSome(k, "GetServicesByMeta", Services(ServicesByMeta(q)))
        BY <2>1 DEF GetServicesByMeta
      <3>2. ServicesByMeta(q) \subseteq
                {v \in IdsOf(db.services) : db.services[v].account = q.account}
        BY DEF ServicesByMeta
      <3>3. q.op = "GetServicesByMeta"
        BY <3>1 DEF ShowSome, At
      <3> QED BY <1>5, <1>6, <1>7, <3>1, <3>2, <3>3
    <2>2. CASE GetEventsByMeta(k)
      <3>1. ShowSome(k, "GetEventsByMeta", Events(EventsByMeta(q)))
        BY <2>2 DEF GetEventsByMeta
      <3>2. EventsByMeta(q) \subseteq {e \in IdsOf(db.events) : db.events[e].account = q.account}
        BY DEF EventsByMeta
      <3>3. q.op = "GetEventsByMeta"
        BY <3>1 DEF ShowSome, At
      <3> QED BY <1>3, <1>6, <1>7, <3>1, <3>2, <3>3
    <2>3. CASE GetEventByExternalId(k)
      <3>1. q.op = "GetEventByExternalId" /\ Show(k, Events(EventsByExternalId(q)))
        BY <2>3 DEF GetEventByExternalId, At
      <3>2. EventsByExternalId(q) \subseteq
                {e \in IdsOf(db.events) : db.events[e].account = q.account}
        BY DEF EventsByExternalId
      <3> QED BY <1>3, <1>6, <3>1, <3>2
    <2> QED BY <2>1, <2>2, <2>3
  <1>11. GetService(k) => Goal
    <2> DEFINE hosts == ServiceWithUsers(q.service)
               rows == IF ServiceInAccount(db, q.service, q.account)
                       THEN Services({q.service}) \union Users(hosts) ELSE {}
    <2>1. SUFFICES ASSUME GetService(k) PROVE Goal
      OBVIOUS
    <2>2. q.op = "GetService" /\ Show(k, rows)
      BY <2>1 DEF GetService, At
    <2>3. ASSUME ServiceInAccount(db, q.service, q.account), NEW x \in Services({q.service})
          PROVE  Fits(q, x, homes)
      <3>1. {q.service} \subseteq {v \in IdsOf(db.services) : db.services[v].account = q.account}
        BY <2>3 DEF ServiceInAccount, Stored, IdsOf
      <3> QED BY <1>5, <1>6, <2>2, <2>3, <3>1 DEF Fit
    <2>4. ASSUME ServiceInAccount(db, q.service, q.account), NEW x \in Users(hosts)
          PROVE  Fits(q, x, homes)
      <3>1. PICK u \in hosts : x.user = u /\ x.account = db.users[u].account
        BY ShownIs
      <3>2. PICK h \in IdsOf(db.hosts) : h[1] = q.service /\ u = h[2]
        BY <3>1 DEF ServiceWithUsers
      <3>3. u \in IdsOf(db.users) /\ db.services[q.service].account \in homes[u]
        BY <1>0, <3>2, RowsFit
      <3>4. u \in User /\ db.users[u].account \in homes[u] /\ q.account \in homes[u]
        BY <1>0, <2>4, <3>3, RowsFit DEF ServiceInAccount
      <3> QED BY <1>0, <1>00, <1>6, <2>2, <3>1, <3>4 DEF Fits
    <2>5. Fit(rows)
      BY <2>3, <2>4 DEF Fit
    <2> HIDE DEF rows
    <2> QED BY <2>2, <2>5
  <1>12. GetMe(k) => Goal
    <2> DEFINE x == [id |-> q.user, user |-> q.user, account |-> q.row.account]
    <2>1. SUFFICES ASSUME GetMe(k) PROVE Goal
      OBVIOUS
    <2>2. q.op = "GetMe" /\ q.at = "find" /\ Show(k, {x})
      BY <2>1 DEF GetMe, At
    <2>3. AtHome(q, homes) /\ q.row.account = q.account /\ x.user = q.user /\ x.account = q.row.account
      BY <1>0, <2>2 DEF Compared
    <2> HIDE DEF x
    <2>4. Fits(q, x, homes)
      BY <1>00, <2>3 DEF Fits, AtHome
    <2> QED BY <2>2, <2>4 DEF Fit
  <1>13. GetCalendar(k) \/ GetCalendars(k) => Goal
    <2>1. ASSUME NEW cs, q.op \in {"GetCalendar", "GetCalendars"}, q.at = "find",
                 \A c \in cs : c \in IdsOf(db.calendars) /\ db.calendars[c].user = q.user
          PROVE  Fit(Calendars(cs))
      <3>1. ASSUME NEW x \in Calendars(cs) PROVE Fits(q, x, homes)
        <4>1. PICK c \in cs : x.user = db.calendars[c].user /\ x.account = db.calendars[c].account
          BY ShownIs
        <4>2. x.user = q.user /\ x.user \in User /\ x.account \in homes[x.user]
          BY <1>0, <2>1, <4>1, RowsFit
        <4>3. AtHome(q, homes) \/ (q.op = "GetCalendars" /\ q.signed = None)
          BY <1>0, <2>1 DEF Compared
        <4> QED BY <1>00, <4>2, <4>3 DEF Fits, AtHome
      <3> QED BY <3>1 DEF Fit
    <2>2. CASE GetCalendar(k)
      <3> DEFINE cs == {c \in {q.calendar} : CalendarOfUser(db, c, q.user)}
      <3>1. q.op = "GetCalendar" /\ q.at = "find" /\ Show(k, Calendars(cs))
        BY <2>2 DEF GetCalendar, At
      <3>2. \A c \in cs : c \in IdsOf(db.calendars) /\ db.calendars[c].user = q.user
        BY DEF CalendarOfUser, Stored, IdsOf
      <3> HIDE DEF cs
      <3> QED BY <2>1, <3>1, <3>2
    <2>3. CASE GetCalendars(k)
      <3> DEFINE cs == IF q.key = None THEN CalendarsOf(db, q.user) ELSE CalendarsByKey(q.user, q.key)
      <3>1. q.op = "GetCalendars" /\ q.at = "find" /\ Show(k, Calendars(cs))
        BY <2>3 DEF GetCalendars, At
      <3>2. \A c \in cs : c \in IdsOf(db.calendars) /\ db.calendars[c].user = q.user
        BY DEF CalendarsOf, CalendarsByKey
      <3> HIDE DEF cs
      <3> QED BY <2>1, <3>1, <3>2
    <2> QED BY <2>2, <2>3
  <1>14. GetSchedule(k) => Goal
    <2> DEFINE ss == {s \in {q.schedule} : Stored(db.schedules, s)}
    <2>1. SUFFICES ASSUME GetSchedule(k) PROVE Goal
      OBVIOUS
    <2>2. q.op = "GetSchedule" /\ q.at = "find" /\ Show(k, Schedules(ss))
      BY <2>1 DEF GetSchedule, At
    <2>3. \A s \in ss : s = q.schedule /\ s \in IdsOf(db.schedules)
      BY DEF Stored, IdsOf
    <2> HIDE DEF ss
    <2>4. ASSUME NEW x \in Schedules(ss) PROVE Fits(q, x, homes)
      <3> DEFINE u == db.schedules[q.schedule].user
      <3>1. x.user = u /\ x.account = db.users[u].account /\ q.schedule \in IdsOf(db.schedules)
        <4>1. PICK s \in ss : x.user = db.schedules[s].user
                              /\ x.account = db.users[db.schedules[s].user].account
          BY ShownIs
        <4> QED BY <2>3, <4>1
      <3>2. u \in User /\ x.account \in homes[u] /\ origin[q.schedule] = u
        BY <1>0, <3>1, RowsFit
      <3>3. q.signed # None \/ (AtHome(q, homes) /\ origin[q.schedule] = q.user)
        BY <1>0, <2>2 DEF Compared
      <3> HIDE DEF u
      <3> QED BY <1>00, <2>2, <3>1, <3>2, <3>3 DEF Fits, AtHome
    <2> QED BY <2>2, <2>4 DEF Fit
  <1>15. GetEvent(k) => Goal
    <2> DEFINE x == [id |-> q.event, user |-> q.row.user, account |-> q.row.account]
               es == {e \in {q.event} : EventOfUser(db, e, q.user)}
    <2>1. \/ GetEvent(k) => q.op = "GetEvent" /\ q.at = "guarded" /\ Show(k, {x})
          \/ GetEvent(k) => q.op = "GetEvent" /\ q.at = "find" /\ Show(k, Events(es))
      BY DEF GetEvent, At
    <2>2. CASE q.op = "GetEvent" /\ q.at = "guarded" /\ Show(k, {x})
      <3>1. AtHome(q, homes) /\ x.account = q.account /\ x.user = q.user
        BY <1>0, <2>2 DEF Compared
      <3> HIDE DEF x
      <3>2. Fits(q, x, homes)
        BY <1>00, <3>1 DEF Fits, AtHome
      <3> QED BY <2>2, <3>2 DEF Fit
    <2>3. CASE q.op = "GetEvent" /\ q.at = "find" /\ Show(k, Events(es))
      <3>1. \A e \in es : e \in IdsOf(db.events) /\ db.events[e].user = q.user
        BY DEF EventOfUser, Stored, IdsOf
      <3> HIDE DEF es
      <3>2. ASSUME NEW y \in Events(es) PROVE Fits(q, y, homes)
        <4>1. PICK e \in es : y.user = db.events[e].user /\ y.account = db.events[e].account
          BY ShownIs
        <4>2. y.user = q.user /\ y.user \in User /\ y.account \in homes[y.user]
          BY <1>0, <3>1, <4>1, RowsFit
        <4>3. AtHome(q, homes)
          BY <1>0, <2>3 DEF Compared
        <4> QED BY <1>00, <4>2, <4>3 DEF Fits, AtHome
      <3> QED BY <2>3, <3>2 DEF Fit
    <2> HIDE DEF Goal
    <2> QED BY <2>1, <2>2, <2>3
  <1> HIDE DEF Goal
  <1>16. Goal
    <2>1. Answer(k) => Goal
      BY DEF Goal
    <2> QED BY <1>8, <1>9, <1>10, <1>11, <1>12, <1>13, <1>14, <1>15, <2>1 DEF LookupsNext
  <1> QED BY <1>16 DEF Goal, Fit

(* A guard has compared what its use case shows with the account, or with  *)
(* the user of the token (route_guards.rs).                                *)
LEMMA GuardShows ==
    ASSUME AnswerInv, NEW k \in Client, calls[k] # None, Guard(k), calls'[k] # None
    PROVE  Showing(calls'[k], origin, homes)
  <1> DEFINE q == calls[k]
             c == calls'[k]
  <1>0. /\ Inv /\ Consistent(db, origin, homes) /\ DOMAIN calls = Client /\ DOMAIN q = DOMAIN Blank
        /\ q.op \in LookupOps => Routed(q)
        /\ q.account \in Account
    BY Found DEF AnswerInv, PolicyInv, TokenInv, Showing, Holds, Shape
  <1>1. Core(q, c) /\ c.at \in {"user", "find", "guarded"}
    <2>1. Plainly(k, {"user", "find", "guarded"})
      BY <1>0, GuardTrail
    <2> QED BY <1>0, <2>1 DEF Plainly, Answer
  <1>2. CASE q.op \notin LookupOps
    BY <1>1, <1>2 DEF Showing, Core
  <1>3. ASSUME NEW s, NEW row, Proceed(k, s, row)
        PROVE  c.at = s /\ c.row = row /\ c.user = q.user /\ c.account = q.account
    <2>1. PICK r : calls' = [calls EXCEPT ![k] = r] /\ SameCall(q, r) /\ r.at = s /\ r.row = row
      BY <1>0, <1>3, ProceedIs
    <2> QED BY <1>0, <2>1 DEF SameCall, SameOrder
  <1>4. ~Answer(k)
    BY <1>0 DEF Answer
  <1>5. CASE q.op \in LookupOps /\ q.at \in {"account", "public"}
    <2>1. GuardAccount(k) /\ q.at = "account" /\ q.signed # None
      BY <1>0, <1>5 DEF Guard, Routed
    <2>2. \E row : Proceed(k, "user", row)
      BY <1>4, <2>1 DEF GuardAccount, Refused
    <2>3. c.at = "user" /\ c.op = q.op /\ c.signed = q.signed
      BY <1>1, <1>3, <2>2 DEF Core
    <2> QED BY <1>0, <1>5, <2>1, <2>3 DEF Showing, Routed, Compared
  <1>6. CASE q.op \in LookupOps /\ q.at = "user"
    <2>1. GuardUser(k) /\ q.signed # None
      BY <1>0, <1>6 DEF Guard, Routed
    <2>2. UserInAccount(db, q.user, q.account) /\ Proceed(k, "find", db.users[q.user])
      BY <1>4, <2>1 DEF GuardUser, Refused
    <2>3. c.at = "find" /\ c.op = q.op /\ c.signed = q.signed /\ c.user = q.user
          /\ c.account = q.account /\ c.row = db.users[q.user]
      BY <1>1, <1>3, <2>2 DEF Core
    <2>4. q.user \in User /\ q.account \in homes[q.user] /\ db.users[q.user].account = q.account
      BY <1>0, <2>2, RowsFit DEF UserInAccount, Stored, IdsOf
    <2> QED BY <1>0, <1>6, <2>1, <2>3, <2>4 DEF Showing, Routed, Compared, AtHome
  <1>7. CASE q.op \in LookupOps /\ q.at = "calendar"
    <2> DEFINE u == db.calendars[q.calendar].user
               r == [q EXCEPT !.at = "find", !.user = u]
    <2>1. GuardCalendar(k) /\ q.op = "GetCalendar"
      BY <1>0, <1>7 DEF Guard, Routed
    <2>2. /\ Stored(db.calendars, q.calendar) /\ db.calendars[q.calendar].account = q.account
          /\ calls' = [calls EXCEPT ![k].at = "find", ![k].user = u]
      BY <1>4, <2>1 DEF GuardCalendar, Refused
    <2>3. u \in User /\ q.account \in homes[u]
      BY <1>0, <2>2, RowsFit DEF Stored, IdsOf
    <2> HIDE DEF u
    <2>4. c = r
      BY <1>0, <2>2
    <2>5. r.at = "find" /\ r.op = "GetCalendar" /\ r.user = u /\ r.account = q.account
      BY <1>0, <2>1 DEF Blank
    <2> HIDE DEF r
    <2> QED BY <2>3, <2>4, <2>5 DEF Showing, Routed, Compared, AtHome
  <1>8. CASE q.op \in LookupOps /\ q.at = "schedule"
    <2> DEFINE u == db.schedules[q.schedule].user
               r == [q EXCEPT !.at = "find", !.user = u]
    <2>1. GuardSchedule(k) /\ q.op = "GetSchedule"
      BY <1>0, <1>8 DEF Guard, Routed
    <2>2. /\ Stored(db.schedules, q.schedule) /\ UserInAccount(db, u, q.account)
          /\ calls' = [calls EXCEPT ![k].at = "find", ![k].user = u]
      BY <1>4, <2>1 DEF GuardSchedule, Refused
    <2>3. /\ u \in User /\ q.account \in homes[u] /\ q.schedule \in Schedule
          /\ origin[q.schedule] = u
      <3>1. q.schedule \in IdsOf(db.schedules)
        BY <2>2 DEF Stored, IdsOf
      <3>2. u \in IdsOf(db.users) /\ db.users[u].account = q.account
        BY <2>2 DEF UserInAccount, Stored, IdsOf
      <3> QED BY <1>0, <3>1, <3>2, RowsFit
    <2> HIDE DEF u
    <2>4. c = r
      BY <1>0, <2>2
    <2>5. r.at = "find" /\ r.op = "GetSchedule" /\ r.user = u /\ r.account = q.account
          /\ r.schedule = q.schedule
      BY <1>0, <2>1 DEF Blank
    <2> HIDE DEF r
    <2> QED BY <2>3, <2>4, <2>5 DEF Showing, Routed, Compared, AtHome
  <1>9. CASE q.op \in LookupOps /\ q.at = "event"
    <2> DEFINE row == db.events[q.event]
               r == [q EXCEPT !.at = "guarded", !.row = row, !.user = row.user]
    <2>1. GuardEvent(k) /\ q.op = "GetEvent"
      BY <1>0, <1>9 DEF Guard, Routed
    <2>2. /\ Stored(db.events, q.event) /\ row.account = q.account
          /\ calls' = [calls EXCEPT ![k].at = "guarded", ![k].row = row, ![k].user = row.user]
      BY <1>4, <2>1 DEF GuardEvent, Refused
    <2>3. row.user \in User /\ q.account \in homes[row.user]
      BY <1>0, <2>2, RowsFit DEF Stored, IdsOf
    <2> HIDE DEF row
    <2>4. c = r
      BY <1>0, <2>2
    <2>5. r.at = "guarded" /\ r.op = "GetEvent" /\ r.user = row.user /\ r.account = q.account
          /\ r.row = row
      BY <1>0, <2>1 DEF Blank
    <2> HIDE DEF r
    <2> QED BY <2>2, <2>3, <2>4, <2>5 DEF Showing, Routed, Compared, AtHome
  <1> QED BY <1>2, <1>5, <1>6, <1>7, <1>8, <1>9 DEF Guard

(* Whatever a request does next, it shows what it may.                     *)
LEMMA StepShows ==
    ASSUME AnswerInv, TokenInv', NEW k \in Client, Step(k), calls'[k] # None
    PROVE  Showing(calls'[k], origin, homes)
  <1> DEFINE q == calls[k]
  <1>0. TokenInv /\ Inv /\ DOMAIN calls = Client
    BY DEF AnswerInv, PolicyInv, TokenInv, Inv
  <1>1. CASE Begin(k)
    <2>1. PICK a, r : /\ Asked(a) /\ calls' = [calls EXCEPT ![k] = r] /\ SameCall(a, r)
                      /\ r.at = Entry(a) /\ r.at \in Guards \union {"find", "apikey"}
      BY <1>0, <1>1, BeginTrail
    <2>2. calls'[k] = r /\ r.op = a.op /\ r.signed = a.signed
      BY <1>0, <2>1 DEF SameCall, SameOrder
    <2>3. CASE r.op \in LookupOps
      <3>1. a.op \notin ByKeyOnly
        BY <2>2, <2>3 DEF LookupOps, ByKeyOnly
      <3>2. a.server = None /\ (a.op = "GetMe" => a.signed # None)
        BY <2>1, <3>1 DEF Asked
      <3>3. r.at = IF a.signed # None THEN "account" ELSE RouteGuard(a.op)
        BY <2>1, <3>2 DEF Entry
      <3>4. Routed(r) /\ Compared(r, origin, homes) /\ r.at # "shown"
        <4>1. CASE a.signed # None
          BY <2>2, <3>2, <3>3, <4>1 DEF Routed, Compared
        <4>2. CASE a.signed = None
          BY <2>2, <2>3, <3>2, <3>3, <4>2, LookupRoutes DEF Routed, Compared
        <4> QED BY <4>1, <4>2
      <3> QED BY <2>2, <3>4 DEF Showing
    <2> QED BY <2>2, <2>3 DEF Showing
  <1>2. ASSUME q # None, Handle(k) PROVE Showing(calls'[k], origin, homes)
    <2>1. ASSUME NEW r, calls' = [calls EXCEPT ![k] = r], Core(q, r), q.op \notin LookupOps
          PROVE  Showing(calls'[k], origin, homes)
      BY <1>0, <2>1 DEF Core, Showing
    <2>2. ASSUME NEW steps, Plainly(k, steps)
          PROVE  \E r : calls' = [calls EXCEPT ![k] = r] /\ Core(q, r)
      BY <1>0, <2>2 DEF Plainly, Answer
    <2>3. CASE Guard(k)
      BY <1>2, <2>3, GuardShows
    <2>4. CASE DirectoryNext(k)
      <3>1. q.op \notin LookupOps /\ Moved(k, DirectorySteps) /\ ~Answer(k)
        BY <1>0, <1>2, <2>4, DirectoryTrail DEF Answer, OwnedOps, ServiceOps, LookupOps
      <3>2. \E r : calls' = [calls EXCEPT ![k] = r] /\ SameCall(q, r)
        BY <1>0, <1>2, <3>1, GotoIs, ProceedIs DEF Moved
      <3> QED BY <2>1, <3>1, <3>2 DEF SameCall, SameOrder, Core
    <2>5. CASE LookupsNext(k)
      <3>1. PICK rows : Show(k, rows) /\ \A x \in rows : Fits(q, x, homes)
        BY <1>0, <1>2, <2>5, LookupShows DEF Answer
      <3>2. rows # {}
        BY <1>0, <3>1 DEF Show
      <3> DEFINE r == [q EXCEPT !.at = "shown", !.row = None, !.todo = rows]
      <3>3. calls' = [calls EXCEPT ![k] = r]
        BY <1>0, <3>1, <3>2 DEF Show
      <3>4. /\ r.at = "shown" /\ r.op = q.op /\ r.signed = q.signed /\ r.todo = rows
            /\ r.account = q.account /\ r.user = q.user
        BY <1>0, <1>2, Found DEF Blank
      <3> HIDE DEF r
      <3>5. \A x \in rows : Fits(r, x, homes)
        BY <3>1, <3>4 DEF Fits
      <3>6. q.op \in LookupOps => Routed(r) /\ Compared(r, origin, homes)
        BY <1>2, <3>4 DEF AnswerInv, Showing, Routed, Compared
      <3> QED BY <1>0, <3>3, <3>4, <3>5, <3>6 DEF Showing
    <2>6. CASE IntegrationsNext(k)
      <3>1. q.op \notin LookupOps
        BY <2>6 DEF IntegrationsNext, IntegrationOps, LookupOps
      <3>2. \E r : calls' = [calls EXCEPT ![k] = r] /\ Core(q, r)
        BY <1>0, <1>2, <2>6, IntegrationTrail DEF Answer
      <3> QED BY <2>1, <3>1, <3>2
    <2>7. CASE EventQueriesNext(k)
      <3>1. q.op \notin LookupOps
        BY <1>0, <1>2, <2>7, QueryTrail DEF QueryOps, Searches, LookupOps, Answer
      <3> QED BY <1>0, <1>2, <2>1, <2>2, <2>7, <3>1, QueryTrail
    <2>8. CASE StatementFails(k)
      BY <1>0, <2>8 DEF StatementFails, Answer
    <2>9. CASE EventSyncNext(k)
      <3>1. q.op \notin LookupOps
        BY <1>0, <1>2, <2>9, EventTrail DEF Syncing, Copied, Creates, LookupOps
      <3>2. \E r : calls' = [calls EXCEPT ![k] = r] /\ Core(q, r)
        BY <1>0, <1>2, <2>9, EventTrail
      <3> QED BY <2>1, <3>1, <3>2
    <2>10. CASE AccountsNext(k)
      <3>1. q.op \notin LookupOps
        BY <1>0, <1>2, <2>10, AccountTrail DEF AccountOps, LookupOps
      <3> QED BY <1>0, <1>2, <2>1, <2>2, <2>10, <3>1, AccountTrail
    <2> QED BY <1>2, <2>3, <2>4, <2>5, <2>6, <2>7, <2>8, <2>9, <2>10 DEF Handle
  <1> QED BY <1>1, <1>2 DEF Step

(* What a request is shown is of its account, and for a token of its user, *)
(* whatever is deleted and created between the guard and the lookup,       *)
(* unless a user id was given to two accounts (AnswersOwn; route_guards.rs *)
(* and the get use cases of user, calendar, schedule, service and event).  *)
THEOREM AnswersStayOwn == Spec => []AnswersOwn
  <1>1. Init => AnswerInv
    <2>1. Init => \A k \in Client : calls[k] = None
      BY DEF Init
    <2>2. Init => PolicyInv
      BY <2>1, InitInv, DatabasesAssumption DEF Init, PolicyInv, TokenInv, GrantsLive
    <2> QED BY <2>1, <2>2 DEF AnswerInv
  <1>2. AnswerInv /\ PolicyInv' /\ [Next]_serverVars => AnswerInv'
    <2>1. ASSUME AnswerInv, PolicyInv', NEW k \in Client, Step(k) PROVE AnswerInv'
      <3>1. Inv /\ Fine(k) /\ TokenInv'
        BY <2>1, StepFine DEF AnswerInv, PolicyInv, TokenInv
      <3>2. ASSUME NEW j \in Client, calls'[j] # None PROVE Showing(calls'[j], origin, homes)
        BY <2>1, <3>1, <3>2, StepShows DEF Fine, CallFine, AnswerInv
      <3>3. /\ \A x \in Owned : origin[x] # None => origin'[x] = origin[x]
            /\ \A u \in User : homes[u] \subseteq homes'[u]
        BY <3>1 DEF Fine, GhostsFine
      <3>4. ASSUME NEW j \in Client, calls'[j] # None PROVE Showing(calls'[j], origin', homes')
        BY <3>2, <3>3, <3>4, ShowingOn
      <3> QED BY <2>1, <3>4 DEF AnswerInv
    <2>2. ASSUME AnswerInv, PolicyInv', Tick \/ UNCHANGED serverVars PROVE AnswerInv'
      <3>1. UNCHANGED <<calls, origin, homes>>
        BY <2>2 DEF Tick, ghostVars, serverVars, requestVars
      <3> QED BY <2>2, <3>1 DEF AnswerInv
    <2> QED BY <2>1, <2>2 DEF Next
  <1>3. AnswerInv => AnswersOwn
    <2> SUFFICES ASSUME AnswerInv, NEW k \in Client, calls[k] # None, calls[k].at = "shown",
                        NEW x \in calls[k].todo
                 PROVE  LET q == calls[k] IN
                        /\ (x.user # None => Settled(x.user)) =>
                                \/ x.account = q.account
                                \/ q.op = "GetCalendars" /\ q.signed = None
                                \/ q.op = "GetSchedule" /\ q.signed # None
                        /\ q.signed # None => x.user = q.user \/ q.op = "GetSchedule"
      BY DEF AnswersOwn
    <2>1. Inv /\ calls[k].op \in LookupOps
      BY DEF AnswerInv, PolicyInv, TokenInv, Timely
    <2>2. Fits(calls[k], x, homes)
      BY <2>1 DEF AnswerInv, Showing
    <2> QED BY <2>1, <2>2, SettledIs DEF Fits
  <1> QED BY <1>1, <1>2, <1>3, PoliciesKept, PTL DEF Spec

----------------------------------------------------------------------------
(* Caches that agree with the table.                                       *)

(* A statement counts the failure it meets, and the scenario goes on.      *)
Counts == UNCHANGED scenario /\ (UNCHANGED failures \/ failures' = failures + 1)
LEMMA DirectoryCounts ==
    ASSUME NEW k \in Client, DirectoryNext(k)
    PROVE  Counts
  <1>1. CreateUser(k) \/ UpdateUser(k) \/ DeleteUser(k) => Counts
    BY Zenon DEF CreateUser, UpdateUser, DeleteUser, Find, Save, Write, DirectoryUnchanged, bounds, Counts
  <1>2. CreateCalendar(k) => Counts
    BY Zenon DEF CreateCalendar, DirectoryUnchanged, bounds, Counts
  <1>3. UpdateCalendar(k) \/ DeleteCalendar(k) => Counts
    BY Zenon DEF UpdateCalendar, DeleteCalendar, Find, Save, Write, DirectoryUnchanged, bounds, Counts
  <1>4. CreateSchedule(k) \/ UpdateSchedule(k) \/ DeleteSchedule(k) => Counts
    BY Zenon DEF CreateSchedule, UpdateSchedule, DeleteSchedule, Find, Save, Write,
                 DirectoryUnchanged, bounds, Counts
  <1>5. CreateService(k) \/ DeleteService(k) => Counts
    BY Zenon DEF CreateService, DeleteService, Find, Write, DirectoryUnchanged, bounds, Counts
  <1>6. AddUserToService(k) \/ UpdateServiceUser(k) \/ RemoveUserFromService(k) => Counts
    BY Zenon DEF AddUserToService, UpdateServiceUser, RemoveUserFromService, CheckPlan, Find, Write,
                 DirectoryUnchanged, bounds, Counts
  <1>7. AddBusyCalendar(k) \/ RemoveBusyCalendar(k) => Counts
    BY Zenon DEF AddBusyCalendar, RemoveBusyCalendar, Find, Write, DirectoryUnchanged, bounds, Counts
  <1> QED BY <1>1, <1>2, <1>3, <1>4, <1>5, <1>6, <1>7 DEF DirectoryNext

(* So does obtaining a token.                                              *)
LEMMA TokenCounts ==
    ASSUME NEW k \in Client, NEW withoutProvider, GetAccessToken(k, withoutProvider)
    PROVE  Counts
  BY Zenon DEF GetAccessToken, FindToken, FindClient, RenewToken, StoreToken,
               IntegrationsUnchanged, bounds, Counts

LEMMA IntegrationsCount ==
    ASSUME NEW k \in Client, IntegrationsNext(k)
    PROVE  Counts
  <1>1. AddAccountIntegration(k) \/ RemoveAccountIntegration(k) \/ RemoveIntegration(k) => Counts
    BY Zenon DEF AddAccountIntegration, RemoveAccountIntegration, RemoveIntegration,
                 IntegrationsUnchanged, bounds, Counts
  <1>2. OAuthIntegration(k) => Counts
    BY Zenon DEF OAuthIntegration, IntegrationsUnchanged, bounds, Counts
  <1>3. GetExternalCalendars(k) \/ AddSyncCalendar(k) \/ RemoveSyncCalendar(k) => Counts
    BY Zenon DEF GetExternalCalendars, AddSyncCalendar, RemoveSyncCalendar,
                 IntegrationsUnchanged, bounds, Counts
  <1>4. AddExtBusyCalendar(k) \/ RemoveExtBusyCalendar(k) => Counts
    BY Zenon DEF AddExtBusyCalendar, RemoveExtBusyCalendar, IntegrationsUnchanged, bounds, Counts
  <1> QED BY <1>1, <1>2, <1>3, <1>4, TokenCounts DEF IntegrationsNext

LEMMA EventsCount ==
    ASSUME NEW k \in Client, EventSyncNext(k)
    PROVE  Counts
  <1>1. CreateEvent(k) \/ CreateBatchEvents(k) => Counts
    BY Zenon DEF CreateEvent, CreateBatchEvents, EventUseCase, bounds, Counts
  <1>2. UpdateEvent(k) \/ DeleteEvent(k) \/ DeleteManyEvents(k) => Counts
    BY Zenon DEF UpdateEvent, DeleteEvent, DeleteManyEvents, EventUseCase, bounds, Counts
  <1>3. ASSUME NEW ops, NEW rows, FindCopies(k, ops, rows) PROVE Counts
    BY <1>3, Zenon DEF FindCopies, SyncUnchanged, bounds, Counts
  <1>4. FindCopiesOwner(k) => Counts
    BY Zenon DEF FindCopiesOwner, SyncUnchanged, bounds, Counts
  <1>5. CreateCopy(k) \/ RecordCopy(k) => Counts
    BY Zenon DEF CreateCopy, RecordCopy, SyncUnchanged, bounds, Counts
  <1>6. ChangeCopy(k) \/ RemoveCopy(k) => Counts
    BY Zenon DEF ChangeCopy, RemoveCopy, SyncUnchanged, bounds, Counts
  <1> QED BY <1>1, <1>2, <1>3, <1>4, <1>5, <1>6, TokenCounts DEF EventSyncNext

LEMMA StepCounts ==
    ASSUME Inv, NEW k \in Client, Step(k)
    PROVE  Counts
  <1>1. Begin(k) \/ StatementFails(k) => Counts
    BY DEF Begin, StatementFails, Counts
  <1>2. ASSUME calls[k] # None, Guard(k) \/ LookupsNext(k) PROVE Counts
    BY <1>2, LookupMoves DEF Guard, bounds, Counts
  <1>4. EventQueriesNext(k) => Counts
    BY QueryMoves DEF EventQueriesNext, Counts
  <1>5. AccountsNext(k) => Counts
    BY Zenon DEF AccountsNext, FindByApiKey, CreateAccount, SetAccount, GetAccount, AccountsUnchanged,
                 bounds, Counts
  <1> QED BY <1>1, <1>2, <1>4, <1>5, DirectoryCounts, IntegrationsCount, EventsCount DEF Step, Handle

(* What a process has cached is the stored account, unless a request is    *)
(* about to make it forget it, and what a request is about to cache is.    *)
OneProcess(s) == \A q \in Scenarios[scenario].requests : q.server \in {None, s}
OfKey(q, a) == q # None /\ q.op \in ByKeyOnly /\ q.account = a
Forgets(q, a) == q # None /\ q.op = "SetAccount" /\ q.at = "forget" /\ q.account = a
Agrees(ca, accounts, c, s, a) ==
    /\ ca[s][a] # None => \/ \E k \in Client : Forgets(c[k], a)
                          \/ accounts[a] # None /\ ca[s][a].row = accounts[a]
    /\ \A k \in Client : OfKey(c[k], a) /\ c[k].at = "remember" =>
            accounts[a] # None /\ c[k].row = accounts[a]
Served(q, requests) ==
    q.op \in ByKeyOnly =>
        /\ q.at \in AccountSteps
        /\ \E r \in requests : r.server = q.server /\ (q.op = "SetAccount" => q \in Stages(r))
CoherentInv ==
    /\ Inv /\ \A k \in Client : calls[k] # None => Served(calls[k], Scenarios[scenario].requests)
    /\ failures = 0 => \A s \in Server, a \in Account \ crossed :
            OneProcess(s) => Agrees(cache, db.accounts, calls, s, a)

(* The stages of a request are closed under what it is handed.             *)
KeySteps == {"apikey", "select", "remember", "find", "forget"}
LEMMA StageOn ==
    ASSUME NEW r, NEW q \in Stages(r), NEW x, NEW v \in Held
    PROVE  [q EXCEPT ![x] = v] \in Stages(r)
  <1> DEFINE X == {r[y] : y \in DOMAIN r} \union Held
  <1>1. q \in [DOMAIN r -> X] /\ v \in X
    BY DEF Stages
  <1> HIDE DEF X
  <1>2. [q EXCEPT ![x] = v] \in [DOMAIN r -> X]
    BY <1>1
  <1> QED BY <1>2 DEF X, Stages

(* What a request is handed *)
LEMMA HeldIs ==
    KeySteps \subseteq Held /\ AccountRow \subseteq Held /\ Int \subseteq Held
  BY DEF KeySteps, Held

(* A step that caches nothing and changes no stored account, although it   *)
(* may make one.                                                           *)
LEMMA AgreesOn ==
    ASSUME CoherentInv, NEW k \in Client, \A j \in Client \ {k} : calls'[j] = calls[j],
           NEW s, NEW a \in Account, Agrees(cache, db.accounts, calls, s, a), ~Forgets(calls[k], a),
           cache' = cache, db.accounts[a] # None => db'.accounts[a] = db.accounts[a],
           OfKey(calls'[k], a) => calls'[k].at # "remember"
    PROVE  Agrees(cache', db'.accounts, calls', s, a)
  <1>1. \A j \in Client : Forgets(calls[j], a) => Forgets(calls'[j], a)
    BY DEF Forgets
  <1>2. ASSUME NEW j \in Client, OfKey(calls'[j], a), calls'[j].at = "remember"
        PROVE  db'.accounts[a] # None /\ calls'[j].row = db'.accounts[a]
    <2>1. j # k /\ calls'[j] = calls[j]
      BY <1>2
    <2> QED BY <1>2, <2>1 DEF Agrees
  <1> QED BY <1>1, <1>2 DEF Agrees

(* While only one process serves an account, and one request at a time,    *)
(* the use cases on accounts keep its cache as the table is.               *)
LEMMA AccountsAgree ==
    ASSUME CoherentInv, NEW k \in Client, calls[k] # None, AccountsNext(k), Noticed,
           \A j \in Client \ {k} : calls'[j] = calls[j],
           NEW s \in Server, NEW a \in Account, a \notin crossed', OneProcess(s),
           Agrees(cache, db.accounts, calls, s, a)
    PROVE  Agrees(cache', db'.accounts, calls', s, a)
  <1> DEFINE q == calls[k]
             c == calls'[k]
             b == q.account
             p == q.server
             Goal == Agrees(cache', db'.accounts, calls', s, a)
  <1>0. /\ Inv /\ db \in Database /\ DOMAIN q = DOMAIN Blank /\ DOMAIN calls = Client
        /\ q.op \in AccountOps /\ b \in Account /\ Shape(q) /\ AccountHolds(q)
        /\ DOMAIN cache = Server /\ \A x \in Server : DOMAIN cache[x] = Account
        /\ DOMAIN db.accounts = Account
    BY Found DEF CoherentInv, Holds, Shape, Inv, GhostsTyped, AccountsNext, Database
  <1>1. q.op \in ByKeyOnly => p = s
    BY <1>0, NoneIsNoServer DEF CoherentInv, Served, OneProcess, Shape
  <1>2. ASSUME UNCHANGED cache, ~(q.op = "SetAccount" /\ q.at = "forget"),
               OfKey(c, a) => c.at # "remember",
               \/ db'.accounts = db.accounts
               \/ \E x \in Account : \E row : db.accounts[x] = None
                                              /\ db'.accounts = [db.accounts EXCEPT ![x] = row]
        PROVE  Goal
    <2>1. db.accounts[a] # None => db'.accounts[a] = db.accounts[a]
      BY <1>0, <1>2
    <2>2. ~Forgets(q, a)
      BY <1>2 DEF Forgets
    <2> QED BY <1>2, <2>1, <2>2, AgreesOn
  <1>3. Answer(k) => c = None
    BY <1>0 DEF Answer
  <1>4. ASSUME NEW x, Goto(k, x) PROVE c.at = x
    BY <1>0, <1>4, GotoIs
  <1>5. ASSUME NEW row, NEW x, Identified(k, row, x)
        PROVE  c.row = row /\ c.at = x /\ c.op = q.op /\ c.account = b
    <2> DEFINE r == [q EXCEPT !.row = row, !.at = x, !.asked = now]
    <2>1. c = r
      BY <1>0, <1>5 DEF Identified
    <2> QED BY <1>0, <2>1 DEF Blank
  <1>6. ASSUME FindByApiKey(k) PROVE Goal
    <2>1. CASE /\ q.at = "apikey" /\ UNCHANGED <<db, cache>>
               /\ \/ Identified(k, cache[p][b].row, "find") \/ Goto(k, "select")
      BY <1>2, <1>4, <1>5, <2>1
    <2>2. CASE /\ q.at = "select" /\ UNCHANGED <<db, cache>>
               /\ \/ Goto(k, "insert") \/ Answer(k)
      BY <1>2, <1>3, <1>4, <2>2 DEF OfKey
    <2>3. CASE /\ q.at = "select" /\ UNCHANGED <<db, cache>> /\ Stored(db.accounts, b)
               /\ Identified(k, db.accounts[b], "remember")
      <3>1. c.row = db.accounts[b] /\ c.account = b /\ db.accounts[b] # None
        BY <1>5, <2>3 DEF Stored, IdsOf
      <3>2. \A j \in Client : Forgets(calls[j], a) => Forgets(calls'[j], a)
        BY <2>3 DEF Forgets
      <3>3. ASSUME NEW j \in Client, OfKey(calls'[j], a), calls'[j].at = "remember"
            PROVE  db'.accounts[a] # None /\ calls'[j].row = db'.accounts[a]
        <4>1. CASE j = k
          BY <2>3, <3>1, <3>3, <4>1 DEF OfKey
        <4>2. CASE j # k
          BY <2>3, <3>3, <4>2 DEF Agrees
        <4> QED BY <4>1, <4>2
      <3> QED BY <2>3, <3>2, <3>3 DEF Agrees
    <2>4. CASE /\ q.at = "remember" /\ Goto(k, "find") /\ UNCHANGED db
               /\ cache' = [cache EXCEPT ![p][b] = [row |-> q.row, until |-> now + TimeToLive]]
      <3>1. q.op \in ByKeyOnly /\ p = s
        BY <1>0, <1>1, <2>4 DEF AccountHolds, AccountOps, ByKeyOnly
      <3>2. \A j \in Client : Forgets(calls[j], a) => Forgets(calls'[j], a)
        BY <2>4 DEF Forgets
      <3>3. ASSUME NEW j \in Client, OfKey(calls'[j], a), calls'[j].at = "remember"
            PROVE  db'.accounts[a] # None /\ calls'[j].row = db'.accounts[a]
        <4>1. j # k
          BY <1>4, <2>4, <3>3
        <4> QED BY <2>4, <3>3, <4>1 DEF Agrees
      <3>4. CASE b = a
        <4> DEFINE e == [row |-> q.row, until |-> now + TimeToLive]
        <4>1. cache'[s][a] = e /\ e.row = q.row
          BY <1>0, <2>4, <3>1, <3>4
        <4>2. db.accounts[a] # None /\ q.row = db.accounts[a]
          BY <2>4, <3>1, <3>4 DEF Agrees, OfKey
        <4> HIDE DEF e
        <4> QED BY <2>4, <3>3, <4>1, <4>2 DEF Agrees
      <3>5. CASE b # a
        <4>1. cache'[s][a] = cache[s][a]
          BY <1>0, <2>4, <3>5
        <4> QED BY <2>4, <3>2, <3>3, <4>1 DEF Agrees
      <3> QED BY <3>4, <3>5
    <2> HIDE DEF Goal, p, b, c
    <2>5. /\ UNCHANGED db
          /\ \/ /\ q.at = "apikey" /\ UNCHANGED accountVars
                /\ \/ Identified(k, cache[p][b].row, "find") \/ Goto(k, "select")
             \/ /\ q.at = "select" /\ UNCHANGED cache
                /\ \/ Goto(k, "insert") \/ Answer(k)
                   \/ Stored(db.accounts, b) /\ Identified(k, db.accounts[b], "remember")
             \/ /\ q.at = "remember" /\ Goto(k, "find")
                /\ cache' = [cache EXCEPT ![p][b] = [row |-> q.row, until |-> now + TimeToLive]]
      BY <1>6, Zenon DEF FindByApiKey, p, b
    <2> QED BY <2>1, <2>2, <2>3, <2>4, <2>5 DEF accountVars
  <1>7. ASSUME CreateAccount(k) PROVE Goal
    <2>1. /\ Answer(k) /\ UNCHANGED accountVars /\ q.op = "CreateAccount"
          /\ \E x \in {y \in Account : db.accounts[y] = None} : \E row : db' = AccountInserted(db, x, row)
      BY <1>7, Zenon DEF CreateAccount, At
    <2>2. PICK x \in Account : \E row : db.accounts[x] = None /\ db' = AccountInserted(db, x, row)
      BY <2>1
    <2>3. \A row : AccountInserted(db, x, row).accounts = [db.accounts EXCEPT ![x] = row]
      BY <1>0 DEF AccountInserted, Put, Database
    <2>4. \E row : db.accounts[x] = None /\ db'.accounts = [db.accounts EXCEPT ![x] = row]
      <3>1. PICK row : db.accounts[x] = None /\ db' = AccountInserted(db, x, row)
        BY <2>2
      <3>2. db'.accounts = [db.accounts EXCEPT ![x] = row]
        BY <2>3, <3>1
      <3> QED BY <3>1, <3>2
    <2>5. UNCHANGED cache /\ ~OfKey(c, a)
      BY <1>3, <2>1 DEF accountVars, OfKey
    <2> HIDE DEF Goal
    <2> QED BY <1>2, <2>1, <2>4, <2>5
  <1>8. ASSUME SetAccount(k) PROVE Goal
    <2>0. q.op = "SetAccount" /\ q.op \in ByKeyOnly
      BY <1>8, Zenon DEF SetAccount, At, ByKeyOnly
    <2>1. CASE /\ q.at = "find" /\ db' = AccountSaved(db, b, Merged(q.row, q.patch))
               /\ Goto(k, "forget") /\ UNCHANGED cache
      <3>1. PICK r : calls' = [calls EXCEPT ![k] = r] /\ SameCall(q, r) /\ r.at = "forget"
        BY <1>0, <2>1, GotoIs
      <3>2. c = r /\ c # None /\ c.op = "SetAccount" /\ c.at = "forget" /\ c.account = b
        <4>1. c = r /\ DOMAIN r = DOMAIN Blank /\ r.op = "SetAccount" /\ r.at = "forget" /\ r.account = b
          BY <1>0, <2>0, <3>1 DEF SameCall, SameOrder
        <4>2. PICK r0 \in Scenarios[scenario].requests : q \in Stages(r0)
          BY <2>0 DEF CoherentInv, Served
        <4>3. c = [q EXCEPT !.at = "forget"]
          BY <1>0, <2>1 DEF Goto
        <4>4. c \in Stages(r0)
          <5>1. "forget" \in Held
            BY HeldIs DEF KeySteps
          <5>2. [q EXCEPT !.at = "forget"] \in Stages(r0)
            BY <4>2, <5>1, StageOn
          <5> QED BY <4>3, <5>2
        <4>5. c # None
          BY <1>0, <4>4, NoneIsNoCall DEF Inv, Bounded
        <4> QED BY <4>1, <4>5
      <3>3. CASE b # a
        <4>1. db'.accounts[a] = db.accounts[a]
          BY <1>0, <2>1, <3>3 DEF AccountSaved, Put, Database
        <4>2. ~Forgets(q, a)
          BY <3>3 DEF Forgets
        <4> QED BY <2>1, <3>2, <4>1, <4>2, AgreesOn
      <3>4. CASE b = a
        <4>1. Forgets(c, a)
          BY <3>2, <3>4 DEF Forgets
        <4>2. ASSUME NEW j \in Client \ {k}, OfKey(calls'[j], a) PROVE FALSE
          <5>1. a \in WorksOn(c) /\ a \in WorksOn(calls'[j])
            BY <3>2, <3>4, <4>2 DEF WorksOn, OfKey, ByKeyOnly
          <5>2. a \in Met(calls')
            BY <4>2, <5>1 DEF Met
          <5> QED BY <5>2 DEF Noticed
        <4> QED BY <3>2, <4>1, <4>2 DEF Agrees
      <3> QED BY <3>3, <3>4
    <2>2. CASE /\ q.at = "forget" /\ cache' = [cache EXCEPT ![p][b] = None] /\ Answer(k)
               /\ UNCHANGED db
      <3>1. p = s
        BY <1>1, <2>0
      <3>2. ASSUME NEW j \in Client, OfKey(calls'[j], a), calls'[j].at = "remember"
            PROVE  db'.accounts[a] # None /\ calls'[j].row = db'.accounts[a]
        <4>1. j # k
          BY <1>3, <2>2, <3>2 DEF OfKey
        <4> QED BY <2>2, <3>2, <4>1 DEF Agrees
      <3>3. CASE b = a
        <4>1. cache'[s][a] = None
          BY <1>0, <2>2, <3>1, <3>3
        <4> QED BY <3>2, <4>1 DEF Agrees
      <3>4. CASE b # a
        <4>1. cache'[s][a] = cache[s][a]
          BY <1>0, <2>2, <3>4
        <4>2. \A j \in Client : Forgets(calls[j], a) => Forgets(calls'[j], a)
          BY <3>4 DEF Forgets
        <4> QED BY <2>2, <3>2, <4>1, <4>2 DEF Agrees
      <3> QED BY <3>3, <3>4
    <2> HIDE DEF Goal, p, b, c
    <2>3. \/ /\ q.at = "find" /\ db' = AccountSaved(db, b, Merged(q.row, q.patch))
             /\ Goto(k, "forget") /\ UNCHANGED cache
          \/ /\ q.at = "forget" /\ cache' = [cache EXCEPT ![p][b] = None] /\ Answer(k)
             /\ UNCHANGED <<db, kept, current>>
      BY <1>8, Zenon DEF SetAccount, At, p, b
    <2> QED BY <2>1, <2>2, <2>3
  <1>9. ASSUME GetAccount(k) PROVE Goal
    <2>1. q.op = "GetAccount" /\ Answer(k) /\ UNCHANGED <<db, kept, accountVars>>
      BY <1>9, Zenon DEF GetAccount, At
    <2> QED BY <1>2, <1>3, <2>1 DEF accountVars, OfKey
  <1>10. ASSUME InitDefaultAccount(k), UNCHANGED accountVars PROVE Goal
    <2>1. \/ db'.accounts = db.accounts
          \/ \E row : db.accounts[b] = None /\ db'.accounts = [db.accounts EXCEPT ![b] = row]
      <3>1. \/ UNCHANGED db
            \/ \E x, y : db' = IntegrationInserted(db, x, y)
            \/ ~Stored(db.accounts, b) /\ \E row : db' = AccountInserted(db, b, row)
        BY <1>10, Zenon DEF InitDefaultAccount
      <3>2. \A x, y : IntegrationInserted(db, x, y).accounts = db.accounts
        BY <1>0 DEF IntegrationInserted, Database
      <3>3. ~Stored(db.accounts, b) => db.accounts[b] = None
        BY <1>0 DEF Stored, IdsOf, Database
      <3>4. \A row : AccountInserted(db, b, row).accounts = [db.accounts EXCEPT ![b] = row]
        BY <1>0 DEF AccountInserted, Put, Database
      <3>5. CASE UNCHANGED db
        BY <3>5
      <3>6. CASE \E x, y : db' = IntegrationInserted(db, x, y)
        BY <3>2, <3>6
      <3>7. CASE ~Stored(db.accounts, b) /\ \E row : db' = AccountInserted(db, b, row)
        BY <3>3, <3>4, <3>7
      <3> QED BY <3>1, <3>5, <3>6, <3>7
    <2>2. (c # None => c.at # "remember") /\ q.op # "SetAccount"
      <3> DEFINE r1 == [q EXCEPT !.at = "integrate", !.provider = "google"]
                 r2 == [q EXCEPT !.provider = "outlook"]
      <3>1. /\ q.op = "InitDefaultAccount"
            /\ \/ Answer(k) \/ Goto(k, "apikey")
               \/ calls' = [calls EXCEPT ![k].at = "integrate", ![k].provider = "google"]
               \/ q.at = "integrate" /\ calls' = [calls EXCEPT ![k].provider = "outlook"]
        BY <1>10, Zenon DEF InitDefaultAccount, At
      <3>2. r1.at = "integrate" /\ r2.at = q.at
        BY <1>0 DEF Blank
      <3>3. CASE calls' = [calls EXCEPT ![k].at = "integrate", ![k].provider = "google"]
        <4>1. c = r1
          BY <1>0, <3>3
        <4> QED BY <3>1, <3>2, <4>1
      <3>4. CASE q.at = "integrate" /\ calls' = [calls EXCEPT ![k].provider = "outlook"]
        <4>1. c = r2
          BY <1>0, <3>4
        <4> QED BY <3>1, <3>2, <3>4, <4>1
      <3> QED BY <1>3, <1>4, <3>1, <3>3, <3>4
    <2> QED BY <1>0, <1>2, <1>10, <2>1, <2>2 DEF accountVars, OfKey
  <1> HIDE DEF Goal
  <1>11. Goal
    BY <1>6, <1>7, <1>8, <1>9, <1>10 DEF AccountsNext
  <1> QED BY <1>11 DEF Goal

(* A request on an account stays a request that one of the scenario became.*)
LEMMA AccountsServed ==
    ASSUME CoherentInv, NEW k \in Client, calls[k] # None, AccountsNext(k), calls'[k] # None
    PROVE  Served(calls'[k], Scenarios[scenario].requests)
  <1> DEFINE q == calls[k]
             c == calls'[k]
             requests == Scenarios[scenario].requests
  <1>0. /\ Inv /\ db \in Database /\ DOMAIN q = DOMAIN Blank /\ DOMAIN calls = Client
        /\ Served(q, requests) /\ now \in Int /\ ~Answer(k)
        /\ Shape(q) /\ AccountHolds(q) /\ q.account \in Account
        /\ \A s \in Server, a \in Account : cache[s][a] # None => cache[s][a].row \in AccountRow
    BY Found, NowTyped DEF CoherentInv, Inv, Holds, Shape, GhostsTyped, Answer
  <1>1. Core(q, c) /\ c.at \in AccountSteps
    BY <1>0, AccountTrail DEF Plainly
  <1>2. ASSUME q.op = "SetAccount", NEW r, q \in Stages(r) PROVE c \in Stages(r)
    <2>1. ASSUME NEW s \in KeySteps, Goto(k, s) PROVE c \in Stages(r)
      <3>1. c = [q EXCEPT !.at = s]
        BY <1>0, <2>1 DEF Goto
      <3>2. [q EXCEPT !.at = s] \in Stages(r)
        BY <1>2, <2>1, StageOn, HeldIs
      <3> QED BY <3>1, <3>2
    <2>2. ASSUME NEW s \in KeySteps, NEW row \in AccountRow, Identified(k, row, s)
          PROVE  c \in Stages(r)
      <3> DEFINE q1 == [q EXCEPT !.row = row]
                 q2 == [q1 EXCEPT !.at = s]
      <3>1. c = [q2 EXCEPT !.asked = now]
        BY <1>0, <2>2 DEF Identified
      <3>2. q1 \in Stages(r)
        BY <1>2, <2>2, StageOn, HeldIs
      <3> HIDE DEF q1
      <3>3. q2 \in Stages(r)
        BY <2>2, <3>2, StageOn, HeldIs
      <3> HIDE DEF q2
      <3>4. [q2 EXCEPT !.asked = now] \in Stages(r)
        BY <1>0, <3>3, StageOn, HeldIs
      <3> QED BY <3>1, <3>4
    <2>6. q.op # "InitDefaultAccount"
      BY <1>2
    <2>3. CASE FindByApiKey(k)
      <3>1. q.op \in ByKeyOnly /\ q.server \in Server
        BY <1>0, <1>2 DEF ByKeyOnly, Shape
      <3>2. \/ /\ Remembered(q.server, q.account)
               /\ Identified(k, cache[q.server][q.account].row, "find")
            \/ Goto(k, "select") \/ Goto(k, "find")
            \/ Stored(db.accounts, q.account) /\ Identified(k, db.accounts[q.account], "remember")
        BY <1>0, <1>2, <2>3, <2>6, Zenon DEF FindByApiKey
      <3>3. Remembered(q.server, q.account) => cache[q.server][q.account].row \in AccountRow
        BY <1>0, <3>1 DEF Remembered
      <3>4. Stored(db.accounts, q.account) => db.accounts[q.account] \in AccountRow
        BY <1>0 DEF Stored, IdsOf, Database
      <3>5. {"find", "select", "remember"} \subseteq KeySteps
        BY DEF KeySteps
      <3> QED BY <2>1, <2>2, <3>2, <3>3, <3>4, <3>5
    <2>4. CASE SetAccount(k)
      <3>1. Goto(k, "forget") /\ "forget" \in KeySteps
        BY <1>0, <2>4, Zenon DEF SetAccount, KeySteps
      <3> QED BY <2>1, <3>1
    <2>5. ~CreateAccount(k) /\ ~GetAccount(k) /\ ~InitDefaultAccount(k)
      BY <1>2 DEF CreateAccount, GetAccount, InitDefaultAccount, At
    <2> QED BY <2>3, <2>4, <2>5 DEF AccountsNext
  <1> HIDE DEF requests
  <1>3. Served(c, requests)
    BY <1>0, <1>1, <1>2 DEF Served, Core
  <1> QED BY <1>3 DEF requests

(* As long as only one process serves an account, and one request at a     *)
(* time, what its cache hands out is the stored account (settings saved    *)
(* are forgotten by the process that saves them, account/postgres.rs).     *)
THEOREM CachesCohere == Spec => []CacheCoherent
  <1>1. Init => CoherentInv
    <2> SUFFICES ASSUME Init PROVE CoherentInv
      OBVIOUS
    <2>1. Inv /\ cache = [s \in Server |-> [a \in Account |-> None]] /\ \A k \in Client : calls[k] = None
      BY InitInv DEF Init
    <2> QED BY <2>1 DEF CoherentInv, Agrees, OfKey
  <1>2. TokenInv /\ CoherentInv /\ [Next]_serverVars => CoherentInv'
    <2>1. ASSUME TokenInv, CoherentInv, NEW k \in Client, Step(k), Noticed PROVE CoherentInv'
      <3> DEFINE q == calls[k]
                 c == calls'[k]
                 requests == Scenarios[scenario].requests
      <3>0. Inv /\ Inv' /\ DOMAIN calls = Client /\ failures \in Nat
        BY <2>1, NextKeeps, ScenariosAssumption DEF CoherentInv, Next, Inv, Bounded
      <3>1. UNCHANGED scenario /\ (failures' = 0 => failures = 0) /\ crossed \subseteq crossed'
        BY <2>1, <3>0, StepCounts DEF Counts, Noticed
      <3>2. \A j \in Client \ {k} : calls'[j] = calls[j]
        BY <2>1, <3>0, StepFine DEF Fine, CallFine
      <3>3. c # None => Served(c, requests)
        <4>1. CASE Begin(k)
          <5>1. PICK r \in requests : calls' = [calls EXCEPT ![k] = [r EXCEPT !.at = Entry(r)]]
            BY <4>1 DEF Begin
          <5>2. Asked(r)
            BY <3>0, RequestsAssumption DEF Inv, Bounded
          <5> DEFINE d == [r EXCEPT !.at = Entry(r)]
          <5>3. d.op = r.op /\ d.at = Entry(r) /\ d.server = r.server
            BY <5>2 DEF Asked, Blank
          <5>4. r.op \in ByKeyOnly => Entry(r) = "apikey"
            BY <5>2, NoneIsNoServer DEF Asked, Entry
          <5>5. Entry(r) = "apikey" => d \in Stages(r)
            <6> DEFINE X == {r[x] : x \in DOMAIN r} \union Held
            <6>1. \A x \in DOMAIN r : r[x] \in X
              OBVIOUS
            <6>2. "apikey" \in X
              BY HeldIs DEF KeySteps
            <6> HIDE DEF X
            <6>3. Entry(r) = "apikey" => d \in [DOMAIN r -> X]
              BY <6>1, <6>2
            <6> QED BY <6>3 DEF X, Stages
          <5> HIDE DEF d
          <5>6. c = d
            BY <3>0, <5>1 DEF d
          <5>7. "apikey" \in AccountSteps
            BY DEF AccountSteps
          <5> HIDE DEF requests
          <5> QED BY <5>1, <5>3, <5>4, <5>5, <5>6, <5>7 DEF Served
        <4>2. CASE q # None /\ AccountsNext(k)
          BY <2>1, <4>2, AccountsServed
        <4>3. CASE q # None /\ ~AccountsNext(k)
          <5>1. c # None => c.op \notin ByKeyOnly
            BY <2>1, <4>3, AccountsSpared DEF Step, Handle, Begin
          <5> QED BY <5>1 DEF Served
        <4> QED BY <2>1, <4>1, <4>2, <4>3 DEF Step
      <3>4. ASSUME NEW j \in Client, calls'[j] # None PROVE Served(calls'[j], requests)
        <4>1. CASE j = k
          BY <3>3, <3>4, <4>1
        <4>2. CASE j # k
          BY <2>1, <3>1, <3>2, <3>4, <4>2 DEF CoherentInv, Served
        <4> QED BY <4>1, <4>2
      <3>5. ASSUME failures' = 0, NEW s \in Server, NEW a \in Account \ crossed', OneProcess(s)'
            PROVE  Agrees(cache', db'.accounts, calls', s, a)
        <4>1. OneProcess(s) /\ Agrees(cache, db.accounts, calls, s, a)
          BY <2>1, <3>1, <3>5 DEF CoherentInv, OneProcess
        <4>2. CASE Begin(k) /\ UNCHANGED <<remote, accountVars>>
          <5>1. UNCHANGED db /\ q = None
            BY <4>2 DEF Begin
          <5>2. OfKey(c, a) => c.at # "remember"
            <6>1. PICK r, d : Asked(r) /\ calls' = [calls EXCEPT ![k] = d] /\ d.at \in Guards \union {"find", "apikey"}
              BY <3>0, <4>2, BeginTrail
            <6> QED BY <3>0, <6>1 DEF Guards
          <5> QED BY <2>1, <3>2, <4>1, <4>2, <5>1, <5>2, AgreesOn DEF accountVars, Forgets
        <4>3. CASE q # None /\ AccountsNext(k)
          BY <2>1, <3>2, <3>5, <4>1, <4>3, AccountsAgree
        <4>4. CASE /\ q # None /\ UNCHANGED accountVars
                   /\ \/ Guard(k) \/ DirectoryNext(k) \/ LookupsNext(k) \/ IntegrationsNext(k)
                      \/ EventQueriesNext(k) \/ StatementFails(k) \/ EventSyncNext(k)
          <5>1. /\ db'.accounts = db.accounts /\ (c # None => c.op \notin ByKeyOnly)
                /\ q.op \in ByKeyOnly => q.at = "answered" \/ StatementFails(k)
            BY <2>1, <4>4, AccountsSpared
          <5>2. ~StatementFails(k)
            BY <3>0, <3>5 DEF StatementFails
          <5>3. ~Forgets(q, a)
            BY <5>1, <5>2 DEF Forgets, ByKeyOnly
          <5> QED BY <2>1, <3>2, <4>1, <4>4, <5>1, <5>3, AgreesOn DEF accountVars, OfKey
        <4>5. \/ Begin(k) /\ UNCHANGED <<remote, accountVars>>
              \/ q # None /\ Handle(k)
          BY <2>1 DEF Step
        <4>6. Handle(k) => \/ AccountsNext(k)
                           \/ /\ UNCHANGED accountVars
                              /\ \/ Guard(k) \/ DirectoryNext(k) \/ LookupsNext(k) \/ IntegrationsNext(k)
                                 \/ EventQueriesNext(k) \/ StatementFails(k) \/ EventSyncNext(k)
          BY DEF Handle
        <4> QED BY <4>2, <4>3, <4>4, <4>5, <4>6
      <3> QED BY <3>0, <3>1, <3>4, <3>5 DEF CoherentInv
    <2>2. ASSUME TokenInv, CoherentInv, (Tick /\ Noticed) \/ UNCHANGED serverVars PROVE CoherentInv'
      <3>1. /\ Inv' /\ UNCHANGED <<db, calls, scenario, failures, cache>> /\ crossed \subseteq crossed'
        BY <2>2, NextKeeps DEF CoherentInv, Next, Tick, Noticed, serverVars, requestVars, accountVars, bounds
      <3> QED BY <2>2, <3>1 DEF CoherentInv, OneProcess
    <2> QED BY <2>1, <2>2 DEF Next
  <1>3. CoherentInv => CacheCoherent
    BY DEF CoherentInv, CacheCoherent, OneProcess, Agrees, Remembered, Quiet, Forgets
  <1> QED BY <1>1, <1>2, <1>3, TokensTimely, PTL DEF Spec

=============================================================================
