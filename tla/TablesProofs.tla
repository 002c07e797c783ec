---------------------------- MODULE TablesProofs ----------------------------
(***************************************************************************)
(* What the statements of Tables do to what the rows of a database say of  *)
(* each other.  Consistent(d, origin, homes) holds of the databases that   *)
(* requests can leave; every statement keeps it, under the condition that  *)
(* the use case which runs it has established.  None of these lemmas is    *)
(* about an order of statements: they are what ServerProofs needs to know  *)
(* of each, so that it never has to look at a table itself.                *)
(***************************************************************************)
EXTENDS Tables, TLAPS

(* The calendars, schedules, services and events of r are those of d, and  *)
(* those in `new`                                                          *)
NoneBut(new, d, r) ==
    /\ IdsOf(r.calendars) \subseteq IdsOf(d.calendars) \union new
    /\ IdsOf(r.schedules) \subseteq IdsOf(d.schedules) \union new
    /\ IdsOf(r.services) \subseteq IdsOf(d.services) \union new
    /\ IdsOf(r.events) \subseteq IdsOf(d.events) \union new

(* What every statement promises of its result *)
Kept(d, r, origin, homes) ==
    Consistent(r, origin, homes) /\ NoneBut({}, d, r) /\ r.copies \subseteq d.copies

----------------------------------------------------------------------------
(* A table with rows taken out, and with one row put in, is a table.       *)
LEMMA WithoutTyped ==
    ASSUME NEW I, NEW R, NEW t \in [I -> R \union {None}], NEW ids
    PROVE  Without(t, ids) \in [I -> R \union {None}]
  BY DEF Without

(* A row that is put in a table is found there; the other rows stay.       *)
LEMMA PutTyped ==
    ASSUME NEW I, NEW R, NEW t \in [I -> R \union {None}], NEW id, NEW row \in R
    PROVE  Put(t, id, row) \in [I -> R \union {None}]
  BY DEF Put

(* What a database says of its users, calendars, schedules, services,      *)
(* events, hosts and grants does not depend on its other tables.           *)
LEMMA SameRows ==
    ASSUME NEW d, NEW r \in Database, NEW o, NEW h, Consistent(d, o, h),
           r.users = d.users, r.calendars = d.calendars, r.schedules = d.schedules,
           r.services = d.services, r.events = d.events, r.hosts = d.hosts,
           r.busy = d.busy, r.grants = d.grants
    PROVE  /\ Consistent(r, o, h) /\ NoneBut({}, d, r)
           /\ r.copies \subseteq d.copies => Kept(d, r, o, h)
  <1>1. HostsPlaced(r, o, h)
    BY DEF Consistent, HostsPlaced, PlanAccepted
  <1>2. BusyOwned(r)
    BY DEF Consistent, BusyOwned, CalendarOfUser
  <1>3. Consistent(r, o, h)
    BY <1>1, <1>2 DEF Consistent, UsersAtHome, CalendarsOwned, SchedulesOwned, ServicesOwned,
        EventsOwned, CalendarOfUser, GrantsPlaced, GrantsWhole, EventsDerived
  <1> QED BY <1>3 DEF Kept, NoneBut

(* More may become known of who rows were created for and where users were *)
(* stored.                                                                 *)
LEMMA MoreKnown ==
    ASSUME NEW d, NEW o, NEW h, NEW o2, NEW h2, Consistent(d, o, h),
           \A x \in Calendar \union Schedule \union Service \union Event :
                o[x] # None => o2[x] = o[x],
           \A u \in User : h[u] \subseteq h2[u]
    PROVE  Consistent(d, o2, h2)
  <1>0. d \in Database
    BY DEF Consistent
  <1>1. UsersAtHome(d, h2)
    BY <1>0 DEF Consistent, UsersAtHome, IdsOf, Database
  <1>2. CalendarsOwned(d, o2, h2)
    BY <1>0, NoneIsNoId DEF Consistent, CalendarsOwned, IdsOf, Database, CalendarRow
  <1>3. SchedulesOwned(d, o2) /\ ServicesOwned(d, o2)
    BY <1>0, NoneIsNoId DEF Consistent, SchedulesOwned, ServicesOwned, IdsOf, Database, ScheduleRow, ServiceRow
  <1>4. EventsOwned(d, o2, h2)
    BY <1>0, NoneIsNoId DEF Consistent, EventsOwned, IdsOf, Database, EventRow
  <1>5. HostsPlaced(d, o2, h2)
    BY <1>0, NoneIsNoId DEF Consistent, HostsPlaced, PlanOwned, IdsOf, Database, HostRow
  <1>6. GrantsPlaced(d, h2)
    BY <1>0 DEF Consistent, GrantsPlaced, IdsOf, Database, GrantRow
  <1> QED BY <1>0, <1>1, <1>2, <1>3, <1>4, <1>5, <1>6 DEF Consistent

----------------------------------------------------------------------------
(* The cascades *)

(* Dropping syncs only takes rows away.                                    *)
LEMMA SyncsDroppedKeeps ==
    ASSUME NEW d, NEW o, NEW h, Consistent(d, o, h), NEW ss
    PROVE  LET r == SyncsDropped(d, ss)
           IN  /\ Kept(d, r, o, h)
               /\ r.synced = d.synced \ ss
               /\ r.users = d.users /\ r.calendars = d.calendars /\ r.schedules = d.schedules
               /\ r.services = d.services /\ r.events = d.events /\ r.hosts = d.hosts
               /\ r.busy = d.busy /\ r.grants = d.grants /\ r.extBusy = d.extBusy
               /\ r.integrations = d.integrations /\ r.accounts = d.accounts
  <1> DEFINE r == SyncsDropped(d, ss)
  <1>0. d \in Database
    BY DEF Consistent
  <1>1. /\ r \in Database /\ r.copies \subseteq d.copies
        /\ r.synced = d.synced \ ss
        /\ r.users = d.users /\ r.calendars = d.calendars /\ r.schedules = d.schedules
        /\ r.services = d.services /\ r.events = d.events /\ r.hosts = d.hosts
        /\ r.busy = d.busy /\ r.grants = d.grants /\ r.extBusy = d.extBusy
        /\ r.integrations = d.integrations /\ r.accounts = d.accounts
    BY <1>0 DEF SyncsDropped, Database
  <1> QED BY <1>1, SameRows

(* Dropping events only takes rows away.                                   *)
LEMMA EventsDroppedKeeps ==
    ASSUME NEW d, NEW o, NEW h, Consistent(d, o, h), NEW es
    PROVE  LET r == EventsDropped(d, es)
           IN  /\ Kept(d, r, o, h)
               /\ r.events = Without(d.events, es)
               /\ r.users = d.users /\ r.calendars = d.calendars /\ r.schedules = d.schedules
               /\ r.services = d.services /\ r.hosts = d.hosts
               /\ r.busy = d.busy /\ r.grants = d.grants /\ r.synced = d.synced
               /\ r.accounts = d.accounts
  <1> DEFINE r == EventsDropped(d, es)
  <1>0. d \in Database
    BY DEF Consistent
  <1>1. /\ r \in Database /\ r.copies \subseteq d.copies
        /\ r.events = Without(d.events, es)
        /\ r.users = d.users /\ r.calendars = d.calendars /\ r.schedules = d.schedules
        /\ r.services = d.services /\ r.hosts = d.hosts
        /\ r.busy = d.busy /\ r.grants = d.grants /\ r.synced = d.synced
        /\ r.accounts = d.accounts
    BY <1>0, WithoutTyped DEF EventsDropped, Database
  <1> HIDE DEF r
  <1>2. EventsOwned(r, o, h) /\ EventsDerived(r)
    BY <1>1 DEF Consistent, EventsOwned, EventsDerived, CalendarOfUser, Without, IdsOf
  <1>3. HostsPlaced(r, o, h)
    BY <1>1 DEF Consistent, HostsPlaced, PlanAccepted
  <1>4. BusyOwned(r)
    BY <1>1 DEF Consistent, BusyOwned, CalendarOfUser
  <1>5. Consistent(r, o, h)
    BY <1>1, <1>2, <1>3, <1>4 DEF Consistent, UsersAtHome, CalendarsOwned, SchedulesOwned,
        ServicesOwned, GrantsPlaced, GrantsWhole
  <1> QED BY <1>1, <1>5 DEF Kept, NoneBut, Without, IdsOf, r

(* The grants of users go with their synced calendars and their external   *)
(* busy calendars.                                                         *)
LEMMA GrantsDroppedKeeps ==
    ASSUME NEW d, NEW o, NEW h, Consistent(d, o, h), NEW gs
    PROVE  LET r == GrantsDropped(d, gs)
           IN  /\ Kept(d, r, o, h)
               /\ r.grants = Without(d.grants, gs)
               /\ r.users = d.users /\ r.calendars = d.calendars /\ r.schedules = d.schedules
               /\ r.services = d.services /\ r.events = d.events /\ r.hosts = d.hosts
               /\ r.busy = d.busy /\ r.accounts = d.accounts
  <1> DEFINE e == [d EXCEPT !.grants = Without(@, gs),
                            !.extBusy = {b \in @ : <<b.user, b.provider>> \notin gs}]
             ss == {s \in e.synced : <<s.user, s.provider>> \in gs}
             r == SyncsDropped(e, ss)
  <1>0. d \in Database
    BY DEF Consistent
  <1>1. /\ e \in Database /\ e.copies = d.copies
        /\ e.grants = Without(d.grants, gs)
        /\ e.users = d.users /\ e.calendars = d.calendars /\ e.schedules = d.schedules
        /\ e.services = d.services /\ e.events = d.events /\ e.hosts = d.hosts
        /\ e.busy = d.busy /\ e.accounts = d.accounts
    BY <1>0, WithoutTyped DEF Database
  <1>2. GrantsDropped(d, gs) = r
    BY DEF GrantsDropped
  <1> HIDE DEF e, ss
  <1>3. GrantsPlaced(e, h) /\ GrantsWhole(e)
    BY <1>1 DEF Consistent, GrantsPlaced, GrantsWhole, Without, IdsOf
  <1>4. HostsPlaced(e, o, h)
    BY <1>1 DEF Consistent, HostsPlaced, PlanAccepted
  <1>5. BusyOwned(e)
    BY <1>1 DEF Consistent, BusyOwned, CalendarOfUser
  <1>6. Consistent(e, o, h)
    BY <1>1, <1>3, <1>4, <1>5 DEF Consistent, UsersAtHome, CalendarsOwned, SchedulesOwned,
        ServicesOwned, EventsOwned, EventsDerived, CalendarOfUser
  <1>7. /\ Kept(e, r, o, h)
        /\ r.users = e.users /\ r.calendars = e.calendars /\ r.schedules = e.schedules
        /\ r.services = e.services /\ r.events = e.events /\ r.hosts = e.hosts
        /\ r.busy = e.busy /\ r.grants = e.grants /\ r.accounts = e.accounts
    BY <1>6, SyncsDroppedKeeps
  <1> HIDE DEF r
  <1> QED BY <1>1, <1>2, <1>7 DEF Kept, NoneBut

(* Hosts go with their busy calendars.                                     *)
LEMMA HostsDroppedKeeps ==
    ASSUME NEW d, NEW o, NEW h, Consistent(d, o, h), NEW hs
    PROVE  LET r == HostsDropped(d, hs)
           IN  /\ Kept(d, r, o, h)
               /\ r.hosts = Without(d.hosts, hs)
               /\ r.busy = {b \in d.busy : <<b[1], b[2]>> \notin hs}
               /\ r.users = d.users /\ r.grants = d.grants /\ r.calendars = d.calendars
               /\ r.schedules = d.schedules /\ r.services = d.services /\ r.events = d.events
               /\ r.accounts = d.accounts
  <1> DEFINE r == HostsDropped(d, hs)
  <1>0. d \in Database
    BY DEF Consistent
  <1>1. r \in Database
    BY <1>0, WithoutTyped DEF HostsDropped, Database
  <1>2. /\ r.users = d.users /\ r.grants = d.grants /\ r.calendars = d.calendars
        /\ r.schedules = d.schedules /\ r.services = d.services /\ r.events = d.events
        /\ r.accounts = d.accounts /\ r.copies = d.copies
        /\ r.hosts = Without(d.hosts, hs) /\ r.busy = {b \in d.busy : <<b[1], b[2]>> \notin hs}
    BY <1>0 DEF HostsDropped, Database
  <1> HIDE DEF r
  <1>3. HostsPlaced(r, o, h)
    BY <1>2 DEF Consistent, HostsPlaced, Without, IdsOf, PlanAccepted
  <1>4. BusyOwned(r)
    BY <1>0, <1>2 DEF Consistent, BusyOwned, Without, IdsOf, Stored, CalendarOfUser, Database
  <1>5. Consistent(r, o, h)
    BY <1>1, <1>2, <1>3, <1>4 DEF Consistent, UsersAtHome, CalendarsOwned, SchedulesOwned,
        ServicesOwned, EventsOwned, CalendarOfUser, GrantsPlaced, GrantsWhole, EventsDerived
  <1> QED BY <1>2, <1>5 DEF Kept, NoneBut, r

(* Hosts that planned with one of these calendars or schedules are left    *)
(* without.                                                                *)
LEMMA PlansClearedKeeps ==
    ASSUME NEW d, NEW o, NEW h, Consistent(d, o, h), NEW cs, NEW ss
    PROVE  LET r == PlansCleared(d, cs, ss)
           IN  /\ Kept(d, r, o, h)
               /\ \A x \in IdsOf(r.hosts) :
                    /\ x \in IdsOf(d.hosts)
                    /\ r.hosts[x].calendar \notin cs \ {None} /\ r.hosts[x].schedule \notin ss \ {None}
               /\ r.users = d.users /\ r.calendars = d.calendars /\ r.schedules = d.schedules
               /\ r.services = d.services /\ r.events = d.events /\ r.busy = d.busy
               /\ r.grants = d.grants /\ r.accounts = d.accounts /\ r.copies = d.copies
               /\ IdsOf(r.hosts) = IdsOf(d.hosts)
  <1> DEFINE r == PlansCleared(d, cs, ss)
             Cleared(row) == PlanCleared(row, cs, ss)
             hosts == [x \in DOMAIN d.hosts |-> IF d.hosts[x] = None THEN None
                                                ELSE Cleared(d.hosts[x])]
  <1>0. d \in Database
    BY DEF Consistent
  <1>1. \A row \in HostRow :
            /\ Cleared(row) \in HostRow
            /\ Cleared(row).calendar = IF row.calendar \in cs THEN None ELSE row.calendar
            /\ Cleared(row).schedule = IF row.schedule \in ss THEN None ELSE row.schedule
    BY DEF HostRow, PlanCleared
  <1>2. r = [d EXCEPT !.hosts = hosts]
    BY DEF PlansCleared
  <1> HIDE DEF Cleared
  <1>3. hosts \in [Service \X User -> HostRow \union {None}]
    BY <1>0, <1>1 DEF Database
  <1>4. /\ r \in Database /\ r.hosts = hosts
        /\ r.users = d.users /\ r.calendars = d.calendars /\ r.schedules = d.schedules
        /\ r.services = d.services /\ r.events = d.events /\ r.busy = d.busy
        /\ r.grants = d.grants /\ r.accounts = d.accounts /\ r.copies = d.copies
    <2> HIDE DEF hosts
    <2> QED BY <1>0, <1>2, <1>3 DEF Database
  <1>5. /\ DOMAIN hosts = DOMAIN d.hosts
        /\ \A x \in DOMAIN d.hosts : d.hosts[x] = None => hosts[x] = None
        /\ \A x \in IdsOf(d.hosts) : /\ d.hosts[x] \in HostRow /\ hosts[x] = Cleared(d.hosts[x])
                                     /\ hosts[x] # None
    BY <1>0, <1>1, NoneIsNoRow DEF Database, IdsOf
  <1> HIDE DEF r, hosts
  <1>6. IdsOf(r.hosts) = IdsOf(d.hosts)
    BY <1>4, <1>5 DEF IdsOf
  <1>7. HostsPlaced(r, o, h)
    BY <1>1, <1>4, <1>5, <1>6 DEF Consistent, HostsPlaced, PlanAccepted, PlanOwned
  <1>8. BusyOwned(r)
    BY <1>4, <1>6 DEF Consistent, BusyOwned, CalendarOfUser, Stored, IdsOf
  <1>9. Consistent(r, o, h)
    BY <1>4, <1>7, <1>8 DEF Consistent, UsersAtHome, CalendarsOwned, SchedulesOwned,
        ServicesOwned, EventsOwned, CalendarOfUser, GrantsPlaced, GrantsWhole, EventsDerived
  <1>10. ASSUME NEW x \in IdsOf(r.hosts)
         PROVE  r.hosts[x].calendar \notin cs \ {None} /\ r.hosts[x].schedule \notin ss \ {None}
    <2>1. d.hosts[x] \in HostRow /\ r.hosts[x] = Cleared(d.hosts[x])
      BY <1>4, <1>5, <1>6
    <2> QED BY <1>1, <2>1
  <1> QED BY <1>4, <1>6, <1>9, <1>10 DEF Kept, NoneBut, r

(* Calendars go with their events, and hosts are left without them; none   *)
(* of them may be a busy calendar.                                         *)
LEMMA CalendarsDroppedKeeps ==
    ASSUME NEW d, NEW o, NEW h, Consistent(d, o, h), NEW cs \in SUBSET Calendar,
           \A b \in d.busy : b[3] \notin cs
    PROVE  LET r == CalendarsDropped(d, cs)
           IN  /\ Kept(d, r, o, h)
               /\ r.calendars = Without(d.calendars, cs)
               /\ r.users = d.users /\ r.schedules = d.schedules /\ r.services = d.services
               /\ r.busy = d.busy /\ r.grants = d.grants /\ r.accounts = d.accounts
               /\ IdsOf(r.hosts) = IdsOf(d.hosts)
  <1> DEFINE e == PlansCleared(d, cs, {})
             f == EventsDropped(e, EventsOf(d, cs))
             g == SyncsDropped(f, {s \in f.synced : s.calendar \in cs})
             r == [g EXCEPT !.calendars = Without(@, cs),
                            !.copies = {k \in @ : k.calendar \notin cs}]
  <1>1. /\ Kept(d, e, o, h)
        /\ \A x \in IdsOf(e.hosts) : e.hosts[x].calendar \notin cs \ {None}
        /\ e.users = d.users /\ e.calendars = d.calendars /\ e.schedules = d.schedules
        /\ e.services = d.services /\ e.events = d.events /\ e.busy = d.busy
        /\ e.grants = d.grants /\ e.accounts = d.accounts
        /\ IdsOf(e.hosts) = IdsOf(d.hosts)
    BY PlansClearedKeeps
  <1>2. CalendarsDropped(d, cs) = r
    BY DEF CalendarsDropped
  <1> HIDE DEF e
  <1>3. /\ Kept(e, f, o, h)
        /\ f.events = Without(e.events, EventsOf(d, cs))
        /\ f.users = e.users /\ f.calendars = e.calendars /\ f.schedules = e.schedules
        /\ f.services = e.services /\ f.hosts = e.hosts
        /\ f.busy = e.busy /\ f.grants = e.grants /\ f.accounts = e.accounts
    BY <1>1, EventsDroppedKeeps DEF Kept
  <1> HIDE DEF f
  <1>4. /\ Kept(f, g, o, h)
        /\ g.users = f.users /\ g.calendars = f.calendars /\ g.schedules = f.schedules
        /\ g.services = f.services /\ g.events = f.events /\ g.hosts = f.hosts
        /\ g.busy = f.busy /\ g.grants = f.grants /\ g.accounts = f.accounts
    BY <1>3, SyncsDroppedKeeps DEF Kept
  <1> HIDE DEF g
  <1>5. g \in Database /\ Consistent(g, o, h)
    BY <1>4 DEF Kept, Consistent
  <1>6. /\ r \in Database /\ r.copies \subseteq g.copies
        /\ r.calendars = Without(g.calendars, cs)
        /\ r.users = g.users /\ r.schedules = g.schedules /\ r.services = g.services
        /\ r.events = g.events /\ r.hosts = g.hosts /\ r.busy = g.busy /\ r.grants = g.grants
        /\ r.accounts = g.accounts
    BY <1>5, WithoutTyped DEF Database
  <1> HIDE DEF r
  <1>7. g.events = Without(d.events, EventsOf(d, cs)) /\ g.calendars = d.calendars
    BY <1>1, <1>3, <1>4
  <1>8. CalendarsOwned(r, o, h)
    BY <1>5, <1>6 DEF Consistent, CalendarsOwned, Without, IdsOf
  <1>9. EventsOwned(r, o, h)
    <2>1. ASSUME NEW x \in IdsOf(r.events)
          PROVE  x \in IdsOf(g.events) /\ g.events[x] = r.events[x] /\ r.events[x].calendar \notin cs
      BY <1>6, <1>7 DEF EventsOf, Without, IdsOf
    <2> QED BY <1>5, <1>6, <2>1 DEF Consistent, EventsOwned, CalendarOfUser, Without, Stored
  <1>10. HostsPlaced(r, o, h)
    <2>1. \A x \in IdsOf(r.hosts) : r.hosts[x].calendar \notin cs \ {None}
      BY <1>1, <1>3, <1>4, <1>6
    <2> QED BY <1>5, <1>6, <2>1 DEF Consistent, HostsPlaced, PlanAccepted, Without, Stored
  <1>11. BusyOwned(r)
    <2>1. \A b \in r.busy : b[3] \notin cs
      BY <1>1, <1>3, <1>4, <1>6
    <2> QED BY <1>5, <1>6, <2>1 DEF Consistent, BusyOwned, CalendarOfUser, Without, Stored
  <1>12. Consistent(r, o, h)
    BY <1>5, <1>6, <1>8, <1>9, <1>10, <1>11 DEF Consistent, UsersAtHome, SchedulesOwned,
        ServicesOwned, GrantsPlaced, GrantsWhole, EventsDerived
  <1>13. NoneBut({}, d, r) /\ r.copies \subseteq d.copies
    BY <1>1, <1>3, <1>4, <1>6, <1>7 DEF Kept, NoneBut, Without, IdsOf
  <1> QED BY <1>1, <1>2, <1>3, <1>4, <1>6, <1>12, <1>13 DEF Kept

(* Hosts are left without the schedules that go.                           *)
LEMMA SchedulesDroppedKeeps ==
    ASSUME NEW d, NEW o, NEW h, Consistent(d, o, h), NEW ss
    PROVE  LET r == SchedulesDropped(d, ss)
           IN  /\ Kept(d, r, o, h)
               /\ r.schedules = Without(d.schedules, ss)
               /\ r.users = d.users /\ r.calendars = d.calendars /\ r.services = d.services
               /\ r.busy = d.busy /\ r.grants = d.grants /\ r.accounts = d.accounts
               /\ r.events = d.events
               /\ IdsOf(r.hosts) = IdsOf(d.hosts)
  <1> DEFINE e == PlansCleared(d, {}, ss)
             r == [e EXCEPT !.schedules = Without(@, ss)]
  <1>1. /\ Kept(d, e, o, h)
        /\ \A x \in IdsOf(e.hosts) : e.hosts[x].schedule \notin ss \ {None}
        /\ e.users = d.users /\ e.calendars = d.calendars /\ e.schedules = d.schedules
        /\ e.services = d.services /\ e.events = d.events /\ e.busy = d.busy
        /\ e.grants = d.grants /\ e.accounts = d.accounts
        /\ IdsOf(e.hosts) = IdsOf(d.hosts)
    BY PlansClearedKeeps
  <1>2. SchedulesDropped(d, ss) = r
    BY DEF SchedulesDropped
  <1> HIDE DEF e
  <1>3. e \in Database /\ Consistent(e, o, h)
    BY <1>1 DEF Kept, Consistent
  <1>4. /\ r \in Database /\ r.copies = e.copies
        /\ r.schedules = Without(e.schedules, ss)
        /\ r.users = e.users /\ r.calendars = e.calendars /\ r.services = e.services
        /\ r.events = e.events /\ r.hosts = e.hosts /\ r.busy = e.busy /\ r.grants = e.grants
        /\ r.accounts = e.accounts
    BY <1>3, WithoutTyped DEF Database
  <1> HIDE DEF r
  <1>5. SchedulesOwned(r, o)
    BY <1>3, <1>4 DEF Consistent, SchedulesOwned, Without, IdsOf
  <1>6. HostsPlaced(r, o, h)
    BY <1>1, <1>3, <1>4 DEF Consistent, HostsPlaced, PlanAccepted, Without, Stored
  <1>7. BusyOwned(r)
    BY <1>3, <1>4 DEF Consistent, BusyOwned, CalendarOfUser
  <1>8. Consistent(r, o, h)
    BY <1>3, <1>4, <1>5, <1>6, <1>7 DEF Consistent, UsersAtHome, CalendarsOwned,
        ServicesOwned, EventsOwned, CalendarOfUser, GrantsPlaced, GrantsWhole, EventsDerived
  <1> QED BY <1>1, <1>2, <1>4, <1>8 DEF Kept, NoneBut, Without, IdsOf

----------------------------------------------------------------------------
(* Deletions *)

(* A user goes with everything that refers to it, and nothing refuses it:  *)
(* no busy calendar of another host is a calendar of the user.             *)
LEMMA UserDeletedKeeps ==
    ASSUME NEW d, NEW o, NEW h, Consistent(d, o, h), NEW u
    PROVE  /\ Kept(d, UserDeleted(d, u), o, h)
           /\ UserDeleteAccepted(d, u)
           /\ UserDeleted(d, u).users = Without(d.users, {u})
           /\ UserDeleted(d, u).accounts = d.accounts
  <1> DEFINE hs == {x \in IdsOf(d.hosts) : x[2] = u}
             gs == {g \in IdsOf(d.grants) : g[1] = u}
             cs == CalendarsOf(d, u)
             ss == SchedulesOf(d, u)
             e1 == HostsDropped(d, hs)
             e2 == GrantsDropped(e1, gs)
             e3 == CalendarsDropped(e2, cs)
             e4 == SchedulesDropped(e3, ss)
             r == [e4 EXCEPT !.users = Without(@, {u})]
  <1>0. d \in Database
    BY DEF Consistent
  <1>1. UserDeleted(d, u) = r
    BY DEF UserDeleted
  <1>2. /\ Kept(d, e1, o, h)
        /\ e1.hosts = Without(d.hosts, hs)
        /\ e1.busy = {b \in d.busy : <<b[1], b[2]>> \notin hs}
        /\ e1.users = d.users /\ e1.grants = d.grants /\ e1.calendars = d.calendars
        /\ e1.schedules = d.schedules /\ e1.services = d.services /\ e1.events = d.events
        /\ e1.accounts = d.accounts
    BY HostsDroppedKeeps
  <1> HIDE DEF e1, hs
  <1>3. /\ Kept(e1, e2, o, h)
        /\ e2.grants = Without(e1.grants, gs)
        /\ e2.users = e1.users /\ e2.calendars = e1.calendars /\ e2.schedules = e1.schedules
        /\ e2.services = e1.services /\ e2.events = e1.events /\ e2.hosts = e1.hosts
        /\ e2.busy = e1.busy /\ e2.accounts = e1.accounts
    BY <1>2, GrantsDroppedKeeps DEF Kept
  <1> HIDE DEF e2, gs
  <1>4. \A b \in e2.busy : b[3] \notin cs
    <2> SUFFICES ASSUME NEW b \in e2.busy, b[3] \in cs
                 PROVE  FALSE
      OBVIOUS
    <2>1. b \in d.busy /\ <<b[1], b[2]>> \notin hs
      BY <1>2, <1>3
    <2>2. b \in BusyKey
      BY <1>0, <2>1 DEF Database
    <2>3. <<b[1], b[2]>> \in IdsOf(d.hosts) /\ d.calendars[b[3]].user = b[2]
      BY <2>1 DEF Consistent, BusyOwned, Stored, IdsOf, CalendarOfUser
    <2>4. b[2] = u
      BY <2>3 DEF CalendarsOf
    <2> QED BY <2>1, <2>2, <2>3, <2>4 DEF hs, BusyKey
  <1>5. cs \in SUBSET Calendar
    BY <1>0 DEF CalendarsOf, IdsOf, Database
  <1>6. /\ Kept(e2, e3, o, h)
        /\ e3.calendars = Without(e2.calendars, cs)
        /\ e3.users = e2.users /\ e3.schedules = e2.schedules /\ e3.services = e2.services
        /\ e3.busy = e2.busy /\ e3.grants = e2.grants /\ e3.accounts = e2.accounts
        /\ IdsOf(e3.hosts) = IdsOf(e2.hosts)
    <2> HIDE DEF cs
    <2> QED BY <1>3, <1>4, <1>5, CalendarsDroppedKeeps DEF Kept
  <1> HIDE DEF e3
  <1>7. /\ Kept(e3, e4, o, h)
        /\ e4.schedules = Without(e3.schedules, ss)
        /\ e4.users = e3.users /\ e4.calendars = e3.calendars /\ e4.services = e3.services
        /\ e4.busy = e3.busy /\ e4.grants = e3.grants /\ e4.accounts = e3.accounts
        /\ e4.events = e3.events
        /\ IdsOf(e4.hosts) = IdsOf(e3.hosts)
    <2> HIDE DEF ss
    <2> QED BY <1>6, SchedulesDroppedKeeps DEF Kept
  <1> HIDE DEF e4
  <1>8. e4 \in Database /\ Consistent(e4, o, h)
    BY <1>7 DEF Kept, Consistent
  <1>9. /\ r \in Database /\ r.users = Without(e4.users, {u}) /\ r.copies = e4.copies
        /\ r.schedules = e4.schedules
        /\ r.calendars = e4.calendars /\ r.services = e4.services
        /\ r.events = e4.events /\ r.hosts = e4.hosts /\ r.busy = e4.busy /\ r.grants = e4.grants
        /\ r.accounts = e4.accounts
    BY <1>8, WithoutTyped DEF Database
  <1> HIDE DEF r
  \* Nothing that is left is of the user
  <1>10. \A c \in IdsOf(e4.calendars) : e4.calendars[c].user # u
    BY <1>2, <1>3, <1>6, <1>7 DEF CalendarsOf, Without, IdsOf
  <1>11. \A s \in IdsOf(e4.schedules) : e4.schedules[s].user # u
    BY <1>2, <1>3, <1>6, <1>7 DEF SchedulesOf, Without, IdsOf
  <1>12. \A x \in IdsOf(e4.hosts) : x[2] # u
    <2>1. IdsOf(e4.hosts) = IdsOf(e1.hosts)
      BY <1>3, <1>6, <1>7
    <2> QED BY <1>2, <2>1 DEF hs, Without, IdsOf
  <1>13. \A x \in IdsOf(e4.grants) : x[1] # u
    BY <1>2, <1>3, <1>6, <1>7 DEF gs, Without, IdsOf
  <1>14. UsersAtHome(r, h)
    BY <1>8, <1>9 DEF Consistent, UsersAtHome, Without, IdsOf
  <1>15. CalendarsOwned(r, o, h)
    BY <1>8, <1>9, <1>10 DEF Consistent, CalendarsOwned, Without, IdsOf, Stored
  <1>16. SchedulesOwned(r, o)
    BY <1>8, <1>9, <1>11 DEF Consistent, SchedulesOwned, Without, IdsOf, Stored
  <1>17. HostsPlaced(r, o, h)
    BY <1>8, <1>9, <1>12 DEF Consistent, HostsPlaced, PlanAccepted, Without, IdsOf, Stored
  <1>18. BusyOwned(r)
    BY <1>8, <1>9 DEF Consistent, BusyOwned, CalendarOfUser
  <1>19. GrantsPlaced(r, h)
    BY <1>8, <1>9, <1>13 DEF Consistent, GrantsPlaced, Without, IdsOf, Stored
  <1>20. Consistent(r, o, h)
    BY <1>8, <1>9, <1>14, <1>15, <1>16, <1>17, <1>18, <1>19 DEF Consistent, ServicesOwned,
        EventsOwned, CalendarOfUser, GrantsWhole, EventsDerived
  <1>21. UserDeleteAccepted(d, u)
    BY <1>1, <1>20 DEF UserDeleteAccepted, Consistent, BusyOwned, CalendarOfUser
  <1>22. NoneBut({}, d, r) /\ r.copies \subseteq d.copies
    BY <1>2, <1>3, <1>6, <1>7, <1>9 DEF Kept, NoneBut
  <1> QED BY <1>1, <1>2, <1>3, <1>6, <1>7, <1>9, <1>20, <1>21, <1>22 DEF Kept

(* A service goes with its hosts and its events.                           *)
LEMMA ServiceDeletedKeeps ==
    ASSUME NEW d, NEW o, NEW h, Consistent(d, o, h), NEW v
    PROVE  Kept(d, ServiceDeleted(d, v), o, h)
  <1> DEFINE hs == {x \in IdsOf(d.hosts) : x[1] = v}
             es == {e \in IdsOf(d.events) : d.events[e].service = v}
             e1 == HostsDropped(d, hs)
             e2 == EventsDropped(e1, es)
             r == [e2 EXCEPT !.services = Without(@, {v})]
  <1>1. ServiceDeleted(d, v) = r
    BY DEF ServiceDeleted
  <1>2. Kept(d, e1, o, h) /\ e1.hosts = Without(d.hosts, hs)
    BY HostsDroppedKeeps
  <1> HIDE DEF e1, hs
  <1>3. Kept(e1, e2, o, h) /\ e2.hosts = e1.hosts
    <2> HIDE DEF es
    <2> QED BY <1>2, EventsDroppedKeeps DEF Kept
  <1> HIDE DEF e2, es
  <1>4. e2 \in Database /\ Consistent(e2, o, h)
    BY <1>3 DEF Kept, Consistent
  <1>5. /\ r \in Database /\ r.services = Without(e2.services, {v})
        /\ r.users = e2.users /\ r.calendars = e2.calendars /\ r.schedules = e2.schedules
        /\ r.events = e2.events /\ r.hosts = e2.hosts /\ r.busy = e2.busy
        /\ r.grants = e2.grants /\ r.copies = e2.copies
    BY <1>4, WithoutTyped DEF Database
  <1> HIDE DEF r
  <1>6. \A x \in IdsOf(e2.hosts) : x[1] # v
    BY <1>2, <1>3 DEF hs, Without, IdsOf
  <1>7. ServicesOwned(r, o)
    BY <1>4, <1>5 DEF Consistent, ServicesOwned, Without, IdsOf
  <1>8. HostsPlaced(r, o, h)
    BY <1>4, <1>5, <1>6 DEF Consistent, HostsPlaced, PlanAccepted, Without, IdsOf, Stored
  <1>9. BusyOwned(r)
    BY <1>4, <1>5 DEF Consistent, BusyOwned, CalendarOfUser
  <1>10. Consistent(r, o, h)
    BY <1>4, <1>5, <1>7, <1>8, <1>9 DEF Consistent, UsersAtHome, CalendarsOwned, SchedulesOwned,
        EventsOwned, CalendarOfUser, GrantsPlaced, GrantsWhole, EventsDerived
  <1> QED BY <1>1, <1>2, <1>3, <1>5, <1>10 DEF Kept, NoneBut, Without, IdsOf

(* A calendar that is nobody's busy calendar, a schedule, a host, the      *)
(* events of a set, a synced calendar, a grant, the grants that an account *)
(* has at a provider                                                       *)
LEMMA OtherDeletesKeep ==
    ASSUME NEW d, NEW o, NEW h, Consistent(d, o, h)
    PROVE  /\ \A c : CalendarDeleteAccepted(d, c) => Kept(d, CalendarDeleted(d, c), o, h)
           /\ \A s : Kept(d, ScheduleDeleted(d, s), o, h)
           /\ \A v, u : Kept(d, HostDeleted(d, v, u), o, h)
           /\ \A es : Kept(d, EventsDeleted(d, es), o, h)
           /\ \A s : Kept(d, SyncDeleted(d, s), o, h)
           /\ \A u, p : Kept(d, GrantDeleted(d, u, p), o, h)
  <1>0. d \in Database
    BY DEF Consistent
  <1>1. ASSUME NEW c, CalendarDeleteAccepted(d, c)
        PROVE  Kept(d, CalendarDeleted(d, c), o, h)
    <2>1. {c} \intersect IdsOf(d.calendars) \in SUBSET Calendar
      BY <1>0 DEF Database, IdsOf
    <2>2. \A b \in d.busy : b[3] \notin {c} \intersect IdsOf(d.calendars)
      BY <1>1 DEF CalendarDeleteAccepted
    <2> QED BY <2>1, <2>2, CalendarsDroppedKeeps DEF CalendarDeleted
  <1>2. \A s : Kept(d, ScheduleDeleted(d, s), o, h)
    BY SchedulesDroppedKeeps DEF ScheduleDeleted
  <1>3. \A v, u : Kept(d, HostDeleted(d, v, u), o, h)
    BY HostsDroppedKeeps DEF HostDeleted
  <1>4. \A es : Kept(d, EventsDeleted(d, es), o, h)
    BY EventsDroppedKeeps DEF EventsDeleted
  <1>5. \A s : Kept(d, SyncDeleted(d, s), o, h)
    BY SyncsDroppedKeeps DEF SyncDeleted
  <1>6. \A u, p : Kept(d, GrantDeleted(d, u, p), o, h)
    BY GrantsDroppedKeeps DEF GrantDeleted
  <1> QED BY <1>1, <1>2, <1>3, <1>4, <1>5, <1>6

(* Deleting busy calendars, or the integration of an account, only takes   *)
(* rows away.                                                              *)
LEMMA BusyDeletesKeep ==
    ASSUME NEW d, NEW o, NEW h, Consistent(d, o, h)
    PROVE  /\ \A v, u : Kept(d, HostBusyDeleted(d, v, u), o, h)
           /\ \A v, u, c : Kept(d, BusyDeleted(d, v, u, c), o, h)
           /\ \A b : Kept(d, ExtBusyDeleted(d, b), o, h)
           /\ \A a, p : Kept(d, IntegrationDeleted(d, a, p), o, h)
  <1>0. d \in Database
    BY DEF Consistent
  <1>1. ASSUME NEW busy \in SUBSET d.busy
        PROVE  Kept(d, [d EXCEPT !.busy = busy], o, h)
    <2> DEFINE r == [d EXCEPT !.busy = busy]
    <2>1. /\ r \in Database /\ r.busy = busy
          /\ r.users = d.users /\ r.calendars = d.calendars /\ r.schedules = d.schedules
          /\ r.services = d.services /\ r.events = d.events /\ r.hosts = d.hosts
          /\ r.grants = d.grants /\ r.copies = d.copies
      BY <1>0 DEF Database
    <2> HIDE DEF r
    <2>2. HostsPlaced(r, o, h)
      BY <2>1 DEF Consistent, HostsPlaced, PlanAccepted
    <2>3. BusyOwned(r)
      BY <2>1 DEF Consistent, BusyOwned, CalendarOfUser
    <2>4. Consistent(r, o, h)
      BY <2>1, <2>2, <2>3 DEF Consistent, UsersAtHome, CalendarsOwned, SchedulesOwned,
          ServicesOwned, EventsOwned, CalendarOfUser, GrantsPlaced, GrantsWhole, EventsDerived
    <2> QED BY <2>1, <2>4 DEF Kept, NoneBut, r
  <1>2. \A v, u : Kept(d, HostBusyDeleted(d, v, u), o, h)
    BY <1>1 DEF HostBusyDeleted
  <1>3. \A v, u, c : Kept(d, BusyDeleted(d, v, u, c), o, h)
    BY <1>1 DEF BusyDeleted
  <1>4. ASSUME NEW b
        PROVE  Kept(d, ExtBusyDeleted(d, b), o, h)
    <2> DEFINE r == ExtBusyDeleted(d, b)
    <2>1. /\ r \in Database /\ r.busy = d.busy
          /\ r.users = d.users /\ r.calendars = d.calendars /\ r.schedules = d.schedules
          /\ r.services = d.services /\ r.events = d.events /\ r.hosts = d.hosts
          /\ r.grants = d.grants /\ r.copies = d.copies
      BY <1>0 DEF Database, ExtBusyDeleted
    <2> HIDE DEF r
    <2>2. Kept(d, r, o, h)
      BY <2>1, SameRows
    <2> QED BY <2>2 DEF r
  <1>5. ASSUME NEW a, NEW p
        PROVE  Kept(d, IntegrationDeleted(d, a, p), o, h)
    <2> DEFINE gs == {g \in IdsOf(d.grants) : g[2] = p /\ d.grants[g].account = a}
               e == GrantsDropped(d, gs)
               r == [e EXCEPT !.integrations = @ \ {<<a, p>>}]
    <2>1. Kept(d, e, o, h)
      <3> HIDE DEF gs
      <3> QED BY GrantsDroppedKeeps
    <2>2. IntegrationDeleted(d, a, p) = r
      BY DEF IntegrationDeleted
    <2> HIDE DEF e
    <2>3. e \in Database /\ Consistent(e, o, h)
      BY <2>1 DEF Kept, Consistent
    <2>4. /\ r \in Database /\ r.busy = e.busy
          /\ r.users = e.users /\ r.calendars = e.calendars /\ r.schedules = e.schedules
          /\ r.services = e.services /\ r.events = e.events /\ r.hosts = e.hosts
          /\ r.grants = e.grants /\ r.copies = e.copies
      BY <2>3 DEF Database
    <2> HIDE DEF r
    <2>5. Kept(e, r, o, h)
      BY <2>3, <2>4, SameRows
    <2> QED BY <2>1, <2>2, <2>5 DEF Kept, NoneBut
  <1> QED BY <1>2, <1>3, <1>4, <1>5

----------------------------------------------------------------------------
(* Insertions and saves.  Each keeps a database consistent under what its  *)
(* use case has established of the row.                                    *)

(* A user is stored under an account of its own.                           *)
LEMMA UserPutKeeps ==
    ASSUME NEW d, NEW o, NEW h, Consistent(d, o, h), NEW u \in User, NEW row \in UserRow,
           row.account \in h[u]
    PROVE  Kept(d, UserInserted(d, u, row), o, h) /\ Kept(d, UserSaved(d, u, row), o, h)
  <1> DEFINE r == [d EXCEPT !.users = Put(@, u, row)]
  <1>0. d \in Database
    BY DEF Consistent
  <1>1. /\ r \in Database /\ r.users = Put(d.users, u, row)
        /\ r.calendars = d.calendars /\ r.schedules = d.schedules
        /\ r.services = d.services /\ r.events = d.events /\ r.hosts = d.hosts
        /\ r.busy = d.busy /\ r.grants = d.grants /\ r.copies = d.copies
    BY <1>0, PutTyped DEF Database
  <1> HIDE DEF r
  <1>2. /\ DOMAIN r.users = DOMAIN d.users /\ DOMAIN d.users = User
        /\ r.users[u] = row /\ row # None
        /\ \A x \in User \ {u} : r.users[x] = d.users[x]
    BY <1>0, <1>1, NoneIsNoRow DEF Database, Put
  <1>3. \A x \in User : Stored(d.users, x) => Stored(r.users, x)
    BY <1>2 DEF Stored
  <1>4. UsersAtHome(r, h)
    BY <1>2 DEF Consistent, UsersAtHome, IdsOf
  <1>5. CalendarsOwned(r, o, h) /\ SchedulesOwned(r, o)
    BY <1>0, <1>1, <1>3 DEF Consistent, CalendarsOwned, SchedulesOwned, Stored, Database
  <1>6. HostsPlaced(r, o, h)
    BY <1>0, <1>1, <1>2, <1>3 DEF Consistent, HostsPlaced, PlanAccepted, Stored, Database
  <1>7. GrantsPlaced(r, h)
    BY <1>0, <1>1, <1>3 DEF Consistent, GrantsPlaced, Stored, Database
  <1>8. BusyOwned(r)
    BY <1>1 DEF Consistent, BusyOwned, CalendarOfUser
  <1>9. Consistent(r, o, h)
    BY <1>1, <1>4, <1>5, <1>6, <1>7, <1>8 DEF Consistent, ServicesOwned,
        EventsOwned, CalendarOfUser, GrantsWhole, EventsDerived
  <1>10. Kept(d, d, o, h)
    BY DEF Kept, NoneBut
  <1> QED BY <1>1, <1>9, <1>10 DEF Kept, NoneBut, r, UserInserted, UserSaved

(* A calendar is put under an id that was drawn for its user.              *)
LEMMA CalendarInsertedKeeps ==
    ASSUME NEW d, NEW o, NEW h, Consistent(d, o, h), NEW c \in Calendar, NEW row \in CalendarRow,
           Stored(d.users, row.user), row.account \in h[row.user], o[c] = row.user
    PROVE  LET r == CalendarInserted(d, c, row)
           IN  /\ Consistent(r, o, h) /\ r.copies = d.copies
               /\ NoneBut({c}, d, r) /\ (Stored(d.calendars, c) => NoneBut({}, d, r))
  <1> DEFINE r == CalendarInserted(d, c, row)
  <1>0. d \in Database
    BY DEF Consistent
  <1>1. /\ r \in Database /\ r.calendars = Put(d.calendars, c, row)
        /\ r.users = d.users /\ r.schedules = d.schedules
        /\ r.services = d.services /\ r.events = d.events /\ r.hosts = d.hosts
        /\ r.busy = d.busy /\ r.grants = d.grants /\ r.copies = d.copies
    BY <1>0, PutTyped DEF Database, CalendarInserted
  <1> HIDE DEF r
  <1>2. /\ DOMAIN r.calendars = DOMAIN d.calendars /\ DOMAIN d.calendars = Calendar
        /\ r.calendars[c] = row /\ row # None
        /\ \A x \in Calendar \ {c} : r.calendars[x] = d.calendars[x]
    BY <1>0, <1>1, NoneIsNoRow DEF Database, Put
  <1>3. CalendarsOwned(r, o, h)
    BY <1>1, <1>2 DEF Consistent, CalendarsOwned, IdsOf
  \* A calendar of a user is still one
  <1>4. \A x, u : CalendarOfUser(d, x, u) => CalendarOfUser(r, x, u)
    BY <1>2 DEF Consistent, CalendarsOwned, CalendarOfUser, Stored, IdsOf
  <1>5. \A x : Stored(d.calendars, x) => Stored(r.calendars, x)
    BY <1>2 DEF Stored
  <1>6. EventsOwned(r, o, h) /\ BusyOwned(r)
    BY <1>1, <1>4 DEF Consistent, EventsOwned, BusyOwned
  <1>7. HostsPlaced(r, o, h)
    BY <1>1, <1>5 DEF Consistent, HostsPlaced, PlanAccepted
  <1>8. Consistent(r, o, h)
    BY <1>1, <1>3, <1>6, <1>7 DEF Consistent, UsersAtHome, SchedulesOwned, ServicesOwned,
        GrantsPlaced, GrantsWhole, EventsDerived
  <1> QED BY <1>1, <1>2, <1>8 DEF NoneBut, IdsOf, Stored, r

(* A schedule that is inserted for a stored user leaves the tables         *)
(* consistent.                                                             *)
LEMMA ScheduleInsertedKeeps ==
    ASSUME NEW d, NEW o, NEW h, Consistent(d, o, h), NEW s \in Schedule, NEW row \in ScheduleRow,
           Stored(d.users, row.user), o[s] = row.user
    PROVE  LET r == ScheduleInserted(d, s, row)
           IN  /\ Consistent(r, o, h) /\ r.copies = d.copies
               /\ NoneBut({s}, d, r) /\ (Stored(d.schedules, s) => NoneBut({}, d, r))
  <1> DEFINE r == ScheduleInserted(d, s, row)
  <1>0. d \in Database
    BY DEF Consistent
  <1>1. /\ r \in Database /\ r.schedules = Put(d.schedules, s, row)
        /\ r.users = d.users /\ r.calendars = d.calendars
        /\ r.services = d.services /\ r.events = d.events /\ r.hosts = d.hosts
        /\ r.busy = d.busy /\ r.grants = d.grants /\ r.copies = d.copies
    BY <1>0, PutTyped DEF Database, ScheduleInserted
  <1> HIDE DEF r
  <1>2. /\ DOMAIN r.schedules = DOMAIN d.schedules /\ DOMAIN d.schedules = Schedule
        /\ r.schedules[s] = row /\ row # None
        /\ \A x \in Schedule \ {s} : r.schedules[x] = d.schedules[x]
    BY <1>0, <1>1, NoneIsNoRow DEF Database, Put
  <1>3. SchedulesOwned(r, o)
    BY <1>1, <1>2 DEF Consistent, SchedulesOwned, IdsOf
  <1>4. \A x : Stored(d.schedules, x) => Stored(r.schedules, x)
    BY <1>2 DEF Stored
  <1>5. HostsPlaced(r, o, h)
    BY <1>1, <1>4 DEF Consistent, HostsPlaced, PlanAccepted
  <1>6. BusyOwned(r)
    BY <1>1 DEF Consistent, BusyOwned, CalendarOfUser
  <1>7. Consistent(r, o, h)
    BY <1>1, <1>3, <1>5, <1>6 DEF Consistent, UsersAtHome, CalendarsOwned, ServicesOwned,
        EventsOwned, CalendarOfUser, GrantsPlaced, GrantsWhole, EventsDerived
  <1> QED BY <1>1, <1>2, <1>7 DEF NoneBut, IdsOf, Stored, r

(* A service that is inserted for a stored account leaves the tables       *)
(* consistent.                                                             *)
LEMMA ServiceInsertedKeeps ==
    ASSUME NEW d, NEW o, NEW h, Consistent(d, o, h), NEW v \in Service, NEW row \in ServiceRow,
           o[v] = row.account
    PROVE  LET r == ServiceInserted(d, v, row)
           IN  /\ Consistent(r, o, h) /\ r.copies = d.copies
               /\ NoneBut({v}, d, r) /\ (Stored(d.services, v) => NoneBut({}, d, r))
  <1> DEFINE r == ServiceInserted(d, v, row)
  <1>0. d \in Database
    BY DEF Consistent
  <1>1. /\ r \in Database /\ r.services = Put(d.services, v, row)
        /\ r.users = d.users /\ r.calendars = d.calendars
        /\ r.schedules = d.schedules /\ r.events = d.events /\ r.hosts = d.hosts
        /\ r.busy = d.busy /\ r.grants = d.grants /\ r.copies = d.copies
    BY <1>0, PutTyped DEF Database, ServiceInserted
  <1> HIDE DEF r
  <1>2. /\ DOMAIN r.services = DOMAIN d.services /\ DOMAIN d.services = Service
        /\ r.services[v] = row /\ row # None
        /\ \A x \in Service \ {v} : r.services[x] = d.services[x]
    BY <1>0, <1>1, NoneIsNoRow DEF Database, Put
  <1>3. ServicesOwned(r, o)
    BY <1>1, <1>2 DEF Consistent, ServicesOwned, IdsOf
  <1>4. \A x : Stored(d.services, x) =>
            Stored(r.services, x) /\ r.services[x].account = d.services[x].account
    BY <1>2 DEF Stored, Consistent, ServicesOwned, IdsOf
  <1>5. HostsPlaced(r, o, h)
    BY <1>1, <1>4 DEF Consistent, HostsPlaced, PlanAccepted
  <1>6. BusyOwned(r)
    BY <1>1 DEF Consistent, BusyOwned, CalendarOfUser
  <1>7. Consistent(r, o, h)
    BY <1>1, <1>3, <1>5, <1>6 DEF Consistent, UsersAtHome, CalendarsOwned, SchedulesOwned,
        EventsOwned, CalendarOfUser, GrantsPlaced, GrantsWhole, EventsDerived
  <1> QED BY <1>1, <1>2, <1>7 DEF NoneBut, IdsOf, Stored, r

(* A row whose data alone is replaced is the row of the same owner.        *)
LEMMA SavesKeep ==
    ASSUME NEW d, NEW o, NEW h, Consistent(d, o, h)
    PROVE  /\ \A c, row : row.data \in Data => Kept(d, CalendarSaved(d, c, row), o, h)
           /\ \A s, row : row.data \in Data => Kept(d, ScheduleSaved(d, s, row), o, h)
  <1>0. d \in Database /\ Kept(d, d, o, h)
    BY DEF Consistent, Kept, NoneBut
  <1>1. ASSUME NEW c, NEW row, row.data \in Data
        PROVE  Kept(d, CalendarSaved(d, c, row), o, h)
    <2>1. CASE Stored(d.calendars, c)
      <3> DEFINE new == [d.calendars[c] EXCEPT !.data = row.data]
      <3>1. c \in Calendar /\ d.calendars[c] \in CalendarRow
        BY <1>0, <2>1 DEF Database, Stored
      <3>2. new \in CalendarRow /\ new.user = d.calendars[c].user /\ new.account = d.calendars[c].account
        BY <1>1, <3>1 DEF CalendarRow
      <3>3. /\ Stored(d.users, new.user) /\ new.account \in h[new.user] /\ o[c] = new.user
        BY <2>1, <3>2 DEF Consistent, CalendarsOwned, Stored, IdsOf
      <3>4. CalendarSaved(d, c, row) = CalendarInserted(d, c, new)
        BY <2>1 DEF CalendarSaved, CalendarInserted
      <3> HIDE DEF new
      <3>5. LET r == CalendarInserted(d, c, new)
            IN  Consistent(r, o, h) /\ r.copies = d.copies /\ NoneBut({}, d, r)
        BY <2>1, <3>1, <3>2, <3>3, CalendarInsertedKeeps
      <3> QED BY <3>4, <3>5 DEF Kept
    <2> QED BY <1>0, <2>1 DEF CalendarSaved
  <1>2. ASSUME NEW s, NEW row, row.data \in Data
        PROVE  Kept(d, ScheduleSaved(d, s, row), o, h)
    <2>1. CASE Stored(d.schedules, s)
      <3> DEFINE new == [d.schedules[s] EXCEPT !.data = row.data]
      <3>1. s \in Schedule /\ d.schedules[s] \in ScheduleRow
        BY <1>0, <2>1 DEF Database, Stored
      <3>2. new \in ScheduleRow /\ new.user = d.schedules[s].user
        BY <1>2, <3>1 DEF ScheduleRow
      <3>3. Stored(d.users, new.user) /\ o[s] = new.user
        BY <2>1, <3>2 DEF Consistent, SchedulesOwned, Stored, IdsOf
      <3>4. ScheduleSaved(d, s, row) = ScheduleInserted(d, s, new)
        BY <2>1 DEF ScheduleSaved, ScheduleInserted
      <3> HIDE DEF new
      <3>5. LET r == ScheduleInserted(d, s, new)
            IN  Consistent(r, o, h) /\ r.copies = d.copies /\ NoneBut({}, d, r)
        BY <2>1, <3>1, <3>2, <3>3, ScheduleInsertedKeeps
      <3> QED BY <3>4, <3>5 DEF Kept
    <2> QED BY <1>0, <2>1 DEF ScheduleSaved
  <1> QED BY <1>1, <1>2

(* A user becomes a host of a service of one of its accounts, with a plan  *)
(* of its own.                                                             *)
LEMMA HostPutKeeps ==
    ASSUME NEW d, NEW o, NEW h, Consistent(d, o, h),
           NEW v \in Service, NEW u \in User, NEW row \in HostRow,
           Stored(d.services, v), Stored(d.users, u), d.services[v].account \in h[u],
           PlanOwned(row, u, o), PlanAccepted(d, row)
    PROVE  Kept(d, HostInserted(d, v, u, row), o, h)
  <1> DEFINE r == HostInserted(d, v, u, row)
             x == <<v, u>>
  <1>0. d \in Database
    BY DEF Consistent
  <1>1. /\ r \in Database /\ r.hosts = Put(d.hosts, x, row)
        /\ r.users = d.users /\ r.calendars = d.calendars /\ r.schedules = d.schedules
        /\ r.services = d.services /\ r.events = d.events
        /\ r.busy = d.busy /\ r.grants = d.grants /\ r.copies = d.copies
    BY <1>0, PutTyped DEF Database, HostInserted
  <1> HIDE DEF r
  <1>2. x[1] = v /\ x[2] = u /\ x \in Service \X User
    OBVIOUS
  <1> HIDE DEF x
  <1>3. /\ DOMAIN r.hosts = DOMAIN d.hosts /\ DOMAIN d.hosts = Service \X User
        /\ r.hosts[x] = row /\ row # None
        /\ \A y \in Service \X User : y # x => r.hosts[y] = d.hosts[y]
    BY <1>0, <1>1, <1>2, NoneIsNoRow DEF Database, Put
  <1>4. ASSUME NEW y \in IdsOf(r.hosts)
        PROVE  /\ Stored(d.services, y[1]) /\ Stored(d.users, y[2])
               /\ d.services[y[1]].account \in h[y[2]]
               /\ PlanOwned(r.hosts[y], y[2], o) /\ PlanAccepted(d, r.hosts[y])
    <2>1. CASE y = x
      BY <1>2, <1>3, <2>1
    <2>2. CASE y # x
      BY <1>3, <2>2 DEF Consistent, HostsPlaced, IdsOf
    <2> QED BY <2>1, <2>2
  <1>5. HostsPlaced(r, o, h)
    BY <1>1, <1>4 DEF HostsPlaced, PlanAccepted
  <1>6. \A y : Stored(d.hosts, y) => Stored(r.hosts, y)
    BY <1>3 DEF Stored
  <1>7. BusyOwned(r)
    BY <1>1, <1>6 DEF Consistent, BusyOwned, CalendarOfUser
  <1>8. Consistent(r, o, h)
    BY <1>1, <1>5, <1>7 DEF Consistent, UsersAtHome, CalendarsOwned, SchedulesOwned,
        ServicesOwned, EventsOwned, CalendarOfUser, GrantsPlaced, GrantsWhole, EventsDerived
  <1> QED BY <1>1, <1>8 DEF Kept, NoneBut, r

(* Saving a host with a plan of its own leaves the tables consistent.      *)
LEMMA HostSavedKeeps ==
    ASSUME NEW d, NEW o, NEW h, Consistent(d, o, h), NEW v, NEW u, NEW row \in HostRow,
           PlanOwned(row, u, o), HostSaveAccepted(d, v, u, row)
    PROVE  Kept(d, HostSaved(d, v, u, row), o, h)
  <1>0. d \in Database /\ Kept(d, d, o, h)
    BY DEF Consistent, Kept, NoneBut
  <1>1. CASE Stored(d.hosts, <<v, u>>)
    <2>1. <<v, u>> \in IdsOf(d.hosts) /\ <<v, u>> \in Service \X User
      BY <1>0, <1>1 DEF Stored, IdsOf, Database
    <2>2. /\ v \in Service /\ u \in User
          /\ Stored(d.services, v) /\ Stored(d.users, u) /\ d.services[v].account \in h[u]
      BY <2>1 DEF Consistent, HostsPlaced
    <2>3. HostSaved(d, v, u, row) = HostInserted(d, v, u, row) /\ PlanAccepted(d, row)
      BY <1>1 DEF HostSaved, HostInserted, HostSaveAccepted
    <2> QED BY <2>2, <2>3, HostPutKeeps
  <1> QED BY <1>0, <1>1 DEF HostSaved

(* A busy calendar of the host itself leaves the tables consistent.        *)
LEMMA BusyInsertedKeeps ==
    ASSUME NEW d, NEW o, NEW h, Consistent(d, o, h), NEW v, NEW u, NEW c,
           BusyInsertAccepted(d, v, u, c), o[c] = u
    PROVE  Kept(d, BusyInserted(d, v, u, c), o, h)
  <1> DEFINE r == BusyInserted(d, v, u, c)
             b == <<v, u, c>>
  <1>0. d \in Database
    BY DEF Consistent
  <1>1. <<v, u>> \in Service \X User /\ c \in Calendar
    BY <1>0 DEF BusyInsertAccepted, Stored, Database
  <1>2. b \in BusyKey /\ b[1] = v /\ b[2] = u /\ b[3] = c
    BY <1>1 DEF BusyKey
  <1>3. /\ r \in Database /\ r.busy = d.busy \union {b}
        /\ r.users = d.users /\ r.calendars = d.calendars /\ r.schedules = d.schedules
        /\ r.services = d.services /\ r.events = d.events /\ r.hosts = d.hosts
        /\ r.grants = d.grants /\ r.copies = d.copies
    BY <1>0, <1>2 DEF Database, BusyInserted
  <1> HIDE DEF r, b
  <1>4. CalendarOfUser(d, c, u)
    BY DEF Consistent, CalendarsOwned, IdsOf, Stored, BusyInsertAccepted, CalendarOfUser
  <1>5. BusyOwned(r)
    BY <1>2, <1>3, <1>4 DEF Consistent, BusyOwned, CalendarOfUser, BusyInsertAccepted
  <1>6. HostsPlaced(r, o, h)
    BY <1>3 DEF Consistent, HostsPlaced, PlanAccepted
  <1>7. Consistent(r, o, h)
    BY <1>3, <1>5, <1>6 DEF Consistent, UsersAtHome, CalendarsOwned, SchedulesOwned,
        ServicesOwned, EventsOwned, CalendarOfUser, GrantsPlaced, GrantsWhole, EventsDerived
  <1> QED BY <1>3, <1>7 DEF Kept, NoneBut, r

(* The grant of a user, under an account of its own, with a token of the   *)
(* grant it can be renewed with                                            *)
LEMMA GrantPutKeeps ==
    ASSUME NEW d, NEW o, NEW h, Consistent(d, o, h), NEW u \in User, NEW p \in Provider,
           NEW row \in GrantRow, row.access.grant = row.refresh,
           Stored(d.users, u), row.account \in h[u]
    PROVE  Kept(d, GrantInserted(d, u, p, row), o, h)
  <1> DEFINE r == GrantInserted(d, u, p, row)
             x == <<u, p>>
  <1>0. d \in Database
    BY DEF Consistent
  <1>1. /\ r \in Database /\ r.grants = Put(d.grants, x, row)
        /\ r.users = d.users /\ r.calendars = d.calendars /\ r.schedules = d.schedules
        /\ r.services = d.services /\ r.events = d.events /\ r.hosts = d.hosts
        /\ r.busy = d.busy /\ r.copies = d.copies
    BY <1>0, PutTyped DEF Database, GrantInserted
  <1> HIDE DEF r
  <1>2. x[1] = u /\ x[2] = p /\ x \in User \X Provider
    OBVIOUS
  <1> HIDE DEF x
  <1>3. /\ DOMAIN r.grants = DOMAIN d.grants /\ DOMAIN d.grants = User \X Provider
        /\ r.grants[x] = row
        /\ \A y \in User \X Provider : y # x => r.grants[y] = d.grants[y]
    BY <1>0, <1>1, <1>2 DEF Database, Put
  <1>4. ASSUME NEW y \in IdsOf(r.grants)
        PROVE  /\ Stored(d.users, y[1]) /\ r.grants[y].account \in h[y[1]]
               /\ r.grants[y].access.grant = r.grants[y].refresh
    <2>1. CASE y = x
      BY <1>2, <1>3, <2>1
    <2>2. CASE y # x
      BY <1>3, <2>2 DEF Consistent, GrantsPlaced, GrantsWhole, IdsOf
    <2> QED BY <2>1, <2>2
  <1>5. GrantsPlaced(r, h) /\ GrantsWhole(r)
    BY <1>1, <1>4 DEF GrantsPlaced, GrantsWhole
  <1>6. HostsPlaced(r, o, h)
    BY <1>1 DEF Consistent, HostsPlaced, PlanAccepted
  <1>7. BusyOwned(r)
    BY <1>1 DEF Consistent, BusyOwned, CalendarOfUser
  <1>8. Consistent(r, o, h)
    BY <1>1, <1>5, <1>6, <1>7 DEF Consistent, UsersAtHome, CalendarsOwned, SchedulesOwned,
        ServicesOwned, EventsOwned, CalendarOfUser, EventsDerived
  <1> QED BY <1>1, <1>8 DEF Kept, NoneBut, r

(* Saving a grant whose two tokens belong together leaves the tables       *)
(* consistent.                                                             *)
LEMMA GrantSavedKeeps ==
    ASSUME NEW d, NEW o, NEW h, Consistent(d, o, h), NEW u, NEW p,
           NEW row \in GrantRow, row.access.grant = row.refresh
    PROVE  Kept(d, GrantSaved(d, u, p, row), o, h)
  <1>0. d \in Database /\ Kept(d, d, o, h)
    BY DEF Consistent, Kept, NoneBut
  <1>1. CASE Stored(d.grants, <<u, p>>)
    <2> DEFINE new == [row EXCEPT !.account = d.grants[<<u, p>>].account]
    <2>1. <<u, p>> \in IdsOf(d.grants) /\ <<u, p>> \in User \X Provider
      BY <1>0, <1>1 DEF Stored, IdsOf, Database
    <2>2. d.grants[<<u, p>>] \in GrantRow /\ u \in User /\ p \in Provider
      BY <1>0, <2>1 DEF Database, IdsOf
    <2>3. /\ new \in GrantRow /\ new.access.grant = new.refresh
          /\ new.account = d.grants[<<u, p>>].account
      BY <2>2 DEF GrantRow, Token
    <2>4. Stored(d.users, u) /\ d.grants[<<u, p>>].account \in h[u]
      BY <2>1 DEF Consistent, GrantsPlaced
    <2>5. GrantSaved(d, u, p, row) = GrantInserted(d, u, p, new)
      BY <1>1 DEF GrantSaved, GrantInserted
    <2> HIDE DEF new
    <2> QED BY <2>2, <2>3, <2>4, <2>5, GrantPutKeeps
  <1> QED BY <1>0, <1>1 DEF GrantSaved

WithEvents(d, t) == [d EXCEPT !.events = t]

(* An event is put under an id that was drawn for the user of its calendar *)
LEMMA EventsPutKeeps ==
    ASSUME NEW d, NEW o, NEW h, Consistent(d, o, h),
           NEW t \in [Event -> EventRow \union {None}],
           \A e \in IdsOf(t) :
                \/ e \in IdsOf(d.events) /\ t[e] = d.events[e]
                \/ /\ o[e] = t[e].user /\ o[t[e].calendar] = t[e].user
                   /\ Stored(d.calendars, t[e].calendar)
                   /\ t[e].account \in h[t[e].user] /\ Derived(t[e].times)
    PROVE  LET r == WithEvents(d, t)
           IN  /\ Consistent(r, o, h) /\ r.copies = d.copies
               /\ NoneBut(IdsOf(t) \ IdsOf(d.events), d, r)
  <1> DEFINE r == WithEvents(d, t)
  <1>0. d \in Database
    BY DEF Consistent
  <1>1. /\ r \in Database /\ r.events = t
        /\ r.users = d.users /\ r.calendars = d.calendars /\ r.schedules = d.schedules
        /\ r.services = d.services /\ r.hosts = d.hosts
        /\ r.busy = d.busy /\ r.grants = d.grants /\ r.copies = d.copies
    BY <1>0 DEF Database, WithEvents
  <1> HIDE DEF r
  <1>2. \A c, u : Stored(d.calendars, c) /\ o[c] = u => CalendarOfUser(d, c, u)
    BY DEF Consistent, CalendarsOwned, Stored, IdsOf, CalendarOfUser
  <1>3. ASSUME NEW e \in IdsOf(t)
        PROVE  /\ o[e] = t[e].user /\ CalendarOfUser(d, t[e].calendar, t[e].user)
               /\ t[e].account \in h[t[e].user] /\ Derived(t[e].times)
    BY <1>2 DEF Consistent, EventsOwned, EventsDerived
  <1>4. EventsOwned(r, o, h) /\ EventsDerived(r)
    BY <1>1, <1>3 DEF EventsOwned, EventsDerived, CalendarOfUser
  <1>5. HostsPlaced(r, o, h)
    BY <1>1 DEF Consistent, HostsPlaced, PlanAccepted
  <1>6. BusyOwned(r)
    BY <1>1 DEF Consistent, BusyOwned, CalendarOfUser
  <1>7. Consistent(r, o, h)
    BY <1>1, <1>4, <1>5, <1>6 DEF Consistent, UsersAtHome, CalendarsOwned, SchedulesOwned,
        ServicesOwned, GrantsPlaced, GrantsWhole
  <1> QED BY <1>1, <1>7 DEF NoneBut, IdsOf, r

(* What is known of an event that is inserted                              *)
Insertable(d, e, row, o, h) ==
    /\ e \in Event /\ row \in EventRow /\ Derived(row.times)
    /\ EventInsertAccepted(d, row)
    /\ o[e] = row.user /\ o[row.calendar] = row.user /\ row.account \in h[row.user]

(* An event inserted in a calendar of its owner leaves the tables          *)
(* consistent.                                                             *)
LEMMA EventInsertedKeeps ==
    ASSUME NEW d, NEW o, NEW h, Consistent(d, o, h), NEW e, NEW row, Insertable(d, e, row, o, h)
    PROVE  LET r == EventInserted(d, e, row)
           IN  Consistent(r, o, h) /\ r.copies = d.copies /\ NoneBut({e}, d, r)
  <1> DEFINE t == Put(d.events, e, row)
  <1>0. d \in Database
    BY DEF Consistent
  <1>1. t \in [Event -> EventRow \union {None}]
    BY <1>0, PutTyped DEF Database, Insertable
  <1>2. \A x \in IdsOf(t) : IF x = e THEN t[x] = row ELSE x \in IdsOf(d.events) /\ t[x] = d.events[x]
    BY <1>0 DEF Database, IdsOf, Put, Insertable
  <1>3. EventInserted(d, e, row) = WithEvents(d, t)
    BY DEF EventInserted, WithEvents
  <1> HIDE DEF t
  <1>4. /\ Consistent(WithEvents(d, t), o, h) /\ WithEvents(d, t).copies = d.copies
        /\ NoneBut(IdsOf(t) \ IdsOf(d.events), d, WithEvents(d, t))
    <2>1. ASSUME NEW x \in IdsOf(t)
          PROVE  \/ x \in IdsOf(d.events) /\ t[x] = d.events[x]
                 \/ /\ o[x] = t[x].user /\ o[t[x].calendar] = t[x].user
                    /\ Stored(d.calendars, t[x].calendar)
                    /\ t[x].account \in h[t[x].user] /\ Derived(t[x].times)
      BY <1>2 DEF Insertable, EventInsertAccepted
    <2> QED BY <1>1, <2>1, EventsPutKeeps
  <1> QED BY <1>2, <1>3, <1>4 DEF NoneBut

(* Events inserted in calendars of their owners leave the tables           *)
(* consistent.                                                             *)
LEMMA EventsInsertedKeeps ==
    ASSUME NEW d, NEW o, NEW h, Consistent(d, o, h), NEW new,
           \A n \in new : Insertable(d, n.event, n.row, o, h)
    PROVE  LET r == EventsInserted(d, new)
           IN  /\ Consistent(r, o, h) /\ r.copies = d.copies
               /\ NoneBut({n.event : n \in new}, d, r)
  <1> DEFINE pick(e) == CHOOSE n \in new : n.event = e
             t == [e \in DOMAIN d.events |->
                    IF \E n \in new : n.event = e THEN pick(e).row ELSE d.events[e]]
  <1>0. d \in Database
    BY DEF Consistent
  <1>1. \A e : (\E n \in new : n.event = e) => pick(e) \in new /\ pick(e).event = e
    OBVIOUS
  <1>3. EventsInserted(d, new) = WithEvents(d, t)
    BY DEF EventsInserted, WithEvents
  <1> HIDE DEF pick
  <1>2. t \in [Event -> EventRow \union {None}]
    BY <1>0, <1>1 DEF Database, Insertable
  <1>4. \A x \in IdsOf(t) : IF \E n \in new : n.event = x THEN t[x] = pick(x).row
                            ELSE x \in IdsOf(d.events) /\ t[x] = d.events[x]
    BY <1>0 DEF Database, IdsOf
  <1> HIDE DEF t
  <1>5. /\ Consistent(WithEvents(d, t), o, h) /\ WithEvents(d, t).copies = d.copies
        /\ NoneBut(IdsOf(t) \ IdsOf(d.events), d, WithEvents(d, t))
    <2>1. ASSUME NEW x \in IdsOf(t)
          PROVE  \/ x \in IdsOf(d.events) /\ t[x] = d.events[x]
                 \/ /\ o[x] = t[x].user /\ o[t[x].calendar] = t[x].user
                    /\ Stored(d.calendars, t[x].calendar)
                    /\ t[x].account \in h[t[x].user] /\ Derived(t[x].times)
      <3>1. CASE \E n \in new : n.event = x
        BY <1>1, <1>4, <3>1 DEF Insertable, EventInsertAccepted
      <3> QED BY <1>4, <3>1
    <2> QED BY <1>2, <2>1, EventsPutKeeps
  <1>6. IdsOf(t) \ IdsOf(d.events) \subseteq {n.event : n \in new}
    BY <1>4
  <1> QED BY <1>3, <1>5, <1>6 DEF NoneBut

(* Saving an event whose times follow from each other leaves the tables    *)
(* consistent.                                                             *)
LEMMA EventSavedKeeps ==
    ASSUME NEW d, NEW o, NEW h, Consistent(d, o, h), NEW e, NEW row \in EventRow,
           Derived(row.times)
    PROVE  Kept(d, EventSaved(d, e, row), o, h)
  <1>0. d \in Database /\ Kept(d, d, o, h)
    BY DEF Consistent, Kept, NoneBut
  <1>1. CASE Stored(d.events, e)
    <2> DEFINE new == [d.events[e] EXCEPT !.data = row.data, !.times = row.times,
                                          !.service = row.service]
               t == Put(d.events, e, new)
    <2>1. e \in Event /\ e \in IdsOf(d.events) /\ d.events[e] \in EventRow
      BY <1>0, <1>1 DEF Stored, IdsOf, Database
    <2>2. /\ new \in EventRow /\ new.times = row.times /\ new.user = d.events[e].user
          /\ new.calendar = d.events[e].calendar /\ new.account = d.events[e].account
      BY <2>1 DEF EventRow
    <2>3. EventSaved(d, e, row) = WithEvents(d, t)
      BY <1>1 DEF EventSaved, WithEvents
    <2> HIDE DEF new
    <2>4. t \in [Event -> EventRow \union {None}]
      BY <1>0, <2>1, <2>2, PutTyped DEF Database
    <2>5. \A x \in IdsOf(t) : /\ x \in IdsOf(d.events)
                              /\ IF x = e THEN t[x] = new ELSE t[x] = d.events[x]
      BY <1>0, <2>1 DEF Database, IdsOf, Put
    <2> HIDE DEF t
    <2>6. /\ o[e] = new.user /\ CalendarOfUser(d, new.calendar, new.user)
          /\ new.account \in h[new.user]
      BY <2>1, <2>2 DEF Consistent, EventsOwned
    <2>7. o[new.calendar] = new.user /\ Stored(d.calendars, new.calendar)
      BY <2>6 DEF Consistent, CalendarsOwned, CalendarOfUser, Stored, IdsOf
    <2>8. ASSUME NEW x \in IdsOf(t)
          PROVE  \/ x \in IdsOf(d.events) /\ t[x] = d.events[x]
                 \/ /\ o[x] = t[x].user /\ o[t[x].calendar] = t[x].user
                    /\ Stored(d.calendars, t[x].calendar)
                    /\ t[x].account \in h[t[x].user] /\ Derived(t[x].times)
      BY <2>2, <2>5, <2>6, <2>7
    <2>9. LET r == WithEvents(d, t)
          IN  Consistent(r, o, h) /\ r.copies = d.copies /\ NoneBut(IdsOf(t) \ IdsOf(d.events), d, r)
      BY <2>4, <2>8, EventsPutKeeps
    <2>10. IdsOf(t) \ IdsOf(d.events) = {}
      BY <2>5
    <2> QED BY <2>3, <2>9, <2>10 DEF Kept
  <1> QED BY <1>0, <1>1 DEF EventSaved

(* Accounts, the integrations of an account, synced calendars and external *)
(* busy calendars are no part of what the other rows say of each other.    *)
LEMMA OtherInsertsKeep ==
    ASSUME NEW d, NEW o, NEW h, Consistent(d, o, h)
    PROVE  /\ \A a, row : row \in AccountRow =>
                Kept(d, AccountInserted(d, a, row), o, h) /\ Kept(d, AccountSaved(d, a, row), o, h)
           /\ \A a, p : a \in Account /\ p \in Provider => Kept(d, IntegrationInserted(d, a, p), o, h)
           /\ \A s \in SyncKey : Kept(d, SyncInserted(d, s), o, h)
           /\ \A b \in ExtBusyKey : Kept(d, ExtBusyInserted(d, b), o, h)
           /\ \A k \in CopyKey : LET r == CopyInserted(d, k)
                                 IN  /\ Consistent(r, o, h) /\ NoneBut({}, d, r)
                                     /\ r.copies = d.copies \union {k}
  <1>0. d \in Database /\ Kept(d, d, o, h)
    BY DEF Consistent, Kept, NoneBut
  <1>1. ASSUME NEW a, NEW row \in AccountRow
        PROVE  Kept(d, AccountInserted(d, a, row), o, h) /\ Kept(d, AccountSaved(d, a, row), o, h)
    <2> DEFINE r == AccountInserted(d, a, row)
    <2>1. /\ r \in Database /\ r.copies = d.copies
          /\ r.users = d.users /\ r.calendars = d.calendars /\ r.schedules = d.schedules
          /\ r.services = d.services /\ r.events = d.events /\ r.hosts = d.hosts
          /\ r.busy = d.busy /\ r.grants = d.grants
      BY <1>0, PutTyped DEF Database, AccountInserted
    <2> HIDE DEF r
    <2>2. Kept(d, r, o, h)
      BY <2>1, SameRows
    <2> QED BY <1>0, <2>2 DEF AccountSaved, AccountInserted, r
  <1>2. ASSUME NEW a \in Account, NEW p \in Provider
        PROVE  Kept(d, IntegrationInserted(d, a, p), o, h)
    <2> DEFINE r == IntegrationInserted(d, a, p)
               i == d.integrations \union {<<a, p>>}
    <2>0. i \in SUBSET (Account \X Provider)
      BY <1>0 DEF Database
    <2> HIDE DEF i
    <2>1. /\ r \in Database /\ r.copies = d.copies
          /\ r.users = d.users /\ r.calendars = d.calendars /\ r.schedules = d.schedules
          /\ r.services = d.services /\ r.events = d.events /\ r.hosts = d.hosts
          /\ r.busy = d.busy /\ r.grants = d.grants
      <3>1. r = [d EXCEPT !.integrations = i]
        BY DEF IntegrationInserted, i
      <3> QED BY <1>0, <2>0, <3>1 DEF Database
    <2> HIDE DEF r
    <2>2. Kept(d, r, o, h)
      BY <2>1, SameRows
    <2> QED BY <2>2 DEF r
  <1>3. ASSUME NEW s \in SyncKey
        PROVE  Kept(d, SyncInserted(d, s), o, h)
    <2> DEFINE r == SyncInserted(d, s)
    <2>1. /\ r \in Database /\ r.copies = d.copies
          /\ r.users = d.users /\ r.calendars = d.calendars /\ r.schedules = d.schedules
          /\ r.services = d.services /\ r.events = d.events /\ r.hosts = d.hosts
          /\ r.busy = d.busy /\ r.grants = d.grants
      BY <1>0 DEF Database, SyncInserted
    <2> HIDE DEF r
    <2>2. Kept(d, r, o, h)
      BY <2>1, SameRows
    <2> QED BY <2>2 DEF r
  <1>4. ASSUME NEW b \in ExtBusyKey
        PROVE  Kept(d, ExtBusyInserted(d, b), o, h)
    <2> DEFINE r == ExtBusyInserted(d, b)
    <2>1. /\ r \in Database /\ r.copies = d.copies
          /\ r.users = d.users /\ r.calendars = d.calendars /\ r.schedules = d.schedules
          /\ r.services = d.services /\ r.events = d.events /\ r.hosts = d.hosts
          /\ r.busy = d.busy /\ r.grants = d.grants
      BY <1>0 DEF Database, ExtBusyInserted
    <2> HIDE DEF r
    <2>2. Kept(d, r, o, h)
      BY <2>1, SameRows
    <2> QED BY <2>2 DEF r
  <1>5. ASSUME NEW k \in CopyKey
        PROVE  LET r == CopyInserted(d, k)
               IN  /\ Consistent(r, o, h) /\ NoneBut({}, d, r)
                   /\ r.copies = d.copies \union {k}
    <2> DEFINE r == CopyInserted(d, k)
    <2>1. /\ r \in Database /\ r.copies = d.copies \union {k}
          /\ r.users = d.users /\ r.calendars = d.calendars /\ r.schedules = d.schedules
          /\ r.services = d.services /\ r.events = d.events /\ r.hosts = d.hosts
          /\ r.busy = d.busy /\ r.grants = d.grants
      BY <1>0 DEF Database, CopyInserted
    <2> HIDE DEF r
    <2>2. Consistent(r, o, h) /\ NoneBut({}, d, r)
      BY <2>1, SameRows
    <2> QED BY <2>1, <2>2 DEF r
  <1> QED BY <1>1, <1>2, <1>3, <1>4, <1>5
=============================================================================
