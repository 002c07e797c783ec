---------------------------- MODULE ServerProofs ----------------------------
(***************************************************************************)
(* What the server keeps true of its tables, whatever the requests, their  *)
(* number, the connections, the faults and the time: every statement of    *)
(* every use case finds what it relies on established by the guard and the *)
(* finds that its own request ran before, although other requests ran      *)
(* theirs in between.                                                      *)
(*                                                                         *)
(* The inductive invariant Inv is Consistent of the tables (TablesProofs   *)
(* has what each statement does to it) with, for each request, what its    *)
(* fields hold by the statement it is at (Holds).                          *)
(***************************************************************************)
EXTENDS Server, TablesProofs, FiniteSetTheorems

(* Where a request is before its use case begins *)
Guards == {"account", "user", "public", "calendar", "schedule", "event"}
(* The use cases that rely on a guard for the account of their user        *)
UserRouted ==
    {"OAuthIntegration", "GetExternalCalendars", "AddSyncCalendar", "CreateCalendar",
     "CreateEvent", "CreateBatchEvents"}
WholeGrant == {g \in GrantRow : g.access.grant = g.refresh}
Tokening == {"token", "client", "renew", "store", "connected", "record"}
CopySteps == Tokening \union {"copies", "ownerOfCopies"}
Copied == Creates \union {"UpdateEvent", "DeleteEvent"}

(* The fields of a request are of the kind its use case takes              *)
Shape(q) ==
    /\ DOMAIN q = DOMAIN Blank
    /\ q.account \in Account /\ q.user \in User \union {None}
    /\ q.calendar \in Calendar \union {None} /\ q.schedule \in Schedule \union {None}
    /\ q.service \in Service \union {None} /\ q.event \in Event \union {None}
    /\ q.key \in Value \union {None} /\ q.patch \in [Field -> Value \union {None}]
    /\ q.op \in Making => q.patch \in Data
    /\ q.op = "CreateUser" => q.user \in User
    /\ q.op \in Creates => q.times \in Times
    /\ q.op = "UpdateEvent" => q.times \in TimesPatch \union {None}
    /\ q.op = "DeleteManyEvents" => q.todo \subseteq Event
    /\ q.op \in IntegrationOps => q.provider \in Provider
    /\ q.op \in {"AddSyncCalendar", "AddExtBusyCalendar"} => q.ext \in ExtCalendar
    /\ q.op \in ByKeyOnly => q.server \in Server

AtHome(q, h) == q.user \in User /\ q.account \in h[q.user]

(* What the use cases of Directory rely on *)
DirectoryHolds(q, o, h) ==
    /\ q.op = "CreateUser" /\ q.at = "write" => q.row \in UserRow /\ q.row.account = q.account
    /\ q.op = "UpdateUser" /\ q.at = "write" =>
            q.user \in User /\ q.row \in UserRow /\ q.row.account \in h[q.user]
    /\ q.op = "UpdateCalendar" /\ q.at = "write" => q.row \in CalendarRow
    /\ q.op = "CreateSchedule" /\ q.at = "write" => q.row \in ScheduleRow /\ q.row.user = q.user
    /\ q.op = "UpdateSchedule" /\ q.at = "write" => q.row \in ScheduleRow
    /\ q.op = "AddUserToService" /\ q.at \in {"service", "plan", "write"} => AtHome(q, h)
    /\ q.op = "AddUserToService" /\ q.at \in {"plan", "write"} =>
            q.service \in Service /\ o[q.service] = q.account
    /\ q.op \in {"AddUserToService", "UpdateServiceUser"} /\ q.at \in {"plan", "write"} =>
            q.user \in User /\ q.row \in HostRow /\ PlanOwned(q.row, q.user, o)
    /\ q.op = "AddBusyCalendar" /\ q.at = "write" =>
            q.user \in User /\ q.calendar \in Calendar /\ o[q.calendar] = q.user

(* Of Integrations and of EventSync, while they obtain a token *)
TokenHolds(q) ==
    /\ q.op = "OAuthIntegration" /\ q.at = "write" =>
            q.grant \in WholeGrant /\ q.grant.account = q.account
    /\ q.op = "AddExtBusyCalendar" /\ q.at = "exists" => q.user \in User
    /\ q.op \in IntegrationOps \union Copied /\ q.at \in Tokening =>
            q.user \in User /\ q.provider \in Provider
    /\ q.op \in IntegrationOps \union Copied /\ q.at \in {"client", "renew", "store"} =>
            q.grant \in WholeGrant

(* Of EventSync: the events a request has made or changed, and the synced  *)
(* calendars or the copies it goes through                                 *)
EventHolds(q, o, rm) ==
    /\ q.op = "CreateEvent" /\ q.at = "write" =>
            q.calendar \in Calendar /\ o[q.calendar] = q.user
    /\ q.op = "CreateBatchEvents" =>
            /\ q.at \notin Guards \ {"user"}
            /\ IF q.at \in {"user", "find"} THEN q.queue \subseteq Calendar
               ELSE IF q.at = "write" THEN \A c \in q.queue : c \in Calendar /\ o[c] = q.user
               ELSE q.queue \subseteq [event : Event, row : EventRow]
    /\ q.op = "UpdateEvent" /\ q.at \in {"guarded", "write"} =>
            q.row \in EventRow /\ Derived(q.row.times)
    /\ q.op = "DeleteEvent" /\ q.at = "guarded" => q.row \in EventRow
    /\ q.op \in Copied /\ q.at \in CopySteps => q.row \in EventRow
    /\ q.op \in Creates /\ q.at \in CopySteps => q.event \in Event
    /\ q.op \in Creates /\ q.at \in CopySteps \ {"copies"} => q.todo \subseteq SyncKey
    /\ q.op \in Copied \ Creates /\ q.at \in CopySteps \ {"copies"} =>
            \A c \in q.todo : c \in CopyKey /\ rm[c.copy] # None
    /\ q.op \in Creates /\ q.at = "record" =>
            q.sync.s \in SyncKey /\ q.sync.copy \in ExtEvent /\ rm[q.sync.copy] # None

(* Of Accounts *)
AccountHolds(q) ==
    /\ q.op \in ByKeyOnly => q.at \notin Guards
    /\ q.op = "CreateAccount" => q.at \notin {"apikey", "select", "remember"}
    /\ q.op \in ByKeyOnly /\ q.at \in {"remember", "find"} => q.row \in AccountRow
    /\ q.op = "InitDefaultAccount" /\ q.at = "integrate" => q.provider \in Provider

Holds(q, o, h, rm) ==
    /\ Shape(q)
    /\ q.op \in UserRouted => q.at \in {"account", "user"} \/ AtHome(q, h)
    /\ DirectoryHolds(q, o, h) /\ TokenHolds(q) /\ EventHolds(q, o, rm) /\ AccountHolds(q)

(* The invariant of the variables other than db and calls *)
GhostsTyped ==
    /\ origin \in [Owned -> User \union Account \union {None}]
    /\ homes \in [User -> SUBSET Account] /\ \A u \in User : IsFiniteSet(homes[u])
    /\ kept \in [Updated -> [Field -> Value \union {None}]]
    /\ remote \in [ExtEvent -> RemoteEvent \union {None}]
    /\ cache = [s \in Server |-> [a \in Account |-> cache[s][a]]]
    /\ \A s \in Server, a \in Account : cache[s][a] # None => cache[s][a].row \in AccountRow

Bounded ==
    /\ scenario \in DOMAIN Scenarios
    /\ made \in 0..Scenarios[scenario].limit
    /\ failures \in 0..Scenarios[scenario].faults
    /\ now \in 0..Scenarios[scenario].time

Inv ==
    /\ Consistent(db, origin, homes)
    /\ \A c \in db.copies : remote[c.copy] # None
    /\ GhostsTyped /\ Bounded
    /\ calls = [k \in Client |-> calls[k]]
    /\ \A k \in Client : calls[k] # None => Holds(calls[k], origin, homes, remote)
    /\ crossed \subseteq Event \union Account
    /\ abandoned \subseteq Event \union Calendar

----------------------------------------------------------------------------
(* What a step of one request may do to the variables *)

Fresh == {x \in Owned : origin[x] = None}

TablesFine ==
    /\ Consistent(db', origin', homes')
    /\ NoneBut(Fresh, db, db')
    /\ \A c \in db'.copies : remote'[c.copy] # None
GhostsFine ==
    /\ GhostsTyped'
    /\ \A x \in Owned : origin[x] # None => origin'[x] = origin[x]
    /\ \A u \in User : homes[u] \subseteq homes'[u]
    /\ \A x \in ExtEvent : remote[x] # None => remote'[x] # None
CallFine(k) ==
    /\ calls' = [j \in Client |-> calls'[j]]
    /\ \A j \in Client \ {k} : calls'[j] = calls[j]
    /\ calls'[k] # None => Holds(calls'[k], origin', homes', remote')
Fine(k) == TablesFine /\ GhostsFine /\ Bounded' /\ CallFine(k)

(* What a request holds is not lost when ids are given to other rows,      *)
(* users are stored in further accounts and copies are made and removed.   *)
LEMMA HoldsOn ==
    ASSUME NEW q, NEW o, NEW h, NEW rm, Holds(q, o, h, rm), NEW o2, NEW h2, NEW rm2,
           \A x \in Owned : o[x] # None => o2[x] = o[x],
           \A u \in User : h[u] \subseteq h2[u],
           \A x \in ExtEvent : rm[x] # None => rm2[x] # None
    PROVE  Holds(q, o2, h2, rm2)
  <1>0. None \notin User /\ None \notin Account
    BY NoneIsNoId
  <1>1. q.op \in UserRouted => q.at \in {"account", "user"} \/ AtHome(q, h2)
    BY DEF Holds, AtHome
  <1>2. DirectoryHolds(q, o2, h2)
    <2>1. ASSUME NEW row \in HostRow, NEW u \in User, PlanOwned(row, u, o)
          PROVE  PlanOwned(row, u, o2)
      BY <2>1, <1>0 DEF PlanOwned, HostRow, Owned
    <2> QED BY <2>1, <1>0 DEF Holds, DirectoryHolds, AtHome, Shape, Owned
  <1>3. EventHolds(q, o2, rm2)
    <2>1. \A c \in CopyKey : c.copy \in ExtEvent
      BY DEF CopyKey
    <2>2. q.op = "CreateEvent" /\ q.at = "write" => q.user \in User
      BY DEF Holds, UserRouted, AtHome
    <2>3. q.op = "CreateBatchEvents" /\ q.at = "write" => q.user \in User
      BY DEF Holds, UserRouted, AtHome
    <2> QED BY <2>1, <2>2, <2>3, <1>0 DEF Holds, EventHolds, Owned
  <1> QED BY <1>1, <1>2, <1>3 DEF Holds

(* What requests work on are events and accounts.                          *)
LEMMA WorksTyped ==
    ASSUME NEW q, NEW o, NEW h, NEW rm, q # None => Holds(q, o, h, rm)
    PROVE  WorksOn(q) \subseteq Event \union Account
  <1>1. CASE q = None
    BY <1>1 DEF WorksOn
  <1>2. CASE q # None /\ q.op = "CreateBatchEvents"
    <2>1. CASE q.at \in {"user", "find", "write"}
      <3>1. WorksOn(q) = {q.event} \ {None}
        BY <1>2, <2>1 DEF WorksOn
      <3> QED BY <3>1, <1>2 DEF Holds, Shape
    <2>2. CASE q.at \notin {"user", "find", "write"}
      <3>1. WorksOn(q) = ({q.event} \ {None}) \union {n.event : n \in q.queue}
        BY <1>2, <2>2 DEF WorksOn
      <3>2. q.queue \subseteq [event : Event, row : EventRow]
        BY <1>2, <2>2 DEF Holds, EventHolds
      <3> QED BY <3>1, <3>2, <1>2 DEF Holds, Shape
    <2> QED BY <2>1, <2>2
  <1>3. CASE q # None /\ q.op # "CreateBatchEvents"
    BY <1>3 DEF WorksOn, Holds, Shape
  <1> QED BY <1>1, <1>2, <1>3

(* A Fine step of a request, with what it wrote noticed, keeps the         *)
(* invariant.                                                              *)
LEMMA FineKeeps ==
    ASSUME Inv, NEW k \in Client, Fine(k), Noticed
    PROVE  Inv'
  <1>1. ASSUME NEW j \in Client, calls'[j] # None
        PROVE  Holds(calls'[j], origin', homes', remote')
    <2>1. CASE j = k
      BY <1>1, <2>1 DEF Fine, CallFine
    <2>2. CASE j # k
      <3>1. calls'[j] = calls[j] /\ Holds(calls[j], origin, homes, remote)
        BY <1>1, <2>2 DEF Fine, CallFine, Inv
      <3> QED BY <3>1, HoldsOn DEF Fine, GhostsFine
    <2> QED BY <2>1, <2>2
  <1>2. Met(calls') \subseteq Event \union Account
    <2>1. \A j \in Client : WorksOn(calls'[j]) \subseteq Event \union Account
      BY <1>1, WorksTyped
    <2> QED BY <2>1 DEF Met
  <1>3. EventsLost \union {s.calendar : s \in (db.synced \ db'.synced) \union
                                            {t \in db'.synced : Disconnected(t)}}
            \subseteq Event \union Calendar
    <2>1. db.synced \subseteq SyncKey /\ DOMAIN db.events = Event
      BY DEF Inv, Consistent, Database
    <2>2. db'.synced \subseteq SyncKey
      BY DEF Fine, TablesFine, Consistent, Database
    <2> QED BY <2>1, <2>2 DEF EventsLost, SyncKey, IdsOf
  <1> QED BY <1>1, <1>2, <1>3 DEF Inv, Fine, TablesFine, GhostsFine, CallFine, Noticed

----------------------------------------------------------------------------
(* Steps by their effect *)

(* The tables are left alone, or changed by a statement that only removes  *)
(* rows or replaces them                                                   *)
LEMMA TablesKept ==
    ASSUME Inv, db' = db \/ Kept(db, db', origin, homes), UNCHANGED <<origin, homes>>,
           \A x \in ExtEvent : remote[x] # None => remote'[x] # None
    PROVE  TablesFine
  <1>1. CASE db' = db
    <2>1. \A c \in db.copies : c.copy \in ExtEvent
      BY DEF Inv, Consistent, Database, CopyKey
    <2> QED BY <1>1, <2>1 DEF TablesFine, Inv, NoneBut
  <1>2. CASE Kept(db, db', origin, homes)
    <2>1. \A c \in db.copies : c.copy \in ExtEvent
      BY DEF Inv, Consistent, Database, CopyKey
    <2> QED BY <1>2, <2>1 DEF TablesFine, Inv, NoneBut, Kept
  <1> QED BY <1>1, <1>2

(* Rows are added under ids that were not given before                     *)
LEMMA TablesGrow ==
    ASSUME Inv, NEW new, new \subseteq Fresh, NoneBut(new, db, db'),
           Consistent(db', origin', homes'), db'.copies \subseteq db.copies, UNCHANGED remote
    PROVE  TablesFine
  BY DEF TablesFine, Inv, NoneBut

(* A statement that touches none of the ghosts but what a save promises    *)
(* leaves them typed and grown.                                            *)
LEMMA GhostsStay ==
    ASSUME Inv, UNCHANGED <<origin, homes, remote, cache>>,
           kept' \in [Updated -> [Field -> Value \union {None}]]
    PROVE  GhostsFine
  BY DEF GhostsFine, GhostsTyped, Inv

(* What a save promises is a value for each field, or nothing.             *)
LEMMA KeepsTyped ==
    ASSUME Inv, NEW id, NEW patch \in [Field -> Value \union {None}], NEW read, NEW row,
           Keeps(id, patch, read, row)
    PROVE  kept' \in [Updated -> [Field -> Value \union {None}]]
  <1>1. kept \in [Updated -> [Field -> Value \union {None}]]
    BY DEF Inv, GhostsTyped
  <1> DEFINE f == [g \in Field |-> IF patch[g] # None THEN patch[g]
                                   ELSE IF row = read THEN kept[id][g] ELSE None]
  <1>2. id \in Updated => f \in [Field -> Value \union {None}]
    BY <1>1
  <1>3. kept' = [kept EXCEPT ![id] = f]
    BY DEF Keeps
  <1> HIDE DEF f
  <1> QED BY <1>1, <1>2, <1>3

(* A new row promises nothing for any field it did not name.               *)
LEMMA NewRowTyped ==
    ASSUME Inv, NEW id, kept' = NewRow(id)
    PROVE  kept' \in [Updated -> [Field -> Value \union {None}]]
  BY DEF Inv, GhostsTyped, NewRow

(* A statement that fails is counted                                       *)
Counted ==
    /\ UNCHANGED <<scenario, made, now>>
    /\ UNCHANGED failures \/ (MayFail /\ failures' = failures + 1)

(* A failure that is counted stays under the bound of the scenario.        *)
LEMMA CountedBounded ==
    ASSUME Inv, Counted
    PROVE  Bounded'
  BY ScenariosAssumption DEF Inv, Bounded, Counted, MayFail

(* A request that answers is gone, and nothing is left to hold.            *)
LEMMA Answers ==
    ASSUME Inv, NEW k \in Client, Answer(k)
    PROVE  CallFine(k)
  BY DEF Inv, Answer, CallFine

(* A request that becomes another must hold what the statement it stands   *)
(* at says.                                                                *)
LEMMA Becomes ==
    ASSUME Inv, NEW k \in Client, NEW q, calls' = [calls EXCEPT ![k] = q],
           q # None => Holds(q, origin', homes', remote')
    PROVE  CallFine(k)
  BY DEF Inv, CallFine

(* A request that is at another statement, or has read a row, is the same  *)
(* in what the client named; a guard may have found the user of it.        *)
SameOrder(q, r) ==
    /\ DOMAIN r = DOMAIN q
    /\ r.op = q.op /\ r.server = q.server /\ r.policy = q.policy /\ r.signed = q.signed
    /\ r.account = q.account /\ r.calendar = q.calendar
    /\ r.schedule = q.schedule /\ r.service = q.service /\ r.event = q.event
    /\ r.provider = q.provider /\ r.ext = q.ext /\ r.key = q.key /\ r.patch = q.patch
    /\ r.todo = q.todo /\ r.queue = q.queue /\ r.sync = q.sync /\ r.grant = q.grant
    /\ r.times = q.times
SameCall(q, r) == SameOrder(q, r) /\ r.user = q.user

(* Proceeding moves a request to a statement with the row it read, and     *)
(* changes nothing else of it.                                             *)
LEMMA ProceedIs ==
    ASSUME Inv, NEW k \in Client, calls[k] # None, NEW s, NEW row, Proceed(k, s, row)
    PROVE  \E r : /\ calls' = [calls EXCEPT ![k] = r]
                  /\ SameCall(calls[k], r) /\ r.at = s /\ r.row = row
  <1> DEFINE r == [calls[k] EXCEPT !.at = s, !.row = row]
  <1>1. DOMAIN calls[k] = DOMAIN Blank /\ DOMAIN calls = Client
    BY DEF Inv, Holds, Shape
  <1>2. calls' = [calls EXCEPT ![k] = r]
    BY <1>1 DEF Proceed
  <1>3. SameCall(calls[k], r) /\ r.at = s /\ r.row = row
    BY <1>1 DEF SameCall, SameOrder, Blank
  <1> QED BY <1>2, <1>3

(* Going to a statement keeps the row the request read.                    *)
LEMMA GotoIs ==
    ASSUME Inv, NEW k \in Client, calls[k] # None, NEW s, Goto(k, s)
    PROVE  \E r : /\ calls' = [calls EXCEPT ![k] = r]
                  /\ SameCall(calls[k], r) /\ r.at = s /\ r.row = calls[k].row
  <1> DEFINE r == [calls[k] EXCEPT !.at = s]
  <1>1. DOMAIN calls[k] = DOMAIN Blank /\ DOMAIN calls = Client
    BY DEF Inv, Holds, Shape
  <1>2. calls' = [calls EXCEPT ![k] = r]
    BY <1>1 DEF Goto
  <1>3. SameCall(calls[k], r) /\ r.at = s /\ r.row = calls[k].row
    BY <1>1 DEF SameCall, SameOrder, Blank
  <1> QED BY <1>2, <1>3

----------------------------------------------------------------------------
(* What a database says an id is of *)
LEMMA OwnerInTyped ==
    ASSUME NEW d \in Database, NEW x \in Owned
    PROVE  /\ OwnerIn(d, x) \in User \union Account \union {None}
           /\ OwnerIn(d, x) # None <=> x \in IdsOf(d.calendars) \union IdsOf(d.schedules) \union
                                            IdsOf(d.services) \union IdsOf(d.events)
  <1>0. None \notin User /\ None \notin Account
    BY NoneIsNoId
  <1>1. /\ DOMAIN d.calendars = Calendar /\ DOMAIN d.schedules = Schedule
        /\ DOMAIN d.services = Service /\ DOMAIN d.events = Event
    BY DEF Database
  <1>2. /\ Stored(d.calendars, x) => d.calendars[x].user \in User
        /\ Stored(d.schedules, x) => d.schedules[x].user \in User
        /\ Stored(d.services, x) => d.services[x].account \in Account
        /\ Stored(d.events, x) => d.events[x].user \in User
    BY DEF Database, Stored, CalendarRow, ScheduleRow, ServiceRow, EventRow
  <1>3. CASE x \in Calendar
    <2>1. x \notin Schedule /\ x \notin Service /\ x \notin Event
      BY <1>3, IdsAssumption
    <2> QED BY <1>0, <1>1, <1>2, <1>3, <2>1 DEF OwnerIn, IdsOf, Stored
  <1>4. CASE x \in Schedule
    <2>1. x \notin Calendar /\ x \notin Service /\ x \notin Event
      BY <1>4, IdsAssumption
    <2> QED BY <1>0, <1>1, <1>2, <1>4, <2>1 DEF OwnerIn, IdsOf, Stored
  <1>5. CASE x \in Service
    <2>1. x \notin Calendar /\ x \notin Schedule /\ x \notin Event
      BY <1>5, IdsAssumption
    <2> QED BY <1>0, <1>1, <1>2, <1>5, <2>1 DEF OwnerIn, IdsOf, Stored
  <1>6. CASE x \in Event
    <2>1. x \notin Calendar /\ x \notin Schedule /\ x \notin Service
      BY <1>6, IdsAssumption
    <2> QED BY <1>0, <1>1, <1>2, <1>6, <2>1 DEF OwnerIn, IdsOf, Stored
  <1> QED BY <1>3, <1>4, <1>5, <1>6 DEF Owned

(* The databases a scenario starts from are consistent, and no request is  *)
(* under way.                                                              *)
LEMMA InitInv == Init => Inv
  <1> SUFFICES ASSUME Init PROVE Inv
    OBVIOUS
  <1>1. /\ Consistent(db, OwnersIn(db), HomesIn(db))
        /\ \A c \in db.copies : remote[c.copy] # None
        /\ remote \in [ExtEvent -> RemoteEvent \union {None}]
    BY DatabasesAssumption DEF Init
  <1>2. db \in Database
    BY <1>1 DEF Consistent
  <1>3. origin \in [Owned -> User \union Account \union {None}]
    BY <1>2, OwnerInTyped DEF Init, OwnersIn
  <1>4. homes \in [User -> SUBSET Account]
    BY <1>2 DEF Init, HomesIn, Database, Stored, UserRow
  <1>5. ASSUME NEW u \in User PROVE IsFiniteSet(homes[u])
    BY FS_EmptySet, FS_Singleton DEF Init, HomesIn
  <1>6. kept \in [Updated -> [Field -> Value \union {None}]]
    BY DEF Init
  <1>7. Bounded
    BY ScenariosAssumption DEF Init, Bounded
  <1>8. /\ cache = [s \in Server |-> [a \in Account |-> cache[s][a]]]
        /\ \A s \in Server, a \in Account : cache[s][a] = None
    BY DEF Init
  <1>9. calls = [k \in Client |-> calls[k]] /\ \A k \in Client : calls[k] = None
    BY DEF Init
  <1>10. Consistent(db, origin, homes) /\ crossed = {} /\ abandoned = {}
    BY <1>1 DEF Init
  <1>11. GhostsTyped
    BY <1>1, <1>3, <1>4, <1>5, <1>6, <1>8 DEF GhostsTyped
  <1> QED BY <1>1, <1>7, <1>9, <1>10, <1>11 DEF Inv

----------------------------------------------------------------------------
(* The routes and their guards *)

(* What comes with the key of an account is at a guard, or at the use case *)
(* when the route has none; the routes that act on the calendars and the   *)
(* integrations of a user have the guard of the user.                      *)
LEMMA RouteIs ==
    ASSUME NEW op
    PROVE  /\ RouteGuard(op) \in Guards \union {"find"}
           /\ op \in UserRouted => RouteGuard(op) = "user"
  <1> DEFINE guards == {UserRoutes(op), CalendarRoutes(op), ScheduleRoutes(op), EventRoutes(op)}
  <1>1. /\ UserRoutes(op) \in {"user", "public", "find"}
        /\ CalendarRoutes(op) \in {"user", "calendar", "find"}
        /\ ScheduleRoutes(op) \in {"user", "schedule", "find"}
        /\ EventRoutes(op) \in {"user", "event", "find"}
    BY DEF UserRoutes, CalendarRoutes, ScheduleRoutes, EventRoutes
  <1>2. guards \subseteq Guards \union {"find"} /\ guards # {}
    BY <1>1 DEF Guards
  <1>3. RouteGuard(op) \in Guards \union {"find"}
    <2>1. CASE guards = {"find"}
      BY <2>1 DEF RouteGuard
    <2>2. CASE guards # {"find"}
      <3>1. \E g \in guards : g # "find"
        BY <2>2, <1>2
      <3>2. RouteGuard(op) \in guards
        BY <2>2, <3>1 DEF RouteGuard
      <3> QED BY <3>2, <1>2
    <2> QED BY <2>1, <2>2
  <1>4. ASSUME op \in UserRouted PROVE RouteGuard(op) = "user"
    <2>1. /\ UserRoutes(op) \in {"user", "find"} /\ CalendarRoutes(op) \in {"user", "find"}
          /\ ScheduleRoutes(op) = "find" /\ EventRoutes(op) \in {"user", "find"}
      BY <1>4 DEF UserRouted, UserRoutes, CalendarRoutes, ScheduleRoutes, EventRoutes
    <2>2. "user" \in guards
      BY <1>4 DEF UserRouted, UserRoutes, CalendarRoutes, EventRoutes
    <2>3. \A g \in guards : g # "find" <=> g = "user"
      BY <2>1
    <2>4. guards # {"find"}
      BY <2>2
    <2>5. RouteGuard(op) = CHOOSE g \in guards : g # "find"
      BY <2>4 DEF RouteGuard
    <2> QED BY <2>2, <2>3, <2>5
  <1> QED BY <1>3, <1>4

(* A request that begins stands at its entry, with what its client named.  *)
LEMMA BeginFine ==
    ASSUME Inv, NEW k \in Client, Begin(k), UNCHANGED <<remote, accountVars>>
    PROVE  Fine(k)
  <1>1. PICK q \in Scenarios[scenario].requests : calls' = [calls EXCEPT ![k] = [q EXCEPT !.at = Entry(q)]]
    BY DEF Begin
  <1> DEFINE r == [q EXCEPT !.at = Entry(q)]
  <1>2. Asked(q)
    BY RequestsAssumption DEF Inv, Bounded
  <1>3. SameCall(q, r) /\ r.at = Entry(q)
    BY <1>2 DEF Asked, SameCall, SameOrder, Blank
  <1>4. /\ Entry(q) \in Guards \union {"find", "apikey"}
        /\ q.op \in UserRouted => Entry(q) \in {"account", "user"}
        /\ q.op = "CreateBatchEvents" => Entry(q) = "user"
        /\ q.op \in ByKeyOnly => Entry(q) = "apikey"
        /\ q.op = "CreateAccount" => Entry(q) # "apikey"
    <2>1. q.op \in UserRouted => q.server = None
      BY <1>2 DEF Asked, UserRouted, ByKeyOnly
    <2>2. q.op \in ByKeyOnly => q.server \in Server /\ q.signed = None
      BY <1>2 DEF Asked
    <2>3. q.op = "CreateBatchEvents" => q.signed = None /\ q.op \in UserRouted
      BY <1>2 DEF Asked, UserRouted
    <2>4. q.op = "CreateAccount" => q.server = None
      BY <1>2 DEF Asked, ByKeyOnly
    <2> QED BY <2>1, <2>2, <2>3, <2>4, RouteIs, NoneIsNoServer DEF Entry, Guards
  <1> HIDE DEF r
  <1>5. Holds(r, origin, homes, remote)
    <2>1. Shape(r)
      BY <1>2, <1>3, <1>4 DEF Asked, Shape, SameCall, SameOrder, Guards
    <2>2. r.op \in UserRouted => r.at \in {"account", "user"}
      BY <1>3, <1>4 DEF SameCall, SameOrder
    <2>3. DirectoryHolds(r, origin, homes) /\ TokenHolds(r)
      BY <1>3, <1>4 DEF DirectoryHolds, TokenHolds, Guards, Tokening, SameCall, SameOrder
    <2>4. EventHolds(r, origin, remote)
      BY <1>2, <1>3, <1>4 DEF EventHolds, Guards, CopySteps, Tokening, SameCall, SameOrder, Asked
    <2>5. AccountHolds(r)
      BY <1>3, <1>4 DEF AccountHolds, Guards, SameCall, SameOrder
    <2> QED BY <2>1, <2>2, <2>3, <2>4, <2>5 DEF Holds
  <1>6. CallFine(k)
    BY <1>1, <1>5, Becomes DEF r, Begin, ghostVars
  <1>7. Bounded'
    BY ScenariosAssumption DEF Inv, Bounded, Begin
  <1>8. TablesFine
    BY TablesKept DEF Begin, ghostVars
  <1>9. GhostsFine
    BY GhostsStay DEF Begin, ghostVars, accountVars, Inv, GhostsTyped
  <1> QED BY <1>6, <1>7, <1>8, <1>9 DEF Fine

(* A guard that lets a request through has found what its use case relies  *)
(* on.                                                                     *)
LEMMA GuardHolds ==
    ASSUME NEW o, NEW h, NEW rm, NEW q, Holds(q, o, h, rm), q.at \in Guards,
           NEW r, SameOrder(q, r), r.user = q.user \/ r.user \in User,
           r.at \in {"user", "find", "guarded"},
           r.op \in UserRouted => r.at = "user" \/ AtHome(r, h),
           r.at = "guarded" => q.at = "event" /\ r.row \in EventRow /\ Derived(r.row.times)
    PROVE  Holds(r, o, h, rm)
  <1>1. Shape(r)
    BY DEF Holds, Shape, SameOrder
  <1>2. r.op \notin ByKeyOnly
    BY DEF Holds, AccountHolds, SameOrder
  <1>3. DirectoryHolds(r, o, h)
    BY DEF DirectoryHolds
  <1>4. TokenHolds(r)
    BY DEF TokenHolds, Tokening
  <1>5. EventHolds(r, o, rm)
    BY DEF Holds, EventHolds, SameOrder, Guards, CopySteps, Tokening
  <1>6. AccountHolds(r)
    BY <1>2 DEF AccountHolds, ByKeyOnly
  <1> QED BY <1>1, <1>3, <1>4, <1>5, <1>6 DEF Holds

(* The guards of a route read an account or a user and write no table.     *)
LEMMA GuardFine ==
    ASSUME Inv, NEW k \in Client, Guard(k), UNCHANGED <<remote, accountVars>>
    PROVE  Fine(k)
  <1> DEFINE q == calls[k]
  <1>0. /\ q # None /\ q.at \in Guards /\ UNCHANGED <<db, origin, homes, kept, remote, cache>>
        /\ Holds(q, origin, homes, remote) /\ DOMAIN q = DOMAIN Blank /\ DOMAIN calls = Client
        /\ Consistent(db, origin, homes) /\ db \in Database
    BY DEF Guard, Guards, ghostVars, accountVars, Inv, Holds, Shape, Consistent
  <1>1. ASSUME Answer(k) PROVE CallFine(k)
    BY <1>1, Answers
  <1>2. ASSUME q.at \in {"account", "public"} /\ GuardAccount(k) PROVE CallFine(k)
    <2>1. CASE Answer(k)
      BY <2>1, Answers
    <2>2. CASE ~Answer(k)
      <3> DEFINE s == IF q.at = "public" THEN "find" ELSE "user"
                 row == db.accounts[q.account]
      <3>1. Proceed(k, s, row)
        BY <1>2, <2>2 DEF GuardAccount, Refused
      <3> HIDE DEF s, row
      <3>2. PICK r : calls' = [calls EXCEPT ![k] = r] /\ SameCall(q, r) /\ r.at = s
        BY <1>0, <3>1, ProceedIs
      <3>3. r.op \in UserRouted => r.at = "user" \/ AtHome(r, homes)
        BY <1>0, <1>2, <3>2 DEF s, Holds, SameCall, SameOrder, AtHome
      <3>4. Holds(r, origin, homes, remote)
        BY <1>0, <3>2, <3>3, GuardHolds DEF SameCall, s
      <3> QED BY <1>0, <3>2, <3>4, Becomes
    <2> QED BY <2>1, <2>2
  <1>3. ASSUME q.at = "user" /\ GuardUser(k) PROVE CallFine(k)
    <2>1. CASE Answer(k)
      BY <2>1, Answers
    <2>2. CASE ~Answer(k)
      <3> DEFINE row == db.users[q.user]
      <3>1. Proceed(k, "find", row) /\ UserInAccount(db, q.user, q.account)
        BY <1>3, <2>2 DEF GuardUser, Refused
      <3> HIDE DEF row
      <3>2. PICK r : /\ calls' = [calls EXCEPT ![k] = r] /\ SameCall(q, r) /\ r.at = "find"
        BY <1>0, <3>1, ProceedIs
      <3>3. AtHome(r, homes)
        BY <1>0, <3>1, <3>2 DEF UserInAccount, Consistent, UsersAtHome, AtHome, Stored, IdsOf,
            SameCall, SameOrder, Database
      <3>4. Holds(r, origin, homes, remote)
        BY <1>0, <3>2, <3>3, GuardHolds DEF SameCall
      <3> QED BY <1>0, <3>2, <3>4, Becomes
    <2> QED BY <2>1, <2>2
  <1>4. ASSUME NEW s \in {"user", "find", "guarded"}, NEW u \in User,
               q.account \in homes[u] \/ q.op \notin UserRouted,
               NEW r, calls' = [calls EXCEPT ![k] = r], SameOrder(q, r), r.at = s, r.user = u,
               s = "guarded" => q.at = "event" /\ r.row \in EventRow /\ Derived(r.row.times)
        PROVE  CallFine(k)
    <2>1. r.op \in UserRouted => AtHome(r, homes)
      BY <1>4 DEF AtHome, SameOrder
    <2>2. Holds(r, origin, homes, remote)
      BY <1>0, <1>4, <2>1, GuardHolds
    <2> QED BY <1>0, <1>4, <2>2, Becomes
  <1>5. ASSUME q.at = "calendar" /\ GuardCalendar(k) PROVE CallFine(k)
    <2>1. CASE Answer(k)
      BY <2>1, Answers
    <2>2. CASE ~Answer(k)
      <3> DEFINE c == q.calendar
                 u == db.calendars[c].user
                 s == IF q.op = "UpdateCalendar" THEN "user" ELSE "find"
                 r == [q EXCEPT !.at = s, !.user = u]
      <3>1. /\ Stored(db.calendars, c) /\ db.calendars[c].account = q.account
            /\ calls' = [calls EXCEPT ![k].at = s, ![k].user = u]
        BY <1>5, <2>2 DEF GuardCalendar, Refused
      <3>2. u \in User /\ q.account \in homes[u]
        BY <1>0, <3>1 DEF Consistent, CalendarsOwned, Stored, IdsOf, Database, CalendarRow
      <3>3. calls' = [calls EXCEPT ![k] = r]
        BY <1>0, <3>1
      <3>4. SameOrder(q, r) /\ r.at = s /\ r.user = u
        BY <1>0 DEF SameOrder, Blank
      <3> HIDE DEF r, u
      <3> QED BY <1>4, <3>2, <3>3, <3>4
    <2> QED BY <2>1, <2>2
  <1>6. ASSUME q.at = "schedule" /\ GuardSchedule(k) PROVE CallFine(k)
    <2>1. CASE Answer(k)
      BY <2>1, Answers
    <2>2. CASE ~Answer(k)
      <3> DEFINE c == q.schedule
                 u == db.schedules[c].user
                 r == [q EXCEPT !.at = "find", !.user = u]
      <3>1. /\ Stored(db.schedules, c) /\ UserInAccount(db, u, q.account)
            /\ calls' = [calls EXCEPT ![k].at = "find", ![k].user = u]
        BY <1>6, <2>2 DEF GuardSchedule, Refused
      <3>2. u \in User /\ q.account \in homes[u]
        BY <1>0, <3>1 DEF Consistent, UsersAtHome, UserInAccount, Stored, IdsOf, Database
      <3>3. calls' = [calls EXCEPT ![k] = r]
        BY <1>0, <3>1
      <3>4. SameOrder(q, r) /\ r.at = "find" /\ r.user = u
        BY <1>0 DEF SameOrder, Blank
      <3> HIDE DEF r, u
      <3> QED BY <1>4, <3>2, <3>3, <3>4
    <2> QED BY <2>1, <2>2
  <1>7. ASSUME q.at = "event" /\ GuardEvent(k) PROVE CallFine(k)
    <2>1. CASE Answer(k)
      BY <2>1, Answers
    <2>2. CASE ~Answer(k)
      <3> DEFINE row == db.events[q.event]
                 u == row.user
                 r == [q EXCEPT !.at = "guarded", !.row = row, !.user = u]
      <3>1. /\ Stored(db.events, q.event) /\ row.account = q.account
            /\ calls' = [calls EXCEPT ![k].at = "guarded", ![k].row = row, ![k].user = u]
        BY <1>7, <2>2 DEF GuardEvent, Refused
      <3>2. u \in User /\ q.account \in homes[u] /\ row \in EventRow /\ Derived(row.times)
        <4>1. q.event \in IdsOf(db.events) /\ row \in EventRow
          BY <1>0, <3>1 DEF Stored, IdsOf, Database
        <4> HIDE DEF row
        <4> QED BY <1>0, <3>1, <4>1 DEF Consistent, EventsOwned, EventsDerived, EventRow, row
      <3>3. calls' = [calls EXCEPT ![k] = r]
        BY <1>0, <3>1
      <3>4. SameOrder(q, r) /\ r.at = "guarded" /\ r.user = u /\ r.row = row
        BY <1>0 DEF SameOrder, Blank
      <3> HIDE DEF r, u, row
      <3> QED BY <1>4, <1>7, <3>2, <3>3, <3>4
    <2> QED BY <2>1, <2>2
  <1>8. CallFine(k)
    BY <1>2, <1>3, <1>5, <1>6, <1>7 DEF Guard
  <1>9. TablesFine /\ GhostsFine
    BY <1>0, TablesKept, GhostsStay DEF Inv, GhostsTyped
  <1>10. Bounded'
    BY CountedBounded DEF Counted, Guard, bounds
  <1> QED BY <1>8, <1>9, <1>10 DEF Fine

----------------------------------------------------------------------------
(* Use cases that only read *)

Acting == OwnedOps \union ServiceOps \union IntegrationOps \union AccountOps \union Copied
              \union {"DeleteManyEvents"}

(* A request is the same in what its use case is about                     *)
SameSubject(q, r) ==
    /\ DOMAIN r = DOMAIN q
    /\ r.op = q.op /\ r.server = q.server /\ r.account = q.account /\ r.user = q.user
    /\ r.calendar = q.calendar /\ r.schedule = q.schedule /\ r.service = q.service
    /\ r.event = q.event /\ r.provider = q.provider /\ r.ext = q.ext /\ r.key = q.key
    /\ r.patch = q.patch /\ r.times = q.times

(* A request that only reads holds its shape, whatever it has read.        *)
LEMMA ReaderHolds ==
    ASSUME NEW o, NEW h, NEW rm, NEW q, Holds(q, o, h, rm), q.op \notin Acting,
           NEW r, SameSubject(q, r)
    PROVE  Holds(r, o, h, rm)
  <1>1. /\ r.op \notin UserRouted /\ r.op \notin ByKeyOnly /\ r.op \notin Copied
        /\ r.op \notin Creates /\ r.op \notin IntegrationOps /\ r.op # "DeleteManyEvents"
        /\ r.op \notin OwnedOps /\ r.op \notin ServiceOps /\ r.op \notin AccountOps
    BY DEF Acting, SameSubject, UserRouted, ByKeyOnly, Copied, Creates, IntegrationOps, OwnedOps,
        ServiceOps, AccountOps
  <1>2. Shape(r)
    BY <1>1 DEF Holds, Shape, SameSubject
  <1>3. DirectoryHolds(r, o, h)
    BY <1>1 DEF DirectoryHolds, OwnedOps, ServiceOps
  <1>4. TokenHolds(r)
    BY <1>1 DEF TokenHolds, IntegrationOps
  <1>5. EventHolds(r, o, rm)
    BY <1>1 DEF EventHolds, Copied, Creates
  <1>6. AccountHolds(r)
    BY <1>1 DEF AccountHolds, AccountOps
  <1> QED BY <1>1, <1>2, <1>3, <1>4, <1>5, <1>6 DEF Holds

(* What a use case of Lookups does to its request *)
LEMMA LookupMoves ==
    ASSUME NEW k \in Client, LookupsNext(k)
    PROVE  UNCHANGED <<db, bounds, now, ghostVars>> /\ (Answer(k) \/ \E rows : Show(k, rows))
  <1>1. CASE GetMe(k) \/ GetUser(k) \/ GetUserByExternalId(k) \/ GetUsersByMeta(k)
    BY <1>1, Zenon DEF GetMe, GetUser, GetUserByExternalId, GetUsersByMeta, Show, ShowSome
  <1>2. CASE GetCalendar(k) \/ GetCalendars(k) \/ GetCalendarsByMeta(k)
    BY <1>2, Zenon DEF GetCalendar, GetCalendars, GetCalendarsByMeta, Show, ShowSome
  <1>3. CASE GetSchedule(k) \/ GetSchedulesByMeta(k) \/ GetService(k) \/ GetServicesByMeta(k)
    BY <1>3, Zenon DEF GetSchedule, GetSchedulesByMeta, GetService, GetServicesByMeta, Show, ShowSome
  <1>4. CASE GetEvent(k) \/ GetEventByExternalId(k) \/ GetEventsByMeta(k)
    BY <1>4, Zenon DEF GetEvent, GetEventByExternalId, GetEventsByMeta, Show, ShowSome
  <1> QED BY <1>1, <1>2, <1>3, <1>4, Zenon DEF LookupsNext

(* Every statement of the routes that look rows up is Fine.                *)
LEMMA LookupsFine ==
    ASSUME Inv, NEW k \in Client, calls[k] # None, LookupsNext(k), UNCHANGED <<remote, accountVars>>
    PROVE  Fine(k)
  <1> DEFINE q == calls[k]
  <1>0. /\ UNCHANGED <<db, origin, homes, kept, remote, cache>>
        /\ Holds(q, origin, homes, remote) /\ DOMAIN q = DOMAIN Blank /\ DOMAIN calls = Client
    BY LookupMoves DEF ghostVars, accountVars, Inv, Holds, Shape
  <1>1. q.op \notin Acting
    <2>1. q.op \in LookupOps
      BY DEF LookupsNext
    <2> QED BY <2>1 DEF LookupOps, Acting, OwnedOps, ServiceOps, IntegrationOps, AccountOps, Copied,
                Creates
  <1>2. CallFine(k)
    <2>1. CASE Answer(k)
      BY <2>1, Answers
    <2>2. ASSUME NEW rows, Show(k, rows) PROVE CallFine(k)
      <3>1. CASE rows = {}
        BY <2>2, <3>1, Answers DEF Show, Answer
      <3>2. CASE rows # {}
        <4> DEFINE r == [q EXCEPT !.at = "shown", !.row = None, !.todo = rows]
        <4>1. calls' = [calls EXCEPT ![k] = r]
          BY <1>0, <2>2, <3>2 DEF Show
        <4>2. SameSubject(q, r)
          BY <1>0 DEF SameSubject, Blank
        <4> HIDE DEF r
        <4>3. Holds(r, origin, homes, remote)
          BY <1>0, <1>1, <4>2, ReaderHolds
        <4> QED BY <1>0, <4>1, <4>3, Becomes
      <3> QED BY <3>1, <3>2
    <2> QED BY <2>1, <2>2, LookupMoves
  <1>3. TablesFine /\ GhostsFine
    BY <1>0, TablesKept, GhostsStay DEF Inv, GhostsTyped
  <1>4. Bounded'
    BY LookupMoves, CountedBounded DEF Counted, bounds
  <1> QED BY <1>2, <1>3, <1>4 DEF Fine

(* What a query of events does to its request *)
Moving(k) == Answer(k) \/ (\E step : Goto(k, step)) \/ \E step, r : Advance(k, step, r)

(* The searches of events write nothing: they answer, or move to their     *)
(* next statement.                                                         *)
LEMMA QueryMoves ==
    ASSUME NEW k \in Client, EventQueriesNext(k)
    PROVE  UNCHANGED <<db, scenario, made, now, ghostVars>>
           /\ (UNCHANGED failures \/ (MayFail /\ failures' = failures + 1))
           /\ (Answer(k) \/ (calls[k].op \in QueryOps /\ Moving(k)))
  <1> DEFINE Goal == /\ UNCHANGED <<db, scenario, made, now, ghostVars>>
                     /\ UNCHANGED failures \/ (MayFail /\ failures' = failures + 1)
                     /\ Answer(k) \/ (calls[k].op \in QueryOps /\ Moving(k))
  <1>1. ASSUME GetEventsForUsersInTimeRange(k) PROVE Goal
    BY <1>1, Zenon DEF GetEventsForUsersInTimeRange, Reads, Reading, bounds, Moving, AnswerFrom, QueryOps
  <1>2. ASSUME GetEventsByCalendars(k) PROVE Goal
    BY <1>2, Zenon DEF GetEventsByCalendars, Reads, Reading, bounds, Moving, AnswerFrom, QueryOps
  <1>3. ASSUME GetCalendarEvents(k) PROVE Goal
    BY <1>3, Zenon DEF GetCalendarEvents, Reads, Reading, bounds, Moving, AnswerFrom, QueryOps
  <1>4. ASSUME ExportIcal(k) PROVE Goal
    BY <1>4, Zenon DEF ExportIcal, Reads, Reading, bounds, Moving, AnswerFrom, QueryOps
  <1>5. ASSUME GetEventInstances(k) PROVE Goal
    BY <1>5, Zenon DEF GetEventInstances, Reads, Reading, bounds, Moving, AnswerFrom, QueryOps
  <1>6. ASSUME GetUserFreeBusy(k) PROVE Goal
    BY <1>6, Zenon DEF GetUserFreeBusy, Reads, Reading, bounds, Moving, AnswerFrom, QueryOps
  <1>7. ASSUME GetMultipleFreeBusy(k) PROVE Goal
    BY <1>7, Zenon DEF GetMultipleFreeBusy, Reads, Reading, bounds, Moving, AnswerFrom, QueryOps
  <1>8. ASSUME SearchEvents(k) PROVE Goal
    BY <1>8, Zenon DEF SearchEvents, Reads, Reading, bounds, Moving, AnswerFrom, QueryOps
  <1>9. ASSUME calls[k].at = "answered" /\ Answer(k) /\ Reading PROVE Goal
    BY <1>9, Zenon DEF Reading, bounds
  <1> QED BY <1>1, <1>2, <1>3, <1>4, <1>5, <1>6, <1>7, <1>8, <1>9, Zenon DEF EventQueriesNext

(* Every statement of the searches of events is Fine.                      *)
LEMMA QueriesFine ==
    ASSUME Inv, NEW k \in Client, calls[k] # None, EventQueriesNext(k),
           UNCHANGED <<remote, accountVars>>
    PROVE  Fine(k)
  <1> DEFINE q == calls[k]
  <1>0. /\ UNCHANGED <<db, origin, homes, kept, remote, cache>>
        /\ Holds(q, origin, homes, remote) /\ DOMAIN q = DOMAIN Blank /\ DOMAIN calls = Client
    BY QueryMoves DEF ghostVars, accountVars, Inv, Holds, Shape
  <1>2. CallFine(k)
    <2>1. CASE Answer(k)
      BY <2>1, Answers
    <2>2. CASE ~Answer(k)
      <3>1. q.op \notin Acting
        <4>1. q.op \in QueryOps
          BY <2>2, QueryMoves
        <4> QED BY <4>1 DEF QueryOps, Searches, Acting, OwnedOps, ServiceOps, IntegrationOps,
                    AccountOps, Copied, Creates
      <3>2. ASSUME NEW step, NEW reading, Advance(k, step, reading) PROVE CallFine(k)
        <4> DEFINE r == [q EXCEPT !.at = step, !.reading = reading]
        <4>1. calls' = [calls EXCEPT ![k] = r]
          BY <1>0, <3>2 DEF Advance
        <4>2. SameSubject(q, r)
          BY <1>0 DEF SameSubject, Blank
        <4> HIDE DEF r
        <4>3. Holds(r, origin, homes, remote)
          BY <1>0, <3>1, <4>2, ReaderHolds
        <4> QED BY <1>0, <4>1, <4>3, Becomes
      <3>3. ASSUME NEW step, Goto(k, step) PROVE CallFine(k)
        <4>1. PICK r : calls' = [calls EXCEPT ![k] = r] /\ SameCall(q, r)
          BY <3>3, GotoIs
        <4>2. Holds(r, origin, homes, remote)
          BY <1>0, <3>1, <4>1, ReaderHolds DEF SameCall, SameOrder, SameSubject
        <4> QED BY <1>0, <4>1, <4>2, Becomes
      <3> QED BY <2>2, <3>2, <3>3, QueryMoves DEF Moving
    <2> QED BY <2>1, <2>2
  <1>3. TablesFine /\ GhostsFine
    BY <1>0, TablesKept, GhostsStay DEF Inv, GhostsTyped
  <1>4. Bounded'
    BY QueryMoves, CountedBounded DEF Counted
  <1> QED BY <1>2, <1>3, <1>4 DEF Fine

----------------------------------------------------------------------------
(* Directory *)

(* The row of an update is one of its table, and of the same owner.        *)
LEMMA MergedTyped ==
    ASSUME NEW patch \in [Field -> Value \union {None}]
    PROVE  /\ \A row \in UserRow : /\ Merged(row, patch) \in UserRow
                                   /\ Merged(row, patch).account = row.account
           /\ \A row \in CalendarRow : Merged(row, patch).data \in Data
           /\ \A row \in ScheduleRow : Merged(row, patch).data \in Data
           /\ \A row \in AccountRow : Merged(row, patch) \in AccountRow
           /\ \A row \in EventRow : /\ Merged(row, patch) \in EventRow
                                    /\ Merged(row, patch).times = row.times
  <1>1. ASSUME NEW row, row.data \in Data
        PROVE  [f \in Field |-> IF patch[f] = None THEN row.data[f] ELSE patch[f]] \in Data
    BY <1>1 DEF Data
  <1>2. \A row \in UserRow \union CalendarRow \union ScheduleRow \union AccountRow \union EventRow :
            row.data \in Data
    BY DEF UserRow, CalendarRow, ScheduleRow, AccountRow, EventRow
  <1>3. ASSUME NEW row, NEW data,
               data = [f \in Field |-> IF patch[f] = None THEN row.data[f] ELSE patch[f]]
        PROVE  Merged(row, patch) = [row EXCEPT !.data = data]
    BY <1>3 DEF Merged
  <1>4. ASSUME NEW row \in UserRow
        PROVE  Merged(row, patch) \in UserRow /\ Merged(row, patch).account = row.account
    <2> DEFINE data == [f \in Field |-> IF patch[f] = None THEN row.data[f] ELSE patch[f]]
    <2>1. data \in Data /\ Merged(row, patch) = [row EXCEPT !.data = data]
      BY <1>1, <1>2, <1>3
    <2> HIDE DEF data
    <2> QED BY <2>1 DEF UserRow
  <1>5. ASSUME NEW row \in CalendarRow PROVE Merged(row, patch).data \in Data
    <2> DEFINE data == [f \in Field |-> IF patch[f] = None THEN row.data[f] ELSE patch[f]]
    <2>1. data \in Data /\ Merged(row, patch) = [row EXCEPT !.data = data]
      BY <1>1, <1>2, <1>3
    <2> HIDE DEF data
    <2> QED BY <2>1 DEF CalendarRow
  <1>6. ASSUME NEW row \in ScheduleRow PROVE Merged(row, patch).data \in Data
    <2> DEFINE data == [f \in Field |-> IF patch[f] = None THEN row.data[f] ELSE patch[f]]
    <2>1. data \in Data /\ Merged(row, patch) = [row EXCEPT !.data = data]
      BY <1>1, <1>2, <1>3
    <2> HIDE DEF data
    <2> QED BY <2>1 DEF ScheduleRow
  <1>7. ASSUME NEW row \in AccountRow PROVE Merged(row, patch) \in AccountRow
    <2> DEFINE data == [f \in Field |-> IF patch[f] = None THEN row.data[f] ELSE patch[f]]
    <2>1. data \in Data /\ Merged(row, patch) = [row EXCEPT !.data = data]
      BY <1>1, <1>2, <1>3
    <2> HIDE DEF data
    <2> QED BY <2>1 DEF AccountRow
  <1>8. ASSUME NEW row \in EventRow
        PROVE  Merged(row, patch) \in EventRow /\ Merged(row, patch).times = row.times
    <2> DEFINE data == [f \in Field |-> IF patch[f] = None THEN row.data[f] ELSE patch[f]]
    <2>1. data \in Data /\ Merged(row, patch) = [row EXCEPT !.data = data]
      BY <1>1, <1>2, <1>3
    <2> HIDE DEF data
    <2> QED BY <2>1 DEF EventRow
  <1> QED BY <1>4, <1>5, <1>6, <1>7, <1>8

(* What a request on users, calendars, schedules and services must hold is *)
(* its own part of Holds.                                                  *)
LEMMA DirectoryHoldsOn ==
    ASSUME NEW o, NEW h, NEW rm, NEW q, Holds(q, o, h, rm),
           q.op \in OwnedOps \union ServiceOps, q.at \notin {"account", "user"},
           NEW r, SameCall(q, r), DirectoryHolds(r, o, h)
    PROVE  Holds(r, o, h, rm)
  <1>1. /\ r.op \notin ByKeyOnly /\ r.op \notin Copied /\ r.op \notin AccountOps
        /\ r.op \notin Creates /\ r.op \notin IntegrationOps /\ r.op # "DeleteManyEvents"
        /\ r.op # "CreateBatchEvents"
    BY DEF SameCall, SameOrder, UserRouted, ByKeyOnly, Copied, Creates, IntegrationOps, OwnedOps,
        ServiceOps, AccountOps
  <1>2. Shape(r)
    BY <1>1 DEF Holds, Shape, SameCall, SameOrder
  <1>3. r.op \in UserRouted => AtHome(r, h)
    BY DEF Holds, SameCall, SameOrder, AtHome
  <1>4. TokenHolds(r)
    BY <1>1 DEF TokenHolds, IntegrationOps
  <1>5. EventHolds(r, o, rm)
    BY <1>1 DEF EventHolds, Copied, Creates
  <1>6. AccountHolds(r)
    BY <1>1 DEF AccountHolds, AccountOps
  <1> QED BY <1>2, <1>3, <1>4, <1>5, <1>6 DEF Holds

(* A statement after which the request goes on                             *)
LEMMA DirectoryMoves ==
    ASSUME Inv, NEW k \in Client, calls[k] # None, calls[k].op \in OwnedOps \union ServiceOps,
           calls[k].at \notin {"account", "user"},
           UNCHANGED <<remote, cache, origin, homes, kept>>, Counted,
           db' = db \/ Kept(db, db', origin, homes),
           NEW s, NEW row, Answer(k) \/ Proceed(k, s, row) \/ (Goto(k, s) /\ row = calls[k].row),
           \A r : SameCall(calls[k], r) /\ r.at = s /\ r.row = row =>
                        DirectoryHolds(r, origin, homes)
    PROVE  Fine(k)
  <1>1. CallFine(k)
    <2>1. CASE Answer(k)
      BY <2>1, Answers
    <2>2. CASE ~Answer(k)
      <3>1. PICK r : /\ calls' = [calls EXCEPT ![k] = r]
                     /\ SameCall(calls[k], r) /\ r.at = s /\ r.row = row
        BY <2>2, ProceedIs, GotoIs
      <3>2. Holds(calls[k], origin, homes, remote)
        BY DEF Inv
      <3>3. Holds(r, origin, homes, remote)
        BY <3>1, <3>2, DirectoryHoldsOn
      <3> QED BY <3>1, <3>3, Becomes
    <2> QED BY <2>1, <2>2
  <1>2. TablesFine /\ GhostsFine
    BY TablesKept, GhostsStay DEF Inv, GhostsTyped
  <1>3. Bounded'
    BY CountedBounded
  <1> QED BY <1>1, <1>2, <1>3 DEF Fine

(* The last statement of a request                                         *)
LEMMA LastWrite ==
    ASSUME Inv, NEW k \in Client, Answer(k),
           UNCHANGED <<remote, cache, origin, homes>>, Counted,
           kept' \in [Updated -> [Field -> Value \union {None}]],
           db' = db \/ Kept(db, db', origin, homes)
    PROVE  Fine(k)
  BY Answers, TablesKept, GhostsStay, CountedBounded DEF Fine

(* A statement that stores a row under a new id, and the request that ran  *)
(* it goes on or is answered                                               *)
LEMMA FirstWrite ==
    ASSUME Inv, NEW k \in Client, CallFine(k), UNCHANGED <<remote, cache, homes>>, Counted,
           kept' \in [Updated -> [Field -> Value \union {None}]],
           origin' \in [Owned -> User \union Account \union {None}],
           \A x \in Owned \ Fresh : origin'[x] = origin[x],
           NEW new, new \subseteq Fresh, NoneBut(new, db, db'),
           Consistent(db', origin', homes), db'.copies \subseteq db.copies
    PROVE  Fine(k)
  <1>1. GhostsFine
    BY DEF GhostsFine, GhostsTyped, Inv, Fresh
  <1> QED BY <1>1, TablesGrow, CountedBounded DEF Fine

(* What every step of the server finds in the tables and in its request    *)
LEMMA Found ==
    ASSUME Inv, NEW k \in Client, calls[k] # None
    PROVE  /\ Holds(calls[k], origin, homes, remote) /\ Shape(calls[k])
           /\ Consistent(db, origin, homes) /\ db \in Database
           /\ DOMAIN calls = Client /\ DOMAIN calls[k] = DOMAIN Blank
           /\ kept \in [Updated -> [Field -> Value \union {None}]]
           /\ origin \in [Owned -> User \union Account \union {None}]
           /\ homes \in [User -> SUBSET Account]
  BY DEF Inv, Holds, Shape, Consistent, GhostsTyped

(* A find after which the use case goes on relies on what was found.       *)
LEMMA FindFine ==
    ASSUME Inv, NEW k \in Client, calls[k] # None, calls[k].op \in OwnedOps \union ServiceOps,
           UNCHANGED <<remote, accountVars>>,
           NEW op, NEW found, NEW step, NEW row, Find(k, op, found, step, row),
           found => \A r : SameCall(calls[k], r) /\ r.at = step /\ r.row = row =>
                            DirectoryHolds(r, origin, homes)
    PROVE  Fine(k)
  <1>1. /\ At(k, op, "find") /\ UNCHANGED <<db, origin, homes, kept, remote, cache>> /\ Counted
        /\ Answer(k) \/ (Proceed(k, step, row) /\ found)
    BY DEF Find, DirectoryUnchanged, Counted, bounds, ghostVars, accountVars
  <1>2. CASE Answer(k)
    BY <1>1, <1>2, Found, LastWrite
  <1>3. CASE Proceed(k, step, row) /\ found
    <2>1. calls[k].at \notin {"account", "user"}
      BY <1>1 DEF At
    <2> QED BY <1>1, <1>3, <2>1, DirectoryMoves
  <1> QED BY <1>1, <1>2, <1>3

(* Creating a user inserts a row whose id is new, in the account of the    *)
(* caller.                                                                 *)
LEMMA CreateUserFine ==
    ASSUME Inv, NEW k \in Client, calls[k] # None, calls[k].op \in OwnedOps,
           CreateUser(k), UNCHANGED <<remote, accountVars>>
    PROVE  Fine(k)
  <1> DEFINE q == calls[k]
             row == [account |-> q.account, external |-> q.key,
                     data |-> [f \in Field |-> q.patch[f]]]
  <1>1. CASE Find(k, "CreateUser", ~Stored(db.users, q.user) /\ ~ExternalTaken(db, q.user, q.key),
                  "write", row)
    <2>1. At(k, "CreateUser", "find")
      BY <1>1 DEF Find
    <2>2. row \in UserRow /\ row.account = q.account
      BY <2>1, Found DEF At, Shape, Making, UserRow, Data
    <2> HIDE DEF row
    <2>3. \A r : SameCall(q, r) /\ r.at = "write" /\ r.row = row => DirectoryHolds(r, origin, homes)
      BY <2>1, <2>2 DEF At, SameCall, SameOrder, DirectoryHolds
    <2> QED BY <1>1, <2>3, FindFine
  <1>2. CASE /\ Write(k, "CreateUser", UserInsertAccepted(db, q.user, q.row), UserInserted(db, q.user, q.row))
             /\ IF UserInsertAccepted(db, q.user, q.row)
                THEN homes' = [homes EXCEPT ![q.user] = @ \union {q.account}] /\ kept' = NewRow(q.user)
                ELSE UNCHANGED <<homes, kept>>
             /\ UNCHANGED origin
    <2>1. /\ At(k, "CreateUser", "write") /\ Answer(k) /\ Counted
          /\ UNCHANGED <<origin, remote, cache>>
      BY <1>2 DEF Write, Counted, bounds, accountVars
    <2>2. CASE ~UserInsertAccepted(db, q.user, q.row)
      <3>1. UNCHANGED <<db, homes, kept>>
        BY <1>2, <2>2 DEF Write
      <3> QED BY <2>1, <3>1, Found, LastWrite
    <2>3. CASE UserInsertAccepted(db, q.user, q.row)
      <3>1. /\ db' = UserInserted(db, q.user, q.row) /\ kept' = NewRow(q.user)
            /\ homes' = [homes EXCEPT ![q.user] = @ \union {q.account}]
        BY <1>2, <2>3 DEF Write
      <3>2. /\ q.user \in User /\ q.row \in UserRow /\ q.row.account = q.account
            /\ q.account \in Account
        BY <2>1, Found DEF At, Holds, Shape, DirectoryHolds
      <3>3. /\ homes' \in [User -> SUBSET Account]
            /\ \A u \in User : homes[u] \subseteq homes'[u]
            /\ q.row.account \in homes'[q.user]
        BY <3>1, <3>2, Found
      <3>4. \A u \in User : IsFiniteSet(homes'[u])
        <4>1. ASSUME NEW u \in User PROVE IsFiniteSet(homes'[u])
          <5>1. IsFiniteSet(homes[u])
            BY DEF Inv, GhostsTyped
          <5>2. CASE u = q.user
            <6>1. homes'[u] = homes[u] \union {q.account}
              BY <3>1, <5>2, Found
            <6> QED BY <5>1, <6>1, FS_AddElement
          <5>3. CASE u # q.user
            <6>1. homes'[u] = homes[u]
              BY <3>1, <5>3, Found
            <6> QED BY <5>1, <6>1
          <5> QED BY <5>2, <5>3
        <4> QED BY <4>1
      <3>5. Consistent(db, origin, homes')
        BY <3>3, Found, MoreKnown
      <3>6. Kept(db, db', origin, homes')
        BY <3>1, <3>2, <3>3, <3>5, UserPutKeeps
      <3>7. TablesFine
        BY <2>1, <3>6 DEF TablesFine, Kept, NoneBut, Inv
      <3>8. kept' \in [Updated -> [Field -> Value \union {None}]]
        BY <3>1, NewRowTyped
      <3>9. GhostsFine
        BY <2>1, <3>3, <3>4, <3>8 DEF GhostsFine, GhostsTyped, Inv
      <3> QED BY <2>1, <3>7, <3>9, Answers, CountedBounded DEF Fine
    <2> QED BY <2>2, <2>3
  <1> QED BY <1>1, <1>2 DEF CreateUser

(* A save keeps the promises typed, whether or not there is a row to save. *)
LEMMA SaveFine ==
    ASSUME Inv, NEW k \in Client, calls[k] # None, UNCHANGED <<remote, accountVars>>,
           NEW op, NEW id, NEW table, NEW accepted, NEW result,
           Save(k, op, id, table, accepted, result), Kept(db, result, origin, homes) \/ ~accepted
    PROVE  Fine(k)
  <1>1. /\ Answer(k) /\ Counted /\ UNCHANGED <<origin, homes, remote, cache>>
        /\ db' = db \/ Kept(db, db', origin, homes)
    BY DEF Save, Write, Counted, bounds, accountVars
  <1>2. kept' \in [Updated -> [Field -> Value \union {None}]]
    <2>1. CASE UNCHANGED kept
      BY <2>1, Found
    <2>2. CASE Keeps(id, calls[k].patch, calls[k].row, table[id])
      <3>1. calls[k].patch \in [Field -> Value \union {None}]
        BY Found DEF Shape
      <3> DEFINE patch == calls[k].patch
                 read == calls[k].row
                 row == table[id]
      <3>2. Keeps(id, patch, read, row)
        BY <2>2
      <3> HIDE DEF patch, read, row
      <3> QED BY <3>1, <3>2, KeepsTyped DEF patch
    <2> QED BY <2>1, <2>2 DEF Save
  <1> QED BY <1>1, <1>2, LastWrite

(* Updating a user saves the row it read, in the same account.             *)
LEMMA UpdateUserFine ==
    ASSUME Inv, NEW k \in Client, calls[k] # None, calls[k].op \in OwnedOps,
           UpdateUser(k), UNCHANGED <<remote, accountVars>>
    PROVE  Fine(k)
  <1> DEFINE q == calls[k]
             read == db.users[q.user]
             row == [Merged(q.row, q.patch) EXCEPT !.external = IF q.key = None THEN @ ELSE q.key]
  <1>1. CASE Find(k, "UpdateUser", UserInAccount(db, q.user, q.account), "write", read)
    <2>1. At(k, "UpdateUser", "find")
      BY <1>1 DEF Find
    <2>2. UserInAccount(db, q.user, q.account) =>
            q.user \in User /\ read \in UserRow /\ read.account \in homes[q.user]
      BY Found DEF UserInAccount, Stored, Database, Consistent, UsersAtHome, IdsOf
    <2> HIDE DEF read
    <2>3. ASSUME UserInAccount(db, q.user, q.account),
                 NEW r, SameCall(q, r), r.at = "write", r.row = read
          PROVE  DirectoryHolds(r, origin, homes)
      BY <2>1, <2>2, <2>3 DEF At, SameCall, SameOrder, DirectoryHolds
    <2> QED BY <1>1, <2>3, FindFine
  <1>2. CASE Save(k, "UpdateUser", q.user, db.users, UserSaveAccepted(db, q.user, row),
                  UserSaved(db, q.user, row))
    <2>1. At(k, "UpdateUser", "write")
      BY <1>2 DEF Save, Write
    <2>2. q.user \in User /\ q.row \in UserRow /\ q.row.account \in homes[q.user]
      BY <2>1, Found DEF At, Holds, DirectoryHolds
    <2>3. row \in UserRow /\ row.account \in homes[q.user]
      <3> DEFINE m == Merged(q.row, q.patch)
      <3>1. m \in UserRow /\ m.account = q.row.account
        BY <2>2, Found, MergedTyped DEF Shape
      <3>2. q.key \in Value \union {None}
        BY Found DEF Shape
      <3>3. row = [m EXCEPT !.external = IF q.key = None THEN m.external ELSE q.key]
        OBVIOUS
      <3> HIDE DEF m, row
      <3> QED BY <2>2, <3>1, <3>2, <3>3 DEF UserRow
    <2> HIDE DEF row
    <2>4. Kept(db, UserSaved(db, q.user, row), origin, homes)
      BY <2>2, <2>3, Found, UserPutKeeps
    <2> QED BY <1>2, <2>4, SaveFine
  <1> QED BY <1>1, <1>2 DEF UpdateUser

(* A find that leaves nothing for the next statement, and a write that     *)
(* leaves the ghosts alone                                                 *)
LEMMA PlainFind ==
    ASSUME Inv, NEW k \in Client, calls[k] # None, calls[k].op \in OwnedOps \union ServiceOps,
           UNCHANGED <<remote, accountVars>>,
           NEW op, NEW found, NEW step, Find(k, op, found, step, None),
           \A r : r.op = op /\ r.at = step => DirectoryHolds(r, origin, homes)
    PROVE  Fine(k)
  <1>1. At(k, op, "find")
    BY DEF Find
  <1>2. ASSUME NEW r, SameCall(calls[k], r), r.at = step PROVE DirectoryHolds(r, origin, homes)
    BY <1>1, <1>2 DEF At, SameCall, SameOrder
  <1> QED BY <1>2, FindFine

(* A write that changes the tables alone is Fine when the tables are.      *)
LEMMA PlainWrite ==
    ASSUME Inv, NEW k \in Client, calls[k] # None, UNCHANGED <<remote, accountVars>>,
           NEW op, NEW accepted, NEW result, Write(k, op, accepted, result),
           accepted => Kept(db, result, origin, homes), UNCHANGED ghostVars
    PROVE  Fine(k)
  <1>1. /\ Answer(k) /\ Counted /\ UNCHANGED <<origin, homes, kept, remote, cache>>
        /\ db' = db \/ Kept(db, db', origin, homes)
    BY DEF Write, Counted, bounds, ghostVars, accountVars
  <1> QED BY <1>1, Found, LastWrite

(* Deleting a user, a calendar, a schedule or a service leaves the tables  *)
(* consistent.                                                             *)
LEMMA DeletesFine ==
    ASSUME Inv, NEW k \in Client, calls[k] # None, calls[k].op \in OwnedOps,
           DeleteUser(k) \/ DeleteCalendar(k) \/ DeleteSchedule(k), UNCHANGED <<remote, accountVars>>
    PROVE  Fine(k)
  <1> DEFINE q == calls[k]
  <1>0. Consistent(db, origin, homes)
    BY Found
  <1>1. CASE DeleteUser(k)
    <2>1. CASE Find(k, "DeleteUser", UserInAccount(db, q.user, q.account), "write", None)
      BY <2>1, PlainFind DEF DirectoryHolds
    <2>2. CASE /\ Write(k, "DeleteUser", UserDeleteAccepted(db, q.user), UserDeleted(db, q.user))
               /\ UNCHANGED ghostVars
      <3>1. Kept(db, UserDeleted(db, q.user), origin, homes)
        BY <1>0, UserDeletedKeeps
      <3> QED BY <2>2, <3>1, PlainWrite
    <2> QED BY <1>1, <2>1, <2>2 DEF DeleteUser
  <1>2. CASE DeleteCalendar(k)
    <2>1. CASE Find(k, "DeleteCalendar", CalendarOfUser(db, q.calendar, q.user), "write", None)
      BY <2>1, PlainFind DEF DirectoryHolds
    <2>2. CASE /\ Write(k, "DeleteCalendar", CalendarDeleteAccepted(db, q.calendar),
                        CalendarDeleted(db, q.calendar))
               /\ UNCHANGED ghostVars
      <3>1. CalendarDeleteAccepted(db, q.calendar) => Kept(db, CalendarDeleted(db, q.calendar), origin, homes)
        BY <1>0, OtherDeletesKeep
      <3> QED BY <2>2, <3>1, PlainWrite
    <2> QED BY <1>2, <2>1, <2>2 DEF DeleteCalendar
  <1>3. CASE DeleteSchedule(k)
    <2>1. CASE Find(k, "DeleteSchedule", ScheduleOfUser(db, q.schedule, q.user), "write", None)
      BY <2>1, PlainFind DEF DirectoryHolds
    <2>2. CASE /\ Write(k, "DeleteSchedule", TRUE, ScheduleDeleted(db, q.schedule))
               /\ UNCHANGED ghostVars
      <3>1. Kept(db, ScheduleDeleted(db, q.schedule), origin, homes)
        BY <1>0, OtherDeletesKeep
      <3> QED BY <2>2, <3>1, PlainWrite
    <2> QED BY <1>3, <2>1, <2>2 DEF DeleteSchedule
  <1> QED BY <1>1, <1>2, <1>3

(* Saving a calendar, a schedule or a service keeps the owner the row was  *)
(* read with.                                                              *)
LEMMA UpdatesFine ==
    ASSUME Inv, NEW k \in Client, calls[k] # None, calls[k].op \in OwnedOps,
           UpdateCalendar(k) \/ UpdateSchedule(k), UNCHANGED <<remote, accountVars>>
    PROVE  Fine(k)
  <1> DEFINE q == calls[k]
  <1>0. Consistent(db, origin, homes) /\ db \in Database /\ q.patch \in [Field -> Value \union {None}]
    BY Found DEF Shape
  <1>1. CASE UpdateCalendar(k)
    <2> DEFINE read == db.calendars[q.calendar]
    <2>1. CASE Find(k, "UpdateCalendar", CalendarOfUser(db, q.calendar, q.user), "write", read)
      <3>1. CalendarOfUser(db, q.calendar, q.user) => read \in CalendarRow
        BY <1>0 DEF CalendarOfUser, Stored, Database
      <3>2. At(k, "UpdateCalendar", "find")
        BY <2>1 DEF Find
      <3> HIDE DEF read
      <3>3. ASSUME CalendarOfUser(db, q.calendar, q.user),
                   NEW r, SameCall(q, r), r.at = "write", r.row = read
            PROVE  DirectoryHolds(r, origin, homes)
        BY <3>1, <3>2, <3>3 DEF At, SameCall, SameOrder, DirectoryHolds
      <3> QED BY <2>1, <3>3, FindFine
    <2>2. CASE Save(k, "UpdateCalendar", q.calendar, db.calendars, TRUE,
                    CalendarSaved(db, q.calendar, Merged(q.row, q.patch)))
      <3>1. q.row \in CalendarRow
        BY <2>2, Found DEF Save, Write, At, Holds, DirectoryHolds
      <3>2. Merged(q.row, q.patch).data \in Data
        BY <1>0, <3>1, MergedTyped
      <3>3. Kept(db, CalendarSaved(db, q.calendar, Merged(q.row, q.patch)), origin, homes)
        BY <1>0, <3>2, SavesKeep
      <3> QED BY <2>2, <3>3, SaveFine
    <2> QED BY <1>1, <2>1, <2>2 DEF UpdateCalendar
  <1>2. CASE UpdateSchedule(k)
    <2> DEFINE read == db.schedules[q.schedule]
    <2>1. CASE Find(k, "UpdateSchedule", ScheduleOfUser(db, q.schedule, q.user), "write", read)
      <3>1. ScheduleOfUser(db, q.schedule, q.user) => read \in ScheduleRow
        BY <1>0 DEF ScheduleOfUser, Stored, Database
      <3>2. At(k, "UpdateSchedule", "find")
        BY <2>1 DEF Find
      <3> HIDE DEF read
      <3>3. ASSUME ScheduleOfUser(db, q.schedule, q.user),
                   NEW r, SameCall(q, r), r.at = "write", r.row = read
            PROVE  DirectoryHolds(r, origin, homes)
        BY <3>1, <3>2, <3>3 DEF At, SameCall, SameOrder, DirectoryHolds
      <3> QED BY <2>1, <3>3, FindFine
    <2>2. CASE Save(k, "UpdateSchedule", q.schedule, db.schedules, TRUE,
                    ScheduleSaved(db, q.schedule, Merged(q.row, q.patch)))
      <3>1. q.row \in ScheduleRow
        BY <2>2, Found DEF Save, Write, At, Holds, DirectoryHolds
      <3>2. Merged(q.row, q.patch).data \in Data
        BY <1>0, <3>1, MergedTyped
      <3>3. Kept(db, ScheduleSaved(db, q.schedule, Merged(q.row, q.patch)), origin, homes)
        BY <1>0, <3>2, SavesKeep
      <3> QED BY <2>2, <3>3, SaveFine
    <2> QED BY <1>2, <2>1, <2>2 DEF UpdateSchedule
  <1> QED BY <1>1, <1>2

(* More is known of who a row is of once an id is given                    *)
LEMMA OriginGrows ==
    ASSUME Inv, NEW x \in Fresh, NEW v \in User \union Account, origin' = [origin EXCEPT ![x] = v]
    PROVE  /\ origin' \in [Owned -> User \union Account \union {None}]
           /\ \A y \in Owned \ Fresh : origin'[y] = origin[y]
           /\ origin'[x] = v
           /\ Consistent(db, origin', homes)
  <1>1. /\ origin \in [Owned -> User \union Account \union {None}] /\ x \in Owned
        /\ Consistent(db, origin, homes)
    BY DEF Inv, GhostsTyped, Fresh
  <1>2. /\ origin' \in [Owned -> User \union Account \union {None}]
        /\ \A y \in Owned \ Fresh : origin'[y] = origin[y]
        /\ origin'[x] = v
    BY <1>1 DEF Fresh
  <1>3. \A y \in Calendar \union Schedule \union Service \union Event :
            origin[y] # None => origin'[y] = origin[y]
    BY <1>2 DEF Fresh, Owned
  <1>4. Consistent(db, origin', homes)
    BY <1>1, <1>3, MoreKnown
  <1> QED BY <1>2, <1>4

(* Creating a calendar, a schedule or a service gives a new id to the      *)
(* owner that was found.                                                   *)
LEMMA CreatesFine ==
    ASSUME Inv, NEW k \in Client, calls[k] # None, calls[k].op \in OwnedOps \union ServiceOps,
           CreateCalendar(k) \/ CreateSchedule(k) \/ CreateService(k),
           UNCHANGED <<remote, accountVars>>
    PROVE  Fine(k)
  <1> DEFINE q == calls[k]
             data == [f \in Field |-> q.patch[f]]
  <1>0. /\ Consistent(db, origin, homes) /\ Holds(q, origin, homes, remote) /\ Shape(q)
        /\ db \in Database /\ kept \in [Updated -> [Field -> Value \union {None}]]
    BY Found
  <1>1. CASE CreateCalendar(k)
    <2> DEFINE row == [user |-> q.user, account |-> q.account, key |-> q.key, data |-> data]
    <2>1. PICK c \in {x \in Calendar : origin[x] = None} :
            /\ At(k, "CreateCalendar", "find") /\ Answer(k)
            /\ IF CalendarInsertAccepted(db, row)
               THEN /\ db' = CalendarInserted(db, c, row)
                    /\ origin' = [origin EXCEPT ![c] = q.user]
                    /\ kept' = NewRow(c)
               ELSE UNCHANGED <<db, origin, kept>>
            /\ UNCHANGED <<bounds, now, homes>>
      BY <1>1 DEF CreateCalendar
    <2>2. UNCHANGED <<remote, cache, homes>> /\ Counted /\ CallFine(k)
      BY <2>1, Answers DEF Counted, bounds, accountVars
    <2>3. CASE ~CalendarInsertAccepted(db, row)
      BY <1>0, <2>1, <2>2, <2>3, LastWrite
    <2>4. CASE CalendarInsertAccepted(db, row)
      <3>1. q.user \in User /\ q.account \in homes[q.user]
        BY <1>0, <2>1 DEF At, Holds, UserRouted, AtHome
      <3>2. row \in CalendarRow /\ row.user = q.user /\ row.account = q.account
        BY <1>0, <2>1, <3>1 DEF At, Shape, Making, CalendarRow, Data
      <3>3. /\ db' = CalendarInserted(db, c, row) /\ origin' = [origin EXCEPT ![c] = q.user]
            /\ kept' = NewRow(c) /\ Stored(db.users, row.user)
        BY <2>1, <2>4 DEF CalendarInsertAccepted
      <3> HIDE DEF row
      <3>4. c \in Fresh /\ c \in Calendar
        BY DEF Fresh, Owned
      <3>5. /\ origin' \in [Owned -> User \union Account \union {None}]
            /\ \A y \in Owned \ Fresh : origin'[y] = origin[y]
            /\ origin'[c] = q.user /\ Consistent(db, origin', homes)
        BY <3>1, <3>3, <3>4, OriginGrows
      <3>a. ASSUME NEW o, Consistent(db, o, homes), o[c] = row.user
            PROVE  LET r == CalendarInserted(db, c, row)
                   IN  Consistent(r, o, homes) /\ r.copies = db.copies /\ NoneBut({c}, db, r)
        BY <3>1, <3>2, <3>3, <3>4, <3>a, CalendarInsertedKeeps
      <3>6. Consistent(db', origin', homes) /\ db'.copies = db.copies /\ NoneBut({c}, db, db')
        BY <3>2, <3>3, <3>5, <3>a
      <3>7. kept' \in [Updated -> [Field -> Value \union {None}]] /\ {c} \subseteq Fresh
        BY <3>3, <3>4, NewRowTyped
      <3> QED BY <2>2, <3>5, <3>6, <3>7, FirstWrite
    <2> QED BY <2>3, <2>4
  <1>2. CASE CreateSchedule(k)
    <2> DEFINE row == [user |-> q.user, data |-> data]
    <2>1. CASE Find(k, "CreateSchedule", UserInAccount(db, q.user, q.account), "write", row)
      <3>1. At(k, "CreateSchedule", "find")
        BY <2>1 DEF Find
      <3>2. UserInAccount(db, q.user, q.account) => row \in ScheduleRow /\ row.user = q.user
        BY <1>0, <3>1 DEF At, Shape, Making, ScheduleRow, Data, UserInAccount, Stored, Database
      <3> HIDE DEF row
      <3>3. ASSUME UserInAccount(db, q.user, q.account),
                   NEW r, SameCall(q, r), r.at = "write", r.row = row
            PROVE  DirectoryHolds(r, origin, homes)
        BY <3>1, <3>2, <3>3 DEF At, SameCall, SameOrder, DirectoryHolds
      <3> QED BY <2>1, <3>3, FindFine
    <2>2. ASSUME NEW s \in {x \in Schedule : origin[x] = None},
                 Write(k, "CreateSchedule", ScheduleInsertAccepted(db, q.user),
                       ScheduleInserted(db, s, q.row)),
                 IF ScheduleInsertAccepted(db, q.user)
                 THEN origin' = [origin EXCEPT ![s] = q.user] /\ kept' = NewRow(s)
                 ELSE UNCHANGED <<origin, kept>>,
                 UNCHANGED homes
          PROVE  Fine(k)
      <3>1. /\ UNCHANGED <<remote, cache, homes>> /\ Counted /\ CallFine(k)
            /\ At(k, "CreateSchedule", "write") /\ Answer(k)
        BY <2>2, Answers DEF Write, Counted, bounds, accountVars
      <3>2. CASE ~ScheduleInsertAccepted(db, q.user)
        <4>1. UNCHANGED <<db, origin, kept>>
          BY <2>2, <3>2 DEF Write
        <4> QED BY <1>0, <3>1, <4>1, LastWrite
      <3>3. CASE ScheduleInsertAccepted(db, q.user)
        <4>1. q.row \in ScheduleRow /\ q.row.user = q.user
          BY <1>0, <3>1 DEF At, Holds, DirectoryHolds
        <4>2. /\ db' = ScheduleInserted(db, s, q.row) /\ origin' = [origin EXCEPT ![s] = q.user]
              /\ kept' = NewRow(s) /\ Stored(db.users, q.row.user) /\ q.user \in User
          BY <2>2, <3>3, <4>1 DEF ScheduleInsertAccepted, Write, ScheduleRow
        <4>3. s \in Fresh /\ s \in Schedule
          BY DEF Fresh, Owned
        <4>4. /\ origin' \in [Owned -> User \union Account \union {None}]
              /\ \A y \in Owned \ Fresh : origin'[y] = origin[y]
              /\ origin'[s] = q.user /\ Consistent(db, origin', homes)
          BY <4>2, <4>3, OriginGrows
        <4>a. ASSUME NEW o, Consistent(db, o, homes), o[s] = q.row.user
              PROVE  LET r == ScheduleInserted(db, s, q.row)
                     IN  Consistent(r, o, homes) /\ r.copies = db.copies /\ NoneBut({s}, db, r)
          BY <4>1, <4>2, <4>3, <4>a, ScheduleInsertedKeeps
        <4>5. Consistent(db', origin', homes) /\ db'.copies = db.copies /\ NoneBut({s}, db, db')
          BY <4>1, <4>2, <4>4, <4>a
        <4>6. kept' \in [Updated -> [Field -> Value \union {None}]] /\ {s} \subseteq Fresh
          BY <4>2, <4>3, NewRowTyped
        <4> QED BY <3>1, <4>4, <4>5, <4>6, FirstWrite
      <3> QED BY <3>2, <3>3
    <2> QED BY <1>2, <2>1, <2>2 DEF CreateSchedule
  <1>3. CASE CreateService(k)
    <2> DEFINE row == [account |-> q.account, data |-> data]
    <2>1. PICK v \in {x \in Service : origin[x] = None} :
            /\ At(k, "CreateService", "find") /\ Answer(k)
            /\ db' = ServiceInserted(db, v, row)
            /\ origin' = [origin EXCEPT ![v] = q.account]
            /\ kept' = NewRow(v)
            /\ UNCHANGED <<bounds, now, homes>>
      BY <1>3 DEF CreateService
    <2>2. UNCHANGED <<remote, cache, homes>> /\ Counted /\ CallFine(k)
      BY <2>1, Answers DEF Counted, bounds, accountVars
    <2>3. row \in ServiceRow /\ row.account = q.account /\ q.account \in Account
      BY <1>0, <2>1 DEF At, Shape, Making, ServiceRow, Data
    <2> HIDE DEF row
    <2>4. v \in Fresh /\ v \in Service
      BY DEF Fresh, Owned
    <2>5. /\ origin' \in [Owned -> User \union Account \union {None}]
          /\ \A y \in Owned \ Fresh : origin'[y] = origin[y]
          /\ origin'[v] = q.account /\ Consistent(db, origin', homes)
      BY <2>1, <2>3, <2>4, OriginGrows
    <2>a. ASSUME NEW o, Consistent(db, o, homes), o[v] = row.account
          PROVE  LET r == ServiceInserted(db, v, row)
                 IN  Consistent(r, o, homes) /\ r.copies = db.copies /\ NoneBut({v}, db, r)
      BY <2>3, <2>4, <2>a, ServiceInsertedKeeps
    <2>6. Consistent(db', origin', homes) /\ db'.copies = db.copies /\ NoneBut({v}, db, db')
      BY <2>1, <2>3, <2>5, <2>a
    <2>7. kept' \in [Updated -> [Field -> Value \union {None}]] /\ {v} \subseteq Fresh
      BY <2>1, <2>4, NewRowTyped
    <2> QED BY <2>2, <2>5, <2>6, <2>7, FirstWrite
  <1> QED BY <1>1, <1>2, <1>3

(* Removing a host, or a busy calendar of a host, only takes rows away.    *)
LEMMA HostlessFine ==
    ASSUME Inv, NEW k \in Client, calls[k] # None, calls[k].op \in ServiceOps,
           DeleteService(k) \/ RemoveUserFromService(k) \/ RemoveBusyCalendar(k),
           UNCHANGED <<remote, accountVars>>
    PROVE  Fine(k)
  <1> DEFINE q == calls[k]
  <1>0. Consistent(db, origin, homes)
    BY Found
  <1>1. CASE DeleteService(k)
    <2>1. CASE Find(k, "DeleteService", ServiceInAccount(db, q.service, q.account), "write", None)
      BY <2>1, PlainFind DEF DirectoryHolds
    <2>2. CASE Write(k, "DeleteService", TRUE, ServiceDeleted(db, q.service)) /\ UNCHANGED ghostVars
      BY <1>0, <2>2, ServiceDeletedKeeps, PlainWrite
    <2> QED BY <1>1, <2>1, <2>2 DEF DeleteService
  <1>2. CASE RemoveUserFromService(k)
    <2>1. CASE Find(k, "RemoveUserFromService", ServiceInAccount(db, q.service, q.account), "busy", None)
      BY <2>1, PlainFind DEF DirectoryHolds
    <2>2. CASE /\ At(k, "RemoveUserFromService", "busy")
               /\ db' = HostBusyDeleted(db, q.service, q.user)
               /\ Goto(k, "write")
               /\ DirectoryUnchanged
      <3>1. Kept(db, db', origin, homes)
        BY <1>0, <2>2, BusyDeletesKeep
      <3>2. \A r : SameCall(q, r) /\ r.at = "write" => DirectoryHolds(r, origin, homes)
        BY <2>2 DEF At, SameCall, SameOrder, DirectoryHolds
      <3> QED BY <2>2, <3>1, <3>2, DirectoryMoves
            DEF DirectoryUnchanged, Counted, bounds, ghostVars, accountVars, At
    <2>3. CASE /\ Write(k, "RemoveUserFromService", TRUE, HostDeleted(db, q.service, q.user))
               /\ UNCHANGED ghostVars
      <3>1. Kept(db, HostDeleted(db, q.service, q.user), origin, homes)
        BY <1>0, OtherDeletesKeep
      <3> QED BY <2>3, <3>1, PlainWrite
    <2> QED BY <1>2, <2>1, <2>2, <2>3 DEF RemoveUserFromService
  <1>3. CASE RemoveBusyCalendar(k)
    <2>1. CASE Find(k, "RemoveBusyCalendar", UserInAccount(db, q.user, q.account), "exists", None)
      BY <2>1, PlainFind DEF DirectoryHolds
    <2>2. CASE /\ At(k, "RemoveBusyCalendar", "exists")
               /\ Answer(k) \/ Goto(k, "write")
               /\ UNCHANGED db /\ DirectoryUnchanged
      <3>1. \A r : SameCall(q, r) /\ r.at = "write" => DirectoryHolds(r, origin, homes)
        BY <2>2 DEF At, SameCall, SameOrder, DirectoryHolds
      <3> QED BY <2>2, <3>1, DirectoryMoves
            DEF DirectoryUnchanged, Counted, bounds, ghostVars, accountVars, At
    <2>3. CASE /\ Write(k, "RemoveBusyCalendar", TRUE, BusyDeleted(db, q.service, q.user, q.calendar))
               /\ UNCHANGED ghostVars
      <3>1. Kept(db, BusyDeleted(db, q.service, q.user, q.calendar), origin, homes)
        BY <1>0, BusyDeletesKeep
      <3> QED BY <2>3, <3>1, PlainWrite
    <2> QED BY <1>3, <2>1, <2>2, <2>3 DEF RemoveBusyCalendar
  <1> QED BY <1>1, <1>2, <1>3

(* A plan that was checked is of the user's own calendar and schedule, and *)
(* it stays so, since no other is ever stored under their ids.             *)
LEMMA PlanFine ==
    ASSUME Inv, NEW k \in Client, calls[k] # None, calls[k].op \in ServiceOps,
           NEW op \in {"AddUserToService", "UpdateServiceUser"}, CheckPlan(k, op),
           UNCHANGED <<remote, accountVars>>
    PROVE  Fine(k)
  <1> DEFINE q == calls[k]
             row == Planned(q.row, q)
  <1>1. /\ At(k, op, "plan") /\ UNCHANGED <<db, origin, homes, kept, remote, cache>> /\ Counted
        /\ Answer(k) \/ (Proceed(k, "write", row) /\ PlanChecked(q))
    BY DEF CheckPlan, DirectoryUnchanged, Counted, bounds, ghostVars, accountVars
  <1>2. /\ q.user \in User /\ q.row \in HostRow /\ PlanOwned(q.row, q.user, origin)
        /\ op = "AddUserToService" => AtHome(q, homes)
        /\ op = "AddUserToService" => q.service \in Service /\ origin[q.service] = q.account
    BY <1>1, Found DEF At, Holds, DirectoryHolds
  <1>3. CASE Answer(k)
    BY <1>1, <1>3, Found, LastWrite
  <1>4. CASE Proceed(k, "write", row) /\ PlanChecked(q)
    <2>1. row \in HostRow
      BY <1>2, Found DEF Planned, HostRow, Shape
    <2>2. PlanOwned(row, q.user, origin)
      <3>1. q.calendar # None => origin[q.calendar] = q.user
        BY <1>4, Found DEF PlanChecked, CalendarOfUser, Stored, IdsOf, Consistent, CalendarsOwned
      <3>2. q.schedule # None => origin[q.schedule] = q.user
        BY <1>4, Found DEF PlanChecked, ScheduleOfUser, Stored, IdsOf, Consistent, SchedulesOwned
      <3>3. CASE q.calendar = None /\ q.schedule = None
        BY <1>2, <3>3 DEF Planned
      <3>4. CASE ~(q.calendar = None /\ q.schedule = None)
        <4>1. row.calendar = q.calendar /\ row.schedule = q.schedule
          BY <1>2, <3>4 DEF Planned, HostRow
        <4> QED BY <3>1, <3>2, <4>1 DEF PlanOwned
      <3> QED BY <3>3, <3>4
    <2> HIDE DEF row
    <2>3. ASSUME NEW r, SameCall(q, r), r.at = "write", r.row = row
          PROVE  DirectoryHolds(r, origin, homes)
      BY <1>1, <1>2, <2>1, <2>2, <2>3 DEF At, SameCall, SameOrder, DirectoryHolds, AtHome
    <2> QED BY <1>1, <1>4, <2>3, DirectoryMoves DEF At
  <1> QED BY <1>1, <1>3, <1>4

(* Adding a host to a service keeps the host in the account of the         *)
(* service.                                                                *)
LEMMA AddUserFine ==
    ASSUME Inv, NEW k \in Client, calls[k] # None, calls[k].op \in ServiceOps,
           AddUserToService(k), UNCHANGED <<remote, accountVars>>
    PROVE  Fine(k)
  <1> DEFINE q == calls[k]
             bare == [calendar |-> None, schedule |-> None]
  <1>0. Consistent(db, origin, homes) /\ db \in Database /\ Shape(q)
    BY Found
  <1>1. CASE Find(k, "AddUserToService", UserInAccount(db, q.user, q.account), "service", None)
    <2>1. At(k, "AddUserToService", "find")
      BY <1>1 DEF Find
    <2>2. UserInAccount(db, q.user, q.account) => AtHome(q, homes)
      BY <1>0 DEF UserInAccount, Stored, Database, Consistent, UsersAtHome, IdsOf, AtHome
    <2>3. ASSUME UserInAccount(db, q.user, q.account),
                 NEW r, SameCall(q, r), r.at = "service", r.row = None
          PROVE  DirectoryHolds(r, origin, homes)
      BY <2>1, <2>2, <2>3 DEF At, SameCall, SameOrder, DirectoryHolds, AtHome
    <2> QED BY <1>1, <2>3, FindFine
  <1>2. CASE /\ At(k, "AddUserToService", "service")
             /\ IF ServiceInAccount(db, q.service, q.account) THEN Proceed(k, "plan", bare)
                ELSE Answer(k)
             /\ UNCHANGED db /\ DirectoryUnchanged
    <2>1. UNCHANGED <<db, origin, homes, kept, remote, cache>> /\ Counted
      BY <1>2 DEF DirectoryUnchanged, Counted, bounds, ghostVars, accountVars
    <2>2. CASE Answer(k)
      BY <2>1, <2>2, Found, LastWrite
    <2>3. CASE Proceed(k, "plan", bare) /\ ServiceInAccount(db, q.service, q.account)
      <3>1. AtHome(q, homes)
        BY <1>2, Found DEF At, Holds, DirectoryHolds
      <3>2. q.service \in Service /\ origin[q.service] = q.account
        BY <1>0, <2>3 DEF ServiceInAccount, Stored, IdsOf, Database, Consistent, ServicesOwned
      <3>3. bare \in HostRow /\ PlanOwned(bare, q.user, origin)
        BY DEF HostRow, PlanOwned
      <3> HIDE DEF bare
      <3>4. ASSUME NEW r, SameCall(q, r), r.at = "plan", r.row = bare
            PROVE  DirectoryHolds(r, origin, homes)
        BY <1>2, <3>1, <3>2, <3>3, <3>4 DEF At, SameCall, SameOrder, DirectoryHolds, AtHome
      <3> QED BY <1>2, <2>1, <2>3, <3>4, DirectoryMoves DEF At
    <2> QED BY <1>2, <2>2, <2>3
  <1>3. CASE CheckPlan(k, "AddUserToService")
    BY <1>3, PlanFine
  <1>4. CASE /\ Write(k, "AddUserToService", HostInsertAccepted(db, q.service, q.user, q.row),
                      HostInserted(db, q.service, q.user, q.row))
             /\ UNCHANGED ghostVars
    <2>1. /\ AtHome(q, homes) /\ q.service \in Service /\ origin[q.service] = q.account
          /\ q.user \in User /\ q.row \in HostRow /\ PlanOwned(q.row, q.user, origin)
      BY <1>4, Found DEF Write, At, Holds, DirectoryHolds
    <2>2. HostInsertAccepted(db, q.service, q.user, q.row) =>
            /\ Stored(db.services, q.service) /\ Stored(db.users, q.user)
            /\ db.services[q.service].account \in homes[q.user] /\ PlanAccepted(db, q.row)
      BY <1>0, <2>1 DEF HostInsertAccepted, Stored, IdsOf, Consistent, ServicesOwned, AtHome
    <2>3. HostInsertAccepted(db, q.service, q.user, q.row) =>
            Kept(db, HostInserted(db, q.service, q.user, q.row), origin, homes)
      BY <1>0, <2>1, <2>2, HostPutKeeps
    <2> QED BY <1>4, <2>3, PlainWrite
  <1> QED BY <1>1, <1>2, <1>3, <1>4 DEF AddUserToService

(* Saving the plan of a host names the host's own calendars and schedule.  *)
LEMMA UpdateServiceUserFine ==
    ASSUME Inv, NEW k \in Client, calls[k] # None, calls[k].op \in ServiceOps,
           UpdateServiceUser(k), UNCHANGED <<remote, accountVars>>
    PROVE  Fine(k)
  <1> DEFINE q == calls[k]
             row == db.hosts[<<q.service, q.user>>]
  <1>0. Consistent(db, origin, homes) /\ db \in Database /\ Shape(q)
    BY Found
  <1>1. CASE Find(k, "UpdateServiceUser", ServiceInAccount(db, q.service, q.account), "host", None)
    BY <1>1, PlainFind DEF DirectoryHolds
  <1>2. CASE /\ At(k, "UpdateServiceUser", "host")
             /\ IF Stored(db.hosts, <<q.service, q.user>>) THEN Proceed(k, "plan", row)
                ELSE Answer(k)
             /\ UNCHANGED db /\ DirectoryUnchanged
    <2>1. UNCHANGED <<db, origin, homes, kept, remote, cache>> /\ Counted
      BY <1>2 DEF DirectoryUnchanged, Counted, bounds, ghostVars, accountVars
    <2>2. CASE Answer(k)
      BY <2>1, <2>2, Found, LastWrite
    <2>3. CASE Proceed(k, "plan", row) /\ Stored(db.hosts, <<q.service, q.user>>)
      <3>1. /\ <<q.service, q.user>> \in Service \X User /\ row \in HostRow
            /\ <<q.service, q.user>> \in IdsOf(db.hosts)
        BY <1>0, <2>3 DEF Stored, IdsOf, Database
      <3>2. q.user \in User /\ row \in HostRow /\ PlanOwned(row, q.user, origin)
        BY <1>0, <3>1 DEF Consistent, HostsPlaced
      <3> HIDE DEF row
      <3>3. ASSUME NEW r, SameCall(q, r), r.at = "plan", r.row = row
            PROVE  DirectoryHolds(r, origin, homes)
        BY <1>2, <3>2, <3>3 DEF At, SameCall, SameOrder, DirectoryHolds
      <3> QED BY <1>2, <2>1, <2>3, <3>3, DirectoryMoves DEF At
    <2> QED BY <1>2, <2>2, <2>3
  <1>3. CASE CheckPlan(k, "UpdateServiceUser")
    BY <1>3, PlanFine
  <1>4. CASE /\ Write(k, "UpdateServiceUser", HostSaveAccepted(db, q.service, q.user, q.row),
                      HostSaved(db, q.service, q.user, q.row))
             /\ UNCHANGED ghostVars
    <2>1. q.row \in HostRow /\ PlanOwned(q.row, q.user, origin)
      BY <1>4, Found DEF Write, At, Holds, DirectoryHolds
    <2>2. HostSaveAccepted(db, q.service, q.user, q.row) =>
            Kept(db, HostSaved(db, q.service, q.user, q.row), origin, homes)
      BY <1>0, <2>1, HostSavedKeeps
    <2> QED BY <1>4, <2>2, PlainWrite
  <1> QED BY <1>1, <1>2, <1>3, <1>4 DEF UpdateServiceUser

(* A busy calendar is added to a host that is its owner.                   *)
LEMMA AddBusyFine ==
    ASSUME Inv, NEW k \in Client, calls[k] # None, calls[k].op \in ServiceOps,
           AddBusyCalendar(k), UNCHANGED <<remote, accountVars>>
    PROVE  Fine(k)
  <1> DEFINE q == calls[k]
  <1>0. Consistent(db, origin, homes) /\ db \in Database /\ Shape(q)
    BY Found
  <1>1. CASE Find(k, "AddBusyCalendar", UserInAccount(db, q.user, q.account), "exists", None)
    BY <1>1, PlainFind DEF DirectoryHolds
  <1>2. CASE /\ At(k, "AddBusyCalendar", "exists")
             /\ Answer(k) \/ Goto(k, "owner")
             /\ UNCHANGED failures \/ (MayFail /\ failures' = failures + 1)
             /\ UNCHANGED <<db, scenario, made, now, ghostVars>>
    <2>1. \A r : SameCall(q, r) /\ r.at = "owner" => DirectoryHolds(r, origin, homes)
      BY <1>2 DEF At, SameCall, SameOrder, DirectoryHolds
    <2> QED BY <1>2, <2>1, DirectoryMoves DEF Counted, ghostVars, accountVars, At
  <1>3. CASE /\ At(k, "AddBusyCalendar", "owner")
             /\ IF CalendarOfUser(db, q.calendar, q.user) THEN Goto(k, "write") ELSE Answer(k)
             /\ UNCHANGED db /\ DirectoryUnchanged
    <2>1. UNCHANGED <<db, origin, homes, kept, remote, cache>> /\ Counted
      BY <1>3 DEF DirectoryUnchanged, Counted, bounds, ghostVars, accountVars
    <2>2. CASE Answer(k)
      BY <2>1, <2>2, Found, LastWrite
    <2>3. CASE Goto(k, "write") /\ CalendarOfUser(db, q.calendar, q.user)
      <3>1. q.calendar \in IdsOf(db.calendars) /\ q.calendar \in Calendar
            /\ db.calendars[q.calendar] \in CalendarRow /\ db.calendars[q.calendar].user = q.user
        BY <1>0, <2>3 DEF CalendarOfUser, Stored, IdsOf, Database
      <3>2. q.user \in User /\ origin[q.calendar] = q.user
        BY <1>0, <3>1 DEF Consistent, CalendarsOwned, CalendarRow
      <3>3. ASSUME NEW r, SameCall(q, r), r.at = "write" PROVE DirectoryHolds(r, origin, homes)
        BY <1>3, <3>1, <3>2, <3>3 DEF At, SameCall, SameOrder, DirectoryHolds
      <3> QED BY <1>3, <2>1, <2>3, <3>3, DirectoryMoves DEF At
    <2> QED BY <1>3, <2>2, <2>3
  <1>4. CASE /\ Write(k, "AddBusyCalendar", BusyInsertAccepted(db, q.service, q.user, q.calendar),
                      BusyInserted(db, q.service, q.user, q.calendar))
             /\ UNCHANGED ghostVars
    <2>1. origin[q.calendar] = q.user
      BY <1>4, Found DEF Write, At, Holds, DirectoryHolds
    <2>2. BusyInsertAccepted(db, q.service, q.user, q.calendar) =>
            Kept(db, BusyInserted(db, q.service, q.user, q.calendar), origin, homes)
      BY <1>0, <2>1, BusyInsertedKeeps
    <2> QED BY <1>4, <2>2, PlainWrite
  <1> QED BY <1>1, <1>2, <1>3, <1>4 DEF AddBusyCalendar

(* Every statement on users, calendars, schedules and services is Fine.    *)
LEMMA DirectoryFine ==
    ASSUME Inv, NEW k \in Client, calls[k] # None, DirectoryNext(k), UNCHANGED <<remote, accountVars>>
    PROVE  Fine(k)
  BY CreateUserFine, UpdateUserFine, DeletesFine, UpdatesFine, CreatesFine, HostlessFine,
     AddUserFine, UpdateServiceUserFine, AddBusyFine DEF DirectoryNext

----------------------------------------------------------------------------
(* Tokens *)

(* What a request that obtains a token changes of itself                   *)
Obtains(q, r) ==
    /\ SameSubject(q, r)
    /\ r.row = q.row /\ r.todo = q.todo /\ r.queue = q.queue /\ r.sync = q.sync
    /\ r.at \in {"client", "renew", "store", "connected"}
    /\ r.at \in {"client", "renew", "store"} => r.grant \in WholeGrant

(* The clock is a natural number, and the tokens issued by it make whole   *)
(* grants.                                                                 *)
LEMMA NowTyped ==
    ASSUME Inv
    PROVE  /\ now \in Nat /\ now + Life \in Int
           /\ \A g \in Grant : Issued(g) \in Token /\ Issued(g).grant = g
           /\ \A g \in WholeGrant : Renewed(g) \in WholeGrant /\ Renewed(g).account = g.account
  <1>1. now \in Nat
    BY ScenariosAssumption DEF Inv, Bounded
  <1>2. now + Life \in Int
    BY <1>1, LatencyAssumption
  <1> QED BY <1>1, <1>2 DEF Issued, Token, Renewed, WholeGrant, GrantRow

(* Asking for a token leaves the tables alone, or saves the refreshed      *)
(* grant of the same user.                                                 *)
LEMMA TokenMoves ==
    ASSUME Inv, NEW k \in Client, calls[k] # None, calls[k].op \in IntegrationOps \union Copied,
           NEW giveUp, GetAccessToken(k, giveUp)
    PROVE  /\ calls[k].at \in {"token", "client", "renew", "store"}
           /\ UNCHANGED <<origin, homes, kept>> /\ Counted
           /\ db' = db \/ Kept(db, db', origin, homes)
           /\ giveUp \/ \E r : calls' = [calls EXCEPT ![k] = r] /\ Obtains(calls[k], r)
  <1> DEFINE q == calls[k]
             Goal == /\ q.at \in {"token", "client", "renew", "store"}
                     /\ UNCHANGED <<origin, homes, kept>> /\ Counted
                     /\ db' = db \/ Kept(db, db', origin, homes)
                     /\ giveUp \/ \E r : calls' = [calls EXCEPT ![k] = r] /\ Obtains(q, r)
  <1>0. /\ Consistent(db, origin, homes) /\ db \in Database /\ DOMAIN q = DOMAIN Blank
        /\ DOMAIN calls = Client
        /\ q.at \in Tokening => q.user \in User /\ q.provider \in Provider
        /\ q.at \in {"client", "renew", "store"} => q.grant \in WholeGrant
    BY Found DEF Holds, TokenHolds
  <1>1. ASSUME FindToken(k, giveUp) PROVE Goal
    <2> DEFINE row == db.grants[<<q.user, q.provider>>]
    <2>1. /\ q.at = "token" /\ UNCHANGED <<db, origin, homes, kept>> /\ Counted
          /\ q.user \in User /\ q.provider \in Provider
      BY <1>0, <1>1 DEF FindToken, IntegrationsUnchanged, Counted, bounds, ghostVars, Tokening
    <2>2. ASSUME row # None PROVE row \in WholeGrant
      <3>1. <<q.user, q.provider>> \in IdsOf(db.grants) /\ row \in GrantRow
        BY <1>0, <2>1, <2>2 DEF IdsOf, Database
      <3> QED BY <1>0, <3>1 DEF Consistent, GrantsWhole, WholeGrant
    <2>3. ASSUME NEW token, Connected(k, token)
          PROVE  \E r : calls' = [calls EXCEPT ![k] = r] /\ Obtains(q, r)
      <3> DEFINE r == [q EXCEPT !.at = "connected", !.grant = Handed(token), !.asked = None]
      <3>1. calls' = [calls EXCEPT ![k] = r]
        BY <1>0, <2>3 DEF Connected
      <3>2. Obtains(q, r)
        BY <1>0 DEF Obtains, SameSubject, Blank
      <3> QED BY <3>1, <3>2
    <2>4. ASSUME row # None, calls' = [calls EXCEPT ![k].at = "client", ![k].grant = row]
          PROVE  \E r : calls' = [calls EXCEPT ![k] = r] /\ Obtains(q, r)
      <3>1. row \in WholeGrant
        BY <2>2, <2>4
      <3> HIDE DEF row
      <3> DEFINE r == [q EXCEPT !.at = "client", !.grant = row]
      <3>2. calls' = [calls EXCEPT ![k] = r]
        BY <1>0, <2>4
      <3>3. Obtains(q, r)
        BY <1>0, <3>1 DEF Obtains, SameSubject, Blank
      <3> QED BY <3>2, <3>3
    <2>5. giveUp \/ \E r : calls' = [calls EXCEPT ![k] = r] /\ Obtains(q, r)
      BY <1>1, <2>3, <2>4 DEF FindToken
    <2> QED BY <2>1, <2>5
  <1>2. ASSUME FindClient(k, giveUp) PROVE Goal
    <2>1. q.at = "client" /\ UNCHANGED <<db, origin, homes, kept>> /\ Counted
      BY <1>2 DEF FindClient, IntegrationsUnchanged, Counted, bounds, ghostVars
    <2>2. ASSUME Goto(k, "renew") PROVE \E r : calls' = [calls EXCEPT ![k] = r] /\ Obtains(q, r)
      <3> DEFINE r == [q EXCEPT !.at = "renew"]
      <3>1. calls' = [calls EXCEPT ![k] = r]
        BY <1>0, <2>2 DEF Goto
      <3>2. Obtains(q, r)
        BY <1>0, <2>1 DEF Obtains, SameSubject, Blank
      <3> QED BY <3>1, <3>2
    <2>3. giveUp \/ Goto(k, "renew")
      BY <1>2 DEF FindClient
    <2> QED BY <2>1, <2>2, <2>3
  <1>3. ASSUME RenewToken(k, giveUp) PROVE Goal
    <2>1. q.at = "renew" /\ UNCHANGED <<db, origin, homes, kept>> /\ Counted
      BY <1>3 DEF RenewToken, Counted, ghostVars
    <2>2. ASSUME calls' = [calls EXCEPT ![k].at = "store", ![k].asked = now,
                                        ![k].grant.access = Issued(q.grant.refresh)]
          PROVE  \E r : calls' = [calls EXCEPT ![k] = r] /\ Obtains(q, r)
      <3> DEFINE token == Issued(q.grant.refresh)
                 g == [q.grant EXCEPT !.access = token]
                 r == [q EXCEPT !.at = "store", !.asked = now, !.grant = g]
      <3>1. q.grant \in WholeGrant
        BY <1>0, <2>1
      <3>2. token \in Token /\ token.grant = q.grant.refresh
        BY <3>1, NowTyped DEF WholeGrant, GrantRow
      <3>3. calls' = [calls EXCEPT ![k] = r]
        BY <1>0, <2>2 DEF Blank
      <3> HIDE DEF token
      <3>4. g \in WholeGrant
        BY <3>1, <3>2 DEF WholeGrant, GrantRow
      <3> HIDE DEF g
      <3>5. Obtains(q, r)
        BY <1>0, <3>4 DEF Obtains, SameSubject, Blank
      <3> QED BY <3>3, <3>5
    <2>3. giveUp \/ \E r : calls' = [calls EXCEPT ![k] = r] /\ Obtains(q, r)
      BY <1>3, <2>2 DEF RenewToken
    <2> QED BY <2>1, <2>3
  <1>4. ASSUME StoreToken(k) PROVE Goal
    <2>1. q.at = "store" /\ UNCHANGED <<origin, homes, kept>> /\ Counted
      BY <1>4 DEF StoreToken, Counted, ghostVars
    <2>2. \E r : calls' = [calls EXCEPT ![k] = r] /\ Obtains(q, r)
      <3> DEFINE r == [q EXCEPT !.at = "connected", !.grant = Handed(q.grant.access), !.asked = None]
      <3>1. calls' = [calls EXCEPT ![k] = r]
        BY <1>0, <1>4 DEF StoreToken, Connected
      <3>2. Obtains(q, r)
        BY <1>0 DEF Obtains, SameSubject, Blank
      <3> QED BY <3>1, <3>2
    <2>3. db' = db \/ Kept(db, db', origin, homes)
      <3> DEFINE row == Renewed(q.grant)
      <3>1. row \in GrantRow /\ row.access.grant = row.refresh
        BY <1>0, <2>1, NowTyped DEF WholeGrant
      <3>2. db' = db \/ db' = GrantSaved(db, q.user, q.provider, row)
        BY <1>4 DEF StoreToken
      <3> HIDE DEF row
      <3> QED BY <1>0, <3>1, <3>2, GrantSavedKeeps
    <2> QED BY <2>1, <2>2, <2>3
  <1> HIDE DEF Goal
  <1>5. Goal
    BY <1>1, <1>2, <1>3, <1>4 DEF GetAccessToken
  <1> QED BY <1>5 DEF Goal

----------------------------------------------------------------------------
(* Integrations *)

(* What a request on integrations must hold is its own part of Holds.      *)
LEMMA IntegrationHoldsOn ==
    ASSUME NEW o, NEW h, NEW rm, NEW q, Holds(q, o, h, rm), q.op \in IntegrationOps,
           q.at \notin {"account", "user"}, NEW r, SameSubject(q, r), TokenHolds(r)
    PROVE  Holds(r, o, h, rm)
  <1>1. /\ r.op \notin ByKeyOnly /\ r.op \notin Copied /\ r.op \notin AccountOps
        /\ r.op \notin Creates /\ r.op # "DeleteManyEvents" /\ r.op # "CreateBatchEvents"
        /\ r.op \notin OwnedOps /\ r.op \notin ServiceOps
    BY DEF SameSubject, ByKeyOnly, Copied, Creates, IntegrationOps, OwnedOps, ServiceOps, AccountOps
  <1>2. Shape(r)
    BY <1>1 DEF Holds, Shape, SameSubject
  <1>3. r.op \in UserRouted => AtHome(r, h)
    BY DEF Holds, SameSubject, AtHome
  <1>4. DirectoryHolds(r, o, h)
    BY <1>1 DEF DirectoryHolds, OwnedOps, ServiceOps
  <1>5. EventHolds(r, o, rm)
    BY <1>1 DEF EventHolds, Copied, Creates
  <1>6. AccountHolds(r)
    BY <1>1 DEF AccountHolds, AccountOps
  <1> QED BY <1>2, <1>3, <1>4, <1>5, <1>6 DEF Holds

(* A request on integrations that moves on with what it read is Fine.      *)
LEMMA IntegrationMoves ==
    ASSUME Inv, NEW k \in Client, calls[k] # None, calls[k].op \in IntegrationOps,
           calls[k].at \notin {"account", "user"},
           UNCHANGED <<remote, cache, origin, homes, kept>>, Counted,
           db' = db \/ Kept(db, db', origin, homes),
           Answer(k) \/ \E r : /\ calls' = [calls EXCEPT ![k] = r]
                               /\ SameSubject(calls[k], r) /\ TokenHolds(r)
    PROVE  Fine(k)
  <1>1. CallFine(k)
    <2>1. CASE Answer(k)
      BY <2>1, Answers
    <2>2. ASSUME NEW r, calls' = [calls EXCEPT ![k] = r], SameSubject(calls[k], r), TokenHolds(r)
          PROVE  CallFine(k)
      <3>1. Holds(r, origin, homes, remote)
        BY <2>2, Found, IntegrationHoldsOn
      <3> QED BY <2>2, <3>1, Becomes
    <2> QED BY <2>1, <2>2
  <1>2. TablesFine /\ GhostsFine
    BY TablesKept, GhostsStay DEF Inv, GhostsTyped
  <1>3. Bounded'
    BY CountedBounded
  <1> QED BY <1>1, <1>2, <1>3 DEF Fine

(* A statement after which the request is answered or goes on as it is     *)
LEMMA IntegrationGoes ==
    ASSUME Inv, NEW k \in Client, calls[k] # None, calls[k].op \in IntegrationOps,
           calls[k].at \notin {"account", "user"},
           UNCHANGED <<remote, accountVars, ghostVars>>, Counted,
           db' = db \/ Kept(db, db', origin, homes),
           NEW s, Answer(k) \/ Goto(k, s),
           \A r : SameCall(calls[k], r) /\ r.at = s => TokenHolds(r)
    PROVE  Fine(k)
  <1>1. ASSUME Goto(k, s)
        PROVE  \E r : /\ calls' = [calls EXCEPT ![k] = r]
                      /\ SameSubject(calls[k], r) /\ TokenHolds(r)
    <2>1. PICK r : calls' = [calls EXCEPT ![k] = r] /\ SameCall(calls[k], r) /\ r.at = s
      BY <1>1, GotoIs
    <2> QED BY <2>1 DEF SameCall, SameOrder, SameSubject
  <1> QED BY <1>1, IntegrationMoves DEF ghostVars, accountVars

(* Adding and removing the integration of an account keeps one grant for   *)
(* each provider.                                                          *)
LEMMA AccountIntegrationFine ==
    ASSUME Inv, NEW k \in Client, calls[k] # None, calls[k].op \in IntegrationOps,
           AddAccountIntegration(k) \/ RemoveAccountIntegration(k) \/ RemoveIntegration(k),
           UNCHANGED <<remote, accountVars>>
    PROVE  Fine(k)
  <1> DEFINE q == calls[k]
  <1>0. Consistent(db, origin, homes) /\ Shape(q)
    BY Found
  <1>1. /\ q.op \in {"AddAccountIntegration", "RemoveAccountIntegration", "RemoveIntegration"}
        /\ q.at \notin {"account", "user"} /\ UNCHANGED ghostVars /\ Counted
    BY DEF AddAccountIntegration, RemoveAccountIntegration, RemoveIntegration, At,
        IntegrationsUnchanged, Counted, bounds
  <1>2. q.account \in Account /\ q.provider \in Provider
    BY <1>0 DEF Shape
  <1>3. db' = db \/ Kept(db, db', origin, homes)
    <2>1. db' \in {db, IntegrationInserted(db, q.account, q.provider),
                   IntegrationDeleted(db, q.account, q.provider), GrantDeleted(db, q.user, q.provider)}
      BY DEF AddAccountIntegration, RemoveAccountIntegration, RemoveIntegration
    <2>2. Kept(db, IntegrationInserted(db, q.account, q.provider), origin, homes)
      BY <1>0, <1>2, OtherInsertsKeep
    <2>3. Kept(db, IntegrationDeleted(db, q.account, q.provider), origin, homes)
      BY <1>0, BusyDeletesKeep
    <2>4. Kept(db, GrantDeleted(db, q.user, q.provider), origin, homes)
      BY <1>0, OtherDeletesKeep
    <2> QED BY <2>1, <2>2, <2>3, <2>4
  <1>4. Answer(k) \/ Goto(k, "insert") \/ Goto(k, "delete")
    BY DEF AddAccountIntegration, RemoveAccountIntegration, RemoveIntegration
  <1>5. ASSUME NEW s \in {"insert", "delete"}, NEW r, SameCall(q, r), r.at = s PROVE TokenHolds(r)
    BY <1>1, <1>5 DEF TokenHolds, SameCall, SameOrder, Tokening
  <1> QED BY <1>1, <1>3, <1>4, <1>5, IntegrationGoes

(* Granting access saves one grant for the user and the provider.          *)
LEMMA OAuthFine ==
    ASSUME Inv, NEW k \in Client, calls[k] # None, calls[k].op \in IntegrationOps,
           OAuthIntegration(k), UNCHANGED <<remote, accountVars>>
    PROVE  Fine(k)
  <1> DEFINE q == calls[k]
  <1>0. /\ Consistent(db, origin, homes) /\ Shape(q) /\ DOMAIN q = DOMAIN Blank
        /\ DOMAIN calls = Client
    BY Found
  <1>1. /\ q.op = "OAuthIntegration" /\ q.at \in {"find", "none", "exchange", "write"}
        /\ UNCHANGED ghostVars /\ Counted
    BY DEF OAuthIntegration, At, IntegrationsUnchanged, Counted, bounds
  <1>2. AtHome(q, homes) /\ q.account \in Account /\ q.provider \in Provider
    BY <1>1, Found DEF Holds, UserRouted, Shape
  <1>3. CASE /\ At(k, "OAuthIntegration", "find") \/ At(k, "OAuthIntegration", "none")
             /\ Answer(k) \/ Goto(k, "none") \/ Goto(k, "exchange")
             /\ UNCHANGED db
    <2>1. ASSUME NEW s \in {"none", "exchange"}, NEW r, SameCall(q, r), r.at = s PROVE TokenHolds(r)
      BY <1>1, <2>1 DEF TokenHolds, SameCall, SameOrder, Tokening
    <2> QED BY <1>1, <1>3, <2>1, IntegrationGoes
  <1>4. ASSUME NEW g \in Grant, At(k, "OAuthIntegration", "exchange"), UNCHANGED db,
               calls' = [calls EXCEPT ![k].at = "write", ![k].asked = now,
                                  ![k].grant = [account |-> q.account, access |-> Issued(g),
                                                refresh |-> g, expires |-> 0]]
        PROVE  Fine(k)
    <2> DEFINE token == Issued(g)
               grant == [account |-> q.account, access |-> token, refresh |-> g, expires |-> 0]
               r == [q EXCEPT !.at = "write", !.asked = now, !.grant = grant]
    <2>1. token \in Token /\ token.grant = g
      BY NowTyped
    <2>2. calls' = [calls EXCEPT ![k] = r]
      BY <1>0, <1>4
    <2> HIDE DEF token
    <2>3. grant \in WholeGrant /\ grant.account = q.account
      BY <1>2, <2>1 DEF WholeGrant, GrantRow
    <2> HIDE DEF grant
    <2>4. SameSubject(q, r) /\ r.at = "write" /\ r.grant = grant
      BY <1>0 DEF SameSubject, Blank
    <2> HIDE DEF r
    <2>5. TokenHolds(r)
      BY <1>1, <2>3, <2>4 DEF TokenHolds, SameSubject, Tokening
    <2> QED BY <1>1, <1>4, <2>2, <2>4, <2>5, IntegrationMoves DEF ghostVars, accountVars
  <1>5. CASE /\ At(k, "OAuthIntegration", "write") /\ Answer(k)
             /\ db' = IF GrantInsertAccepted(db, q.user, q.provider, q.grant)
                      THEN GrantInserted(db, q.user, q.provider, Renewed(q.grant)) ELSE db
    <2> DEFINE row == Renewed(q.grant)
    <2>1. q.grant \in WholeGrant /\ q.grant.account = q.account
      BY <1>5, Found DEF At, Holds, TokenHolds
    <2>2. row \in GrantRow /\ row.access.grant = row.refresh /\ row.account = q.account
      BY <2>1, NowTyped DEF WholeGrant
    <2>3. db' = db \/ (db' = GrantInserted(db, q.user, q.provider, row) /\ Stored(db.users, q.user))
      BY <1>5 DEF GrantInsertAccepted
    <2> HIDE DEF row
    <2>4. db' = db \/ Kept(db, db', origin, homes)
      BY <1>0, <1>2, <2>2, <2>3, GrantPutKeeps DEF AtHome
    <2> QED BY <1>1, <1>5, <2>4, Found, LastWrite DEF ghostVars, accountVars
  <1> QED BY <1>3, <1>4, <1>5 DEF OAuthIntegration

(* Syncing a calendar inserts a sync of a calendar of the user.            *)
LEMMA SyncCalendarFine ==
    ASSUME Inv, NEW k \in Client, calls[k] # None, calls[k].op \in IntegrationOps,
           GetExternalCalendars(k) \/ AddSyncCalendar(k), UNCHANGED <<remote, accountVars>>
    PROVE  Fine(k)
  <1> DEFINE q == calls[k]
  <1>0. Consistent(db, origin, homes) /\ db \in Database /\ Shape(q)
    BY Found
  <1>1. /\ q.op \in {"GetExternalCalendars", "AddSyncCalendar"}
        /\ q.at \in {"find", "exists", "connected", "insert"} /\ UNCHANGED ghostVars /\ Counted
    BY DEF GetExternalCalendars, AddSyncCalendar, At, IntegrationsUnchanged, Counted, bounds
  <1>2. q.user \in User /\ q.provider \in Provider
    BY <1>1, Found DEF Holds, UserRouted, AtHome, Shape, IntegrationOps
  <1>3. db' = db \/ Kept(db, db', origin, homes)
    <2>1. CASE UNCHANGED db
      BY <2>1
    <2>2. CASE /\ At(k, "AddSyncCalendar", "insert") /\ SyncInsertAccepted(db, SyncOf(q))
               /\ db' = SyncInserted(db, SyncOf(q))
      <3>1. q.calendar \in Calendar /\ q.ext \in ExtCalendar
        BY <1>0, <2>2 DEF SyncInsertAccepted, Stored, Database, SyncOf, Shape, At
      <3>2. SyncOf(q) \in SyncKey
        BY <1>2, <3>1 DEF SyncOf, SyncKey
      <3> QED BY <1>0, <2>2, <3>2, OtherInsertsKeep
    <2> QED BY <2>1, <2>2 DEF GetExternalCalendars, AddSyncCalendar
  <1>4. Answer(k) \/ Goto(k, "exists") \/ Goto(k, "token") \/ Goto(k, "insert")
    BY DEF GetExternalCalendars, AddSyncCalendar
  <1>5. ASSUME NEW s \in {"exists", "token", "insert"}, NEW r, SameCall(q, r), r.at = s
        PROVE  TokenHolds(r)
    BY <1>1, <1>2, <1>5 DEF TokenHolds, SameCall, SameOrder, Tokening
  <1> QED BY <1>1, <1>3, <1>4, <1>5, IntegrationGoes

(* Removing a sync only takes rows away.                                   *)
LEMMA RemoveSyncFine ==
    ASSUME Inv, NEW k \in Client, calls[k] # None, calls[k].op \in IntegrationOps,
           RemoveSyncCalendar(k), UNCHANGED <<remote, accountVars>>
    PROVE  Fine(k)
  <1> DEFINE q == calls[k]
  <1>1. /\ q.op = "RemoveSyncCalendar" /\ q.at \notin {"account", "user"}
        /\ UNCHANGED ghostVars /\ Counted
    BY DEF RemoveSyncCalendar, At, IntegrationsUnchanged, Counted, bounds
  <1>2. db' = db \/ Kept(db, db', origin, homes)
    <2>1. db' = db \/ db' = SyncDeleted(db, q.row)
      BY DEF RemoveSyncCalendar
    <2> QED BY <2>1, Found, OtherDeletesKeep
  <1>3. Answer(k) \/ \E s : Proceed(k, "delete", s)
    BY DEF RemoveSyncCalendar
  <1>4. ASSUME NEW s, Proceed(k, "delete", s)
        PROVE  \E r : /\ calls' = [calls EXCEPT ![k] = r]
                      /\ SameSubject(calls[k], r) /\ TokenHolds(r)
    <2>1. PICK r : calls' = [calls EXCEPT ![k] = r] /\ SameCall(calls[k], r) /\ r.at = "delete"
      BY <1>4, ProceedIs
    <2>2. TokenHolds(r)
      BY <1>1, <2>1 DEF TokenHolds, SameCall, SameOrder, Tokening
    <2> QED BY <2>1, <2>2 DEF SameCall, SameOrder, SameSubject
  <1> QED BY <1>1, <1>2, <1>3, <1>4, IntegrationMoves DEF ghostVars, accountVars

(* A busy calendar of a provider is added to a host whose grant was read.  *)
LEMMA ExtBusyFine ==
    ASSUME Inv, NEW k \in Client, calls[k] # None, calls[k].op \in IntegrationOps,
           AddExtBusyCalendar(k) \/ RemoveExtBusyCalendar(k), UNCHANGED <<remote, accountVars>>
    PROVE  Fine(k)
  <1> DEFINE q == calls[k]
  <1>0. Consistent(db, origin, homes) /\ db \in Database /\ Shape(q)
    BY Found
  <1>1. /\ q.op \in {"AddExtBusyCalendar", "RemoveExtBusyCalendar"}
        /\ q.at \in {"find", "exists", "connected", "insert", "delete"}
        /\ UNCHANGED ghostVars /\ Counted
    BY DEF AddExtBusyCalendar, RemoveExtBusyCalendar, At, IntegrationsUnchanged, Counted, bounds
  <1>2. q.provider \in Provider
    BY <1>0 DEF Shape
  <1>3. db' = db \/ Kept(db, db', origin, homes)
    <2>1. CASE UNCHANGED db
      BY <2>1
    <2>2. CASE /\ At(k, "AddExtBusyCalendar", "insert") /\ ExtBusyInsertAccepted(db, ExtBusyOf(q))
               /\ db' = ExtBusyInserted(db, ExtBusyOf(q))
      <3>1. <<q.service, q.user>> \in Service \X User
        BY <1>0, <2>2 DEF ExtBusyInsertAccepted, ExtBusyOf, Stored, Database
      <3>2. q.ext \in ExtCalendar
        BY <1>0, <2>2 DEF Shape, At
      <3>3. ExtBusyOf(q) \in ExtBusyKey
        BY <1>2, <3>1, <3>2 DEF ExtBusyOf, ExtBusyKey
      <3> QED BY <1>0, <2>2, <3>3, OtherInsertsKeep
    <2>3. CASE db' = ExtBusyDeleted(db, ExtBusyOf(q))
      BY <1>0, <2>3, BusyDeletesKeep
    <2> QED BY <2>1, <2>2, <2>3 DEF AddExtBusyCalendar, RemoveExtBusyCalendar
  <1>4. CASE UserInAccount(db, q.user, q.account) \/ (q.op = "AddExtBusyCalendar" /\ q.at = "exists")
             \/ q.op = "RemoveExtBusyCalendar"
    <2>1. q.user \in User \/ q.op = "RemoveExtBusyCalendar"
      BY <1>0, <1>4, Found DEF UserInAccount, Stored, Database, Holds, TokenHolds
    <2>2. Answer(k) \/ Goto(k, "exists") \/ Goto(k, "token") \/ Goto(k, "insert") \/ Goto(k, "delete")
      BY DEF AddExtBusyCalendar, RemoveExtBusyCalendar
    <2>3. q.op = "RemoveExtBusyCalendar" => Answer(k) \/ Goto(k, "exists") \/ Goto(k, "delete")
      BY DEF AddExtBusyCalendar, RemoveExtBusyCalendar, At
    <2>4. ASSUME NEW s \in {"exists", "token", "insert", "delete"}, NEW r, SameCall(q, r), r.at = s,
                 q.op = "RemoveExtBusyCalendar" => s \in {"exists", "delete"}
          PROVE  TokenHolds(r)
      BY <1>1, <1>2, <2>1, <2>4 DEF TokenHolds, SameCall, SameOrder, Tokening
    <2>5. CASE q.op = "RemoveExtBusyCalendar"
      BY <1>1, <1>3, <2>3, <2>4, <2>5, IntegrationGoes
    <2>6. CASE q.op # "RemoveExtBusyCalendar"
      BY <1>1, <1>3, <2>2, <2>4, <2>6, IntegrationGoes
    <2> QED BY <2>5, <2>6
  <1>5. CASE ~UserInAccount(db, q.user, q.account) /\ q.op = "AddExtBusyCalendar" /\ q.at # "exists"
    <2>1. Answer(k) \/ Goto(k, "insert")
      BY <1>5 DEF AddExtBusyCalendar, RemoveExtBusyCalendar, At
    <2>2. ASSUME NEW r, SameCall(q, r), r.at = "insert" PROVE TokenHolds(r)
      BY <1>1, <2>2 DEF TokenHolds, SameCall, SameOrder, Tokening
    <2> QED BY <1>1, <1>3, <2>1, <2>2, IntegrationGoes
  <1> QED BY <1>1, <1>4, <1>5

(* Every statement on integrations, grants and syncs is Fine.              *)
LEMMA IntegrationsFine ==
    ASSUME Inv, NEW k \in Client, calls[k] # None, IntegrationsNext(k),
           UNCHANGED <<remote, accountVars>>
    PROVE  Fine(k)
  <1> DEFINE q == calls[k]
  <1>0. q.op \in IntegrationOps
    BY DEF IntegrationsNext
  <1>1. ASSUME GetAccessToken(k, Answer(k)) PROVE Fine(k)
    <2>1. /\ q.at \in {"token", "client", "renew", "store"}
          /\ UNCHANGED <<origin, homes, kept>> /\ Counted
          /\ db' = db \/ Kept(db, db', origin, homes)
          /\ Answer(k) \/ \E r : calls' = [calls EXCEPT ![k] = r] /\ Obtains(q, r)
      BY <1>0, <1>1, TokenMoves
    <2>2. ASSUME NEW r, Obtains(q, r) PROVE SameSubject(q, r) /\ TokenHolds(r)
      BY <1>0, <2>1, <2>2, Found DEF Obtains, SameSubject, TokenHolds, Tokening, Holds
    <2> QED BY <1>0, <2>1, <2>2, IntegrationMoves DEF accountVars
  <1> QED BY <1>0, <1>1, AccountIntegrationFine, OAuthFine, SyncCalendarFine, RemoveSyncFine,
             ExtBusyFine DEF IntegrationsNext

----------------------------------------------------------------------------
(* The times of events *)

(* A recurrence ends at an instant, or never.                              *)
LEMMA LastsTyped ==
    ASSUME NEW rule \in Rule \union {None}, NEW length \in Nat
    PROVE  Lasts(rule, length) \in Int \union {None}
  BY DEF Lasts, Rule

(* Completed times are times whose ends follow from the rest.              *)
LEMMA CompletedIs ==
    ASSUME NEW t \in Times
    PROVE  Completed(t) \in Times /\ Derived(Completed(t))
  <1> DEFINE until == Lasts(t.rule, t.length)
             end == t.start + t.length
  <1>0. t.rule \in Rule \union {None} /\ t.start \in Int /\ t.length \in Nat
    BY DEF Times
  <1>1. until \in Int \union {None} /\ end \in Int
    <2>1. until \in Int \union {None}
      BY <1>0, LastsTyped
    <2>2. end \in Int
      BY <1>0
    <2> QED BY <2>1, <2>2
  <1>2. Completed(t) = [t EXCEPT !.end = end, !.until = until]
    BY DEF Completed
  <1>3. /\ [t EXCEPT !.end = end, !.until = until].end = end
        /\ [t EXCEPT !.end = end, !.until = until].until = until
        /\ [t EXCEPT !.end = end, !.until = until].start = t.start
        /\ [t EXCEPT !.end = end, !.until = until].length = t.length
        /\ [t EXCEPT !.end = end, !.until = until].rule = t.rule
    BY DEF Times
  <1>4. Derived(Completed(t))
    BY <1>2, <1>3 DEF Derived
  <1> HIDE DEF until, end
  <1> QED BY <1>1, <1>2, <1>4 DEF Times

(* A patch of times changes what it names; the end and the end of the      *)
(* recurrence wait to be completed.                                        *)
LEMMA RenamedIs ==
    ASSUME NEW t \in Times, NEW p \in TimesPatch
    PROVE  /\ Renamed(t, p) \in Times
           /\ Renamed(t, p).end = t.end /\ Renamed(t, p).until = t.until
           /\ p.start = {} => Renamed(t, p).start = t.start
           /\ p.length = {} => Renamed(t, p).length = t.length
           /\ p.rule = {} => Renamed(t, p).rule = t.rule
  <1> DEFINE start == Named(p.start, t.start)
             length == Named(p.length, t.length)
             busy == Named(p.busy, t.busy)
             status == Named(p.status, t.status)
             rule == Named(p.rule, t.rule)
             exdates == Named(p.exdates, t.exdates)
             series == Named(p.series, t.series)
             original == Named(p.original, t.original)
             r == [t EXCEPT !.start = start, !.length = length, !.busy = busy, !.status = status,
                            !.rule = rule, !.exdates = exdates, !.series = series,
                            !.original = original]
  <1>0. ASSUME NEW S, NEW field \in SUBSET S, NEW stored \in S
        PROVE  Named(field, stored) \in S /\ (field = {} => Named(field, stored) = stored)
    BY <1>0 DEF Named
  <1>1. /\ start \in Int /\ (p.start = {} => start = t.start)
        /\ length \in Nat /\ (p.length = {} => length = t.length)
        /\ rule \in Rule \union {None} /\ (p.rule = {} => rule = t.rule)
    <2> DEFINE S == Rule \union {None}
    <2>1. p.start \in SUBSET Int /\ t.start \in Int
      BY DEF Times, TimesPatch
    <2>2. p.length \in SUBSET Nat /\ t.length \in Nat
      BY DEF Times, TimesPatch
    <2>3. p.rule \in SUBSET S /\ t.rule \in S
      <3>1. /\ TimesPatch = [start : SUBSET Int, length : SUBSET Nat, busy : SUBSET BOOLEAN,
                             status : SUBSET Status, rule : SUBSET S,
                             exdates : SUBSET SUBSET Int, series : SUBSET (Event \union {None}),
                             original : SUBSET (Int \union {None})]
            /\ t.rule \in S
        BY DEF TimesPatch, Times
      <3> HIDE DEF S
      <3> QED BY <3>1
    <2> HIDE DEF S
    <2>4. start \in Int /\ (p.start = {} => start = t.start)
      BY <1>0, <2>1, Zenon
    <2>5. length \in Nat /\ (p.length = {} => length = t.length)
      BY <1>0, <2>2, Zenon
    <2>6. rule \in S /\ (p.rule = {} => rule = t.rule)
      BY <1>0, <2>3, Zenon
    <2> QED BY <2>4, <2>5, <2>6 DEF S
  <1>2. busy \in BOOLEAN /\ status \in Status
    <2>1. p.busy \in SUBSET BOOLEAN /\ t.busy \in BOOLEAN
      BY DEF Times, TimesPatch
    <2>2. p.status \in SUBSET Status /\ t.status \in Status
      BY DEF Times, TimesPatch
    <2>3. busy \in BOOLEAN
      BY <1>0, <2>1, Zenon
    <2>4. status \in Status
      BY <1>0, <2>2, Zenon
    <2> QED BY <2>3, <2>4
  <1>3. /\ exdates \in SUBSET Int /\ series \in Event \union {None}
        /\ original \in Int \union {None}
    <2> DEFINE S == Event \union {None}
               O == Int \union {None}
               E == SUBSET Int
    <2>1. p.exdates \in SUBSET E /\ t.exdates \in E
      BY DEF Times, TimesPatch
    <2>2. p.series \in SUBSET S /\ t.series \in S /\ p.original \in SUBSET O /\ t.original \in O
      <3>1. /\ TimesPatch = [start : SUBSET Int, length : SUBSET Nat, busy : SUBSET BOOLEAN,
                             status : SUBSET Status, rule : SUBSET (Rule \union {None}),
                             exdates : SUBSET SUBSET Int, series : SUBSET S, original : SUBSET O]
            /\ t.series \in S /\ t.original \in O
        BY DEF TimesPatch, Times
      <3> HIDE DEF S, O
      <3> QED BY <3>1
    <2> HIDE DEF S, O, E
    <2>3. exdates \in E
      BY <1>0, <2>1, Zenon
    <2>4. series \in S
      BY <1>0, <2>2, Zenon
    <2>5. original \in O
      BY <1>0, <2>2, Zenon
    <2> QED BY <2>3, <2>4, <2>5 DEF S, O, E
  <1>4. Renamed(t, p) = r
    BY DEF Renamed
  <1> HIDE DEF start, length, busy, status, rule, exdates, series, original
  <1>5. r \in Times
    BY <1>1, <1>2, <1>3 DEF Times
  <1>6. /\ r.end = t.end /\ r.until = t.until /\ r.start = start /\ r.length = length
        /\ r.rule = rule
    BY DEF Times
  <1> QED BY <1>1, <1>4, <1>5, <1>6

(* Whatever an update names, the end and the end of the recurrence that    *)
(* are stored are those that follow from the other columns.                *)
LEMMA RetimedIs ==
    ASSUME NEW t \in Times, Derived(t), NEW p \in TimesPatch
    PROVE  Retimed(t, p) \in Times /\ Derived(Retimed(t, p))
  <1> DEFINE new == Renamed(t, p)
             moved == p.start # {} \/ p.length # {}
             end == IF moved THEN new.start + new.length ELSE new.end
             until == IF moved \/ p.rule # {} THEN Lasts(new.rule, new.length) ELSE new.until
             exdates == IF new.start # t.start THEN {} ELSE new.exdates
             r == [new EXCEPT !.end = end, !.until = until, !.exdates = exdates]
  <1>1. /\ new \in Times /\ new.end = t.end /\ new.until = t.until
        /\ p.start = {} => new.start = t.start
        /\ p.length = {} => new.length = t.length
        /\ p.rule = {} => new.rule = t.rule
    BY RenamedIs
  <1>2. end = new.start + new.length
    BY <1>1 DEF Derived
  <1>3. until = Lasts(new.rule, new.length)
    BY <1>1 DEF Derived
  <1>4. Retimed(t, p) = r
    BY DEF Retimed
  <1> HIDE DEF new, moved
  <1>5. /\ end \in Int /\ until \in Int \union {None} /\ exdates \in SUBSET Int
    BY <1>1, <1>2, <1>3, LastsTyped DEF Times
  <1> HIDE DEF end, until, exdates
  <1>6. r \in Times
    BY <1>1, <1>5 DEF Times
  <1>7. /\ r.start = new.start /\ r.length = new.length /\ r.rule = new.rule
        /\ r.end = end /\ r.until = until
    BY <1>1 DEF Times
  <1>8. Derived(r)
    BY <1>2, <1>3, <1>7 DEF Derived
  <1> QED BY <1>4, <1>6, <1>8

(* A new event is an event of the calendar and of the owner it is created  *)
(* for.                                                                    *)
LEMMA NewEventIs ==
    ASSUME NEW q, Shape(q), q.op \in Creates, q.user \in User, NEW c \in Calendar
    PROVE  LET row == NewEvent(q, c)
           IN  /\ row \in EventRow /\ Derived(row.times) /\ row.user = q.user
               /\ row.account = q.account /\ row.calendar = c
  <1> DEFINE data == [f \in Field |-> q.patch[f]]
             times == Completed(q.times)
  <1>1. data \in Data
    BY DEF Shape, Making, Creates, Data
  <1>2. times \in Times /\ Derived(times)
    BY CompletedIs DEF Shape
  <1>3. NewEvent(q, c) = [calendar |-> c, user |-> q.user, account |-> q.account,
                          service |-> q.service, data |-> data, times |-> times]
    BY DEF NewEvent
  <1> HIDE DEF data, times
  <1> QED BY <1>1, <1>2, <1>3 DEF EventRow, Shape

(* An update keeps the calendar and the owner of the event, and derives    *)
(* its times.                                                              *)
LEMMA UpdatingIs ==
    ASSUME NEW q, Shape(q), q.op = "UpdateEvent", q.row \in EventRow, Derived(q.row.times)
    PROVE  Updating(q) \in EventRow /\ Derived(Updating(q).times)
  <1> DEFINE row == Merged(q.row, q.patch)
             service == IF q.service = None THEN row.service ELSE q.service
             times == IF q.times = None THEN row.times ELSE Retimed(row.times, q.times)
             r == [row EXCEPT !.service = service, !.times = times]
  <1>1. row \in EventRow /\ row.times = q.row.times
    BY MergedTyped DEF Shape
  <1>2. Updating(q) = r
    BY DEF Updating
  <1> HIDE DEF row
  <1>3. row.times \in Times /\ Derived(row.times)
    BY <1>1 DEF EventRow
  <1>4. times \in Times /\ Derived(times)
    BY <1>3, RetimedIs DEF Shape
  <1>5. service \in Service \union {None}
    BY <1>1 DEF Shape, EventRow
  <1> HIDE DEF service, times
  <1>6. r \in EventRow /\ r.times = times
    BY <1>1, <1>4, <1>5 DEF EventRow
  <1> QED BY <1>2, <1>4, <1>6

----------------------------------------------------------------------------
(* EventSync: the copies *)

(* A request is the same but for where it is, and what it has to do yet    *)
SameWork(q, r) ==
    /\ DOMAIN r = DOMAIN q
    /\ r.op = q.op /\ r.server = q.server /\ r.account = q.account /\ r.user = q.user
    /\ r.calendar = q.calendar /\ r.schedule = q.schedule /\ r.service = q.service
    /\ r.event = q.event /\ r.ext = q.ext /\ r.key = q.key /\ r.patch = q.patch
    /\ r.times = q.times /\ r.row = q.row /\ r.queue = q.queue

Syncing == Copied \union {"DeleteManyEvents"}

(* What the fields that do not change are of *)
Follows(q, r) ==
    /\ DOMAIN r = DOMAIN q
    /\ r.op = q.op /\ r.server = q.server /\ r.calendar = q.calendar
    /\ r.schedule = q.schedule /\ r.service = q.service /\ r.ext = q.ext /\ r.key = q.key
    /\ r.patch = q.patch /\ r.times = q.times
    /\ r.account \in Account /\ r.user \in User \union {None} /\ r.event \in Event \union {None}

(* What a request on events must hold is its own part of Holds.            *)
LEMMA EventHoldsOn ==
    ASSUME NEW o, NEW h, NEW rm, NEW q, Holds(q, o, h, rm), q.op \in Syncing,
           NEW rm2, NEW r, Follows(q, r), r.op = "DeleteManyEvents" => r.todo \subseteq Event,
           r.op \in UserRouted => AtHome(r, h), TokenHolds(r), EventHolds(r, o, rm2)
    PROVE  Holds(r, o, h, rm2)
  <1>1. /\ r.op \notin ByKeyOnly /\ r.op \notin AccountOps /\ r.op \notin IntegrationOps
        /\ r.op \notin OwnedOps /\ r.op \notin ServiceOps /\ r.op # "CreateUser"
    BY DEF Follows, Syncing, ByKeyOnly, Copied, Creates, IntegrationOps, OwnedOps, ServiceOps,
        AccountOps
  <1>2. Shape(r)
    BY <1>1 DEF Holds, Shape, Follows
  <1>3. DirectoryHolds(r, o, h)
    BY <1>1 DEF DirectoryHolds, OwnedOps, ServiceOps
  <1>4. AccountHolds(r)
    BY <1>1 DEF AccountHolds, AccountOps
  <1> QED BY <1>2, <1>3, <1>4 DEF Holds

(* A request on events that moves on with what it read is Fine.            *)
LEMMA EventMoves ==
    ASSUME Inv, NEW k \in Client, calls[k] # None, UNCHANGED <<cache, origin, homes>>, Counted,
           kept' \in [Updated -> [Field -> Value \union {None}]],
           db' = db \/ Kept(db, db', origin, homes),
           remote' \in [ExtEvent -> RemoteEvent \union {None}],
           \A x \in ExtEvent : remote[x] # None => remote'[x] # None,
           Answer(k) \/ \E r : calls' = [calls EXCEPT ![k] = r]
                               /\ (r # None => Holds(r, origin, homes, remote'))
    PROVE  Fine(k)
  <1>1. CallFine(k)
    BY Answers, Becomes
  <1>2. TablesFine
    BY TablesKept
  <1>3. GhostsFine
    BY DEF GhostsFine, GhostsTyped, Inv
  <1> QED BY <1>1, <1>2, <1>3, CountedBounded DEF Fine

(* A request that goes on with the copies, or is done with them            *)
LEMMA CopiesHold ==
    ASSUME NEW o, NEW h, NEW rm, NEW q, Holds(q, o, h, rm), q.op \in Copied,
           q.at \in Tokening, NEW rm2,
           \A x \in ExtEvent : rm[x] # None => rm2[x] # None,
           NEW r, SameWork(q, r), r.provider \in Provider, r.todo \subseteq q.todo,
           r.at \in Tokening,
           r.at \in {"client", "renew", "store"} => r.grant \in WholeGrant,
           r.at = "record" => /\ r.sync.s \in SyncKey /\ r.sync.copy \in ExtEvent
                              /\ rm2[r.sync.copy] # None
    PROVE  Holds(r, o, h, rm2)
  <1>1. q.user \in User /\ q.row \in EventRow
    BY DEF Holds, TokenHolds, EventHolds, CopySteps
  <1>2. Follows(q, r)
    BY DEF Holds, Shape, SameWork, Follows
  <1>3. TokenHolds(r)
    BY <1>1 DEF TokenHolds, SameWork, Copied, Creates, Tokening
  <1>4. r.op \in UserRouted => AtHome(r, h)
    <2>1. q.at \notin {"account", "user"}
      BY DEF Tokening
    <2> QED BY <2>1 DEF Holds, SameWork, AtHome
  <1>5. EventHolds(r, o, rm2)
    <2>1. r.at \notin Guards /\ r.at \notin {"find", "write", "guarded", "copies"}
          /\ q.at \notin Guards /\ q.at \notin {"find", "write", "guarded", "copies"}
          /\ q.at \in CopySteps \ {"copies"}
      BY DEF Tokening, Guards, CopySteps
    <2>2. /\ q.op \in Creates => q.event \in Event /\ q.todo \subseteq SyncKey
          /\ q.op \in Copied \ Creates => \A c \in q.todo : c \in CopyKey /\ rm[c.copy] # None
          /\ q.op = "CreateBatchEvents" => q.queue \subseteq [event : Event, row : EventRow]
      BY <2>1 DEF Holds, EventHolds, Guards
    <2>3. \A c \in CopyKey : c.copy \in ExtEvent
      BY DEF CopyKey
    <2>4. r.op = "CreateBatchEvents" => r.queue \subseteq [event : Event, row : EventRow]
      BY <2>2 DEF SameWork
    <2>5. r.op \in Copied \ Creates => \A c \in r.todo : c \in CopyKey /\ rm2[c.copy] # None
      BY <2>2, <2>3 DEF SameWork
    <2>6. r.op \in Creates => r.event \in Event /\ r.todo \subseteq SyncKey
      BY <2>2 DEF SameWork
    <2>7. r.row \in EventRow
      BY <1>1 DEF SameWork
    <2>8. r.op = "CreateBatchEvents" =>
            /\ r.at \notin Guards \ {"user"} /\ r.at \notin {"user", "find", "write"}
            /\ r.queue \subseteq [event : Event, row : EventRow]
      BY <2>1, <2>4 DEF Guards
    <2>9. r.op \in Creates /\ r.at = "record" =>
            r.sync.s \in SyncKey /\ r.sync.copy \in ExtEvent /\ rm2[r.sync.copy] # None
      OBVIOUS
    <2> QED BY <2>1, <2>5, <2>6, <2>7, <2>8, <2>9 DEF EventHolds
  <1>6. r.op # "DeleteManyEvents"
    BY DEF SameWork, Copied, Creates
  <1> QED BY <1>2, <1>3, <1>4, <1>5, <1>6, EventHoldsOn DEF Syncing

(* Done with the copies of an event, or given up *)
LEMMA DoneHolds ==
    ASSUME NEW o, NEW h, NEW rm, NEW q, Holds(q, o, h, rm), q.op \in Syncing,
           q.at \in CopySteps, NEW rm2,
           NEW r, SameWork(q, r), r.todo = {}, r.at = IF q.op = "DeleteEvent" THEN "write" ELSE "next"
    PROVE  Holds(r, o, h, rm2)
  <1>2. Follows(q, r)
    BY DEF Holds, Shape, SameWork, Follows
  <1>3. TokenHolds(r)
    BY DEF TokenHolds, SameWork, Syncing, Copied, Creates, Tokening
  <1>4. r.op \in UserRouted => AtHome(r, h)
    <2>1. q.at \notin {"account", "user"}
      BY DEF Tokening, CopySteps
    <2> QED BY <2>1 DEF Holds, SameWork, AtHome
  <1>5. EventHolds(r, o, rm2)
    <2>1. q.at \notin {"user", "find", "write"} /\ q.at \notin Guards
      BY DEF CopySteps, Tokening, Guards
    <2>2. q.op = "CreateBatchEvents" => q.queue \subseteq [event : Event, row : EventRow]
      BY <2>1 DEF Holds, EventHolds
    <2> QED BY <2>2 DEF EventHolds, SameWork, Guards, CopySteps, Tokening
  <1> QED BY <1>2, <1>3, <1>4, <1>5, EventHoldsOn

(* After its copies a request goes on to its write or to the next          *)
(* statement.                                                              *)
LEMMA AfterCopiesIs ==
    ASSUME NEW b, DOMAIN b = DOMAIN Blank, AfterCopies(b) # None
    PROVE  /\ SameWork(b, AfterCopies(b)) /\ AfterCopies(b).todo = {}
           /\ AfterCopies(b).at = IF b.op = "DeleteEvent" THEN "write" ELSE "next"
  BY DEF AfterCopies, SameWork, Blank

(* What remains of a list of copies is part of the list.                   *)
LEMMA RemainingIs ==
    ASSUME NEW b, DOMAIN b = DOMAIN Blank, b.provider \in Provider, NEW rows, rows # {}
    PROVE  LET r == Remaining(b, rows)
           IN  /\ SameWork(b, r) /\ r.todo = rows /\ r.provider \in Provider
               /\ r.at \in {"connected", "token"}
  <1>1. CASE Provided(rows, b.provider) # {}
    <2>1. Remaining(b, rows) = [b EXCEPT !.at = "connected", !.todo = rows]
      BY <1>1 DEF Remaining
    <2> QED BY <2>1 DEF SameWork, Blank
  <1>2. CASE Provided(rows, b.provider) = {}
    <2> DEFINE p == FirstProvider(rows)
    <2>1. p \in Provider
      BY ProviderAssumption DEF FirstProvider
    <2>2. Remaining(b, rows) = [b EXCEPT !.at = "token", !.todo = rows, !.provider = p]
      BY <1>2 DEF Remaining
    <2> HIDE DEF p
    <2> QED BY <2>1, <2>2 DEF SameWork, Blank
  <1> QED BY <1>1, <1>2

(* With the rows that are left, the request goes on or is done             *)
LEMMA RemainingHolds ==
    ASSUME NEW o, NEW h, NEW rm, NEW q, Holds(q, o, h, rm), q.op \in Copied, q.at \in Tokening,
           NEW rm2, \A x \in ExtEvent : rm[x] # None => rm2[x] # None,
           NEW b, SameWork(q, b), b.provider = q.provider, NEW rows, rows \subseteq q.todo,
           Remaining(b, rows) # None
    PROVE  Holds(Remaining(b, rows), o, h, rm2)
  <1>1. DOMAIN b = DOMAIN Blank /\ b.provider \in Provider /\ b.op = q.op
    BY DEF Holds, Shape, TokenHolds, SameWork
  <1> DEFINE r == Remaining(b, rows)
  <1>2. CASE rows = {}
    <2>1. r = AfterCopies(b)
      BY <1>2 DEF Remaining
    <2>2. /\ SameWork(b, r) /\ r.todo = {}
          /\ r.at = IF b.op = "DeleteEvent" THEN "write" ELSE "next"
      BY <1>1, <2>1, AfterCopiesIs
    <2>3. SameWork(q, r)
      BY <2>2 DEF SameWork
    <2>4. q.op \in Syncing /\ q.at \in CopySteps
      BY DEF Syncing, CopySteps
    <2> HIDE DEF r
    <2>5. Holds(r, o, h, rm2)
      BY <1>1, <2>2, <2>3, <2>4, DoneHolds
    <2> QED BY <2>5 DEF r
  <1>3. CASE rows # {}
    <2>1. /\ SameWork(b, r) /\ r.todo = rows /\ r.provider \in Provider
          /\ r.at \in {"connected", "token"}
      BY <1>1, <1>3, RemainingIs
    <2>2. SameWork(q, r)
      BY <2>1 DEF SameWork
    <2>3. r.at \in Tokening /\ r.at \notin {"client", "renew", "store"} /\ r.at # "record"
      BY <2>1 DEF Tokening
    <2> HIDE DEF r
    <2>4. Holds(r, o, h, rm2)
      BY <2>1, <2>2, <2>3, CopiesHold
    <2> QED BY <2>4 DEF r
  <1> QED BY <1>2, <1>3

(* A request that gives its copies up holds what the next statement asks.  *)
LEMMA GiveUpIs ==
    ASSUME Inv, NEW k \in Client, calls[k] # None, calls[k].op \in Syncing,
           calls[k].at \in CopySteps, GiveUp(k)
    PROVE  \E r : calls' = [calls EXCEPT ![k] = r] /\ (r # None => Holds(r, origin, homes, remote'))
  <1> DEFINE q == calls[k]
             r == AfterCopies(q)
  <1>1. calls' = [calls EXCEPT ![k] = r]
    BY DEF GiveUp
  <1>2. ASSUME r # None PROVE Holds(r, origin, homes, remote')
    <2>1. Holds(q, origin, homes, remote) /\ DOMAIN q = DOMAIN Blank
      BY Found
    <2>2. SameWork(q, r) /\ r.todo = {} /\ r.at = IF q.op = "DeleteEvent" THEN "write" ELSE "next"
      BY <1>2, <2>1, AfterCopiesIs
    <2> HIDE DEF r
    <2> QED BY <2>1, <2>2, DoneHolds
  <1> QED BY <1>1, <1>2

(* Reading the copies of an event is Fine.                                 *)
LEMMA FindCopiesFine ==
    ASSUME Inv, NEW k \in Client, calls[k] # None, UNCHANGED accountVars,
           NEW ops \in SUBSET Copied, NEW rows, FindCopies(k, ops, rows),
           calls[k].op \in Creates => rows \subseteq SyncKey,
           calls[k].op \in Copied \ Creates => \A c \in rows : c \in CopyKey /\ remote[c.copy] # None
    PROVE  Fine(k)
  <1> DEFINE q == calls[k]
  <1>0. /\ Holds(q, origin, homes, remote) /\ DOMAIN q = DOMAIN Blank /\ DOMAIN calls = Client
        /\ kept \in [Updated -> [Field -> Value \union {None}]]
    BY Found
  <1>1. /\ q.op \in Copied /\ q.at = "copies"
        /\ UNCHANGED <<db, remote, cache, origin, homes, kept>> /\ Counted
    BY DEF FindCopies, SyncUnchanged, Counted, ghostVars, accountVars
  <1>2. ASSUME GiveUp(k)
        PROVE  \E r : calls' = [calls EXCEPT ![k] = r] /\ (r # None => Holds(r, origin, homes, remote'))
    BY <1>1, <1>2, GiveUpIs DEF Syncing, CopySteps
  <1>3. ASSUME calls' = [calls EXCEPT ![k].at = "ownerOfCopies", ![k].todo = rows]
        PROVE  \E r : calls' = [calls EXCEPT ![k] = r] /\ (r # None => Holds(r, origin, homes, remote'))
    <2> DEFINE r == [q EXCEPT !.at = "ownerOfCopies", !.todo = rows]
    <2>1. calls' = [calls EXCEPT ![k] = r]
      BY <1>0, <1>3
    <2>2. SameWork(q, r) /\ r.at = "ownerOfCopies" /\ r.todo = rows
      BY <1>0 DEF SameWork, Blank
    <2> HIDE DEF r
    <2>3. Follows(q, r)
      BY <1>0, <2>2 DEF Holds, Shape, SameWork, Follows
    <2>4. TokenHolds(r)
      BY <1>1, <2>2 DEF TokenHolds, SameWork, Copied, Creates, Tokening
    <2>5. r.op \in UserRouted => AtHome(r, homes)
      BY <1>0, <1>1, <2>2 DEF Holds, SameWork, AtHome
    <2>6. r.op # "DeleteManyEvents" /\ q.op \in Syncing
      BY <1>1, <2>2 DEF SameWork, Copied, Creates, Syncing
    <2>7. EventHolds(r, origin, remote)
      <3>1. r.row \in EventRow /\ (r.op \in Creates => r.event \in Event)
        BY <1>0, <1>1, <2>2 DEF Holds, EventHolds, CopySteps, SameWork
      <3>2. r.op = "CreateBatchEvents" => r.queue \subseteq [event : Event, row : EventRow]
        BY <1>0, <1>1, <2>2 DEF Holds, EventHolds, SameWork
      <3>3. r.op = q.op
        BY <2>2 DEF SameWork
      <3> QED BY <1>1, <2>2, <3>1, <3>2, <3>3 DEF EventHolds, Guards
    <2>8. Holds(r, origin, homes, remote)
      BY <1>0, <2>3, <2>4, <2>5, <2>6, <2>7, EventHoldsOn
    <2> QED BY <1>1, <2>1, <2>8
  <1>4. \E r : calls' = [calls EXCEPT ![k] = r] /\ (r # None => Holds(r, origin, homes, remote'))
    BY <1>2, <1>3 DEF FindCopies
  <1> QED BY <1>0, <1>1, <1>4, EventMoves DEF Inv, GhostsTyped

(* Reading the owner of the copies is Fine.                                *)
LEMMA OwnerOfCopiesFine ==
    ASSUME Inv, NEW k \in Client, calls[k] # None, calls[k].op \in Syncing,
           FindCopiesOwner(k), UNCHANGED accountVars
    PROVE  Fine(k)
  <1> DEFINE q == calls[k]
             u == q.row.user
             a == db.users[u].account
             p == FirstProvider(q.todo)
  <1>0. /\ Holds(q, origin, homes, remote) /\ DOMAIN q = DOMAIN Blank /\ DOMAIN calls = Client
        /\ kept \in [Updated -> [Field -> Value \union {None}]]
        /\ Consistent(db, origin, homes) /\ db \in Database
    BY Found
  <1>1. /\ q.at = "ownerOfCopies"
        /\ UNCHANGED <<db, remote, cache, origin, homes, kept>> /\ Counted
    BY DEF FindCopiesOwner, SyncUnchanged, Counted, ghostVars, accountVars
  <1>2. ASSUME GiveUp(k)
        PROVE  \E r : calls' = [calls EXCEPT ![k] = r] /\ (r # None => Holds(r, origin, homes, remote'))
    BY <1>1, <1>2, GiveUpIs DEF CopySteps
  <1>3. ASSUME Stored(db.users, u),
               calls' = [calls EXCEPT ![k].at = "token", ![k].user = u, ![k].account = a,
                                      ![k].provider = p]
        PROVE  \E r : calls' = [calls EXCEPT ![k] = r] /\ (r # None => Holds(r, origin, homes, remote'))
    <2> DEFINE r == [q EXCEPT !.at = "token", !.user = u, !.account = a, !.provider = p]
    <2>1. calls' = [calls EXCEPT ![k] = r]
      BY <1>0, <1>3
    <2>2. u \in User /\ a \in Account /\ a \in homes[u]
      BY <1>0, <1>3 DEF Stored, IdsOf, Database, UserRow, Consistent, UsersAtHome
    <2>3. p \in Provider
      BY ProviderAssumption DEF FirstProvider
    <2> HIDE DEF u, a, p
    <2>4. /\ r.at = "token" /\ r.user = u /\ r.account = a /\ r.provider = p
          /\ r.op = q.op /\ r.row = q.row /\ r.todo = q.todo /\ r.queue = q.queue
          /\ r.event = q.event
      BY <1>0 DEF Blank
    <2>5. Follows(q, r)
      BY <1>0, <2>2 DEF Holds, Shape, Follows, Blank
    <2> HIDE DEF r
    <2>6. TokenHolds(r)
      <3>1. r.op # "OAuthIntegration" /\ r.op # "AddExtBusyCalendar"
        BY <2>4 DEF Syncing, Copied, Creates
      <3> QED BY <2>2, <2>3, <2>4, <3>1 DEF TokenHolds
    <2>7. AtHome(r, homes)
      BY <2>2, <2>4 DEF AtHome
    <2>8. r.op = "DeleteManyEvents" => r.todo \subseteq Event
      BY <1>0, <2>4 DEF Holds, Shape
    <2>9. EventHolds(r, origin, remote)
      <3>1. r.op \in Copied => r.row \in EventRow
        BY <1>0, <1>1, <2>4 DEF Holds, EventHolds, CopySteps
      <3>2. r.op = "CreateBatchEvents" => r.queue \subseteq [event : Event, row : EventRow]
        BY <1>0, <1>1, <2>4 DEF Holds, EventHolds
      <3>3. r.op \in Creates => r.event \in Event /\ r.todo \subseteq SyncKey
        BY <1>0, <1>1, <2>4 DEF Holds, EventHolds, CopySteps
      <3>4. r.op \in Copied \ Creates => \A c \in r.todo : c \in CopyKey /\ remote[c.copy] # None
        BY <1>0, <1>1, <2>4 DEF Holds, EventHolds, CopySteps
      <3> QED BY <2>4, <3>1, <3>2, <3>3, <3>4 DEF EventHolds, Guards
    <2>10. Holds(r, origin, homes, remote)
      BY <1>0, <2>5, <2>6, <2>7, <2>8, <2>9, EventHoldsOn
    <2> QED BY <1>1, <2>1, <2>10
  <1>4. \E r : calls' = [calls EXCEPT ![k] = r] /\ (r # None => Holds(r, origin, homes, remote'))
    BY <1>2, <1>3 DEF FindCopiesOwner
  <1> QED BY <1>0, <1>1, <1>4, EventMoves DEF Inv, GhostsTyped

(* Asking for the token a copy needs is Fine.                              *)
LEMMA CopyTokenFine ==
    ASSUME Inv, NEW k \in Client, calls[k] # None, calls[k].op \in Copied,
           GetAccessToken(k, GiveUp(k)), UNCHANGED <<remote, accountVars>>
    PROVE  Fine(k)
  <1> DEFINE q == calls[k]
  <1>0. /\ Holds(q, origin, homes, remote)
        /\ kept \in [Updated -> [Field -> Value \union {None}]]
    BY Found
  <1>1. /\ q.at \in {"token", "client", "renew", "store"}
        /\ UNCHANGED <<origin, homes, kept>> /\ Counted
        /\ db' = db \/ Kept(db, db', origin, homes)
        /\ GiveUp(k) \/ \E r : calls' = [calls EXCEPT ![k] = r] /\ Obtains(q, r)
    BY TokenMoves
  <1>2. q.at \in Tokening /\ q.at \in CopySteps /\ q.op \in Syncing
    BY <1>1 DEF Tokening, CopySteps, Syncing
  <1>3. ASSUME NEW r, Obtains(q, r) PROVE Holds(r, origin, homes, remote)
    <2>1. SameWork(q, r) /\ r.provider = q.provider /\ r.todo = q.todo
      BY <1>3 DEF Obtains, SameSubject, SameWork
    <2>2. r.at \in Tokening /\ r.at # "record" /\ (r.at \in {"client", "renew", "store"} => r.grant \in WholeGrant)
      BY <1>3 DEF Obtains, Tokening
    <2>3. r.provider \in Provider
      BY <1>0, <1>2, <2>1 DEF Holds, TokenHolds
    <2> QED BY <1>0, <1>2, <2>1, <2>2, <2>3, CopiesHold
  <1>4. \E r : calls' = [calls EXCEPT ![k] = r] /\ (r # None => Holds(r, origin, homes, remote'))
    BY <1>1, <1>2, <1>3, GiveUpIs
  <1> QED BY <1>0, <1>1, <1>4, EventMoves DEF Inv, GhostsTyped, accountVars

(* Changing or removing the copy at the provider is Fine.                  *)
LEMMA ChangesFine ==
    ASSUME Inv, NEW k \in Client, calls[k] # None, calls[k].op \in Copied,
           ChangeCopy(k) \/ RemoveCopy(k), UNCHANGED accountVars
    PROVE  Fine(k)
  <1> DEFINE q == calls[k]
  <1>0. /\ Holds(q, origin, homes, remote)
        /\ kept \in [Updated -> [Field -> Value \union {None}]]
        /\ remote \in [ExtEvent -> RemoteEvent \union {None}]
    BY Found DEF Inv, GhostsTyped
  <1>1. /\ q.at = "connected" /\ q.op \in {"UpdateEvent", "DeleteEvent"}
        /\ UNCHANGED <<db, cache, origin, homes, kept>> /\ Counted
    BY DEF ChangeCopy, RemoveCopy, Copying, SyncUnchanged, Counted, ghostVars, accountVars
  <1>2. PICK r \in Provided(q.todo, q.provider) :
            /\ calls' = [calls EXCEPT ![k] = Remaining(q, q.todo \ {r})]
            /\ \/ remote' = [remote EXCEPT ![r.copy] = Changed(@, q.row)]
               \/ remote' = [remote EXCEPT ![r.copy].there = FALSE]
               \/ UNCHANGED remote
    BY DEF ChangeCopy, RemoveCopy
  <1>3. r.copy \in ExtEvent /\ remote[r.copy] \in RemoteEvent /\ q.row \in EventRow
    <2>1. r \in CopyKey /\ remote[r.copy] # None /\ q.row \in EventRow
      BY <1>0, <1>1 DEF Holds, EventHolds, Provided, CopySteps, Tokening, Creates, Copied
    <2> QED BY <1>0, <2>1 DEF CopyKey
  <1>4. /\ remote' \in [ExtEvent -> RemoteEvent \union {None}]
        /\ \A x \in ExtEvent : remote[x] # None => remote'[x] # None
    <2> DEFINE old == remote[r.copy]
    <2>1. /\ Changed(old, q.row) \in RemoteEvent /\ Changed(old, q.row) # None
          /\ [old EXCEPT !.there = FALSE] \in RemoteEvent /\ [old EXCEPT !.there = FALSE] # None
      <3>1. old \in RemoteEvent /\ q.row.data \in Data
        BY <1>3 DEF EventRow
      <3>2. \A x \in RemoteEvent : x # None
        BY NoneIsNoCopy
      <3> HIDE DEF old
      <3>3. Changed(old, q.row) \in RemoteEvent /\ [old EXCEPT !.there = FALSE] \in RemoteEvent
        BY <3>1 DEF Changed, RemoteEvent
      <3> QED BY <3>2, <3>3
    <2>2. CASE remote' = [remote EXCEPT ![r.copy] = Changed(@, q.row)]
      BY <1>0, <1>3, <2>1, <2>2
    <2>3. CASE remote' = [remote EXCEPT ![r.copy].there = FALSE]
      BY <1>0, <1>3, <2>1, <2>3
    <2> QED BY <1>0, <1>2, <2>2, <2>3
  <1>5. ASSUME Remaining(q, q.todo \ {r}) # None
        PROVE  Holds(Remaining(q, q.todo \ {r}), origin, homes, remote')
    <2>1. SameWork(q, q) /\ q.at \in Tokening
      BY <1>1 DEF SameWork, Tokening
    <2> DEFINE rows == q.todo \ {r}
    <2>2. rows \subseteq q.todo
      OBVIOUS
    <2> HIDE DEF rows
    <2>3. Remaining(q, rows) # None => Holds(Remaining(q, rows), origin, homes, remote')
      BY <1>0, <1>4, <2>1, <2>2, RemainingHolds
    <2> QED BY <1>5, <2>3 DEF rows
  <1>6. \E x : calls' = [calls EXCEPT ![k] = x] /\ (x # None => Holds(x, origin, homes, remote'))
    BY <1>2, <1>5
  <1> QED BY <1>0, <1>1, <1>4, <1>6, EventMoves

(* Creating a copy at the provider is Fine: the copy is that of the event. *)
LEMMA CreateCopyFine ==
    ASSUME Inv, NEW k \in Client, calls[k] # None, calls[k].op \in Copied,
           CreateCopy(k), UNCHANGED accountVars
    PROVE  Fine(k)
  <1> DEFINE q == calls[k]
  <1>0. /\ Holds(q, origin, homes, remote) /\ DOMAIN q = DOMAIN Blank /\ DOMAIN calls = Client
        /\ kept \in [Updated -> [Field -> Value \union {None}]]
        /\ remote \in [ExtEvent -> RemoteEvent \union {None}]
    BY Found DEF Inv, GhostsTyped
  <1>1. /\ q.at = "connected" /\ q.op \in Creates
        /\ UNCHANGED <<db, cache, origin, homes, kept>> /\ Counted
    BY DEF CreateCopy, Copying, SyncUnchanged, Counted, ghostVars, accountVars
  <1>2. q.event \in Event /\ q.row \in EventRow /\ q.todo \subseteq SyncKey /\ q.provider \in Provider
    BY <1>0, <1>1 DEF Holds, EventHolds, TokenHolds, CopySteps, Tokening, Creates, Copied
  <1>3. SameWork(q, q) /\ q.at \in Tokening
    BY <1>1 DEF SameWork, Tokening
  <1>4. ASSUME NEW s \in Provided(q.todo, q.provider), NEW x \in ExtEvent, remote[x] = None,
               remote' = [remote EXCEPT ![x] = [event |-> q.event, calendar |-> q.row.calendar,
                                                data |-> q.row.data, there |-> TRUE]],
               calls' = [calls EXCEPT ![k].at = "record", ![k].sync = [s |-> s, copy |-> x]]
        PROVE  Fine(k)
    <2> DEFINE new == [event |-> q.event, calendar |-> q.row.calendar,
                       data |-> q.row.data, there |-> TRUE]
               sync == [s |-> s, copy |-> x]
               r == [q EXCEPT !.at = "record", !.sync = sync]
    <2>1. new \in RemoteEvent /\ new # None
      <3>1. new \in RemoteEvent
        BY <1>2 DEF RemoteEvent, EventRow
      <3> HIDE DEF new
      <3> QED BY <3>1, NoneIsNoCopy
    <2>2. calls' = [calls EXCEPT ![k] = r]
      BY <1>0, <1>4
    <2>3. s \in SyncKey
      BY <1>2 DEF Provided
    <2>4. /\ SameWork(q, r) /\ r.provider = q.provider /\ r.todo = q.todo /\ r.at = "record"
          /\ r.sync.s = s /\ r.sync.copy = x
      BY <1>0 DEF SameWork, Blank
    <2> HIDE DEF new, r
    <2>5. /\ remote' \in [ExtEvent -> RemoteEvent \union {None}]
          /\ \A y \in ExtEvent : remote[y] # None => remote'[y] # None
          /\ remote'[x] # None
      BY <1>0, <1>4, <2>1 DEF new
    <2>6. Holds(r, origin, homes, remote')
      BY <1>0, <1>2, <1>3, <2>3, <2>4, <2>5, CopiesHold DEF Tokening
    <2> QED BY <1>0, <1>1, <2>2, <2>5, <2>6, EventMoves
  <1>5. ASSUME NEW s \in Provided(q.todo, q.provider), UNCHANGED remote,
               calls' = [calls EXCEPT ![k] = Remaining(q, q.todo \ {s})]
        PROVE  Fine(k)
    <2> DEFINE rows == q.todo \ {s}
               r == Remaining(q, rows)
    <2>1. rows \subseteq q.todo
      OBVIOUS
    <2> HIDE DEF rows
    <2>2. r # None => Holds(r, origin, homes, remote')
      BY <1>0, <1>3, <1>5, <2>1, RemainingHolds
    <2>3. calls' = [calls EXCEPT ![k] = r]
      BY <1>5 DEF rows
    <2> HIDE DEF r
    <2> QED BY <1>0, <1>1, <1>5, <2>2, <2>3, EventMoves
  <1> QED BY <1>4, <1>5 DEF CreateCopy

(* Recording a copy adds a row for an event that is stored.                *)
LEMMA RecordCopyFine ==
    ASSUME Inv, NEW k \in Client, calls[k] # None, calls[k].op \in Copied,
           RecordCopy(k), UNCHANGED accountVars
    PROVE  Fine(k)
  <1> DEFINE q == calls[k]
             row == [event |-> q.event, calendar |-> q.row.calendar, provider |-> q.sync.s.provider,
                     ext |-> q.sync.s.ext, copy |-> q.sync.copy]
             b == [q EXCEPT !.sync = None]
             rows == q.todo \ {q.sync.s}
             r == Remaining(b, rows)
  <1>0. /\ Holds(q, origin, homes, remote) /\ DOMAIN q = DOMAIN Blank /\ DOMAIN calls = Client
        /\ Consistent(db, origin, homes)
    BY Found
  <1>1. /\ q.at = "record" /\ q.op \in Creates
        /\ UNCHANGED <<remote, cache, origin, homes, kept>> /\ Counted
    BY DEF RecordCopy, SyncUnchanged, Counted, ghostVars, accountVars
  <1>2. /\ q.event \in Event /\ q.row \in EventRow
        /\ q.sync.s \in SyncKey /\ q.sync.copy \in ExtEvent /\ remote[q.sync.copy] # None
    BY <1>0, <1>1 DEF Holds, EventHolds, CopySteps, Tokening, Creates, Copied
  <1>3. CallFine(k)
    <2>1. calls' = [calls EXCEPT ![k] = r]
      BY DEF RecordCopy
    <2>2. SameWork(q, b) /\ b.provider = q.provider /\ q.at \in Tokening
      BY <1>0, <1>1 DEF SameWork, Tokening, Blank
    <2>3. rows \subseteq q.todo
      OBVIOUS
    <2> HIDE DEF b, rows
    <2>4. r # None => Holds(r, origin, homes, remote)
      BY <1>0, <2>2, <2>3, RemainingHolds
    <2> HIDE DEF r
    <2> QED BY <1>1, <2>1, <2>4, Becomes
  <1>4. TablesFine
    <2>1. CASE UNCHANGED db
      BY <1>1, <2>1, TablesKept
    <2>2. CASE db' = CopyInserted(db, row)
      <3>1. row \in CopyKey /\ row.copy = q.sync.copy
        BY <1>2 DEF CopyKey, SyncKey, EventRow
      <3> HIDE DEF row
      <3>2. Consistent(db', origin, homes) /\ NoneBut({}, db, db') /\ db'.copies = db.copies \union {row}
        BY <1>0, <2>2, <3>1, OtherInsertsKeep
      <3>3. \A c \in db'.copies : remote[c.copy] # None
        BY <1>2, <3>1, <3>2 DEF Inv
      <3> QED BY <1>1, <3>2, <3>3 DEF TablesFine, NoneBut
    <2> QED BY <2>1, <2>2 DEF RecordCopy
  <1>5. GhostsFine
    BY <1>1, GhostsStay DEF Inv, GhostsTyped
  <1> QED BY <1>1, <1>3, <1>4, <1>5, CountedBounded DEF Fine

----------------------------------------------------------------------------
(* EventSync: the use cases *)

(* Deleting an event takes its copies and leaves the tables consistent.    *)
LEMMA EventGoes ==
    ASSUME NEW o, NEW h, NEW rm, NEW q, Holds(q, o, h, rm), q.op \in Syncing,
           q.at \notin {"account", "user"},
           NEW r, Follows(q, r), r.account = q.account, r.user = q.user, r.at \notin Tokening,
           r.op = "DeleteManyEvents" => r.todo \subseteq Event, EventHolds(r, o, rm)
    PROVE  Holds(r, o, h, rm)
  <1>1. r.op = q.op
    BY DEF Follows
  <1>2. TokenHolds(r)
    BY <1>1 DEF TokenHolds, Tokening, Syncing, Copied, Creates
  <1>3. r.op \in UserRouted => AtHome(r, h)
    BY <1>1 DEF Holds, AtHome
  <1> QED BY <1>2, <1>3, EventHoldsOn

(* A statement of a use case that reads, saves or deletes                  *)
LEMMA EventUseMoves ==
    ASSUME Inv, NEW k \in Client, calls[k] # None, calls[k].op \in Syncing,
           calls[k].at \notin {"account", "user"},
           NEW op, NEW step, EventUseCase(k, op, step), UNCHANGED accountVars, UNCHANGED origin,
           kept' \in [Updated -> [Field -> Value \union {None}]],
           db' = db \/ Kept(db, db', origin, homes),
           Answer(k) \/ \E r : /\ calls' = [calls EXCEPT ![k] = r]
                               /\ r # None => /\ Follows(calls[k], r) /\ r.at \notin Tokening
                                              /\ r.account = calls[k].account
                                              /\ r.user = calls[k].user
                                              /\ r.op = "DeleteManyEvents" => r.todo \subseteq Event
                                              /\ EventHolds(r, origin, remote)
    PROVE  Fine(k)
  <1>1. /\ UNCHANGED <<remote, cache, origin, homes>> /\ Counted
        /\ Holds(calls[k], origin, homes, remote)
        /\ remote \in [ExtEvent -> RemoteEvent \union {None}]
    BY Found DEF EventUseCase, accountVars, Counted, bounds, Inv, GhostsTyped
  <1>2. ASSUME NEW r, Follows(calls[k], r), r.at \notin Tokening,
               r.account = calls[k].account, r.user = calls[k].user,
               r.op = "DeleteManyEvents" => r.todo \subseteq Event, EventHolds(r, origin, remote)
        PROVE  Holds(r, origin, homes, remote)
    BY <1>1, <1>2, EventGoes
  <1>3. Answer(k) \/ \E r : /\ calls' = [calls EXCEPT ![k] = r]
                            /\ r # None => Holds(r, origin, homes, remote')
    BY <1>1, <1>2
  <1> QED BY <1>1, <1>3, EventMoves

(* Another place or another row leaves what the client named alone         *)
LEMMA SameFollows ==
    ASSUME NEW q, Shape(q), NEW r, SameCall(q, r)
    PROVE  Follows(q, r) /\ r.account = q.account /\ r.user = q.user
  BY DEF Shape, SameCall, SameOrder, Follows

(* Every statement of creating an event is Fine.                           *)
LEMMA CreateEventFine ==
    ASSUME Inv, NEW k \in Client, calls[k] # None, CreateEvent(k), UNCHANGED accountVars
    PROVE  Fine(k)
  <1> DEFINE q == calls[k]
  <1>0. /\ Consistent(db, origin, homes) /\ Holds(q, origin, homes, remote) /\ Shape(q)
        /\ db \in Database /\ kept \in [Updated -> [Field -> Value \union {None}]]
        /\ DOMAIN calls = Client /\ DOMAIN q = DOMAIN Blank
        /\ origin \in [Owned -> User \union Account \union {None}]
    BY Found
  <1>1. ASSUME EventUseCase(k, "CreateEvent", "find"), UNCHANGED <<db, origin, kept>>,
               IF CalendarOfUser(db, q.calendar, q.user) THEN Goto(k, "write") ELSE Answer(k)
        PROVE  Fine(k)
    <2>1. q.op = "CreateEvent" /\ q.at = "find" /\ q.op \in Syncing
      BY <1>1 DEF EventUseCase, At, Syncing, Copied, Creates
    <2>2. ASSUME Goto(k, "write"), CalendarOfUser(db, q.calendar, q.user)
          PROVE  \E r : /\ calls' = [calls EXCEPT ![k] = r]
                        /\ Follows(q, r) /\ r.at \notin Tokening
                        /\ r.account = q.account /\ r.user = q.user
                        /\ r.op # "DeleteManyEvents" /\ EventHolds(r, origin, remote)
      <3>1. PICK r : calls' = [calls EXCEPT ![k] = r] /\ SameCall(q, r) /\ r.at = "write"
        BY <2>2, GotoIs
      <3>2. q.calendar \in Calendar /\ origin[q.calendar] = q.user
        BY <1>0, <2>2 DEF CalendarOfUser, Stored, IdsOf, Database, Consistent, CalendarsOwned
      <3>3. r.op = "CreateEvent" /\ r.calendar = q.calendar /\ r.user = q.user
        BY <2>1, <3>1 DEF SameCall, SameOrder
      <3>4. EventHolds(r, origin, remote)
        BY <3>1, <3>2, <3>3 DEF EventHolds, CopySteps, Tokening, Creates
      <3>5. r.at \notin Tokening
        BY <3>1 DEF Tokening
      <3> QED BY <1>0, <3>1, <3>3, <3>4, <3>5, SameFollows
    <2> QED BY <1>0, <1>1, <2>1, <2>2, EventUseMoves
  <1>2. ASSUME NEW e \in FreshEvents, EventUseCase(k, "CreateEvent", "write"), UNCHANGED kept,
               IF EventInsertAccepted(db, NewEvent(q, q.calendar))
               THEN /\ db' = EventInserted(db, e, NewEvent(q, q.calendar))
                    /\ origin' = [origin EXCEPT ![e] = q.user]
                    /\ Notify(k, [q EXCEPT !.at = "copies", !.event = e,
                                           !.row = NewEvent(q, q.calendar)])
               ELSE Answer(k) /\ UNCHANGED <<db, origin>>
        PROVE  Fine(k)
    <2> DEFINE row == NewEvent(q, q.calendar)
    <2>1. /\ q.op = "CreateEvent" /\ q.at = "write" /\ q.op \in Syncing /\ q.op \in Creates
          /\ UNCHANGED <<remote, cache, homes>> /\ Counted
      BY <1>2 DEF EventUseCase, At, Syncing, Copied, Creates, accountVars, bounds, Counted
    <2>2. /\ q.calendar \in Calendar /\ origin[q.calendar] = q.user
          /\ q.user \in User /\ q.account \in homes[q.user]
      BY <1>0, <2>1 DEF Holds, EventHolds, UserRouted, AtHome
    <2>3. /\ row \in EventRow /\ Derived(row.times) /\ row.user = q.user
          /\ row.account = q.account /\ row.calendar = q.calendar
      BY <1>0, <2>1, <2>2, NewEventIs
    <2>4. e \in Fresh /\ e \in Event /\ e # q.calendar
      BY <2>2, NoneIsNoId DEF FreshEvents, Fresh, Owned
    <2> DEFINE next == [q EXCEPT !.at = "copies", !.event = e, !.row = row]
    <2>5. IF EventInsertAccepted(db, row)
          THEN /\ db' = EventInserted(db, e, row)
               /\ origin' = [origin EXCEPT ![e] = q.user]
               /\ Notify(k, next)
          ELSE Answer(k) /\ UNCHANGED <<db, origin>>
      BY <1>2
    <2> HIDE DEF row
    <2>6. CASE ~EventInsertAccepted(db, row)
      BY <1>0, <1>2, <2>1, <2>5, <2>6, LastWrite
    <2>7. CASE EventInsertAccepted(db, row)
      <3>1. /\ origin' \in [Owned -> User \union Account \union {None}]
            /\ \A y \in Owned \ Fresh : origin'[y] = origin[y]
            /\ origin'[e] = q.user /\ Consistent(db, origin', homes)
        BY <2>2, <2>4, <2>5, <2>7, OriginGrows
      <3>2. origin'[q.calendar] = q.user
        <4>1. q.calendar \in Owned \ Fresh
          BY <2>2, NoneIsNoId DEF Fresh, Owned
        <4> QED BY <2>2, <3>1, <4>1
      <3>3. ASSUME NEW o, Consistent(db, o, homes), o[e] = q.user, o[q.calendar] = q.user
            PROVE  LET r == EventInserted(db, e, row)
                   IN  Consistent(r, o, homes) /\ r.copies = db.copies /\ NoneBut({e}, db, r)
        <4>1. Insertable(db, e, row, o, homes)
          BY <2>2, <2>3, <2>4, <2>7, <3>3 DEF Insertable
        <4> QED BY <3>3, <4>1, EventInsertedKeeps
      <3>4. Consistent(db', origin', homes) /\ db'.copies = db.copies /\ NoneBut({e}, db, db')
        BY <2>5, <2>7, <3>1, <3>2, <3>3
      <3>5. Holds(next, origin', homes', remote')
        <4>1. Holds(q, origin', homes', remote')
          BY <1>0, <2>1, <3>1, HoldsOn DEF Fresh
        <4>2. /\ SameOrder(q, [next EXCEPT !.event = q.event]) /\ next.event = e /\ next.row = row
              /\ next.at = "copies" /\ next.user = q.user /\ DOMAIN next = DOMAIN q
              /\ Follows(q, next) /\ next.account = q.account /\ next.op = q.op
          BY <1>0, <2>4 DEF SameOrder, Blank, Follows, Shape
        <4> HIDE DEF next
        <4>3. EventHolds(next, origin', remote')
          BY <2>1, <2>3, <2>4, <4>2 DEF EventHolds, Copied, Creates
        <4>4. next.at \notin Tokening /\ next.op # "DeleteManyEvents"
          BY <2>1, <4>2 DEF Tokening
        <4> QED BY <2>1, <4>1, <4>2, <4>3, <4>4, EventGoes
      <3> HIDE DEF next
      <3>6. CallFine(k)
        BY <2>5, <2>7, <3>5, Becomes DEF Notify
      <3>7. {e} \subseteq Fresh
        BY <2>4
      <3> QED BY <1>0, <1>2, <2>1, <3>1, <3>4, <3>6, <3>7, FirstWrite
    <2> QED BY <2>6, <2>7
  <1> QED BY <1>1, <1>2 DEF CreateEvent

(* The ids of the events of a batch are given all at once                  *)
LEMMA OriginsGrow ==
    ASSUME Inv, NEW new \in SUBSET Fresh, NEW v \in User,
           origin' = [x \in Owned |-> IF x \in new THEN v ELSE origin[x]]
    PROVE  /\ origin' \in [Owned -> User \union Account \union {None}]
           /\ \A y \in Owned \ Fresh : origin'[y] = origin[y]
           /\ \A x \in new : origin'[x] = v
           /\ Consistent(db, origin', homes)
  <1>1. /\ origin \in [Owned -> User \union Account \union {None}] /\ new \subseteq Owned
        /\ Consistent(db, origin, homes)
    BY DEF Inv, GhostsTyped, Fresh
  <1>2. /\ origin' \in [Owned -> User \union Account \union {None}]
        /\ \A y \in Owned \ Fresh : origin'[y] = origin[y]
        /\ \A x \in new : origin'[x] = v
    BY <1>1 DEF Fresh
  <1>3. \A y \in Calendar \union Schedule \union Service \union Event :
            origin[y] # None => origin'[y] = origin[y]
    BY <1>2 DEF Fresh, Owned
  <1>4. Consistent(db, origin', homes)
    BY <1>1, <1>3, MoreKnown
  <1> QED BY <1>2, <1>4

(* The batch inserts events with new ids in the calendars that were read.  *)
LEMMA BatchWriteFine ==
    ASSUME Inv, NEW k \in Client, calls[k] # None, UNCHANGED <<accountVars, kept>>,
           EventUseCase(k, "CreateBatchEvents", "write"),
           NEW id \in [calls[k].queue -> FreshEvents], NEW new,
           new = {[event |-> id[c], row |-> NewEvent(calls[k], c)] : c \in calls[k].queue},
           IF \A n \in new : EventInsertAccepted(db, n.row)
           THEN /\ db' = EventsInserted(db, new)
                /\ origin' = [x \in Owned |->
                        IF \E n \in new : n.event = x THEN calls[k].user ELSE origin[x]]
                /\ Notify(k, [calls[k] EXCEPT !.at = "next", !.queue = new])
           ELSE Answer(k) /\ UNCHANGED <<db, origin>>
    PROVE  Fine(k)
  <1> DEFINE q == calls[k]
             ids == {n.event : n \in new}
             next == [q EXCEPT !.at = "next", !.queue = new]
  <1>0. /\ Consistent(db, origin, homes) /\ Holds(q, origin, homes, remote) /\ Shape(q)
        /\ db \in Database /\ kept \in [Updated -> [Field -> Value \union {None}]]
        /\ DOMAIN calls = Client /\ DOMAIN q = DOMAIN Blank
        /\ origin \in [Owned -> User \union Account \union {None}]
    BY Found
  <1>1. /\ q.op = "CreateBatchEvents" /\ q.at = "write" /\ q.op \in Syncing /\ q.op \in Creates
        /\ UNCHANGED <<remote, cache, homes>> /\ Counted
    BY DEF EventUseCase, At, Syncing, Copied, Creates, accountVars, bounds, Counted
  <1>2. /\ \A c \in q.queue : c \in Calendar /\ origin[c] = q.user
        /\ q.user \in User /\ q.account \in homes[q.user]
    BY <1>0, <1>1 DEF Holds, EventHolds, UserRouted, AtHome, Guards
  <1>3. \A n \in new : /\ n.event \in Fresh /\ n.event \in Event
                       /\ n.row \in EventRow /\ Derived(n.row.times) /\ n.row.user = q.user
                       /\ n.row.account = q.account /\ n.row.calendar \in q.queue
                       /\ n \in [event : Event, row : EventRow]
    <2>1. ASSUME NEW c \in q.queue
          PROVE  LET row == NewEvent(q, c)
                 IN  /\ row \in EventRow /\ Derived(row.times) /\ row.user = q.user
                     /\ row.account = q.account /\ row.calendar = c
      BY <1>0, <1>1, <1>2, NewEventIs
    <2>2. \A c \in q.queue : id[c] \in Event /\ id[c] \in Fresh
      BY DEF FreshEvents, Fresh, Owned
    <2> QED BY <2>1, <2>2
  <1>4. ids \in SUBSET Fresh
    BY <1>3
  <1>5. CASE ~\A n \in new : EventInsertAccepted(db, n.row)
    BY <1>0, <1>1, <1>5, LastWrite
  <1>6. CASE \A n \in new : EventInsertAccepted(db, n.row)
    <2>1. /\ db' = EventsInserted(db, new) /\ Notify(k, next)
          /\ origin' = [x \in Owned |-> IF x \in ids THEN q.user ELSE origin[x]]
      BY <1>6
    <2> HIDE DEF ids
    <2>2. /\ origin' \in [Owned -> User \union Account \union {None}]
          /\ \A y \in Owned \ Fresh : origin'[y] = origin[y]
          /\ \A x \in ids : origin'[x] = q.user
          /\ Consistent(db, origin', homes)
      BY <1>2, <1>4, <2>1, OriginsGrow
    <2>3. \A c \in q.queue : origin'[c] = q.user
      <3>1. \A c \in q.queue : c \in Owned \ Fresh
        BY <1>2, NoneIsNoId DEF Fresh, Owned
      <3> QED BY <1>2, <2>2, <3>1
    <2>4. ASSUME NEW o, Consistent(db, o, homes), \A x \in ids : o[x] = q.user,
                 \A c \in q.queue : o[c] = q.user
          PROVE  LET r == EventsInserted(db, new)
                 IN  Consistent(r, o, homes) /\ r.copies = db.copies /\ NoneBut(ids, db, r)
      <3>1. ASSUME NEW n \in new PROVE Insertable(db, n.event, n.row, o, homes)
        BY <1>2, <1>3, <1>6, <2>4 DEF Insertable, ids
      <3> QED BY <2>4, <3>1, EventsInsertedKeeps DEF ids
    <2>5. Consistent(db', origin', homes) /\ db'.copies = db.copies /\ NoneBut(ids, db, db')
      BY <2>1, <2>2, <2>3, <2>4
    <2>6. Holds(next, origin', homes', remote')
      <3>1. Holds(q, origin', homes', remote')
        BY <1>0, <1>1, <2>2, HoldsOn DEF Fresh
      <3>2. /\ next.at = "next" /\ next.queue = new /\ Follows(q, next)
            /\ next.account = q.account /\ next.user = q.user /\ next.op = q.op
        BY <1>0 DEF Blank, Follows, Shape
      <3> HIDE DEF next
      <3>3. EventHolds(next, origin', remote')
        BY <1>1, <1>3, <3>2 DEF EventHolds, Guards, CopySteps, Tokening
      <3>4. next.at \notin Tokening /\ next.op # "DeleteManyEvents"
        BY <1>1, <3>2 DEF Tokening
      <3> QED BY <1>1, <3>1, <3>2, <3>3, <3>4, EventGoes
    <2> HIDE DEF next
    <2>7. CallFine(k)
      BY <2>1, <2>6, Becomes DEF Notify
    <2> QED BY <1>0, <1>1, <1>4, <2>2, <2>5, <2>7, FirstWrite
  <1> QED BY <1>5, <1>6

(* Every statement of creating events in a batch is Fine.                  *)
LEMMA CreateBatchEventsFine ==
    ASSUME Inv, NEW k \in Client, calls[k] # None, CreateBatchEvents(k), UNCHANGED accountVars
    PROVE  Fine(k)
  <1> DEFINE q == calls[k]
  <1>0. /\ Consistent(db, origin, homes) /\ Holds(q, origin, homes, remote) /\ Shape(q)
        /\ db \in Database /\ kept \in [Updated -> [Field -> Value \union {None}]]
        /\ DOMAIN calls = Client /\ DOMAIN q = DOMAIN Blank
    BY Found
  <1>1. ASSUME EventUseCase(k, "CreateBatchEvents", "find"), UNCHANGED <<db, origin, kept>>,
               IF \A c \in q.queue : CalendarOfUser(db, c, q.user) THEN Goto(k, "write")
                                                                   ELSE Answer(k)
        PROVE  Fine(k)
    <2>1. q.op = "CreateBatchEvents" /\ q.at = "find" /\ q.op \in Syncing
      BY <1>1 DEF EventUseCase, At, Syncing, Copied, Creates
    <2>2. ASSUME Goto(k, "write"), \A c \in q.queue : CalendarOfUser(db, c, q.user)
          PROVE  \E r : /\ calls' = [calls EXCEPT ![k] = r]
                        /\ Follows(q, r) /\ r.at \notin Tokening
                        /\ r.account = q.account /\ r.user = q.user
                        /\ r.op # "DeleteManyEvents" /\ EventHolds(r, origin, remote)
      <3>1. PICK r : calls' = [calls EXCEPT ![k] = r] /\ SameCall(q, r) /\ r.at = "write"
        BY <2>2, GotoIs
      <3>2. \A c \in q.queue : c \in Calendar /\ origin[c] = q.user
        BY <1>0, <2>2 DEF CalendarOfUser, Stored, IdsOf, Database, Consistent, CalendarsOwned
      <3>3. r.op = "CreateBatchEvents" /\ r.queue = q.queue /\ r.user = q.user
        BY <2>1, <3>1 DEF SameCall, SameOrder
      <3>4. EventHolds(r, origin, remote)
        BY <3>1, <3>2, <3>3 DEF EventHolds, CopySteps, Tokening, Guards
      <3>5. r.at \notin Tokening
        BY <3>1 DEF Tokening
      <3> QED BY <1>0, <3>1, <3>3, <3>4, <3>5, SameFollows
    <2> QED BY <1>0, <1>1, <2>1, <2>2, EventUseMoves
  <1>2. ASSUME EventUseCase(k, "CreateBatchEvents", "next"), UNCHANGED <<db, origin, kept>>,
               NEW n \in q.queue,
               calls' = [calls EXCEPT ![k].at = "copies", ![k].event = n.event, ![k].row = n.row,
                                      ![k].queue = @ \ {n}]
        PROVE  Fine(k)
    <2>1. q.op = "CreateBatchEvents" /\ q.at = "next" /\ q.op \in Syncing
      BY <1>2 DEF EventUseCase, At, Syncing, Copied, Creates
    <2>2. q.queue \subseteq [event : Event, row : EventRow]
      BY <1>0, <2>1 DEF Holds, EventHolds, Guards
    <2> DEFINE rest == q.queue \ {n}
               r == [q EXCEPT !.at = "copies", !.event = n.event, !.row = n.row, !.queue = rest]
    <2>3. calls' = [calls EXCEPT ![k] = r]
      BY <1>0, <1>2
    <2>4. rest \subseteq [event : Event, row : EventRow] /\ n.event \in Event /\ n.row \in EventRow
      BY <2>2
    <2> HIDE DEF rest
    <2>5. /\ r.at = "copies" /\ r.event = n.event /\ r.row = n.row /\ r.queue = rest
          /\ Follows(q, r) /\ r.account = q.account /\ r.user = q.user /\ r.op = q.op
      BY <1>0, <2>4 DEF Blank, Follows, Shape
    <2> HIDE DEF r
    <2>6. EventHolds(r, origin, remote)
      BY <2>1, <2>4, <2>5 DEF EventHolds, Guards, Creates, Copied
    <2>7. r.at \notin Tokening /\ r.op # "DeleteManyEvents"
      BY <2>1, <2>5 DEF Tokening
    <2> QED BY <1>0, <1>2, <2>1, <2>3, <2>5, <2>6, <2>7, EventUseMoves
  <1>3. ASSUME EventUseCase(k, "CreateBatchEvents", "write"), UNCHANGED kept,
               NEW id \in {i \in [q.queue -> FreshEvents] : Injective(i)},
               LET new == {[event |-> id[c], row |-> NewEvent(q, c)] : c \in q.queue} IN
               IF \A n \in new : EventInsertAccepted(db, n.row)
               THEN /\ db' = EventsInserted(db, new)
                    /\ origin' = [x \in Owned |->
                            IF \E n \in new : n.event = x THEN q.user ELSE origin[x]]
                    /\ Notify(k, [q EXCEPT !.at = "next", !.queue = new])
               ELSE Answer(k) /\ UNCHANGED <<db, origin>>
        PROVE  Fine(k)
    <2> DEFINE new == {[event |-> id[c], row |-> NewEvent(q, c)] : c \in q.queue}
    <2> HIDE DEF new
    <2>1. new = {[event |-> id[c], row |-> NewEvent(q, c)] : c \in q.queue}
      BY DEF new
    <2>2. IF \A n \in new : EventInsertAccepted(db, n.row)
          THEN /\ db' = EventsInserted(db, new)
               /\ origin' = [x \in Owned |->
                       IF \E n \in new : n.event = x THEN q.user ELSE origin[x]]
               /\ Notify(k, [q EXCEPT !.at = "next", !.queue = new])
          ELSE Answer(k) /\ UNCHANGED <<db, origin>>
      BY <1>3 DEF new
    <2> QED BY <1>3, <2>1, <2>2, BatchWriteFine
  <1> QED BY <1>1, <1>2, <1>3 DEF CreateBatchEvents

(* Every statement of updating an event is Fine.                           *)
LEMMA UpdateEventFine ==
    ASSUME Inv, NEW k \in Client, calls[k] # None, UpdateEvent(k), UNCHANGED accountVars
    PROVE  Fine(k)
  <1> DEFINE q == calls[k]
  <1>0. /\ Consistent(db, origin, homes) /\ Holds(q, origin, homes, remote) /\ Shape(q)
        /\ db \in Database /\ kept \in [Updated -> [Field -> Value \union {None}]]
        /\ DOMAIN calls = Client /\ DOMAIN q = DOMAIN Blank
    BY Found
  <1>1. /\ q.op = "UpdateEvent" /\ q.op \in Syncing
        /\ q.at \in {"guarded", "find", "write"} /\ q.at \notin {"account", "user"}
    BY DEF UpdateEvent, EventUseCase, At, Syncing, Copied, Creates
  <1>2. ASSUME NEW row \in EventRow, Derived(row.times), NEW r, SameCall(q, r), r.at = "write",
               r.row = row
        PROVE  /\ Follows(q, r) /\ r.at \notin Tokening
               /\ r.account = q.account /\ r.user = q.user
               /\ r.op # "DeleteManyEvents" /\ EventHolds(r, origin, remote)
    <2>1. r.op = "UpdateEvent"
      BY <1>1, <1>2 DEF SameCall, SameOrder
    <2>2. EventHolds(r, origin, remote)
      BY <1>2, <2>1 DEF EventHolds, CopySteps, Tokening, Creates
    <2>3. r.at \notin Tokening
      BY <1>2 DEF Tokening
    <2> QED BY <1>0, <1>2, <2>1, <2>2, <2>3, SameFollows
  <1>3. ASSUME EventUseCase(k, "UpdateEvent", "guarded"), UNCHANGED <<db, origin, kept>>,
               IF UserInAccount(db, q.user, q.account) THEN Goto(k, "write") ELSE Answer(k)
        PROVE  Fine(k)
    <2>1. q.row \in EventRow /\ Derived(q.row.times)
      BY <1>0, <1>1, <1>3 DEF EventUseCase, At, Holds, EventHolds
    <2>2. ASSUME Goto(k, "write")
          PROVE  \E r : calls' = [calls EXCEPT ![k] = r] /\ SameCall(q, r) /\ r.at = "write"
                        /\ r.row = q.row
      BY <2>2, GotoIs
    <2> QED BY <1>0, <1>1, <1>2, <1>3, <2>1, <2>2, EventUseMoves
  <1>4. ASSUME EventUseCase(k, "UpdateEvent", "find"), UNCHANGED <<db, origin, kept>>,
               IF EventOfUser(db, q.event, q.user) THEN Proceed(k, "write", db.events[q.event])
                                                   ELSE Answer(k)
        PROVE  Fine(k)
    <2> DEFINE row == db.events[q.event]
    <2>1. EventOfUser(db, q.event, q.user) => row \in EventRow /\ Derived(row.times)
      <3>1. ASSUME EventOfUser(db, q.event, q.user)
            PROVE  q.event \in IdsOf(db.events) /\ row \in EventRow
        BY <1>0, <3>1 DEF EventOfUser, Stored, IdsOf, Database
      <3> HIDE DEF row
      <3> QED BY <1>0, <3>1 DEF Consistent, EventsDerived, row
    <2>2. Answer(k) \/ (Proceed(k, "write", row) /\ EventOfUser(db, q.event, q.user))
      BY <1>4
    <2> HIDE DEF row
    <2>3. ASSUME Proceed(k, "write", row)
          PROVE  \E r : calls' = [calls EXCEPT ![k] = r] /\ SameCall(q, r) /\ r.at = "write"
                        /\ r.row = row
      BY <2>3, ProceedIs
    <2> QED BY <1>0, <1>1, <1>2, <1>4, <2>1, <2>2, <2>3, EventUseMoves
  <1>5. ASSUME EventUseCase(k, "UpdateEvent", "write"), UNCHANGED origin,
               IF EventSaveAccepted(db, q.event, Updating(q))
               THEN /\ db' = EventSaved(db, q.event, Updating(q))
                    /\ Notify(k, [q EXCEPT !.at = "copies", !.row = Updating(q)])
                    /\ IF Stored(db.events, q.event)
                       THEN Keeps(q.event, q.patch, q.row, db.events[q.event]) ELSE UNCHANGED kept
               ELSE Answer(k) /\ UNCHANGED <<db, kept>>
        PROVE  Fine(k)
    <2> DEFINE row == Updating(q)
               r == [q EXCEPT !.at = "copies", !.row = row]
               next == IF DisableReminders THEN None ELSE r
    <2>1. row \in EventRow /\ Derived(row.times)
      <3>1. q.row \in EventRow /\ Derived(q.row.times)
        BY <1>0, <1>1, <1>5 DEF EventUseCase, At, Holds, EventHolds
      <3> QED BY <1>0, <1>1, <3>1, UpdatingIs
    <2>2. \/ Answer(k) /\ UNCHANGED <<db, kept>>
          \/ /\ db' = EventSaved(db, q.event, row) /\ calls' = [calls EXCEPT ![k] = next]
             /\ \/ Keeps(q.event, q.patch, q.row, db.events[q.event])
                \/ UNCHANGED kept
      BY <1>5 DEF Notify
    <2> HIDE DEF row
    <2>3. q.patch \in [Field -> Value \union {None}]
      BY <1>0 DEF Shape
    <2>4. kept' \in [Updated -> [Field -> Value \union {None}]]
      BY <1>0, <2>2, <2>3, KeepsTyped
    <2>5. db' = db \/ Kept(db, db', origin, homes)
      BY <1>0, <2>1, <2>2, EventSavedKeeps
    <2>6. /\ Follows(q, r) /\ r.at \notin Tokening /\ r.account = q.account /\ r.user = q.user
          /\ r.op # "DeleteManyEvents" /\ EventHolds(r, origin, remote)
      <3>1. /\ r.at = "copies" /\ r.row = row /\ Follows(q, r) /\ r.op = q.op
            /\ r.account = q.account /\ r.user = q.user
        BY <1>0 DEF Blank, Follows, Shape
      <3> HIDE DEF r
      <3>2. EventHolds(r, origin, remote)
        BY <1>1, <2>1, <3>1 DEF EventHolds, Creates, Copied
      <3> QED BY <1>1, <3>1, <3>2 DEF Tokening
    <2>7. next # None => next = r
      OBVIOUS
    <2> HIDE DEF r, next
    <2> QED BY <1>1, <1>5, <2>2, <2>4, <2>5, <2>6, <2>7, EventUseMoves
  <1> QED BY <1>3, <1>4, <1>5 DEF UpdateEvent

(* Every statement of deleting an event is Fine.                           *)
LEMMA DeleteEventFine ==
    ASSUME Inv, NEW k \in Client, calls[k] # None, DeleteEvent(k), UNCHANGED accountVars
    PROVE  Fine(k)
  <1> DEFINE q == calls[k]
             s == IF DisableReminders THEN "write" ELSE "copies"
  <1>0. /\ Consistent(db, origin, homes) /\ Holds(q, origin, homes, remote) /\ Shape(q)
        /\ db \in Database /\ kept \in [Updated -> [Field -> Value \union {None}]]
        /\ DOMAIN calls = Client /\ DOMAIN q = DOMAIN Blank
    BY Found
  <1>1. /\ q.op = "DeleteEvent" /\ q.op \in Syncing
        /\ q.at \in {"guarded", "find", "write"} /\ q.at \notin {"account", "user"}
    BY DEF DeleteEvent, EventUseCase, At, Syncing, Copied, Creates
  <1>2. ASSUME NEW row \in EventRow, calls' = [calls EXCEPT ![k].at = s, ![k].row = row]
        PROVE  \E r : /\ calls' = [calls EXCEPT ![k] = r]
                      /\ Follows(q, r) /\ r.at \notin Tokening
                      /\ r.account = q.account /\ r.user = q.user
                      /\ r.op # "DeleteManyEvents" /\ EventHolds(r, origin, remote)
    <2> DEFINE r == [q EXCEPT !.at = s, !.row = row]
    <2>1. calls' = [calls EXCEPT ![k] = r]
      BY <1>0, <1>2
    <2>2. s \in {"write", "copies"}
      OBVIOUS
    <2> HIDE DEF s
    <2>3. /\ r.at = s /\ r.row = row /\ Follows(q, r) /\ r.op = q.op
          /\ r.account = q.account /\ r.user = q.user
      BY <1>0 DEF Blank, Follows, Shape
    <2> HIDE DEF r
    <2>4. EventHolds(r, origin, remote)
      BY <1>1, <1>2, <2>2, <2>3 DEF EventHolds, Creates, CopySteps, Tokening
    <2> QED BY <1>1, <2>1, <2>2, <2>3, <2>4 DEF Tokening
  <1>3. ASSUME EventUseCase(k, "DeleteEvent", "guarded"), UNCHANGED <<db, origin, kept>>,
               Answer(k) \/ calls' = [calls EXCEPT ![k].at = s, ![k].row = q.row]
        PROVE  Fine(k)
    <2>1. q.row \in EventRow
      BY <1>0, <1>1, <1>3 DEF EventUseCase, At, Holds, EventHolds
    <2> HIDE DEF s
    <2> QED BY <1>0, <1>1, <1>2, <1>3, <2>1, EventUseMoves
  <1>4. ASSUME EventUseCase(k, "DeleteEvent", "find"), UNCHANGED <<db, origin, kept>>,
               \/ Answer(k)
               \/ /\ EventOfUser(db, q.event, q.user)
                  /\ calls' = [calls EXCEPT ![k].at = s, ![k].row = db.events[q.event]]
        PROVE  Fine(k)
    <2>1. EventOfUser(db, q.event, q.user) => db.events[q.event] \in EventRow
      BY <1>0 DEF EventOfUser, Stored, Database
    <2> HIDE DEF s
    <2> QED BY <1>0, <1>1, <1>2, <1>4, <2>1, EventUseMoves
  <1>5. ASSUME EventUseCase(k, "DeleteEvent", "write"), UNCHANGED <<origin, kept>>,
               Answer(k), db' = EventsDeleted(db, {q.event})
        PROVE  Fine(k)
    <2>1. Kept(db, db', origin, homes)
      BY <1>0, <1>5, OtherDeletesKeep
    <2> QED BY <1>0, <1>1, <1>5, <2>1, EventUseMoves
  <1> QED BY <1>3, <1>4, <1>5 DEF DeleteEvent

(* Every statement of deleting many events is Fine.                        *)
LEMMA DeleteManyEventsFine ==
    ASSUME Inv, NEW k \in Client, calls[k] # None, DeleteManyEvents(k), UNCHANGED accountVars
    PROVE  Fine(k)
  <1> DEFINE q == calls[k]
             found == q.todo \intersect IdsOf(db.events)
  <1>0. /\ Consistent(db, origin, homes) /\ Holds(q, origin, homes, remote) /\ Shape(q)
        /\ db \in Database /\ kept \in [Updated -> [Field -> Value \union {None}]]
        /\ DOMAIN calls = Client /\ DOMAIN q = DOMAIN Blank
    BY Found
  <1>1. /\ q.op = "DeleteManyEvents" /\ q.op \in Syncing
        /\ q.at \in {"find", "write"} /\ q.at \notin {"account", "user"}
    BY DEF DeleteManyEvents, EventUseCase, At, Syncing
  <1>2. found \subseteq Event
    BY <1>0, <1>1 DEF Shape
  <1>3. ASSUME EventUseCase(k, "DeleteManyEvents", "find"), UNCHANGED <<db, origin, kept>>,
               Answer(k) \/ calls' = [calls EXCEPT ![k].at = "write", ![k].todo = found]
        PROVE  Fine(k)
    <2> HIDE DEF found
    <2> DEFINE r == [q EXCEPT !.at = "write", !.todo = found]
    <2>1. calls' = [calls EXCEPT ![k].at = "write", ![k].todo = found] =>
                calls' = [calls EXCEPT ![k] = r]
      BY <1>0
    <2>2. /\ r.at = "write" /\ r.todo = found /\ Follows(q, r) /\ r.op = q.op
          /\ r.account = q.account /\ r.user = q.user
      BY <1>0 DEF Blank, Follows, Shape
    <2> HIDE DEF r
    <2>3. EventHolds(r, origin, remote)
      BY <1>1, <2>2 DEF EventHolds, Creates, Copied
    <2>4. r.at \notin Tokening
      BY <2>2 DEF Tokening
    <2> QED BY <1>0, <1>1, <1>2, <1>3, <2>1, <2>2, <2>3, <2>4, EventUseMoves
  <1>4. ASSUME EventUseCase(k, "DeleteManyEvents", "write"), UNCHANGED <<origin, kept>>,
               Answer(k), db' = EventsDeleted(db, q.todo)
        PROVE  Fine(k)
    <2>1. Kept(db, db', origin, homes)
      BY <1>0, <1>4, OtherDeletesKeep
    <2> QED BY <1>0, <1>1, <1>4, <2>1, EventUseMoves
  <1> QED BY <1>3, <1>4 DEF DeleteManyEvents

(* Every statement on events and their copies is Fine.                     *)
LEMMA EventSyncFine ==
    ASSUME Inv, NEW k \in Client, calls[k] # None, EventSyncNext(k), UNCHANGED accountVars
    PROVE  Fine(k)
  <1> DEFINE q == calls[k]
             syncs == SyncsOf(db, q.row.calendar)
             copies == CopiesOf(db, q.event)
  <1>0. /\ q.op \in Syncing /\ db \in Database
        /\ \A c \in db.copies : remote[c.copy] # None
    BY Found DEF EventSyncNext, Syncing, Copied, Inv
  <1>1. ASSUME FindCopies(k, Creates, syncs) PROVE Fine(k)
    <2>1. syncs \subseteq SyncKey
      BY <1>0 DEF SyncsOf, Database
    <2>2. q.op \in Creates /\ Creates \in SUBSET Copied
      BY <1>1 DEF FindCopies, Copied
    <2> HIDE DEF syncs
    <2> QED BY <1>1, <2>1, <2>2, FindCopiesFine
  <1>2. ASSUME FindCopies(k, {"UpdateEvent", "DeleteEvent"}, copies) PROVE Fine(k)
    <2>1. \A c \in copies : c \in CopyKey /\ remote[c.copy] # None
      BY <1>0 DEF CopiesOf, Database
    <2> DEFINE ops == {"UpdateEvent", "DeleteEvent"}
    <2>2. q.op \notin Creates /\ ops \in SUBSET Copied
      BY <1>2 DEF FindCopies, Copied, Creates
    <2> HIDE DEF copies, ops
    <2>3. FindCopies(k, ops, copies)
      BY <1>2 DEF ops
    <2> QED BY <2>1, <2>2, <2>3, FindCopiesFine
  <1>3. ASSUME FindCopiesOwner(k) PROVE Fine(k)
    BY <1>0, <1>3, OwnerOfCopiesFine
  <1>4. ASSUME NeedsToken(k, Creates \union {"UpdateEvent", "DeleteEvent"}),
               GetAccessToken(k, GiveUp(k)), UNCHANGED remote
        PROVE  Fine(k)
    <2>1. q.op \in Copied
      BY <1>4 DEF NeedsToken, Copied
    <2> QED BY <1>4, <2>1, CopyTokenFine
  <1>5. ASSUME CreateCopy(k) \/ RecordCopy(k) \/ ChangeCopy(k) \/ RemoveCopy(k)
        PROVE  Fine(k)
    <2>1. q.op \in Copied
      BY <1>5 DEF CreateCopy, RecordCopy, ChangeCopy, RemoveCopy, Copying, Copied, Creates
    <2> QED BY <1>5, <2>1, CreateCopyFine, RecordCopyFine, ChangesFine
  <1> QED BY <1>1, <1>2, <1>3, <1>4, <1>5, CreateEventFine, CreateBatchEventsFine, UpdateEventFine,
             DeleteEventFine, DeleteManyEventsFine DEF EventSyncNext

----------------------------------------------------------------------------
(* Accounts *)

(* What a request on accounts must hold is its own part of Holds.          *)
LEMMA AccountHoldsOn ==
    ASSUME NEW o, NEW h, NEW rm, NEW q, Holds(q, o, h, rm), q.op \in AccountOps,
           NEW r, DOMAIN r = DOMAIN q, r.op = q.op, r.server = q.server, r.account = q.account,
           r.user = q.user, r.calendar = q.calendar, r.schedule = q.schedule,
           r.service = q.service, r.event = q.event, r.key = q.key, r.patch = q.patch,
           AccountHolds(r)
    PROVE  Holds(r, o, h, rm)
  <1>1. /\ r.op \notin UserRouted /\ r.op \notin Copied /\ r.op \notin Creates
        /\ r.op \notin IntegrationOps /\ r.op \notin OwnedOps /\ r.op \notin ServiceOps
        /\ r.op \notin {"DeleteManyEvents", "CreateBatchEvents", "CreateUser", "UpdateEvent"}
    BY DEF UserRouted, Copied, Creates, IntegrationOps, OwnedOps, ServiceOps, AccountOps
  <1>2. r.op \notin {"AddSyncCalendar", "AddExtBusyCalendar"}
    BY DEF AccountOps
  <1>3. Shape(r)
    BY <1>1, <1>2 DEF Holds, Shape
  <1>4. DirectoryHolds(r, o, h)
    BY <1>1 DEF DirectoryHolds, OwnedOps, ServiceOps
  <1>5. TokenHolds(r)
    BY <1>1, <1>2 DEF TokenHolds, UserRouted
  <1>6. EventHolds(r, o, rm)
    BY <1>1 DEF EventHolds, Copied, Creates
  <1> QED BY <1>1, <1>3, <1>4, <1>5, <1>6 DEF Holds

(* A step that stores no row under an id that was given before, and leaves *)
(* what the processes remember of accounts a row of the table              *)
LEMMA AccountMoves ==
    ASSUME Inv, NEW k \in Client, CallFine(k), UNCHANGED <<remote, bounds, now, origin, homes>>,
           kept' \in [Updated -> [Field -> Value \union {None}]],
           db' = db \/ Kept(db, db', origin, homes),
           \/ UNCHANGED cache
           \/ \E c : \E s \in Server, a \in Account :
                /\ cache' = [cache EXCEPT ![s][a] = c]
                /\ c # None => c.row \in AccountRow
    PROVE  Fine(k)
  <1>1. TablesFine
    BY TablesKept
  <1>2. /\ cache' = [s \in Server |-> [a \in Account |-> cache'[s][a]]]
        /\ \A s \in Server, a \in Account : cache'[s][a] # None => cache'[s][a].row \in AccountRow
    <2>1. /\ cache = [s \in Server |-> [a \in Account |-> cache[s][a]]]
          /\ \A s \in Server, a \in Account : cache[s][a] # None => cache[s][a].row \in AccountRow
      BY DEF Inv, GhostsTyped
    <2>2. CASE UNCHANGED cache
      BY <2>1, <2>2
    <2>3. ASSUME NEW s \in Server, NEW a \in Account, NEW c,
                 cache' = [cache EXCEPT ![s][a] = c], c # None => c.row \in AccountRow
          PROVE  /\ cache' = [t \in Server |-> [b \in Account |-> cache'[t][b]]]
                 /\ \A t \in Server, b \in Account :
                        cache'[t][b] # None => cache'[t][b].row \in AccountRow
      <3>1. DOMAIN cache = Server /\ DOMAIN cache[s] = Account
        BY <2>1
      <3>2. \A t \in Server, b \in Account :
                cache'[t][b] = IF t = s /\ b = a THEN c ELSE cache[t][b]
        BY <2>3, <3>1
      <3>3. cache' = [t \in Server |-> [b \in Account |-> cache'[t][b]]]
        <4>1. cache' = [t \in Server |-> IF t = s THEN [cache[s] EXCEPT ![a] = c] ELSE cache[t]]
          BY <2>3, <3>1
        <4>2. \A t \in Server : cache[t] = [b \in Account |-> cache[t][b]]
          BY <2>1
        <4>3. \A t \in Server \ {s} : cache'[t] = cache[t]
          BY <4>1
        <4>4. cache'[s] = [b \in Account |-> IF b = a THEN c ELSE cache[s][b]]
          BY <3>1, <4>1
        <4>5. \A t \in Server : cache'[t] = [b \in Account |-> cache'[t][b]]
          BY <4>2, <4>3, <4>4
        <4> QED BY <4>1, <4>5
      <3> QED BY <2>1, <2>3, <3>2, <3>3
    <2> QED BY <2>2, <2>3
  <1>3. GhostsFine
    BY <1>2 DEF GhostsFine, GhostsTyped, Inv
  <1>4. Bounded'
    BY CountedBounded DEF Counted, bounds
  <1> QED BY <1>1, <1>3, <1>4 DEF Fine

(* A request on accounts that goes to another statement is Fine.           *)
LEMMA AccountGotoFine ==
    ASSUME Inv, NEW k \in Client, calls[k] # None, calls[k].op \in AccountOps, NEW s, Goto(k, s),
           UNCHANGED <<remote, origin, homes>>,
           \A r : r.op = calls[k].op /\ r.at = s /\ r.row = calls[k].row
                  /\ r.provider = calls[k].provider => AccountHolds(r)
    PROVE  CallFine(k)
  <1>1. PICK r : calls' = [calls EXCEPT ![k] = r] /\ SameCall(calls[k], r) /\ r.at = s
                 /\ r.row = calls[k].row
    BY GotoIs
  <1>2. AccountHolds(r)
    BY <1>1 DEF SameCall, SameOrder
  <1>3. Holds(r, origin, homes, remote)
    BY <1>1, <1>2, Found, AccountHoldsOn DEF SameCall, SameOrder
  <1> QED BY <1>1, <1>3, Becomes

(* Finding an account by its key reads the cache or the table, and caches  *)
(* the account.                                                            *)
LEMMA FindByApiKeyFine ==
    ASSUME Inv, NEW k \in Client, calls[k] # None, calls[k].op \in AccountOps, FindByApiKey(k),
           UNCHANGED remote
    PROVE  Fine(k)
  <1> DEFINE q == calls[k]
  <1>0. /\ Holds(q, origin, homes, remote) /\ Shape(q) /\ db \in Database
        /\ kept \in [Updated -> [Field -> Value \union {None}]]
        /\ DOMAIN calls = Client /\ DOMAIN q = DOMAIN Blank
    BY Found
  <1>1. /\ UNCHANGED <<db, kept, bounds, now, origin, homes>>
        /\ q.at \in {"apikey", "select", "remember"}
    BY DEF FindByApiKey, AccountsUnchanged
  <1>2. q.op \in ByKeyOnly /\ q.server \in Server /\ q.account \in Account
    BY <1>0, <1>1 DEF Holds, AccountHolds, AccountOps, ByKeyOnly, Shape
  <1>3. ASSUME NEW row \in AccountRow, NEW s \in {"find", "remember"}, Identified(k, row, s)
        PROVE  CallFine(k)
    <2> DEFINE r == [q EXCEPT !.row = row, !.at = s, !.asked = now]
    <2>1. calls' = [calls EXCEPT ![k] = r]
      BY <1>0, <1>3 DEF Identified
    <2>2. /\ DOMAIN r = DOMAIN q /\ r.op = q.op /\ r.server = q.server /\ r.account = q.account
          /\ r.user = q.user /\ r.calendar = q.calendar /\ r.schedule = q.schedule
          /\ r.service = q.service /\ r.event = q.event /\ r.key = q.key /\ r.patch = q.patch
          /\ r.at = s /\ r.row = row
      BY <1>0 DEF Blank
    <2> HIDE DEF r
    <2>3. AccountHolds(r)
      BY <1>2, <2>2 DEF AccountHolds, ByKeyOnly, Guards
    <2>4. Holds(r, origin, homes, remote)
      BY <1>0, <2>2, <2>3, AccountHoldsOn
    <2> QED BY <1>1, <2>1, <2>4, Becomes
  <1>4. ASSUME NEW s \in {"select", "insert"}, Goto(k, s) PROVE CallFine(k)
    <2>1. ASSUME NEW r, r.op = q.op, r.at = s PROVE AccountHolds(r)
      BY <1>2, <2>1 DEF AccountHolds, ByKeyOnly, Guards
    <2> QED BY <1>1, <1>4, <2>1, AccountGotoFine
  <1>5. CASE q.at = "apikey"
    <2>1. \/ Remembered(q.server, q.account) /\ Identified(k, cache[q.server][q.account].row, "find")
          \/ Goto(k, "select")
      BY <1>5 DEF FindByApiKey
    <2>2. Remembered(q.server, q.account) => cache[q.server][q.account].row \in AccountRow
      BY <1>2 DEF Remembered, Inv, GhostsTyped
    <2>3. CallFine(k)
      BY <1>3, <1>4, <2>1, <2>2
    <2>4. UNCHANGED cache
      BY <1>5 DEF FindByApiKey, accountVars
    <2> QED BY <1>0, <1>1, <2>3, <2>4, AccountMoves
  <1>6. CASE q.at = "select"
    <2>1. \/ Stored(db.accounts, q.account) /\ Identified(k, db.accounts[q.account], "remember")
          \/ Goto(k, "insert") \/ Answer(k)
      BY <1>6 DEF FindByApiKey
    <2>2. Stored(db.accounts, q.account) => db.accounts[q.account] \in AccountRow
      BY <1>0, <1>2 DEF Stored, Database
    <2>3. CallFine(k)
      BY <1>3, <1>4, <2>1, <2>2, Answers
    <2>4. UNCHANGED cache
      BY <1>6 DEF FindByApiKey
    <2> QED BY <1>0, <1>1, <2>3, <2>4, AccountMoves
  <1>7. CASE q.at = "remember"
    <2> DEFINE c == [row |-> q.row, until |-> now + TimeToLive]
    <2>1. cache' = [cache EXCEPT ![q.server][q.account] = c] /\ Goto(k, "find")
      BY <1>7 DEF FindByApiKey
    <2>2. c.row \in AccountRow
      BY <1>0, <1>2, <1>7 DEF Holds, AccountHolds
    <2> HIDE DEF c
    <2>3. ASSUME NEW r, r.op = q.op, r.at = "find", r.row = q.row PROVE AccountHolds(r)
      BY <1>0, <1>2, <1>7, <2>3 DEF Holds, AccountHolds, ByKeyOnly, Guards
    <2>4. CallFine(k)
      BY <1>1, <2>1, <2>3, AccountGotoFine
    <2> QED BY <1>0, <1>1, <1>2, <2>1, <2>2, <2>4, AccountMoves
  <1> QED BY <1>1, <1>5, <1>6, <1>7

(* Using and changing the account that was found is Fine.                  *)
LEMMA AccountUsesFine ==
    ASSUME Inv, NEW k \in Client, calls[k] # None, calls[k].op \in AccountOps, UNCHANGED remote,
           CreateAccount(k) \/ SetAccount(k) \/ GetAccount(k)
    PROVE  Fine(k)
  <1> DEFINE q == calls[k]
  <1>0. /\ Holds(q, origin, homes, remote) /\ Shape(q) /\ Consistent(db, origin, homes)
        /\ kept \in [Updated -> [Field -> Value \union {None}]]
    BY Found
  <1>1. UNCHANGED <<bounds, now, origin, homes>>
    BY DEF CreateAccount, SetAccount, GetAccount, AccountsUnchanged
  <1>2. CASE CreateAccount(k)
    <2> DEFINE row == [data |-> [f \in Field |-> q.patch[f]]]
    <2>1. PICK a \in {x \in Account : db.accounts[x] = None} :
            /\ At(k, "CreateAccount", "find") /\ Answer(k) /\ db' = AccountInserted(db, a, row)
            /\ kept' = [kept EXCEPT ![a] = [f \in Field |-> None]] /\ UNCHANGED accountVars
      BY <1>2 DEF CreateAccount
    <2>2. row \in AccountRow
      BY <1>0, <2>1 DEF At, Shape, Making, Data, AccountRow
    <2> HIDE DEF row
    <2>3. Kept(db, db', origin, homes)
      BY <1>0, <2>1, <2>2, OtherInsertsKeep
    <2>4. kept' \in [Updated -> [Field -> Value \union {None}]]
      BY <1>0, <2>1
    <2> QED BY <1>1, <2>1, <2>3, <2>4, Answers, AccountMoves DEF accountVars
  <1>3. CASE At(k, "SetAccount", "find") /\ SetAccount(k)
    <2> DEFINE row == Merged(q.row, q.patch)
    <2>1. /\ q.op = "SetAccount" /\ q.row \in AccountRow
      BY <1>0, <1>3 DEF At, Holds, AccountHolds, ByKeyOnly
    <2>2. /\ db' = AccountSaved(db, q.account, row) /\ Goto(k, "forget") /\ UNCHANGED cache
          /\ Keeps(q.account, q.patch, q.row, db.accounts[q.account])
      BY <1>3 DEF SetAccount, At
    <2>3. q.patch \in [Field -> Value \union {None}]
      BY <1>0 DEF Shape
    <2>4. row \in AccountRow
      BY <2>1, <2>3, MergedTyped
    <2> HIDE DEF row
    <2>5. Kept(db, db', origin, homes)
      BY <1>0, <2>2, <2>4, OtherInsertsKeep
    <2>6. kept' \in [Updated -> [Field -> Value \union {None}]]
      BY <2>2, <2>3, KeepsTyped
    <2>7. ASSUME NEW r, r.op = q.op, r.at = "forget" PROVE AccountHolds(r)
      BY <2>1, <2>7 DEF AccountHolds, ByKeyOnly, Guards
    <2>8. CallFine(k)
      BY <1>1, <2>2, <2>7, AccountGotoFine
    <2> QED BY <1>1, <2>2, <2>5, <2>6, <2>8, AccountMoves
  <1>4. CASE At(k, "SetAccount", "forget") /\ SetAccount(k)
    <2>1. /\ cache' = [cache EXCEPT ![q.server][q.account] = None] /\ Answer(k)
          /\ UNCHANGED <<db, kept>>
      BY <1>4 DEF SetAccount, At
    <2>2. q.server \in Server /\ q.account \in Account
      BY <1>0, <1>4 DEF At, Shape, ByKeyOnly
    <2> QED BY <1>0, <1>1, <2>1, <2>2, Answers, AccountMoves
  <1>5. CASE GetAccount(k)
    BY <1>0, <1>1, <1>5, Answers, AccountMoves DEF GetAccount, accountVars
  <1> QED BY <1>2, <1>3, <1>4, <1>5 DEF SetAccount

(* The server inserts its default account, when it found none, under a new *)
(* id.                                                                     *)
LEMMA InitDefaultAccountFine ==
    ASSUME Inv, NEW k \in Client, calls[k] # None, calls[k].op \in AccountOps, UNCHANGED remote,
           InitDefaultAccount(k), UNCHANGED accountVars, AccountsUnchanged
    PROVE  Fine(k)
  <1> DEFINE q == calls[k]
  <1>0. /\ Holds(q, origin, homes, remote) /\ Shape(q) /\ Consistent(db, origin, homes)
        /\ kept \in [Updated -> [Field -> Value \union {None}]]
        /\ DOMAIN calls = Client /\ DOMAIN q = DOMAIN Blank
    BY Found
  <1>1. UNCHANGED <<bounds, now, origin, homes, cache>> /\ q.op = "InitDefaultAccount"
    BY DEF AccountsUnchanged, accountVars, InitDefaultAccount, At
  <1>2. CASE Answer(k) /\ UNCHANGED <<db, kept>>
    BY <1>0, <1>1, <1>2, Answers, AccountMoves
  <1>3. ASSUME NEW r, calls' = [calls EXCEPT ![k] = r],
               DOMAIN r = DOMAIN q, r.op = q.op, r.server = q.server, r.account = q.account,
               r.user = q.user, r.calendar = q.calendar, r.schedule = q.schedule,
               r.service = q.service, r.event = q.event, r.key = q.key, r.patch = q.patch,
               r.at = "integrate", r.provider \in Provider
        PROVE  CallFine(k)
    <2>1. AccountHolds(r)
      BY <1>1, <1>3 DEF AccountHolds, ByKeyOnly, Guards
    <2>2. Holds(r, origin, homes, remote)
      BY <1>0, <1>3, <2>1, AccountHoldsOn
    <2> QED BY <1>1, <1>3, <2>2, Becomes
  <1>4. ASSUME db' = AccountInserted(db, q.account, [data |-> [f \in Field |-> q.patch[f]]]),
               kept' = [kept EXCEPT ![q.account] = [f \in Field |-> None]],
               calls' = [calls EXCEPT ![k].at = "integrate", ![k].provider = "google"]
        PROVE  Fine(k)
    <2> DEFINE row == [data |-> [f \in Field |-> q.patch[f]]]
               r == [q EXCEPT !.at = "integrate", !.provider = "google"]
    <2>1. db' = AccountInserted(db, q.account, row) /\ calls' = [calls EXCEPT ![k] = r]
      BY <1>0, <1>4
    <2>2. row \in AccountRow
      BY <1>0, <1>1 DEF Shape, Making, Data, AccountRow
    <2> HIDE DEF row
    <2>3. Kept(db, db', origin, homes)
      BY <1>0, <2>1, <2>2, OtherInsertsKeep
    <2>4. kept' \in [Updated -> [Field -> Value \union {None}]]
      BY <1>0, <1>4
    <2>5. /\ DOMAIN r = DOMAIN q /\ r.op = q.op /\ r.server = q.server /\ r.account = q.account
          /\ r.user = q.user /\ r.calendar = q.calendar /\ r.schedule = q.schedule
          /\ r.service = q.service /\ r.event = q.event /\ r.key = q.key /\ r.patch = q.patch
          /\ r.at = "integrate" /\ r.provider \in Provider
      BY <1>0, ProviderAssumption DEF Blank
    <2> HIDE DEF r
    <2>6. CallFine(k)
      BY <1>3, <2>1, <2>5
    <2> QED BY <1>1, <2>3, <2>4, <2>6, AccountMoves
  <1>5. CASE At(k, "InitDefaultAccount", "integrate")
    <2>1. q.account \in Account /\ q.provider \in Provider
      BY <1>0, <1>1, <1>5 DEF Shape, At, Holds, AccountHolds
    <2>2. /\ UNCHANGED kept
          /\ db' = db \/ db' = IntegrationInserted(db, q.account, q.provider)
          /\ \/ Answer(k) \/ Goto(k, "apikey")
             \/ calls' = [calls EXCEPT ![k].provider = "outlook"]
      BY <1>5 DEF InitDefaultAccount, At
    <2>3. db' = db \/ Kept(db, db', origin, homes)
      BY <1>0, <2>1, <2>2, OtherInsertsKeep
    <2>4. ASSUME calls' = [calls EXCEPT ![k].provider = "outlook"] PROVE CallFine(k)
      <3> DEFINE r == [q EXCEPT !.provider = "outlook"]
      <3>1. calls' = [calls EXCEPT ![k] = r]
        BY <1>0, <2>4
      <3>2. /\ DOMAIN r = DOMAIN q /\ r.op = q.op /\ r.server = q.server /\ r.account = q.account
            /\ r.user = q.user /\ r.calendar = q.calendar /\ r.schedule = q.schedule
            /\ r.service = q.service /\ r.event = q.event /\ r.key = q.key /\ r.patch = q.patch
            /\ r.at = "integrate" /\ r.provider \in Provider
        BY <1>0, <1>5, ProviderAssumption DEF Blank, At
      <3> HIDE DEF r
      <3> QED BY <1>3, <3>1, <3>2
    <2>5. ASSUME Goto(k, "apikey") PROVE CallFine(k)
      <3>1. ASSUME NEW r, r.op = q.op, r.at = "apikey" PROVE AccountHolds(r)
        BY <1>1, <3>1 DEF AccountHolds, ByKeyOnly, Guards
      <3> QED BY <1>1, <2>5, <3>1, AccountGotoFine
    <2>6. CallFine(k)
      BY <2>2, <2>4, <2>5, Answers
    <2> QED BY <1>0, <1>1, <2>2, <2>3, <2>6, AccountMoves
  <1> QED BY <1>2, <1>4, <1>5 DEF InitDefaultAccount

----------------------------------------------------------------------------
(* Every step of the server *)

(* A statement that fails changes no table.                                *)
LEMMA StatementFailsFine ==
    ASSUME Inv, NEW k \in Client, StatementFails(k), UNCHANGED <<remote, accountVars>>
    PROVE  Fine(k)
  <1>1. /\ Answer(k) /\ UNCHANGED <<db, remote, cache, origin, homes, kept>> /\ Counted
    BY DEF StatementFails, Counted, ghostVars, accountVars
  <1> QED BY <1>1, LastWrite DEF Inv, GhostsTyped

(* Every statement on accounts is Fine.                                    *)
LEMMA AccountsFine ==
    ASSUME Inv, NEW k \in Client, calls[k] # None, AccountsNext(k), UNCHANGED remote
    PROVE  Fine(k)
  BY FindByApiKeyFine, AccountUsesFine, InitDefaultAccountFine DEF AccountsNext

(* Whatever a request does next, it may.                                   *)
LEMMA StepFine ==
    ASSUME Inv, NEW k \in Client, Step(k)
    PROVE  Fine(k)
  <1>1. CASE Begin(k) /\ UNCHANGED <<remote, accountVars>>
    BY <1>1, BeginFine
  <1>2. CASE calls[k] # None /\ Handle(k)
    <2>1. CASE (Guard(k) \/ DirectoryNext(k) \/ LookupsNext(k) \/ IntegrationsNext(k)
                \/ EventQueriesNext(k) \/ StatementFails(k)) /\ UNCHANGED <<remote, accountVars>>
      BY <1>2, <2>1, GuardFine, DirectoryFine, LookupsFine, IntegrationsFine, QueriesFine,
         StatementFailsFine
    <2>2. CASE EventSyncNext(k) /\ UNCHANGED accountVars
      BY <1>2, <2>2, EventSyncFine
    <2>3. CASE AccountsNext(k) /\ UNCHANGED remote
      BY <1>2, <2>3, AccountsFine
    <2> QED BY <1>2, <2>1, <2>2, <2>3 DEF Handle
  <1> QED BY <1>1, <1>2 DEF Step

(* Time passes, and no request moves.                                      *)
LEMMA TickKeeps ==
    ASSUME Inv, Tick, Noticed
    PROVE  Inv'
  <1>1. /\ UNCHANGED <<db, calls, scenario, made, failures, origin, homes, kept, remote, cache>>
        /\ now < Scenarios[scenario].time /\ now' = now + 1
    BY DEF Tick, bounds, ghostVars, accountVars
  <1>2. Bounded'
    BY <1>1, ScenariosAssumption DEF Inv, Bounded
  <1>3. Met(calls') \subseteq Event \union Account
    <2>1. \A k \in Client : WorksOn(calls[k]) \subseteq Event \union Account
      BY WorksTyped DEF Inv
    <2> QED BY <1>1, <2>1 DEF Met
  <1>4. EventsLost = {} /\ db.synced \ db'.synced = {} /\ \A t : ~Disconnected(t)
    BY <1>1 DEF EventsLost, Disconnected
  <1> QED BY <1>1, <1>2, <1>3, <1>4 DEF Inv, GhostsTyped, Noticed

(* Every step of the server keeps the invariant.                           *)
LEMMA NextKeeps == Inv /\ [Next]_serverVars => Inv'
  <1>1. ASSUME Inv, Next PROVE Inv'
    BY <1>1, StepFine, FineKeeps, TickKeeps DEF Next
  <1>2. ASSUME Inv, UNCHANGED serverVars PROVE Inv'
    BY <1>2 DEF Inv, GhostsTyped, Bounded, serverVars, requestVars, accountVars
  <1> QED BY <1>1, <1>2

(* The tables are consistent and every request under way holds, at each    *)
(* statement, what the rows it read allow it to write: the inductive       *)
(* invariant of the server (Server.Spec: the handlers of crates/api on the *)
(* tables of crates/infra/migrations).                                     *)
THEOREM Inductive == Spec => []Inv
  BY InitInv, NextKeeps, PTL DEF Spec

----------------------------------------------------------------------------
(* What the invariant says                                                 *)

(* The state of the server stays well typed, for every set of ids,         *)
(* scenario and bound.                                                     *)
THEOREM Typing == Spec => []TypeOK
  <1>1. Inv => TypeOK
    BY DEF Inv, GhostsTyped, Bounded, Consistent, TypeOK
  <1> QED BY <1>1, Inductive, PTL

(* The access token and the refresh token of a stored integration are of   *)
(* one grant: a request that renews a token saves both tokens it read,     *)
(* whatever was stored in their place meanwhile                            *)
(* (oauth/get_access_token, user_integration/postgres.rs).                 *)
THEOREM GrantsStayWhole == Spec => []OneGrant
  <1>1. Inv => OneGrant
    BY DEF Inv, Consistent, GrantsWhole, OneGrant
  <1> QED BY <1>1, Inductive, PTL

(* The end and the end of the recurrence that are stored with an event are *)
(* those that follow from its start, duration and recurrence, whatever     *)
(* columns the updates name and in whichever order they are saved.         *)
THEOREM TimesStayDerived == Spec => []TimesDerived
  <1>1. Inv => TimesDerived
    BY DEF Inv, Consistent, EventsDerived, Derived, TimesDerived
  <1> QED BY <1>1, Inductive, PTL

(* A user id that was stored in one account only is at home in that one.   *)
LEMMA SettledIs ==
    ASSUME Inv, NEW u \in User, Settled(u), NEW a \in homes[u], NEW b \in homes[u]
    PROVE  a = b
  <1>1. IsFiniteSet(homes[u])
    BY DEF Inv, GhostsTyped
  <1> QED BY <1>1, FS_Singleton DEF Settled

(* The owner a row is stored with is the owner it was created for: an      *)
(* update saves a row it read in an earlier statement, and no interleaving *)
(* of updates and deletes makes it another user's (OwnersAgree).           *)
THEOREM OwnersStayAgreed == Spec => []OwnersAgree
  <1>1. ASSUME Inv PROVE OwnersAgree
    <2>0. db \in Database /\ Consistent(db, origin, homes)
      BY <1>1 DEF Inv, Consistent
    <2>1. ASSUME NEW u, Stored(db.users, u)
          PROVE  u \in User /\ db.users[u].account \in homes[u]
      BY <2>0, <2>1 DEF Consistent, UsersAtHome, Stored, IdsOf, Database
    <2>2. ASSUME NEW c \in IdsOf(db.calendars)
          PROVE  LET u == db.calendars[c].user
                 IN  Stored(db.users, u) /\ (Settled(u) => db.calendars[c].account = db.users[u].account)
      <3> DEFINE u == db.calendars[c].user
      <3>1. Stored(db.users, u) /\ db.calendars[c].account \in homes[u]
        BY <2>0 DEF Consistent, CalendarsOwned
      <3> HIDE DEF u
      <3> QED BY <1>1, <2>1, <3>1, SettledIs DEF u
    <2>3. ASSUME NEW e \in IdsOf(db.events)
          PROVE  LET row == db.events[e]
                 IN  /\ CalendarOfUser(db, row.calendar, row.user)
                     /\ Settled(row.user) => row.account = db.users[row.user].account
      <3> DEFINE row == db.events[e]
                 u == row.user
      <3>1. CalendarOfUser(db, row.calendar, u) /\ row.account \in homes[u]
        BY <2>0 DEF Consistent, EventsOwned
      <3>2. Stored(db.users, u)
        BY <2>0, <3>1 DEF Consistent, CalendarsOwned, CalendarOfUser, Stored, IdsOf
      <3> HIDE DEF row
      <3> QED BY <1>1, <2>1, <3>1, <3>2, SettledIs DEF row
    <2>4. ASSUME NEW g \in IdsOf(db.grants), Settled(g[1])
          PROVE  db.grants[g].account = db.users[g[1]].account
      <3>1. Stored(db.users, g[1]) /\ db.grants[g].account \in homes[g[1]]
        BY <2>0 DEF Consistent, GrantsPlaced
      <3> QED BY <1>1, <2>1, <2>4, <3>1, SettledIs
    <2> QED BY <2>2, <2>3, <2>4 DEF OwnersAgree
  <1> QED BY <1>1, Inductive, PTL

(* The hosts of a service belong to the account of the service, although   *)
(* the user was read in an earlier statement than the one that adds the    *)
(* host (HostsShareAccount).                                               *)
THEOREM HostsStayInAccount == Spec => []HostsShareAccount
  <1>1. ASSUME Inv, NEW h \in IdsOf(db.hosts), Settled(h[2])
        PROVE  db.services[h[1]].account = db.users[h[2]].account
    <2>1. /\ Stored(db.users, h[2]) /\ db.services[h[1]].account \in homes[h[2]]
          /\ h[2] \in User
      BY <1>1 DEF Inv, Consistent, HostsPlaced, Stored, Database
    <2>2. db.users[h[2]].account \in homes[h[2]]
      BY <1>1, <2>1 DEF Inv, Consistent, UsersAtHome, Stored, IdsOf
    <2> QED BY <1>1, <2>1, <2>2, SettledIs
  <1>2. Inv => HostsShareAccount
    BY <1>1 DEF HostsShareAccount
  <1> QED BY <1>2, Inductive, PTL

(* The calendars, the schedule and the busy calendars a host is planned    *)
(* with are the host's own, although they were checked in earlier          *)
(* statements than the save (PlansAreOwn).                                 *)
THEOREM PlansStayOwn == Spec => []PlansAreOwn
  <1>1. ASSUME Inv PROVE PlansAreOwn
    <2>0. db \in Database /\ Consistent(db, origin, homes)
      BY <1>1 DEF Inv, Consistent
    <2>1. ASSUME NEW h \in IdsOf(db.hosts)
          PROVE  /\ db.hosts[h].calendar # None => CalendarOfUser(db, db.hosts[h].calendar, h[2])
                 /\ db.hosts[h].schedule # None => ScheduleOfUser(db, db.hosts[h].schedule, h[2])
      <3>1. PlanOwned(db.hosts[h], h[2], origin) /\ PlanAccepted(db, db.hosts[h])
        BY <2>0 DEF Consistent, HostsPlaced
      <3> QED BY <2>0, <3>1 DEF Consistent, CalendarsOwned, SchedulesOwned, PlanOwned, PlanAccepted,
                 CalendarOfUser, ScheduleOfUser, Stored, IdsOf
    <2>2. ASSUME NEW b \in db.busy
          PROVE  CalendarOfUser(db, b[3], b[2]) /\ UserDeleteAccepted(db, db.calendars[b[3]].user)
      BY <2>0, UserDeletedKeeps DEF Consistent, BusyOwned
    <2> QED BY <2>1, <2>2 DEF PlansAreOwn
  <1> QED BY <1>1, Inductive, PTL

(* No statement of any request stores a calendar, a schedule, a service or *)
(* an event under an id that was given before.                             *)
THEOREM DeletionsStand == Spec => DeletedStaysDeleted
  <1>1. ASSUME Inv, Next, NEW x \in Owned, origin[x] # None, OwnerIn(db, x) = None
        PROVE  OwnerIn(db', x) = None
    <2>1. db \in Database /\ db' \in Database
      BY <1>1, NextKeeps DEF Inv, Consistent
    <2>2. NoneBut(Fresh, db, db')
      <3>1. CASE \E k \in Client : Step(k)
        BY <1>1, <3>1, StepFine DEF Fine, TablesFine
      <3>2. CASE Tick
        BY <3>2 DEF Tick, NoneBut
      <3> QED BY <1>1, <3>1, <3>2 DEF Next
    <2>3. x \notin Fresh
      BY <1>1 DEF Fresh
    <2>4. x \notin IdsOf(db'.calendars) \union IdsOf(db'.schedules) \union
                   IdsOf(db'.services) \union IdsOf(db'.events)
      BY <1>1, <2>1, <2>2, <2>3, OwnerInTyped DEF NoneBut
    <2> QED BY <2>1, <2>4, OwnerInTyped
  <1>2. ASSUME UNCHANGED serverVars, NEW x \in Owned, OwnerIn(db, x) = None
        PROVE  OwnerIn(db', x) = None
    BY <1>2 DEF serverVars, requestVars
  <1>3. Inv /\ [Next]_serverVars =>
            [\A x \in Owned : origin[x] # None /\ OwnerIn(db, x) = None => OwnerIn(db', x) = None]_serverVars
    BY <1>1, <1>2
  <1> QED BY <1>3, Inductive, PTL DEF Spec, DeletedStaysDeleted
=============================================================================
