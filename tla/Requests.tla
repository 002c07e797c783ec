------------------------------ MODULE Requests ------------------------------
(***************************************************************************)
(* Requests of clients, as the server handles them: a request passes a     *)
(* guard and then runs its use case, one statement on the database at a    *)
(* time, while other requests run theirs (crates/api/src/shared/           *)
(* usecase.rs, auth/route_guards.rs, auth/policy.rs).  Nothing is a        *)
(* transaction and nothing is locked between two statements of a request.  *)
(***************************************************************************)
EXTENDS Tables

CONSTANTS
    Client,     \* connections that carry one request at a time
    Server,     \* processes of the server, each with its cache of accounts
    Scenarios   \* what may happen in one behaviour, by name: the databases it
                \* may start from, the requests that may be made and how many
                \* of them, how many statements fail, how much time passes

VARIABLES
    db,         \* the database
    calls,      \* the request on each connection, None when there is none
    scenario,   \* the name of the scenario of this behaviour
    made,       \* how many requests were made
    failures,   \* how many statements failed
    now,        \* the time
    origin,     \* who a calendar, schedule, service or event was created for
    homes,      \* the accounts under which a user id was ever stored
    kept        \* what an answered update promised about each field

bounds == <<scenario, made, failures>>
ghostVars == <<origin, homes, kept>>
requestVars == <<db, calls, scenario, made, failures, now, origin, homes, kept>>

Owned == Calendar \union Schedule \union Service \union Event
Updated == Account \union User \union Owned

ASSUME NoneIsNoServer == None \notin Server

ASSUME ScenariosAssumption ==
    \A s \in DOMAIN Scenarios :
        /\ Scenarios[s].limit \in Nat /\ Scenarios[s].faults \in Nat
        /\ Scenarios[s].time \in Nat

(* What a token of a user may do; None stands for a request that carries   *)
(* the key of its account instead of a token                               *)
Permission ==
    {"CreateCalendar", "DeleteCalendar", "UpdateCalendar",
     "CreateCalendarEvent", "DeleteCalendarEvent", "UpdateCalendarEvent",
     "CreateSchedule", "UpdateSchedule", "DeleteSchedule"}

(* A request: the use case, the statement it is at, what the client named, *)
(* and what the guards and finds of its use case read and keep for later   *)
(* statements: a row, a set of rows, a token, when a provider was asked;   *)
(* the times of an event, and what a query of events has come to.          *)
Blank ==
    [op |-> "none", at |-> "none", server |-> None, policy |-> None, signed |-> None,
     account |-> None, user |-> None, calendar |-> None, schedule |-> None,
     service |-> None, event |-> None, provider |-> None, ext |-> None, key |-> None,
     patch |-> [f \in Field |-> None], row |-> None, todo |-> {}, queue |-> {},
     sync |-> None, grant |-> None, asked |-> None, times |-> None, reading |-> None]

Answer(k) == calls' = [calls EXCEPT ![k] = None]
Goto(k, step) == calls' = [calls EXCEPT ![k].at = step]
Proceed(k, step, row) == calls' = [calls EXCEPT ![k].at = step, ![k].row = row]
At(k, op, step) == calls[k] # None /\ calls[k].op = op /\ calls[k].at = step

(* Fewer faults than the scenario allows happened *)
MayFail == failures < Scenarios[scenario].faults

(* What a save of `row` under `id` promises: the fields the request named. *)
(* The other fields are what it read; if they changed since, what others   *)
(* were promised about them is lost, and the promise with it.              *)
Keeps(id, patch, read, current) ==
    kept' = [kept EXCEPT ![id] = [f \in Field |->
        IF patch[f] # None THEN patch[f]
        ELSE IF current = read THEN @[f] ELSE None]]

----------------------------------------------------------------------------
(* Policy::authorize, and what each use case asks for *)

Permissions(op) ==
    CASE op = "CreateCalendar" -> {"CreateCalendar"}
      [] op = "DeleteCalendar" -> {"DeleteCalendar"}
      [] op \in {"UpdateCalendar", "AddSyncCalendar", "RemoveSyncCalendar"} -> {"UpdateCalendar"}
      [] op = "CreateEvent" -> {"CreateCalendarEvent"}
      [] op = "DeleteEvent" -> {"DeleteCalendarEvent"}
      [] op = "UpdateEvent" -> {"UpdateCalendarEvent"}
      [] op = "CreateSchedule" -> {"CreateSchedule"}
      [] op = "UpdateSchedule" -> {"UpdateSchedule"}
      [] op = "DeleteSchedule" -> {"DeleteSchedule"}
      [] OTHER -> {}

\* Mutant of Authorizes: a token that is allowed everything is refused nothing.
AuthorizesAllFirst(policy, permissions) ==
    \/ permissions = {} \/ "All" \in policy.allow
    \/ /\ "All" \notin policy.reject /\ permissions \intersect policy.reject = {}
       /\ permissions \subseteq policy.allow
Authorizes(policy, permissions) ==
    \/ permissions = {}
    \/ /\ "All" \notin policy.reject /\ permissions \intersect policy.reject = {}
       /\ "All" \in policy.allow \/ permissions \subseteq policy.allow

----------------------------------------------------------------------------
(* The routes: the guard, if any, that a request passes which comes with    *)
(* the key of its account                                                  *)

UserRoutes(op) ==
    CASE op \in {"OAuthIntegration", "RemoveIntegration"} -> "user"
      [] op \in {"GetUserFreeBusy", "GetMultipleFreeBusy"} -> "public"
      [] OTHER -> "find"
CalendarRoutes(op) ==
    CASE op \in {"CreateCalendar", "GetExternalCalendars", "AddSyncCalendar",
                 "RemoveSyncCalendar"} -> "user"
      [] op \in {"UpdateCalendar", "DeleteCalendar", "GetCalendar", "GetCalendarEvents",
                 "ExportIcal"} -> "calendar"
      [] OTHER -> "find"
ScheduleRoutes(op) ==
    CASE op = "CreateSchedule" -> "user"
      [] op \in {"UpdateSchedule", "DeleteSchedule", "GetSchedule"} -> "schedule"
      [] OTHER -> "find"
EventRoutes(op) ==
    CASE op \in {"CreateEvent", "CreateBatchEvents"} -> "user"
      [] op \in {"UpdateEvent", "DeleteEvent", "GetEvent", "GetEventInstances"} -> "event"
      [] OTHER -> "find"
RouteGuard(op) ==
    LET guards == {UserRoutes(op), CalendarRoutes(op), ScheduleRoutes(op), EventRoutes(op)}
    IN  IF guards = {"find"} THEN "find" ELSE CHOOSE g \in guards : g # "find"

(* A request comes with a token of a user, which is checked against the    *)
(* account its header names, or with the key of its account.  Unless the   *)
(* request is about the account itself, the lookup of the key is left out. *)
Entry(q) ==
    IF q.signed # None THEN "account" ELSE IF q.server # None THEN "apikey" ELSE RouteGuard(q.op)

Begin(k) ==
    /\ calls[k] = None /\ made < Scenarios[scenario].limit
    /\ \E q \in Scenarios[scenario].requests :
            calls' = [calls EXCEPT ![k] = [q EXCEPT !.at = Entry(q)]]
    /\ made' = made + 1
    /\ UNCHANGED <<db, scenario, failures, now, ghostVars>>

(* A guard that finds nothing of its account answers "not found"          *)
Refused(k) == Answer(k)

(* The account named by the header of a request of a token, or of anybody. *)
(* Its key is read from the database, and decides on the token later       *)
GuardAccount(k) ==
    LET q == calls[k]
    IN  IF Stored(db.accounts, q.account)
        THEN Proceed(k, IF q.at = "public" THEN "find" ELSE "user", db.accounts[q.account])
        ELSE Refused(k)

(* The user of a token, or account_can_modify_user                         *)
GuardUser(k) ==
    LET q == calls[k]
    IN  IF /\ q.signed # None => q.row.data["key"] = q.signed
           /\ UserInAccount(db, q.user, q.account)
           /\ q.policy # None => Authorizes(q.policy, Permissions(q.op))
        THEN Proceed(k, "find", db.users[q.user])
        ELSE Refused(k)

\* Mutant of GuardCalendar: the account is not compared.
GuardCalendarAny(k) ==
    LET q == calls[k]
    IN  IF Stored(db.calendars, q.calendar)
        THEN calls' = [calls EXCEPT ![k].at = "find", ![k].user = db.calendars[q.calendar].user]
        ELSE Refused(k)
GuardCalendar(k) ==
    LET q == calls[k]
    IN  IF Stored(db.calendars, q.calendar) /\ db.calendars[q.calendar].account = q.account
        THEN calls' = [calls EXCEPT ![k].at = IF q.op = "UpdateCalendar" THEN "user" ELSE "find",
                                    ![k].user = db.calendars[q.calendar].user]
        ELSE Refused(k)

GuardSchedule(k) ==
    LET q == calls[k]
    IN  IF /\ Stored(db.schedules, q.schedule)
           /\ UserInAccount(db, db.schedules[q.schedule].user, q.account)
        THEN calls' = [calls EXCEPT ![k].at = "find",
                                    ![k].user = db.schedules[q.schedule].user]
        ELSE Refused(k)

(* The event a guard has read is handed to the use case *)
GuardEvent(k) ==
    LET q == calls[k]
    IN  IF Stored(db.events, q.event) /\ db.events[q.event].account = q.account
        THEN calls' = [calls EXCEPT ![k].at = "guarded", ![k].row = db.events[q.event],
                                    ![k].user = db.events[q.event].user]
        ELSE Refused(k)

Guard(k) ==
    /\ calls[k] # None
    /\ \/ calls[k].at \in {"account", "public"} /\ GuardAccount(k)
       \/ calls[k].at = "user" /\ GuardUser(k)
       \/ calls[k].at = "calendar" /\ GuardCalendar(k)
       \/ calls[k].at = "schedule" /\ GuardSchedule(k)
       \/ calls[k].at = "event" /\ GuardEvent(k)
    /\ UNCHANGED <<db, bounds, now, ghostVars>>

(* A statement fails, or the process ends: the request gets no further.   *)
StatementFails(k) ==
    /\ calls[k] # None /\ MayFail
    /\ failures' = failures + 1
    /\ Answer(k)
    /\ UNCHANGED <<db, scenario, made, now, ghostVars>>
=============================================================================
