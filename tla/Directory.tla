----------------------------- MODULE Directory ------------------------------
(***************************************************************************)
(* Users, their calendars and schedules, the services of an account and    *)
(* the hosts of a service (crates/api/src/{user,calendar,schedule,service}).*)
(* Each action is a use case; its disjuncts are its statements.            *)
(***************************************************************************)
EXTENDS Requests

DirectoryUnchanged == UNCHANGED <<bounds, now, ghostVars>>

(* A find that decides whether the use case goes on *)
Find(k, op, found, step, row) ==
    /\ At(k, op, "find")
    /\ IF found THEN Proceed(k, step, row) ELSE Answer(k)
    /\ UNCHANGED db
    /\ DirectoryUnchanged

(* A statement that changes the database, or is refused by a key or a     *)
(* foreign key, which the use case answers as an error                     *)
Write(k, op, accepted, result) ==
    /\ At(k, op, "write")
    /\ Answer(k)
    /\ db' = IF accepted THEN result ELSE db
    /\ UNCHANGED <<bounds, now>>

(* A save of the whole row that was read, with the fields named replaced  *)
Save(k, op, id, table, accepted, result) ==
    /\ Write(k, op, accepted, result)
    /\ IF accepted /\ Stored(table, id) THEN Keeps(id, calls[k].patch, calls[k].row, table[id])
                            ELSE UNCHANGED kept
    /\ UNCHANGED <<origin, homes>>

NewRow(id) == [kept EXCEPT ![id] = [f \in Field |-> None]]

----------------------------------------------------------------------------
(* Users.  A client may give the id of a user it creates; ids of the other *)
(* entities are drawn by the server and never drawn again.                 *)

CreateUser(k) ==
    LET q == calls[k] IN
    \/ Find(k, "CreateUser", ~Stored(db.users, q.user) /\ ~ExternalTaken(db, q.user, q.key), "write",
            [account |-> q.account, external |-> q.key, data |-> [f \in Field |-> q.patch[f]]])
    \/ /\ Write(k, "CreateUser", UserInsertAccepted(db, q.user, q.row),
                UserInserted(db, q.user, q.row))
       /\ IF UserInsertAccepted(db, q.user, q.row)
          THEN homes' = [homes EXCEPT ![q.user] = @ \union {q.account}] /\ kept' = NewRow(q.user)
          ELSE UNCHANGED <<homes, kept>>
       /\ UNCHANGED origin

UpdateUser(k) ==
    LET q == calls[k]
        row == [Merged(q.row, q.patch) EXCEPT !.external = IF q.key = None THEN @ ELSE q.key]
    IN
    \/ Find(k, "UpdateUser", UserInAccount(db, q.user, q.account), "write", db.users[q.user])
    \/ Save(k, "UpdateUser", q.user, db.users, UserSaveAccepted(db, q.user, row),
            UserSaved(db, q.user, row))

DeleteUser(k) ==
    LET q == calls[k] IN
    \/ Find(k, "DeleteUser", UserInAccount(db, q.user, q.account), "write", None)
    \/ /\ Write(k, "DeleteUser", UserDeleteAccepted(db, q.user), UserDeleted(db, q.user))
       /\ UNCHANGED ghostVars

----------------------------------------------------------------------------
(* Calendars *)

CreateCalendar(k) ==
    LET q == calls[k]
        row == [user |-> q.user, account |-> q.account, key |-> q.key,
                data |-> [f \in Field |-> q.patch[f]]]
    IN
    \E c \in {x \in Calendar : origin[x] = None} :
        /\ At(k, "CreateCalendar", "find")
        /\ Answer(k)
        /\ IF CalendarInsertAccepted(db, row)
           THEN /\ db' = CalendarInserted(db, c, row)
                /\ origin' = [origin EXCEPT ![c] = q.user]
                /\ kept' = NewRow(c)
           ELSE UNCHANGED <<db, origin, kept>>
        /\ UNCHANGED <<bounds, now, homes>>

UpdateCalendar(k) ==
    LET q == calls[k] IN
    \/ Find(k, "UpdateCalendar", CalendarOfUser(db, q.calendar, q.user), "write",
            db.calendars[q.calendar])
    \/ Save(k, "UpdateCalendar", q.calendar, db.calendars, TRUE,
            CalendarSaved(db, q.calendar, Merged(q.row, q.patch)))

(* A calendar that is a busy calendar of a host is not deleted            *)
DeleteCalendar(k) ==
    LET q == calls[k] IN
    \/ Find(k, "DeleteCalendar", CalendarOfUser(db, q.calendar, q.user), "write", None)
    \/ /\ Write(k, "DeleteCalendar", CalendarDeleteAccepted(db, q.calendar),
                CalendarDeleted(db, q.calendar))
       /\ UNCHANGED ghostVars

----------------------------------------------------------------------------
(* Schedules *)

CreateSchedule(k) ==
    LET q == calls[k] IN
    \/ Find(k, "CreateSchedule", UserInAccount(db, q.user, q.account), "write",
            [user |-> q.user, data |-> [f \in Field |-> q.patch[f]]])
    \/ \E s \in {x \in Schedule : origin[x] = None} :
        /\ Write(k, "CreateSchedule", ScheduleInsertAccepted(db, q.user),
                 ScheduleInserted(db, s, q.row))
        /\ IF ScheduleInsertAccepted(db, q.user)
           THEN origin' = [origin EXCEPT ![s] = q.user] /\ kept' = NewRow(s)
           ELSE UNCHANGED <<origin, kept>>
        /\ UNCHANGED homes

UpdateSchedule(k) ==
    LET q == calls[k] IN
    \/ Find(k, "UpdateSchedule", ScheduleOfUser(db, q.schedule, q.user), "write",
            db.schedules[q.schedule])
    \/ Save(k, "UpdateSchedule", q.schedule, db.schedules, TRUE,
            ScheduleSaved(db, q.schedule, Merged(q.row, q.patch)))

DeleteSchedule(k) ==
    LET q == calls[k] IN
    \/ Find(k, "DeleteSchedule", ScheduleOfUser(db, q.schedule, q.user), "write", None)
    \/ /\ Write(k, "DeleteSchedule", TRUE, ScheduleDeleted(db, q.schedule))
       /\ UNCHANGED ghostVars

----------------------------------------------------------------------------
(* Services and their hosts *)

CreateService(k) ==
    LET q == calls[k] IN
    \E v \in {x \in Service : origin[x] = None} :
        /\ At(k, "CreateService", "find")
        /\ Answer(k)
        /\ db' = ServiceInserted(db, v, [account |-> q.account,
                                         data |-> [f \in Field |-> q.patch[f]]])
        /\ origin' = [origin EXCEPT ![v] = q.account]
        /\ kept' = NewRow(v)
        /\ UNCHANGED <<bounds, now, homes>>

DeleteService(k) ==
    LET q == calls[k] IN
    \/ Find(k, "DeleteService", ServiceInAccount(db, q.service, q.account), "write", None)
    \/ /\ Write(k, "DeleteService", TRUE, ServiceDeleted(db, q.service))
       /\ UNCHANGED ghostVars

\* Mutant of PlanChecked: a calendar or schedule of anybody will do.
PlanFound(q) ==
    /\ q.calendar # None => Stored(db.calendars, q.calendar)
    /\ q.schedule # None => Stored(db.schedules, q.schedule)
(* update_resource_values: the calendar or schedule of a new time plan is  *)
(* looked up and must belong to the host                                   *)
PlanChecked(q) ==
    /\ q.calendar # None => CalendarOfUser(db, q.calendar, q.user)
    /\ q.schedule # None => ScheduleOfUser(db, q.schedule, q.user)
(* A request that names no plan leaves it as it is *)
Planned(row, q) ==
    IF q.calendar = None /\ q.schedule = None THEN row
    ELSE [row EXCEPT !.calendar = q.calendar, !.schedule = q.schedule]

CheckPlan(k, op) ==
    LET q == calls[k] IN
    /\ At(k, op, "plan")
    /\ IF PlanChecked(q) THEN Proceed(k, "write", Planned(q.row, q)) ELSE Answer(k)
    /\ UNCHANGED db /\ DirectoryUnchanged

AddUserToService(k) ==
    LET q == calls[k] IN
    \/ Find(k, "AddUserToService", UserInAccount(db, q.user, q.account), "service", None)
    \/ /\ At(k, "AddUserToService", "service")
       /\ IF ServiceInAccount(db, q.service, q.account)
          THEN Proceed(k, "plan", [calendar |-> None, schedule |-> None])
          ELSE Answer(k)
       /\ UNCHANGED db /\ DirectoryUnchanged
    \/ CheckPlan(k, "AddUserToService")
    \/ /\ Write(k, "AddUserToService", HostInsertAccepted(db, q.service, q.user, q.row),
                HostInserted(db, q.service, q.user, q.row))
       /\ UNCHANGED ghostVars

UpdateServiceUser(k) ==
    LET q == calls[k] IN
    \/ Find(k, "UpdateServiceUser", ServiceInAccount(db, q.service, q.account), "host", None)
    \/ /\ At(k, "UpdateServiceUser", "host")
       /\ IF Stored(db.hosts, <<q.service, q.user>>)
          THEN Proceed(k, "plan", db.hosts[<<q.service, q.user>>])
          ELSE Answer(k)
       /\ UNCHANGED db /\ DirectoryUnchanged
    \/ CheckPlan(k, "UpdateServiceUser")
    \/ /\ Write(k, "UpdateServiceUser", HostSaveAccepted(db, q.service, q.user, q.row),
                HostSaved(db, q.service, q.user, q.row))
       /\ UNCHANGED ghostVars

(* The repository deletes the host's busy calendars and then the host, in  *)
(* two statements                                                          *)
RemoveUserFromService(k) ==
    LET q == calls[k] IN
    \/ Find(k, "RemoveUserFromService", ServiceInAccount(db, q.service, q.account), "busy", None)
    \/ /\ At(k, "RemoveUserFromService", "busy")
       /\ db' = HostBusyDeleted(db, q.service, q.user)
       /\ Goto(k, "write")
       /\ DirectoryUnchanged
    \/ /\ Write(k, "RemoveUserFromService", TRUE, HostDeleted(db, q.service, q.user))
       /\ UNCHANGED ghostVars

(* Neither this use case nor the next looks at the account of the service. *)
(* A lookup that fails counts as "does not exist".                         *)
AddBusyCalendar(k) ==
    LET q == calls[k] IN
    \/ Find(k, "AddBusyCalendar", UserInAccount(db, q.user, q.account), "exists", None)
    \/ /\ At(k, "AddBusyCalendar", "exists")
       /\ \/ /\ IF BusyExists(db, q.service, q.user, q.calendar) THEN Answer(k) ELSE Goto(k, "owner")
             /\ UNCHANGED failures
          \/ MayFail /\ failures' = failures + 1 /\ Goto(k, "owner")
       /\ UNCHANGED <<db, scenario, made, now, ghostVars>>
    \/ /\ At(k, "AddBusyCalendar", "owner")
       /\ IF CalendarOfUser(db, q.calendar, q.user) THEN Goto(k, "write") ELSE Answer(k)
       /\ UNCHANGED db /\ DirectoryUnchanged
    \/ /\ Write(k, "AddBusyCalendar", BusyInsertAccepted(db, q.service, q.user, q.calendar),
                BusyInserted(db, q.service, q.user, q.calendar))
       /\ UNCHANGED ghostVars

RemoveBusyCalendar(k) ==
    LET q == calls[k] IN
    \/ Find(k, "RemoveBusyCalendar", UserInAccount(db, q.user, q.account), "exists", None)
    \/ /\ At(k, "RemoveBusyCalendar", "exists")
       /\ IF BusyExists(db, q.service, q.user, q.calendar) THEN Goto(k, "write") ELSE Answer(k)
       /\ UNCHANGED db /\ DirectoryUnchanged
    \/ /\ Write(k, "RemoveBusyCalendar", TRUE, BusyDeleted(db, q.service, q.user, q.calendar))
       /\ UNCHANGED ghostVars

OwnedOps ==
    {"CreateUser", "UpdateUser", "DeleteUser", "CreateCalendar", "UpdateCalendar",
     "DeleteCalendar", "CreateSchedule", "UpdateSchedule", "DeleteSchedule"}
ServiceOps ==
    {"CreateService", "DeleteService", "AddUserToService", "UpdateServiceUser",
     "RemoveUserFromService", "AddBusyCalendar", "RemoveBusyCalendar"}

DirectoryNext(k) ==
    \/ /\ calls[k].op \in OwnedOps
       /\ \/ CreateUser(k) \/ UpdateUser(k) \/ DeleteUser(k)
          \/ CreateCalendar(k) \/ UpdateCalendar(k) \/ DeleteCalendar(k)
          \/ CreateSchedule(k) \/ UpdateSchedule(k) \/ DeleteSchedule(k)
    \/ /\ calls[k].op \in ServiceOps
       /\ \/ CreateService(k) \/ DeleteService(k)
          \/ AddUserToService(k) \/ UpdateServiceUser(k) \/ RemoveUserFromService(k)
          \/ AddBusyCalendar(k) \/ RemoveBusyCalendar(k)
=============================================================================
