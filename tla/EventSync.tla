----------------------------- MODULE EventSync ------------------------------
(***************************************************************************)
(* The events of calendars and their copies at Google and Outlook          *)
(* (event/create_event, create_batch_events, update_event, delete_event,   *)
(* delete_many_events, event/subscribers).  A copy is made by a subscriber *)
(* after the event was stored and is remembered in a row of its own; later *)
(* requests find the copies through those rows.  An error of a subscriber  *)
(* is logged: the request is answered all the same.  The providers are     *)
(* external.  Reminders, the other subscribers, are in Reminders.          *)
(***************************************************************************)
EXTENDS Integrations

CONSTANT DisableReminders   \* a switch that silences all the subscribers

VARIABLE remote     \* what the providers hold, by the id they gave it

(* A copy knows its event, and whether it is still there *)
RemoteEvent == [event : Event, calendar : Calendar, data : Data, there : BOOLEAN]
(* An id that was not given out stands for no copy *)
ASSUME NoneIsNoCopy == None \notin RemoteEvent

SyncUnchanged == UNCHANGED <<scenario, made, now, ghostVars>>

Provided(rows, p) == {r \in rows : r.provider = p}
(* Outlook before Google *)
FirstProvider(rows) ==
    IF Provided(rows, "outlook") # {} THEN "outlook" ELSE "google"

(* What is left to do once the copies are dealt with, or given up         *)
AfterCopies(q) ==
    IF q.op = "DeleteEvent" THEN [q EXCEPT !.at = "write", !.todo = {}]
    ELSE IF q.queue = {} THEN None
    ELSE [q EXCEPT !.at = "next", !.todo = {}]
GiveUp(k) == calls' = [calls EXCEPT ![k] = AfterCopies(@)]

\* Mutant of Remaining: the copies at one provider are all that is dealt with.
RemainingOfProvider(q, rows) ==
    IF Provided(rows, q.provider) = {} THEN AfterCopies(q)
    ELSE [q EXCEPT !.at = "connected", !.todo = rows]
(* With `rows` left: the next row of this provider, the other provider, or *)
(* the end                                                                 *)
Remaining(q, rows) ==
    IF rows = {} THEN AfterCopies(q)
    ELSE IF Provided(rows, q.provider) # {} THEN [q EXCEPT !.at = "connected", !.todo = rows]
    ELSE [q EXCEPT !.at = "token", !.todo = rows, !.provider = FirstProvider(rows)]

(* The rows of the event are read, then its user, then a token is obtained *)
FindCopies(k, ops, rows) ==
    /\ calls[k] # None /\ calls[k].op \in ops /\ calls[k].at = "copies"
    /\ \/ /\ IF rows = {} THEN GiveUp(k)
             ELSE calls' = [calls EXCEPT ![k].at = "ownerOfCopies", ![k].todo = rows]
          /\ UNCHANGED failures
       \/ MayFail /\ failures' = failures + 1 /\ GiveUp(k)
    /\ UNCHANGED <<db, remote>> /\ SyncUnchanged

FindCopiesOwner(k) ==
    LET q == calls[k]
    IN  /\ q # None /\ q.at = "ownerOfCopies"
        /\ \/ /\ IF Stored(db.users, q.row.user)
                 THEN calls' = [calls EXCEPT ![k].at = "token", ![k].user = q.row.user,
                                   ![k].account = db.users[q.row.user].account,
                                   ![k].provider = FirstProvider(q.todo)]
                 ELSE GiveUp(k)
              /\ UNCHANGED failures
           \/ MayFail /\ failures' = failures + 1 /\ GiveUp(k)
        /\ UNCHANGED <<db, remote>> /\ SyncUnchanged

Copying(k, ops) == calls[k] # None /\ calls[k].op \in ops /\ calls[k].at = "connected"

----------------------------------------------------------------------------
(* CreateSyncedEventsOnEventCreated: a copy in every synced calendar.      *)

Creates == {"CreateEvent", "CreateBatchEvents"}

CreateCopy(k) ==
    LET q == calls[k] IN
    /\ Copying(k, Creates)
    /\ \E s \in Provided(q.todo, q.provider) :
        \/ \E x \in {y \in ExtEvent : remote[y] = None} :
            /\ remote' = [remote EXCEPT ![x] = [event |-> q.event, calendar |-> q.row.calendar,
                                                data |-> q.row.data, there |-> TRUE]]
            /\ calls' = [calls EXCEPT ![k].at = "record", ![k].sync = [s |-> s, copy |-> x]]
            /\ UNCHANGED failures
        \/ /\ MayFail /\ failures' = failures + 1
           /\ calls' = [calls EXCEPT ![k] = Remaining(q, q.todo \ {s})]
           /\ UNCHANGED remote
    /\ UNCHANGED db /\ SyncUnchanged

RecordCopy(k) ==
    LET q == calls[k]
        row == [event |-> q.event, calendar |-> q.row.calendar, provider |-> q.sync.s.provider,
                ext |-> q.sync.s.ext, copy |-> q.sync.copy]
    IN  /\ q # None /\ q.op \in Creates /\ q.at = "record"
        /\ calls' = [calls EXCEPT ![k] = Remaining([q EXCEPT !.sync = None], q.todo \ {q.sync.s})]
        /\ \/ /\ db' = IF CopyInsertAccepted(db, row) THEN CopyInserted(db, row) ELSE db
              /\ UNCHANGED failures
           \/ MayFail /\ failures' = failures + 1 /\ UNCHANGED db
        /\ UNCHANGED remote /\ SyncUnchanged

(* UpdateSyncedEventsOnEventUpdated and delete_synced_events: the provider *)
(* is told about every copy there is a row of                              *)
Changed(copy, row) == IF copy.there THEN [copy EXCEPT !.data = row.data] ELSE copy

ChangeCopy(k) ==
    LET q == calls[k] IN
    /\ Copying(k, {"UpdateEvent"})
    /\ \E r \in Provided(q.todo, q.provider) :
        /\ calls' = [calls EXCEPT ![k] = Remaining(q, q.todo \ {r})]
        /\ \/ /\ remote' = [remote EXCEPT ![r.copy] = Changed(@, q.row)]
              /\ UNCHANGED failures
           \/ MayFail /\ failures' = failures + 1 /\ UNCHANGED remote
    /\ UNCHANGED db /\ SyncUnchanged

RemoveCopy(k) ==
    LET q == calls[k] IN
    /\ Copying(k, {"DeleteEvent"})
    /\ \E r \in Provided(q.todo, q.provider) :
        /\ calls' = [calls EXCEPT ![k] = Remaining(q, q.todo \ {r})]
        /\ \/ /\ remote' = [remote EXCEPT ![r.copy].there = FALSE]
              /\ UNCHANGED failures
           \/ MayFail /\ failures' = failures + 1 /\ UNCHANGED remote
    /\ UNCHANGED db /\ SyncUnchanged

----------------------------------------------------------------------------
(* The use cases.  Ids of events are drawn by the server, and never again. *)

FreshEvents == {e \in Event : origin[e] = None}
NewEvent(q, c) ==
    [calendar |-> c, user |-> q.user, account |-> q.account, service |-> q.service,
     data |-> [f \in Field |-> q.patch[f]], times |-> Completed(q.times)]

(* The subscribers run unless they are switched off *)
Notify(k, q) ==
    calls' = [calls EXCEPT ![k] = IF DisableReminders THEN None ELSE q]

EventUseCase(k, op, step) == At(k, op, step) /\ UNCHANGED <<bounds, now, homes, remote>>

CreateEvent(k) ==
    LET q == calls[k] IN
    \/ /\ EventUseCase(k, "CreateEvent", "find")
       /\ IF CalendarOfUser(db, q.calendar, q.user) THEN Goto(k, "write") ELSE Answer(k)
       /\ UNCHANGED <<db, origin, kept>>
    \/ \E e \in FreshEvents :
        LET row == NewEvent(q, q.calendar) IN
        /\ EventUseCase(k, "CreateEvent", "write")
        /\ IF EventInsertAccepted(db, row)
           THEN /\ db' = EventInserted(db, e, row)
                /\ origin' = [origin EXCEPT ![e] = q.user]
                /\ Notify(k, [q EXCEPT !.at = "copies", !.event = e, !.row = row])
           ELSE Answer(k) /\ UNCHANGED <<db, origin>>
        /\ UNCHANGED kept

Injective(f) == \A x, y \in DOMAIN f : f[x] = f[y] => x = y

(* An event for each calendar of the request, in one statement.  Their     *)
(* copies are made event after event.                                      *)
CreateBatchEvents(k) ==
    LET q == calls[k] IN
    \/ /\ EventUseCase(k, "CreateBatchEvents", "find")
       /\ IF \A c \in q.queue : CalendarOfUser(db, c, q.user) THEN Goto(k, "write") ELSE Answer(k)
       /\ UNCHANGED <<db, origin, kept>>
    \/ /\ EventUseCase(k, "CreateBatchEvents", "write")
       /\ \E id \in {i \in [q.queue -> FreshEvents] : Injective(i)} :
            LET new == {[event |-> id[c], row |-> NewEvent(q, c)] : c \in q.queue} IN
            IF \A n \in new : EventInsertAccepted(db, n.row)
            THEN /\ db' = EventsInserted(db, new)
                 /\ origin' = [x \in Owned |->
                        IF \E n \in new : n.event = x THEN q.user ELSE origin[x]]
                 /\ Notify(k, [q EXCEPT !.at = "next", !.queue = new])
            ELSE Answer(k) /\ UNCHANGED <<db, origin>>
       /\ UNCHANGED kept
    \/ /\ EventUseCase(k, "CreateBatchEvents", "next")
       /\ \E n \in q.queue :
            calls' = [calls EXCEPT ![k].at = "copies", ![k].event = n.event, ![k].row = n.row,
                                   ![k].queue = @ \ {n}]
       /\ UNCHANGED <<db, origin, kept>>

(* The row the guard has read, or the row the use case finds, with the     *)
(* fields of the request replaced                                          *)
Updating(q) ==
    LET row == Merged(q.row, q.patch)
    IN  [row EXCEPT !.service = IF q.service = None THEN @ ELSE q.service,
                    !.times = IF q.times = None THEN @ ELSE Retimed(@, q.times)]

UpdateEvent(k) ==
    LET q == calls[k] IN
    \/ /\ EventUseCase(k, "UpdateEvent", "guarded")
       /\ IF UserInAccount(db, q.user, q.account) THEN Goto(k, "write") ELSE Answer(k)
       /\ UNCHANGED <<db, origin, kept>>
    \/ /\ EventUseCase(k, "UpdateEvent", "find")
       /\ IF EventOfUser(db, q.event, q.user) THEN Proceed(k, "write", db.events[q.event])
                                              ELSE Answer(k)
       /\ UNCHANGED <<db, origin, kept>>
    \/ /\ EventUseCase(k, "UpdateEvent", "write")
       /\ IF EventSaveAccepted(db, q.event, Updating(q))
          THEN /\ db' = EventSaved(db, q.event, Updating(q))
               /\ Notify(k, [q EXCEPT !.at = "copies", !.row = Updating(q)])
               /\ IF Stored(db.events, q.event)
                  THEN Keeps(q.event, q.patch, q.row, db.events[q.event]) ELSE UNCHANGED kept
          ELSE Answer(k) /\ UNCHANGED <<db, kept>>
       /\ UNCHANGED origin

(* The copies are removed first, then the event and the rows of its copies *)
DeleteEvent(k) ==
    LET q == calls[k]
        Deleting(row) ==
            calls' = [calls EXCEPT ![k].at = IF DisableReminders THEN "write" ELSE "copies",
                                   ![k].row = row]
    IN
    \/ /\ EventUseCase(k, "DeleteEvent", "guarded")
       /\ IF UserInAccount(db, q.user, q.account) THEN Deleting(q.row) ELSE Answer(k)
       /\ UNCHANGED <<db, origin, kept>>
    \/ /\ EventUseCase(k, "DeleteEvent", "find")
       /\ IF EventOfUser(db, q.event, q.user) THEN Deleting(db.events[q.event]) ELSE Answer(k)
       /\ UNCHANGED <<db, origin, kept>>
    \/ /\ EventUseCase(k, "DeleteEvent", "write")
       /\ Answer(k)
       /\ db' = EventsDeleted(db, {q.event})
       /\ UNCHANGED <<origin, kept>>

(* Events of several users of an account, all or none.  Their copies stay. *)
DeleteManyEvents(k) ==
    LET q == calls[k]
        found == q.todo \intersect IdsOf(db.events)
    IN
    \/ /\ EventUseCase(k, "DeleteManyEvents", "find")
       /\ IF q.todo # {} /\ \A e \in found : db.events[e].account = q.account
          THEN calls' = [calls EXCEPT ![k].at = "write", ![k].todo = found]
          ELSE Answer(k)
       /\ UNCHANGED <<db, origin, kept>>
    \/ /\ EventUseCase(k, "DeleteManyEvents", "write")
       /\ Answer(k)
       /\ db' = EventsDeleted(db, q.todo)
       /\ UNCHANGED <<origin, kept>>

EventSyncNext(k) ==
    /\ calls[k].op \in Creates \union {"UpdateEvent", "DeleteEvent", "DeleteManyEvents"}
    /\ \/ CreateEvent(k) \/ CreateBatchEvents(k) \/ UpdateEvent(k)
       \/ DeleteEvent(k) \/ DeleteManyEvents(k)
       \/ FindCopies(k, Creates, SyncsOf(db, calls[k].row.calendar))
       \/ FindCopies(k, {"UpdateEvent", "DeleteEvent"}, CopiesOf(db, calls[k].event))
       \/ FindCopiesOwner(k)
       \/ /\ NeedsToken(k, Creates \union {"UpdateEvent", "DeleteEvent"})
          /\ GetAccessToken(k, GiveUp(k))
          /\ UNCHANGED remote
       \/ CreateCopy(k) \/ RecordCopy(k) \/ ChangeCopy(k) \/ RemoveCopy(k)
=============================================================================
