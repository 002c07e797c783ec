------------------------------ MODULE Reminders ------------------------------
(***************************************************************************)
(* The event reminder pipeline of the server.                              *)
(*                                                                         *)
(*  - request handlers create, update and delete calendar events and, as a *)
(*    subscriber of the use case, (re)generate the reminders of the event; *)
(*  - a periodic job takes due expansion jobs from the database and        *)
(*    regenerates the reminders of those events;                           *)
(*  - a sender collects every minute the reminders due in the next minute, *)
(*    waits, and posts them to the webhook of the account.                 *)
(*                                                                         *)
(* They share four database tables and no lock: every SQL statement is one *)
(* step here, and all of them interleave.  The only coordination is the    *)
(* row of event_reminder_versions, to which reminders and jobs point with  *)
(* a foreign key that deletes on cascade.                                  *)
(***************************************************************************)
EXTENDS ReminderPlan

CONSTANTS
  Event,        \* ids of calendar events, each issued at most once
  Handler,      \* concurrent API requests
  Run,          \* concurrent runs of the sender (one task is spawned a minute)
  JobInterval,  \* period of the generation job (30 min)
  None,         \* no content: the event row does not exist
  Punctual,     \* TRUE: due work is done before the clock moves on
  MaxTime, MaxUpdates, MaxCrashes, MaxFailures   \* bounds of the exploration

ASSUME DomainAssumption == /\ Event \cap Handler = {}
                           /\ None \notin Content
                           /\ None \notin Event

ASSUME JobIntervalAssumption == JobInterval \in Nat \ {0}

ASSUME BoundAssumption == /\ Punctual \in BOOLEAN
                          /\ {MaxTime, MaxUpdates, MaxCrashes, MaxFailures} \subseteq Nat

VARIABLES
  \* the database
  events,     \* calendar_events: the content of each event, or None
  versions,   \* event_reminder_versions: the version of each event, 0 for no row
  reminders,  \* reminders: the scheduled rows
  jobs,       \* calendar_event_reminder_generation_jobs
  \* the server process
  task,       \* what each request, and each expansion of the job, is doing
  fetched,    \* events of the jobs taken from the table and not yet looked up
  run,        \* what each run of the sender is doing
  nextSend,   \* when the sender ticks next
  nextJob,    \* when the generation job ticks next
  \* the environment
  clock,
  created,    \* the ids already issued
  budget,     \* updates, crashes and failures left
  \* history, read by properties only
  source,     \* content from which the current version was generated
  savedAt,    \* when the content of each event was last written
  taken,      \* reminders a sender has taken from the table
  sent        \* reminders posted to a webhook, with the time of the post

db == <<events, versions, reminders, jobs>>
timers == <<nextSend, nextJob>>
history == <<source, savedAt, taken, sent>>
vars == <<db, task, fetched, run, timers, clock, created, budget, history>>

\* The expansions run by the job are named by their event.
Generator == Handler \cup Event

\* A reminder as the client sees it; the table's primary key.
Key == [event : Event, at : Int, identifier : Identifier]
Row == [event : Event, at : Int, identifier : Identifier, version : Nat]
KeyOf(r) == [event |-> r.event, at |-> r.at, identifier |-> r.identifier]
Keys(rows) == {KeyOf(r) : r \in rows}

RowOf(e, c, v, s) == [event |-> e, at |-> RemindAt(c, s),
                      identifier |-> c.reminders[s.pos].identifier, version |-> v]

Job == [event : Event, at : Nat, version : Nat]

Stage == {"idle", "init", "save", "inc", "commit", "plan", "job", "insert"}
Task == [pc : Stage, event : Event \cup {None}, content : Content \cup {None},
         version : Nat, todo : SUBSET Slot, jobAt : SUBSET Nat]
Idle == [pc |-> "idle", event |-> None, content |-> None,
         version |-> 0, todo |-> {}, jobAt |-> {}]
Start(pc, e, c) == [Idle EXCEPT !.pc = pc, !.event = e, !.content = c]

SenderState == [pc : {"idle", "take", "lookup", "wait"}, due : Nat, batch : SUBSET Key]
IdleRun == [pc |-> "idle", due |-> 0, batch |-> {}]

Budget == [update : Nat, crash : Nat, failure : Nat]

TypeOK ==
  /\ events \in [Event -> Content \cup {None}]
  /\ versions \in [Event -> Nat]
  /\ reminders \subseteq Row
  /\ jobs \subseteq Job
  /\ task \in [Generator -> Task]
  /\ fetched \subseteq Event
  /\ run \in [Run -> SenderState]
  /\ nextSend \in Nat
  /\ nextJob \in Nat
  /\ clock \in Nat
  /\ created \subseteq Event
  /\ budget \in Budget
  /\ source \in [Event -> Content \cup {None}]
  /\ savedAt \in [Event -> Nat]
  /\ taken \subseteq Key
  /\ sent \subseteq [key : Key, time : Nat]

\* The server starts on an empty database; the sender waits for the next full
\* minute, the first tick of the generation job is immediate.
Init ==
  /\ events = [e \in Event |-> None]
  /\ versions = [e \in Event |-> 0]
  /\ reminders = {}
  /\ jobs = {}
  /\ task = [g \in Generator |-> Idle]
  /\ fetched = {}
  /\ run = [r \in Run |-> IdleRun]
  /\ clock = 0
  /\ nextSend = StartDelay(0, 0)
  /\ nextJob = 0
  /\ created = {}
  /\ budget = [update |-> MaxUpdates, crash |-> MaxCrashes, failure |-> MaxFailures]
  /\ source = [e \in Event |-> None]
  /\ savedAt = [e \in Event |-> 0]
  /\ taken = {}
  /\ sent = {}

-----------------------------------------------------------------------------
(* Requests.                                                               *)

\* POST of an event: the row is inserted, then the subscriber is notified.
CreateEvent(h, e, c) ==
  /\ task[h] = Idle
  /\ e \notin created
  /\ created' = created \cup {e}
  /\ events' = [events EXCEPT ![e] = c]
  /\ savedAt' = [savedAt EXCEPT ![e] = clock]
  /\ task' = [task EXCEPT ![h] = Start("init", e, c)]
  /\ UNCHANGED <<versions, reminders, jobs, fetched, run, timers, clock, budget,
                 source, taken, sent>>

\* The first version of the event; the foreign key refuses a deleted event.
InitVersion(g) ==
  LET e == task[g].event
  IN  /\ task[g].pc = "init"
      /\ IF events[e] # None
         THEN /\ versions' = [versions EXCEPT ![e] = 1]
              /\ source' = [source EXCEPT ![e] = task[g].content]
              /\ task' = [task EXCEPT ![g] = [@ EXCEPT !.pc = "plan", !.version = 1]]
         ELSE /\ task' = [task EXCEPT ![g] = Idle]
              /\ UNCHANGED <<versions, source>>
      /\ UNCHANGED <<events, reminders, jobs, fetched, run, timers, clock, created,
                     budget, savedAt, taken, sent>>

\* PUT of an event, first half: the handler has read the event and computed
\* the new content.
UpdateRead(h, e, c) ==
  /\ task[h] = Idle
  /\ events[e] # None
  /\ budget.update > 0
  /\ budget' = [budget EXCEPT !.update = @ - 1]
  /\ task' = [task EXCEPT ![h] = Start("save", e, c)]
  /\ UNCHANGED <<db, fetched, run, timers, clock, created, history>>

\* Second half: UPDATE writes the whole row.  It matches no row when the event
\* is gone, which is not an error, so the subscriber runs in either case.
UpdateSave(g) ==
  LET e == task[g].event
  IN  /\ task[g].pc = "save"
      /\ IF events[e] # None
         THEN /\ events' = [events EXCEPT ![e] = task[g].content]
              /\ savedAt' = [savedAt EXCEPT ![e] = clock]
         ELSE UNCHANGED <<events, savedAt>>
      /\ task' = [task EXCEPT ![g].pc = "inc"]
      /\ UNCHANGED <<versions, reminders, jobs, fetched, run, timers, clock, created,
                     budget, source, taken, sent>>

\* DELETE of an event (or of its calendar or user): everything that belongs to
\* it goes on cascade.
DeleteEvent(e) ==
  /\ events[e] # None
  /\ events' = [events EXCEPT ![e] = None]
  /\ versions' = [versions EXCEPT ![e] = 0]
  /\ reminders' = {r \in reminders : r.event # e}
  /\ jobs' = {j \in jobs : j.event # e}
  /\ UNCHANGED <<task, fetched, run, timers, clock, created, budget, history>>

-----------------------------------------------------------------------------
(* Generation of reminders, by a request or by the job.                    *)

\* inc_version starts: the statement's snapshot holds this version row.  If it
\* holds none there is nothing to increment and fetch_one is an error.
IncStart(g) ==
  LET v == versions[task[g].event]
  IN  /\ task[g].pc = "inc"
      /\ task' = [task EXCEPT ![g] = IF v = 0 THEN Idle
                                     ELSE [@ EXCEPT !.pc = "commit", !.version = v]]
      /\ UNCHANGED <<db, fetched, run, timers, clock, created, budget, history>>

\* inc_version commits: the row is replaced by the next version, and the
\* reminders and the job of the old version go on cascade.  If another
\* statement deleted the row in the meantime this one inserts nothing, and
\* fetch_one is an error.
IncCommit(g) ==
  LET e == task[g].event
      v == task[g].version
  IN  /\ task[g].pc = "commit"
      /\ IF versions[e] = v
         THEN /\ versions' = [versions EXCEPT ![e] = v + 1]
              /\ reminders' = {r \in reminders : r.event # e}
              /\ jobs' = {j \in jobs : j.event # e}
              /\ source' = [source EXCEPT ![e] = task[g].content]
              /\ task' = [task EXCEPT ![g] = [@ EXCEPT !.pc = "plan", !.version = v + 1]]
         ELSE /\ task' = [task EXCEPT ![g] = Idle]
              /\ UNCHANGED <<versions, reminders, jobs, source>>
      /\ UNCHANGED <<events, fetched, run, timers, clock, created, budget,
                     savedAt, taken, sent>>

\* A task with nothing left to insert is done.
Proceed(t) == IF t.jobAt # {} THEN [t EXCEPT !.pc = "job"]
              ELSE IF t.todo # {} THEN [t EXCEPT !.pc = "insert"]
              ELSE Idle

\* The calendar is found, the clock is read, the reminders are computed.
Plan(g) ==
  LET c == task[g].content
  IN  /\ task[g].pc = "plan"
      /\ task' = [task EXCEPT ![g] = Proceed([@ EXCEPT !.todo = Slots(c, clock),
                                                       !.jobAt = JobTimes(c, clock)])]
      /\ UNCHANGED <<db, fetched, run, timers, clock, created, budget, history>>

\* An expansion job is stored if its version still exists; failing to store it
\* is logged and no more.
InsertJob(g) ==
  LET t == task[g]
      stored == {[event |-> t.event, at |-> d, version |-> t.version] : d \in t.jobAt}
  IN  /\ t.pc = "job"
      /\ \/ /\ versions[t.event] = t.version
            /\ \A j \in jobs : j.event # t.event
            /\ jobs' = jobs \cup stored
            /\ UNCHANGED budget
         \/ /\ \/ versions[t.event] # t.version
               \/ \E j \in jobs : j.event = t.event
            /\ UNCHANGED <<jobs, budget>>
         \/ /\ budget.failure > 0
            /\ budget' = [budget EXCEPT !.failure = @ - 1]
            /\ UNCHANGED jobs
      /\ task' = [task EXCEPT ![g] = Proceed([@ EXCEPT !.jobAt = {}])]
      /\ UNCHANGED <<events, versions, reminders, fetched, run, timers, clock,
                     created, history>>

\* Mutant of Accepted: rows do not refer to their version.
AcceptedUnversioned(x) == KeyOf(x) \notin Keys(reminders)

\* The foreign key and the primary key of the table.
Accepted(x) == versions[x.event] = x.version /\ KeyOf(x) \notin Keys(reminders)

\* bulk_insert: one row at a time, in order.  The first row refused ends the task.
InsertRow(g) ==
  LET t == task[g]
  IN  /\ t.pc = "insert"
      /\ \E s \in t.todo :
           LET r == RowOf(t.event, t.content, t.version, s)
           IN  /\ \A x \in t.todo : Precedes(s, x)
               /\ IF Accepted(r)
                  THEN /\ reminders' = reminders \cup {r}
                       /\ task' = [task EXCEPT ![g] = Proceed([t EXCEPT !.todo = t.todo \ {s}])]
                  ELSE /\ task' = [task EXCEPT ![g] = Idle]
                       /\ UNCHANGED reminders
      /\ UNCHANGED <<events, versions, jobs, fetched, run, timers, clock, created,
                     budget, history>>

\* Any other statement of a task may fail; the error is logged and the task
\* ends where it is.
StorageError(g) ==
  /\ task[g].pc \notin {"idle", "job"}
  /\ budget.failure > 0
  /\ budget' = [budget EXCEPT !.failure = @ - 1]
  /\ task' = [task EXCEPT ![g] = Idle]
  /\ UNCHANGED <<db, fetched, run, timers, clock, created, history>>

-----------------------------------------------------------------------------
(* The generation job.                                                     *)

JobIdle == fetched = {} /\ \A e \in Event : task[e] = Idle

\* Every JobInterval the due jobs are deleted from the table and returned.
JobTick ==
  LET due == {j \in jobs : j.at <= clock}
  IN  /\ JobIdle
      /\ clock >= nextJob
      /\ nextJob' = nextJob + JobInterval
      /\ jobs' = jobs \ due
      /\ fetched' = {j.event : j \in due}
      /\ UNCHANGED <<events, versions, reminders, task, run, nextSend, clock, created,
                     budget, history>>

\* Their events are read, all at once, and each is regenerated concurrently
\* from the content read here.
JobFind ==
  /\ fetched # {}
  /\ fetched' = {}
  /\ task' = [g \in Generator |-> IF g \in fetched /\ events[g] # None
                                  THEN Start("inc", g, events[g])
                                  ELSE task[g]]
  /\ UNCHANGED <<db, run, timers, clock, created, budget, history>>

\* The query of the events fails: the use case returns, the jobs are gone.
JobFindFails ==
  /\ fetched # {}
  /\ budget.failure > 0
  /\ budget' = [budget EXCEPT !.failure = @ - 1]
  /\ fetched' = {}
  /\ UNCHANGED <<db, task, run, timers, clock, created, history>>

-----------------------------------------------------------------------------
(* The sender.                                                             *)

\* Mutant of Deadline: a run collects a minute too far ahead.
DeadlineTwice == clock + 2 * Minute

\* A run that begins now posts its reminders in a minute.
Deadline == clock + Minute

\* Every minute a run is spawned; it collects up to one minute ahead.
SendTick(r) ==
  /\ run[r] = IdleRun
  /\ clock >= nextSend
  /\ nextSend' = nextSend + Minute
  /\ run' = [run EXCEPT ![r] = [@ EXCEPT !.pc = "take", !.due = Deadline]]
  /\ UNCHANGED <<db, task, fetched, nextJob, clock, created, budget, history>>

\* Mutant of Collected: only what is due at the deadline is collected.
CollectedExactly(r) == {x \in reminders : x.at = run[r].due}

Collected(r) == {x \in reminders : x.at <= run[r].due}

\* The reminders due by then are deleted from the table and returned.
Take(r) ==
  LET rows == Collected(r)
  IN  /\ run[r].pc = "take"
      /\ reminders' = reminders \ rows
      /\ taken' = taken \cup Keys(rows)
      /\ run' = [run EXCEPT ![r] = [@ EXCEPT !.pc = "lookup", !.batch = Keys(rows)]]
      /\ UNCHANGED <<events, versions, jobs, task, fetched, timers, clock, created,
                     budget, source, savedAt, sent>>

\* Their events are read; those without an event are dropped.
Lookup(r) ==
  /\ run[r].pc = "lookup"
  /\ run' = [run EXCEPT ![r] =
               LET found == {k \in @.batch : events[k.event] # None}
               IN  IF found = {} THEN IdleRun
                   ELSE [@ EXCEPT !.pc = "wait", !.batch = found]]
  /\ UNCHANGED <<db, task, fetched, timers, clock, created, budget, history>>

\* A query of the sender fails: the run returns, what it has taken is gone.
\* (Not after the last tick of the exploration.)
SenderFails(r) ==
  /\ run[r].pc \in {"take", "lookup"}
  /\ nextSend <= MaxTime
  /\ budget.failure > 0
  /\ budget' = [budget EXCEPT !.failure = @ - 1]
  /\ run' = [run EXCEPT ![r] = IdleRun]
  /\ UNCHANGED <<db, task, fetched, timers, clock, created, history>>

\* Mutants of Expired: a run does not wait, or waits twice.
ExpiredAtOnce(r) == TRUE
ExpiredTwice(r) == clock >= run[r].due + Minute

Expired(r) == clock >= run[r].due

\* At the end of its minute the run posts its reminders.  A failed post is
\* logged and not repeated.
Send(r) ==
  /\ run[r].pc = "wait"
  /\ Expired(r)
  /\ sent' = sent \cup {[key |-> k, time |-> clock] : k \in run[r].batch}
  /\ run' = [run EXCEPT ![r] = IdleRun]
  /\ UNCHANGED <<db, task, fetched, timers, clock, created, budget, source, savedAt,
                 taken>>

-----------------------------------------------------------------------------
(* The environment.                                                        *)

\* The process dies between any two steps and is started again (with time left
\* for its first minute to begin).
Crash ==
  /\ budget.crash > 0
  /\ clock + Minute <= MaxTime
  /\ budget' = [budget EXCEPT !.crash = @ - 1]
  /\ task' = [g \in Generator |-> Idle]
  /\ fetched' = {}
  /\ run' = [r \in Run |-> IdleRun]
  /\ nextSend' = clock + StartDelay(clock, 0)
  /\ nextJob' = clock
  /\ UNCHANGED <<db, clock, created, history>>

\* Nothing is waiting for the processor or for a timer that has fired.
NothingDue ==
  /\ \A g \in Generator : task[g] = Idle
  /\ fetched = {}
  /\ clock < nextSend
  /\ clock < nextJob
  /\ \A r \in Run : run[r].pc = "idle" \/ (run[r].pc = "wait" /\ ~Expired(r))

Tick ==
  /\ clock < MaxTime
  /\ Punctual => NothingDue
  /\ clock' = clock + 1
  /\ UNCHANGED <<db, task, fetched, run, timers, created, budget, history>>

-----------------------------------------------------------------------------
Request ==
  \/ \E h \in Handler, e \in Event, c \in Content : CreateEvent(h, e, c) \/ UpdateRead(h, e, c)
  \/ \E e \in Event : DeleteEvent(e)

Generate(g) == \/ InitVersion(g) \/ UpdateSave(g) \/ IncStart(g) \/ IncCommit(g)
               \/ Plan(g) \/ InsertJob(g) \/ InsertRow(g)

Sender(r) == SendTick(r) \/ Take(r) \/ Lookup(r) \/ Send(r)

Fault == \/ \E g \in Generator : StorageError(g)
         \/ \E r \in Run : SenderFails(r)
         \/ JobFindFails
         \/ Crash

Next ==
  \/ Request
  \/ \E g \in Generator : Generate(g)
  \/ JobTick
  \/ JobFind
  \/ \E r \in Run : Sender(r)
  \/ Fault
  \/ Tick

Spec == Init /\ [][Next]_vars

\* Requests and faults are never obliged to happen; the tasks of the runtime,
\* its timers and the clock keep going.
Fairness == /\ \A g \in Generator : WF_vars(Generate(g))
            /\ \A r \in Run : WF_vars(Sender(r))
            /\ WF_vars(JobTick)
            /\ WF_vars(JobFind)
            /\ WF_vars(Tick)

FairSpec == Spec /\ Fairness

-----------------------------------------------------------------------------
(* Properties.                                                             *)

SentKeys == {x.key : x \in sent}

\* No reminder is handed to the sender twice: what it has taken from the table
\* is not put back by any later generation (Reminder::version, and the 61 s
\* margin of create_event_reminders against the 60 s of the sender), no two
\* runs of the sender hold the same reminder, and none posts it again.
AtMostOnce ==
  /\ Keys(reminders) \cap taken = {}
  /\ \A r \in Run : run[r].batch \cap SentKeys = {}
  /\ \A r, q \in Run : r # q => run[r].batch \cap run[q].batch = {}
  /\ \A x, y \in sent : x.key = y.key => x = y

\* No reminder is posted before its time (GetUpcomingRemindersUseCase returns
\* the instant to wait for), whatever happened to the run in between.
NeverEarly == \A x \in sent : x.key.at <= x.time

\* The rows of an event all come from one content, the one whose generator
\* obtained the current version: a superseded generator adds nothing any more
\* (comment on event_reminder_versions).
SingleSource ==
  \A x \in reminders :
    LET c == source[x.event]
    IN  /\ c # None
        /\ \E s \in SlotsOf(c, c.occ) : x = RowOf(x.event, c, versions[x.event], s)

\* No request, job or expansion is working on the event.
Quiet(e) == e \notin fetched /\ \A g \in Generator : task[g].event # e

SlotKey(e, c, s) == [event |-> e, at |-> RemindAt(c, s),
                     identifier |-> c.reminders[s.pos].identifier]

\* "User defined identifier to be able to separate reminders at same timestamp
\* for the same event": the client has chosen identifiers that do so.
DistinctReminders ==
  \A c \in Content : \A s, t \in SlotsOf(c, c.occ) :
    /\ RemindAt(c, s) = RemindAt(c, t)
    /\ c.reminders[s.pos].identifier = c.reminders[t.pos].identifier
    => s = t

\* Once nothing works on an event any more, its scheduled reminders are those
\* of its stored content.
FreshWhenQuiet ==
  \A e \in Event : Quiet(e) /\ events[e] # None =>
    \A x \in reminders : x.event = e =>
      \E s \in SlotsOf(events[e], events[e].occ) : KeyOf(x) = SlotKey(e, events[e], s)

\* Once nothing works on an event any more, each of its reminders that was due
\* late enough when the event was written is scheduled, or has been collected,
\* or an expansion job is there to generate it.
NothingForgotten ==
  \A e \in Event : Quiet(e) /\ events[e] # None =>
    \/ \E j \in jobs : j.event = e
    \/ \A s \in SlotsOf(events[e], events[e].occ) :
         RemindAt(events[e], s) > savedAt[e] + Margin
           => SlotKey(e, events[e], s) \in Keys(reminders) \cup taken

\* Every reminder that was due late enough when its event was written is
\* posted within a minute after its time.
SentOnTime ==
  \A e \in Event : events[e] # None =>
    \A s \in SlotsOf(events[e], events[e].occ) :
      /\ RemindAt(events[e], s) > savedAt[e] + Margin
      /\ RemindAt(events[e], s) + Minute <= clock
      => \E x \in sent : /\ x.key = SlotKey(e, events[e], s)
                         /\ x.time < x.key.at + Minute

\* The pipeline keeps the promise of ReminderDelivery: the table is what is
\* scheduled, what a sender has deleted from it is accepted, posts announce.
Delivery == INSTANCE ReminderDelivery
  WITH Reminder <- Key, At <- LAMBDA k : k.at, Lead <- Minute,
       now <- clock, scheduled <- Keys(reminders), accepted <- taken, announced <- sent

KeepsPromise == Delivery!Spec

\* A reminder whose time has come does not stay in the table: some run of the
\* sender collects it, or a later generation replaces it.
DueIsCollected == []<>(\A x \in reminders : x.at > clock)

=============================================================================
