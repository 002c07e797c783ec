--------------------------- MODULE RemindersProofs ---------------------------
(***************************************************************************)
(* Proofs about Reminders for every set of events, requests and senders,   *)
(* every content, and every bound: the types, then the inductive invariant *)
(* of the reminder pipeline, and what follows from it.  No reminder is     *)
(* delivered twice or early, the rows of an event come from one content,   *)
(* and the pipeline implements ReminderDelivery.                           *)
(***************************************************************************)
EXTENDS Reminders, TLAPS

-----------------------------------------------------------------------------
(* The pure part.                                                          *)

\* Whatever the clock says, a generator selects occurrences of the event.
LEMMA DatesSelect ==
  ASSUME NEW c \in Content, NEW now \in Nat
  PROVE  Dates(c, now) \subseteq c.occ
BY DEF Dates, Relevant

\* The reminders and the expansion job computed from a content are well typed.
LEMMA PlanType ==
  ASSUME NEW c \in Content, NEW now \in Nat
  PROVE  /\ Slots(c, now) \subseteq SlotsOf(c, c.occ)
         /\ SlotsOf(c, c.occ) \subseteq Slot
         /\ JobTimes(c, now) \subseteq Nat
<1>1. Dates(c, now) \subseteq c.occ
  BY DatesSelect
<1>2. c.occ \subseteq Nat /\ c.reminders \in Seq(ReminderSpec)
  BY ContentAssumption
<1>3. Slots(c, now) \subseteq SlotsOf(c, c.occ)
  BY <1>1 DEF Slots, SlotsOf
<1>4. DOMAIN c.reminders \subseteq Nat \ {0}
  BY <1>2
<1>5. SlotsOf(c, c.occ) \subseteq Slot
  BY <1>2, <1>4 DEF SlotsOf, Slot
<1>6. JobTimes(c, now) \subseteq Nat
  BY <1>1, <1>2 DEF JobTimes
<1>7. QED
  BY <1>3, <1>5, <1>6

\* A slot of a content yields a row of the table.
LEMMA RowType ==
  ASSUME NEW e \in Event, NEW c \in Content, NEW v \in Nat,
         NEW s \in SlotsOf(c, c.occ)
  PROVE  /\ RowOf(e, c, v, s) \in Row
         /\ KeyOf(RowOf(e, c, v, s)) = SlotKey(e, c, s)
<1>1. s.date \in Nat /\ s.pos \in DOMAIN c.reminders
  BY ContentAssumption DEF SlotsOf
<1>2. c.reminders[s.pos] \in ReminderSpec
  BY <1>1, ContentAssumption
<1>3. RemindAt(c, s) \in Int /\ c.reminders[s.pos].identifier \in Identifier
  BY <1>1, <1>2 DEF RemindAt, ReminderSpec
<1>4. QED
  BY <1>3 DEF RowOf, Row, KeyOf, SlotKey

\* What a generator inserts is due later than any sender may have collected.
LEMMA SlotsAreLate ==
  ASSUME NEW c \in Content, NEW now \in Nat, NEW s \in Slots(c, now)
  PROVE  RemindAt(c, s) > now + Minute
<1>1. s \in SlotsOf(c, c.occ) /\ RemindAt(c, s) > now + Margin
  BY PlanType DEF Slots
<1>2. RemindAt(c, s) \in Int
  <2>1. s.date \in Nat /\ s.pos \in DOMAIN c.reminders
    BY <1>1, ContentAssumption DEF SlotsOf
  <2>2. c.reminders[s.pos] \in ReminderSpec
    BY <2>1, ContentAssumption
  <2>3. QED
    BY <2>1, <2>2 DEF RemindAt, ReminderSpec
<1>3. QED
  BY <1>1, <1>2, PeriodAssumption, MarginAssumption

\* The wait for the next full minute is at least one unit and at most a minute.
LEMMA StartDelayBounds ==
  ASSUME NEW now \in Nat
  PROVE  StartDelay(now, 0) \in 1 .. Minute
<1>1. now % Minute \in 0 .. Minute - 1
  BY PeriodAssumption
<1>2. QED
  BY <1>1, PeriodAssumption DEF StartDelay

-----------------------------------------------------------------------------
(* Types.                                                                  *)

\* An idle task and an idle sender are well typed.
LEMMA IdleType == Idle \in Task /\ IdleRun \in SenderState
BY DEF Idle, Task, Stage, IdleRun, SenderState

\* A task that starts is a task.
LEMMA StartType ==
  ASSUME NEW pc \in Stage, NEW e \in Event, NEW c \in Content
  PROVE  Start(pc, e, c) \in Task
BY DEF Start, Idle, Task, Stage

\* A task that proceeds is a task.
LEMMA ProceedType ==
  ASSUME NEW t \in Task
  PROVE  Proceed(t) \in Task
BY IdleType DEF Proceed, Task, Stage

\* A step changes one task to a well-typed one, at most.
LEMMA TaskType ==
  ASSUME task \in [Generator -> Task], NEW g \in Generator, NEW t \in Task
  PROVE  [task EXCEPT ![g] = t] \in [Generator -> Task]
OBVIOUS

\* A task that is not idle works on an event with a content.
Working ==
  \A g \in Generator : task[g].pc # "idle" => /\ task[g].event \in Event
                                            /\ task[g].content \in Content
                                            /\ task[g].todo \subseteq
                                                 SlotsOf(task[g].content, task[g].content.occ)

TypeInv == TypeOK /\ Working

\* A step that changes one task keeps Working if the new task satisfies it.
LEMMA WorkingStep ==
  ASSUME TypeOK, Working, NEW g \in Generator, NEW t,
         task' = [task EXCEPT ![g] = t],
         t.pc # "idle" => /\ t.event \in Event
                          /\ t.content \in Content
                          /\ t.todo \subseteq SlotsOf(t.content, t.content.occ)
  PROVE  Working'
<1> SUFFICES ASSUME NEW h \in Generator, task'[h].pc # "idle"
             PROVE  /\ task'[h].event \in Event
                    /\ task'[h].content \in Content
                    /\ task'[h].todo \subseteq SlotsOf(task'[h].content, task'[h].content.occ)
  BY DEF Working
<1>1. CASE h = g
  BY <1>1 DEF TypeOK
<1>2. CASE h # g
  BY <1>2 DEF TypeOK, Working
<1>3. QED
  BY <1>1, <1>2

\* Every variable keeps its type, and a busy task its event and content.
LEMMA TypeInvStep == TypeInv /\ [Next]_vars => TypeInv'
<1> SUFFICES ASSUME TypeInv, [Next]_vars
             PROVE  TypeInv'
  OBVIOUS
<1> USE DEF TypeInv
<1>1. ASSUME NEW h \in Handler, NEW e \in Event, NEW c \in Content, CreateEvent(h, e, c)
      PROVE  TypeInv'
  <2>1. Start("init", e, c) \in Task
    BY StartType DEF Stage
  <2>2. TypeOK'
    BY <1>1, <2>1 DEF TypeOK, CreateEvent, timers, Generator
  <2>3. Working'
    BY <1>1 DEF Working, TypeOK, CreateEvent, Start, Idle, Generator
  <2>4. QED
    BY <2>2, <2>3
<1>2. ASSUME NEW h \in Handler, NEW e \in Event, NEW c \in Content, UpdateRead(h, e, c)
      PROVE  TypeInv'
  <2>1. Start("save", e, c) \in Task
    BY StartType DEF Stage
  <2>2. TypeOK'
    BY <1>2, <2>1 DEF TypeOK, UpdateRead, db, timers, history, Generator, Budget
  <2>3. Working'
    BY <1>2 DEF Working, TypeOK, UpdateRead, Start, Idle, Generator
  <2>4. QED
    BY <2>2, <2>3
<1>3. ASSUME NEW e \in Event, DeleteEvent(e)
      PROVE  TypeInv'
  BY <1>3 DEF TypeOK, Working, DeleteEvent, timers, history
<1>4. ASSUME NEW g \in Generator, InitVersion(g)
      PROVE  TypeInv'
  <2> DEFINE t == [task[g] EXCEPT !.pc = "plan", !.version = 1]
  <2>1. task[g].pc # "idle" /\ task[g] \in Task /\ task[g].event \in Event
        /\ task[g].content \in Content
    BY <1>4 DEF InitVersion, TypeOK, Working
  <2>2. t \in Task /\ t.event = task[g].event /\ t.content = task[g].content
        /\ t.todo = task[g].todo
    BY <2>1 DEF Task, Stage
  <2>3. task' = [task EXCEPT ![g] = t] \/ task' = [task EXCEPT ![g] = Idle]
    BY <1>4 DEF InitVersion
  <2>4. versions' \in [Event -> Nat] /\ source' \in [Event -> Content \cup {None}]
    BY <1>4, <2>1 DEF InitVersion, TypeOK
  <2>5. TypeOK'
    BY <1>4, <2>2, <2>3, <2>4, IdleType DEF TypeOK, InitVersion, timers
  <2>6. Working'
    <3>1. t.todo \subseteq SlotsOf(t.content, t.content.occ)
      BY <2>1, <2>2 DEF Working
    <3>2. Idle.pc = "idle"
      BY DEF Idle
    <3> HIDE DEF t
    <3>3. QED
      BY <2>1, <2>2, <2>3, <3>1, <3>2, WorkingStep
  <2>7. QED
    BY <2>5, <2>6
<1>5. ASSUME NEW g \in Generator, UpdateSave(g)
      PROVE  TypeInv'
  <2>1. task[g].pc # "idle" /\ task[g] \in Task
    BY <1>5 DEF UpdateSave, TypeOK
  <2>2. TypeOK'
    BY <1>5, <2>1 DEF TypeOK, Working, UpdateSave, timers, Task, Stage
  <2>3. Working'
    BY <1>5, <2>1 DEF Working, TypeOK, UpdateSave
  <2>4. QED
    BY <2>2, <2>3
<1>6. ASSUME NEW g \in Generator, IncStart(g)
      PROVE  TypeInv'
  <2>1. task[g].pc # "idle" /\ task[g] \in Task
    BY <1>6 DEF IncStart, TypeOK
  <2>2. TypeOK'
    BY <1>6, <2>1, IdleType DEF TypeOK, Working, IncStart, db, timers, history, Task, Stage
  <2>3. Working'
    BY <1>6, <2>1 DEF Working, TypeOK, IncStart, Idle
  <2>4. QED
    BY <2>2, <2>3
<1>7. ASSUME NEW g \in Generator, IncCommit(g)
      PROVE  TypeInv'
  <2> DEFINE t == [task[g] EXCEPT !.pc = "plan", !.version = task[g].version + 1]
  <2>1. task[g].pc # "idle" /\ task[g] \in Task /\ task[g].event \in Event
        /\ task[g].content \in Content
    BY <1>7 DEF IncCommit, TypeOK, Working
  <2>2. t \in Task /\ t.event = task[g].event /\ t.content = task[g].content
        /\ t.todo = task[g].todo
    <3>1. task[g].version + 1 \in Nat
      BY <2>1 DEF Task
    <3>2. QED
      BY <2>1, <3>1 DEF Task, Stage
  <2>3. task' = [task EXCEPT ![g] = t] \/ task' = [task EXCEPT ![g] = Idle]
    BY <1>7 DEF IncCommit
  <2>4. versions' \in [Event -> Nat] /\ source' \in [Event -> Content \cup {None}]
    BY <1>7, <2>1 DEF IncCommit, TypeOK, Task
  <2>5. TypeOK'
    BY <1>7, <2>2, <2>3, <2>4, IdleType DEF TypeOK, IncCommit, timers
  <2>6. Working'
    <3>1. t.todo \subseteq SlotsOf(t.content, t.content.occ)
      BY <2>1, <2>2 DEF Working
    <3>2. Idle.pc = "idle"
      BY DEF Idle
    <3> HIDE DEF t
    <3>3. QED
      BY <2>1, <2>2, <2>3, <3>1, <3>2, WorkingStep
  <2>7. QED
    BY <2>5, <2>6
<1>8. ASSUME NEW g \in Generator, Plan(g)
      PROVE  TypeInv'
  <2> DEFINE c == task[g].content
             t == [task[g] EXCEPT !.todo = Slots(c, clock), !.jobAt = JobTimes(c, clock)]
  <2>1. task[g].pc # "idle" /\ task[g] \in Task /\ c \in Content /\ clock \in Nat
    BY <1>8 DEF Plan, TypeOK, Working
  <2>2. t \in Task
    BY <2>1, PlanType DEF Task
  <2>3. task' = [task EXCEPT ![g] = Proceed(t)]
    BY <1>8 DEF Plan
  <2>4. TypeOK'
    BY <1>8, <2>2, <2>3, ProceedType DEF TypeOK, Plan, db, timers, history
  <2>5. Working'
    <3>1. Slots(c, clock) \subseteq SlotsOf(c, c.occ)
      BY <2>1, PlanType
    <3>2. QED
      BY <2>1, <2>3, <3>1 DEF Working, TypeOK, Proceed, Idle, Task
  <2>6. QED
    BY <2>4, <2>5
<1>9. ASSUME NEW g \in Generator, InsertJob(g)
      PROVE  TypeInv'
  <2> DEFINE t == [task[g] EXCEPT !.jobAt = {}]
  <2>1. task[g].pc # "idle" /\ task[g] \in Task /\ task[g].event \in Event
    BY <1>9 DEF InsertJob, TypeOK, Working
  <2>2. t \in Task
    BY <2>1 DEF Task
  <2>3. task' = [task EXCEPT ![g] = Proceed(t)]
    BY <1>9 DEF InsertJob
  <2>4. jobs' \subseteq Job /\ budget' \in Budget
    BY <1>9, <2>1 DEF InsertJob, TypeOK, Job, Task, Budget
  <2>5. TypeOK'
    BY <1>9, <2>2, <2>3, <2>4, ProceedType DEF TypeOK, InsertJob, timers, history
  <2>6. Working'
    BY <2>1, <2>3 DEF Working, TypeOK, Proceed, Idle, Task
  <2>7. QED
    BY <2>5, <2>6
<1>10. ASSUME NEW g \in Generator, InsertRow(g)
       PROVE  TypeInv'
  <2>1. task[g].pc # "idle" /\ task[g] \in Task /\ task[g].event \in Event
        /\ task[g].content \in Content
    BY <1>10 DEF InsertRow, TypeOK, Working
  <2>2. PICK s \in task[g].todo :
          \/ /\ reminders' = reminders \cup
                   {RowOf(task[g].event, task[g].content, task[g].version, s)}
             /\ task' = [task EXCEPT ![g] = Proceed([task[g] EXCEPT !.todo = task[g].todo \ {s}])]
          \/ /\ task' = [task EXCEPT ![g] = Idle]
             /\ reminders' = reminders
    BY <1>10 DEF InsertRow
  <2> DEFINE t == [task[g] EXCEPT !.todo = task[g].todo \ {s}]
  <2>3. RowOf(task[g].event, task[g].content, task[g].version, s) \in Row
    <3>1. s \in SlotsOf(task[g].content, task[g].content.occ) /\ task[g].version \in Nat
      BY <2>1, <2>2 DEF Working, Task
    <3>2. QED
      BY <2>1, <3>1, RowType
  <2>4. t \in Task
    BY <2>1 DEF Task
  <2>5. task' \in [Generator -> Task]
    BY <2>2, <2>4, ProceedType, IdleType DEF TypeOK
  <2>6. TypeOK'
    BY <1>10, <2>2, <2>3, <2>5 DEF TypeOK, InsertRow, timers, history
  <2>7. Proceed(t) = Idle \/ (/\ Proceed(t).event = task[g].event
                              /\ Proceed(t).content = task[g].content
                              /\ Proceed(t).todo = task[g].todo \ {s})
    BY <2>1 DEF Proceed, Task
  <2>8. Working'
    <3>1. task[g].todo \ {s} \subseteq SlotsOf(task[g].content, task[g].content.occ)
      BY <2>1 DEF Working
    <3>2. Idle.pc = "idle"
      BY DEF Idle
    <3> DEFINE u == Proceed(t)
    <3>3. task' = [task EXCEPT ![g] = u] \/ task' = [task EXCEPT ![g] = Idle]
      BY <2>2
    <3>4. u.pc # "idle" => /\ u.event \in Event
                           /\ u.content \in Content
                           /\ u.todo \subseteq SlotsOf(u.content, u.content.occ)
      BY <2>1, <2>7, <3>1, <3>2
    <3> HIDE DEF u
    <3>5. QED
      BY <3>2, <3>3, <3>4, WorkingStep
  <2>9. QED
    BY <2>6, <2>8
<1>11. CASE JobTick
  BY <1>11, JobIntervalAssumption DEF TypeOK, Working, JobTick, Job, history
<1>12. CASE JobFind
  <2>1. \A e \in fetched : events[e] # None => Start("inc", e, events[e]) \in Task
    BY StartType DEF TypeOK, Stage
  <2>2. TypeOK'
    BY <1>12, <2>1 DEF TypeOK, JobFind, db, timers, history
  <2>3. Working'
    BY <1>12 DEF Working, TypeOK, JobFind, Start, Idle
  <2>4. QED
    BY <2>2, <2>3
<1>13. CASE JobFindFails
  BY <1>13 DEF TypeOK, Working, JobFindFails, db, timers, history, Budget
<1>14. ASSUME NEW r \in Run, SendTick(r)
       PROVE  TypeInv'
  <2> DEFINE q == [run[r] EXCEPT !.pc = "take", !.due = clock + Minute]
  <2>1. q \in SenderState
    <3>1. run[r] \in SenderState /\ clock + Minute \in Nat
      BY PeriodAssumption DEF TypeOK
    <3>2. QED
      BY <3>1 DEF SenderState
  <2>2. run' = [run EXCEPT ![r] = q] /\ nextSend' \in Nat
    BY <1>14, PeriodAssumption DEF SendTick, Deadline, TypeOK
  <2>3. QED
    BY <1>14, <2>1, <2>2 DEF TypeOK, Working, SendTick, db, history
<1>15. ASSUME NEW r \in Run, Take(r)
       PROVE  TypeInv'
  <2>1. Keys(Collected(r)) \subseteq Key
    BY DEF TypeOK, Keys, KeyOf, Key, Row, Collected
  <2>2. QED
    BY <1>15, <2>1 DEF TypeOK, Working, Take, timers, SenderState
<1>16. ASSUME NEW r \in Run, Lookup(r)
       PROVE  TypeInv'
  <2>1. run'[r] \in SenderState
    BY <1>16, IdleType DEF TypeOK, Lookup, SenderState
  <2>2. QED
    BY <1>16, <2>1 DEF TypeOK, Working, Lookup, db, timers, history
<1>17. ASSUME NEW r \in Run, Send(r)
       PROVE  TypeInv'
  <2>1. {[key |-> k, time |-> clock] : k \in run[r].batch} \subseteq [key : Key, time : Nat]
    BY DEF TypeOK, SenderState
  <2>2. QED
    BY <1>17, <2>1, IdleType DEF TypeOK, Working, Send, db, timers
<1>18. ASSUME NEW g \in Generator, StorageError(g)
       PROVE  TypeInv'
  BY <1>18, IdleType
     DEF TypeOK, Working, StorageError, db, timers, history, Budget, Idle
<1>19. ASSUME NEW r \in Run, SenderFails(r)
       PROVE  TypeInv'
  BY <1>19, IdleType DEF TypeOK, Working, SenderFails, db, timers, history, Budget
<1>20. CASE Crash
  <2>1. StartDelay(clock, 0) \in Nat
    BY StartDelayBounds, PeriodAssumption DEF TypeOK
  <2>2. QED
    BY <1>20, <2>1, IdleType DEF TypeOK, Working, Crash, db, history, Budget, Idle
<1>21. CASE Tick
  BY <1>21 DEF TypeOK, Working, Tick, db, timers, history
<1>22. CASE UNCHANGED vars
  BY <1>22 DEF TypeOK, Working, vars, db, timers, history
<1>23. QED
  BY <1>1, <1>2, <1>3, <1>4, <1>5, <1>6, <1>7, <1>8, <1>9, <1>10, <1>11, <1>12, <1>13,
     <1>14, <1>15, <1>16, <1>17, <1>18, <1>19, <1>20, <1>21, <1>22
     DEF Next, Request, Generate, Sender, Fault

\* The initial states are well typed.
LEMMA TypeInvInit == Init => TypeInv
<1> SUFFICES ASSUME Init
             PROVE  TypeInv
  OBVIOUS
<1>1. StartDelay(0, 0) \in Nat
  BY StartDelayBounds, PeriodAssumption
<1>2. QED
  BY <1>1, IdleType, BoundAssumption
     DEF Init, TypeInv, TypeOK, Working, Budget, Idle, Generator

\* The variables keep their types.
THEOREM Typing == Spec => []TypeOK
<1>1. Spec => []TypeInv
  BY TypeInvInit, TypeInvStep, PTL DEF Spec
<1>2. TypeInv => TypeOK
  BY DEF TypeInv
<1>3. QED
  BY <1>1, <1>2, PTL

-----------------------------------------------------------------------------
(* The protocol of event_reminder_versions: whatever requests, expansions, *)
(* errors and crashes interleave, at most one generator holds the version  *)
(* that is in the table, and the rows of an event carry that version.      *)


Holding(g) == task[g].pc \in {"plan", "job", "insert"}
Current(g) == versions[task[g].event] = task[g].version

-----------------------------------------------------------------------------
(* Versions: at most one generator holds the version that is in the table. *)

\* Nothing is known of an id that has not been issued.
Unissued == \A e \in Event : e \notin created =>
              /\ events[e] = None
              /\ versions[e] = 0
              /\ \A g \in Generator : task[g].pc # "idle" => task[g].event # e

\* Before the first version exists nobody has got further than asking for one.
InitFirst == \A g \in Generator : task[g].pc = "init" =>
               /\ versions[task[g].event] = 0
               /\ \A h \in Generator : h # g /\ task[h].event = task[g].event =>
                    task[h].pc \in {"idle", "save", "inc"}

\* A version once seen or held is never ahead of the table.
Versioned == \A g \in Generator : task[g].pc = "commit" \/ Holding(g) =>
               /\ task[g].version > 0
               /\ \/ versions[task[g].event] = 0
                  \/ task[g].version <= versions[task[g].event]

\* No two generators hold the same version of an event.
Exclusive == \A g, h \in Generator :
               /\ g # h
               /\ Holding(g) /\ Holding(h)
               /\ task[g].event = task[h].event
               => task[g].version # task[h].version

\* The foreign key: rows have the version of the table.
RowVersions == \A x \in reminders : x.version = versions[x.event] /\ x.version > 0

VersionInv == Unissued /\ InitFirst /\ Versioned /\ Exclusive /\ RowVersions

-----------------------------------------------------------------------------
(* Preservation of VersionInv.                                             *)

\* What replacing one task means for each task.
LEMMA OneTask ==
  ASSUME TypeOK, NEW g \in Generator, NEW t, task' = [task EXCEPT ![g] = t]
  PROVE  task'[g] = t /\ \A h \in Generator : h # g => task'[h] = task[h]
BY DEF TypeOK

\* A task does not pick up an event or a version: it ends, stays, or goes on
\* with the version it holds.
Continues(g) ==
  \/ task'[g].pc = "idle"
  \/ /\ task'[g].event = task[g].event
     /\ task'[g].version = task[g].version
     /\ \/ task'[g].pc = task[g].pc
        \/ task[g].pc = "save" /\ task'[g].pc = "inc"
        \/ Holding(g) /\ Holding(g)'

\* A step in which every task continues and no version changes keeps VersionInv.
LEMMA VersionContinues ==
  ASSUME TypeInv, VersionInv, versions' = versions, created' = created,
         \A e \in Event : events[e] = None => events'[e] = None,
         \A x \in reminders' : x \in reminders
                             \/ (x.version = versions[x.event] /\ x.version > 0),
         \A g \in Generator : Continues(g)
  PROVE  VersionInv'
<1>1. Unissued'
  BY DEF VersionInv, Unissued, Continues, Holding
<1>2. InitFirst'
  BY DEF VersionInv, InitFirst, Continues, Holding
<1>3. Versioned'
  BY DEF VersionInv, Versioned, Continues, Holding
<1>4. Exclusive'
  BY DEF VersionInv, Exclusive, Continues, Holding
<1>5. RowVersions'
  BY DEF VersionInv, RowVersions
<1>6. QED
  BY <1>1, <1>2, <1>3, <1>4, <1>5 DEF VersionInv

\* A request or an expansion that begins knows no version yet.
LEMMA VersionBegins ==
  ASSUME TypeInv, VersionInv, versions' = versions, reminders' = reminders,
         created \subseteq created',
         \A e \in Event : e \notin created' => events'[e] = events[e],
         \A g \in Generator :
           \/ task'[g] = task[g]
           \/ /\ task'[g].pc \in {"save", "inc"}
              /\ task'[g].event \in created
  PROVE  VersionInv'
<1>1. Unissued'
  BY DEF VersionInv, Unissued
<1>2. InitFirst'
  BY DEF VersionInv, InitFirst
<1>3. Versioned'
  BY DEF VersionInv, Versioned, Holding
<1>4. Exclusive'
  BY DEF VersionInv, Exclusive, Holding
<1>5. RowVersions'
  BY DEF VersionInv, RowVersions
<1>6. QED
  BY <1>1, <1>2, <1>3, <1>4, <1>5 DEF VersionInv

\* Creating an event keeps VersionInv.
LEMMA VersionCreate ==
  ASSUME TypeInv, VersionInv, NEW h \in Handler, NEW e \in Event, NEW c \in Content,
         CreateEvent(h, e, c)
  PROVE  VersionInv'
<1> DEFINE t == Start("init", e, c)
<1>1. h \in Generator /\ e \notin created /\ created' = created \cup {e}
      /\ versions' = versions /\ reminders' = reminders
  BY DEF CreateEvent, Generator
<1>2. task'[h] = t /\ \A g \in Generator : g # h => task'[g] = task[g]
  BY <1>1, OneTask DEF CreateEvent, TypeInv
<1>3. t.pc = "init" /\ t.event = e
  BY DEF Start, Idle
<1>4. versions[e] = 0 /\ \A g \in Generator : task[g].pc # "idle" => task[g].event # e
  BY <1>1 DEF VersionInv, Unissued
<1>5. \A d \in Event : d # e => events'[d] = events[d]
  BY DEF CreateEvent, TypeInv, TypeOK
<1> HIDE DEF t
<1>6. Unissued'
  BY <1>1, <1>2, <1>3, <1>5 DEF VersionInv, Unissued
<1>7. InitFirst'
  BY <1>1, <1>2, <1>3, <1>4 DEF VersionInv, InitFirst
<1>8. Versioned'
  BY <1>1, <1>2, <1>3 DEF VersionInv, Versioned, Holding
<1>9. Exclusive'
  BY <1>1, <1>2, <1>3 DEF VersionInv, Exclusive, Holding
<1>10. RowVersions'
  BY <1>1 DEF VersionInv, RowVersions
<1>11. QED
  BY <1>6, <1>7, <1>8, <1>9, <1>10 DEF VersionInv

\* Deleting an event keeps VersionInv.
LEMMA VersionDelete ==
  ASSUME TypeInv, VersionInv, NEW e \in Event, DeleteEvent(e)
  PROVE  VersionInv'
<1>1. /\ task' = task /\ created' = created
      /\ events'[e] = None /\ versions'[e] = 0
      /\ \A d \in Event : d # e => events'[d] = events[d] /\ versions'[d] = versions[d]
      /\ \A x \in reminders' : x \in reminders /\ x.event # e
  BY DEF DeleteEvent, TypeInv, TypeOK
<1>2. Unissued'
  BY <1>1 DEF VersionInv, Unissued
<1>3. InitFirst'
  BY <1>1 DEF VersionInv, InitFirst, TypeInv, Working
<1>4. Versioned'
  BY <1>1 DEF VersionInv, Versioned, Holding, TypeInv, Working
<1>5. Exclusive'
  BY <1>1 DEF VersionInv, Exclusive, Holding
<1>6. RowVersions'
  BY <1>1 DEF VersionInv, RowVersions, TypeInv, TypeOK, Row
<1>7. QED
  BY <1>2, <1>3, <1>4, <1>5, <1>6 DEF VersionInv

\* The first version is obtained: by InitFirst nobody else has got that far.
LEMMA VersionInit ==
  ASSUME TypeInv, VersionInv, NEW g \in Generator, InitVersion(g),
         events[task[g].event] # None
  PROVE  VersionInv'
<1> DEFINE e == task[g].event
           t == [task[g] EXCEPT !.pc = "plan", !.version = 1]
<1>1. task[g] \in Task /\ task[g].pc = "init" /\ e \in Event
  BY DEF InitVersion, TypeInv, TypeOK, Working
<1>2. t.pc = "plan" /\ t.version = 1 /\ t.event = e
  BY <1>1 DEF Task
<1>3. task'[g] = t /\ \A h \in Generator : h # g => task'[h] = task[h]
  BY OneTask DEF InitVersion, TypeInv
<1>4. /\ versions'[e] = 1 /\ \A d \in Event : d # e => versions'[d] = versions[d]
      /\ events' = events /\ created' = created /\ reminders' = reminders
  BY <1>1 DEF InitVersion, TypeInv, TypeOK
<1>5. versions[e] = 0 /\ \A h \in Generator : h # g /\ task[h].event = e =>
                                                task[h].pc \in {"idle", "save", "inc"}
  BY <1>1 DEF VersionInv, InitFirst
<1>6. e \in created
  BY <1>1 DEF VersionInv, Unissued
<1> HIDE DEF t, e
<1>7. Unissued'
  BY <1>1, <1>2, <1>3, <1>4, <1>6 DEF VersionInv, Unissued
<1>8. InitFirst'
  BY <1>1, <1>2, <1>3, <1>4, <1>5 DEF VersionInv, InitFirst, TypeInv, Working
<1>9. Versioned'
  BY <1>1, <1>2, <1>3, <1>4, <1>5 DEF VersionInv, Versioned, Holding, TypeInv, Working
<1>10. Exclusive'
  BY <1>2, <1>3, <1>5 DEF VersionInv, Exclusive, Holding
<1>11. RowVersions'
  BY <1>4, <1>5 DEF VersionInv, RowVersions, TypeInv, TypeOK, Row
<1>12. QED
  BY <1>7, <1>8, <1>9, <1>10, <1>11 DEF VersionInv

\* The next version is obtained: it is higher than any that was held.
LEMMA VersionCommit ==
  ASSUME TypeInv, VersionInv, NEW g \in Generator, IncCommit(g), Current(g)
  PROVE  VersionInv'
<1> DEFINE e == task[g].event
           v == task[g].version
           t == [task[g] EXCEPT !.pc = "plan", !.version = v + 1]
<1>1. task[g] \in Task /\ task[g].pc = "commit" /\ e \in Event /\ versions[e] = v
  BY DEF IncCommit, TypeInv, TypeOK, Working, Current
<1>2. t.pc = "plan" /\ t.version = v + 1 /\ t.event = e /\ v \in Nat
  BY <1>1 DEF Task
<1>3. task'[g] = t /\ \A h \in Generator : h # g => task'[h] = task[h]
  BY <1>1, OneTask DEF IncCommit, TypeInv
<1>4. /\ versions'[e] = v + 1 /\ \A d \in Event : d # e => versions'[d] = versions[d]
      /\ events' = events /\ created' = created
      /\ \A x \in reminders' : x \in reminders /\ x.event # e
  BY <1>1 DEF IncCommit, TypeInv, TypeOK
<1>5. v > 0
  BY <1>1 DEF VersionInv, Versioned
<1>6. e \in created
  BY <1>1 DEF VersionInv, Unissued
<1>7. \A h \in Generator : task[h].version \in Nat
  BY DEF TypeInv, TypeOK, Task
<1> HIDE DEF t, e, v
<1>8. Unissued'
  BY <1>1, <1>2, <1>3, <1>4, <1>6 DEF VersionInv, Unissued
<1>9. InitFirst'
  BY <1>1, <1>2, <1>3, <1>4, <1>5 DEF VersionInv, InitFirst, TypeInv, Working
<1>10. Versioned'
  BY <1>1, <1>2, <1>3, <1>4, <1>5, <1>7 DEF VersionInv, Versioned, Holding, TypeInv, Working
<1>11. Exclusive'
  BY <1>1, <1>2, <1>3, <1>5, <1>7 DEF VersionInv, Exclusive, Versioned, Holding
<1>12. RowVersions'
  BY <1>4 DEF VersionInv, RowVersions, TypeInv, TypeOK, Row
<1>13. QED
  BY <1>8, <1>9, <1>10, <1>11, <1>12 DEF VersionInv

\* A generator that sees a version is not ahead of the table.
LEMMA VersionSeen ==
  ASSUME TypeInv, VersionInv, NEW g \in Generator, IncStart(g),
         versions[task[g].event] # 0
  PROVE  VersionInv'
<1> DEFINE e == task[g].event
           t == [task[g] EXCEPT !.pc = "commit", !.version = versions[e]]
<1>1. task[g] \in Task /\ task[g].pc = "inc" /\ e \in Event /\ versions[e] \in Nat
  BY DEF IncStart, TypeInv, TypeOK, Working
<1>2. t.pc = "commit" /\ t.version = versions[e] /\ t.event = e
  BY <1>1 DEF Task
<1>3. task'[g] = t /\ \A h \in Generator : h # g => task'[h] = task[h]
  BY <1>1, OneTask DEF IncStart, TypeInv
<1>4. UNCHANGED <<versions, events, created, reminders>>
  BY DEF IncStart, db
<1>5. versions[e] > 0 /\ e \in created
  BY <1>1 DEF VersionInv, Unissued
<1> HIDE DEF t, e
<1>6. Unissued'
  BY <1>1, <1>2, <1>3, <1>4, <1>5 DEF VersionInv, Unissued
<1>7. InitFirst'
  BY <1>1, <1>2, <1>3, <1>4, <1>5 DEF VersionInv, InitFirst
<1>8. Versioned'
  BY <1>1, <1>2, <1>3, <1>4, <1>5 DEF VersionInv, Versioned, Holding
<1>9. Exclusive'
  BY <1>2, <1>3 DEF VersionInv, Exclusive, Holding
<1>10. RowVersions'
  BY <1>4 DEF VersionInv, RowVersions
<1>11. QED
  BY <1>6, <1>7, <1>8, <1>9, <1>10 DEF VersionInv

-----------------------------------------------------------------------------
(* The remaining actions: tasks end, stay or go on.                        *)

\* A task with its reminders and job computed goes on or ends.
LEMMA ProceedGoesOn ==
  ASSUME NEW t \in Task, t.pc \in {"plan", "job", "insert"}
  PROVE  \/ Proceed(t) = Idle
         \/ /\ Proceed(t).pc \in {"job", "insert"}
            /\ Proceed(t).event = t.event
            /\ Proceed(t).content = t.content
            /\ Proceed(t).version = t.version
            /\ Proceed(t).todo = t.todo
BY DEF Proceed, Task

\* A step that changes none of the task, and removes rows at most.
LEMMA VersionKeeps ==
  ASSUME TypeInv, VersionInv, UNCHANGED <<events, versions, created, task>>,
         reminders' \subseteq reminders
  PROVE  VersionInv'
<1>1. \A g \in Generator : Continues(g)
  BY DEF Continues
<1>2. \A e \in Event : events[e] = None => events'[e] = None
  OBVIOUS
<1>3. \A x \in reminders' : x \in reminders \/ (x.version = versions[x.event] /\ x.version > 0)
  OBVIOUS
<1>4. versions' = versions /\ created' = created
  OBVIOUS
<1>5. QED
  BY <1>1, <1>2, <1>3, <1>4, VersionContinues

\* A step that ends tasks and changes no table.
LEMMA VersionEnds ==
  ASSUME TypeInv, VersionInv, UNCHANGED <<events, versions, created, reminders>>,
         \A g \in Generator : task'[g] = task[g] \/ task'[g] = Idle
  PROVE  VersionInv'
<1>1. \A g \in Generator : Continues(g)
  BY DEF Continues, Idle
<1>2. \A e \in Event : events[e] = None => events'[e] = None
  OBVIOUS
<1>3. QED
  BY <1>1, <1>2, VersionContinues

\* A step that lets a task go on after Proceed, and may add a row of its version.
LEMMA VersionProceeds ==
  ASSUME TypeInv, VersionInv, NEW g \in Generator, NEW t \in Task, Holding(g),
         task' = [task EXCEPT ![g] = Proceed(t)],
         t.pc = task[g].pc, t.event = task[g].event, t.version = task[g].version,
         UNCHANGED <<events, versions, created>>,
         \A x \in reminders' : x \in reminders
                             \/ (x.version = versions[x.event] /\ x.version > 0)
  PROVE  VersionInv'
<1> DEFINE u == Proceed(t)
<1>1. u = Idle \/ (/\ u.pc \in {"job", "insert"}
                   /\ u.event = task[g].event
                   /\ u.version = task[g].version)
  BY ProceedGoesOn DEF Holding
<1>2. task' = [task EXCEPT ![g] = u]
  OBVIOUS
<1> HIDE DEF u
<1>3. task'[g] = u /\ \A h \in Generator : h # g => task'[h] = task[h]
  BY <1>2, OneTask DEF TypeInv
<1>4. Continues(g)
  BY <1>1, <1>3 DEF Continues, Holding, Idle
<1>5. \A h \in Generator : Continues(h)
  BY <1>3, <1>4 DEF Continues
<1>6. \A e \in Event : events[e] = None => events'[e] = None
  OBVIOUS
<1>7. QED
  BY <1>5, <1>6, VersionContinues

\* VersionInv is inductive.
LEMMA VersionInvStep == TypeInv /\ VersionInv /\ [Next]_vars => VersionInv'
<1> SUFFICES ASSUME TypeInv, VersionInv, [Next]_vars
             PROVE  VersionInv'
  OBVIOUS
<1>1. ASSUME NEW h \in Handler, NEW e \in Event, NEW c \in Content, CreateEvent(h, e, c)
      PROVE  VersionInv'
  BY <1>1, VersionCreate
<1>2. ASSUME NEW h \in Handler, NEW e \in Event, NEW c \in Content, UpdateRead(h, e, c)
      PROVE  VersionInv'
  <2> DEFINE t == Start("save", e, c)
  <2>1. t.pc = "save" /\ t.event = e
    BY DEF Start, Idle
  <2>2. task' = [task EXCEPT ![h] = t] /\ h \in Generator /\ UNCHANGED <<db, created>>
    BY <1>2 DEF UpdateRead, Generator
  <2>3. e \in created
    BY <1>2 DEF UpdateRead, VersionInv, Unissued
  <2> HIDE DEF t
  <2>4. task'[h] = t /\ \A g \in Generator : g # h => task'[g] = task[g]
    BY <2>2, OneTask DEF TypeInv
  <2>5. QED
    BY <2>1, <2>2, <2>3, <2>4, VersionBegins DEF db
<1>3. ASSUME NEW e \in Event, DeleteEvent(e)
      PROVE  VersionInv'
  BY <1>3, VersionDelete
<1>4. ASSUME NEW g \in Generator, InitVersion(g)
      PROVE  VersionInv'
  <2>1. CASE events[task[g].event] # None
    BY <1>4, <2>1, VersionInit
  <2>2. CASE events[task[g].event] = None
    BY <1>4, <2>2, VersionEnds DEF InitVersion, TypeInv, TypeOK
  <2>3. QED
    BY <2>1, <2>2
<1>5. ASSUME NEW g \in Generator, UpdateSave(g)
      PROVE  VersionInv'
  <2>1. task[g] \in Task /\ task[g].pc = "save" /\ task[g].event \in Event
    BY <1>5 DEF UpdateSave, TypeInv, TypeOK, Working
  <2>2. Continues(g)
    BY <1>5, <2>1 DEF UpdateSave, TypeInv, TypeOK, Continues, Task
  <2>3. \A h \in Generator : Continues(h)
    BY <1>5, <2>2 DEF UpdateSave, TypeInv, TypeOK, Continues
  <2>4. \A e \in Event : events[e] = None => events'[e] = None
    BY <1>5, <2>1 DEF UpdateSave, TypeInv, TypeOK
  <2>5. QED
    BY <1>5, <2>3, <2>4, VersionContinues DEF UpdateSave
<1>6. ASSUME NEW g \in Generator, IncStart(g)
      PROVE  VersionInv'
  <2>1. CASE versions[task[g].event] # 0
    BY <1>6, <2>1, VersionSeen
  <2>2. CASE versions[task[g].event] = 0
    BY <1>6, <2>2, VersionEnds DEF IncStart, db, TypeInv, TypeOK
  <2>3. QED
    BY <2>1, <2>2
<1>7. ASSUME NEW g \in Generator, IncCommit(g)
      PROVE  VersionInv'
  <2>1. CASE Current(g)
    BY <1>7, <2>1, VersionCommit
  <2>2. CASE ~Current(g)
    BY <1>7, <2>2, VersionEnds DEF IncCommit, Current, TypeInv, TypeOK
  <2>3. QED
    BY <2>1, <2>2
<1>8. ASSUME NEW g \in Generator, Plan(g)
      PROVE  VersionInv'
  <2> DEFINE c == task[g].content
             t == [task[g] EXCEPT !.todo = Slots(c, clock), !.jobAt = JobTimes(c, clock)]
  <2>1. task[g] \in Task /\ task[g].pc = "plan" /\ c \in Content /\ clock \in Nat
    BY <1>8 DEF Plan, TypeInv, TypeOK, Working
  <2>2. t \in Task /\ t.pc = "plan" /\ t.event = task[g].event /\ t.version = task[g].version
    BY <2>1, PlanType DEF Task
  <2>3. task' = [task EXCEPT ![g] = Proceed(t)] /\ UNCHANGED <<db, created>>
    BY <1>8 DEF Plan
  <2> HIDE DEF t
  <2>4. QED
    BY <2>1, <2>2, <2>3, VersionProceeds DEF Holding, db
<1>9. ASSUME NEW g \in Generator, InsertJob(g)
      PROVE  VersionInv'
  <2> DEFINE t == [task[g] EXCEPT !.jobAt = {}]
  <2>1. task[g] \in Task /\ task[g].pc = "job"
    BY <1>9 DEF InsertJob, TypeInv, TypeOK
  <2>2. t \in Task /\ t.pc = "job" /\ t.event = task[g].event /\ t.version = task[g].version
    BY <2>1 DEF Task
  <2>3. /\ task' = [task EXCEPT ![g] = Proceed(t)]
        /\ UNCHANGED <<events, versions, reminders, created>>
    BY <1>9 DEF InsertJob
  <2> HIDE DEF t
  <2>4. QED
    BY <2>1, <2>2, <2>3, VersionProceeds DEF Holding
<1>10. ASSUME NEW g \in Generator, InsertRow(g)
       PROVE  VersionInv'
  <2>1. task[g] \in Task /\ task[g].pc = "insert" /\ UNCHANGED <<events, versions, created>>
    BY <1>10 DEF InsertRow, TypeInv, TypeOK
  <2>2. PICK s \in task[g].todo :
          LET r == RowOf(task[g].event, task[g].content, task[g].version, s)
          IN  \/ /\ Current(g)
                 /\ reminders' = reminders \cup {r}
                 /\ task' = [task EXCEPT ![g] = Proceed([task[g] EXCEPT !.todo = task[g].todo \ {s}])]
              \/ /\ task' = [task EXCEPT ![g] = Idle]
                 /\ reminders' = reminders
    BY <1>10 DEF InsertRow, Accepted, RowOf, Current
  <2> DEFINE t == [task[g] EXCEPT !.todo = task[g].todo \ {s}]
             r == RowOf(task[g].event, task[g].content, task[g].version, s)
  <2>3. t \in Task /\ t.pc = "insert" /\ t.event = task[g].event /\ t.version = task[g].version
    BY <2>1 DEF Task
  <2>4. r.event = task[g].event /\ r.version = task[g].version
    BY DEF RowOf
  <2>5. task[g].version > 0
    BY <2>1 DEF VersionInv, Versioned, Holding
  <2>6. \A x \in reminders' : x \in reminders
                             \/ (x.version = versions[x.event] /\ x.version > 0)
    BY <2>2, <2>4, <2>5 DEF Current
  <2>7. CASE task' = [task EXCEPT ![g] = Idle] /\ reminders' = reminders
    BY <2>1, <2>7, VersionEnds DEF TypeInv, TypeOK
  <2>8. CASE task' = [task EXCEPT ![g] = Proceed(t)]
    <3> HIDE DEF t, r
    <3>1. QED
      BY <2>1, <2>3, <2>6, <2>8, VersionProceeds DEF Holding
  <2>9. QED
    BY <2>2, <2>7, <2>8
<1>11. CASE JobTick
  BY <1>11, VersionKeeps DEF JobTick
<1>12. CASE JobFind
  <2>1. \A e \in Event : Start("inc", e, events[e]).pc = "inc" /\ Start("inc", e, events[e]).event = e
    BY DEF Start, Idle
  <2>2. \A e \in Event : events[e] # None => e \in created
    BY DEF VersionInv, Unissued
  <2>3. \A g \in Generator : \/ task'[g] = task[g]
                             \/ task'[g].pc = "inc" /\ task'[g].event \in created
    BY <1>12, <2>1, <2>2 DEF JobFind, TypeInv, TypeOK
  <2>4. QED
    BY <1>12, <2>3, VersionBegins DEF JobFind, db
<1>13. CASE JobFindFails
  BY <1>13, VersionKeeps DEF JobFindFails, db
<1>14. ASSUME NEW r \in Run, SendTick(r)
       PROVE  VersionInv'
  BY <1>14, VersionKeeps DEF SendTick, db
<1>15. ASSUME NEW r \in Run, Take(r)
       PROVE  VersionInv'
  BY <1>15, VersionKeeps DEF Take, Collected
<1>16. ASSUME NEW r \in Run, Lookup(r)
       PROVE  VersionInv'
  BY <1>16, VersionKeeps DEF Lookup, db
<1>17. ASSUME NEW r \in Run, Send(r)
       PROVE  VersionInv'
  BY <1>17, VersionKeeps DEF Send, db
<1>18. ASSUME NEW g \in Generator, StorageError(g)
       PROVE  VersionInv'
  BY <1>18, VersionEnds DEF StorageError, db, TypeInv, TypeOK
<1>19. ASSUME NEW r \in Run, SenderFails(r)
       PROVE  VersionInv'
  BY <1>19, VersionKeeps DEF SenderFails, db
<1>20. CASE Crash
  BY <1>20, VersionEnds DEF Crash, db
<1>21. CASE Tick
  BY <1>21, VersionKeeps DEF Tick, db
<1>22. CASE UNCHANGED vars
  BY <1>22, VersionKeeps DEF vars, db
<1>23. QED
  BY <1>1, <1>2, <1>3, <1>4, <1>5, <1>6, <1>7, <1>8, <1>9, <1>10, <1>11, <1>12, <1>13,
     <1>14, <1>15, <1>16, <1>17, <1>18, <1>19, <1>20, <1>21, <1>22
     DEF Next, Request, Generate, Sender, Fault

-----------------------------------------------------------------------------
(* Generation: the holder of the current version adds what nobody has yet. *)

HolderSource == \A g \in Generator : Holding(g) /\ Current(g) =>
                  source[task[g].event] = task[g].content

\* Between obtaining a version and planning, the event has no reminders.
FreshPlan == \A g \in Generator : task[g].pc = "plan" /\ Current(g) =>
               \A x \in reminders : x.event # task[g].event

\* What remains to be inserted is neither in the table nor was ever collected.
TodoIsNew == \A g \in Generator : task[g].pc \in {"job", "insert"} /\ Current(g) =>
               \A s \in task[g].todo :
                 SlotKey(task[g].event, task[g].content, s) \notin taken \cup Keys(reminders)

GenerateInv == HolderSource /\ FreshPlan /\ TodoIsNew /\ SingleSource

-----------------------------------------------------------------------------
(* Sending.                                                                *)

\* Nothing has been collected, or will be by a run that has begun, that is due
\* later than one minute from now.
Horizon == /\ \A k \in taken : k.at <= clock + Minute
           /\ \A r \in Run : run[r].due <= clock + Minute

\* A run holds reminders between collecting and posting, due by its deadline.
BatchInv == \A r \in Run : /\ run[r].pc \in {"idle", "take"} => run[r].batch = {}
                           /\ run[r].batch \subseteq taken
                           /\ \A k \in run[r].batch : k.at <= run[r].due

SendInv == Horizon /\ BatchInv /\ SentKeys \subseteq taken /\ AtMostOnce /\ NeverEarly

IInv == TypeInv /\ VersionInv /\ GenerateInv /\ SendInv

-----------------------------------------------------------------------------
(* Preservation of GenerateInv.                                            *)

\* A task that holds a version after the step held it before, with no more to
\* insert than it had.
HoldsOn(g) == Holding(g)' => /\ Holding(g)
                             /\ task'[g].event = task[g].event
                             /\ task'[g].content = task[g].content
                             /\ task'[g].version = task[g].version
                             /\ task'[g].pc = "plan" => task[g].pc = "plan"
                             /\ task'[g].pc # "plan" => /\ task[g].pc # "plan"
                                                        /\ task'[g].todo \subseteq task[g].todo

\* The keys of a larger table include those of a smaller one.
LEMMA KeysMonotonic ==
  ASSUME NEW A, NEW B, A \subseteq B
  PROVE  Keys(A) \subseteq Keys(B)
BY DEF Keys

\* A step in which nobody obtains a version or inserts keeps GenerateInv.
LEMMA GenerateKeeps ==
  ASSUME TypeInv, GenerateInv, UNCHANGED <<versions, source>>,
         reminders' \subseteq reminders,
         taken' \cup Keys(reminders') \subseteq taken \cup Keys(reminders),
         \A g \in Generator : HoldsOn(g)
  PROVE  GenerateInv'
<1>1. HolderSource'
  BY DEF GenerateInv, HolderSource, HoldsOn, Current
<1>2. FreshPlan'
  BY DEF GenerateInv, FreshPlan, HoldsOn, Holding, Current
<1>3. TodoIsNew'
  BY DEF GenerateInv, TodoIsNew, HoldsOn, Holding, Current
<1>4. SingleSource'
  BY DEF GenerateInv, SingleSource
<1>5. QED
  BY <1>1, <1>2, <1>3, <1>4 DEF GenerateInv

\* A task obtains a version of event e that nobody else holds, and the rows of
\* e are gone.
LEMMA GenerateObtains ==
  ASSUME TypeInv, GenerateInv, NEW g \in Generator, NEW e \in Event,
         \A h \in Generator : h # g => task'[h] = task[h],
         task'[g].pc = "plan",
         task'[g].event = e,
         source' = [source EXCEPT ![e] = task'[g].content],
         \A d \in Event : d # e => versions'[d] = versions[d],
         \A h \in Generator : h # g /\ Holding(h) /\ task[h].event = e
                                => task[h].version # versions'[e],
         reminders' \subseteq reminders,
         \A x \in reminders' : x.event # e,
         taken' = taken
  PROVE  GenerateInv'
<1>1. source'[e] = task'[g].content /\ \A d \in Event : d # e => source'[d] = source[d]
  BY DEF TypeInv, TypeOK
<1>2. \A h \in Generator : h # g /\ Holding(h) /\ Current(h)' => Current(h) /\ task[h].event # e
  BY DEF Current, Holding, TypeInv, Working
<1>3. Keys(reminders') \subseteq Keys(reminders)
  BY KeysMonotonic
<1>4. HolderSource'
  BY <1>1, <1>2 DEF GenerateInv, HolderSource, Holding, TypeInv, Working
<1>5. FreshPlan'
  BY <1>2 DEF GenerateInv, FreshPlan, Holding
<1>6. TodoIsNew'
  BY <1>2, <1>3 DEF GenerateInv, TodoIsNew, Holding
<1>7. SingleSource'
  <2>1. \A x \in reminders : x.event \in Event
    BY DEF TypeInv, TypeOK, Row
  <2>2. QED
    BY <1>1, <2>1 DEF GenerateInv, SingleSource
<1>8. QED
  BY <1>4, <1>5, <1>6, <1>7 DEF GenerateInv

\* The rows of a deleted event are gone, and so is the version its generators
\* hold.
LEMMA GenerateDelete ==
  ASSUME TypeInv, VersionInv, GenerateInv, NEW e \in Event, DeleteEvent(e)
  PROVE  GenerateInv'
<1>1. /\ task' = task /\ source' = source /\ taken' = taken
      /\ versions'[e] = 0 /\ \A d \in Event : d # e => versions'[d] = versions[d]
      /\ reminders' \subseteq reminders /\ \A x \in reminders' : x.event # e
  BY DEF DeleteEvent, TypeInv, TypeOK, history
<1>2. \A h \in Generator : Holding(h) /\ Current(h)' => Current(h)
  BY <1>1 DEF Current, Holding, TypeInv, Working, VersionInv, Versioned
<1>3. Keys(reminders') \subseteq Keys(reminders)
  BY <1>1, KeysMonotonic
<1>4. HolderSource'
  BY <1>1, <1>2 DEF GenerateInv, HolderSource, Holding
<1>5. FreshPlan'
  BY <1>1, <1>2 DEF GenerateInv, FreshPlan, Holding
<1>6. TodoIsNew'
  BY <1>1, <1>2, <1>3 DEF GenerateInv, TodoIsNew, Holding
<1>7. SingleSource'
  <2>1. \A x \in reminders : x.event \in Event
    BY DEF TypeInv, TypeOK, Row
  <2>2. QED
    BY <1>1, <2>1 DEF GenerateInv, SingleSource
<1>8. QED
  BY <1>4, <1>5, <1>6, <1>7 DEF GenerateInv

\* What is planned is due later than anything ever collected, and the event has
\* no rows yet.
LEMMA GeneratePlan ==
  ASSUME TypeInv, GenerateInv, Horizon, NEW g \in Generator, Plan(g)
  PROVE  GenerateInv'
<1> DEFINE e == task[g].event
           c == task[g].content
           t == [task[g] EXCEPT !.todo = Slots(c, clock), !.jobAt = JobTimes(c, clock)]
           u == Proceed(t)
<1>1. task[g] \in Task /\ task[g].pc = "plan" /\ c \in Content /\ e \in Event /\ clock \in Nat
  BY DEF Plan, TypeInv, TypeOK, Working
<1>2. t \in Task /\ t.pc = "plan" /\ t.event = e /\ t.content = c
      /\ t.version = task[g].version /\ t.todo = Slots(c, clock)
  BY <1>1, PlanType DEF Task
<1>3. task' = [task EXCEPT ![g] = u] /\ UNCHANGED <<versions, reminders, source, taken>>
  BY DEF Plan, db, history
<1> HIDE DEF t
<1>4. u.pc \notin {"plan", "job", "insert"}
      \/ (/\ u.pc \in {"job", "insert"}
          /\ u.event = e
          /\ u.content = c
          /\ u.version = task[g].version
          /\ u.todo = Slots(c, clock))
  BY <1>2, ProceedGoesOn DEF Idle
<1> HIDE DEF u
<1>5. task'[g] = u /\ \A h \in Generator : h # g => task'[h] = task[h]
  BY <1>3, OneTask DEF TypeInv
<1>6. Current(g) => \A s \in Slots(c, clock) : SlotKey(e, c, s) \notin taken \cup Keys(reminders)
  <2> SUFFICES ASSUME Current(g), NEW s \in Slots(c, clock)
               PROVE  SlotKey(e, c, s) \notin taken /\ SlotKey(e, c, s) \notin Keys(reminders)
    OBVIOUS
  <2>1. SlotKey(e, c, s).at > clock + Minute
    BY <1>1, SlotsAreLate DEF SlotKey
  <2>2. SlotKey(e, c, s).at \in Int /\ clock + Minute \in Int
    <3>1. s \in SlotsOf(c, c.occ)
      BY <1>1, PlanType
    <3>2. s.date \in Nat /\ s.pos \in DOMAIN c.reminders
      BY <1>1, <3>1, ContentAssumption DEF SlotsOf
    <3>3. c.reminders[s.pos] \in ReminderSpec
      BY <1>1, <3>2, ContentAssumption
    <3>4. QED
      BY <1>1, <3>2, <3>3, PeriodAssumption DEF SlotKey, RemindAt, ReminderSpec
  <2>3. SlotKey(e, c, s) \notin taken
    BY <2>1, <2>2 DEF Horizon
  <2>4. SlotKey(e, c, s) \notin Keys(reminders)
    BY <1>1 DEF GenerateInv, FreshPlan, Keys, KeyOf, SlotKey
  <2>5. QED
    BY <2>3, <2>4
<1> HIDE DEF e, c
<1>7. HolderSource'
  BY <1>1, <1>3, <1>4, <1>5 DEF GenerateInv, HolderSource, Holding, Current, e, c
<1>8. FreshPlan'
  BY <1>3, <1>4, <1>5 DEF GenerateInv, FreshPlan, Holding, Current
<1>9. TodoIsNew'
  BY <1>3, <1>4, <1>5, <1>6 DEF GenerateInv, TodoIsNew, Holding, Current, e, c
<1>10. SingleSource'
  BY <1>3 DEF GenerateInv, SingleSource
<1>11. QED
  BY <1>7, <1>8, <1>9, <1>10 DEF GenerateInv

\* An inserted row is one that nobody else can insert, and that the same task
\* does not insert again.
LEMMA GenerateInsert ==
  ASSUME TypeInv, VersionInv, GenerateInv, DistinctReminders,
         NEW g \in Generator, task[g].pc = "insert", Current(g),
         NEW s \in task[g].todo,
         reminders' = reminders \cup
            {RowOf(task[g].event, task[g].content, task[g].version, s)},
         task' = [task EXCEPT ![g] = Proceed([task[g] EXCEPT !.todo = task[g].todo \ {s}])],
         UNCHANGED <<versions, source, taken>>
  PROVE  GenerateInv'
<1> DEFINE e == task[g].event
           c == task[g].content
           v == task[g].version
           t == [task[g] EXCEPT !.todo = task[g].todo \ {s}]
           u == Proceed(t)
           r == RowOf(e, c, v, s)
<1>1. task[g] \in Task /\ c \in Content /\ e \in Event /\ s \in SlotsOf(c, c.occ)
      /\ task[g].todo \subseteq SlotsOf(c, c.occ)
  BY DEF TypeInv, TypeOK, Working
<1>2. t \in Task /\ t.pc = "insert" /\ t.event = e /\ t.content = c /\ t.version = v
      /\ t.todo = task[g].todo \ {s}
  BY <1>1 DEF Task
<1>3. task' = [task EXCEPT ![g] = u]
  OBVIOUS
<1> HIDE DEF t
<1>4. u.pc \notin {"plan", "job", "insert"}
      \/ (/\ u.pc \in {"job", "insert"}
          /\ u.event = e
          /\ u.content = c
          /\ u.version = v
          /\ u.todo = task[g].todo \ {s})
  BY <1>2, ProceedGoesOn DEF Idle
<1> HIDE DEF u
<1>5. task'[g] = u /\ \A h \in Generator : h # g => task'[h] = task[h]
  BY <1>3, OneTask DEF TypeInv
<1>6. /\ KeyOf(r) = SlotKey(e, c, s) /\ SlotKey(e, c, s).event = e
      /\ r.event = e /\ versions[e] = v
  BY <1>1, RowType DEF SlotKey, RowOf, Current, Task
<1>7. Keys(reminders') = Keys(reminders) \cup {SlotKey(e, c, s)}
  BY <1>6 DEF Keys
<1>8. \A h \in Generator : h # g /\ Holding(h) /\ Current(h) => task[h].event # e
  BY <1>6 DEF VersionInv, Exclusive, Current, Holding
<1>9. \A x \in task[g].todo : x # s => SlotKey(e, c, x) # SlotKey(e, c, s)
  BY <1>1 DEF DistinctReminders, SlotKey
<1>10. source[e] = c
  BY DEF GenerateInv, HolderSource, Holding
<1> HIDE DEF r
<1>11. HolderSource'
  BY <1>4, <1>5, <1>10 DEF GenerateInv, HolderSource, Holding, Current
<1>12. FreshPlan'
  BY <1>4, <1>5, <1>6, <1>8 DEF GenerateInv, FreshPlan, Holding, Current, r
<1>13. TodoIsNew'
  <2> SUFFICES ASSUME NEW h \in Generator, task'[h].pc \in {"job", "insert"}, Current(h)',
                      NEW x \in task'[h].todo
               PROVE  SlotKey(task'[h].event, task'[h].content, x) \notin taken \cup Keys(reminders')
    BY DEF TodoIsNew
  <2>1. CASE h = g
    <3>1. x \in task[g].todo /\ x # s /\ task'[h].event = e /\ task'[h].content = c
      BY <1>4, <1>5, <2>1
    <3>2. SlotKey(e, c, x) \notin taken \cup Keys(reminders)
      BY <3>1 DEF GenerateInv, TodoIsNew
    <3>3. QED
      BY <1>7, <1>9, <3>1, <3>2
  <2>2. CASE h # g
    <3>1. task'[h] = task[h] /\ Current(h) /\ Holding(h)
      BY <1>5, <2>2 DEF Current, Holding
    <3>2. SlotKey(task[h].event, task[h].content, x) \notin taken \cup Keys(reminders)
      BY <3>1 DEF GenerateInv, TodoIsNew
    <3>3. SlotKey(task[h].event, task[h].content, x).event # e
      BY <1>8, <2>2, <3>1 DEF SlotKey
    <3>4. QED
      BY <1>6, <1>7, <3>1, <3>2, <3>3
  <2>3. QED
    BY <2>1, <2>2
<1>14. SingleSource'
  <2>1. c # None
    BY <1>1, DomainAssumption
  <2>2. r = RowOf(e, source[e], versions[e], s)
    BY <1>6, <1>10 DEF r
  <2>3. QED
    BY <1>1, <1>6, <1>10, <2>1, <2>2 DEF GenerateInv, SingleSource
<1>15. QED
  BY <1>11, <1>12, <1>13, <1>14 DEF GenerateInv

\* A step in which tasks end or do not hold a version, and rows only leave.
LEMMA GenerateRests ==
  ASSUME TypeInv, GenerateInv, UNCHANGED <<versions, source, taken>>,
         reminders' \subseteq reminders,
         \A g \in Generator : task'[g] = task[g] \/ ~Holding(g)'
  PROVE  GenerateInv'
<1>1. \A g \in Generator : HoldsOn(g)
  BY DEF HoldsOn, Holding
<1>2. taken' \cup Keys(reminders') \subseteq taken \cup Keys(reminders)
  BY KeysMonotonic
<1>3. QED
  BY <1>1, <1>2, GenerateKeeps

\* GenerateInv is inductive, given the other parts of the invariant.
LEMMA GenerateInvStep ==
  ASSUME DistinctReminders, TypeInv, VersionInv, GenerateInv, SendInv, [Next]_vars
  PROVE  GenerateInv'
<1>1. ASSUME NEW h \in Handler, NEW e \in Event, NEW c \in Content, CreateEvent(h, e, c)
      PROVE  GenerateInv'
  <2>1. ~Holding(h)' /\ \A g \in Generator : g # h => task'[g] = task[g]
    BY <1>1 DEF CreateEvent, TypeInv, TypeOK, Holding, Start, Idle, Generator
  <2>2. QED
    BY <1>1, <2>1, GenerateRests DEF CreateEvent
<1>2. ASSUME NEW h \in Handler, NEW e \in Event, NEW c \in Content, UpdateRead(h, e, c)
      PROVE  GenerateInv'
  <2>1. ~Holding(h)' /\ \A g \in Generator : g # h => task'[g] = task[g]
    BY <1>2 DEF UpdateRead, TypeInv, TypeOK, Holding, Start, Idle, Generator
  <2>2. QED
    BY <1>2, <2>1, GenerateRests DEF UpdateRead, db, history
<1>3. ASSUME NEW e \in Event, DeleteEvent(e)
      PROVE  GenerateInv'
  BY <1>3, GenerateDelete
<1>4. ASSUME NEW g \in Generator, InitVersion(g)
      PROVE  GenerateInv'
  <2> DEFINE e == task[g].event
             t == [task[g] EXCEPT !.pc = "plan", !.version = 1]
  <2>1. task[g] \in Task /\ task[g].pc = "init" /\ e \in Event
    BY <1>4 DEF InitVersion, TypeInv, TypeOK, Working
  <2>2. CASE events[e] # None
    <3>1. t.pc = "plan" /\ t.event = e /\ t.content = task[g].content
      BY <2>1 DEF Task
    <3>2. task' = [task EXCEPT ![g] = t] /\ versions' = [versions EXCEPT ![e] = 1]
          /\ source' = [source EXCEPT ![e] = task[g].content]
          /\ reminders' = reminders /\ taken' = taken
      BY <1>4, <2>2 DEF InitVersion
    <3> HIDE DEF t
    <3>3. task'[g] = t /\ \A h \in Generator : h # g => task'[h] = task[h]
      BY <3>2, OneTask DEF TypeInv
    <3>4. versions[e] = 0 /\ \A h \in Generator : h # g /\ Holding(h) => task[h].event # e
      BY <2>1 DEF VersionInv, InitFirst, Holding
    <3>5. \A x \in reminders : x.event # e
      BY <3>4 DEF VersionInv, RowVersions
    <3>6. \A d \in Event : d # e => versions'[d] = versions[d]
      BY <3>2 DEF TypeInv, TypeOK
    <3>7. \A h \in Generator : h # g /\ Holding(h) /\ task[h].event = e => task[h].version # versions'[e]
      BY <3>4
    <3>8. source' = [source EXCEPT ![e] = task'[g].content]
      BY <3>1, <3>2, <3>3
    <3>9. task'[g].pc = "plan" /\ task'[g].event = e
      BY <3>1, <3>3
    <3>10. reminders' \subseteq reminders /\ (\A x \in reminders' : x.event # e) /\ taken' = taken
      BY <3>2, <3>5
    <3> HIDE DEF e
    <3>11. QED
      BY <2>1, <3>3, <3>6, <3>7, <3>8, <3>9, <3>10, GenerateObtains
  <2>3. CASE events[e] = None
    BY <1>4, <2>3, GenerateRests DEF InitVersion, TypeInv, TypeOK, Holding, Idle
  <2>4. QED
    BY <2>2, <2>3
<1>5. ASSUME NEW g \in Generator, UpdateSave(g)
      PROVE  GenerateInv'
  <2>1. ~Holding(g)' /\ \A h \in Generator : h # g => task'[h] = task[h]
    BY <1>5 DEF UpdateSave, TypeInv, TypeOK, Holding, Task
  <2>2. QED
    BY <1>5, <2>1, GenerateRests DEF UpdateSave
<1>6. ASSUME NEW g \in Generator, IncStart(g)
      PROVE  GenerateInv'
  <2>1. ~Holding(g)' /\ \A h \in Generator : h # g => task'[h] = task[h]
    BY <1>6 DEF IncStart, TypeInv, TypeOK, Holding, Task, Idle
  <2>2. QED
    BY <1>6, <2>1, GenerateRests DEF IncStart, db, history
<1>7. ASSUME NEW g \in Generator, IncCommit(g)
      PROVE  GenerateInv'
  <2> DEFINE e == task[g].event
             v == task[g].version
             t == [task[g] EXCEPT !.pc = "plan", !.version = v + 1]
  <2>1. task[g] \in Task /\ task[g].pc = "commit" /\ e \in Event /\ v \in Nat
    BY <1>7 DEF IncCommit, TypeInv, TypeOK, Working, Task
  <2>2. CASE versions[e] = v
    <3>1. t.pc = "plan" /\ t.event = e /\ t.content = task[g].content
      BY <2>1 DEF Task
    <3>2. task' = [task EXCEPT ![g] = t] /\ versions' = [versions EXCEPT ![e] = v + 1]
          /\ source' = [source EXCEPT ![e] = task[g].content]
          /\ reminders' = {r \in reminders : r.event # e} /\ taken' = taken
      BY <1>7, <2>2 DEF IncCommit
    <3> HIDE DEF t
    <3>3. task'[g] = t /\ \A h \in Generator : h # g => task'[h] = task[h]
      BY <3>2, OneTask DEF TypeInv
    <3>4. versions'[e] = v + 1 /\ \A d \in Event : d # e => versions'[d] = versions[d]
      BY <2>1, <3>2 DEF TypeInv, TypeOK
    <3>5. v > 0
      BY <2>1 DEF VersionInv, Versioned
    <3>6. \A h \in Generator : h # g /\ Holding(h) /\ task[h].event = e => task[h].version # versions'[e]
      <4>1. \A h \in Generator : task[h].version \in Nat
        BY DEF TypeInv, TypeOK, Task
      <4>2. QED
        BY <2>1, <2>2, <3>4, <3>5, <4>1 DEF VersionInv, Versioned
    <3>7. source' = [source EXCEPT ![e] = task'[g].content]
      BY <3>1, <3>2, <3>3
    <3>8. task'[g].pc = "plan" /\ task'[g].event = e
      BY <3>1, <3>3
    <3>9. reminders' \subseteq reminders /\ (\A x \in reminders' : x.event # e) /\ taken' = taken
      BY <3>2
    <3> HIDE DEF e, v
    <3>10. QED
      BY <2>1, <3>3, <3>4, <3>6, <3>7, <3>8, <3>9, GenerateObtains
  <2>3. CASE versions[e] # v
    BY <1>7, <2>3, GenerateRests DEF IncCommit, TypeInv, TypeOK, Holding, Idle
  <2>4. QED
    BY <2>2, <2>3
<1>8. ASSUME NEW g \in Generator, Plan(g)
      PROVE  GenerateInv'
  BY <1>8, GeneratePlan DEF SendInv
<1>9. ASSUME NEW g \in Generator, InsertJob(g)
      PROVE  GenerateInv'
  <2> DEFINE t == [task[g] EXCEPT !.jobAt = {}]
             u == Proceed(t)
  <2>1. task[g] \in Task /\ task[g].pc = "job"
    BY <1>9 DEF InsertJob, TypeInv, TypeOK
  <2>2. t \in Task /\ t.pc = "job" /\ t.event = task[g].event /\ t.content = task[g].content
        /\ t.version = task[g].version /\ t.todo = task[g].todo
    BY <2>1 DEF Task
  <2>3. task' = [task EXCEPT ![g] = u] /\ UNCHANGED <<versions, reminders, source, taken>>
    BY <1>9 DEF InsertJob, history
  <2> HIDE DEF t
  <2>4. u.pc \notin {"plan", "job", "insert"}
        \/ (/\ u.pc \in {"job", "insert"}
            /\ u.event = task[g].event
            /\ u.content = task[g].content
            /\ u.version = task[g].version
            /\ u.todo = task[g].todo)
    BY <2>2, ProceedGoesOn DEF Idle
  <2> HIDE DEF u
  <2>5. task'[g] = u /\ \A h \in Generator : h # g => task'[h] = task[h]
    BY <2>3, OneTask DEF TypeInv
  <2>6. \A h \in Generator : HoldsOn(h)
    BY <2>1, <2>4, <2>5 DEF HoldsOn, Holding
  <2>7. QED
    BY <2>3, <2>6, GenerateKeeps
<1>10. ASSUME NEW g \in Generator, InsertRow(g)
       PROVE  GenerateInv'
  <2>1. PICK s \in task[g].todo :
          \/ /\ Current(g)
             /\ reminders' = reminders \cup
                   {RowOf(task[g].event, task[g].content, task[g].version, s)}
             /\ task' = [task EXCEPT ![g] = Proceed([task[g] EXCEPT !.todo = task[g].todo \ {s}])]
          \/ /\ task' = [task EXCEPT ![g] = Idle]
             /\ reminders' = reminders
    BY <1>10 DEF InsertRow, Accepted, RowOf, Current
  <2>2. task[g].pc = "insert" /\ UNCHANGED <<versions, source, taken>>
    BY <1>10 DEF InsertRow, history
  <2>3. CASE task' = [task EXCEPT ![g] = Idle] /\ reminders' = reminders
    BY <2>2, <2>3, GenerateRests DEF TypeInv, TypeOK, Holding, Idle
  <2>4. CASE ~(task' = [task EXCEPT ![g] = Idle] /\ reminders' = reminders)
    BY <2>1, <2>2, <2>4, GenerateInsert
  <2>5. QED
    BY <2>3, <2>4
<1>11. CASE JobTick
  BY <1>11, GenerateRests DEF JobTick, history
<1>12. CASE JobFind
  <2>1. \A e \in Event : Start("inc", e, events[e]).pc = "inc"
    BY DEF Start, Idle
  <2>2. \A g \in Generator : task'[g] = task[g] \/ task'[g].pc = "inc"
    BY <1>12, <2>1 DEF JobFind, TypeInv, TypeOK
  <2>3. QED
    BY <1>12, <2>2, GenerateRests DEF JobFind, db, history, Holding
<1>13. CASE JobFindFails
  BY <1>13, GenerateRests DEF JobFindFails, db, history
<1>14. ASSUME NEW r \in Run, SendTick(r)
       PROVE  GenerateInv'
  BY <1>14, GenerateRests DEF SendTick, db, history
<1>15. ASSUME NEW r \in Run, Take(r)
       PROVE  GenerateInv'
  <2> DEFINE rows == {x \in reminders : x.at <= run[r].due}
  <2>1. taken' = taken \cup Keys(rows) /\ reminders' \subseteq reminders
        /\ UNCHANGED <<versions, source, task>>
    BY <1>15 DEF Take, Collected
  <2>2. taken' \cup Keys(reminders') \subseteq taken \cup Keys(reminders)
    BY <2>1, KeysMonotonic
  <2>3. \A g \in Generator : HoldsOn(g)
    BY <2>1 DEF HoldsOn, Holding
  <2>4. QED
    BY <2>1, <2>2, <2>3, GenerateKeeps
<1>16. ASSUME NEW r \in Run, Lookup(r)
       PROVE  GenerateInv'
  BY <1>16, GenerateRests DEF Lookup, db, history
<1>17. ASSUME NEW r \in Run, Send(r)
       PROVE  GenerateInv'
  BY <1>17, GenerateRests DEF Send, Expired, db
<1>18. ASSUME NEW g \in Generator, StorageError(g)
       PROVE  GenerateInv'
  BY <1>18, GenerateRests DEF StorageError, db, history, TypeInv, TypeOK, Holding, Idle
<1>19. ASSUME NEW r \in Run, SenderFails(r)
       PROVE  GenerateInv'
  BY <1>19, GenerateRests DEF SenderFails, db, history
<1>20. CASE Crash
  BY <1>20, GenerateRests DEF Crash, db, history, Holding, Idle
<1>21. CASE Tick
  BY <1>21, GenerateRests DEF Tick, db, history
<1>22. CASE UNCHANGED vars
  BY <1>22, GenerateRests DEF vars, db, history
<1>23. QED
  BY <1>1, <1>2, <1>3, <1>4, <1>5, <1>6, <1>7, <1>8, <1>9, <1>10, <1>11, <1>12, <1>13,
     <1>14, <1>15, <1>16, <1>17, <1>18, <1>19, <1>20, <1>21, <1>22
     DEF Next, Request, Generate, Sender, Fault

-----------------------------------------------------------------------------
(* Preservation of SendInv.                                                *)

\* The reminders a sender holds or has sent fall due at integers.
LEMMA BatchType ==
  ASSUME TypeInv
  PROVE  /\ \A r \in Run : run[r] \in SenderState
         /\ \A r \in Run : \A k \in run[r].batch : k.at \in Int
         /\ \A k \in taken : k.at \in Int
         /\ \A x \in sent : x.key.at \in Int /\ x.time \in Nat
BY DEF TypeInv, TypeOK, SenderState, Key

\* A step in which the sender does nothing but give up a run keeps SendInv.
LEMMA SendKeeps ==
  ASSUME TypeInv, SendInv, taken' = taken, sent' = sent,
         clock' \in Nat, clock' >= clock,
         Keys(reminders') \cap taken = {},
         \A r \in Run : run'[r] = run[r] \/ run'[r] = IdleRun
  PROVE  SendInv'
<1>1. clock \in Nat
  BY DEF TypeInv, TypeOK
<1>2. IdleRun.batch = {} /\ IdleRun.due = 0 /\ IdleRun.pc = "idle"
  BY DEF IdleRun
<1>3. Horizon'
  <2>1. \A k \in taken : k.at <= clock' + Minute
    BY <1>1, BatchType, PeriodAssumption DEF SendInv, Horizon
  <2>2. \A r \in Run : run'[r].due <= clock' + Minute
    BY <1>1, <1>2, BatchType, PeriodAssumption DEF SendInv, Horizon, SenderState
  <2>3. QED
    BY <2>1, <2>2 DEF Horizon
<1>4. BatchInv'
  BY <1>2 DEF SendInv, BatchInv
<1>5. AtMostOnce' /\ NeverEarly' /\ (SentKeys \subseteq taken)'
  BY <1>2 DEF SendInv, AtMostOnce, NeverEarly, SentKeys
<1>6. QED
  BY <1>3, <1>4, <1>5 DEF SendInv

\* As SendKeeps, for a step in which rows only leave and the clock stands still.
LEMMA SendRests ==
  ASSUME TypeInv, SendInv, UNCHANGED <<taken, sent, clock>>, reminders' \subseteq reminders,
         \A r \in Run : run'[r] = run[r] \/ run'[r] = IdleRun
  PROVE  SendInv'
<1>1. clock' \in Nat /\ clock' >= clock
  BY DEF TypeInv, TypeOK
<1>2. Keys(reminders') \cap taken = {}
  BY KeysMonotonic DEF SendInv, AtMostOnce
<1>3. QED
  BY <1>1, <1>2, SendKeeps

\* A run begins with an empty batch.
LEMMA SendBegins ==
  ASSUME TypeInv, SendInv, NEW r \in Run, SendTick(r)
  PROVE  SendInv'
<1> DEFINE q == [run[r] EXCEPT !.pc = "take", !.due = clock + Minute]
<1>1. run[r] = IdleRun /\ run[r] \in SenderState /\ clock + Minute \in Nat
  BY PeriodAssumption DEF SendTick, TypeInv, TypeOK
<1>2. q.pc = "take" /\ q.due = clock + Minute /\ q.batch = {}
  BY <1>1 DEF SenderState, IdleRun
<1>3. run'[r] = q /\ (\A p \in Run : p # r => run'[p] = run[p])
      /\ UNCHANGED <<reminders, clock, taken, sent>>
  BY DEF SendTick, Deadline, TypeInv, TypeOK, db, history
<1> HIDE DEF q
<1>4. Horizon'
  BY <1>1, <1>2, <1>3 DEF SendInv, Horizon
<1>5. BatchInv'
  BY <1>2, <1>3 DEF SendInv, BatchInv
<1>6. AtMostOnce'
  BY <1>2, <1>3 DEF SendInv, AtMostOnce, SentKeys
<1>7. NeverEarly' /\ (SentKeys \subseteq taken)'
  BY <1>3 DEF SendInv, NeverEarly, SentKeys
<1>8. QED
  BY <1>4, <1>5, <1>6, <1>7 DEF SendInv

\* Rows with the same key are due at the same time: what a run collects has no
\* key in common with what it leaves.
LEMMA KeysSplit ==
  ASSUME TypeOK, NEW d
  PROVE  Keys(reminders \ {x \in reminders : x.at <= d})
           = Keys(reminders) \ Keys({x \in reminders : x.at <= d})
<1>1. \A x, y : KeyOf(x) = KeyOf(y) => x.at = y.at
  BY DEF KeyOf
<1>2. QED
  BY <1>1 DEF Keys

\* A run collects what was in the table, hence was never collected.
LEMMA SendCollects ==
  ASSUME TypeInv, SendInv, NEW r \in Run, Take(r)
  PROVE  SendInv'
<1> DEFINE rows == {x \in reminders : x.at <= run[r].due}
           q == [run[r] EXCEPT !.pc = "lookup", !.batch = Keys(rows)]
<1>1. run[r] \in SenderState /\ run[r].batch = {}
  BY DEF Take, Collected, TypeInv, TypeOK, SendInv, BatchInv
<1>2. q.pc = "lookup" /\ q.due = run[r].due /\ q.batch = Keys(rows)
  BY <1>1 DEF SenderState
<1>3. /\ run'[r] = q /\ \A p \in Run : p # r => run'[p] = run[p]
      /\ taken' = taken \cup Keys(rows) /\ reminders' = reminders \ rows
      /\ UNCHANGED <<clock, sent>>
  BY DEF Take, Collected, TypeInv, TypeOK
<1>4. Keys(rows) \subseteq Keys(reminders) /\ Keys(reminders') = Keys(reminders) \ Keys(rows)
  BY <1>3, KeysMonotonic, KeysSplit DEF TypeInv
<1>5. \A k \in Keys(rows) : k.at <= run[r].due /\ k.at \in Int
  BY DEF Keys, KeyOf, TypeInv, TypeOK, Row
<1>6. Keys(rows) \cap taken = {}
  BY <1>4 DEF SendInv, AtMostOnce
<1>7. run[r].due \in Nat /\ clock + Minute \in Nat /\ run[r].due <= clock + Minute
  BY <1>1, PeriodAssumption DEF SenderState, TypeInv, TypeOK, SendInv, Horizon
<1> HIDE DEF rows, q
<1>8. Horizon'
  <2>1. \A k \in taken' : k.at <= clock + Minute
    BY <1>3, <1>5, <1>7 DEF SendInv, Horizon
  <2>2. QED
    BY <1>2, <1>3, <2>1 DEF SendInv, Horizon
<1>9. BatchInv'
  BY <1>2, <1>3, <1>5 DEF SendInv, BatchInv
<1>10. AtMostOnce'
  <2>1. Keys(reminders') \cap taken' = {}
    BY <1>3, <1>4 DEF SendInv, AtMostOnce
  <2>2. \A p \in Run : run'[p].batch \cap SentKeys' = {}
    BY <1>2, <1>3, <1>6 DEF SendInv, AtMostOnce, SentKeys
  <2>3. \A p \in Run : run[p].batch \cap Keys(rows) = {}
    BY <1>6 DEF SendInv, BatchInv
  <2>4. \A p, s \in Run : p # s => run'[p].batch \cap run'[s].batch = {}
    BY <1>2, <1>3, <2>3 DEF SendInv, AtMostOnce
  <2>5. \A x, y \in sent' : x.key = y.key => x = y
    BY <1>3 DEF SendInv, AtMostOnce
  <2>6. QED
    BY <2>1, <2>2, <2>4, <2>5 DEF AtMostOnce
<1>11. NeverEarly' /\ (SentKeys \subseteq taken)'
  BY <1>3 DEF SendInv, NeverEarly, SentKeys
<1>12. QED
  BY <1>8, <1>9, <1>10, <1>11 DEF SendInv

\* Reminders of deleted events leave the batch.
LEMMA SendLooksUp ==
  ASSUME TypeInv, SendInv, NEW r \in Run, Lookup(r)
  PROVE  SendInv'
<1> DEFINE found == {k \in run[r].batch : events[k.event] # None}
           q == [run[r] EXCEPT !.pc = "wait", !.batch = found]
<1>1. run[r] \in SenderState
  BY DEF TypeInv, TypeOK
<1>2. q.pc = "wait" /\ q.due = run[r].due /\ q.batch = found
  BY <1>1 DEF SenderState
<1>3. /\ run'[r] = IdleRun \/ run'[r] = q
      /\ \A p \in Run : p # r => run'[p] = run[p]
      /\ UNCHANGED <<reminders, clock, taken, sent>>
  BY DEF Lookup, TypeInv, TypeOK, db, history
<1>4. CASE run'[r] = IdleRun
  BY <1>3, <1>4, SendRests
<1>5. CASE run'[r] = q
  <2>1. found \subseteq run[r].batch
    OBVIOUS
  <2> HIDE DEF q, found
  <2>2. Horizon'
    BY <1>2, <1>3, <1>5 DEF SendInv, Horizon
  <2>3. BatchInv'
    BY <1>2, <1>3, <1>5, <2>1 DEF SendInv, BatchInv
  <2>4. AtMostOnce'
    BY <1>2, <1>3, <1>5, <2>1 DEF SendInv, AtMostOnce, SentKeys
  <2>5. NeverEarly' /\ (SentKeys \subseteq taken)'
    BY <1>3 DEF SendInv, NeverEarly, SentKeys
  <2>6. QED
    BY <2>2, <2>3, <2>4, <2>5 DEF SendInv
<1>6. QED
  BY <1>3, <1>4, <1>5

\* A run posts what it alone holds, at its deadline or later.
LEMMA SendPosts ==
  ASSUME TypeInv, SendInv, NEW r \in Run, Send(r)
  PROVE  SendInv'
<1> DEFINE posts == {[key |-> k, time |-> clock] : k \in run[r].batch}
<1>1. /\ run'[r] = IdleRun /\ \A p \in Run : p # r => run'[p] = run[p]
      /\ sent' = sent \cup posts
      /\ UNCHANGED <<reminders, clock, taken>>
  BY DEF Send, Expired, TypeInv, TypeOK, db
<1>2. IdleRun.batch = {} /\ IdleRun.due = 0 /\ IdleRun.pc = "idle"
  BY DEF IdleRun
<1>3. \A x \in posts : x.key \in run[r].batch /\ x.time = clock
  OBVIOUS
<1>4. run[r].due <= clock /\ run[r].due \in Nat /\ clock \in Nat
  BY DEF Send, Expired, TypeInv, TypeOK, SenderState
<1>5. \A x \in posts : x.key.at <= x.time
  BY <1>3, <1>4, BatchType DEF SendInv, BatchInv
<1>6. {x.key : x \in posts} = run[r].batch
  <2>1. \A k \in run[r].batch : [key |-> k, time |-> clock] \in posts
    OBVIOUS
  <2>2. QED
    BY <1>3, <2>1
<1>7. \A x, y \in posts : x.key = y.key => x = y
  OBVIOUS
<1> HIDE DEF posts
<1>8. SentKeys' = SentKeys \cup run[r].batch
  BY <1>1, <1>6 DEF SentKeys
<1>9. Horizon'
  BY <1>1, <1>2, <1>4, PeriodAssumption DEF SendInv, Horizon
<1>10. BatchInv'
  BY <1>1, <1>2 DEF SendInv, BatchInv
<1>11. AtMostOnce'
  <2>1. \A p \in Run : run'[p].batch \cap SentKeys' = {}
    BY <1>1, <1>2, <1>8 DEF SendInv, AtMostOnce
  <2>2. \A p, q \in Run : p # q => run'[p].batch \cap run'[q].batch = {}
    BY <1>1, <1>2 DEF SendInv, AtMostOnce
  <2>3. \A x, y \in sent' : x.key = y.key => x = y
    BY <1>1, <1>3, <1>7 DEF SendInv, AtMostOnce, SentKeys
  <2>4. Keys(reminders') \cap taken' = {}
    BY <1>1 DEF SendInv, AtMostOnce
  <2>5. QED
    BY <2>1, <2>2, <2>3, <2>4 DEF AtMostOnce
<1>12. NeverEarly'
  BY <1>1, <1>5 DEF SendInv, NeverEarly
<1>13. (SentKeys \subseteq taken)'
  BY <1>1, <1>8 DEF SendInv, BatchInv
<1>14. QED
  BY <1>9, <1>10, <1>11, <1>12, <1>13 DEF SendInv

\* SendInv is inductive, given the other parts of the invariant.
LEMMA SendInvStep ==
  ASSUME DistinctReminders, TypeInv, VersionInv, GenerateInv, SendInv, [Next]_vars
  PROVE  SendInv'
<1>1. ASSUME NEW h \in Handler, NEW e \in Event, NEW c \in Content, CreateEvent(h, e, c)
      PROVE  SendInv'
  BY <1>1, SendRests DEF CreateEvent
<1>2. ASSUME NEW h \in Handler, NEW e \in Event, NEW c \in Content, UpdateRead(h, e, c)
      PROVE  SendInv'
  BY <1>2, SendRests DEF UpdateRead, db, history
<1>3. ASSUME NEW e \in Event, DeleteEvent(e)
      PROVE  SendInv'
  BY <1>3, SendRests DEF DeleteEvent, history
<1>4. ASSUME NEW g \in Generator, InitVersion(g)
      PROVE  SendInv'
  BY <1>4, SendRests DEF InitVersion
<1>5. ASSUME NEW g \in Generator, UpdateSave(g)
      PROVE  SendInv'
  BY <1>5, SendRests DEF UpdateSave
<1>6. ASSUME NEW g \in Generator, IncStart(g)
      PROVE  SendInv'
  BY <1>6, SendRests DEF IncStart, db, history
<1>7. ASSUME NEW g \in Generator, IncCommit(g)
      PROVE  SendInv'
  <2>1. reminders' \subseteq reminders /\ UNCHANGED <<taken, sent, clock, run>>
    BY <1>7 DEF IncCommit
  <2>2. QED
    BY <2>1, SendRests
<1>8. ASSUME NEW g \in Generator, Plan(g)
      PROVE  SendInv'
  BY <1>8, SendRests DEF Plan, db, history
<1>9. ASSUME NEW g \in Generator, InsertJob(g)
      PROVE  SendInv'
  BY <1>9, SendRests DEF InsertJob, history
<1>10. ASSUME NEW g \in Generator, InsertRow(g)
       PROVE  SendInv'
  <2> DEFINE r(s) == RowOf(task[g].event, task[g].content, task[g].version, s)
  <2>1. PICK s \in task[g].todo :
          \/ Current(g) /\ reminders' = reminders \cup {r(s)}
          \/ reminders' = reminders
    BY <1>10 DEF InsertRow, Accepted, RowOf, Current
  <2>2. task[g].pc = "insert" /\ UNCHANGED <<clock, run, taken, sent>>
    BY <1>10 DEF InsertRow, history
  <2>3. CASE reminders' = reminders
    BY <2>2, <2>3, SendRests
  <2>4. CASE Current(g) /\ reminders' = reminders \cup {r(s)}
    <3>1. task[g] \in Task /\ task[g].event \in Event /\ task[g].content \in Content
          /\ s \in SlotsOf(task[g].content, task[g].content.occ)
      BY <2>2 DEF TypeInv, TypeOK, Working
    <3>2. KeyOf(r(s)) = SlotKey(task[g].event, task[g].content, s)
      BY <3>1, RowType DEF Task
    <3>3. KeyOf(r(s)) \notin taken
      BY <2>2, <2>4, <3>2 DEF GenerateInv, TodoIsNew
    <3> HIDE DEF r
    <3>4. Keys(reminders') \cap taken = {}
      BY <2>4, <3>3 DEF Keys, SendInv, AtMostOnce
    <3>5. clock' \in Nat /\ clock' >= clock
      BY <2>2 DEF TypeInv, TypeOK
    <3>6. QED
      BY <2>2, <3>4, <3>5, SendKeeps
  <2>5. QED
    BY <2>1, <2>3, <2>4
<1>11. CASE JobTick
  BY <1>11, SendRests DEF JobTick, history
<1>12. CASE JobFind
  BY <1>12, SendRests DEF JobFind, db, history
<1>13. CASE JobFindFails
  BY <1>13, SendRests DEF JobFindFails, db, history
<1>14. ASSUME NEW r \in Run, Sender(r)
       PROVE  SendInv'
  BY <1>14, SendBegins, SendCollects, SendLooksUp, SendPosts DEF Sender
<1>15. ASSUME NEW g \in Generator, StorageError(g)
       PROVE  SendInv'
  BY <1>15, SendRests DEF StorageError, db, history
<1>16. ASSUME NEW r \in Run, SenderFails(r)
       PROVE  SendInv'
  BY <1>16, SendRests DEF SenderFails, db, history, TypeInv, TypeOK
<1>17. CASE Crash
  BY <1>17, SendRests DEF Crash, db, history
<1>18. CASE Tick
  <2>1. clock' \in Nat /\ clock' >= clock /\ UNCHANGED <<taken, sent, reminders, run>>
    BY <1>18 DEF Tick, TypeInv, TypeOK, db, history
  <2>2. Keys(reminders') \cap taken = {}
    BY <2>1 DEF SendInv, AtMostOnce
  <2>3. QED
    BY <2>1, <2>2, SendKeeps
<1>19. CASE UNCHANGED vars
  BY <1>19, SendRests DEF vars, db, history
<1>20. QED
  BY <1>1, <1>2, <1>3, <1>4, <1>5, <1>6, <1>7, <1>8, <1>9, <1>10, <1>11, <1>12, <1>13,
     <1>14, <1>15, <1>16, <1>17, <1>18, <1>19
     DEF Next, Request, Generate, Fault

-----------------------------------------------------------------------------
(* The theorems.                                                           *)

\* IInv holds at first.
LEMMA IInvInit == Init => IInv
<1> SUFFICES ASSUME Init
             PROVE  IInv
  OBVIOUS
<1>1. TypeInv
  BY TypeInvInit
<1>2. VersionInv
  BY DEF Init, VersionInv, Unissued, InitFirst, Versioned, Exclusive, RowVersions,
         Holding, Idle
<1>3. GenerateInv
  BY DEF Init, GenerateInv, HolderSource, FreshPlan, TodoIsNew, SingleSource, Holding, Idle
<1>4. SendInv
  BY PeriodAssumption
     DEF Init, SendInv, Horizon, BatchInv, AtMostOnce, NeverEarly, SentKeys, Keys, IdleRun
<1>5. QED
  BY <1>1, <1>2, <1>3, <1>4 DEF IInv

\* Every step keeps IInv.
LEMMA IInvStep ==
  ASSUME DistinctReminders, IInv, [Next]_vars
  PROVE  IInv'
BY TypeInvStep, VersionInvStep, GenerateInvStep, SendInvStep DEF IInv

\* If clients give distinct identifiers to reminders due at the same time, the
\* invariant holds of every behaviour.
LEMMA Inductive ==
  ASSUME DistinctReminders
  PROVE  Spec => []IInv
<1>1. IInv /\ [Next]_vars => IInv'
  BY IInvStep
<1>2. QED
  BY <1>1, IInvInit, PTL DEF Spec

\* No reminder is handed to the sender or posted twice, whatever requests,
\* expansions, runs of the sender, errors and crashes interleave.
THEOREM DeliveredAtMostOnce ==
  ASSUME DistinctReminders
  PROVE  Spec => []AtMostOnce
<1>1. IInv => AtMostOnce
  BY DEF IInv, SendInv
<1>2. QED
  BY <1>1, Inductive, PTL

\* No reminder is posted before its time.
THEOREM DeliveredNeverEarly ==
  ASSUME DistinctReminders
  PROVE  Spec => []NeverEarly
<1>1. IInv => NeverEarly
  BY DEF IInv, SendInv
<1>2. QED
  BY <1>1, Inductive, PTL

\* The scheduled reminders of an event all come from the content whose
\* generator holds the current version.
THEOREM GeneratedFromOneContent ==
  ASSUME DistinctReminders
  PROVE  Spec => []SingleSource
<1>1. IInv => SingleSource
  BY DEF IInv, GenerateInv
<1>2. QED
  BY <1>1, Inductive, PTL

-----------------------------------------------------------------------------
(* Refinement.                                                             *)

\* Rows that leave the table other than by Take are withdrawn.
LEMMA Withdraws ==
  ASSUME reminders' \subseteq reminders, UNCHANGED <<clock, taken, sent>>
  PROVE  Delivery!Withdraw
BY KeysMonotonic DEF Delivery!Withdraw

\* An inserted row is scheduled: it was never accepted.
LEMMA Schedules ==
  ASSUME DistinctReminders, IInv, IInv', NEW g \in Generator, InsertRow(g)
  PROVE  Delivery!Schedule
<1>1. reminders \subseteq reminders' /\ UNCHANGED <<clock, taken, sent>>
  BY DEF InsertRow, history
<1>2. Keys(reminders) \subseteq Keys(reminders')
  BY <1>1, KeysMonotonic
<1>3. Keys(reminders') \subseteq Key /\ Keys(reminders') \cap taken = {}
  BY <1>1 DEF IInv, TypeInv, TypeOK, SendInv, AtMostOnce, Keys, KeyOf, Key, Row
<1>4. QED
  BY <1>1, <1>2, <1>3 DEF Delivery!Schedule

\* What a run collects is due at most a minute from now.
LEMMA Accepts ==
  ASSUME IInv, NEW r \in Run, Take(r)
  PROVE  Delivery!Accept
<1> DEFINE rows == {x \in reminders : x.at <= run[r].due}
<1>1. taken' = taken \cup Keys(rows) /\ reminders' = reminders \ rows
      /\ UNCHANGED <<clock, sent>>
  BY DEF Take, Collected
<1>2. Keys(rows) \subseteq Keys(reminders) /\ Keys(reminders') = Keys(reminders) \ Keys(rows)
  BY <1>1, KeysMonotonic, KeysSplit DEF IInv, TypeInv
<1>3. \A k \in Keys(rows) : k.at <= clock + Minute
  <2>1. \A k \in Keys(rows) : k.at <= run[r].due /\ k.at \in Int
    BY DEF Keys, KeyOf, IInv, TypeInv, TypeOK, Row
  <2>2. run[r].due \in Nat /\ clock + Minute \in Nat /\ run[r].due <= clock + Minute
    BY PeriodAssumption DEF IInv, TypeInv, TypeOK, SenderState, SendInv, Horizon
  <2>3. QED
    BY <2>1, <2>2
<1> HIDE DEF rows
<1>4. Keys(reminders) \ Keys(reminders') = Keys(rows)
  BY <1>2
<1>5. QED
  BY <1>1, <1>2, <1>3, <1>4 DEF Delivery!Accept

\* A run posts what it has collected, once its time has come.
LEMMA Announces ==
  ASSUME IInv, NEW r \in Run, Send(r)
  PROVE  Delivery!Announce
<1> DEFINE posts == {[key |-> k, time |-> clock] : k \in run[r].batch}
<1>1. sent' = sent \cup posts /\ UNCHANGED <<reminders, clock, taken>>
  BY DEF Send, Expired, db
<1>2. \A x \in posts : x.key \in run[r].batch /\ x.time = clock
  OBVIOUS
<1>3. run[r].due <= clock /\ run[r].due \in Nat /\ clock \in Nat
  BY DEF Send, Expired, IInv, TypeInv, TypeOK, SenderState
<1>4. \A x \in posts : x.key \in taken /\ x.key.at <= clock
  BY <1>2, <1>3, BatchType DEF IInv, SendInv, BatchInv
<1>5. \A x \in posts, y \in sent : y.key # x.key
  BY <1>2 DEF IInv, SendInv, AtMostOnce, SentKeys
<1> HIDE DEF posts
<1>6. QED
  BY <1>1, <1>2, <1>4, <1>5 DEF Delivery!Announce

\* Every step keeps the promise or does not concern it.
LEMMA StepKeepsPromise ==
  ASSUME DistinctReminders, IInv, IInv', [Next]_vars
  PROVE  [Delivery!Next]_(Delivery!vars)
<1> USE DEF Delivery!Next
<1>1. ASSUME NEW h \in Handler, NEW e \in Event, NEW c \in Content,
             CreateEvent(h, e, c) \/ UpdateRead(h, e, c)
      PROVE  Delivery!Next
  BY <1>1, Withdraws DEF CreateEvent, UpdateRead, db, history
<1>2. ASSUME NEW e \in Event, DeleteEvent(e)
      PROVE  Delivery!Next
  BY <1>2, Withdraws DEF DeleteEvent, history
<1>3. ASSUME NEW g \in Generator, InitVersion(g) \/ UpdateSave(g) \/ IncStart(g)
      PROVE  Delivery!Next
  BY <1>3, Withdraws DEF InitVersion, UpdateSave, IncStart, db, history
<1>4. ASSUME NEW g \in Generator, IncCommit(g)
      PROVE  Delivery!Next
  <2>1. reminders' \subseteq reminders /\ UNCHANGED <<clock, taken, sent>>
    BY <1>4 DEF IncCommit
  <2>2. QED
    BY <2>1, Withdraws
<1>5. ASSUME NEW g \in Generator, Plan(g) \/ InsertJob(g) \/ StorageError(g)
      PROVE  Delivery!Next
  BY <1>5, Withdraws DEF Plan, InsertJob, StorageError, db, history
<1>6. ASSUME NEW g \in Generator, InsertRow(g)
      PROVE  Delivery!Next
  BY <1>6, Schedules
<1>7. CASE JobTick \/ JobFind \/ JobFindFails \/ Crash
  BY <1>7, Withdraws DEF JobTick, JobFind, JobFindFails, Crash, db, history
<1>8. ASSUME NEW r \in Run, SendTick(r) \/ Lookup(r) \/ SenderFails(r)
      PROVE  Delivery!Next
  BY <1>8, Withdraws DEF SendTick, Lookup, SenderFails, db, history
<1>9. ASSUME NEW r \in Run, Take(r)
      PROVE  Delivery!Next
  BY <1>9, Accepts
<1>10. ASSUME NEW r \in Run, Send(r)
       PROVE  Delivery!Next
  BY <1>10, Announces
<1>11. CASE Tick
  BY <1>11 DEF Tick, Delivery!Pass, db, history
<1>12. CASE UNCHANGED vars
  BY <1>12, Withdraws DEF vars, db, history
<1>13. QED
  BY <1>1, <1>2, <1>3, <1>4, <1>5, <1>6, <1>7, <1>8, <1>9, <1>10, <1>11, <1>12
     DEF Next, Request, Generate, Sender, Fault

\* The pipeline implements ReminderDelivery: what is collected was scheduled and
\* never is again, what is posted was collected and is due.
THEOREM Refinement ==
  ASSUME DistinctReminders
  PROVE  Spec => KeepsPromise
<1>1. Init => Delivery!Init
  BY DEF Init, Delivery!Init, Keys
<1>2. IInv /\ IInv' /\ [Next]_vars => [Delivery!Next]_(Delivery!vars)
  BY StepKeepsPromise
<1>3. QED
  BY <1>1, <1>2, Inductive, PTL DEF Spec, KeepsPromise, Delivery!Spec

=============================================================================
