---------------------------- MODULE BookingSlots ----------------------------
(***************************************************************************)
(* The booking slots query of a service (GetServiceBookingSlotsUseCase)    *)
(* while the events of its hosts change under it.                          *)
(*                                                                         *)
(* The hosts are read concurrently (join_all), and the calendars, the      *)
(* events of other services and the busy calendars of one host in          *)
(* statements of their own, so that the answer is put together from        *)
(* several states of the database.  What the answer may claim is stated    *)
(* against the events that were stored during the whole query, and those   *)
(* that were stored at some time during it.                                *)
(***************************************************************************)
EXTENDS Schedules

CONSTANTS
  Host,         \* the users a service may have
  Users,        \* the hosts of the service, in the order of the database
  Resource,     \* what the service knows of each host (ServiceResource)
  Event,        \* the events clients may store
  This,         \* the service that is queried
  Query,        \* the queries clients make
  Multi,        \* what the service may be when it is queried: "any" (round robin),
                \* "all" (collective or group) or "closed" (Group(0))
  Interval,     \* the lengths of a step that are valid
  MaxSpan,      \* booking_slots_query_duration_limit
  MaxInstances, \* MAX_INSTANCES: the occurrences of an event that are expanded
  None,
  MaxTime, MaxDisturbances    \* bounds of the model

VARIABLES
  store,        \* the events in the database
  clock,
  budget,       \* changes of the events and failing reads still to come
  asked,        \* the query, and when it was made
  reader,       \* what has been read for each of the hosts asked for
  answer,
  steady, seen  \* history: stored ever since the query, at some time since

vars == <<store, clock, budget, asked, reader, answer, steady, seen>>

Plan(h) == Resource[h].plan
Empty == [kind |-> "slots", slots |-> {}]

\* The query, and when and of which kind of service it was made
Asked(q, multi, now) ==
  [start |-> q.start, end |-> q.end, duration |-> q.duration, interval |-> q.interval,
   hosts |-> q.hosts, at |-> now, multi |-> multi]

-----------------------------------------------------------------------------
\* The bounds of the model, and a step that takes time (validate_slots_interval)
ASSUME BoundsAssumption ==
  /\ MaxTime \in Nat /\ MaxDisturbances \in Nat /\ MaxInstances \in Nat
  /\ Interval \subseteq Nat

\* The buffers of a service are not negative (set_buffer_before and set_buffer_after).
ASSUME HostAssumption ==
  /\ Users \in Seq(Host)
  /\ \A h \in Host :
       /\ Resource[h].closest \in Int
       /\ Resource[h].furthest = None \/ Resource[h].furthest \in Int
       /\ Resource[h].outside \in Seq(Range(Resource[h].outside))
       /\ \A s \in DOMAIN Resource[h].buffers :
            Resource[h].buffers[s].before \in Nat /\ Resource[h].buffers[s].after \in Nat

\* An event recurs a bounded number of times within reach, or begins once.  The query
\* takes it that an event of a service that is not busy does not recur.
ASSUME EventAssumption ==
  /\ IsFiniteSet(Event)
  /\ \A e \in Event :
       /\ e.busy \in BOOLEAN /\ e.recurring \in BOOLEAN /\ e.duration \in Nat
       /\ e.starts \subseteq Int /\ IsFiniteSet(e.starts) /\ e.starts # {}
       /\ ~e.recurring => \A t, u \in e.starts : t = u
       /\ ~e.busy /\ e.service # None => ~e.recurring

ASSUME QueryAssumption ==
  \A q \in Query :
    /\ q.start \in Int /\ q.end \in Int /\ q.duration \in Int /\ q.interval \in Int
    /\ q.hosts = None \/ q.hosts \in Seq(Range(q.hosts))
    /\ \A multi \in Multi, now \in 0 .. MaxTime : Asked(q, multi, now) # None

\* A schedule has a day for every time at which the window of a query may begin or end.
ASSUME ScheduleAssumption ==
  \A h \in Host : Plan(h).kind = "schedule" =>
    /\ IsSchedule(Plan(h))
    /\ \A q \in Query :
         \A t \in Earlier(q.start, q.end)
                  .. Later(q.end, Later(q.start, MaxTime + Resource[h].closest)) :
           HasDay(Plan(h).zone, t)

-----------------------------------------------------------------------------
\* The occurrence at t reaches into the window.
Reaches(e, t, w) == t <= w.end /\ t + e.duration >= w.start

\* find_by_calendar, and find_user_service_events for an event that does not
\* recur: the events that may have an instance within the window.
Touches(e, w) == Reaches(e, Min(e.starts), w)

\* Mutant of Fetched: an event in progress when the window begins is missed.
FetchedFromStart(e, w) ==
  \/ Min(e.starts) <= w.end /\ Min(e.starts) >= w.start
  \/ e.recurring /\ Min(e.starts) < w.end

Fetched(e, w) == Touches(e, w) \/ (e.recurring /\ Min(e.starts) < w.end)

At(e, t) == [start |-> t, end |-> t + e.duration]

Beginning(e, w) == {t \in e.starts : w.start <= t /\ t <= w.end}

\* The first MaxInstances of the occurrences that begin within the window
Expanded(e, w) ==
  {t \in Beginning(e, w) : Cardinality({u \in Beginning(e, w) : u < t}) < MaxInstances}

\* CalendarEvent::expand: all of an event that does not recur.
Expand(e, w) == {At(e, t) : t \in IF e.recurring THEN Expanded(e, w) ELSE e.starts}

InCalendar(h, c, busy, w) ==
  {e \in store : e.host = h /\ e.calendar = c /\ e.busy = busy /\ Fetched(e, w)}

\* The buffers are those of the service the event belongs to.
Buffered(e, a) ==
  IF e.service \in DOMAIN Resource[e.host].buffers
  THEN LET b == Resource[e.host].buffers[e.service]
       IN  [start |-> a.start - b.before, end |-> a.end + b.after]
  ELSE a

\* Mutant of Window: the furthest booking time counts from the window.
WindowFromStart(h, q, now) ==
  LET start == Later(q.start, now + Resource[h].closest)
      last == start + Resource[h].furthest
  IN  IF Resource[h].furthest = None \/ last >= q.end THEN [start |-> start, end |-> q.end]
      ELSE IF last <= start THEN None
      ELSE [start |-> start, end |-> last]

\* parse_calendar_timespan: the part of the query that is bookable now
Window(h, q, now) ==
  LET start == Later(q.start, now + Resource[h].closest)
      last == now + Resource[h].furthest
  IN  IF Resource[h].furthest = None \/ last >= q.end THEN [start |-> start, end |-> q.end]
      ELSE IF last <= start THEN None
      ELSE [start |-> start, end |-> last]

-----------------------------------------------------------------------------
Init ==
  /\ store \in SUBSET Event
  /\ clock = 0
  /\ budget = MaxDisturbances
  /\ asked = None
  /\ reader = << >>
  /\ answer = None
  /\ steady = {} /\ seen = {}

\* A client adds, deletes or replaces an event.  Before the query this makes no
\* difference, since any events may be stored when it begins, nor after it.
Change ==
  /\ asked # None /\ answer = None
  /\ budget > 0 /\ budget' = budget - 1
  /\ \/ \E e \in Event \ store : store' = store \cup {e}
     \/ \E e \in store : store' = store \ {e}
     \/ \E e \in store, f \in Event \ store :
          e.host = f.host /\ store' = (store \ {e}) \cup {f}
  /\ steady' = steady \cap store'
  /\ seen' = seen \cup store'
  /\ UNCHANGED <<clock, asked, reader, answer>>

\* The clock is read when the windows are fixed, and at no other time: that it
\* moves while the hosts are read makes no difference.
Tick ==
  /\ asked = None /\ clock < MaxTime
  /\ clock' = clock + 1
  /\ UNCHANGED <<store, budget, asked, reader, answer, steady, seen>>

-----------------------------------------------------------------------------
\* What a list has at some of its positions, in their order
AtPositions(s, T) ==
  LET order == Ranked(T, {p \in T \X T : p[1] < p[2]})
  IN  [k \in DOMAIN order |-> s[order[k]]]

HostsOf(q) ==
  IF q.hosts = None THEN Users
  ELSE AtPositions(q.hosts, {i \in DOMAIN q.hosts : q.hosts[i] \in Range(Users)})

Reader(h, q) ==
  LET w == Window(h, q, clock)
  IN  [host |-> h, window |-> w, free |-> << >>, busy |-> {}, left |-> {},
       outside |-> << >>, lost |-> FALSE, stage |-> IF w = None THEN "done" ELSE "open"]

\* The request is checked, the service is found and the window of every host
\* is fixed.
Ask(q, multi) ==
  /\ asked = None
  /\ asked' = Asked(q, multi, clock)
  /\ IF q.interval \notin Interval \/ (multi # "closed" /\ q.end - q.start > MaxSpan)
     THEN answer' = [kind |-> "refused"] /\ reader' = << >>
     ELSE IF multi = "closed" THEN answer' = Empty /\ reader' = << >>
     ELSE /\ answer' = None
          /\ reader' = [i \in DOMAIN HostsOf(q) |-> Reader(HostsOf(q)[i], q)]
  /\ steady' = store /\ seen' = store
  /\ UNCHANGED <<store, clock, budget>>

Reads(i, stage) == asked # None /\ answer = None /\ reader[i].stage = stage

\* get_user_availability.  With a schedule whose loop has no end it never
\* returns.
ReadAvailability(i) ==
  LET r == reader[i]
      open(busy) == UNION {Expand(e, r.window) :
                             e \in InCalendar(r.host, Plan(r.host).calendar, busy, r.window)}
      panics ==
        CASE Plan(r.host).kind = "calendar" ->
               ~SplitsInTwo(Compatible(open(FALSE)), Compatible(open(TRUE)))
          [] Plan(r.host).kind = "schedule" -> NoMidnight(Plan(r.host), r.window)
          [] OTHER -> FALSE
      free == CASE Plan(r.host).kind = "calendar" -> FreeOf(open(FALSE), open(TRUE))
                [] Plan(r.host).kind = "schedule" -> FreeIn(Plan(r.host), r.window)
                [] OTHER -> << >>
  IN  /\ Reads(i, "open")
      /\ Plan(r.host).kind = "schedule" => ~LoopsForEver(Plan(r.host), r.window)
      /\ IF panics THEN answer' = [kind |-> "panic"] /\ UNCHANGED reader
         ELSE /\ reader' = [reader EXCEPT ![i].free = free, ![i].stage = "services"]
              /\ UNCHANGED answer
      /\ UNCHANGED <<store, clock, budget, asked, steady, seen>>

\* get_user_busy: the events of other services count even if they are not busy
ReadServiceEvents(i) ==
  LET r == reader[i]
      others == {e \in store : /\ e.host = r.host /\ ~e.busy
                               /\ e.service \notin {None, This}
                               /\ Touches(e, r.window)}
      stays == {At(e, Min(e.starts)) : e \in others}
  IN  /\ Reads(i, "services")
      /\ reader' = [reader EXCEPT ![i].busy = stays,
                                  ![i].left = Resource[r.host].busyCalendars,
                                  ![i].outside = Resource[r.host].outside,
                                  ![i].stage = "calendars"]
      /\ UNCHANGED <<store, clock, budget, asked, answer, steady, seen>>

\* get_user_busy: the busy events of one of the busy calendars
ReadBusyCalendar(i, c) ==
  LET r == reader[i]
      found == UNION {{Buffered(e, a) : a \in Expand(e, r.window)} :
                        e \in InCalendar(r.host, c, TRUE, r.window)}
  IN  /\ Reads(i, "calendars") /\ c \in r.left
      /\ reader' = [reader EXCEPT ![i].busy = @ \cup found, ![i].left = @ \ {c}]
      /\ UNCHANGED <<store, clock, budget, asked, answer, steady, seen>>

\* get_user_busy: the busy time of the host at Google, and then at Outlook
ReadOutside(i) ==
  LET r == reader[i]
      found == UNION {{At(e, t) : t \in {u \in e.starts : Reaches(e, u, r.window)}} :
                        e \in {f \in store : /\ f.host = r.host /\ f.busy
                                             /\ f.calendar = Head(r.outside)}}
  IN  /\ Reads(i, "calendars") /\ r.left = {} /\ r.outside # << >>
      /\ reader' = [reader EXCEPT ![i].busy = @ \cup found, ![i].outside = Tail(@)]
      /\ UNCHANGED <<store, clock, budget, asked, answer, steady, seen>>

HostDone(i) ==
  /\ Reads(i, "calendars") /\ reader[i].left = {} /\ reader[i].outside = << >>
  /\ LET busy == Compatible(reader[i].busy)
     IN  IF SplitsInTwo(reader[i].free, busy)
         THEN /\ reader' = [reader EXCEPT ![i].free = RemoveAll(@, busy, 0),
                                          ![i].stage = "done"]
              /\ UNCHANGED answer
         ELSE answer' = [kind |-> "panic"] /\ UNCHANGED reader
  /\ UNCHANGED <<store, clock, budget, asked, steady, seen>>

-----------------------------------------------------------------------------
Fails ==
  /\ budget > 0 /\ budget' = budget - 1
  /\ UNCHANGED <<store, clock, asked, steady, seen>>

\* An availability calendar that cannot be read is an empty one.
AvailabilityFails(i) ==
  /\ Reads(i, "open") /\ Plan(reader[i].host).kind \in {"calendar", "schedule"} /\ Fails
  /\ IF Plan(reader[i].host).kind = "schedule"
     THEN answer' = [kind |-> "error"] /\ UNCHANGED reader
     ELSE reader' = [reader EXCEPT ![i].lost = TRUE, ![i].stage = "services"] /\ UNCHANGED answer

\* Without its list of busy calendars a host is never busy.
BusyListFails(i) ==
  /\ Reads(i, "services") /\ Fails
  /\ reader' = [reader EXCEPT ![i].lost = TRUE, ![i].stage = "calendars"]
  /\ UNCHANGED answer

ServiceEventsFail(i) ==
  /\ Reads(i, "services") /\ Fails
  /\ answer' = [kind |-> "error"]
  /\ UNCHANGED reader

\* A busy calendar that cannot be read is skipped.
BusyCalendarFails(i, c) ==
  /\ Reads(i, "calendars") /\ c \in reader[i].left /\ Fails
  /\ reader' = [reader EXCEPT ![i].lost = TRUE, ![i].left = @ \ {c}]
  /\ UNCHANGED answer

\* A provider to which there is no connection is skipped, and so is Outlook when
\* it does not answer; when Google does not, or the host cannot be read from the
\* database, the query fails.
OutsideFails(i) ==
  /\ Reads(i, "calendars") /\ reader[i].left = {} /\ reader[i].outside # << >> /\ Fails
  /\ \/ reader' = [reader EXCEPT ![i].lost = TRUE, ![i].outside = Tail(@)] /\ UNCHANGED answer
     \/ answer' = [kind |-> "error"] /\ UNCHANGED reader

-----------------------------------------------------------------------------
\* The hosts free at t, as often as they were asked for
HostsAt(t) ==
  AtPositions([i \in DOMAIN reader |-> reader[i].host],
              {i \in DOMAIN reader : t \in SlotStarts(reader[i].free, asked)})

\* get_service_bookingslots, and the hosts a service needs
Bookable ==
  LET starts == UNION {SlotStarts(reader[i].free, asked) : i \in DOMAIN reader}
      slots == {[start |-> t, hosts |-> HostsAt(t)] : t \in starts}
  IN  {s \in slots : asked.multi = "all" => Len(s.hosts) = Len(Users)}

Answer ==
  /\ asked # None /\ answer = None
  /\ \A i \in DOMAIN reader : reader[i].stage = "done"
  /\ answer' = [kind |-> "slots", slots |-> Bookable]
  /\ UNCHANGED <<store, clock, budget, asked, reader, steady, seen>>

\* The client has its answer.
Done ==
  /\ answer # None
  /\ asked' = None /\ reader' = << >> /\ answer' = None /\ steady' = {} /\ seen' = {}
  /\ UNCHANGED <<store, clock, budget>>

Next ==
  \/ Change
  \/ Tick
  \/ \E q \in Query, multi \in Multi : Ask(q, multi)
  \/ \E i \in DOMAIN reader :
       \/ ReadAvailability(i)
       \/ ReadServiceEvents(i)
       \/ \E c \in reader[i].left : ReadBusyCalendar(i, c) \/ BusyCalendarFails(i, c)
       \/ ReadOutside(i)
       \/ OutsideFails(i)
       \/ HostDone(i)
       \/ AvailabilityFails(i)
       \/ BusyListFails(i)
       \/ ServiceEventsFail(i)
  \/ Answer
  \/ Done

Spec == Init /\ [][Next]_vars

-----------------------------------------------------------------------------
Answers == {"slots", "refused", "error", "panic"}

\* The variables keep their types: what is free of a host are instances that do not
\* end before they begin, and the answer is one of the four the query can give.
TypeOK ==
  /\ store \subseteq Event /\ steady \subseteq seen /\ seen \subseteq Event
  /\ clock \in 0 .. MaxTime
  /\ budget \in 0 .. MaxDisturbances
  /\ answer = None \/ answer.kind \in Answers
  /\ \A i \in DOMAIN reader :
       /\ reader[i].host \in Host
       /\ reader[i].stage \in {"open", "services", "calendars", "done"}
       /\ reader[i].window = None \/ reader[i].window \in Instance
       /\ \A k \in DOMAIN reader[i].free :
            reader[i].free[k] \in Instance /\ reader[i].free[k].start <= reader[i].free[k].end
       /\ reader[i].busy \subseteq Instance
       /\ reader[i].left \subseteq Resource[reader[i].host].busyCalendars

\* The time a slot would take
Slot(s) == [start |-> s.start, end |-> s.start + asked.duration]

Meets(a, b) == a.start < b.end /\ b.start < a.end

Inside(a, w) == w # None /\ w.start <= a.start /\ a.end <= w.end

\* The positions of a slot's hosts: all of them where every host must come, unless the
\* client asked for more than there are.
Attending(s) ==
  {i \in DOMAIN reader : \/ asked.multi = "all" /\ Len(reader) <= Len(Users)
                         \/ reader[i].host \in Range(s.hosts)}

\* No failed read of the host was swallowed, however often the client asked for it.
AllRead(h) == \A i \in DOMAIN reader : reader[i].host = h => ~reader[i].lost

\* An event that keeps h from being booked
Blocks(e, h) ==
  /\ e.host = h
  /\ \/ e.busy /\ e.calendar \in Resource[h].busyCalendars
     \/ e.busy /\ e.calendar \in Range(Resource[h].outside)
     \/ e.busy /\ Plan(h).kind = "calendar" /\ e.calendar = Plan(h).calendar
     \/ ~e.busy /\ e.service \notin {None, This}

\* An event that offers time of h
Offers(e, h) ==
  /\ e.host = h /\ ~e.busy
  /\ Plan(h).kind = "calendar" /\ e.calendar = Plan(h).calendar

\* The buffers apply where the event is found in a busy calendar.
Stay(e, t) ==
  IF e.busy /\ e.calendar \in Resource[e.host].busyCalendars THEN Buffered(e, At(e, t))
  ELSE At(e, t)

\* What the query knows of an occurrence: it must reach into the window, and
\* be one of the first to begin within it if the event recurs.
Known(e, t, w) == IF e.recurring THEN t \in Expanded(e, w) ELSE Reaches(e, t, w)

\* However the events change while the hosts are read, no slot within the
\* bookable window of a host meets an event that kept the host busy during the
\* whole query, its buffers included, unless a failed read was swallowed.
NoSlotOverBusy ==
  asked # None /\ answer # None /\ answer.kind = "slots" =>
    \A s \in answer.slots : \A i \in Attending(s) :
      LET r == reader[i]
      IN  Inside(Slot(s), r.window) /\ AllRead(r.host) =>
            \A e \in steady : Blocks(e, r.host) =>
              \A t \in e.starts : Known(e, t, r.window) => ~Meets(Stay(e, t), Slot(s))

\* Every moment of a slot was offered by an event that was stored at some time
\* during the query, or by the schedule of the host.
OnlyOfferedTime ==
  asked # None /\ answer # None /\ answer.kind = "slots" =>
    \A s \in answer.slots : \A i \in Attending(s) :
      LET h == reader[i].host
      IN  \A m \in s.start .. s.start + asked.duration - 1 :
            IF Plan(h).kind = "schedule" THEN Offered(Plan(h), m)
            ELSE \E e \in seen : Offers(e, h) /\ \E t \in e.starts : In(m, At(e, t))

\* Surely free: one offer that stood during the whole query holds the slot,
\* and nothing that was stored during it comes near.
SurelyFree(i, a) ==
  LET r == reader[i]
  IN  /\ Inside(a, r.window) /\ ~r.lost
      /\ IF Plan(r.host).kind = "schedule"
         THEN \A t \in a.start .. a.end - 1 : OfferedSurely(Plan(r.host), t)
         ELSE \E e \in steady : Offers(e, r.host) /\ \E t \in e.starts :
                Known(e, t, r.window) /\ Inside(a, At(e, t))
      /\ \A e \in seen : Blocks(e, r.host) =>
           \A t \in e.starts : ~Meets(Stay(e, t), a)

\* No free time is withheld: a step of the query at which a host is surely free
\* is offered with that host, or with all of them where all must come.
NothingWithheld ==
  asked # None /\ answer # None /\ answer.kind = "slots" /\ asked.duration > 0 =>
    \A t \in asked.start .. asked.end - asked.interval :
      LET a == [start |-> t, end |-> t + asked.duration]
          free == {i \in DOMAIN reader : SurelyFree(i, a)}
      IN  (t - asked.start) % asked.interval = 0 =>
            IF asked.multi = "all"
            THEN Len(reader) = Len(Users) /\ reader # << >> /\ free = DOMAIN reader
                   => \E s \in answer.slots : s.start = t
            ELSE \A i \in free : \E s \in answer.slots :
                   s.start = t /\ reader[i].host \in Range(s.hosts)

\* The slots of a host keep the host's notice: none begins before the closest
\* booking time and none ends after the furthest, both from the time of the query.
Noticed(s, i) ==
  LET r == Resource[reader[i].host]
  IN  /\ s.start >= asked.at + r.closest
      /\ r.furthest # None => s.start + asked.duration <= asked.at + r.furthest

\* A host who is available by a schedule is offered with the notice asked for.
ScheduleKeepsNotice ==
  asked # None /\ answer # None /\ answer.kind = "slots" =>
    \A s \in answer.slots : \A i \in Attending(s) :
      Plan(reader[i].host).kind = "schedule" => Noticed(s, i)

\* service.rs:46-50 promises the notice to every host: "if a bookingslots query
\* is made at time T then this `ServiceResource` will not have any available
\* bookingslots before at least T + `closest_booking_time`".
KeepsNotice ==
  asked # None /\ answer # None /\ answer.kind = "slots" =>
    \A s \in answer.slots : \A i \in Attending(s) : Noticed(s, i)

\* The assertion in remove_instances: what a busy instance splits is in two.
NeverPanics == answer # None => answer.kind # "panic"

=============================================================================
