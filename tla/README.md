# Nittei in TLA+

Nittei is a calendar and scheduling server: an HTTP API (`src/crates/api`) over a
domain library (`src/crates/domain`) and a PostgreSQL database and external
services (`src/crates/infra`). Clients create calendars and events with reminders,
ask for free time, and let their own customers book services with hosts. Every
request is a use case (`api/src/shared/usecase.rs`): it executes, statement by
statement, and its subscribers run after it in the same request. There is no lock
in the server, and almost no transaction in the database: requests, the two
periodic jobs and the clients themselves interleave between any two statements.

This directory models the parts where that matters, checks them with TLC on small
instances, and proves with TLAPS what matters most for all instances.

    tlc -workers 2 -config MCRemindersRace.cfg MCReminders      # one of the runs
    tlapm RemindersProofs.tla                                   # one of the proofs

`PROJECT.json` lists the components, the runs, the source lines of every
definition, the hazards of the code with the properties that watch them, the
findings and the theorems.

---

## 1. Inventory

| Component | State | Operations | What makes it correct |
|---|---|---|---|
| Reminder generation: `api/src/event/sync_event_reminders.rs`, `infra/src/repos/event/reminder`, `.../event_reminders_expansion_jobs` | tables `event_reminder_versions`, `reminders`, `calendar_event_reminder_generation_jobs` | generate on create/update; job every 30 min takes due expansions and regenerates | rows of one event come from one content; none is lost between batches |
| Reminder sender: `api/src/job_schedulers.rs`, `event/get_upcoming_reminders.rs` | the batch each run holds | every minute: delete the rows due within a minute, look up, wait, post to the webhook | each reminder at most once, never early, and in time |
| Events: `api/src/event`, `infra/src/repos/event/calendar_event` | `calendar_events` | create, update, delete, batches | updates keep reminders and external copies in step, and lose nothing but to an overlap; the derived columns are derived |
| Queries of events: `api/src/event/get_*`, `search_events`, `calendar/get_calendar_events`, `user/get_*_freebusy`, `account/account_search_events`, `calendar/export_ical` | what one query has read | instances in a window, free/busy, pages of a search, a file | an answer put together from several statements shows what took place, and all of it; pages neither repeat nor skip |
| Free/busy: `domain/src/event_instance.rs` | none | merge, subtract, cut lists of instances | exact set algebra on time, and the assertions hold |
| Booking slots: `domain/src/booking_slots.rs`, `api/src/service/get_service_bookingslots.rs` | what one query has read | hosts read concurrently; availability minus busy; slots that fit | nothing offered over busy time, nothing free withheld, notice kept |
| Booking intents: `api/src/service/create_service_event_intend.rs`, `remove_...`, `domain/src/scheduling`, `infra/src/repos/reservation` | `service_reservations` | choose hosts (round robin, equal, collective, group), count seats | seats exact, a group closed only when full, hosts chosen fairly |
| Services: `api/src/service/*` | `services`, `service_users`, busy calendars | CRUD; hosts and their plans; an update that raises the spots deletes events | hosts, plans and busy calendars stay within an account and a user; an update and a booking in progress do not contradict each other |
| Schedules: `domain/src/schedule.rs` | `schedules` | rules to free instances | instances lie in the rules, whatever the time zone does |
| Recurrence: `domain/src/event.rs`, `shared/recurrence.rs`, `shared/expand_events.rs` | none | expand, remove exceptions | every occurrence once, exceptions replace occurrences |
| External sync: `api/src/event/subscribers`, `calendar/*sync_calendar*`, `infra/src/repos/event/event_synced` | `externally_synced_calendars`, `externally_synced_calendar_events` and the external calendars | copy, patch, delete at Google and Outlook | no copy without a row, no row without a copy, copies say what their event says |
| OAuth integrations: `api/src/user/*integration*`, `account/*integration*`, `infra/src/services/*/auth_provider.rs` | `account_integrations`, `user_integrations` | connect, disconnect, renew a token when it expires | a token is valid when it is used; the two tokens of a row are of one grant |
| Accounts: `api/src/account`, `infra/src/repos/account` | `accounts`, and in each process a cache by key | create, settings, default account at the start | the cache is stale for a bounded time, and coherent in one process |
| Users, calendars: `api/src/user`, `api/src/calendar` | their tables | CRUD with cascades | copies of owner and account agree; what is deleted stays deleted |
| Authentication and policies: `api/src/shared/auth` | none | decide from headers, token and policy; look up what the route names | only what is permitted is done, and only to what is one's own |
| Server start and shutdown: `api/src/lib.rs` | the running tasks | start the jobs, make the default account, drain on shutdown | a restart loses nothing it need not lose |
| HTTP, logging, telemetry, API structs | none that matters here | transport and formatting | out of scope |

How they interact: an event handler writes `calendar_events` and its subscriber the
reminder tables, which the job and the sender read and write on their own; deleting
an event, calendar or user reaches the reminder rows through foreign keys that
cascade. A booking reads services, schedules, calendars and events, counts in
`service_reservations`, and returns: it is the *client* that then stores the event
through the event API, which closes the loop, since that event is what keeps the
hosts busy for the next booking. An update of a service deletes such events.

What is hard here: the order of statements of concurrent requests; rows that a
cascade removes under a generator or a sender; the overlap of two runs of the
sender; work taken from a table before it is done; margins of a second; instance
algebra at boundaries that touch; answers put together from several database
states; decisions taken on counts that others change; owners, accounts and policies
checked by one statement and relied on by a later one; rows read, changed and saved
whole; rows that remember what was done at a provider, written after it was done.
`PROJECT.json` lists each as a hazard at its line.

## 2. The models

    ReminderPlan ---- Reminders --(refines)-- ReminderDelivery
                          |
                     RemindersProofs

    Instances -- FreeBusy -- Schedules -- BookingSlots      ServiceBooking
                                               |                 |
                                      BookingSlotsProofs  ServiceBookingProofs
                                                                 |
                                                        BookingBoundsProofs

                                  +-- Directory ----------------+
                                  +-- Lookups ------------------+
    EventTimes -- Tables -- Requests -- Integrations -- EventSync +-- Server
                     |            +-- EventQueries -------------+      |
                     |            +-- Accounts -----------------+      |
                     |                                                 |
               TablesProofs ------------------------------------ ServerProofs
                                                                       |
                                                                 PromisesProofs
                                                                       |
                                                                 QueriesProofs

### ReminderPlan and Reminders

`ReminderPlan` is what `create_event_reminders` computes between two statements from
an event and one reading of the clock: the occurrences selected (`Dates`, with
`skip_while` and `take_while` of the code), the reminders to insert (`Slots`, later
than the 61 s margin) and the expansion job (`JobTimes`). Contents are data: which
occurrences a recurrence has is given by the instance, the `rrule` crate is not
modelled.

`Reminders` is the pipeline. Its variables are the four tables, what each request,
each expansion of the job and each run of the sender is doing, the timers, the
clock, and history that only properties read. One action is one SQL statement with
the computation before it:

| Code | Action |
|---|---|
| `CreateEventUseCase`, `UpdateEventUseCase` (read, save), `DeleteEvent` with its cascades | `CreateEvent`, `UpdateRead`, `UpdateSave`, `DeleteEvent` |
| `init_version`; `inc_version`, whose delete and insert see the snapshot of the beginning | `InitVersion`; `IncStart`, `IncCommit` |
| the generator's reading of the clock, `bulk_insert` of jobs and of rows, one statement a row | `Plan`, `InsertJob`, `InsertRow` |
| job: timer, `delete_all_before`, `find_many` | `JobIdle`, `JobTick`, `JobFind`, `JobFindFails` |
| sender: timer and spawn, `delete_all_before`, lookup, wait, posts | `SendTick`, `Take`, `Lookup`, `Expired`, `Send`, `SenderFails` |
| a failing statement; a crash and restart | `StorageError`; `Crash` |

`ReminderDelivery` is the abstract promise: a reminder may be scheduled and withdrawn
at will; once accepted, at most a minute ahead, it is never scheduled again, and it
is announced at most once and not early. `Reminders` implements it (`KeepsPromise`)
with the table as what is scheduled, `taken` as accepted and `sent` as announced.

### Instances, FreeBusy, Schedules, BookingSlots

`Instances` and `FreeBusy` are `event_instance.rs`, operation by operation, including
the recursion of `remove_instances`, its `skip` count relative to the iteration, and
the rule that only the last instance visited decides whether the free one is kept.
Boundaries that touch are treated as the code treats them (they overlap when merged,
and not when subtracted), because that is where it goes wrong. Loops and recursion are
recursive functions: `Without` is defined by itself on what lies behind a split.

`Schedules` is `schedule.rs`: what `set_rules` stores of the rules a client gives
(`Stored`, `Parsed`), which rule decides a day (`IntervalsOf`), and the instants an
interval stands for on a day (`ToEvent`). A time zone is a function from days and
hours to the instants they stand for: none where the clock is put forward, two where
it is put back. The loop of `to_event` that looks for the end of an interval changes
`start_hours` and not `end_hours`: on a day that skips or repeats the hour of the end
it changes nothing it depends on (`NeverEnds`), and the query of a host with such a
rule never answers; a day without its midnight panics (`NoMidnight`). `Promised` is
what a client may expect of the rules it gave.

`BookingSlots` is one query of `GetServiceBookingSlotsUseCase` while clients change
events (`Change`). `Ask` validates and fixes the window of each host; the hosts are
read concurrently, each in order: `ReadAvailability` (calendar or schedule),
`ReadServiceEvents` with the list of busy calendars, `ReadBusyCalendar` for each (in
any order, which the result cannot tell), `ReadOutside` for Google and then Outlook,
`HostDone` (the subtraction); `Answer`
assembles the slots and applies the filter for services all of whose hosts must
come. The reads may fail, and what the code does then is modelled: an availability
calendar counts as empty, a busy calendar or a provider is skipped, without the list
the host is never busy, the other reads fail the query. Left out here: exdates and
exceptions of recurrences (`EventQueries` has them), and a host whose user row is gone
when its external calendars are asked (the code then counts it as never busy).

The answer mixes several states of the database, so the properties are stated
against two histories: `steady`, the events stored during the *whole* query, and
`seen`, those stored at *some* time during it.

### ServiceBooking

Several clients run `CreateServiceEventIntendUseCase` at the same time. `Ask` begins,
`ReadHost` finds each host free or not, then the action of the service's kind
chooses (`TakeWanted`, `TakeOnly`, `TakeLeastRecent`, `TakeFewest`, `TakeAll`), or
counts (`ReadCount`, `Increment`), and `Reply` looks the users up and answers. A client
that was told to stores an event with each host (`CreateEvent`, one request each).
`Withdraw` gives a seat back, `UpdateBegin`, `UpdateSave` and `UpdateFails` are the update
of the service in its two statements. `StorageError` is any failing statement: a seat
already counted stays counted, as in the code.

Abstracted: who is free is reduced to the events of the service (`Free`), the rest
being `BookingSlots`; the order in which events were created is the order of the
sequence `events` (two with the same timestamp are not distinguished by the code
either, and then chosen at random); a slot is within the 61 days of the equal
distribution or not (`Near`). Assumed of the clients, whose code is not in the
repository: they store the events they are told to, and give back only seats they
have.

### The database and its requests: EventTimes, Tables, Requests

These are the requests of the HTTP API over one database. `Tables` is the database:
a record of thirteen tables, and each statement of the repositories as a function
from databases to databases, with what PostgreSQL does in the same step: unique and
foreign keys (`...Accepted`) and the cascades of `init_tables.sql` (`...Dropped`). Names,
settings and metadata are opaque `Data`, a value for each of a few fields, so that an
update of one field can be told from an update of another. `EventTimes` is what
`calendar_events` says of when an event takes place: what a create and an update make
of it (`Completed`, `Retimed`), its occurrences (`Starts`, and of them those that `expand` reports, `Dates`) and the conditions of the queries.

`Requests` is one request on each connection: the guard of its route
(`route_guards.rs`), `Policy::authorize`, and then the use case, which keeps what it
reads in the record of the request. `Begin` accepts a request, each guard and each
statement is a step of its own, and `StatementFails` ends a request anywhere. Nothing
is locked between two steps: this is where the guarantees of the code are tested.

### Directory, Lookups, Integrations, EventSync, EventQueries, Accounts

One action for each use case, one disjunct for each of its statements:

| Module | Use cases |
|---|---|
| `Directory` | create, update and delete users, calendars and schedules; create and delete services; add, update and remove hosts; busy calendars |
| `Lookups` | the `get_*` use cases that show rows as they are, and `find_by_metadata` |
| `Integrations` | integrations of accounts and users, synced calendars, external busy calendars, and `get_access_token`: stored, renewed or refused |
| `EventSync` | create, batch, update, delete of events, and the subscribers that copy them to the providers, row by row |
| `EventQueries` | the events of users in a range, of calendars, of one event; free/busy of one and of several users; the searches; the export |
| `Accounts` | accounts and their settings, `init_default_account`, and the cache by key that each process keeps |

What a module does when a call fails is what the code does: a token that cannot be
stored is used all the same, a copy that cannot be recorded is forgotten, a subscriber
gives up and the request is answered, a calendar that cannot be read is empty.

`Server` puts them together with the clock and states the properties. Its ghosts are
`origin` (for whom a row was created), `homes` (the accounts under which a user id was
ever stored: a client may choose the id, and may use it again in another account),
`kept` (what an answered update promised about each field), `current` (when a row of an
account was last the stored one), `crossed` (events on which two requests met), `abandoned`
(what providers were not told of: deletions of many, and calendars whose user disconnected),
and, in the record of a query, what took place at the times of its reads.

## 3. The runs

| Run | What it shows | Result |
|---|---|---|
| `reminders_race` | Two requests, the job and two overlapping senders on one event, the clock moving at any time: `AtMostOnce`, `NeverEarly`, `SingleSource` and the refinement `KeepsPromise` | pass |
| `reminders_fault` | The same with one request, a crash and a failing statement anywhere: `AtMostOnce`, and, with fairness, `DueIsCollected` | pass |
| `reminders_calm` | Without faults, updates or dense recurrences, over several batches and expansions: `NothingForgotten`, `SentOnTime` | pass |
| `reminders_dense` | An expansion deletes reminders due within the margin and does not generate them again | `SentOnTime` violated |
| `reminders_follow_up` | Past occurrences count towards the batch, and no follow-up job is stored | `NothingForgotten` violated |
| `reminders_stale` | An expansion that read before an update and increments after it schedules outdated reminders | `FreshWhenQuiet` violated |
| `booking_slots` | One query, one change or failing read at any point: `NoSlotOverBusy`, `OnlyOfferedTime`, `NothingWithheld`, `ScheduleKeepsNotice`; no deadlock | pass |
| `booking_notice` | A host available by a calendar is offered before the closest booking time | `KeepsNotice` violated |
| `booking_panic` | A busy event without a duration inside free time | `NeverPanics` violated |
| `service_booking` | All kinds of service, two clients, failures, withdrawals, updates between bookings: `SeatsCounted`, `ClosedMeansFull`, `OverbookedByFew`, `DoubleBookedByFew`, `EvenlySpread`, `TakesTurns` | pass |
| `booking_update` | The same group while an update overlaps a booking | `ClosedMeansFull` violated |
| `server` | Seventeen scenarios of requests, interleaved statement by statement; see below | pass |

The properties of `server`:

- **Ownership.** `OwnersAgree`: the copies of user and account that calendars, events and
  integrations carry agree with their owner. `HostsShareAccount` and `PlansAreOwn` answer two
  questions that `init_tables.sql` asks in a TODO. `DeletedStaysDeleted`: no save revives a
  row. `PolicyRespected`: with a token, only the user's own rows change, and only as the
  policy permits. `AnswersOwn`: the same for what is shown.
- **Lost updates.** `OnlyOverlapsLose`: what an update was answered stands until a later
  request names the field, or one saves a row it had read before. The second happens:
  every update saves the whole row. The property says that nothing else loses it.
- **Providers.** `OneGrant`, `TokensStillValid`, `CopiesTracked`, `CopiesCurrent`. The last two
  speak of the times when no request is under way, no call failed and the subscribers
  run. They excuse events on which two requests met and events that went with their
  calendar, service or synced calendar or in a deletion of many, of which the code tells
  no provider; and events whose user disconnected or was ever stored in another account,
  for whom the subscribers find no token, or not the client the copy was made with.
- **Caches.** `CacheBounded`: an account handed to a request was stored no longer ago than
  the life of an entry and the time it takes to make it. `CacheCoherent`: one process, one
  request at a time, and the cache is right.
- **Queries.** `NoPhantoms`, `PhantomsAreOverrides`, `NothingMissed`, `EveryPageCounts`, and
  `TimesDerived` for the columns that all of them rely on. Each names the exceptions the
  code makes; section 5 lists them.

The six violations are the findings of `PROJECT.json`: each quotes the comment,
doc or assertion that the code contradicts.

Two of the passing properties are deliberately weaker than one might wish, because
the code is: `OverbookedByFew` and `DoubleBookedByFew` say how far concurrent bookings
can exceed the spots, or one booking a slot, not that they cannot. The bounds are
tight: two seats for every other client (one reads a count that others are about to
raise, and all of them find the group full but not yet closed), one more for every
reopening, and those of failed bookings. `EvenlySpread` and `TakesTurns` bound the skew
in the same way.

### Bounds, and why they are enough

*Reminders.* One event: the tables are keyed by event and nothing reads across
events but the sender, which treats rows alike. Two requests plus the expansion are
the three generators that can meet on one version; two runs are the overlap of the
sender. The batch is 2 or 3 occurrences instead of 100, the job's index 0 or 1
instead of 90: what matters is full against not full, and more than one expansion
(`CalmContent` needs two). The margin is at least the period, as in the code (61 s
and 60 s). Time is bounded by `MaxTime`, long enough for every occurrence of the
contents in the runs that speak of what is sent. `Punctual` lets due work finish
before the clock moves: without it nothing could be said of being on time. The race
run has no clock discipline at all.

*Booking slots.* Two hosts, one of each plan, six events: overlapping, touching,
recurring once more than is expanded, in progress at the beginning, of another service,
with buffers, and recurring at Google. Two occurrences are expanded instead of 100. All 64 initial stores are tried, and one change or failure is
allowed at any point of the query, which is enough for each pair of reads to see
different states; before and after the query a change makes no difference. The schedule
has rules for two days of five hours, one of which repeats an hour and the other skips
one; its intervals overlap, touch, are reversed, empty and one too many, and one begins
in the hour that is skipped. Queries with two steps, with chosen hosts and with each
reason for refusal.

*Service booking.* Two hosts, clients and slots; five requests (enough for two
clients to exceed, close and reopen a group of two), one failure, one withdrawal, one
update. The spots of a group are never lowered in the run: a lower number of spots
is exceeded at once by what was booked before.

*Server.* The scenarios (`MCScenarios`) group the requests that share tables: `directory`,
`hosts`, `tokens`, `syncs`, `events`, `outages`, `losses`, `policies`, `accounts`, `lookups`,
`moves`, `ranges`, `races`, `searches`, `stale`, `leaving`, `processes`. Each has up to two users in two
accounts, two calendars, three events, two providers with one calendar each, and at
most three requests on two connections: two that interleave in every way and one
before, after or between them. That is what the hazards need (a row read by one,
deleted and created again by others); what a third simultaneous request could add is
only another change between the same two statements. At most one statement fails.
The clock runs where it matters (`tokens`, `processes`), to 3: an access token lives for
3 with a margin of 2 and an answer of the provider within 1, an entry of the cache for
1 and its making 1. `ranges` runs every query alone over 346 databases of an event or a series
and an exception (moved into, within or out of the window, to another calendar, not
busy, cancelled, or without the occurrence it replaces; recurring, or with an
exception itself; of an event that does not recur; of a series of another account), one with a window of three occurrences
where two are expanded, `races` the same queries among
edits. The connections are symmetric: no action names one.

`CHECK_DEADLOCK FALSE` where the bounds end a run; the booking slots query must never
be stuck, and there deadlock is checked.

### Fairness

`DueIsCollected` assumes weak fairness of each generator, each run of the sender, the
ticks and lookups of the job, and the clock: tasks of the tokio runtime are polled,
its intervals tick, and time passes. Requests, failures and crashes are never
obliged. The invariants assume none.

## 4. The proofs

| Theorem | Statement |
|---|---|
| `RemindersProofs!Typing` | `Spec => []TypeOK` |
| `RemindersProofs!DeliveredAtMostOnce` | `Spec => []AtMostOnce` |
| `RemindersProofs!DeliveredNeverEarly` | `Spec => []NeverEarly` |
| `RemindersProofs!GeneratedFromOneContent` | `Spec => []SingleSource` |
| `RemindersProofs!Refinement` | `Spec => KeepsPromise` |
| `BookingSlotsProofs!RemovalIsExact` | an instant is in what is left iff it was free and not busy |
| `BookingSlotsProofs!SplitNeedsDuration` | the assertion of a split holds iff the busy instance takes time |
| `BookingSlotsProofs!LeftIsExact` | the recursion of `remove_instances` leaves of one instance what is free of a list |
| `BookingSlotsProofs!RemoveAllIsExact` | so it does of a list of instances |
| `BookingSlotsProofs!CompatibleIsExact` | merging keeps the time that is covered, in instances that are apart |
| `BookingSlotsProofs!ScheduleIsKept` | a schedule yields what its rules promise, on days with any hours |
| `BookingSlotsProofs!AlwaysRight` | `Spec => []Inv` |
| `BookingSlotsProofs!SlotsAvoidBusyTime` | `Spec => []NoSlotOverBusy` |
| `BookingSlotsProofs!SlotsWereOffered` | `Spec => []OnlyOfferedTime` |
| `BookingSlotsProofs!FreeTimeIsOffered` | `Spec => []NothingWithheld` |
| `BookingSlotsProofs!SchedulesKeepNotice` | `Spec => []ScheduleKeepsNotice` |
| `BookingSlotsProofs!TypesAreKept` | `Spec => []TypeOK` |
| `ServiceBookingProofs!Typing` | `Spec => []TypeOK` |
| `ServiceBookingProofs!SeatsAreCounted` | `Spec => []SeatsCounted` |
| `ServiceBookingProofs!FullWhenClosed` | `Spec => []ClosedMeansFull`, if updates and bookings do not overlap |
| `BookingBoundsProofs!FewDoubleBookings` | `Spec => []DoubleBookedByFew` |
| `BookingBoundsProofs!SpreadOverHosts` | `Spec => []EvenlySpread`, if clients leave the host to the server |
| `BookingBoundsProofs!HostsTakeTurns` | `Spec => []TakesTurns`, if clients leave the host to the server |
| `BookingBoundsProofs!FewOverbookings` | `Spec /\ [][KeepsSpots]_vars => []OverbookedByFew`, if updates and bookings do not overlap |
| `ServerProofs!Inductive` | `Spec => []Inv` |
| `ServerProofs!Typing` | `Spec => []TypeOK` |
| `ServerProofs!OwnersStayAgreed` | `Spec => []OwnersAgree` |
| `ServerProofs!HostsStayInAccount` | `Spec => []HostsShareAccount` |
| `ServerProofs!PlansStayOwn` | `Spec => []PlansAreOwn` |
| `ServerProofs!DeletionsStand` | `Spec => DeletedStaysDeleted` |
| `ServerProofs!GrantsStayWhole` | `Spec => []OneGrant` |
| `ServerProofs!TimesStayDerived` | `Spec => []TimesDerived` |
| `PromisesProofs!TokensStayValid` | `Spec => []TokensStillValid` |
| `PromisesProofs!CacheStaysBounded` | `Spec => []CacheBounded` |
| `PromisesProofs!PoliciesHold` | `Spec => PolicyRespected` |
| `PromisesProofs!PromisesStand` | `Spec => []OnlyOverlapsLose` |
| `PromisesProofs!AnswersStayOwn` | `Spec => []AnswersOwn` |
| `PromisesProofs!CachesCohere` | `Spec => []CacheCoherent` |
| `QueriesProofs!QueriesSound` | `Spec => []QueryInv` |
| `QueriesProofs!NoPhantomsShown` | `Spec => []NoPhantoms` |
| `QueriesProofs!ShownPhantomsAreOverrides` | `Spec => []PhantomsAreOverrides` |
| `QueriesProofs!NothingIsMissed` | `Spec => []NothingMissed` |
| `QueriesProofs!EveryPageIsCounted` | `Spec => []EveryPageCounts` |

They hold for any numbers of events, requests, runs, contents, hosts, clients, slots
and spots, those about `BookingSlots` also for any calendars, schedules, time zones and
queries, any changes and any failing reads, and those about `Server` for any scenarios: any requests at once on any
number of connections to any number of servers, any database they start from that
requests could have left, any number of failing statements and any time.

Assumed are the named assumptions of the modules. Besides types they say:

- `MarginAssumption`: the generator's margin is at least the sender's period (61 s and 60 s).
- `NoneIsNoId`, `NoneIsNoRow`, `NoneIsNoTime`, `NoneIsNoServer`, `NoneIsNoCopy`,
  `NoneIsNoCall`: NULL is no id, no row and so on. `IdsAssumption`, `KindsAssumption`: the
  ids of two tables differ, as random UUIDs do. `ProviderAssumption`: the providers are
  Google and Outlook.
- `CopiesAssumption`: the copies that a scenario starts with are as requests that did not
  fail leave them. No theorem rests on it; the runs of `CopiesTracked` and `CopiesCurrent` do.
- `RequestsAssumption`: a request is one that the routes let through and the JSON of its
  body allows. A query has a window or a limit, and a client that pages through the events
  by their ids (`Asking`) does not begin with a cursor of its own. `DatabasesAssumption`: the first database is one that requests can leave
  (`Consistent`, `Tables.tla`); a stored token was issued at most the latency of the provider
  before it was stored.
- `RankAssumption`, `NoneIsNoSort`, `MaxInstancesAssumption`: ids are ordered and different
  ids have different places in the order; no sort is no sort by id; how many instances are expanded is a number.
- `LimitsAssumption`, `BoundsAssumption`, `QueryAssumption`: a day has hours, a week days, and
  the bounds of a query are numbers; its interval is not negative (`validate_slots_interval`).
- `HostAssumption`: the buffers of a host are not negative (`set_buffer_before` and
  `set_buffer_after` of `service.rs` refuse others). The notice a host wants may be any number.
- `EventAssumption`: an event that does not recur begins once; a recurring one has finitely
  many occurrences within reach (a window has bounds); an event of a service that is not busy
  does not recur, which `get_service_bookingslots.rs:330` says it assumes.
- `ScheduleAssumption`: a stored schedule is what `set_rules` makes of the rules of a client, its
  time zone is one (`IsTimeZone`: the days follow each other without a gap, and an hour that
  exists once divides its day), and the zone has a day for every time a window may begin or end.
- `LatencyAssumption`: a provider answers sooner than the margin that the code keeps from
  the end of a token's life, and sooner than the life. It is what the code counts on:
  it takes the answer's arrival for the moment the token was issued.

Where they appear as hypotheses:

- `DistinctReminders` for the three delivery theorems and the refinement: reminders of one
  event due at the same time have distinct identifiers. The code leaves that to the
  client (`reminder.rs`: "User defined identifier to be able to separate reminders at
  same timestamp for the same event").
- `Calm` for `FullWhenClosed` and `FewOverbookings`: updates and bookings do not overlap,
  clients leave the hosts of a group to the server, and no other kind of service becomes
  a group. The run `booking_update` shows that the first is needed; a client that names
  the hosts of a group is told to store the events without a seat (a hazard of
  `PROJECT.json`).
- `LeftToServer` for `SpreadOverHosts` and `HostsTakeTurns`: clients of a service that is
  distributed over hosts do not name the host, and an update does not change how a
  service distributes. A client that always names the same host skews both at will.
- `KeepsSpots` and at least one client for `FewOverbookings`: no group is given fewer spots
  than it has; lowered below what was booked, it is exceeded at once.

**The reminders' invariant.** None of the properties is inductive: that a reminder is
not sent twice depends on who may still insert rows. `IInv` has four parts.
`TypeInv`: types, and a busy task has an event and a content. `VersionInv` is the protocol
of `event_reminder_versions`: no version held is ahead of the table, no two generators
hold the same one, the rows carry the table's, and nobody gets past asking before
the first version exists. `GenerateInv`: the holder of the current version generates from
the recorded content, finds no rows when it plans, and what it has left to insert is
neither in the table nor was ever collected. `SendInv`: whatever was collected is due
at most one period from now (`Horizon`), a run's batch is due by its deadline, what was
sent was collected. The argument for at-most-once: a generator that may still insert
holds the current version; what it inserts is later than the margin from when it
planned, which is beyond everything collected until then; and a row collected
afterwards was inserted once. `RemindersProofs` preserves the four parts action by action, and
then shows the step simulation of the refinement.

**Free/busy.** The removal of one instance is split into the five ways the code
distinguishes; each leaves none, one or two intervals whose instants are compared
with the difference. Both directions hold also for instances without a duration. For
lists, the induction is a least counterexample: that `<` is well-founded gives a set of
naturals its least element (`LeastNatural`), `Inductive` and `FoldExists` follow, and each
loop has a lemma that unfolds it. `Without` calls itself on a piece that is strictly shorter
(`LeftLooksUpShorter`), so that functions that solve its equation up to a length exist
and agree (`SolvesExist`, `SolvesAgree`), and the one that `CHOOSE` takes is one of them
(`WithoutIs`). `LeftIsExact` then is an induction on the length. Its point is the `skip` that counts from
the beginning of the iteration and not of the list: the busy instances it skips too few
are over when the piece begins (`Past`), so nothing is lost by visiting them again,
and the pieces that are added twice are refused by `push_back`.

**Schedules.** `parse_intervals` merges as `CompatibleInstances::new` does (`MergesAll` serves
both), so that its intervals are apart and hold the hours that were given. An event on
a day lasts from an hour that exists once to another; what lies between is between them
in the zone, so that it belongs to a promised hour (`InEvent`). Events of one day follow
each other because the intervals are apart, those of two days because the days are
(`FlattenOrders`), and so `push_back` refuses none. A time that is surely promised cannot
leave its event: the hour the event ends with would be promised too, and then the interval would
not end there (`EndIsNotOffered`).

**The booking slots.** `Inv` says of each host how far the reads have come (`Good`): what it found
until now is made of events that were stored at some time during the query, contains
what stood during all of it and can be seen, and what is still to be read is known
(`ToCome`, `BusyHandled`); its free instances lie in the window, were offered, avoid
what was found busy and hold every time that is surely free. Each read is one lemma about
one host (`CalendarStep`, `BusyStep`, `OutsideStep`, `DoneStep`), and since `steady` only loses events
and `seen` only gains them, a change of the events takes nothing from what a host has
(`StaysGood`). Three properties were corrected on the way. A client may name a host twice:
then one of the two reads may fail and be swallowed and the other not, and the slot is
offered by that one, so that `NoSlotOverBusy` excuses a host of which *any* read failed (`AllRead`).
It may name more hosts than a collective service has, and then slots are kept that as
many hosts as the service has can take, not all that were named: `Attending` says so. And
a service without hosts has no slots, though none of its hosts is busy: `NothingWithheld`
asks for one.

**The bookings' invariants.** `SeatsCounted` is inductive with the types and with
`FailedInv`, slot by slot (`Counted`): each action changes at most one client's place among the
pending ones (`PendingStep`), and the count, the seats and the failures by as much.
For `ClosedMeansFull`, `FullInv` says what a client of a group knows: the spots it read
are those of the service, and if it is going to say "last seat", then with its own
seat all were taken. `Taken` counts seats that were given back again, and so never
falls (`TakenGrows`); what a client knows therefore stays true whatever the others do
(`OthersKeep`, `EventsKeep`), and an update finds every client idle.

**The bounds of concurrent bookings.** Each counts what has happened together with what
may still happen, so that no step changes the sum for the worse. Double booking
(`SharedInv`): the events of a host at a slot and the clients that aim at it are at most
as many as there are clients; a client aims at a host only while it is free, that is
when there is no event yet, and an event takes a client that aimed. Equal
distribution (`SpreadInv`): the events of one host and the clients holding it are ahead of
another's events by at most the number of clients, since a client comes to hold the host
with the fewest. Turns (`TurnsInv`): a host in the last run of the events, with the
clients it was given to. Groups (`OverInv`): `Load` is the seats taken, and a seat for every
client that may still take one (`Once`), two for one that increments without having been
told to close the slot (`Two`). From the last seat but one on, `Load` stays within the
spots and the `Slack`; the last client that is told "full" closes the slot, and only an
update reopens it.

**The server's invariant.** `Inv` has two parts. The tables are `Consistent`: every row
says of its owner, its calendar and its account what the ghosts `origin` and `homes` say;
hosts' plans are their own; the two tokens of a grant and the columns derived from a
recurrence belong together. And `Holds`: what each request has in its hands at each of
its statements (the row it read, the calendars it found, the token it obtained) is
of the user and account that its guard and its finds have established. The difficulty is
that a request holds it while others run. What it holds is therefore never "this row is
stored" but "this id was given to this user", which nothing takes back: `origin` only
grows and `homes` only gains accounts, so that `HoldsOn` carries what every other request
holds over any step, and no pair of use cases has to be looked at. It remains that each
statement of each use case is `Fine`, one lemma for each use case: it keeps the tables
consistent, makes no row but under an id never given before (`NoneBut`), and leaves its
own request with what the next statement relies on. `TablesProofs` does the first two
once for each statement of the repositories, cascades included. The ownership theorems
and `DeletedStaysDeleted` follow: an update finds the row or changes nothing, and an insert
draws a new id.

**The server's promises.** Each adds to `Inv` what it needs. `TokenInv`: a request
waiting for a provider asked at most its latency ago, a stored token outlives what the
server believes of it but for that latency, and the margin is larger. `CacheInv`: an
entry, an account being put in the cache and one being used were stored no longer ago
than each may be old; `Recent` says of a row when it last was the stored one, which
only a write of that account changes. `PolicyInv`: past its first guard a request with a
policy is entitled to the permissions of its use case, and at its write the row is the
user's by `origin` (`Bound`); a row read before is not enough, since it may be another by
then, but its id is still the user's. `PromiseInv`: every statement of every use case
leaves the rows as they are or deletes them (`KeptQuiet`), makes one under a new id
(`KeptAnew`), or saves one with the fields of the request replaced in what was read
(`KeptSaved`); then `kept` follows field by field. `AnswerInv`: a request that looks
something up has been through the guard of its route (`Routed`), and that guard has
compared what the request will show, or its user, with its account by `origin` and `homes`
(`Compared`); the rows of one lookup come from one statement, and each of them `FitsFilter`.
`CoherentInv`: in the only process that serves an account, the entry of the cache is the
stored row or a request is about to remove it (`Forgets`), and a row on its way into the
cache is the stored one, since whoever could change it meanwhile would meet the request.

**The queries' invariant.** What a query has read is in its own record, and nobody
else writes there; the interleaving is in what it reads. `Sound` therefore speaks of one request at
a time, by its use case: what has been read up to its statement is enough for the answer that it
will give. `Settling` is for the queries that read the events once: the exceptions that the
statement does not select are elsewhere (`OneReadSettles`), and an occurrence that meets the
window is of a row that the derived columns select (`OccurrencesSelected`), among the first
instances that `expand` reports (`OccurrencesExpanded`). `RangeSound` follows the three statements
of the events of users through either order of the first two: each has seen what was there
at one of the reads (`OnceRead`, `RecurringRead`), the third completes the exceptions of the series
that were found (`ExceptionsComplete`), and the marks of the statements keep the rows apart
(`Tagged`), so that none is found twice. `MultiSound` says of each calendar that it was read at
one of the reads (`PartRead`), whatever calendars are read before and after it. For a client that
pages, `Passed` and `PageComplete` say what has been shown before and after a page is read: every event
that was there at all reads, up to the cursor and up to the last of the page; that suffices
because the order of the ids is the one that the cursor compares (`PagesByUid`, `CursorPasses`).

Five things came out of these proofs. `NoPhantoms` did not hold of an exception of an exception, or
of an event that does not recur: the events of users look only for the exceptions of
the recurring events they found. `NothingMissed` expected an exception whose series belongs to the same
user in another account, although the series was not asked for, and the further occurrences
of an exception that recurs itself from an export. The free/busy of several users looked the owner of a
calendar up again at the end, when the calendar could be gone; the code keeps it from the
first read. The cursor of a client replaced every condition with "greater than", also on
other columns. And the database of the run had no such exceptions: `OddDiaries` has.

Three things came out of the other proofs of the server. A step of `GetEventInstances` had the name of the
guard of calendars, so that the model let a request repeat the guard in the middle of
its use case; TLC had no objection, since that broke nothing, but the case did not
exist in the code and was removed. `TokensStillValid` needs that the latency is
shorter than the life of a token, which every instance of the runs satisfied and
nothing had stated. And `CacheCoherent` was wrong as it stood: the lookup of the default
account at the start of the server fills the cache too, and was not counted among the
requests that work on an account; a change of its settings between the read and the
entry left the old row in the cache. The proof failed there, TLC found the twelve steps once a
scenario had both requests, `WorksOn` now names the lookup, and the scenario `accounts` keeps it.

`CopiesTracked` and `CopiesCurrent` did not hold as they first stood, as the attempt to prove
them showed. `add_sync_calendar.rs` compares neither the calendar nor its owner with the user
it syncs it for, while the subscribers use the tokens of the owner of the event. When
the owner disconnects, the cascade deletes the syncs of the owner; one that another user made
stays, with its copies and their rows, and later updates and deletions of the event
find the rows but no token, and pass over the copy. The same happens
after a user id was moved to an account without the client. Such events are now excused
(`Disconnected`, `Settled`), and the scenario `leaving` has a calendar that another user synced.

**Only model-checked.** Liveness (`DueIsCollected`), outside the prover's reach.
`NothingForgotten` and `SentOnTime`, which hold only under the discipline of the calm
instance. Of `Server`: `CopiesTracked` and `CopiesCurrent`, which need the history of every copy.

## 5. What the models do not say

- Losses that are inherent to the design are not hidden by the properties: a sender
  that crashes after collecting loses its batch, an expansion taken from the table
  before a crash is never made up, an event created while reminders were disabled
  has no version row and never gets reminders. They are listed as hazards.
- `NoSlotOverBusy` speaks of events the query can know of: an occurrence of a recurring
  event must begin in the window, another event reach into it. An occurrence in
  progress when the window begins, and the buffer of an event that ended just
  before it, are ignored by the code. So is what a recurring event has in a window after
  its first hundred occurrences (`MaxInstances`): busy time beyond them is offered, free
  time beyond them is not. `NothingMissed` excepts them as well.
- A busy calendar that cannot be read is skipped by the code; `NoSlotOverBusy` is silent
  about such an answer, so no property watches that hazard.
- Nor does one watch the suffix of reminders that a failing `bulk_insert` leaves out: the
  fault run reaches it, and what it checks is that nothing is sent twice and what is
  stored is sent.
- A schedule on which `free_event_instances` loops for ever is no state of the runs: there,
  `OnlyOfferedTime` and `NothingWithheld` would have no answer to judge.
- `OnlyOverlapsLose` allows the lost update of two overlapping requests, which the code
  allows by saving whole rows; it is not a promise that none is lost.
- The ownership properties excuse a user id that was stored in two accounts one after
  the other: rows that were on their way carry the earlier account.
- A user's calendars are shown to the key of any account (`GetCalendars`), and a
  schedule to the token of any user (`GetSchedule`): `AnswersOwn` excepts both, by name.
- What the queries of events do differently from what their names suggest is named by
  `NoPhantoms`, `PhantomsAreOverrides` and `Withheld`: the events of users leave out no occurrence
  that an exception of an exception replaces; an occurrence whose exception is in another calendar
  or was moved out of the window is still shown at its old time; for free/busy also when
  the exception is not busy or is cancelled, since such rows are not read; an exception
  whose series is gone is not among the events of users; the file of an export lacks an
  exception whose series it does not hold; the free/busy of several users keeps one
  calendar of each (`get_multiple_users_freebusy.rs:201` inserts into a map by user) and
  does not look at `busy` or `status`; without calendars, `get_events_by_calendars.rs:166`
  asks for the events of none, while its comment (113) says it fetches all of the user's;
  a calendar made between the two reads of a query is answered as "not found".
- `EvenlySpread` speaks of the 61 days that the code counts (`create_service_event_intend.rs:206`,
  where they are called two months). The comment on `RoundRobinAlgorithm`
  (`round_robin.rs:26`) says that the period is hard coded to be two weeks. The comment is not
  what the code does: bookings that alternate between a slot after the two weeks and one
  within them may give one of two hosts all the former and the other all the latter, so
  over two weeks no such bound holds. `Near` is
  the code's period; no run checks the comment's.
- The note at `export_ical.rs:25`, that the export does not fetch all ongoing recurring events,
  is stale: `find_by_calendar`, which the export calls, selects the series that began
  before the window and have not ended before it (`calendar_event/postgres.rs:620`), and
  `NothingMissed` holds of the export for their occurrences that begin in the window. The
  other two notes there, no limit and no public link, are true of the code.
- An update that names a start and excluded dates drops the excluded dates; an update
  of a host's plan overwrites `furthest_booking_time`; a failing start leaves the default account
  without its integrations for ever. The models do what the code does (booking times of
  hosts are data of `BookingSlots`), and no property speaks of it.

### Not modelled

- *HTTP, headers, JSON, logging, telemetry, API structs and clients*: they transport and
  format what the use cases take and give, and keep no state a property could be
  about. Requests enter the model as the use case receives them; the conversions of
  `api_structs` are covered where an answer leaves columns out (`Lookups`).
- *Cryptography*: keys, tokens and codes are identities. That a forged token is refused
  is the `jsonwebtoken` crate's promise.
- *The `rrule` crate*: a recurrence repeats every n units until a date. BYDAY, COUNT and the
  time zone of a rule change which dates there are, not what the code does with them.
- *Minutes of schedules, and the dates `set_rules` refuses* (older than two days, later than
  five years): arithmetic on single values.
- *The text of an iCal file*: only which events and occurrences it holds.
- *The range query without expansion of recurrences, and its limit of duration*: the first
  returns the rows the modelled one expands, the second is a check before any statement.
- *Binding the port, signals and draining*: a connection cut off by a shutdown is a
  statement that fails.
- *The providers*: what Google and Outlook do with a copy or a token is modelled from the
  calls the code makes, and that they may fail.

## 6. Plan

Done: the reminder pipeline with its abstract promise; free/busy, schedules and booking
slots; booking intents; the requests of the API over one database, with external
copies, tokens, queries, policies and caches; and the proofs of section 4.

Next, in order:

1. An abstract specification of a counter of seats that `ServiceBooking` implements.
2. `CopiesTracked`, with an invariant for the rows that a subscriber has still to make.
