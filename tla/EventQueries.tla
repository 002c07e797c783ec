---------------------------- MODULE EventQueries ----------------------------
(***************************************************************************)
(* The use cases that read events (api/src/event/get_*, search_events,     *)
(* api/src/calendar/get_calendar_events, api/src/user/get_*_freebusy,      *)
(* api/src/account/account_search_events, domain/src/shared/expand_events).*)
(* Most put their answer together from several statements, between which   *)
(* other requests create, change and delete events.                        *)
(*                                                                         *)
(* The `reading` of such a request is [want, cals, rows, found, page, seen, *)
(* met]: what the client asks for, the calendars and the events read so    *)
(* far, what is answered, and, for the properties, what took place at each *)
(* of the reads of events, and the rows of events that were there.         *)
(***************************************************************************)
EXTENDS Requests

CONSTANTS
    Rank,           \* the order of the ids of events
    MaxReturned     \* max_events_returned_by_search

ASSUME RankAssumption ==
    Rank \in [Event -> Int] /\ \A e, f \in Event : Rank[e] = Rank[f] => e = f

(* A request to read, and the wishes a client does not have *)
Wants(want) ==
    [want |-> want, cals |-> {}, rows |-> {}, found |-> {}, page |-> 1,
     seen |-> {}, met |-> {}]
Wish ==
    [window |-> None, users |-> {}, calendars |-> {}, statuses |-> {}, busy |-> {},
     filter |-> {}, sort |-> None, limit |-> 1]

----------------------------------------------------------------------------
(* What takes place *)

Overridden(d, e, t) ==
    \E x \in IdsOf(d.events) : d.events[x].times.series = e /\ d.events[x].times.original = t

(* The instances that overlap a window, with the row of the series each    *)
(* exception belongs to                                                    *)
Actual(d, w) ==
    UNION {LET row == d.events[e]
               of == IF row.times.series = None THEN None ELSE d.events[row.times.series]
               around == [start |-> w.start - row.times.length, end |-> w.end]
           IN  {[event |-> e, row |-> row, start |-> t, of |-> of] :
                    t \in {x \in Starts(row.times, around) : ~Overridden(d, e, x)}} :
           e \in IdsOf(d.events)}

Observed(r) ==
    [r EXCEPT !.seen = @ \union {Actual(db, r.want.window)},
              !.met = @ \union {{[event |-> e, row |-> db.events[e]] : e \in IdsOf(db.events)}}]

(* What was there at all the reads *)
Always(reads) == {x \in UNION reads : \A read \in reads : x \in read}

----------------------------------------------------------------------------
(* Expansion.  Rows are [event, row, from]; `from` is the statement.       *)

RowsOf(es, from) == {[event |-> e, row |-> db.events[e], from |-> from] : e \in es}

\* Mutant of Excepted: the time an exception was moved to is left out.
ExceptedAtNewTime(rows, e) ==
    {x.row.times.start : x \in {y \in rows : y.row.times.series = e}}
(* generate_map_exceptions_original_start_times *)
Excepted(rows, e) ==
    {x.row.times.original : x \in {y \in rows : y.row.times.series = e}} \ {None}

(* expand_event_and_remove_exceptions, for each of the rows *)
Expanded(rows, exceptions, w) ==
    UNION {{[event |-> x.event, row |-> x.row, from |-> x.from, start |-> t] :
                t \in Dates(x.row.times, w) \ Excepted(exceptions, x.event)} : x \in rows}

Advance(k, step, r) == calls' = [calls EXCEPT ![k].at = step, ![k].reading = r]
Reading == UNCHANGED <<db, bounds, now, ghostVars>>
Reads(k, op, steps) == calls[k] # None /\ calls[k].op = op /\ calls[k].at \in steps

(* Every row must be of a calendar that was read: one that was created     *)
(* meanwhile, or is somebody else's, is answered as an error               *)
AnswerFrom(k, r, rows, exceptions) ==
    IF \A x \in rows : x.row.calendar \in r.cals
    THEN Advance(k, "answered", [r EXCEPT !.rows = rows,
                                          !.found = Expanded(rows, exceptions, r.want.window)])
    ELSE Answer(k)

----------------------------------------------------------------------------
(* The events of users.  Two statements run concurrently, and a third one  *)
(* looks for the exceptions of the recurring events they found: any, also  *)
(* those that are not busy or were moved out of the window.                *)
GetEventsForUsersInTimeRange(k) ==
    LET op == "GetEventsForUsersInTimeRange"
        q == calls[k]
        r == q.reading
        want == r.want
        wanted(e) == LET row == db.events[e]
                     IN  /\ row.user \in want.users /\ row.account = q.account
                         /\ row.times.busy \in want.busy /\ row.times.status \in want.statuses
        read(from, es, step) ==
            Advance(k, step, [Observed(r) EXCEPT !.rows = @ \union RowsOf(es, from)])
        found == IdsOf(db.events)
    IN
    \/ /\ Reads(k, op, {"find"})
       /\ Advance(k, "both", [r EXCEPT !.cals =
                {c \in IdsOf(db.calendars) : db.calendars[c].user \in want.users}])
       /\ Reading
    \/ /\ Reads(k, op, {"both", "once"})
       /\ read("once", {e \in found : wanted(e) /\ HappensOnce(db.events[e].times, want.window)},
               IF q.at = "both" THEN "recurring" ELSE "exceptions")
       /\ Reading
    \/ /\ Reads(k, op, {"both", "recurring"})
       /\ read("recurring", {e \in found : wanted(e) /\ Recurs(db.events[e].times, want.window)},
               IF q.at = "both" THEN "once" ELSE "exceptions")
       /\ Reading
    \/ /\ Reads(k, op, {"exceptions"})
       /\ LET series == {x.event : x \in {y \in r.rows : y.from = "recurring"}}
              exceptions == RowsOf({e \in found :
                    Overrides(db.events[e].times, series, want.window)}, "exceptions")
          IN  AnswerFrom(k, Observed(r), r.rows \union exceptions, exceptions)
       /\ Reading

(* The events of the calendars named; those of no calendar if none is      *)
GetEventsByCalendars(k) ==
    LET op == "GetEventsByCalendars"
        q == calls[k]
        r == q.reading
        named == r.want.calendars
        rows == RowsOf({e \in EventsOf(db, named) : InWindow(db.events[e].times, r.want.window)},
                       "calendars")
    IN
    \/ /\ Reads(k, op, {"find"})
       /\ IF named = {} THEN Advance(k, "events", [r EXCEPT !.cals = CalendarsOf(db, q.user)])
          ELSE IF \A c \in named : Stored(db.calendars, c) /\ db.calendars[c].account = q.account
          THEN Advance(k, "events", [r EXCEPT !.cals = named])
          ELSE Answer(k)
       /\ Reading
    \/ Reads(k, op, {"events"}) /\ AnswerFrom(k, Observed(r), rows, rows) /\ Reading

GetCalendarEvents(k) ==
    LET op == "GetCalendarEvents"
        q == calls[k]
        r == q.reading
        rows == RowsOf({e \in EventsOf(db, {q.calendar}) :
                            InWindow(db.events[e].times, r.want.window)}, "calendars")
    IN
    \/ /\ Reads(k, op, {"find"})
       /\ IF CalendarOfUser(db, q.calendar, q.user)
          THEN Advance(k, "events", [r EXCEPT !.cals = {q.calendar}]) ELSE Answer(k)
       /\ Reading
    \/ Reads(k, op, {"events"}) /\ AnswerFrom(k, Observed(r), rows, rows) /\ Reading

(* The file holds the events of a window that do not recur, and those that *)
(* do with the exceptions that were read of them: a reader of the file     *)
(* leaves out the occurrences they replace.  It ends no recurrence where   *)
(* the window ends; what is looked at here is the window.                  *)
Exported(rows, w) ==
    LET exceptions == {x \in rows : x.row.times.series # None}
        series == {x \in rows \ exceptions : x.row.times.rule # None}
        carried == {x \in exceptions : \E s \in series : s.event = x.row.times.series}
    IN  Expanded(rows \ exceptions, exceptions, w) \union
        {[event |-> x.event, row |-> x.row, from |-> x.from, start |-> x.row.times.start] :
            x \in carried}
ExportIcal(k) ==
    LET op == "ExportIcal"
        q == calls[k]
        r == q.reading
        rows == RowsOf({e \in EventsOf(db, {q.calendar}) :
                            InWindow(db.events[e].times, r.want.window)}, "calendars")
    IN
    \/ /\ Reads(k, op, {"find"})
       /\ IF CalendarOfUser(db, q.calendar, q.user)
          THEN Advance(k, "events", [r EXCEPT !.cals = {q.calendar}]) ELSE Answer(k)
       /\ Reading
    \/ /\ Reads(k, op, {"events"})
       /\ Advance(k, "answered", [Observed(r) EXCEPT
                !.rows = rows, !.found = Exported(rows, r.want.window)])
       /\ Reading

(* One event, with all its exceptions, and then its calendar               *)
GetEventInstances(k) ==
    LET op == "GetEventInstances"
        q == calls[k]
        r == q.reading
        rows == RowsOf({e \in IdsOf(db.events) :
                            e = q.event \/ db.events[e].times.series = q.event}, "event")
        main == {x \in r.rows : x.event = q.event}
    IN
    \/ /\ Reads(k, op, {"find", "guarded"})
       /\ IF EventOfUser(db, q.event, q.user)
          THEN Advance(k, "itsCalendar", [Observed(r) EXCEPT !.rows = rows]) ELSE Answer(k)
       /\ Reading
    \/ /\ Reads(k, op, {"itsCalendar"})
       /\ IF \A x \in main : Stored(db.calendars, x.row.calendar)
          THEN Advance(k, "answered", [r EXCEPT !.found = Expanded(main, r.rows, r.want.window)])
          ELSE Answer(k)
       /\ Reading

----------------------------------------------------------------------------
(* Free/busy.  The account of the user is not compared.                    *)

GetUserFreeBusy(k) ==
    LET op == "GetUserFreeBusy"
        q == calls[k]
        r == q.reading
        asked == IF r.want.calendars = {} THEN r.cals ELSE r.want.calendars
        rows == RowsOf({e \in EventsOf(db, asked) :
                    BusyInWindow(db.events[e].times, r.want.window, r.want.statuses)}, "calendars")
    IN
    \/ /\ Reads(k, op, {"find"})
       /\ Advance(k, "events", [r EXCEPT !.cals = CalendarsOf(db, q.user)])
       /\ Reading
    \/ Reads(k, op, {"events"}) /\ AnswerFrom(k, Observed(r), rows, rows) /\ Reading

(* The calendars of each user are read, all at once, and then the events   *)
(* of each calendar.  What a calendar gives takes the place of what        *)
(* another one of the same user gave; one that cannot be read gives none.  *)
(* `rows` holds what each calendar has given.                              *)
GetMultipleFreeBusy(k) ==
    LET op == "GetMultipleFreeBusy"
        q == calls[k]
        r == q.reading
        left == {part \in r.rows : ~part.read}
        eventsOf(c) == RowsOf({e \in EventsOf(db, {c}) :
                                    InWindow(db.events[e].times, r.want.window)}, "calendars")
        given(part, rows) ==
            (r.rows \ {part}) \union
            {[part EXCEPT !.read = TRUE, !.found = Expanded(rows, rows, r.want.window)]}
    IN
    \/ /\ Reads(k, op, {"find"})
       /\ Advance(k, "events", [r EXCEPT !.rows =
                {[calendar |-> c, user |-> db.calendars[c].user, read |-> FALSE, found |-> {}] :
                    c \in {x \in IdsOf(db.calendars) : db.calendars[x].user \in r.want.users}}])
       /\ Reading
    \/ /\ Reads(k, op, {"events"})
       /\ \E part \in left :
            \/ /\ Advance(k, "events",
                          [Observed(r) EXCEPT !.rows = given(part, eventsOf(part.calendar))])
               /\ UNCHANGED failures
            \/ /\ MayFail /\ failures' = failures + 1
               /\ Advance(k, "events", [r EXCEPT !.rows = given(part, {})])
       /\ UNCHANGED <<db, scenario, made, now, ghostVars>>
    \/ /\ Reads(k, op, {"events"}) /\ left = {}
       /\ \E last \in [{part.user : part \in r.rows} -> r.rows] :
            /\ \A u \in DOMAIN last : last[u].user = u
            /\ Advance(k, "answered",
                       [r EXCEPT !.found = UNION {last[u].found : u \in DOMAIN last}])
       /\ Reading

----------------------------------------------------------------------------
(* Search.  A column that is NULL satisfies no comparison.                 *)

Column(x, column) ==
    CASE column = "event_uid" -> Rank[x.event]
      [] column = "recurring_event_uid" ->
            IF x.row.times.series = None THEN None ELSE Rank[x.row.times.series]
      [] column = "status" -> x.row.times.status
      [] column = "start_time" -> x.row.times.start
      [] column = "end_time" -> x.row.times.end
      [] column = "original_start_time" -> x.row.times.original
      [] column = "recurrence_jsonb" -> x.row.times.rule

\* Mutant of Compares: the cursor is part of the next page.
ComparesWithCursor(value, op, arg) ==
    CASE op = "eq" -> value = arg      [] op = "ne" -> value # arg
      [] op = "in" -> value \in arg    [] op = "nin" -> value \notin arg
      [] op = "gt" -> value >= arg     [] op = "gte" -> value >= arg
      [] op = "lt" -> value < arg      [] op = "lte" -> value <= arg
Compares(value, op, arg) ==
    CASE op = "eq" -> value = arg      [] op = "ne" -> value # arg
      [] op = "in" -> value \in arg    [] op = "nin" -> value \notin arg
      [] op = "gt" -> value > arg      [] op = "gte" -> value >= arg
      [] op = "lt" -> value < arg      [] op = "lte" -> value <= arg

Satisfies(x, condition) ==
    LET value == Column(x, condition.column)
    IN  CASE condition.op = "exists" -> (value # None) = condition.arg
          [] condition.op = "recurring at" ->
                value # None /\ (x.row.times.until = None \/ x.row.times.until >= condition.arg)
          [] OTHER -> value # None /\ Compares(value, condition.op, condition.arg)

(* The pages a LIMIT can cut from the rows: nothing is said of their order *)
(* unless a sort is asked for                                              *)
Pages(rows, sort, limit) ==
    LET before(x, y) == sort # None /\ LET v == Column(x, sort.column)
                                           w == Column(y, sort.column)
                                       IN  IF sort.descending THEN v > w ELSE v < w
    IN  {page \in SUBSET rows :
            /\ Cardinality(page) = limit \/ (page = rows /\ Cardinality(page) <= limit)
            /\ \A x \in page, y \in rows \ page : ~before(y, x)}

(* The rows a search is about, without its filter: those of a user, in the *)
(* calendars named if any, or those of the account                         *)
Searched(q) ==
    RowsOf({e \in IdsOf(db.events) :
        LET row == db.events[e]
        IN  IF q.op = "AccountSearchEvents" THEN row.account = q.account
            ELSE /\ row.user = q.user
                 /\ q.reading.want.calendars = {} \/ row.calendar \in q.reading.want.calendars},
        "search")

Searches == {"SearchEvents", "AccountSearchEvents"}
ByUid == [column |-> "event_uid", descending |-> FALSE]
CursorAt(rank) == [column |-> "event_uid", op |-> "gt", arg |-> rank]
IsCursor(c) == c.column = "event_uid" /\ c.op = "gt"

ASSUME NoneIsNoSort == None # ByUid

SearchEvents(k) ==
    LET q == calls[k]
        r == q.reading
        want == r.want
        rows == {x \in Searched(q) : \A c \in want.filter : Satisfies(x, c)}
        shown == {x \in r.found : x.page = r.page}
    IN
    \/ /\ \E op \in Searches : Reads(k, op, {"find"})
       /\ IF /\ want.limit > 0 /\ want.limit <= MaxReturned
             /\ \A c \in want.calendars :
                    Stored(db.calendars, c) /\ db.calendars[c].account = q.account
          THEN Goto(k, "search") ELSE Answer(k)
       /\ Reading
    \/ /\ \E op \in Searches : Reads(k, op, {"search"})
       /\ \E page \in Pages(rows, want.sort, want.limit) :
            Advance(k, "answered", [r EXCEPT
                !.rows = page,
                !.found = @ \union {[event |-> x.event, row |-> x.row, page |-> r.page] : x \in page},
                !.seen = @ \union {Searched(q)}])
       /\ Reading
    \* A client that pages through the events asks for those after the last
    \/ /\ \E op \in Searches : Reads(k, op, {"answered"})
       /\ want.sort = ByUid /\ Cardinality(shown) = want.limit
       /\ \E last \in shown :
            /\ \A x \in shown : Rank[x.event] <= Rank[last.event]
            /\ Advance(k, "find", [r EXCEPT
                    !.page = @ + 1,
                    !.want.filter = {c \in @ : ~IsCursor(c)} \union {CursorAt(Rank[last.event])}])
       /\ Reading

QueryOps ==
    Searches \union
    {"GetEventsForUsersInTimeRange", "GetEventsByCalendars", "GetCalendarEvents", "ExportIcal",
     "GetEventInstances", "GetUserFreeBusy", "GetMultipleFreeBusy"}

(* What the routes let through: a search has a limit, any other query a    *)
(* window.  A client that pages through the events begins with the first.  *)
Asking(q) ==
    LET want == q.reading.want
    IN  /\ q.reading = Wants(want) /\ DOMAIN want = DOMAIN Wish
        /\ IF q.op \in Searches
           THEN want.limit \in Int /\ (want.sort = ByUid => \A c \in want.filter : ~IsCursor(c))
           ELSE want.window \in [start : Int, end : Int]

EventQueriesNext(k) ==
    /\ calls[k] # None /\ calls[k].reading # None
    /\ \/ GetEventsForUsersInTimeRange(k) \/ GetEventsByCalendars(k) \/ GetCalendarEvents(k)
       \/ ExportIcal(k) \/ GetEventInstances(k) \/ GetUserFreeBusy(k) \/ GetMultipleFreeBusy(k)
       \/ SearchEvents(k)
       \/ calls[k].at = "answered" /\ Answer(k) /\ Reading

----------------------------------------------------------------------------
Answered(k, ops) == calls[k] # None /\ calls[k].at = "answered" /\ calls[k].op \in ops
Saw(r, x) == \E a \in UNION r.seen : a.event = x.event /\ a.start = x.start /\ a.row = x.row

(* An instance that the events of users or the instances of an event show  *)
(* took place at one of their reads, unless its event was changed or       *)
(* deleted between them: no occurrence is shown along with the exception   *)
(* that replaced it, wherever that was moved to.  The events of users do   *)
(* not look for exceptions of an exception, or of an event that does not   *)
(* recur.  And their three statements find no event twice, unless it       *)
(* changed between them, or names a series without the occurrence it       *)
(* replaces, or recurs itself.                                             *)
FoundOnce(rows) ==
    \A x, y \in rows :
        x.event = y.event /\ x.row = y.row /\ x # y =>
            x.row.times.series # None /\ (x.row.times.original = None \/ x.row.times.rule # None)
Replaces(e, x) == e.row.times.series = x.event /\ e.row.times.original = x.start
NoPhantoms ==
    \A k \in Client : Answered(k, {"GetEventsForUsersInTimeRange", "GetEventInstances"}) =>
        LET r == calls[k].reading
            unasked(x) == /\ calls[k].op = "GetEventsForUsersInTimeRange"
                          /\ x.row.times.series # None \/ x.row.times.rule = None
                          /\ \E e \in UNION r.met : Replaces(e, x)
        IN  /\ \A x \in r.found : [event |-> x.event, row |-> x.row] \in Always(r.met) =>
                    Saw(r, x) \/ unasked(x)
            /\ calls[k].op = "GetEventsForUsersInTimeRange" => FoundOnce(r.rows)

(* The other queries do show such occurrences, but only if the exception   *)
(* is in another calendar, was moved out of the window or, for free/busy,  *)
(* is not busy.  An exported calendar has its exceptions as they stand.    *)
PhantomsAreOverrides ==
    \A k \in Client : Answered(k, {"GetEventsByCalendars", "GetCalendarEvents", "ExportIcal",
                                   "GetUserFreeBusy", "GetMultipleFreeBusy"}) =>
        LET r == calls[k].reading
            w == r.want.window
        IN  \A x \in r.found :
                \/ Saw(r, x)
                \/ calls[k].op = "ExportIcal" /\ x.row.times.series # None
                \/ \E e \in UNION r.met :
                    LET t == e.row.times IN
                    /\ Replaces(e, x)
                    /\ \/ e.row.calendar # x.row.calendar
                       \/ t.end < w.start \/ t.start > w.end
                       \/ /\ calls[k].op = "GetUserFreeBusy"
                          /\ \/ ~t.busy \/ t.status \notin r.want.statuses
                             \/ t.end = w.start \/ t.start = w.end

(* An instance that takes place in the window at every read is answered if *)
(* it is what was asked for, except for: an occurrence of a recurring      *)
(* event that began before the window, or after the first MaxInstances     *)
(* within it; for the events of users, an exception whose series is gone   *)
(* or was not asked for; for an exported calendar, an exception whose      *)
(* series is not in the file, and what follows if it recurs; for the       *)
(* free/busy of several users, all calendars of a user but one. A series   *)
(* that began before the window is excepted for none, the export included, *)
(* whose rows find_by_calendar selects with the ongoing series.            *)
AskedFor(q, a) ==
    LET want == q.reading.want
        t == a.row.times
    IN  CASE q.op = "GetEventsForUsersInTimeRange" ->
                /\ a.row.user \in want.users /\ a.row.account = q.account
                /\ t.busy \in want.busy /\ t.status \in want.statuses
          [] q.op = "GetEventInstances" -> a.event = q.event
          [] q.op = "GetUserFreeBusy" ->
                /\ a.row.calendar \in q.reading.cals
                /\ want.calendars = {} \/ a.row.calendar \in want.calendars
                /\ t.busy /\ t.status \in want.statuses
          [] q.op = "GetMultipleFreeBusy" ->
                \E part \in q.reading.rows : part.calendar = a.row.calendar
          [] q.op = "GetEventsByCalendars" -> a.row.calendar \in want.calendars
          [] OTHER -> a.row.calendar = q.calendar
Withheld(q, a) ==
    LET want == q.reading.want
        t == a.row.times
    IN  \/ /\ t.rule # None
           /\ \/ a.start < want.window.start
              \/ StartsBefore(t, want.window, a.start) >= MaxInstances
        \/ /\ q.op = "GetEventsForUsersInTimeRange" /\ t.rule = None /\ t.original # None
           /\ \/ a.of = None
              \/ ~Recurs(a.of.times, want.window)
              \/ a.of.user \notin want.users \/ a.of.account # q.account
              \/ a.of.times.busy \notin want.busy \/ a.of.times.status \notin want.statuses
        \/ /\ q.op = "ExportIcal" /\ t.series # None
           /\ \/ a.of = None
              \/ a.of.calendar # q.calendar \/ ~InWindow(a.of.times, want.window)
              \/ a.of.times.series # None \/ a.of.times.rule = None
              \/ a.start # t.start
        \/ /\ q.op = "GetMultipleFreeBusy"
           /\ \E x, y \in q.reading.rows :
                x.calendar = a.row.calendar /\ y.user = x.user /\ y # x
NothingMissed ==
    \A k \in Client : Answered(k, {"GetEventsForUsersInTimeRange", "GetEventInstances",
                                   "GetEventsByCalendars", "GetCalendarEvents", "ExportIcal",
                                   "GetUserFreeBusy", "GetMultipleFreeBusy"}) =>
        LET q == calls[k]
            w == q.reading.want.window
        IN  failures = 0 =>
            \A a \in Always(q.reading.seen) :
                /\ a.start < w.end /\ a.start + a.row.times.length > w.start
                /\ AskedFor(q, a) /\ ~Withheld(q, a)
                => \E x \in q.reading.found : x.event = a.event /\ x.start = a.start

(* A client that pages through a search, ordered by the ids of events,     *)
(* is shown every event exactly once that was there, and satisfied the     *)
(* filter, all along, whatever is created and deleted meanwhile.           *)
EveryPageCounts ==
    \A k \in Client : Answered(k, Searches) =>
        LET r == calls[k].reading IN
        r.want.sort = ByUid /\ Cardinality(r.rows) < r.want.limit =>
            /\ \A x, y \in r.found : x.event = y.event => x = y
            /\ \A x \in Always(r.seen) :
                (\A c \in {d \in r.want.filter : ~IsCursor(d)} : Satisfies(x, c)) =>
                    \E y \in r.found : y.event = x.event

(* The columns that the queries rely on are always those the code derives  *)
(* from the start, the duration and the recurrence of an event.            *)
TimesDerived ==
    \A e \in IdsOf(db.events) :
        LET t == db.events[e].times
        IN  t.end = t.start + t.length /\ t.until = Lasts(t.rule, t.length)
=============================================================================
