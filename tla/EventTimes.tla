----------------------------- MODULE EventTimes -----------------------------
(***************************************************************************)
(* When an event takes place: the columns of calendar_events that say so,  *)
(* what a create and an update make of them, the occurrences they stand    *)
(* for, and the conditions by which the queries of the repository select   *)
(* them (domain/src/event.rs, api/src/event/{create,update}_event.rs,      *)
(* infra/src/repos/event/calendar_event/postgres.rs).                      *)
(*                                                                         *)
(* Time is counted in units.  A recurrence is a rule that repeats every    *)
(* `every` units up to and including `until`, if that is set.              *)
(***************************************************************************)
EXTENDS Integers, FiniteSets

CONSTANTS
    Event,
    Status,         \* confirmed, tentative and cancelled
    MaxInstances,   \* MAX_INSTANCES: the occurrences of an event that are expanded
    None

(* A column that is NULL is no instant *)
ASSUME NoneIsNoTime == None \notin Int

ASSUME MaxInstancesAssumption == MaxInstances \in Nat

Rule == [every : Nat \ {0}, until : Int \union {None}]

(* `end` and `until` are derived by the code and stored, for the queries.  *)
(* An event with a `series` is an exception of that recurring event, for   *)
(* its occurrence at `original`; nothing checks that the series exists.    *)
Times ==
    [start : Int, length : Nat, end : Int, busy : BOOLEAN, status : Status,
     rule : Rule \union {None}, until : Int \union {None}, exdates : SUBSET Int,
     series : Event \union {None}, original : Int \union {None}]

\* Mutant of Lasts: the recurrence ends when its last occurrence starts.
LastsUntil(rule, length) == IF rule = None THEN None ELSE rule.until
(* set_recurrence: an occurrence that starts at the end of the rule lasts  *)
(* as long as any other                                                    *)
Lasts(rule, length) ==
    IF rule = None THEN None ELSE IF rule.until = None THEN None ELSE rule.until + length

(* CreateEventUseCase: what the client gave, and what follows from it      *)
Completed(t) == [t EXCEPT !.end = t.start + t.length, !.until = Lasts(t.rule, t.length)]

(* A field an update names is a set with its new value, the others are {}. *)
Unnamed ==
    [start |-> {}, length |-> {}, busy |-> {}, status |-> {}, rule |-> {},
     exdates |-> {}, series |-> {}, original |-> {}]
Named(field, stored) == IF field = {} THEN stored ELSE CHOOSE value \in field : TRUE

Renamed(t, p) ==
    [t EXCEPT !.start = Named(p.start, @), !.length = Named(p.length, @),
              !.busy = Named(p.busy, @), !.status = Named(p.status, @),
              !.rule = Named(p.rule, @), !.exdates = Named(p.exdates, @),
              !.series = Named(p.series, @), !.original = Named(p.original, @)]

\* Mutant of Retimed: the end of the recurrence is not derived again when only
\* the duration changes.
RetimedUntilKept(t, p) ==
    LET new == Renamed(t, p)
    IN  [new EXCEPT !.end = new.start + new.length,
                    !.until = IF p.rule # {} THEN Lasts(new.rule, new.length) ELSE @]

(* UpdateEventUseCase.  A new start drops the excluded dates, those the    *)
(* same request names included.                                            *)
Retimed(t, p) ==
    LET new == Renamed(t, p)
        moved == p.start # {} \/ p.length # {}
    IN  [new EXCEPT
            !.end = IF moved THEN new.start + new.length ELSE @,
            !.until = IF moved \/ p.rule # {} THEN Lasts(new.rule, new.length) ELSE @,
            !.exdates = IF new.start # t.start THEN {} ELSE @]

----------------------------------------------------------------------------
(* get_rrule_set: of an event that recurs, what starts within the window   *)
Starts(t, w) ==
    (IF t.rule = None THEN {t.start}
     ELSE {d \in w.start..w.end :
            /\ d >= t.start /\ (d - t.start) % t.rule.every = 0
            /\ t.rule.until # None => d <= t.rule.until}) \ t.exdates

StartsBefore(t, w, d) == Cardinality({x \in Starts(t, w) : x < d})

(* CalendarEvent::expand with a window: all of an event that does not      *)
(* recur; of one that does, the first MaxInstances                         *)
Dates(t, w) == {d \in Starts(t, w) : t.rule # None => StartsBefore(t, w, d) < MaxInstances}

----------------------------------------------------------------------------
(* The conditions of the queries                                           *)

(* find_by_calendar, find_by_calendars *)
InWindow(t, w) ==
    \/ t.start <= w.end /\ t.end >= w.start
    \/ t.start < w.end /\ t.rule # None /\ (t.until = None \/ t.until > w.start)

(* find_busy_events_and_recurring_events_for_calendars *)
BusyInWindow(t, w, statuses) ==
    /\ \/ t.start < w.end /\ t.end > w.start
       \/ t.start < w.end /\ t.rule # None /\ (t.until = None \/ t.until > w.start)
    /\ t.busy /\ t.status \in statuses

(* find_recurring_events_for_users_for_timespan *)
Recurs(t, w) ==
    t.start <= w.end /\ t.rule # None /\ (t.until = None \/ t.until >= w.start)

(* find_events_for_users_for_timespan *)
HappensOnce(t, w) ==
    t.start <= w.end /\ t.end >= w.start /\ t.rule = None /\ t.original = None

\* Mutant of Overrides: an exception is looked for where it was moved to only.
OverridesWhereMoved(t, ids, w) ==
    t.series # None /\ t.series \in ids /\ t.start <= w.end /\ t.end >= w.start
(* find_by_recurring_event_ids_for_timespan *)
Overrides(t, ids, w) ==
    /\ t.series # None /\ t.series \in ids
    /\ \/ t.original # None /\ t.original >= w.start /\ t.original <= w.end
       \/ t.start <= w.end /\ t.end >= w.start
=============================================================================
