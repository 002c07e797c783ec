------------------------------ MODULE Schedules ------------------------------
(***************************************************************************)
(* Schedules: rules for days of the week and for dates, turned into the    *)
(* free instances of a window in the time zone of the schedule             *)
(* (domain/src/schedule.rs).                                               *)
(*                                                                         *)
(* Days are numbered, and a time of the day is its hour.  A time zone maps *)
(* each hour of each day to the instants it stands for: one, none where    *)
(* the clock is put forward, two where it is put back.  An instant stands  *)
(* for the hour that begins with it.                                       *)
(***************************************************************************)
EXTENDS FreeBusy

CONSTANTS
  Week,         \* the days of a week, 7
  Hours,        \* the hours of a day, 24
  MaxIntervals  \* of a rule, 10

\* The limits of the code
ASSUME LimitsAssumption == Week \in Nat \ {0} /\ Hours \in Nat \ {0} /\ MaxIntervals \in Nat

-----------------------------------------------------------------------------
(* ScheduleRule::parse_intervals, which set_rules applies when rules are   *)
(* stored                                                                  *)

\* Mutant of Absorb: intervals that touch are kept apart.
AbsorbOverlap(s, v) ==
  IF s # << >> /\ v.start < Last(s).end
  THEN Append(Front(s), [Last(s) EXCEPT !.end = Later(@, v.end)])
  ELSE Append(s, v)

\* An interval that begins before the one kept last has ended extends it.
Absorb(s, v) ==
  IF s # << >> /\ v.start <= Last(s).end
  THEN Append(Front(s), [Last(s) EXCEPT !.end = Later(@, v.end)])
  ELSE Append(s, v)

\* The positions of the intervals in the order of their beginning, and in the order
\* they were given in where it is the same
StartOrder(intervals, kept) ==
  Ranked(kept, {p \in kept \X kept :
                  \/ intervals[p[1]].start < intervals[p[2]].start
                  \/ intervals[p[1]].start = intervals[p[2]].start /\ p[1] < p[2]})

\* Of the first MaxIntervals, those that do not end before they begin.
Parsed(intervals) ==
  LET kept == {j \in 1 .. Earlier(Len(intervals), MaxIntervals) :
                 intervals[j].start <= intervals[j].end}
      order == StartOrder(intervals, kept)
      absorbed[n \in 0 .. Len(order)] ==
        IF n = 0 THEN << >> ELSE Absorb(absorbed[n - 1], intervals[order[n]])
  IN  absorbed[Len(order)]

-----------------------------------------------------------------------------
(* Time zones                                                              *)

Instants(zone, d) == UNION {zone[d][h] : h \in DOMAIN zone[d]}
HasDay(zone, t) == \E d \in DOMAIN zone : t \in Instants(zone, d)

Single(zone, d, h) == h < Hours /\ Cardinality(zone[d][h]) = 1
Instant(zone, d, h) == CHOOSE t \in zone[d][h] : TRUE

\* What the dates of a zone have in common: one day follows the other without a gap,
\* and an hour that exists once divides its day into what is earlier and later.
IsTimeZone(zone) ==
  /\ DOMAIN zone \subseteq Int
  /\ \A d, e \in DOMAIN zone : d .. e \subseteq DOMAIN zone
  /\ \A d \in DOMAIN zone :
       /\ DOMAIN zone[d] = 0 .. Hours - 1
       /\ \A h \in DOMAIN zone[d] : zone[d][h] \subseteq Int /\ IsFiniteSet(zone[d][h])
       /\ \A h, g \in DOMAIN zone[d] : Single(zone, d, h) =>
            \A t \in zone[d][g] : t < Instant(zone, d, h) <=> g < h
  /\ \A d, e \in DOMAIN zone : \A t \in Instants(zone, d), u \in Instants(zone, e) :
       /\ d < e => t < u
       /\ \A x \in t .. u : HasDay(zone, x)

-----------------------------------------------------------------------------
\* The schedule that is stored when a client gives the rules.  Only properties
\* look at what was given.
Stored(zone, given) ==
  [kind |-> "schedule", zone |-> zone, given |-> given,
   rules |-> [i \in DOMAIN given |-> [given[i] EXCEPT !.intervals = Parsed(@)]]]

IsSchedule(s) ==
  /\ IsTimeZone(s.zone)
  /\ s.given \in Seq([weekday : Int, date : Int, intervals : Seq([start : Nat, end : Nat])])
  /\ s = Stored(s.zone, s.given)

-----------------------------------------------------------------------------
(* ScheduleRuleInterval::to_event *)

\* The first hour from h on, after the last hour from the first one again,
\* that exists once
FirstSingle(zone, d, h) ==
  LET later == {x \in h .. Hours - 1 : Single(zone, d, x)}
      any == {x \in 0 .. Hours - 1 : Single(zone, d, x)}
  IN  Min(IF later # {} THEN later ELSE any)

\* The end of an interval is looked up again and again as it is.
NeverEnds(zone, d, v) ==
  /\ ~Single(zone, d, v.end)
  /\ v.start <= FirstSingle(zone, d, v.start)

ToEvent(zone, d, v) ==
  LET first == FirstSingle(zone, d, v.start)
      event == [start |-> Instant(zone, d, first), end |-> Instant(zone, d, v.end)]
  IN  IF v.start > first \/ event.start > event.end THEN << >> ELSE << event >>

-----------------------------------------------------------------------------
(* Schedule::freebusy *)

\* The last rule for the date of a day decides, without one the last rule for
\* its day of the week.
IntervalsOf(rules, d) ==
  LET dated == {i \in DOMAIN rules : rules[i].date = d}
      weekly == {i \in DOMAIN rules : rules[i].date < 0 /\ rules[i].weekday = d % Week}
      ruling == IF dated # {} THEN dated ELSE weekly
  IN  IF ruling = {} THEN << >> ELSE rules[Max(ruling)].intervals

DayOf(zone, t) == CHOOSE d \in DOMAIN zone : t \in Instants(zone, d)
DaysOf(s, w) == DayOf(s.zone, w.start) .. DayOf(s.zone, w.end)

\* A day whose day of the week is asked for, or that has an interval, begins
\* with its midnight, which must exist once.
NoMidnight(s, w) ==
  \E d \in DaysOf(s, w) :
    /\ ~Single(s.zone, d, 0)
    /\ (\A i \in DOMAIN s.rules : s.rules[i].date # d) \/ IntervalsOf(s.rules, d) # << >>

LoopsForEver(s, w) ==
  \E d \in DaysOf(s, w) : \E v \in Range(IntervalsOf(s.rules, d)) : NeverEnds(s.zone, d, v)

EventsOn(s, d) ==
  LET intervals == IntervalsOf(s.rules, d)
  IN  FlattenSeq([j \in DOMAIN intervals |-> ToEvent(s.zone, d, intervals[j])])

FreeIn(s, w) ==
  LET days == DaysOf(s, w)
      events == [i \in 1 .. Cardinality(days) |-> EventsOn(s, Min(days) + i - 1)]
  IN  Within(Extend(<< >>, FlattenSeq(events)), w)

-----------------------------------------------------------------------------
(* What a client is promised by the rules it gave, hour by hour *)

Promised(s, d, h) ==
  LET intervals == IntervalsOf(s.given, d)
  IN  \E j \in DOMAIN intervals :
        j <= MaxIntervals /\ intervals[j].start <= h /\ h < intervals[j].end

\* The instant t is in an hour the rules promise.
Offered(s, t) ==
  LET d == DayOf(s.zone, t)
  IN  \E h \in DOMAIN s.zone[d] : t \in s.zone[d][h] /\ Promised(s, d, h)

\* And that hour can be reached through promised hours from one that exists
\* once: an interval that begins in an hour that is repeated begins after it.
OfferedSurely(s, t) ==
  LET d == DayOf(s.zone, t)
  IN  \E h \in DOMAIN s.zone[d] :
        /\ t \in s.zone[d][h]
        /\ \E g \in 0 .. h : Single(s.zone, d, g) /\ \A x \in g .. h : Promised(s, d, x)
=============================================================================
