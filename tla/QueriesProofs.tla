---------------------------- MODULE QueriesProofs ----------------------------
(***************************************************************************)
(* What the queries of events answer (EventQueries), for every database,   *)
(* window and interleaving: what is shown took place or is the occurrence  *)
(* of an exception that the query does not look for, what takes place all  *)
(* along is answered, and a client that pages through a search is shown    *)
(* every event once.                                                       *)
(*                                                                         *)
(* A request goes through its statements on its own; what it has read so   *)
(* far is kept in its `reading`.  The invariant of a query (Sound) is      *)
(* therefore about the request alone, and one about the tables is needed   *)
(* only when a statement reads them: that the columns the statements       *)
(* compare are derived from those that say when an event takes place.      *)
(***************************************************************************)
EXTENDS PromisesProofs

----------------------------------------------------------------------------
(* Occurrences *)

Windows == [start : Int, end : Int]
Around(t, w) == [start |-> w.start - t.length, end |-> w.end]

(* An occurrence that overlaps a window is of an event that the statements *)
(* of the repository select by the window, although they compare only the  *)
(* derived columns (calendar_event/postgres.rs).                           *)
LEMMA OccurrencesSelected ==
    ASSUME NEW t \in Times, Derived(t), NEW w \in Windows, NEW s \in Starts(t, Around(t, w)),
           s < w.end, s + t.length > w.start
    PROVE  /\ InWindow(t, w)
           /\ t.rule # None => Recurs(t, w)
           /\ t.rule = None => t.start <= w.end /\ t.end >= w.start
           /\ \A statuses : t.busy /\ t.status \in statuses => BusyInWindow(t, w, statuses)
  <1>0. /\ t.start \in Int /\ t.length \in Nat /\ t.end = t.start + t.length
        /\ t.until = Lasts(t.rule, t.length) /\ w.start \in Int /\ w.end \in Int
        /\ t.rule # None => t.rule \in Rule
    BY DEF Times, Derived, Windows
  <1>1. CASE t.rule = None
    <2>1. s = t.start
      BY <1>1 DEF Starts
    <2> QED BY <1>0, <1>1, <2>1 DEF InWindow, BusyInWindow
  <1>2. CASE t.rule # None
    <2>1. s \in Int /\ s >= t.start /\ (t.rule.until # None => s <= t.rule.until)
      BY <1>0, <1>2 DEF Starts, Around
    <2>2. t.rule.until \in Int \union {None}
      BY <1>0, <1>2 DEF Rule
    <2>3. t.until = None \/ (t.until \in Int /\ t.until > w.start)
      BY <1>0, <1>2, <2>1, <2>2 DEF Lasts
    <2> QED BY <1>0, <1>2, <2>1, <2>3 DEF InWindow, Recurs, BusyInWindow
  <1> QED BY <1>1, <1>2

(* What starts within the window is expanded, as far as the limit of the   *)
(* instances goes (get_rrule_set).                                         *)
LEMMA OccurrencesExpanded ==
    ASSUME NEW t \in Times, NEW w \in Windows
    PROVE  /\ \A s \in Dates(t, w) :
                /\ s \in Int /\ s \in Starts(t, Around(t, w))
                /\ t.rule # None => w.start <= s /\ s <= w.end
           /\ \A s \in Starts(t, Around(t, w)) :
                /\ s < w.end
                /\ t.rule # None => s >= w.start /\ ~(StartsBefore(t, w, s) >= MaxInstances)
                => s \in Dates(t, w)
  <1>0. t.start \in Int /\ t.length \in Nat /\ w.start \in Int /\ w.end \in Int
    BY DEF Times, Windows
  <1>1. ASSUME NEW s \in Dates(t, w)
        PROVE  /\ s \in Int /\ s \in Starts(t, Around(t, w))
               /\ t.rule # None => w.start <= s /\ s <= w.end
    BY <1>0, <1>1 DEF Dates, Starts, Around
  <1>2. ASSUME NEW s \in Starts(t, Around(t, w)), s < w.end,
               t.rule # None => s >= w.start /\ ~(StartsBefore(t, w, s) >= MaxInstances)
        PROVE  s \in Dates(t, w)
    <2>1. s \in Starts(t, w)
      BY <1>0, <1>2 DEF Starts, Around
    <2>2. t.rule # None => StartsBefore(t, w, s) \in Nat
      <3>1. t.rule # None => Starts(t, w) \subseteq w.start..w.end
        BY DEF Starts
      <3> QED BY <1>0, <3>1, FS_Interval, FS_Subset, FS_CardinalityType DEF StartsBefore
    <2> QED BY <1>2, <2>1, <2>2, MaxInstancesAssumption DEF Dates
  <1> QED BY <1>1, <1>2

(* A row that says what is in the table now *)
Current(x) == x.event \in IdsOf(db.events) /\ x.row = db.events[x.event]

(* An instance is an occurrence of an event that no exception replaces.    *)
SeriesOf(d, e) ==
    IF d.events[e].times.series = None THEN None ELSE d.events[d.events[e].times.series]
Instance(d, e, t) == [event |-> e, row |-> d.events[e], start |-> t, of |-> SeriesOf(d, e)]
LEMMA ActualIs ==
    ASSUME NEW d, NEW w
    PROVE  /\ \A a \in Actual(d, w) :
                /\ a.event \in IdsOf(d.events) /\ a.row = d.events[a.event]
                /\ a.start \in Starts(a.row.times, Around(a.row.times, w))
                /\ ~Overridden(d, a.event, a.start) /\ a.of = SeriesOf(d, a.event)
           /\ \A e \in IdsOf(d.events) :
                \A t \in Starts(d.events[e].times, Around(d.events[e].times, w)) :
                    ~Overridden(d, e, t) => Instance(d, e, t) \in Actual(d, w)
  <1> DEFINE Free(e) == {t \in Starts(d.events[e].times, Around(d.events[e].times, w)) :
                            ~Overridden(d, e, t)}
             Of(e) == {Instance(d, e, t) : t \in Free(e)}
  <1>1. Actual(d, w) = UNION {Of(e) : e \in IdsOf(d.events)}
    BY DEF Actual, Instance, SeriesOf, Around
  <1>2. ASSUME NEW e \in IdsOf(d.events), NEW a \in Of(e)
        PROVE  /\ a.event = e /\ a.row = d.events[e] /\ a.of = SeriesOf(d, e) /\ a.start \in Free(e)
    <2>1. PICK t \in Free(e) : a = Instance(d, e, t)
      OBVIOUS
    <2> HIDE DEF Free
    <2> QED BY <2>1 DEF Instance
  <1>3. ASSUME NEW a \in Actual(d, w) PROVE \E e \in IdsOf(d.events) : a \in Of(e)
    BY <1>1, Zenon
  <1>4. ASSUME NEW e \in IdsOf(d.events), NEW t \in Free(e) PROVE Instance(d, e, t) \in Actual(d, w)
    <2>1. Instance(d, e, t) \in Of(e)
      OBVIOUS
    <2> HIDE DEF Of
    <2> QED BY <1>1, <2>1
  <1>5. ASSUME NEW a \in Actual(d, w)
        PROVE  /\ a.event \in IdsOf(d.events) /\ a.row = d.events[a.event]
               /\ a.start \in Starts(a.row.times, Around(a.row.times, w))
               /\ ~Overridden(d, a.event, a.start) /\ a.of = SeriesOf(d, a.event)
    <2>1. PICK e \in IdsOf(d.events) : a \in Of(e)
      BY <1>3
    <2>2. a.event = e /\ a.row = d.events[e] /\ a.of = SeriesOf(d, e) /\ a.start \in Free(e)
      BY <1>2, <2>1
    <2> QED BY <2>2
  <1> QED BY <1>4, <1>5

(* What is expanded takes place, unless it is the occurrence of an         *)
(* exception that was not read.                                            *)
LEMMA PhantomsReplaced ==
    ASSUME db \in Database, NEW w \in Windows, NEW rows, NEW exceptions,
           NEW x \in Expanded(rows, exceptions, w), Current(x)
    PROVE  \/ \E a \in Actual(db, w) : a.event = x.event /\ a.start = x.start /\ a.row = x.row
           \/ \E e \in IdsOf(db.events) :
                /\ Replaces([event |-> e, row |-> db.events[e]], x)
                /\ \A y \in exceptions : Current(y) => y.event # e
  <1> DEFINE row == db.events[x.event]
  <1>1. PICK y \in rows : \E t \in Dates(y.row.times, w) \ Excepted(exceptions, y.event) :
                x = [event |-> y.event, row |-> y.row, from |-> y.from, start |-> t]
    BY DEF Expanded
  <1>2. /\ x.start \in Dates(row.times, w) /\ x.start \notin Excepted(exceptions, x.event)
        /\ x.row = row /\ row.times \in Times
    BY <1>1 DEF Current, Database, IdsOf, EventRow
  <1>3. x.start \in Starts(row.times, Around(row.times, w)) /\ x.start \in Int
    BY <1>2, OccurrencesExpanded
  <1>4. CASE ~Overridden(db, x.event, x.start)
    <2>1. Instance(db, x.event, x.start) \in Actual(db, w)
      BY <1>3, <1>4, ActualIs DEF Current
    <2> QED BY <1>2, <2>1 DEF Instance
  <1>5. CASE Overridden(db, x.event, x.start)
    <2>1. PICK e \in IdsOf(db.events) :
                db.events[e].times.series = x.event /\ db.events[e].times.original = x.start
      BY <1>5 DEF Overridden
    <2>2. ASSUME NEW z \in exceptions, Current(z) PROVE z.event # e
      <3>1. SUFFICES ASSUME z.event = e PROVE FALSE
        OBVIOUS
      <3>2. z.row.times.series = x.event /\ z.row.times.original = x.start
        BY <2>1, <2>2, <3>1 DEF Current
      <3> QED BY <1>2, <1>3, <3>2, NoneIsNoTime DEF Excepted
    <2> QED BY <2>1, <2>2 DEF Replaces
  <1> QED BY <1>4, <1>5

(* What takes place within the window is expanded of a row that was read,  *)
(* except for what began before the window and for what is after the first *)
(* MaxInstances.                                                           *)
LEMMA ActualExpanded ==
    ASSUME db \in Database, NEW w \in Windows, NEW rows, NEW exceptions,
           \A y \in exceptions : Current(y),
           NEW a \in Actual(db, w), a.start < w.end,
           a.row.times.rule # None =>
                /\ ~(a.start < w.start)
                /\ ~(StartsBefore(a.row.times, w, a.start) >= MaxInstances),
           NEW y \in rows, y.event = a.event, y.row = a.row
    PROVE  \E x \in Expanded(rows, exceptions, w) : x.event = a.event /\ x.start = a.start
  <1>1. /\ a.event \in IdsOf(db.events) /\ a.row = db.events[a.event]
        /\ a.start \in Starts(a.row.times, Around(a.row.times, w))
        /\ ~Overridden(db, a.event, a.start)
    BY ActualIs
  <1>2. a.row.times \in Times /\ w.start \in Int
    BY <1>1 DEF Database, IdsOf, EventRow, Windows
  <1>3. a.start \in Int
    <2> DEFINE t == a.row.times
               around == Around(t, w)
    <2>1. t.start \in Int /\ around.start \in Int /\ around.end \in Int
      BY <1>2 DEF Around, Times, Windows
    <2>2. a.start \in Starts(t, around)
      BY <1>1
    <2> HIDE DEF t, around
    <2>3. a.start = t.start \/ a.start \in around.start..around.end
      BY <2>2 DEF Starts
    <2> QED BY <2>1, <2>3
  <1>4. a.start \in Dates(a.row.times, w)
    BY <1>1, <1>2, <1>3, OccurrencesExpanded
  <1>5. a.start \notin Excepted(exceptions, a.event)
    BY <1>1 DEF Excepted, Overridden, Current
  <1> DEFINE x == [event |-> y.event, row |-> y.row, from |-> y.from, start |-> a.start]
  <1>6. x \in Expanded(rows, exceptions, w)
    BY <1>4, <1>5 DEF Expanded
  <1> QED BY <1>6

(* What takes place is of an event that the statements select, with the    *)
(* columns that say so.                                                    *)
Selected(w, a) ==
    LET t == a.row.times
    IN  /\ a.event \in IdsOf(db.events) /\ a.row = db.events[a.event]
        /\ a.row \in EventRow /\ t \in Times
        /\ t.series # None => a.of = db.events[t.series]
        /\ InWindow(t, w)
        /\ t.rule # None => Recurs(t, w)
        /\ t.rule = None => t.start <= w.end /\ t.end >= w.start
        /\ \A statuses : t.busy /\ t.status \in statuses => BusyInWindow(t, w, statuses)
LEMMA ActualSelected ==
    ASSUME db \in Database, EventsDerived(db), NEW w \in Windows, NEW a \in Actual(db, w),
           a.start < w.end, a.start + a.row.times.length > w.start
    PROVE  Selected(w, a)
  <1>1. /\ a.event \in IdsOf(db.events) /\ a.row = db.events[a.event]
        /\ a.row.times.series # None => a.of = db.events[a.row.times.series]
        /\ a.start \in Starts(a.row.times, Around(a.row.times, w))
    BY ActualIs DEF SeriesOf
  <1>2. a.row \in EventRow /\ a.row.times \in Times /\ Derived(a.row.times)
    BY <1>1 DEF Database, IdsOf, EventRow, EventsDerived
  <1> QED BY <1>1, <1>2, OccurrencesSelected DEF Selected

----------------------------------------------------------------------------
(* Requests.  What the properties say of one request.                      *)

Unasked(q, x) ==
    /\ q.op = "GetEventsForUsersInTimeRange"
    /\ x.row.times.series # None \/ x.row.times.rule = None
    /\ \E e \in UNION q.reading.met : Replaces(e, x)
ShowsActual(q, found) ==
    \A x \in found : [event |-> x.event, row |-> x.row] \in Always(q.reading.met) =>
        Saw(q.reading, x) \/ Unasked(q, x)

(* An exception e of what is shown as x, that the query did not look for   *)
Elsewhere(q, e, x) ==
    LET t == e.row.times
        w == q.reading.want.window
    IN  /\ Replaces(e, x)
        /\ \/ e.row.calendar # x.row.calendar
           \/ t.end < w.start \/ t.start > w.end
           \/ /\ q.op = "GetUserFreeBusy"
              /\ \/ ~t.busy \/ t.status \notin q.reading.want.statuses
                 \/ t.end = w.start \/ t.start = w.end
ShowsOverrides(q, found) ==
    \A x \in found :
        \/ Saw(q.reading, x)
        \/ q.op = "ExportIcal" /\ x.row.times.series # None
        \/ \E e \in UNION q.reading.met : Elsewhere(q, e, x)

Overlaps(q, a) ==
    LET w == q.reading.want.window
    IN  a.start < w.end /\ a.start + a.row.times.length > w.start
Misses(q, found) ==
    \E a \in Always(q.reading.seen) :
        /\ Overlaps(q, a) /\ AskedFor(q, a) /\ ~Withheld(q, a)
        /\ ~\E x \in found : x.event = a.event /\ x.start = a.start

(* What is left out whatever the query: a later occurrence, an early one   *)
InReach(q, a) ==
    a.row.times.rule # None =>
        /\ ~(a.start < q.reading.want.window.start)
        /\ ~(StartsBefore(a.row.times, q.reading.want.window, a.start) >= MaxInstances)

ReadingFields == {"want", "cals", "rows", "found", "page", "seen", "met"}
(* A query has its window, and its reading the fields it began with        *)
Windowed(q) ==
    /\ DOMAIN q.reading = ReadingFields /\ DOMAIN q.reading.want = DOMAIN Wish
    /\ q.reading.want.window \in Windows

LEMMA WindowAsked ==
    ASSUME NEW q, q.op \in QueryOps \ Searches, Asking(q)
    PROVE  Windowed(q)
  BY DEF Asking, Wants, Windowed, ReadingFields, Windows

(* A statement of a query moves its request and nothing else of it.        *)
LEMMA Advances ==
    ASSUME Inv, NEW k \in Client, calls[k] # None, NEW s, NEW r, Advance(k, s, r)
    PROVE  /\ calls'[k].at = s /\ calls'[k].reading = r /\ SameCall(calls[k], calls'[k])
           /\ calls' = [calls EXCEPT ![k] = calls'[k]]
  <1> DEFINE c == [calls[k] EXCEPT !.at = s, !.reading = r]
  <1>1. DOMAIN calls[k] = DOMAIN Blank /\ DOMAIN calls = Client
    BY Found
  <1>2. calls' = [calls EXCEPT ![k] = c]
    BY <1>1 DEF Advance
  <1>3. SameCall(calls[k], c) /\ c.at = s /\ c.reading = r
    BY <1>1 DEF SameCall, SameOrder, Blank
  <1> HIDE DEF c
  <1> QED BY <1>1, <1>2, <1>3

(* A read of events adds what took place and what was there.               *)
Stock == {[event |-> e, row |-> db.events[e]] : e \in IdsOf(db.events)}
LEMMA ObservedIs ==
    ASSUME NEW r, DOMAIN r = ReadingFields
    PROVE  LET o == Observed(r)
           IN  /\ DOMAIN o = ReadingFields /\ o.want = r.want /\ o.cals = r.cals
               /\ o.rows = r.rows /\ o.found = r.found /\ o.page = r.page
               /\ o.seen = r.seen \union {Actual(db, r.want.window)}
               /\ o.met = r.met \union {Stock}
  BY DEF Observed, ReadingFields, Stock

LEMMA RowsOfIs ==
    ASSUME NEW es, NEW from
    PROVE  /\ \A x \in RowsOf(es, from) : x.event \in es /\ x.row = db.events[x.event] /\ x.from = from
           /\ \A e \in es : \E x \in RowsOf(es, from) :
                x.event = e /\ x.row = db.events[e] /\ x.from = from
  <1> DEFINE Of(e) == [event |-> e, row |-> db.events[e], from |-> from]
  <1>1. \A e : Of(e).event = e /\ Of(e).row = db.events[e] /\ Of(e).from = from
    OBVIOUS
  <1>2. RowsOf(es, from) = {Of(e) : e \in es}
    BY DEF RowsOf
  <1> HIDE DEF Of
  <1> QED BY <1>1, <1>2

(* Expanded rows are rows, with an occurrence.                             *)
LEMMA ExpandedIs ==
    ASSUME NEW rows, NEW exceptions, NEW w, NEW x \in Expanded(rows, exceptions, w)
    PROVE  /\ \E y \in rows : y.event = x.event /\ y.row = x.row /\ y.from = x.from
           /\ x.start \in Dates(x.row.times, w) /\ x.start \notin Excepted(exceptions, x.event)
  <1>1. PICK y \in rows : \E t \in Dates(y.row.times, w) \ Excepted(exceptions, y.event) :
                x = [event |-> y.event, row |-> y.row, from |-> y.from, start |-> t]
    BY DEF Expanded
  <1> QED BY <1>1

(* A query that was answered from a read has its window and what it read.  *)
LEMMA AnsweredIs ==
    ASSUME Inv, NEW k \in Client, calls[k] # None, Windowed(calls[k]), NEW rows, NEW exceptions,
           AnswerFrom(k, Observed(calls[k].reading), rows, exceptions), calls'[k] # None
    PROVE  LET q == calls[k]
               c == calls'[k]
               w == q.reading.want.window
           IN  /\ c.at = "answered" /\ SameCall(q, c) /\ Windowed(c)
               /\ c.reading.want = q.reading.want /\ c.reading.cals = q.reading.cals
               /\ c.reading.rows = rows /\ c.reading.found = Expanded(rows, exceptions, w)
               /\ c.reading.seen = q.reading.seen \union {Actual(db, w)}
               /\ c.reading.met = q.reading.met \union {Stock}
  <1> DEFINE q == calls[k]
             w == q.reading.want.window
             o == Observed(q.reading)
             found == Expanded(rows, exceptions, w)
             r == [o EXCEPT !.rows = rows, !.found = found]
  <1>1. /\ DOMAIN o = ReadingFields /\ o.want = q.reading.want /\ o.cals = q.reading.cals
        /\ o.seen = q.reading.seen \union {Actual(db, w)} /\ o.met = q.reading.met \union {Stock}
    BY ObservedIs DEF Windowed
  <1>2. ~Answer(k)
    BY Found DEF Answer
  <1>3. Advance(k, "answered", r)
    BY <1>1, <1>2 DEF AnswerFrom
  <1> HIDE DEF o, found
  <1>4. /\ DOMAIN r = ReadingFields /\ r.want = q.reading.want /\ r.cals = q.reading.cals
        /\ r.rows = rows /\ r.found = found
        /\ r.seen = q.reading.seen \union {Actual(db, w)} /\ r.met = q.reading.met \union {Stock}
    BY <1>1 DEF ReadingFields
  <1> HIDE DEF r
  <1>5. calls'[k].at = "answered" /\ calls'[k].reading = r /\ SameCall(q, calls'[k])
    BY <1>3, Advances
  <1> QED BY <1>4, <1>5 DEF Windowed, found

(* What is shown took place at this read, or is the occurrence of an       *)
(* exception that was not read.                                            *)
Unread(exceptions, e, x) ==
    /\ Current(e) /\ Replaces(e, x)
    /\ \A y \in exceptions : Current(y) => y.event # e.event
LEMMA ReadShows ==
    ASSUME Inv, NEW c, Windowed(c),
           Actual(db, c.reading.want.window) \in c.reading.seen, Stock \in c.reading.met,
           NEW rows, NEW exceptions,
           NEW x \in Expanded(rows, exceptions, c.reading.want.window), Current(x)
    PROVE  \/ Saw(c.reading, x)
           \/ \E e \in UNION c.reading.met : Unread(exceptions, e, x)
  <1> DEFINE w == c.reading.want.window
  <1>1. db \in Database /\ w \in Windows
    BY DEF Inv, Consistent, Windowed
  <1>2. CASE \E a \in Actual(db, w) : a.event = x.event /\ a.start = x.start /\ a.row = x.row
    BY <1>2 DEF Saw
  <1>3. ASSUME NEW e \in IdsOf(db.events), Replaces([event |-> e, row |-> db.events[e]], x),
               \A y \in exceptions : Current(y) => y.event # e
        PROVE  \E y \in UNION c.reading.met : Unread(exceptions, y, x)
    <2> DEFINE y == [event |-> e, row |-> db.events[e]]
    <2>1. y \in Stock
      BY DEF Stock
    <2>2. y \in UNION c.reading.met /\ y.event = e /\ y.row = db.events[e]
      BY <2>1
    <2> HIDE DEF y
    <2> QED BY <1>3, <2>2 DEF y, Unread, Current
  <1>4. \/ \E a \in Actual(db, w) : a.event = x.event /\ a.start = x.start /\ a.row = x.row
        \/ \E e \in IdsOf(db.events) :
                /\ Replaces([event |-> e, row |-> db.events[e]], x)
                /\ \A y \in exceptions : Current(y) => y.event # e
    BY <1>1, PhantomsReplaced
  <1> QED BY <1>2, <1>3, <1>4

(* What takes place all along is of an event that this read may select,    *)
(* and is shown if it did.                                                 *)
LEMMA ReadAnswers ==
    ASSUME Inv, NEW c, Windowed(c), Actual(db, c.reading.want.window) \in c.reading.seen,
           NEW a \in Always(c.reading.seen), Overlaps(c, a)
    PROVE  /\ a \in Actual(db, c.reading.want.window)
           /\ Selected(c.reading.want.window, a)
  <1>1. /\ db \in Database /\ EventsDerived(db) /\ c.reading.want.window \in Windows
        /\ a \in Actual(db, c.reading.want.window)
    BY DEF Inv, Consistent, Windowed, Always
  <1> QED BY <1>1, ActualSelected DEF Overlaps

LEMMA ReadShown ==
    ASSUME Inv, NEW c, Windowed(c), NEW a \in Actual(db, c.reading.want.window),
           Overlaps(c, a), ~Withheld(c, a),
           NEW rows, NEW y \in rows, y.event = a.event, y.row = a.row,
           NEW exceptions, \A z \in exceptions : Current(z)
    PROVE  \E x \in Expanded(rows, exceptions, c.reading.want.window) :
                x.event = a.event /\ x.start = a.start
  <1>1. db \in Database /\ c.reading.want.window \in Windows /\ a.start < c.reading.want.window.end
    BY DEF Inv, Consistent, Windowed, Overlaps
  <1>2. a.row.times.rule # None =>
            /\ ~(a.start < c.reading.want.window.start)
            /\ ~(StartsBefore(a.row.times, c.reading.want.window, a.start) >= MaxInstances)
    BY DEF Withheld
  <1> QED BY <1>1, <1>2, ActualExpanded

----------------------------------------------------------------------------
(* Queries that read events once *)

Settling(c) ==
    Windowed(c) /\ (c.at = "answered" =>
        ShowsOverrides(c, c.reading.found) /\ ~Misses(c, c.reading.found))

(* A statement before the read of events only notes calendars.             *)
LEMMA CalendarsNoted ==
    ASSUME Inv, NEW k \in Client, calls[k] # None, Windowed(calls[k]), NEW cals,
           Advance(k, "events", [calls[k].reading EXCEPT !.cals = cals])
    PROVE  Settling(calls'[k])
  <1> DEFINE r == [calls[k].reading EXCEPT !.cals = cals]
  <1>1. DOMAIN r = ReadingFields /\ r.want = calls[k].reading.want
    BY DEF Windowed, ReadingFields
  <1> HIDE DEF r
  <1>2. calls'[k].at = "events" /\ calls'[k].reading = r
    BY Advances DEF r
  <1> QED BY <1>1, <1>2 DEF Settling, Windowed

(* A query that answers the events `es` of a read shows what takes place,  *)
(* if the exceptions it leaves out are elsewhere and if it reads what was  *)
(* asked for.                                                              *)
LEMMA OneReadSettles ==
    ASSUME Inv, NEW k \in Client, calls[k] # None, Windowed(calls[k]), calls'[k] # None,
           NEW es, es \subseteq IdsOf(db.events), NEW from,
           AnswerFrom(k, Observed(calls[k].reading), RowsOf(es, from), RowsOf(es, from)),
           \A e \in IdsOf(db.events) \ es, y \in es :
                LET t == db.events[e].times
                    w == calls[k].reading.want.window
                IN  \/ db.events[e].calendar # db.events[y].calendar
                    \/ t.end < w.start \/ t.start > w.end
                    \/ /\ calls[k].op = "GetUserFreeBusy"
                       /\ \/ ~t.busy \/ t.status \notin calls[k].reading.want.statuses
                          \/ t.end = w.start \/ t.start = w.end,
           \A a \in Actual(db, calls[k].reading.want.window) :
                LET t == a.row.times
                    w == calls[k].reading.want.window
                IN  /\ a.event \in IdsOf(db.events) /\ a.row = db.events[a.event]
                    /\ InWindow(t, w)
                    /\ \A statuses : t.busy /\ t.status \in statuses => BusyInWindow(t, w, statuses)
                    /\ AskedFor(calls'[k], a)
                    => a.event \in es
    PROVE  Settling(calls'[k])
  <1> DEFINE q == calls[k]
             c == calls'[k]
             w == q.reading.want.window
             rows == RowsOf(es, from)
  <1>1. /\ c.at = "answered" /\ SameCall(q, c) /\ Windowed(c)
        /\ c.reading.want = q.reading.want /\ c.reading.cals = q.reading.cals
        /\ c.reading.rows = rows /\ c.reading.found = Expanded(rows, rows, w)
        /\ c.reading.seen = q.reading.seen \union {Actual(db, w)}
        /\ c.reading.met = q.reading.met \union {Stock}
    BY AnsweredIs
  <1>11. /\ Actual(db, c.reading.want.window) \in c.reading.seen /\ Stock \in c.reading.met
         /\ c.reading.found = Expanded(rows, rows, c.reading.want.window)
    BY <1>1
  <1>2. \A y \in rows : y.event \in es /\ Current(y)
    BY RowsOfIs DEF Current
  <1>3. ASSUME NEW x \in c.reading.found
        PROVE  Saw(c.reading, x) \/ \E e \in UNION c.reading.met : Elsewhere(c, e, x)
    <2>1. x.event \in es /\ Current(x)
      BY <1>1, <1>2, <1>3, ExpandedIs DEF Current
    <2>2. SUFFICES ASSUME ~Saw(c.reading, x) PROVE \E e \in UNION c.reading.met : Elsewhere(c, e, x)
      OBVIOUS
    <2>3. PICK e \in UNION c.reading.met : Unread(rows, e, x)
      <3> HIDE DEF c, rows
      <3>1. /\ Windowed(c) /\ x \in Expanded(rows, rows, c.reading.want.window) /\ Current(x)
            /\ Actual(db, c.reading.want.window) \in c.reading.seen /\ Stock \in c.reading.met
        BY <1>1, <1>11, <2>1
      <3> QED BY <2>2, <3>1, ReadShows
    <2>4. e.event \notin es
      BY <1>2, <2>3, RowsOfIs DEF Unread
    <2>5. Elsewhere(c, e, x)
      BY <1>1, <2>1, <2>3, <2>4 DEF Elsewhere, Unread, Current, SameCall, SameOrder
    <2> QED BY <2>5
  <1>4. ASSUME NEW a \in Always(c.reading.seen), Overlaps(c, a), AskedFor(c, a), ~Withheld(c, a)
        PROVE  \E x \in c.reading.found : x.event = a.event /\ x.start = a.start
    <2>1. /\ a \in Actual(db, w) /\ a.event \in IdsOf(db.events) /\ a.row = db.events[a.event]
          /\ InWindow(a.row.times, w)
          /\ \A statuses : a.row.times.busy /\ a.row.times.status \in statuses =>
                                BusyInWindow(a.row.times, w, statuses)
      BY <1>1, <1>4, ReadAnswers DEF Selected
    <2>2. a.event \in es
      BY <1>4, <2>1
    <2>3. PICK y \in rows : y.event = a.event /\ y.row = db.events[a.event]
      BY <2>2, RowsOfIs
    <2>4. a \in Actual(db, c.reading.want.window) /\ y.row = a.row
      BY <1>1, <2>1, <2>3
    <2> HIDE DEF c, rows
    <2>5. \E x \in Expanded(rows, rows, c.reading.want.window) : x.event = a.event /\ x.start = a.start
      <3>1. Windowed(c) /\ Overlaps(c, a) /\ ~Withheld(c, a) /\ y.event = a.event
        BY <1>1, <1>4, <2>3
      <3> QED BY <1>2, <2>3, <2>4, <3>1, ReadShown
    <2> QED BY <1>11, <2>5
  <1> QED BY <1>1, <1>3, <1>4 DEF Settling, ShowsOverrides, Misses

(* What a condition of the queries does not select is out of the window or *)
(* not busy.                                                               *)
LEMMA WindowInts ==
    ASSUME Inv, NEW e \in IdsOf(db.events), NEW q, Windowed(q)
    PROVE  LET t == db.events[e].times
               w == q.reading.want.window
           IN  /\ ~InWindow(t, w) => t.end < w.start \/ t.start > w.end
               /\ \A statuses : ~BusyInWindow(t, w, statuses) =>
                    \/ t.end < w.start \/ t.start > w.end
                    \/ ~t.busy \/ t.status \notin statuses
                    \/ t.end = w.start \/ t.start = w.end
  <1> DEFINE t == db.events[e].times
             w == q.reading.want.window
  <1>1. t.start \in Int /\ t.end \in Int /\ w.start \in Int /\ w.end \in Int
    <2>1. db.events[e] \in EventRow
      BY DEF Inv, Consistent, Database, IdsOf
    <2>2. t \in Times
      BY <2>1 DEF EventRow
    <2> QED BY <2>2 DEF Times, Windowed, Windows
  <1> HIDE DEF t, w
  <1>2. ~InWindow(t, w) => t.end < w.start \/ t.start > w.end
    BY <1>1 DEF InWindow
  <1>3. \A statuses : ~BusyInWindow(t, w, statuses) =>
                    \/ t.end < w.start \/ t.start > w.end
                    \/ ~t.busy \/ t.status \notin statuses
                    \/ t.end = w.start \/ t.start = w.end
    BY <1>1 DEF BusyInWindow
  <1> QED BY <1>2, <1>3 DEF t, w

LEMMA EventsByCalendarsSettles ==
    ASSUME Inv, NEW k \in Client, calls[k] # None, Windowed(calls[k]), calls'[k] # None,
           GetEventsByCalendars(k)
    PROVE  Settling(calls'[k])
  <1> DEFINE q == calls[k]
             r == q.reading
             w == r.want.window
             es == {e \in EventsOf(db, r.want.calendars) : InWindow(db.events[e].times, w)}
  <1>1. ~Answer(k)
    BY Found DEF Answer
  <1>2. CASE \E cals : Advance(k, "events", [r EXCEPT !.cals = cals])
    BY <1>2, CalendarsNoted
  <1>3. CASE q.op = "GetEventsByCalendars"
             /\ AnswerFrom(k, Observed(r), RowsOf(es, "calendars"), RowsOf(es, "calendars"))
    <2>1. es \subseteq IdsOf(db.events)
      BY DEF EventsOf
    <2>2. ASSUME NEW e \in IdsOf(db.events) \ es, NEW y \in es
          PROVE  \/ db.events[e].calendar # db.events[y].calendar
                 \/ db.events[e].times.end < w.start \/ db.events[e].times.start > w.end
      BY <2>2, WindowInts DEF EventsOf
    <2>3. ASSUME NEW a \in Actual(db, w), a.event \in IdsOf(db.events), a.row = db.events[a.event],
                 InWindow(a.row.times, w), AskedFor(calls'[k], a)
          PROVE  a.event \in es
      <3>1. a.row.calendar \in r.want.calendars
        <4>1. calls'[k].op = "GetEventsByCalendars" /\ calls'[k].reading.want = r.want
          BY <1>3, AnsweredIs DEF SameCall, SameOrder
        <4> QED BY <2>3, <4>1 DEF AskedFor
      <3> QED BY <2>3, <3>1 DEF EventsOf
    <2> HIDE DEF es
    <2> QED BY <1>3, <2>1, <2>2, <2>3, OneReadSettles
  <1> QED BY <1>1, <1>2, <1>3, Zenon DEF GetEventsByCalendars, Reads

LEMMA CalendarEventsSettles ==
    ASSUME Inv, NEW k \in Client, calls[k] # None, Windowed(calls[k]), calls'[k] # None,
           GetCalendarEvents(k)
    PROVE  Settling(calls'[k])
  <1> DEFINE q == calls[k]
             r == q.reading
             w == r.want.window
             es == {e \in EventsOf(db, {q.calendar}) : InWindow(db.events[e].times, w)}
  <1>1. ~Answer(k)
    BY Found DEF Answer
  <1>2. CASE \E cals : Advance(k, "events", [r EXCEPT !.cals = cals])
    BY <1>2, CalendarsNoted
  <1>3. CASE q.op = "GetCalendarEvents"
             /\ AnswerFrom(k, Observed(r), RowsOf(es, "calendars"), RowsOf(es, "calendars"))
    <2>1. es \subseteq IdsOf(db.events)
      BY DEF EventsOf
    <2>2. ASSUME NEW e \in IdsOf(db.events) \ es, NEW y \in es
          PROVE  \/ db.events[e].calendar # db.events[y].calendar
                 \/ db.events[e].times.end < w.start \/ db.events[e].times.start > w.end
      BY <2>2, WindowInts DEF EventsOf
    <2>3. ASSUME NEW a \in Actual(db, w), a.event \in IdsOf(db.events), a.row = db.events[a.event],
                 InWindow(a.row.times, w), AskedFor(calls'[k], a)
          PROVE  a.event \in es
      <3>1. a.row.calendar = q.calendar
        <4>1. calls'[k].op = "GetCalendarEvents" /\ calls'[k].calendar = q.calendar
          BY <1>3, AnsweredIs DEF SameCall, SameOrder
        <4> QED BY <2>3, <4>1 DEF AskedFor
      <3> QED BY <2>3, <3>1 DEF EventsOf
    <2> HIDE DEF es
    <2> QED BY <1>3, <2>1, <2>2, <2>3, OneReadSettles
  <1> QED BY <1>1, <1>2, <1>3, Zenon DEF GetCalendarEvents, Reads

(* The free/busy of a user selects what is busy, by its own conditions     *)
(* (find_busy_events_and_recurring_events_for_calendars).                  *)
LEMMA UserFreeBusySettles ==
    ASSUME Inv, NEW k \in Client, calls[k] # None, Windowed(calls[k]), calls'[k] # None,
           GetUserFreeBusy(k)
    PROVE  Settling(calls'[k])
  <1> DEFINE q == calls[k]
             r == q.reading
             w == r.want.window
             asked == IF r.want.calendars = {} THEN r.cals ELSE r.want.calendars
             es == {e \in EventsOf(db, asked) :
                        BusyInWindow(db.events[e].times, w, r.want.statuses)}
  <1>1. ~Answer(k)
    BY Found DEF Answer
  <1>2. CASE \E cals : Advance(k, "events", [r EXCEPT !.cals = cals])
    BY <1>2, CalendarsNoted
  <1>3. CASE q.op = "GetUserFreeBusy"
             /\ AnswerFrom(k, Observed(r), RowsOf(es, "calendars"), RowsOf(es, "calendars"))
    <2>1. es \subseteq IdsOf(db.events)
      BY DEF EventsOf
    <2>2. ASSUME NEW e \in IdsOf(db.events) \ es, NEW y \in es
          PROVE  LET t == db.events[e].times
                 IN  \/ db.events[e].calendar # db.events[y].calendar
                     \/ t.end < w.start \/ t.start > w.end
                     \/ /\ q.op = "GetUserFreeBusy"
                        /\ \/ ~t.busy \/ t.status \notin r.want.statuses
                           \/ t.end = w.start \/ t.start = w.end
      <3>1. \/ db.events[e].calendar # db.events[y].calendar
            \/ ~BusyInWindow(db.events[e].times, w, r.want.statuses)
        BY <2>2 DEF EventsOf
      <3> HIDE DEF asked
      <3> QED BY <1>3, <3>1, WindowInts
    <2>3. ASSUME NEW a \in Actual(db, w), a.event \in IdsOf(db.events), a.row = db.events[a.event],
                 \A statuses : a.row.times.busy /\ a.row.times.status \in statuses =>
                                    BusyInWindow(a.row.times, w, statuses),
                 AskedFor(calls'[k], a)
          PROVE  a.event \in es
      <3>1. a.row.calendar \in asked /\ a.row.times.busy /\ a.row.times.status \in r.want.statuses
        <4>1. /\ calls'[k].op = "GetUserFreeBusy" /\ calls'[k].reading.want = r.want
              /\ calls'[k].reading.cals = r.cals
          BY <1>3, AnsweredIs DEF SameCall, SameOrder
        <4> QED BY <2>3, <4>1 DEF AskedFor
      <3> QED BY <2>3, <3>1 DEF EventsOf
    <2> HIDE DEF es
    <2> QED BY <1>3, <2>1, <2>2, <2>3, OneReadSettles
  <1> QED BY <1>1, <1>2, <1>3, Zenon DEF GetUserFreeBusy, Reads

(* The exported file: what does not recur, what does with the exceptions   *)
(* that were read of it, and these exceptions (export_ical.rs, ical.rs).   *)
LEMMA ExportSettles ==
    ASSUME Inv, NEW k \in Client, calls[k] # None, Windowed(calls[k]), calls'[k] # None, ExportIcal(k)
    PROVE  Settling(calls'[k])
  <1> DEFINE q == calls[k]
             r == q.reading
             w == r.want.window
             es == {e \in EventsOf(db, {q.calendar}) : InWindow(db.events[e].times, w)}
             rows == RowsOf(es, "calendars")
             o == Observed(r)
             d == [o EXCEPT !.rows = rows, !.found = Exported(rows, w)]
             c == calls'[k]
  <1>1. ~Answer(k)
    BY Found DEF Answer
  <1>2. CASE \E cals : Advance(k, "events", [r EXCEPT !.cals = cals])
    BY <1>2, CalendarsNoted
  <1>3. CASE q.op = "ExportIcal" /\ Advance(k, "answered", d)
    <2> DEFINE exceptions == {x \in rows : x.row.times.series # None}
               carried == {x \in exceptions : \E s \in rows \ exceptions :
                                s.row.times.rule # None /\ s.event = x.row.times.series}
    <2>1. /\ c.at = "answered" /\ SameCall(q, c) /\ c.op = "ExportIcal" /\ c.calendar = q.calendar
          /\ c.reading.found = Exported(rows, w) /\ Windowed(c) /\ c.reading.want.window = w
          /\ Actual(db, w) \in c.reading.seen /\ Stock \in c.reading.met
      <3>1. /\ DOMAIN o = ReadingFields /\ o.want = r.want
            /\ o.seen = r.seen \union {Actual(db, w)} /\ o.met = r.met \union {Stock}
        BY ObservedIs DEF Windowed
      <3>2. /\ DOMAIN d = ReadingFields /\ d.want = r.want /\ d.found = Exported(rows, w)
            /\ d.seen = r.seen \union {Actual(db, w)} /\ d.met = r.met \union {Stock}
        <4> HIDE DEF o
        <4> QED BY <3>1 DEF ReadingFields
      <3> HIDE DEF d
      <3>3. c.at = "answered" /\ c.reading = d /\ SameCall(q, c)
        BY <1>3, Advances
      <3> QED BY <1>3, <3>2, <3>3 DEF Windowed, SameCall, SameOrder
    <2>2. /\ \A y \in rows : y.event \in es /\ Current(y)
          /\ \A e \in es : \E y \in rows : y.event = e /\ y.row = db.events[e]
      <3>1. es \subseteq IdsOf(db.events)
        BY DEF EventsOf
      <3> HIDE DEF es
      <3> QED BY <3>1, RowsOfIs DEF Current
    <2>3. \A e \in es : db.events[e].calendar = q.calendar
      BY DEF EventsOf
    <2> HIDE DEF es, rows
    <2>4. /\ \A x \in Expanded(rows \ exceptions, exceptions, w) : x \in Exported(rows, w)
          /\ \A x \in carried : \E y \in Exported(rows, w) :
                y.event = x.event /\ y.start = x.row.times.start
          /\ \A x \in Exported(rows, w) :
                x \in Expanded(rows \ exceptions, exceptions, w) \/ x.row.times.series # None
      <3> DEFINE series == {x \in rows \ exceptions : x.row.times.rule # None}
                 out == {x \in exceptions : \E s \in series : s.event = x.row.times.series}
                 As(x) == [event |-> x.event, row |-> x.row, from |-> x.from,
                           start |-> x.row.times.start]
      <3>1. Exported(rows, w) = Expanded(rows \ exceptions, exceptions, w) \union {As(x) : x \in out}
        BY DEF Exported
      <3>2. \A x : As(x).event = x.event /\ As(x).row = x.row /\ As(x).start = x.row.times.start
        OBVIOUS
      <3>3. \A x \in out : x.row.times.series # None
        OBVIOUS
      <3>4. carried \subseteq out
        OBVIOUS
      <3> HIDE DEF As, out, exceptions, carried
      <3> QED BY <3>1, <3>2, <3>3, <3>4
    <2>5. ASSUME NEW x \in Expanded(rows \ exceptions, exceptions, w)
          PROVE  Saw(c.reading, x) \/ \E e \in UNION c.reading.met : Elsewhere(c, e, x)
      <3>1. x.event \in es /\ Current(x)
        <4>1. PICK y \in rows \ exceptions : y.event = x.event /\ y.row = x.row
          BY <2>5, ExpandedIs
        <4> QED BY <2>2, <4>1 DEF Current
      <3>2. SUFFICES ASSUME ~Saw(c.reading, x) PROVE \E e \in UNION c.reading.met : Elsewhere(c, e, x)
        OBVIOUS
      <3>3. PICK e \in UNION c.reading.met : Unread(exceptions, e, x)
        <4> HIDE DEF c, exceptions
        <4>1. /\ Windowed(c) /\ x \in Expanded(rows \ exceptions, exceptions, c.reading.want.window)
              /\ Actual(db, c.reading.want.window) \in c.reading.seen /\ Stock \in c.reading.met
          BY <2>1, <2>5
        <4> QED BY <3>1, <3>2, <4>1, ReadShows
      <3>4. e.event \notin es
        <4>1. SUFFICES ASSUME e.event \in es PROVE FALSE
          OBVIOUS
        <4>2. PICK y \in rows : y.event = e.event /\ y.row = db.events[e.event]
          BY <2>2, <4>1
        <4>3. x.start \in Int
          <5>1. x.start \in Dates(x.row.times, w) /\ w \in Windows
            BY <2>1, <2>5, ExpandedIs DEF Windowed
          <5>2. x.row.times \in Times
            BY <3>1 DEF Current, Inv, Consistent, Database, IdsOf, EventRow
          <5> QED BY <5>1, <5>2, OccurrencesExpanded
        <4>4. y.row.times.series = x.event
          BY <3>3, <4>2 DEF Unread, Replaces, Current
        <4>5. x.event # None
          BY <3>1, NoneIsNoId DEF Current, Inv, Consistent, Database, IdsOf
        <4> QED BY <2>2, <3>3, <4>2, <4>4, <4>5 DEF Unread
      <3>5. Elsewhere(c, e, x)
        BY <2>1, <2>3, <3>1, <3>3, <3>4, WindowInts DEF Elsewhere, Unread, Current, EventsOf, es
      <3> QED BY <3>5
    <2>6. ASSUME NEW a \in Always(c.reading.seen), Overlaps(c, a), AskedFor(c, a), ~Withheld(c, a)
          PROVE  \E x \in c.reading.found : x.event = a.event /\ x.start = a.start
      <3>1. /\ a \in Actual(db, w) /\ a.event \in IdsOf(db.events) /\ a.row = db.events[a.event]
            /\ InWindow(a.row.times, w) /\ a.row \in EventRow /\ a.row.times \in Times
            /\ a.row.times.series # None => a.of = db.events[a.row.times.series]
        <4>1. Windowed(c) /\ Actual(db, c.reading.want.window) \in c.reading.seen
          BY <2>1
        <4>2. a \in Actual(db, c.reading.want.window) /\ Selected(c.reading.want.window, a)
          <5> HIDE DEF c
          <5> QED BY <2>6, <4>1, ReadAnswers
        <4> QED BY <2>1, <4>2 DEF Selected
      <3>2. a.row.calendar = q.calendar
        BY <2>1, <2>6 DEF AskedFor
      <3>3. a.event \in es
        BY <3>1, <3>2 DEF es, EventsOf
      <3>4. PICK y \in rows : y.event = a.event /\ y.row = a.row
        BY <2>2, <3>1, <3>3
      <3>5. CASE a.row.times.series = None
        <4>1. y \in rows \ exceptions
          BY <3>4, <3>5
        <4>2. \A z \in exceptions : Current(z)
          BY <2>2
        <4> HIDE DEF c, exceptions
        <4>3. \E x \in Expanded(rows \ exceptions, exceptions, c.reading.want.window) :
                    x.event = a.event /\ x.start = a.start
          <5>1. Windowed(c) /\ a \in Actual(db, c.reading.want.window)
            BY <2>1, <3>1
          <5> QED BY <2>6, <3>4, <4>1, <4>2, <5>1, ReadShown
        <4> QED BY <2>1, <2>4, <4>3
      <3>6. CASE a.row.times.series # None
        <4> DEFINE s == a.row.times.series
        <4>1. /\ a.of # None /\ a.of.calendar = q.calendar /\ InWindow(a.of.times, w)
              /\ a.of.times.series = None /\ a.of.times.rule # None /\ a.start = a.row.times.start
          BY <2>1, <2>6, <3>6 DEF Withheld
        <4>2. a.of = db.events[s] /\ s \in Event
          BY <3>1, <3>6 DEF Times
        <4>3. s \in es
          BY <4>1, <4>2 DEF es, EventsOf, IdsOf, Inv, Consistent, Database
        <4>4. PICK z \in rows : z.event = s /\ z.row = a.of
          BY <2>2, <4>2, <4>3
        <4>5. y \in carried
          BY <3>4, <3>6, <4>1, <4>4
        <4> HIDE DEF carried, exceptions
        <4> QED BY <2>1, <2>4, <3>4, <4>1, <4>5
      <3> QED BY <3>5, <3>6
    <2> QED BY <2>1, <2>4, <2>5, <2>6 DEF Settling, ShowsOverrides, Misses
  <1> QED BY <1>1, <1>2, <1>3, Zenon DEF ExportIcal, Reads

----------------------------------------------------------------------------
(* The instances of an event *)

MainRows(q) == {x \in q.reading.rows : x.event = q.event}
(* What is read of an event and its exceptions is what will be shown       *)
InstancesSound(c) ==
    /\ Windowed(c)
    /\ c.at = "itsCalendar" =>
        LET found == Expanded(MainRows(c), c.reading.rows, c.reading.want.window)
        IN  ShowsActual(c, found) /\ ~Misses(c, found)
    /\ c.at = "answered" => ShowsActual(c, c.reading.found) /\ ~Misses(c, c.reading.found)

(* What a query may show and miss does not depend on where it stands.      *)
LEMMA AlikeSound ==
    ASSUME NEW q, NEW c, c.op = q.op, c.op # "GetMultipleFreeBusy", c.account = q.account,
           c.event = q.event, c.calendar = q.calendar, c.reading.want = q.reading.want,
           c.reading.cals = q.reading.cals, c.reading.seen = q.reading.seen,
           c.reading.met = q.reading.met, NEW found
    PROVE  /\ ShowsActual(q, found) => ShowsActual(c, found)
           /\ Misses(c, found) => Misses(q, found)
  <1>1. \A x : Unasked(q, x) => Unasked(c, x)
    BY DEF Unasked
  <1>2. \A x : Saw(q.reading, x) => Saw(c.reading, x)
    BY DEF Saw
  <1>3. \A a : Overlaps(c, a) => Overlaps(q, a)
    BY DEF Overlaps
  <1>4. \A a : AskedFor(c, a) => AskedFor(q, a)
    BY DEF AskedFor
  <1>5. \A a : Withheld(q, a) => Withheld(c, a)
    BY DEF Withheld
  <1> QED BY <1>1, <1>2, <1>3, <1>4, <1>5 DEF ShowsActual, Misses

LEMMA InstancesSettle ==
    ASSUME Inv, NEW k \in Client, calls[k] # None, InstancesSound(calls[k]), calls'[k] # None,
           GetEventInstances(k)
    PROVE  InstancesSound(calls'[k])
  <1> DEFINE q == calls[k]
             c == calls'[k]
             r == q.reading
             w == r.want.window
             es == {e \in IdsOf(db.events) : e = q.event \/ db.events[e].times.series = q.event}
             rows == RowsOf(es, "event")
             o == Observed(r)
             d == [o EXCEPT !.rows = rows]
             found == Expanded(MainRows(q), r.rows, w)
             f == [r EXCEPT !.found = found]
  <1>0. ~Answer(k) /\ Windowed(q)
    BY Found DEF Answer, InstancesSound
  <1>1. CASE q.op = "GetEventInstances" /\ Advance(k, "itsCalendar", d)
    <2> DEFINE shown == Expanded(MainRows(c), rows, w)
    <2>1. /\ c.at = "itsCalendar" /\ c.op = "GetEventInstances" /\ c.event = q.event
          /\ c.reading.rows = rows /\ Windowed(c) /\ c.reading.want.window = w
          /\ Actual(db, w) \in c.reading.seen /\ Stock \in c.reading.met
      <3>1. /\ DOMAIN o = ReadingFields /\ o.want = r.want
            /\ o.seen = r.seen \union {Actual(db, w)} /\ o.met = r.met \union {Stock}
        BY <1>0, ObservedIs DEF Windowed
      <3>2. /\ DOMAIN d = ReadingFields /\ d.want = r.want /\ d.rows = rows
            /\ d.seen = r.seen \union {Actual(db, w)} /\ d.met = r.met \union {Stock}
        <4> HIDE DEF o, rows
        <4> QED BY <3>1 DEF ReadingFields
      <3> HIDE DEF d
      <3>3. c.at = "itsCalendar" /\ c.reading = d /\ SameCall(q, c)
        BY <1>1, Advances
      <3> QED BY <1>0, <1>1, <3>2, <3>3 DEF Windowed, SameCall, SameOrder
    <2>2. /\ \A y \in rows : Current(y)
          /\ \A e \in es : \E y \in rows : y.event = e /\ y.row = db.events[e]
      <3>1. es \subseteq IdsOf(db.events)
        OBVIOUS
      <3> HIDE DEF es
      <3> QED BY <3>1, RowsOfIs DEF Current
    <2>3. MainRows(c) = {x \in rows : x.event = q.event}
      BY <2>1 DEF MainRows
    <2> HIDE DEF rows, c
    <2>4. /\ Windowed(c) /\ Actual(db, c.reading.want.window) \in c.reading.seen
          /\ Stock \in c.reading.met /\ shown = Expanded(MainRows(c), rows, c.reading.want.window)
      BY <2>1
    <2> HIDE DEF shown
    <2>5. ASSUME NEW x \in shown PROVE Saw(c.reading, x)
      <3>1. x \in Expanded(MainRows(c), rows, c.reading.want.window)
        BY <2>4, <2>5
      <3>2. x.event = q.event /\ Current(x)
        <4>1. PICK y \in MainRows(c) : y.event = x.event /\ y.row = x.row
          BY <3>1, ExpandedIs
        <4> QED BY <2>2, <2>3, <4>1 DEF Current
      <3>3. ASSUME NEW e, Unread(rows, e, x) PROVE FALSE
        <4>1. e.event \in es
          BY <3>2, <3>3 DEF Unread, Replaces, Current
        <4>2. PICK y \in rows : y.event = e.event
          BY <2>2, <4>1
        <4> QED BY <2>2, <3>3, <4>2 DEF Unread
      <3> QED BY <2>4, <3>1, <3>2, <3>3, ReadShows
    <2>6. ASSUME NEW a \in Always(c.reading.seen), Overlaps(c, a), AskedFor(c, a), ~Withheld(c, a)
          PROVE  \E x \in shown : x.event = a.event /\ x.start = a.start
      <3>1. a \in Actual(db, c.reading.want.window) /\ Selected(c.reading.want.window, a)
        BY <2>4, <2>6, ReadAnswers
      <3>2. a.event = q.event
        BY <2>1, <2>6 DEF AskedFor
      <3>3. PICK y \in rows : y.event = a.event /\ y.row = a.row
        BY <2>2, <3>1, <3>2 DEF Selected
      <3>4. y \in MainRows(c)
        BY <2>3, <3>2, <3>3
      <3> QED BY <2>2, <2>4, <2>6, <3>1, <3>3, <3>4, ReadShown
    <2>7. ShowsActual(c, shown) /\ ~Misses(c, shown)
      BY <2>5, <2>6 DEF ShowsActual, Misses
    <2> QED BY <2>1, <2>4, <2>7 DEF InstancesSound, c
  <1>2. CASE q.op = "GetEventInstances" /\ q.at = "itsCalendar" /\ Advance(k, "answered", f)
    <2> HIDE DEF found
    <2>1. /\ DOMAIN f = ReadingFields /\ f.want = r.want /\ f.cals = r.cals /\ f.seen = r.seen
          /\ f.met = r.met /\ f.found = found
      BY <1>0 DEF Windowed, ReadingFields
    <2> HIDE DEF f
    <2>2. c.at = "answered" /\ c.reading = f /\ SameCall(q, c)
      BY <1>2, Advances
    <2>3. ShowsActual(q, found) /\ ~Misses(q, found)
      BY <1>2 DEF InstancesSound, found
    <2>4. /\ c.op = q.op /\ c.op # "GetMultipleFreeBusy" /\ c.account = q.account
          /\ c.event = q.event /\ c.calendar = q.calendar
          /\ c.reading.want = q.reading.want /\ c.reading.cals = q.reading.cals
          /\ c.reading.seen = q.reading.seen /\ c.reading.met = q.reading.met
          /\ c.reading.found = found
      BY <1>2, <2>1, <2>2 DEF SameCall, SameOrder
    <2>5. ShowsActual(c, found) /\ ~Misses(c, found)
      <3> HIDE DEF c, q
      <3> QED BY <2>3, <2>4, AlikeSound
    <2> QED BY <1>0, <2>1, <2>2, <2>4, <2>5 DEF InstancesSound, Windowed
  <1> QED BY <1>0, <1>1, <1>2, Zenon DEF GetEventInstances, Reads, MainRows

----------------------------------------------------------------------------
(* The events of users *)

(* A read that leaves the request under way keeps what it found as rows.   *)
ReadOn(q, c, rows) ==
    /\ SameCall(q, c) /\ Windowed(c)
    /\ c.reading.want = q.reading.want /\ c.reading.cals = q.reading.cals
    /\ c.reading.rows = rows /\ c.reading.found = q.reading.found
    /\ c.reading.seen = q.reading.seen \union {Actual(db, q.reading.want.window)}
    /\ c.reading.met = q.reading.met \union {Stock}
LEMMA ReadGoesOn ==
    ASSUME Inv, NEW k \in Client, calls[k] # None, Windowed(calls[k]), NEW step, NEW rows,
           Advance(k, step, [Observed(calls[k].reading) EXCEPT !.rows = rows])
    PROVE  calls'[k].at = step /\ ReadOn(calls[k], calls'[k], rows)
  <1> DEFINE q == calls[k]
             c == calls'[k]
             w == q.reading.want.window
             o == Observed(q.reading)
             r == [o EXCEPT !.rows = rows]
  <1>1. /\ DOMAIN o = ReadingFields /\ o.want = q.reading.want /\ o.cals = q.reading.cals
        /\ o.found = q.reading.found
        /\ o.seen = q.reading.seen \union {Actual(db, w)} /\ o.met = q.reading.met \union {Stock}
    BY ObservedIs DEF Windowed
  <1> HIDE DEF o
  <1>2. /\ DOMAIN r = ReadingFields /\ r.want = q.reading.want /\ r.cals = q.reading.cals
        /\ r.rows = rows /\ r.found = q.reading.found
        /\ r.seen = q.reading.seen \union {Actual(db, w)} /\ r.met = q.reading.met \union {Stock}
    BY <1>1 DEF ReadingFields
  <1>3. Advance(k, step, r)
    BY DEF o
  <1> HIDE DEF r
  <1>4. c.at = step /\ c.reading = r /\ SameCall(q, c)
    BY <1>3, Advances
  <1> QED BY <1>2, <1>4 DEF ReadOn, Windowed

(* The rows that the first two statements find are of what was asked for,  *)
(* and carry the mark of the statement.                                    *)
Asks(q, row) ==
    /\ row.user \in q.reading.want.users /\ row.account = q.account
    /\ row.times.busy \in q.reading.want.busy /\ row.times.status \in q.reading.want.statuses
Marked(x) == x = [event |-> x.event, row |-> x.row, from |-> x.from]
Tagged(rows) ==
    \A x \in rows :
        /\ Marked(x)
        /\ \/ x.from = "once" /\ x.row.times.rule = None /\ x.row.times.original = None
           \/ x.from = "recurring" /\ x.row.times.rule # None
Fetched(rows, e, from) == \E y \in rows : y.event = e /\ y.from = from
FetchedRow(rows, a, from) ==
    \E y \in rows : y.event = a.event /\ y.row = a.row /\ y.from = from
OnceRead(q) ==
    \E read \in q.reading.seen : \A a \in read :
        Overlaps(q, a) /\ Asks(q, a.row) /\ a.row.times.rule = None /\ a.row.times.original = None
            => FetchedRow(q.reading.rows, a, "once")
RecurringRead(q) ==
    \E read \in q.reading.seen : \A a \in read :
        Overlaps(q, a) =>
            /\ Asks(q, a.row) /\ a.row.times.rule # None
                => FetchedRow(q.reading.rows, a, "recurring")
            /\ /\ a.row.times.series # None /\ a.of # None
               /\ Recurs(a.of.times, q.reading.want.window) /\ Asks(q, a.of)
               => Fetched(q.reading.rows, a.row.times.series, "recurring")
RangeSound(c) ==
    /\ Windowed(c)
    /\ c.at \notin {"recurring", "once", "exceptions", "answered"} => c.reading.rows = {}
    /\ c.at \in {"recurring", "once", "exceptions"} => Tagged(c.reading.rows)
    /\ c.at \in {"recurring", "exceptions"} => OnceRead(c)
    /\ c.at \in {"once", "exceptions"} => RecurringRead(c)
    /\ c.at = "answered" =>
        /\ ShowsActual(c, c.reading.found) /\ ~Misses(c, c.reading.found)
        /\ FoundOnce(c.reading.rows)

(* What was read stays so as other statements read more.                   *)
LEMMA ReadsKept ==
    ASSUME NEW q, NEW c, c.account = q.account, c.reading.want = q.reading.want,
           q.reading.rows \subseteq c.reading.rows, q.reading.seen \subseteq c.reading.seen
    PROVE  (OnceRead(q) => OnceRead(c)) /\ (RecurringRead(q) => RecurringRead(c))
  <1>1. /\ \A a : Overlaps(c, a) => Overlaps(q, a)
        /\ \A row : Asks(c, row) => Asks(q, row)
    BY DEF Overlaps, Asks
  <1>2. /\ \A a, from : FetchedRow(q.reading.rows, a, from) => FetchedRow(c.reading.rows, a, from)
        /\ \A e, from : Fetched(q.reading.rows, e, from) => Fetched(c.reading.rows, e, from)
    BY DEF FetchedRow, Fetched
  <1>3. OnceRead(q) => OnceRead(c)
    BY <1>1, <1>2 DEF OnceRead
  <1>4. RecurringRead(q) => RecurringRead(c)
    BY <1>1, <1>2 DEF RecurringRead
  <1> QED BY <1>3, <1>4

LEMMA RowsMarked ==
    ASSUME NEW es, NEW from
    PROVE  \A x \in RowsOf(es, from) : Marked(x)
  BY DEF RowsOf, Marked

(* find_events_for_users_for_timespan                                      *)
LEMMA OnceReads ==
    ASSUME Inv, NEW k \in Client, calls[k] # None, Windowed(calls[k]), calls'[k] # None,
           NEW es, \A e : e \in es <=>
                /\ e \in IdsOf(db.events) /\ Asks(calls[k], db.events[e])
                /\ HappensOnce(db.events[e].times, calls[k].reading.want.window),
           ReadOn(calls[k], calls'[k], calls[k].reading.rows \union RowsOf(es, "once"))
    PROVE  OnceRead(calls'[k]) /\ Tagged(RowsOf(es, "once"))
  <1> DEFINE q == calls[k]
             c == calls'[k]
             w == q.reading.want.window
             rows == RowsOf(es, "once")
  <1>1. /\ \A x \in rows : Marked(x) /\ x.event \in es /\ x.row = db.events[x.event] /\ x.from = "once"
        /\ \A e \in es : \E y \in rows : y.event = e /\ y.row = db.events[e] /\ y.from = "once"
    BY RowsOfIs, RowsMarked
  <1>2. Tagged(rows)
    <2>1. ASSUME NEW x \in rows PROVE x.row.times.rule = None /\ x.row.times.original = None
      BY <1>1 DEF HappensOnce
    <2> HIDE DEF rows
    <2> QED BY <1>1, <2>1 DEF Tagged
  <1>3. /\ Windowed(c) /\ c.reading.want = q.reading.want /\ c.account = q.account
        /\ c.reading.rows = q.reading.rows \union rows /\ Actual(db, w) \in c.reading.seen
    BY DEF ReadOn, SameCall, SameOrder
  <1>4. ASSUME NEW a \in Actual(db, w), Overlaps(c, a), Asks(c, a.row), a.row.times.rule = None,
               a.row.times.original = None
        PROVE  FetchedRow(c.reading.rows, a, "once")
    <2>1. Selected(w, a)
      BY <1>3, <1>4, ActualSelected DEF Overlaps, Windowed, Inv, Consistent
    <2>2. a.event \in es
      BY <1>3, <1>4, <2>1 DEF Selected, Asks, HappensOnce
    <2>3. PICK y \in rows : y.event = a.event /\ y.row = db.events[a.event] /\ y.from = "once"
      BY <1>1, <2>2
    <2> QED BY <1>3, <2>1, <2>3 DEF FetchedRow, Selected
  <1> HIDE DEF c, w
  <1>5. OnceRead(c)
    BY <1>3, <1>4 DEF OnceRead
  <1> QED BY <1>2, <1>5 DEF c

(* find_recurring_events_for_users_for_timespan                            *)
LEMMA RecurringReads ==
    ASSUME Inv, NEW k \in Client, calls[k] # None, Windowed(calls[k]), calls'[k] # None,
           NEW es, \A e : e \in es <=>
                /\ e \in IdsOf(db.events) /\ Asks(calls[k], db.events[e])
                /\ Recurs(db.events[e].times, calls[k].reading.want.window),
           ReadOn(calls[k], calls'[k], calls[k].reading.rows \union RowsOf(es, "recurring"))
    PROVE  RecurringRead(calls'[k]) /\ Tagged(RowsOf(es, "recurring"))
  <1> DEFINE q == calls[k]
             c == calls'[k]
             w == q.reading.want.window
             rows == RowsOf(es, "recurring")
  <1>1. /\ \A x \in rows : /\ Marked(x) /\ x.event \in es /\ x.row = db.events[x.event]
                           /\ x.from = "recurring"
        /\ \A e \in es : \E y \in rows : y.event = e /\ y.row = db.events[e] /\ y.from = "recurring"
    BY RowsOfIs, RowsMarked
  <1>2. Tagged(rows)
    <2>1. ASSUME NEW x \in rows PROVE x.row.times.rule # None
      BY <1>1 DEF Recurs
    <2> HIDE DEF rows
    <2> QED BY <1>1, <2>1 DEF Tagged
  <1>3. /\ Windowed(c) /\ c.reading.want = q.reading.want /\ c.account = q.account
        /\ c.reading.rows = q.reading.rows \union rows /\ Actual(db, w) \in c.reading.seen
    BY DEF ReadOn, SameCall, SameOrder
  <1>4. ASSUME NEW a \in Actual(db, w), Overlaps(c, a)
        PROVE  /\ Asks(c, a.row) /\ a.row.times.rule # None => FetchedRow(c.reading.rows, a, "recurring")
               /\ /\ a.row.times.series # None /\ a.of # None
                  /\ Recurs(a.of.times, c.reading.want.window) /\ Asks(c, a.of)
                  => Fetched(c.reading.rows, a.row.times.series, "recurring")
    <2>1. Selected(w, a)
      BY <1>3, <1>4, ActualSelected DEF Overlaps, Windowed, Inv, Consistent
    <2>2. ASSUME Asks(c, a.row), a.row.times.rule # None
          PROVE  FetchedRow(c.reading.rows, a, "recurring")
      <3>1. a.event \in es
        BY <1>3, <2>1, <2>2 DEF Selected, Asks
      <3>2. PICK y \in rows : y.event = a.event /\ y.row = db.events[a.event] /\ y.from = "recurring"
        BY <1>1, <3>1
      <3> QED BY <1>3, <2>1, <3>2 DEF FetchedRow, Selected
    <2>3. ASSUME a.row.times.series # None, a.of # None, Recurs(a.of.times, c.reading.want.window),
                 Asks(c, a.of)
          PROVE  Fetched(c.reading.rows, a.row.times.series, "recurring")
      <3>1. a.row.times.series \in Event /\ a.of = db.events[a.row.times.series]
        BY <2>1, <2>3 DEF Selected, Times
      <3>2. a.row.times.series \in IdsOf(db.events)
        BY <2>3, <3>1 DEF IdsOf, Inv, Consistent, Database
      <3>3. a.row.times.series \in es
        BY <1>3, <2>3, <3>1, <3>2 DEF Asks
      <3>4. PICK y \in rows : y.event = a.row.times.series /\ y.from = "recurring"
        BY <1>1, <3>3
      <3> QED BY <1>3, <3>4 DEF Fetched
    <2> QED BY <2>2, <2>3
  <1> HIDE DEF c, w
  <1>5. RecurringRead(c)
    BY <1>3, <1>4 DEF RecurringRead
  <1> QED BY <1>2, <1>5 DEF c

(* What the third statement finds completes the answer                     *)
(* (find_by_recurring_event_ids_for_timespan).                             *)
LastRead(q, c, series, es, exceptions) ==
    LET w == q.reading.want.window IN
    /\ SameCall(q, c) /\ Windowed(q) /\ Windowed(c) /\ q.op = "GetEventsForUsersInTimeRange"
    /\ Tagged(q.reading.rows) /\ OnceRead(q) /\ RecurringRead(q)
    /\ c.reading.want = q.reading.want
    /\ c.reading.seen = q.reading.seen \union {Actual(db, w)}
    /\ c.reading.met = q.reading.met \union {Stock}
    /\ \A y \in q.reading.rows : y.from = "recurring" => y.event \in series
    /\ \A e : e \in es <=> e \in IdsOf(db.events) /\ Overrides(db.events[e].times, series, w)
    /\ exceptions = RowsOf(es, "exceptions")
    /\ c.reading.rows = q.reading.rows \union exceptions
    /\ c.reading.found = Expanded(c.reading.rows, exceptions, w)
LEMMA ExceptionsComplete ==
    ASSUME Inv, NEW q, NEW c, NEW series, NEW es, NEW exceptions,
           LastRead(q, c, series, es, exceptions)
    PROVE  /\ ShowsActual(c, c.reading.found) /\ ~Misses(c, c.reading.found)
           /\ FoundOnce(c.reading.rows)
  <1> DEFINE w == q.reading.want.window
             rows == c.reading.rows
             found == c.reading.found
  <1>1. /\ \A x \in exceptions :
                /\ Marked(x) /\ x.event \in es /\ x.row = db.events[x.event]
                /\ x.from = "exceptions" /\ Current(x)
        /\ \A e \in es : \E y \in exceptions : y.event = e /\ y.row = db.events[e]
    <2>1. exceptions = RowsOf(es, "exceptions") /\ \A e \in es : e \in IdsOf(db.events)
      BY DEF LastRead
    <2> QED BY <2>1, RowsOfIs, RowsMarked DEF Current
  <1>2. \A e : e \in es <=> e \in IdsOf(db.events) /\ Overrides(db.events[e].times, series, w)
    BY DEF LastRead
  <1>3. /\ \A y \in q.reading.rows : y.from = "recurring" => y.event \in series
        /\ Tagged(q.reading.rows) /\ rows = q.reading.rows \union exceptions
        /\ q.reading.seen \subseteq c.reading.seen
    BY DEF LastRead
  <1>4. \A x \in exceptions : x.row.times.series # None
    BY <1>1, <1>2 DEF Overrides
  <1>5. /\ Actual(db, c.reading.want.window) \in c.reading.seen /\ Stock \in c.reading.met
        /\ c.op = "GetEventsForUsersInTimeRange" /\ c.account = q.account
        /\ c.reading.want.window = w /\ w \in Windows
        /\ found = Expanded(rows, exceptions, c.reading.want.window)
    BY DEF LastRead, SameCall, SameOrder, Windowed
  <1>9. c.reading.want = q.reading.want /\ Windowed(c)
    BY DEF LastRead
  <1> HIDE DEF w
  <1>6. ASSUME NEW x \in found, [event |-> x.event, row |-> x.row] \in Always(c.reading.met)
        PROVE  Saw(c.reading, x) \/ Unasked(c, x)
    <2>1. Current(x)
      <3>1. [event |-> x.event, row |-> x.row] \in Stock
        BY <1>5, <1>6 DEF Always
      <3> QED BY <3>1 DEF Stock, Current
    <2>2. SUFFICES ASSUME ~Saw(c.reading, x) PROVE Unasked(c, x)
      OBVIOUS
    <2>3. PICK e \in UNION c.reading.met : Unread(exceptions, e, x)
      <3>1. x \in Expanded(rows, exceptions, c.reading.want.window)
        BY <1>5, <1>6
      <3> HIDE DEF rows, found
      <3> QED BY <1>5, <1>9, <2>1, <2>2, <3>1, ReadShows
    <2>4. SUFFICES ASSUME x.row.times.series = None, x.row.times.rule # None PROVE FALSE
      BY <1>5, <2>3 DEF Unasked, Unread
    <2>5. PICK y \in rows : y.event = x.event /\ y.row = x.row
      BY <1>5, <1>6, ExpandedIs
    <2>6. y \in q.reading.rows /\ y.from = "recurring"
      BY <1>3, <1>4, <2>4, <2>5 DEF Tagged
    <2>7. x.event \in series
      BY <1>3, <2>5, <2>6
    <2>8. x.start \in Int /\ w.start <= x.start /\ x.start <= w.end
      <3>1. x.row.times \in Times
        BY <2>1 DEF Current, Inv, Consistent, Database, IdsOf, EventRow
      <3>2. x.start \in Dates(x.row.times, w)
        BY <1>5, <1>6, ExpandedIs
      <3> QED BY <1>5, <2>4, <3>1, <3>2, OccurrencesExpanded
    <2>9. x.event # None
      BY <2>1, NoneIsNoId DEF Current, Inv, Consistent, Database, IdsOf
    <2>10. Overrides(e.row.times, series, w)
      BY <2>3, <2>7, <2>8, <2>9, NoneIsNoTime DEF Unread, Replaces, Overrides
    <2>11. e.event \in es
      BY <1>2, <2>3, <2>10 DEF Unread, Current
    <2> QED BY <1>1, <2>3, <2>11 DEF Unread
  <1>7. ASSUME NEW a \in Always(c.reading.seen), Overlaps(c, a), AskedFor(c, a), ~Withheld(c, a)
        PROVE  \E x \in found : x.event = a.event /\ x.start = a.start
    <2>1. a \in Actual(db, c.reading.want.window) /\ Selected(c.reading.want.window, a)
      BY <1>5, <1>7, <1>9, ReadAnswers
    <2>2. Overlaps(q, a) /\ Asks(q, a.row)
      BY <1>5, <1>7, <1>9 DEF Overlaps, AskedFor, Asks
    <2>3. SUFFICES \E y \in rows : y.event = a.event /\ y.row = a.row
      <3>1. SUFFICES ASSUME NEW y \in rows, y.event = a.event, y.row = a.row
                     PROVE  \E x \in found : x.event = a.event /\ x.start = a.start
        OBVIOUS
      <3>2. \A z \in exceptions : Current(z)
        BY <1>1
      <3> HIDE DEF rows, found
      <3>3. \E x \in Expanded(rows, exceptions, c.reading.want.window) :
                x.event = a.event /\ x.start = a.start
        <4>1. /\ Overlaps(c, a) /\ ~Withheld(c, a)
              /\ a \in Actual(db, c.reading.want.window)
          BY <1>7, <2>1
        <4>2. y.event = a.event /\ y.row = a.row
          BY <3>1
        <4> QED BY <1>9, <3>2, <4>1, <4>2, ReadShown
      <3> QED BY <1>5, <3>3
    <2>4. CASE a.row.times.rule = None /\ a.row.times.original = None
      <3>1. PICK read \in q.reading.seen : \A b \in read :
                Overlaps(q, b) /\ Asks(q, b.row) /\ b.row.times.rule = None
                /\ b.row.times.original = None => FetchedRow(q.reading.rows, b, "once")
        BY DEF OnceRead, LastRead
      <3>2. a \in read
        BY <1>3, <1>7, <3>1 DEF Always
      <3> QED BY <1>3, <2>2, <2>4, <3>1, <3>2 DEF FetchedRow
    <2>5. PICK read \in q.reading.seen : \A b \in read :
            Overlaps(q, b) =>
                /\ Asks(q, b.row) /\ b.row.times.rule # None
                    => FetchedRow(q.reading.rows, b, "recurring")
                /\ /\ b.row.times.series # None /\ b.of # None
                   /\ Recurs(b.of.times, q.reading.want.window) /\ Asks(q, b.of)
                   => Fetched(q.reading.rows, b.row.times.series, "recurring")
      BY DEF RecurringRead, LastRead
    <2>6. a \in read
      BY <1>3, <1>7, <2>5 DEF Always
    <2>7. CASE a.row.times.rule # None
      BY <1>3, <2>2, <2>5, <2>6, <2>7 DEF FetchedRow
    <2>8. CASE a.row.times.rule = None /\ a.row.times.original # None
      <3>1. a.of # None /\ Recurs(a.of.times, q.reading.want.window) /\ Asks(q, a.of)
        BY <1>5, <1>7, <1>9, <2>8 DEF Withheld, Asks
      <3>2. a.row.times.series # None
        <4>1. a.of = SeriesOf(db, a.event)
          BY <2>1, ActualIs
        <4> QED BY <2>1, <3>1, <4>1 DEF Selected, SeriesOf
      <3>3. PICK y \in q.reading.rows : y.event = a.row.times.series /\ y.from = "recurring"
        BY <2>2, <2>5, <2>6, <3>1, <3>2 DEF Fetched
      <3>4. Overrides(a.row.times, series, w)
        BY <1>3, <1>5, <2>1, <2>8, <3>2, <3>3 DEF Overrides, Selected
      <3>5. a.event \in es
        BY <1>2, <2>1, <3>4 DEF Selected
      <3> QED BY <1>1, <1>3, <2>1, <3>5 DEF Selected
    <2> QED BY <2>4, <2>7, <2>8
  <1>8. FoundOnce(rows)
    <2>1. SUFFICES ASSUME NEW x \in rows, NEW y \in rows, x.event = y.event, x.row = y.row, x # y
                   PROVE  /\ x.row.times.series # None
                          /\ x.row.times.original = None \/ x.row.times.rule # None
      BY DEF FoundOnce
    <2>2. \A z \in rows : Marked(z)
      BY <1>1, <1>3 DEF Tagged
    <2>3. x.from # y.from
      BY <2>1, <2>2 DEF Marked
    <2>4. CASE x \in exceptions \/ y \in exceptions
      <3>1. x.row.times.series # None
        BY <1>4, <2>1, <2>4
      <3>2. ASSUME NEW z \in {x, y}, z \in q.reading.rows
            PROVE  z.row.times.original = None \/ z.row.times.rule # None
        BY <1>3, <3>2 DEF Tagged
      <3>3. x \in q.reading.rows \/ y \in q.reading.rows
        BY <1>1, <1>3, <2>3
      <3> QED BY <2>1, <3>1, <3>2, <3>3
    <2>5. CASE x \in q.reading.rows /\ y \in q.reading.rows
      BY <1>3, <2>1, <2>3, <2>5 DEF Tagged
    <2> QED BY <1>3, <2>4, <2>5
  <1> QED BY <1>6, <1>7, <1>8 DEF ShowsActual, Misses

(* What the events of users are asked for, and read of, stays the same     *)
(* from one statement to the next.                                         *)
LEMMA TaggedTogether ==
    ASSUME NEW rows, NEW more, Tagged(rows), Tagged(more) PROVE Tagged(rows \union more)
  BY DEF Tagged

LEMMA RangeSettles ==
    ASSUME Inv, NEW k \in Client, calls[k] # None, RangeSound(calls[k]), calls'[k] # None,
           GetEventsForUsersInTimeRange(k)
    PROVE  RangeSound(calls'[k])
  <1> DEFINE q == calls[k]
             c == calls'[k]
             r == q.reading
             w == r.want.window
             once == {e \in IdsOf(db.events) : Asks(q, db.events[e]) /\ HappensOnce(db.events[e].times, w)}
             again == {e \in IdsOf(db.events) : Asks(q, db.events[e]) /\ Recurs(db.events[e].times, w)}
             series == {x.event : x \in {y \in r.rows : y.from = "recurring"}}
             others == {e \in IdsOf(db.events) : Overrides(db.events[e].times, series, w)}
             exceptions == RowsOf(others, "exceptions")
             Reading1(es, from) == [Observed(r) EXCEPT !.rows = r.rows \union RowsOf(es, from)]
  <1>1. ~Answer(k) /\ Windowed(q)
    BY Found DEF Answer, RangeSound
  <1>2. Observed(r).rows = r.rows
    BY <1>1, ObservedIs DEF Windowed
  <1>3. /\ Tagged(r.rows) \/ q.at \notin {"both", "recurring", "once", "exceptions"}
        /\ q.at = "recurring" => OnceRead(q)
        /\ q.at = "once" => RecurringRead(q)
        /\ q.at = "exceptions" => OnceRead(q) /\ RecurringRead(q)
    BY DEF RangeSound, Tagged
  <1>4. CASE \E cals : q.at = "find" /\ Advance(k, "both", [r EXCEPT !.cals = cals])
    <2>1. PICK cals : Advance(k, "both", [r EXCEPT !.cals = cals])
      BY <1>4
    <2> DEFINE d == [r EXCEPT !.cals = cals]
    <2>2. DOMAIN d = ReadingFields /\ d.want = r.want /\ d.rows = r.rows
      BY <1>1 DEF Windowed, ReadingFields
    <2> HIDE DEF d
    <2>3. c.at = "both" /\ c.reading = d
      BY <2>1, Advances DEF d
    <2> QED BY <1>1, <1>4, <2>2, <2>3 DEF RangeSound, Windowed
  <1>5. CASE /\ q.at \in {"both", "once"}
             /\ Advance(k, IF q.at = "both" THEN "recurring" ELSE "exceptions", Reading1(once, "once"))
    <2>1. /\ c.at = IF q.at = "both" THEN "recurring" ELSE "exceptions"
          /\ ReadOn(q, c, r.rows \union RowsOf(once, "once"))
      BY <1>1, <1>5, ReadGoesOn
    <2>2. OnceRead(c) /\ Tagged(RowsOf(once, "once"))
      <3>1. \A e : e \in once <=> /\ e \in IdsOf(db.events) /\ Asks(q, db.events[e])
                                  /\ HappensOnce(db.events[e].times, w)
        OBVIOUS
      <3> HIDE DEF once
      <3> QED BY <1>1, <2>1, <3>1, OnceReads
    <2> HIDE DEF once
    <2>3. Tagged(c.reading.rows) /\ Windowed(c)
      BY <1>3, <1>5, <2>1, <2>2, TaggedTogether DEF ReadOn
    <2>4. q.at = "once" => RecurringRead(c)
      <3>1. /\ c.account = q.account /\ c.reading.want = r.want /\ r.rows \subseteq c.reading.rows
            /\ r.seen \subseteq c.reading.seen
        BY <2>1 DEF ReadOn, SameCall, SameOrder
      <3> HIDE DEF c
      <3> QED BY <1>3, <3>1, ReadsKept
    <2> QED BY <1>5, <2>1, <2>2, <2>3, <2>4 DEF RangeSound
  <1>6. CASE /\ q.at \in {"both", "recurring"}
             /\ Advance(k, IF q.at = "both" THEN "once" ELSE "exceptions", Reading1(again, "recurring"))
    <2>1. /\ c.at = IF q.at = "both" THEN "once" ELSE "exceptions"
          /\ ReadOn(q, c, r.rows \union RowsOf(again, "recurring"))
      BY <1>1, <1>6, ReadGoesOn
    <2>2. RecurringRead(c) /\ Tagged(RowsOf(again, "recurring"))
      <3>1. \A e : e \in again <=> /\ e \in IdsOf(db.events) /\ Asks(q, db.events[e])
                                   /\ Recurs(db.events[e].times, w)
        OBVIOUS
      <3> HIDE DEF again
      <3> QED BY <1>1, <2>1, <3>1, RecurringReads
    <2> HIDE DEF again
    <2>3. Tagged(c.reading.rows) /\ Windowed(c)
      BY <1>3, <1>6, <2>1, <2>2, TaggedTogether DEF ReadOn
    <2>4. q.at = "recurring" => OnceRead(c)
      <3>1. /\ c.account = q.account /\ c.reading.want = r.want /\ r.rows \subseteq c.reading.rows
            /\ r.seen \subseteq c.reading.seen
        BY <2>1 DEF ReadOn, SameCall, SameOrder
      <3> HIDE DEF c
      <3> QED BY <1>3, <3>1, ReadsKept
    <2> QED BY <1>6, <2>1, <2>2, <2>3, <2>4 DEF RangeSound
  <1>7. CASE /\ q.at = "exceptions" /\ q.op = "GetEventsForUsersInTimeRange"
             /\ AnswerFrom(k, Observed(r), r.rows \union exceptions, exceptions)
    <2>1. /\ \A y \in r.rows : y.from = "recurring" => y.event \in series
          /\ \A e : e \in others <=> e \in IdsOf(db.events) /\ Overrides(db.events[e].times, series, w)
          /\ exceptions = RowsOf(others, "exceptions")
      <3>1. ASSUME NEW y \in r.rows, y.from = "recurring" PROVE y.event \in series
        <4>1. y \in {z \in r.rows : z.from = "recurring"}
          BY <3>1
        <4> QED BY <4>1, Zenon
      <3>2. \A e : e \in others <=>
                e \in IdsOf(db.events) /\ Overrides(db.events[e].times, series, w)
        <4> HIDE DEF series
        <4> QED OBVIOUS
      <3> HIDE DEF series, others
      <3> QED BY <3>1, <3>2
    <2> HIDE DEF series, others, exceptions
    <2>2. /\ c.at = "answered" /\ SameCall(q, c) /\ Windowed(c) /\ c.reading.want = r.want
          /\ c.reading.rows = r.rows \union exceptions
          /\ c.reading.found = Expanded(r.rows \union exceptions, exceptions, w)
          /\ c.reading.seen = r.seen \union {Actual(db, w)} /\ c.reading.met = r.met \union {Stock}
      <3> DEFINE rows == r.rows \union exceptions
      <3>1. AnswerFrom(k, Observed(r), rows, exceptions)
        BY <1>7
      <3> HIDE DEF rows
      <3>2. /\ c.at = "answered" /\ SameCall(q, c) /\ Windowed(c) /\ c.reading.want = r.want
            /\ c.reading.rows = rows /\ c.reading.found = Expanded(rows, exceptions, w)
            /\ c.reading.seen = r.seen \union {Actual(db, w)} /\ c.reading.met = r.met \union {Stock}
        BY <1>1, <3>1, AnsweredIs
      <3> QED BY <3>2 DEF rows
    <2>3. LastRead(q, c, series, others, exceptions)
      BY <1>1, <1>3, <1>7, <2>1, <2>2 DEF LastRead
    <2>4. ShowsActual(c, c.reading.found) /\ ~Misses(c, c.reading.found) /\ FoundOnce(c.reading.rows)
      <3> HIDE DEF c, q
      <3> QED BY <2>3, ExceptionsComplete
    <2> QED BY <2>2, <2>4 DEF RangeSound
  <1> QED BY <1>1, <1>2, <1>4, <1>5, <1>6, <1>7
        DEF GetEventsForUsersInTimeRange, Reads, Asks

----------------------------------------------------------------------------
(* The free/busy of several users *)

Part(x) == DOMAIN x = {"calendar", "user", "read", "found"}
Parts(rows) ==
    /\ \A x \in rows : Part(x) /\ x.read \in BOOLEAN
    /\ \A x, y \in rows : x.calendar = y.calendar => x = y
ShownOf(q, found, a) == \E x \in found : x.event = a.event /\ x.start = a.start
PartShows(q, part) ==
    \A x \in part.found : Saw(q.reading, x) \/ \E e \in UNION q.reading.met : Elsewhere(q, e, x)
(* One of the reads found what took place in the calendar of a part.       *)
PartRead(q, part) ==
    \E read \in q.reading.seen : \A a \in read :
        Overlaps(q, a) /\ InReach(q, a) /\ a.row.calendar = part.calendar =>
            ShownOf(q, part.found, a)
MultiSound(c, failed) ==
    /\ Windowed(c)
    /\ c.at = "events" =>
        /\ Parts(c.reading.rows)
        /\ \A part \in c.reading.rows :
            /\ PartShows(c, part)
            /\ failed = 0 /\ part.read => PartRead(c, part)
    /\ c.at = "answered" =>
        /\ ShowsOverrides(c, c.reading.found)
        /\ failed = 0 => ~Misses(c, c.reading.found)

(* What a part shows and has read does not change when another is read.    *)
LEMMA PartsKept ==
    ASSUME NEW q, NEW c, c.op = q.op, c.reading.want = q.reading.want,
           q.reading.seen \subseteq c.reading.seen, q.reading.met \subseteq c.reading.met, NEW part
    PROVE  (PartShows(q, part) => PartShows(c, part)) /\ (PartRead(q, part) => PartRead(c, part))
  <1>1. /\ \A x : Saw(q.reading, x) => Saw(c.reading, x)
        /\ \A e \in UNION q.reading.met : e \in UNION c.reading.met
    BY DEF Saw
  <1>2. \A e, x : Elsewhere(q, e, x) => Elsewhere(c, e, x)
    BY DEF Elsewhere
  <1>3. \A a : (Overlaps(c, a) => Overlaps(q, a)) /\ (InReach(c, a) => InReach(q, a))
               /\ (ShownOf(q, part.found, a) => ShownOf(c, part.found, a))
    BY DEF Overlaps, InReach, ShownOf
  <1>4. PartShows(q, part) => PartShows(c, part)
    BY <1>1, <1>2 DEF PartShows
  <1>5. PartRead(q, part) => PartRead(c, part)
    BY <1>3 DEF PartRead
  <1> QED BY <1>4, <1>5

(* The events of one calendar                                              *)
PartOf(c, part, es) ==
    LET w == c.reading.want.window IN
    /\ es = {e \in EventsOf(db, {part.calendar}) : InWindow(db.events[e].times, w)}
    /\ part.found = Expanded(RowsOf(es, "calendars"), RowsOf(es, "calendars"), w)
LEMMA PartReads ==
    ASSUME Inv, NEW c, Windowed(c),
           Actual(db, c.reading.want.window) \in c.reading.seen, Stock \in c.reading.met,
           NEW part, NEW es, PartOf(c, part, es)
    PROVE  PartShows(c, part) /\ PartRead(c, part)
  <1> DEFINE w == c.reading.want.window
             rows == RowsOf(es, "calendars")
             found == part.found
  <1>1. /\ \A e : e \in es => /\ e \in IdsOf(db.events) /\ InWindow(db.events[e].times, w)
                              /\ db.events[e].calendar = part.calendar
        /\ \A e \in IdsOf(db.events) :
                InWindow(db.events[e].times, w) /\ db.events[e].calendar = part.calendar => e \in es
    BY DEF EventsOf, PartOf
  <1>7. found = Expanded(rows, rows, w)
    BY DEF PartOf
  <1> HIDE DEF w
  <1>2. /\ \A y \in rows : y.event \in es /\ Current(y)
        /\ \A e \in es : \E y \in rows : y.event = e /\ y.row = db.events[e]
    BY <1>1, RowsOfIs DEF Current
  <1> HIDE DEF rows, found
  <1>3. ASSUME NEW x \in found
        PROVE  Saw(c.reading, x) \/ \E e \in UNION c.reading.met : Elsewhere(c, e, x)
    <2>1. x \in Expanded(rows, rows, c.reading.want.window)
      BY <1>3, <1>7 DEF w
    <2>2. x.event \in es /\ Current(x)
      BY <1>2, <2>1, ExpandedIs DEF Current
    <2>3. SUFFICES ASSUME ~Saw(c.reading, x) PROVE \E e \in UNION c.reading.met : Elsewhere(c, e, x)
      OBVIOUS
    <2>4. PICK e \in UNION c.reading.met : Unread(rows, e, x)
      BY <2>1, <2>2, <2>3, ReadShows
    <2>5. e.event \notin es
      BY <1>2, <2>4 DEF Unread
    <2>6. Elsewhere(c, e, x)
      BY <1>1, <2>2, <2>4, <2>5, WindowInts DEF Elsewhere, Unread, Current, w
    <2> QED BY <2>6
  <1>4. ASSUME NEW a \in Actual(db, w), Overlaps(c, a), InReach(c, a), a.row.calendar = part.calendar
        PROVE  ShownOf(c, found, a)
    <2>1. db \in Database /\ EventsDerived(db) /\ w \in Windows
      BY DEF Inv, Consistent, Windowed, w
    <2>2. Selected(w, a)
      BY <1>4, <2>1, ActualSelected DEF Overlaps, w
    <2>3. a.event \in es
      BY <1>1, <1>4, <2>2 DEF Selected
    <2>4. PICK y \in rows : y.event = a.event /\ y.row = a.row
      BY <1>2, <2>2, <2>3 DEF Selected
    <2>5. /\ a.start < w.end /\ \A z \in rows : Current(z)
          /\ a.row.times.rule # None =>
                ~(a.start < w.start) /\ ~(StartsBefore(a.row.times, w, a.start) >= MaxInstances)
      BY <1>2, <1>4 DEF Overlaps, InReach, w
    <2>6. \E x \in Expanded(rows, rows, w) : x.event = a.event /\ x.start = a.start
      BY <2>1, <2>4, <2>5, ActualExpanded
    <2> QED BY <1>7, <2>6 DEF ShownOf
  <1>5. PartShows(c, part)
    BY <1>3 DEF PartShows, found
  <1>6. PartRead(c, part)
    BY <1>4 DEF PartRead, found, w
  <1> QED BY <1>5, <1>6

(* A part takes the place of what it was; the others stay.                 *)
LEMMA PartTurned ==
    ASSUME NEW part, Part(part), NEW found
    PROVE  LET new == [part EXCEPT !.read = TRUE, !.found = found]
           IN  Part(new) /\ new.calendar = part.calendar /\ new.read = TRUE /\ new.found = found
  BY DEF Part
LEMMA PartReplaced ==
    ASSUME NEW rows, Parts(rows), NEW part \in rows,
           NEW new, Part(new), new.calendar = part.calendar, new.read = TRUE
    PROVE  Parts((rows \ {part}) \union {new})
  <1> DEFINE all == (rows \ {part}) \union {new}
  <1>1. \A x \in all : Part(x) /\ x.read \in BOOLEAN
    BY DEF Parts
  <1>2. ASSUME NEW x \in all, NEW y \in all, x.calendar = y.calendar PROVE x = y
    BY <1>2 DEF Parts
  <1> HIDE DEF all
  <1>3. Parts(all)
    BY <1>1, <1>2 DEF Parts
  <1> QED BY <1>3 DEF all

LEMMA MultiSettles ==
    ASSUME Inv, NEW k \in Client, calls[k] # None, MultiSound(calls[k], failures), calls'[k] # None,
           GetMultipleFreeBusy(k)
    PROVE  MultiSound(calls'[k], failures')
  <1> DEFINE q == calls[k]
             c == calls'[k]
             r == q.reading
             w == r.want.window
             es(part) == {e \in EventsOf(db, {part.calendar}) : InWindow(db.events[e].times, w)}
             rows(part) == RowsOf(es(part), "calendars")
             given(part, x) == (r.rows \ {part}) \union
                    {[part EXCEPT !.read = TRUE, !.found = Expanded(x, x, w)]}
             left == {part \in r.rows : ~part.read}
             calendars == {x \in IdsOf(db.calendars) : db.calendars[x].user \in r.want.users}
             New(x) == [calendar |-> x, user |-> db.calendars[x].user, read |-> FALSE, found |-> {}]
             new == {New(x) : x \in calendars}
  <1>1. Windowed(q) /\ failures \in Nat
    BY DEF MultiSound, Inv, Bounded, ScenariosAssumption
  <1>2. CASE Advance(k, "events", [r EXCEPT !.rows = new])
    <2> DEFINE d == [r EXCEPT !.rows = new]
    <2>1. DOMAIN d = ReadingFields /\ d.want = r.want /\ d.rows = new
      BY <1>1 DEF Windowed, ReadingFields
    <2> HIDE DEF d
    <2>2. c.at = "events" /\ c.reading = d
      BY <1>2, Advances DEF d
    <2>3. \A x : /\ Part(New(x)) /\ New(x).calendar = x /\ New(x).read = FALSE /\ New(x).found = {}
      BY DEF Part
    <2>4. ASSUME NEW x \in new PROVE Part(x) /\ x.read = FALSE /\ x.found = {} /\ x = New(x.calendar)
      <3> HIDE DEF New
      <3> QED BY <2>3
    <2> HIDE DEF new, New
    <2>5. Parts(new)
      BY <2>4 DEF Parts
    <2>6. \A part \in new : PartShows(c, part) /\ ~part.read
      BY <2>4 DEF PartShows
    <2> QED BY <1>1, <2>1, <2>2, <2>5, <2>6 DEF MultiSound, Windowed
  <1>3. ASSUME q.at = "events", NEW part \in left,
               Advance(k, "events", [Observed(r) EXCEPT !.rows = given(part, rows(part))]),
               UNCHANGED failures
        PROVE  MultiSound(c, failures')
    <2> DEFINE found == Expanded(rows(part), rows(part), w)
               p == [part EXCEPT !.read = TRUE, !.found = found]
               all == (r.rows \ {part}) \union {p}
    <2>1. c.at = "events" /\ ReadOn(q, c, all)
      <3>1. Advance(k, "events", [Observed(r) EXCEPT !.rows = all])
        BY <1>3
      <3> HIDE DEF all
      <3> QED BY <1>1, <3>1, ReadGoesOn
    <2>2. Parts(all) /\ p.calendar = part.calendar /\ p.found = found
      <3>1. Parts(r.rows) /\ Part(part) /\ part \in r.rows
        BY <1>3 DEF MultiSound, Parts
      <3> HIDE DEF found
      <3>2. Part(p) /\ p.calendar = part.calendar /\ p.read = TRUE /\ p.found = found
        BY <3>1, PartTurned
      <3> HIDE DEF p
      <3> QED BY <3>1, <3>2, PartReplaced
    <2>3. /\ c.op = q.op /\ Windowed(c) /\ c.reading.want = r.want /\ c.reading.rows = all
          /\ c.reading.seen = r.seen \union {Actual(db, w)} /\ c.reading.met = r.met \union {Stock}
      BY <2>1 DEF ReadOn, SameCall, SameOrder
    <2>4. PartShows(c, p) /\ PartRead(c, p)
      <3>1. PartOf(c, p, es(part))
        BY <2>2, <2>3 DEF PartOf
      <3> HIDE DEF p, es, c
      <3>2. Actual(db, c.reading.want.window) \in c.reading.seen /\ Stock \in c.reading.met
        BY <2>3
      <3> QED BY <2>3, <3>1, <3>2, PartReads
    <2>5. ASSUME NEW x \in r.rows
          PROVE  PartShows(c, x) /\ (failures = 0 /\ x.read => PartRead(c, x))
      <3>1. PartShows(q, x) /\ (failures = 0 /\ x.read => PartRead(q, x))
        BY <1>3 DEF MultiSound
      <3> HIDE DEF c
      <3> QED BY <2>3, <3>1, PartsKept
    <2> HIDE DEF p
    <2> QED BY <1>3, <2>1, <2>2, <2>3, <2>4, <2>5 DEF MultiSound
  <1>4. ASSUME q.at = "events", NEW part \in left,
               Advance(k, "events", [r EXCEPT !.rows = given(part, {})]), failures' = failures + 1
        PROVE  MultiSound(c, failures')
    <2> DEFINE found == Expanded({}, {}, w)
               p == [part EXCEPT !.read = TRUE, !.found = found]
               all == (r.rows \ {part}) \union {p}
               d == [r EXCEPT !.rows = all]
    <2>1. /\ DOMAIN d = ReadingFields /\ d.want = r.want /\ d.rows = all
          /\ d.seen = r.seen /\ d.met = r.met
      <3> HIDE DEF all
      <3> QED BY <1>1 DEF Windowed, ReadingFields
    <2>2. Parts(all) /\ p.found = found
      <3>1. Parts(r.rows) /\ Part(part) /\ part \in r.rows
        BY <1>4 DEF MultiSound, Parts
      <3> HIDE DEF found
      <3>2. Part(p) /\ p.calendar = part.calendar /\ p.read = TRUE /\ p.found = found
        BY <3>1, PartTurned
      <3> HIDE DEF p
      <3> QED BY <3>1, <3>2, PartReplaced
    <2>3. found = {}
      BY DEF Expanded
    <2>4. Advance(k, "events", d)
      BY <1>4
    <2> HIDE DEF d, p
    <2>5. c.at = "events" /\ c.reading = d /\ SameCall(q, c)
      BY <2>4, Advances
    <2>6. ASSUME NEW x \in r.rows PROVE PartShows(c, x)
      <3>1. PartShows(q, x)
        BY <1>4 DEF MultiSound
      <3>2. c.op = q.op /\ c.reading.want = r.want /\ c.reading.seen = r.seen /\ c.reading.met = r.met
        BY <2>1, <2>5 DEF SameCall, SameOrder
      <3> HIDE DEF c
      <3> QED BY <3>1, <3>2, PartsKept
    <2>7. PartShows(c, p)
      BY <2>2, <2>3 DEF PartShows
    <2>8. failures' # 0
      BY <1>1, <1>4
    <2>9. Windowed(c) /\ Parts(c.reading.rows) /\ \A x \in c.reading.rows : PartShows(c, x)
      BY <1>1, <2>1, <2>2, <2>5, <2>6, <2>7 DEF Windowed
    <2> QED BY <2>5, <2>8, <2>9 DEF MultiSound
  <1>5. ASSUME q.at = "events", q.op = "GetMultipleFreeBusy", left = {},
               NEW last \in [{part.user : part \in r.rows} -> r.rows],
               \A u \in DOMAIN last : last[u].user = u,
               Advance(k, "answered", [r EXCEPT !.found = UNION {last[u].found : u \in DOMAIN last}]),
               UNCHANGED failures
        PROVE  MultiSound(c, failures')
    <2> DEFINE found == UNION {last[u].found : u \in DOMAIN last}
               d == [r EXCEPT !.found = found]
    <2>1. /\ DOMAIN d = ReadingFields /\ d.want = r.want /\ d.rows = r.rows /\ d.found = found
          /\ d.seen = r.seen /\ d.met = r.met /\ d.cals = r.cals
      <3> HIDE DEF found
      <3> QED BY <1>1 DEF Windowed, ReadingFields
    <2>2. Advance(k, "answered", d)
      BY <1>5
    <2> HIDE DEF d
    <2>3. c.at = "answered" /\ c.reading = d /\ SameCall(q, c)
      BY <2>2, Advances
    <2>4. /\ c.op = "GetMultipleFreeBusy" /\ c.reading.want = r.want /\ c.reading.rows = r.rows
          /\ c.reading.seen = r.seen /\ c.reading.met = r.met /\ c.reading.found = found
          /\ q.op = c.op /\ Windowed(c)
      BY <1>1, <1>5, <2>1, <2>3 DEF SameCall, SameOrder, Windowed
    <2>5. /\ \A x \in found : \E u \in DOMAIN last : x \in last[u].found
          /\ \A u \in DOMAIN last : \A x \in last[u].found : x \in found
      OBVIOUS
    <2>6. /\ \A u \in DOMAIN last : last[u] \in r.rows
          /\ \A part \in r.rows : part.user \in DOMAIN last
      OBVIOUS
    <2> HIDE DEF found
    <2>7. ASSUME NEW x \in c.reading.found
          PROVE  Saw(c.reading, x) \/ \E e \in UNION c.reading.met : Elsewhere(c, e, x)
      <3>1. PICK u \in DOMAIN last : x \in last[u].found
        BY <2>4, <2>5
      <3>2. PartShows(q, last[u])
        BY <1>5, <2>6 DEF MultiSound
      <3>3. PartShows(c, last[u])
        <4> HIDE DEF c
        <4> QED BY <2>4, <3>2, PartsKept
      <3> QED BY <3>1, <3>3 DEF PartShows
    <2>8. ASSUME failures = 0, NEW a \in Always(c.reading.seen), Overlaps(c, a), AskedFor(c, a),
                 ~Withheld(c, a)
          PROVE  \E x \in c.reading.found : x.event = a.event /\ x.start = a.start
      <3>1. PICK part \in r.rows : part.calendar = a.row.calendar
        BY <2>4, <2>8 DEF AskedFor
      <3>2. \A y \in r.rows : y.user = part.user => y = part
        BY <2>4, <2>8, <3>1 DEF Withheld
      <3>3. last[part.user] = part
        BY <1>5, <2>6, <3>2
      <3>4. PartRead(c, part)
        <4>1. PartRead(q, part)
          BY <1>5, <2>8 DEF MultiSound
        <4> HIDE DEF c
        <4> QED BY <2>4, <4>1, PartsKept
      <3>5. InReach(c, a)
        BY <2>8 DEF Withheld, InReach
      <3>6. ShownOf(c, part.found, a)
        BY <2>8, <3>1, <3>4, <3>5 DEF PartRead, Always
      <3> QED BY <2>4, <2>5, <2>6, <3>3, <3>6 DEF ShownOf
    <2> QED BY <1>5, <2>3, <2>4, <2>7, <2>8 DEF MultiSound, ShowsOverrides, Misses
  <1> QED BY <1>2, <1>3, <1>4, <1>5, Zenon
        DEF GetMultipleFreeBusy, Reads, Reading, bounds

----------------------------------------------------------------------------
(* Searches *)

Shown(r) == {x \in r.found : x.page = r.page}
FitsFilter(r, x) == \A d \in {e \in r.want.filter : ~IsCursor(e)} : Satisfies(x, d)
ShowsEvent(r, x) == \E y \in r.found : y.event = x.event
(* No event is on two pages, or twice on one.                              *)
PagesApart(r) ==
    /\ r.page \in Int
    /\ \A x \in r.found : x.event \in Event /\ x.page \in Int /\ x.page <= r.page
    /\ \A x, y \in r.found : x.event = y.event => x = y
    /\ \A read \in r.seen : \A x \in read : x.event \in Event
(* Before a page is read the events up to the cursor have been shown.      *)
UpTo(r, n) ==
    /\ \A y \in r.found : Rank[y.event] <= n /\ y.page < r.page
    /\ \A x \in Always(r.seen) : FitsFilter(r, x) /\ Rank[x.event] <= n => ShowsEvent(r, x)
Passed(r) ==
    \/ r.found = {} /\ r.seen = {} /\ \A d \in r.want.filter : ~IsCursor(d)
    \/ /\ r.seen # {}
       /\ \E n \in Int : UpTo(r, n) /\ {d \in r.want.filter : IsCursor(d)} = {CursorAt(n)}
(* When it was read, those up to the last of the page have been, and all   *)
(* of them if the page is not full.                                        *)
PageComplete(r) ==
    /\ r.seen # {}
    /\ \A y \in r.found, z \in Shown(r) : y.page # r.page => Rank[y.event] <= Rank[z.event]
    /\ \A x \in Always(r.seen) : FitsFilter(r, x) =>
        \/ ShowsEvent(r, x)
        \/ ~(Cardinality(r.rows) < r.want.limit) /\ \A z \in Shown(r) : Rank[z.event] <= Rank[x.event]
PagingSound(c) ==
    LET r == c.reading IN
    /\ DOMAIN r = ReadingFields /\ DOMAIN r.want = DOMAIN Wish /\ r.want.limit \in Int
    /\ r.want.sort = ByUid =>
        PagesApart(r) /\ (IF c.at = "answered" THEN PageComplete(r) ELSE Passed(r))

LEMMA SearchAsked ==
    ASSUME NEW q, q.op \in Searches, Asking(q), NEW c, c.reading = q.reading, c.at # "answered"
    PROVE  PagingSound(c)
  <1> DEFINE r == c.reading
  <1>1. /\ DOMAIN r = ReadingFields /\ DOMAIN r.want = DOMAIN Wish /\ r.want.limit \in Int
        /\ r.want.sort = ByUid => \A d \in r.want.filter : ~IsCursor(d)
        /\ r.found = {} /\ r.seen = {} /\ r.page = 1
    BY DEF Asking, Wants, ReadingFields
  <1> HIDE DEF r
  <1>2. PagesApart(r) /\ (r.want.sort = ByUid => Passed(r))
    BY <1>1 DEF PagesApart, Passed
  <1> QED BY <1>1, <1>2 DEF PagingSound, r

(* What is searched are rows of the table, each once.                      *)
LEMMA SearchedIs ==
    ASSUME Inv, NEW q
    PROVE  /\ \A x \in Searched(q) : x.event \in Event /\ Rank[x.event] \in Int
           /\ \A x, y \in Searched(q) : x.event = y.event => x = y
           /\ \A x, y \in Searched(q) : Rank[x.event] = Rank[y.event] => x = y
  <1> DEFINE rows == Searched(q)
  <1>1. PICK es : es \subseteq IdsOf(db.events) /\ rows = RowsOf(es, "search")
    <2> DEFINE es == {e \in IdsOf(db.events) :
                        LET row == db.events[e]
                        IN  IF q.op = "AccountSearchEvents" THEN row.account = q.account
                            ELSE /\ row.user = q.user
                                 /\ \/ q.reading.want.calendars = {}
                                    \/ row.calendar \in q.reading.want.calendars}
    <2>1. es \subseteq IdsOf(db.events) /\ rows = RowsOf(es, "search")
      BY DEF Searched
    <2> HIDE DEF es
    <2> QED BY <2>1
  <1> HIDE DEF rows
  <1>2. \A x \in rows : x.event \in es /\ x.row = db.events[x.event] /\ x.from = "search" /\ Marked(x)
    BY <1>1, RowsOfIs, RowsMarked
  <1>3. es \subseteq Event
    BY <1>1 DEF Inv, Consistent, Database, IdsOf
  <1>4. ASSUME NEW x \in rows, NEW y \in rows, x.event = y.event PROVE x = y
    BY <1>2, <1>4 DEF Marked
  <1>5. \A x \in rows : x.event \in Event
    BY <1>2, <1>3
  <1> QED BY <1>4, <1>5, RankAssumption DEF rows

(* A cursor lets through what is after it (apply_id_query).                *)
LEMMA CursorPasses ==
    ASSUME NEW x, Rank[x.event] \in Int, NEW n \in Int
    PROVE  Satisfies(x, CursorAt(n)) <=> Rank[x.event] > n
  <1>1. Column(x, "event_uid") = Rank[x.event] /\ Rank[x.event] # None
    BY NoneIsNoTime DEF Column
  <1>2. Compares(Rank[x.event], "gt", n) <=> Rank[x.event] > n
    BY DEF Compares
  <1> QED BY <1>1, <1>2 DEF Satisfies, CursorAt

LEMMA PagesByUid ==
    ASSUME NEW rows, NEW limit, NEW page \in Pages(rows, ByUid, limit)
    PROVE  /\ page \subseteq rows /\ (Cardinality(page) = limit \/ page = rows)
           /\ \A x \in page, y \in rows \ page : ~(Rank[y.event] < Rank[x.event])
  <1>1. ByUid # None /\ ByUid.column = "event_uid" /\ ByUid.descending = FALSE
    BY NoneIsNoSort DEF ByUid
  <1>2. \A x : Column(x, "event_uid") = Rank[x.event]
    BY DEF Column
  <1> QED BY <1>1, <1>2 DEF Pages

(* A page that was read is apart from the earlier ones, and complete.      *)
PageTaken(q, r, page) ==
    LET r0 == q.reading
        rows == {x \in Searched(q) : \A d \in r0.want.filter : Satisfies(x, d)}
    IN  /\ PagesApart(r0) /\ Passed(r0) /\ r0.want.limit \in Int
        /\ page \in Pages(rows, ByUid, r0.want.limit)
        /\ r.want = r0.want /\ r.page = r0.page /\ r.rows = page
        /\ r.found = r0.found \union {[event |-> x.event, row |-> x.row, page |-> r0.page] : x \in page}
        /\ r.seen = r0.seen \union {Searched(q)}
LEMMA PageReads ==
    ASSUME Inv, NEW q, NEW r, NEW page, PageTaken(q, r, page)
    PROVE  PagesApart(r) /\ PageComplete(r)
  <1> DEFINE r0 == q.reading
             all == Searched(q)
             rows == {x \in all : \A d \in r0.want.filter : Satisfies(x, d)}
             Of(x) == [event |-> x.event, row |-> x.row, page |-> r0.page]
             new == {Of(x) : x \in page}
  <1>1. /\ page \subseteq rows /\ (Cardinality(page) = r0.want.limit \/ page = rows)
        /\ \A x \in page, y \in rows \ page : ~(Rank[y.event] < Rank[x.event])
    <2>1. page \in Pages(rows, ByUid, r0.want.limit)
      BY DEF PageTaken
    <2> HIDE DEF rows
    <2> QED BY <2>1, PagesByUid
  <1>2. /\ PagesApart(r0) /\ Passed(r0) /\ r0.want.limit \in Int
        /\ r.want = r0.want /\ r.page = r0.page /\ r.rows = page
        /\ r.found = r0.found \union new /\ r.seen = r0.seen \union {all}
    BY DEF PageTaken
  <1>3. /\ \A x : Of(x).event = x.event /\ Of(x).page = r0.page
        /\ \A z \in new : \E x \in page : z = Of(x)
        /\ \A x \in page : Of(x) \in new
    OBVIOUS
  <1>4. /\ \A x \in all : x.event \in Event /\ Rank[x.event] \in Int
        /\ \A x, y \in all : x.event = y.event => x = y
    BY SearchedIs
  <1>5. \A x : x \in rows <=> x \in all /\ \A d \in r0.want.filter : Satisfies(x, d)
    OBVIOUS
  <1> HIDE DEF all, rows, new, Of
  <1>6. /\ \A y \in r0.found : y.event \in Event /\ Rank[y.event] \in Int /\ y.page \in Int
                               /\ y.page <= r0.page
        /\ r0.page \in Int
    BY <1>2, RankAssumption DEF PagesApart
  <1>7. /\ \A y \in r0.found : y.page < r0.page
        /\ \A y \in r0.found, x \in page : Rank[y.event] < Rank[x.event]
        /\ \A x \in Always(r.seen) : x \in all /\ (FitsFilter(r, x) => ShowsEvent(r0, x) \/ x \in rows)
    <2>1. ASSUME NEW x \in Always(r.seen) PROVE x \in all /\ (r0.seen # {} => x \in Always(r0.seen))
      BY <1>2 DEF Always
    <2>2. CASE r0.found = {} /\ r0.seen = {} /\ \A d \in r0.want.filter : ~IsCursor(d)
      BY <1>2, <1>5, <2>1, <2>2 DEF FitsFilter
    <2>3. ASSUME r0.seen # {}, NEW n \in Int, UpTo(r0, n),
                 {d \in r0.want.filter : IsCursor(d)} = {CursorAt(n)}
          PROVE  /\ \A y \in r0.found : y.page < r0.page
                 /\ \A y \in r0.found, x \in page : Rank[y.event] < Rank[x.event]
                 /\ \A x \in Always(r.seen) :
                        x \in all /\ (FitsFilter(r, x) => ShowsEvent(r0, x) \/ x \in rows)
      <3>1. \A d \in r0.want.filter : IsCursor(d) => d = CursorAt(n)
        BY <2>3
      <3>2. CursorAt(n) \in r0.want.filter
        BY <2>3
      <3>3. \A x \in page : Rank[x.event] > n /\ Rank[x.event] \in Int
        BY <1>1, <1>4, <1>5, <3>2, CursorPasses
      <3>4. ASSUME NEW x \in Always(r.seen), FitsFilter(r, x)
            PROVE  ShowsEvent(r0, x) \/ x \in rows
        <4>1. x \in all /\ x \in Always(r0.seen) /\ FitsFilter(r0, x)
          BY <1>2, <2>1, <2>3, <3>4 DEF FitsFilter
        <4>2. CASE Rank[x.event] <= n
          BY <2>3, <4>1, <4>2 DEF UpTo
        <4>3. CASE ~(Rank[x.event] <= n)
          <5>1. Satisfies(x, CursorAt(n))
            BY <1>4, <4>1, <4>3, CursorPasses
          <5>2. \A d \in r0.want.filter : ~IsCursor(d) => Satisfies(x, d)
            BY <4>1 DEF FitsFilter
          <5> QED BY <1>5, <3>1, <4>1, <5>1, <5>2
        <4> QED BY <4>2, <4>3
      <3>5. \A y \in r0.found : Rank[y.event] <= n /\ y.page < r0.page
        BY <2>3 DEF UpTo
      <3> QED BY <1>6, <2>1, <3>3, <3>4, <3>5
    <2> QED BY <1>2, <2>2, <2>3 DEF Passed
  <1>8. PagesApart(r)
    <2>1. ASSUME NEW x \in r.found PROVE x.event \in Event /\ x.page \in Int /\ x.page <= r.page
      BY <1>1, <1>2, <1>3, <1>4, <1>5, <1>6
    <2>2. ASSUME NEW x \in r.found, NEW y \in r.found, x.event = y.event PROVE x = y
      <3>1. CASE x \in r0.found /\ y \in r0.found
        BY <1>2, <2>2, <3>1 DEF PagesApart
      <3>2. CASE x \in new /\ y \in new
        BY <1>1, <1>3, <1>4, <1>5, <2>2, <3>2
      <3>3. ASSUME NEW z \in r0.found, NEW p \in new PROVE z.event # p.event
        BY <1>1, <1>3, <1>4, <1>5, <1>6, <1>7
      <3> QED BY <1>2, <2>2, <3>1, <3>2, <3>3
    <2>3. \A read \in r.seen : \A x \in read : x.event \in Event
      BY <1>2, <1>4 DEF PagesApart
    <2> QED BY <1>2, <1>6, <2>1, <2>2, <2>3 DEF PagesApart
  <1>9. PageComplete(r)
    <2>1. \A z \in Shown(r) : \E x \in page : z = Of(x)
      BY <1>2, <1>3, <1>6, <1>7 DEF Shown
    <2>2. ASSUME NEW y \in r.found, NEW z \in Shown(r), y.page # r.page
          PROVE  Rank[y.event] <= Rank[z.event]
      <3>1. y \in r0.found
        BY <1>2, <1>3, <2>2
      <3>2. PICK x \in page : z = Of(x)
        BY <2>1
      <3> QED BY <1>1, <1>3, <1>4, <1>5, <1>6, <1>7, <3>1, <3>2
    <2>3. ASSUME NEW x \in Always(r.seen), FitsFilter(r, x)
          PROVE  \/ ShowsEvent(r, x)
                 \/ /\ ~(Cardinality(r.rows) < r.want.limit)
                    /\ \A z \in Shown(r) : Rank[z.event] <= Rank[x.event]
      <3>1. CASE ShowsEvent(r0, x)
        BY <1>2, <3>1 DEF ShowsEvent
      <3>2. CASE x \in page
        <4>1. Of(x) \in r.found /\ Of(x).event = x.event
          BY <1>2, <1>3, <3>2
        <4> QED BY <4>1 DEF ShowsEvent
      <3>3. CASE x \in rows \ page
        <4>1. ~(Cardinality(r.rows) < r.want.limit)
          BY <1>1, <1>2, <3>3
        <4>2. ASSUME NEW z \in Shown(r) PROVE Rank[z.event] <= Rank[x.event]
          <5>1. PICK p \in page : z = Of(p)
            BY <2>1
          <5>2. ~(Rank[x.event] < Rank[p.event]) /\ Rank[p.event] \in Int /\ Rank[x.event] \in Int
            BY <1>1, <1>4, <1>5, <3>3
          <5> QED BY <1>3, <5>1, <5>2
        <4> QED BY <4>1, <4>2
      <3> QED BY <1>7, <2>3, <3>1, <3>2, <3>3
    <2>4. r.seen # {}
      BY <1>2
    <2> QED BY <2>2, <2>3, <2>4 DEF PageComplete
  <1> QED BY <1>8, <1>9

(* A client that goes on after the last event of a page                    *)
PageTurned(r0, r, last) ==
    /\ r.page = r0.page + 1 /\ r.found = r0.found /\ r.seen = r0.seen
    /\ r.want.filter = {d \in r0.want.filter : ~IsCursor(d)} \union {CursorAt(Rank[last.event])}
    /\ last \in Shown(r0) /\ \A x \in Shown(r0) : Rank[x.event] <= Rank[last.event]
LEMMA PageTurns ==
    ASSUME NEW r0, NEW r, NEW last, PageTurned(r0, r, last), PagesApart(r0), PageComplete(r0)
    PROVE  PagesApart(r) /\ Passed(r)
  <1> DEFINE n == Rank[last.event]
             base == {d \in r0.want.filter : ~IsCursor(d)}
  <1>1. /\ r.page = r0.page + 1 /\ r.found = r0.found /\ r.seen = r0.seen
        /\ r.want.filter = base \union {CursorAt(n)}
        /\ last \in r0.found /\ last \in Shown(r0) /\ \A x \in Shown(r0) : Rank[x.event] <= n
    BY DEF PageTurned, Shown
  <1>2. /\ \A x \in r0.found : x.event \in Event /\ Rank[x.event] \in Int /\ x.page \in Int
                               /\ x.page <= r0.page
        /\ r0.page \in Int /\ n \in Int
    BY <1>1, RankAssumption DEF PagesApart
  <1>3. /\ \A d \in base : ~IsCursor(d)
        /\ IsCursor(CursorAt(n)) /\ \A d \in r.want.filter : ~IsCursor(d) <=> d \in base
    BY <1>1 DEF IsCursor, CursorAt
  <1>4. {d \in r.want.filter : IsCursor(d)} = {CursorAt(n)}
    <2> HIDE DEF base, n
    <2> QED BY <1>1, <1>3
  <1>5. \A x : FitsFilter(r, x) <=> FitsFilter(r0, x)
    <2>1. {d \in r.want.filter : ~IsCursor(d)} = base
      <3> HIDE DEF base, n
      <3> QED BY <1>1, <1>3
    <2> QED BY <2>1 DEF FitsFilter
  <1> HIDE DEF n, base
  <1>6. ASSUME NEW y \in r.found PROVE Rank[y.event] <= n /\ y.page < r.page
    <2>1. CASE y.page = r0.page
      BY <1>1, <1>2, <1>6, <2>1 DEF Shown
    <2>2. CASE y.page # r0.page
      BY <1>1, <1>2, <1>6, <2>2 DEF PageComplete, n
    <2> QED BY <2>1, <2>2
  <1>7. ASSUME NEW x \in Always(r.seen), FitsFilter(r, x), Rank[x.event] <= n PROVE ShowsEvent(r, x)
    <2>1. x \in Always(r0.seen) /\ FitsFilter(r0, x)
      BY <1>1, <1>5, <1>7
    <2>2. CASE ShowsEvent(r0, x)
      BY <1>1, <2>2 DEF ShowsEvent
    <2>3. CASE Rank[last.event] <= Rank[x.event]
      <3>1. x.event \in Event /\ last.event \in Event
        BY <1>1, <2>1 DEF PagesApart, Always
      <3>2. Rank[x.event] = Rank[last.event]
        BY <1>7, <2>3, <3>1, RankAssumption DEF n
      <3>3. x.event = last.event
        BY <3>1, <3>2, RankAssumption
      <3> QED BY <1>1, <3>3 DEF ShowsEvent
    <2> QED BY <1>1, <2>1, <2>2, <2>3 DEF PageComplete
  <1>8. UpTo(r, n)
    BY <1>6, <1>7 DEF UpTo
  <1>9. PagesApart(r)
    BY <1>1, <1>2 DEF PagesApart
  <1>10. Passed(r)
    BY <1>1, <1>2, <1>4, <1>8 DEF Passed, PageComplete
  <1> QED BY <1>9, <1>10

LEMMA SearchSettles ==
    ASSUME Inv, NEW k \in Client, calls[k] # None, PagingSound(calls[k]), calls'[k] # None,
           SearchEvents(k)
    PROVE  PagingSound(calls'[k])
  <1> DEFINE q == calls[k]
             c == calls'[k]
             r == q.reading
             rows == {x \in Searched(q) : \A d \in r.want.filter : Satisfies(x, d)}
             Of(x) == [event |-> x.event, row |-> x.row, page |-> r.page]
             Taken(page) == [r EXCEPT !.rows = page, !.found = @ \union {Of(x) : x \in page},
                                      !.seen = @ \union {Searched(q)}]
             Turned(last) == [r EXCEPT
                    !.page = @ + 1,
                    !.want.filter = {d \in @ : ~IsCursor(d)} \union {CursorAt(Rank[last.event])}]
  <1>1. /\ DOMAIN r = ReadingFields /\ DOMAIN r.want = DOMAIN Wish /\ r.want.limit \in Int
        /\ r.want.sort = ByUid =>
            PagesApart(r) /\ (IF q.at = "answered" THEN PageComplete(r) ELSE Passed(r))
    BY DEF PagingSound
  <1>2. ~Answer(k) /\ DOMAIN q = DOMAIN Blank /\ DOMAIN calls = Client
    BY Found DEF Answer
  <1>3. CASE q.at = "find" /\ Goto(k, "search")
    <2>1. c.at = "search" /\ c.reading = r
      BY <1>2, <1>3 DEF Goto, Blank
    <2> QED BY <1>1, <1>3, <2>1 DEF PagingSound
  <1>4. ASSUME q.at = "search", NEW page \in Pages(rows, r.want.sort, r.want.limit),
               Advance(k, "answered", Taken(page))
        PROVE  PagingSound(c)
    <2> DEFINE d == Taken(page)
               more == {Of(x) : x \in page}
               all == Searched(q)
    <2>1. /\ DOMAIN d = ReadingFields /\ d.want = r.want /\ d.page = r.page /\ d.rows = page
          /\ d.found = r.found \union more /\ d.seen = r.seen \union {all}
      <3> HIDE DEF all, more
      <3>1. d = [r EXCEPT !.rows = page, !.found = @ \union more, !.seen = @ \union {all}]
        BY DEF all, more
      <3> HIDE DEF d
      <3> QED BY <1>1, <3>1 DEF ReadingFields
    <2>2. c.at = "answered" /\ c.reading = d
      <3> HIDE DEF d
      <3> QED BY <1>4, Advances DEF d
    <2>3. d.want.sort = ByUid => PageTaken(q, d, page)
      <3> HIDE DEF d
      <3> QED BY <1>1, <1>4, <2>1 DEF PageTaken
    <2> HIDE DEF d
    <2>4. d.want.sort = ByUid => PagesApart(d) /\ PageComplete(d)
      <3> HIDE DEF q
      <3> QED BY <2>3, PageReads
    <2> QED BY <1>1, <2>1, <2>2, <2>4 DEF PagingSound
  <1>5. ASSUME q.at = "answered", r.want.sort = ByUid, NEW last \in Shown(r),
               \A x \in Shown(r) : Rank[x.event] <= Rank[last.event],
               Advance(k, "find", Turned(last))
        PROVE  PagingSound(c)
    <2> DEFINE d == Turned(last)
               filter == {e \in r.want.filter : ~IsCursor(e)} \union {CursorAt(Rank[last.event])}
               want == [r.want EXCEPT !.filter = filter]
    <2>1. DOMAIN want = DOMAIN Wish /\ want.filter = filter /\ want.sort = ByUid /\ want.limit = r.want.limit
      <3> HIDE DEF filter
      <3> QED BY <1>1, <1>5 DEF Wish
    <2>2. d = [r EXCEPT !.page = r.page + 1, !.want = want]
      OBVIOUS
    <2> HIDE DEF d, want
    <2>3. /\ DOMAIN d = ReadingFields /\ d.want = want /\ d.page = r.page + 1
          /\ d.found = r.found /\ d.seen = r.seen
      BY <1>1, <2>2 DEF ReadingFields
    <2>4. c.at = "find" /\ c.reading = d
      BY <1>5, Advances DEF d
    <2>5. PageTurned(r, d, last)
      BY <1>5, <2>1, <2>3 DEF PageTurned
    <2>6. PagesApart(d) /\ Passed(d)
      <3> HIDE DEF r
      <3> QED BY <1>1, <1>5, <2>5, PageTurns
    <2> QED BY <1>1, <2>1, <2>3, <2>4, <2>6 DEF PagingSound
  <1> QED BY <1>2, <1>3, <1>4, <1>5, Zenon DEF SearchEvents, Reads, Shown

----------------------------------------------------------------------------
(* The invariant of the queries *)

OfUsers == "GetEventsForUsersInTimeRange"
OfCalendars == {"GetEventsByCalendars", "GetCalendarEvents", "ExportIcal", "GetUserFreeBusy"}
(* What holds of a request from its first guard to its answer              *)
Sound(q, failed) ==
    /\ q.op = OfUsers => RangeSound(q)
    /\ q.op \in OfCalendars => Settling(q)
    /\ q.op = "GetEventInstances" => InstancesSound(q)
    /\ q.op = "GetMultipleFreeBusy" => MultiSound(q, failed)
    /\ q.op \in Searches => PagingSound(q)
QueryInv ==
    /\ TokenInv
    /\ \A k \in Client : calls[k] # None => Sound(calls[k], failures)

LEMMA OtherSound ==
    ASSUME NEW q, q.op \notin QueryOps, NEW f PROVE Sound(q, f)
  BY DEF Sound, QueryOps, OfUsers, OfCalendars

(* A failure asks less of a query.                                         *)
LEMMA FailureSound ==
    ASSUME NEW q, NEW f, NEW g, Sound(q, f), g = 0 => f = 0 PROVE Sound(q, g)
  BY DEF Sound, MultiSound

(* A query begins as it was asked.                                         *)
LEMMA BeginSound ==
    ASSUME Inv, NEW k \in Client, Begin(k), NEW f
    PROVE  Sound(calls'[k], f)
  <1>1. PICK q \in Scenarios[scenario].requests : calls' = [calls EXCEPT ![k] = [q EXCEPT !.at = Entry(q)]]
    BY DEF Begin
  <1> DEFINE c == [q EXCEPT !.at = Entry(q)]
  <1>2. Asked(q) /\ DOMAIN calls = Client
    BY RequestsAssumption DEF Inv, Bounded
  <1>3. c.op = q.op /\ c.at = Entry(q) /\ c.reading = q.reading
    BY <1>2 DEF Asked, Blank
  <1>4. c.at \in Guards \union {"find", "apikey"}
    BY <1>3, RouteIs DEF Entry, Guards
  <1> HIDE DEF c
  <1>5. calls'[k] = c
    BY <1>1, <1>2 DEF c
  <1>6. CASE q.op \notin QueryOps
    BY <1>3, <1>5, <1>6, OtherSound
  <1>7. CASE q.op \in Searches
    <2>1. Asking(q)
      BY <1>2, <1>7 DEF Asked, QueryOps
    <2>2. PagingSound(c)
      BY <1>3, <1>4, <1>7, <2>1, SearchAsked DEF Guards
    <2> QED BY <1>3, <1>5, <1>7, <2>2 DEF Sound, Searches, OfUsers, OfCalendars
  <1>8. CASE q.op \in QueryOps \ Searches
    <2>1. Asking(q)
      BY <1>2, <1>8 DEF Asked
    <2>2. Windowed(c)
      BY <1>3, <1>8, <2>1, WindowAsked DEF Windowed
    <2>3. c.reading.rows = {}
      BY <1>3, <2>1 DEF Asking, Wants
    <2>4. c.at \notin {"recurring", "once", "exceptions", "events", "itsCalendar", "answered"}
      BY <1>4 DEF Guards
    <2> QED BY <1>3, <1>5, <1>8, <2>2, <2>3, <2>4
            DEF Sound, RangeSound, Settling, InstancesSound, MultiSound
  <1> QED BY <1>6, <1>7, <1>8

(* A guard only lets a query through.                                      *)
LEMMA GuardPasses ==
    ASSUME Inv, NEW k \in Client, calls[k] # None, Guard(k), calls'[k] # None
    PROVE  /\ calls[k].at \in Guards /\ calls'[k].at \in {"user", "find", "guarded"}
           /\ calls'[k].op = calls[k].op /\ calls'[k].reading = calls[k].reading
  <1> DEFINE q == calls[k]
             Passes(c) == c.at \in {"user", "find", "guarded"} /\ c.op = q.op /\ c.reading = q.reading
  <1>0. DOMAIN q = DOMAIN Blank /\ DOMAIN calls = Client /\ ~Answer(k)
    BY Found DEF Answer
  <1>1. ASSUME NEW s \in {"user", "find", "guarded"}, NEW u, NEW row,
               \/ Proceed(k, s, row)
               \/ calls' = [calls EXCEPT ![k].at = s, ![k].user = u]
               \/ calls' = [calls EXCEPT ![k].at = s, ![k].row = row, ![k].user = u]
        PROVE  Passes(calls'[k])
    <2> DEFINE r0 == [q EXCEPT !.at = s, !.row = row]
               r1 == [q EXCEPT !.at = s, !.user = u]
               r2 == [q EXCEPT !.at = s, !.row = row, !.user = u]
    <2>1. calls'[k] = r0 \/ calls'[k] = r1 \/ calls'[k] = r2
      BY <1>0, <1>1 DEF Proceed
    <2>2. Passes(r0) /\ Passes(r1) /\ Passes(r2)
      BY <1>0 DEF Blank
    <2> HIDE DEF r0, r1, r2, Passes
    <2> QED BY <2>1, <2>2
  <1> HIDE DEF Passes
  <1>2. GuardAccount(k) => Passes(calls'[k])
    <2> DEFINE s == IF q.at = "public" THEN "find" ELSE "user"
    <2>1. GuardAccount(k) => \E row : Proceed(k, s, row)
      BY <1>0, Zenon DEF GuardAccount, Refused
    <2> QED BY <2>1, <1>1
  <1>3. GuardUser(k) => Passes(calls'[k])
    <2>1. GuardUser(k) => \E row : Proceed(k, "find", row)
      BY <1>0, Zenon DEF GuardUser, Refused
    <2> QED BY <2>1, <1>1
  <1>4. GuardCalendar(k) => Passes(calls'[k])
    <2> DEFINE s == IF q.op = "UpdateCalendar" THEN "user" ELSE "find"
    <2>1. GuardCalendar(k) => \E u : calls' = [calls EXCEPT ![k].at = s, ![k].user = u]
      BY <1>0, Zenon DEF GuardCalendar, Refused
    <2> QED BY <2>1, <1>1
  <1>5. GuardSchedule(k) => Passes(calls'[k])
    <2>1. GuardSchedule(k) => \E u : calls' = [calls EXCEPT ![k].at = "find", ![k].user = u]
      BY <1>0, Zenon DEF GuardSchedule, Refused
    <2> QED BY <2>1, <1>1
  <1>6. GuardEvent(k) => Passes(calls'[k])
    <2>1. GuardEvent(k) =>
            \E u, row : calls' = [calls EXCEPT ![k].at = "guarded", ![k].row = row, ![k].user = u]
      BY <1>0, Zenon DEF GuardEvent, Refused
    <2> QED BY <2>1, <1>1
  <1>7. Passes(calls'[k])
    BY <1>2, <1>3, <1>4, <1>5, <1>6 DEF Guard
  <1>8. q.at \in Guards
    BY DEF Guard, Guards
  <1> QED BY <1>7, <1>8 DEF Passes
LEMMA GuardSound ==
    ASSUME NEW q, NEW c, NEW f, Sound(q, f), c.op = q.op, c.reading = q.reading,
           q.at \in Guards, c.at \in {"user", "find", "guarded"}
    PROVE  Sound(c, f)
  <1>1. RangeSound(q) => RangeSound(c)
    BY DEF RangeSound, Windowed, Guards
  <1>2. Settling(q) => Settling(c)
    BY DEF Settling, Windowed
  <1>3. InstancesSound(q) => InstancesSound(c)
    BY DEF InstancesSound, Windowed
  <1>4. MultiSound(q, f) => MultiSound(c, f)
    BY DEF MultiSound, Windowed
  <1>5. PagingSound(q) => PagingSound(c)
    BY DEF PagingSound, Guards
  <1> QED BY <1>1, <1>2, <1>3, <1>4, <1>5 DEF Sound

(* A query whose next statement is run stays sound.                        *)
LEMMA StatementSound ==
    ASSUME Inv, NEW k \in Client, calls[k] # None, Sound(calls[k], failures), calls'[k] # None,
           EventQueriesNext(k)
    PROVE  Sound(calls'[k], failures')
  <1> DEFINE q == calls[k]
             c == calls'[k]
  <1>0. ~Answer(k)
    BY Found DEF Answer
  <1>1. c.op = q.op
    <2>1. PICK r : calls' = [calls EXCEPT ![k] = r] /\ Core(q, r)
      BY <1>0, QueryTrail DEF Plainly
    <2> QED BY <2>1, Found DEF Core
  <1>2. CASE GetEventsForUsersInTimeRange(k)
    <2>1. q.op = OfUsers
      BY <1>2, Zenon DEF GetEventsForUsersInTimeRange, Reads, OfUsers
    <2>2. RangeSound(c)
      BY <1>2, <2>1, RangeSettles DEF Sound
    <2> QED BY <1>1, <2>1, <2>2 DEF Sound, OfUsers, OfCalendars, Searches
  <1>3. ASSUME q.op \in OfCalendars,
               Windowed(q) =>
                   GetEventsByCalendars(k) \/ GetCalendarEvents(k) \/ ExportIcal(k) \/ GetUserFreeBusy(k)
        PROVE  Sound(c, failures')
    <2>1. Windowed(q)
      BY <1>3 DEF Sound, Settling
    <2>2. Settling(c)
      BY <1>3, <2>1, EventsByCalendarsSettles, CalendarEventsSettles, ExportSettles, UserFreeBusySettles
    <2> QED BY <1>1, <1>3, <2>2 DEF Sound, OfUsers, OfCalendars, Searches
  <1>4. CASE GetEventsByCalendars(k) \/ GetCalendarEvents(k) \/ ExportIcal(k) \/ GetUserFreeBusy(k)
    <2>1. q.op \in OfCalendars
      <3>1. GetEventsByCalendars(k) => q.op = "GetEventsByCalendars"
        BY Zenon DEF GetEventsByCalendars, Reads
      <3>2. GetCalendarEvents(k) => q.op = "GetCalendarEvents"
        BY Zenon DEF GetCalendarEvents, Reads
      <3>3. ExportIcal(k) => q.op = "ExportIcal"
        BY Zenon DEF ExportIcal, Reads
      <3>4. GetUserFreeBusy(k) => q.op = "GetUserFreeBusy"
        BY Zenon DEF GetUserFreeBusy, Reads
      <3> QED BY <1>4, <3>1, <3>2, <3>3, <3>4 DEF OfCalendars
    <2> QED BY <1>3, <1>4, <2>1
  <1>5. CASE GetEventInstances(k)
    <2>1. q.op = "GetEventInstances"
      BY <1>5, Zenon DEF GetEventInstances, Reads
    <2>2. InstancesSound(c)
      BY <1>5, <2>1, InstancesSettle DEF Sound
    <2> QED BY <1>1, <2>1, <2>2 DEF Sound, OfUsers, OfCalendars, Searches
  <1>6. CASE GetMultipleFreeBusy(k)
    <2>1. q.op = "GetMultipleFreeBusy"
      BY <1>6, Zenon DEF GetMultipleFreeBusy, Reads
    <2>2. MultiSound(c, failures')
      BY <1>6, <2>1, MultiSettles DEF Sound
    <2> QED BY <1>1, <2>1, <2>2 DEF Sound, OfUsers, OfCalendars, Searches
  <1>7. CASE SearchEvents(k)
    <2>1. q.op \in Searches
      BY <1>7, Zenon DEF SearchEvents, Reads
    <2>2. PagingSound(c)
      BY <1>7, <2>1, SearchSettles DEF Sound
    <2> QED BY <1>1, <2>1, <2>2 DEF Sound, OfUsers, OfCalendars, Searches
  <1> QED BY <1>0, <1>2, <1>4, <1>5, <1>6, <1>7 DEF EventQueriesNext

(* Whatever a request does next, it is sound.                              *)
LEMMA StepSound ==
    ASSUME QueryInv, TokenInv', NEW k \in Client, Step(k), calls'[k] # None
    PROVE  Sound(calls'[k], failures')
  <1> DEFINE q == calls[k]
             c == calls'[k]
  <1>0. TokenInv /\ Inv /\ DOMAIN calls = Client
    BY DEF QueryInv, TokenInv, Inv
  <1>1. CASE Begin(k)
    BY <1>0, <1>1, BeginSound
  <1>2. ASSUME q # None, Handle(k) PROVE Sound(c, failures')
    <2>0. Sound(q, failures) /\ ~Answer(k)
      BY <1>0, <1>2 DEF QueryInv, Answer
    <2>1. ASSUME NEW r, calls' = [calls EXCEPT ![k] = r], Core(q, r), q.op \notin QueryOps
          PROVE  Sound(c, failures')
      <3>1. c = r /\ r.op = q.op
        BY <1>0, <2>1 DEF Core
      <3> QED BY <2>1, <3>1, OtherSound
    <2>2. ASSUME NEW steps, Plainly(k, steps), q.op \notin QueryOps PROVE Sound(c, failures')
      BY <2>0, <2>1, <2>2 DEF Plainly
    <2>3. CASE Guard(k)
      <3>1. failures' = failures
        BY <2>3 DEF Guard, bounds
      <3>2. /\ q.at \in Guards /\ c.at \in {"user", "find", "guarded"}
            /\ c.op = q.op /\ c.reading = q.reading
        BY <1>0, <1>2, <2>3, GuardPasses
      <3> HIDE DEF q, c
      <3> QED BY <2>0, <3>1, <3>2, GuardSound
    <2>4. CASE DirectoryNext(k)
      <3>1. q.op \notin QueryOps /\ Moved(k, DirectorySteps)
        BY <1>0, <1>2, <2>4, DirectoryTrail DEF OwnedOps, ServiceOps, QueryOps, Searches
      <3>2. \E r : calls' = [calls EXCEPT ![k] = r] /\ SameCall(q, r)
        BY <1>0, <1>2, <2>0, <3>1, GotoIs, ProceedIs DEF Moved
      <3> QED BY <2>1, <3>1, <3>2 DEF SameCall, SameOrder, Core
    <2>5. CASE LookupsNext(k)
      <3>1. q.op \notin QueryOps
        BY <1>0, <1>2, <2>5, LookupTrail DEF LookupOps, QueryOps, Searches
      <3> QED BY <1>0, <1>2, <2>2, <2>5, <3>1, LookupTrail
    <2>6. CASE IntegrationsNext(k)
      <3>1. q.op \notin QueryOps
        BY <1>0, <1>2, <2>6, IntegrationTrail DEF IntegrationOps, QueryOps, Searches
      <3>2. \E r : calls' = [calls EXCEPT ![k] = r] /\ Core(q, r)
        BY <1>0, <1>2, <2>0, <2>6, IntegrationTrail
      <3> QED BY <2>1, <3>1, <3>2
    <2>7. CASE EventQueriesNext(k)
      BY <1>0, <1>2, <2>0, <2>7, StatementSound
    <2>8. CASE StatementFails(k)
      BY <2>0, <2>8 DEF StatementFails
    <2>9. CASE EventSyncNext(k)
      <3>1. q.op \notin QueryOps
        BY <1>0, <1>2, <2>9, EventTrail DEF Syncing, Copied, Creates, QueryOps, Searches
      <3>2. PICK r : calls' = [calls EXCEPT ![k] = r] /\ (r # None => Core(q, r))
        BY <1>0, <1>2, <2>9, EventTrail
      <3>3. r # None
        BY <1>0, <3>2
      <3> QED BY <2>1, <3>1, <3>2, <3>3
    <2>10. CASE AccountsNext(k)
      <3>1. q.op \notin QueryOps
        BY <1>0, <1>2, <2>10, AccountTrail DEF AccountOps, QueryOps, Searches
      <3> QED BY <1>0, <1>2, <2>2, <2>10, <3>1, AccountTrail
    <2> QED BY <1>2, <2>3, <2>4, <2>5, <2>6, <2>7, <2>8, <2>9, <2>10 DEF Handle
  <1> QED BY <1>1, <1>2 DEF Step

(* Every query is sound at each of its statements, whatever other requests *)
(* create, change and delete between them (the use cases of EventQueries). *)
THEOREM QueriesSound == Spec => []QueryInv
  <1>1. Init /\ TokenInv => QueryInv
    BY DEF Init, QueryInv
  <1>2. QueryInv /\ TokenInv' /\ [Next]_serverVars => QueryInv'
    <2>1. ASSUME QueryInv, TokenInv', NEW k \in Client, Step(k) PROVE QueryInv'
      <3>1. Inv /\ Fine(k) /\ Counts
        BY <2>1, StepFine, StepCounts DEF QueryInv, TokenInv
      <3>2. failures' = 0 => failures = 0
        BY <3>1, ScenariosAssumption DEF Counts, Inv, Bounded
      <3>3. ASSUME NEW j \in Client, calls'[j] # None PROVE Sound(calls'[j], failures')
        <4>1. CASE j = k
          BY <2>1, <3>3, <4>1, StepSound
        <4>2. CASE j # k
          <5>1. calls'[j] = calls[j]
            BY <3>1, <4>2 DEF Fine, CallFine
          <5>2. Sound(calls[j], failures)
            BY <2>1, <3>3, <5>1 DEF QueryInv
          <5> QED BY <3>2, <5>1, <5>2, FailureSound
        <4> QED BY <4>1, <4>2
      <3> QED BY <2>1, <3>3 DEF QueryInv
    <2>2. ASSUME QueryInv, TokenInv', Tick \/ UNCHANGED serverVars PROVE QueryInv'
      <3>1. UNCHANGED <<calls, failures>>
        BY <2>2 DEF Tick, serverVars, requestVars, bounds
      <3> QED BY <2>2, <3>1 DEF QueryInv
    <2> QED BY <2>1, <2>2 DEF Next
  <1> QED BY <1>1, <1>2, TokensTimely, PTL DEF Spec

(* What the events of users and the instances of an event show took place  *)
(* at one of their reads, or was not looked for, and no event is found     *)
(* twice (get_events_for_users_in_time_range.rs, get_event_instances.rs).  *)
THEOREM NoPhantomsShown == Spec => []NoPhantoms
  <1>1. QueryInv => NoPhantoms
    <2> SUFFICES ASSUME QueryInv, NEW k \in Client,
                        Answered(k, {"GetEventsForUsersInTimeRange", "GetEventInstances"})
                 PROVE  LET q == calls[k] IN
                        /\ ShowsActual(q, q.reading.found)
                        /\ q.op = OfUsers => FoundOnce(q.reading.rows)
      BY DEF NoPhantoms, ShowsActual, Unasked, OfUsers
    <2>1. Sound(calls[k], failures) /\ calls[k].at = "answered"
      BY DEF QueryInv, Answered
    <2>2. calls[k].op = OfUsers \/ calls[k].op = "GetEventInstances"
      BY DEF Answered, OfUsers
    <2> QED BY <2>1, <2>2 DEF Sound, RangeSound, InstancesSound, OfUsers
  <1> QED BY <1>1, QueriesSound, PTL

(* The other queries show an occurrence that an exception replaces only if *)
(* they have no way to see the exception (get_events_by_calendars.rs,      *)
(* get_calendar_events.rs, export_ical.rs and the two free/busy queries).  *)
THEOREM ShownPhantomsAreOverrides == Spec => []PhantomsAreOverrides
  <1>1. QueryInv => PhantomsAreOverrides
    <2> SUFFICES ASSUME QueryInv, NEW k \in Client,
                        Answered(k, {"GetEventsByCalendars", "GetCalendarEvents", "ExportIcal",
                                     "GetUserFreeBusy", "GetMultipleFreeBusy"})
                 PROVE  ShowsOverrides(calls[k], calls[k].reading.found)
      BY DEF PhantomsAreOverrides, ShowsOverrides, Elsewhere
    <2>1. Sound(calls[k], failures) /\ calls[k].at = "answered"
      BY DEF QueryInv, Answered
    <2>2. calls[k].op \in OfCalendars \/ calls[k].op = "GetMultipleFreeBusy"
      BY DEF Answered, OfCalendars
    <2> QED BY <2>1, <2>2 DEF Sound, Settling, MultiSound
  <1> QED BY <1>1, QueriesSound, PTL

(* What takes place at every read of a query, in its window, and is asked  *)
(* for is answered, but for the exceptions that Withheld lists             *)
(* (expand_events.rs and the queries of calendar_event/postgres.rs).       *)
THEOREM NothingIsMissed == Spec => []NothingMissed
  <1>1. QueryInv => NothingMissed
    <2> SUFFICES ASSUME QueryInv, NEW k \in Client, failures = 0,
                        Answered(k, {"GetEventsForUsersInTimeRange", "GetEventInstances",
                                     "GetEventsByCalendars", "GetCalendarEvents", "ExportIcal",
                                     "GetUserFreeBusy", "GetMultipleFreeBusy"})
                 PROVE  ~Misses(calls[k], calls[k].reading.found)
      BY DEF NothingMissed, Misses, Overlaps
    <2>1. Sound(calls[k], failures) /\ calls[k].at = "answered"
      BY DEF QueryInv, Answered
    <2>2. \/ calls[k].op = OfUsers \/ calls[k].op = "GetEventInstances"
          \/ calls[k].op \in OfCalendars \/ calls[k].op = "GetMultipleFreeBusy"
      BY DEF Answered, OfUsers, OfCalendars
    <2> QED BY <2>1, <2>2
            DEF Sound, RangeSound, InstancesSound, Settling, MultiSound, OfUsers, OfCalendars
  <1> QED BY <1>1, QueriesSound, PTL

(* A client that pages through a search by the ids of events is shown      *)
(* every event that was there all along once, although other requests      *)
(* create and delete events between the pages (search_events.rs).          *)
THEOREM EveryPageIsCounted == Spec => []EveryPageCounts
  <1>1. QueryInv => EveryPageCounts
    <2> SUFFICES ASSUME QueryInv, NEW k \in Client, Answered(k, Searches),
                        calls[k].reading.want.sort = ByUid,
                        Cardinality(calls[k].reading.rows) < calls[k].reading.want.limit
                 PROVE  LET r == calls[k].reading IN
                        /\ \A x, y \in r.found : x.event = y.event => x = y
                        /\ \A x \in Always(r.seen) : FitsFilter(r, x) => ShowsEvent(r, x)
      BY DEF EveryPageCounts, FitsFilter, ShowsEvent
    <2>1. Sound(calls[k], failures) /\ calls[k].at = "answered" /\ calls[k].op \in Searches
      BY DEF QueryInv, Answered
    <2>2. PagesApart(calls[k].reading) /\ PageComplete(calls[k].reading)
      BY <2>1 DEF Sound, PagingSound
    <2> QED BY <2>2 DEF PagesApart, PageComplete
  <1> QED BY <1>1, QueriesSound, PTL
=============================================================================
