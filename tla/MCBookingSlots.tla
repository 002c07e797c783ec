--------------------------- MODULE MCBookingSlots ---------------------------
(***************************************************************************)
(* Small instances of BookingSlots.                                        *)
(***************************************************************************)
EXTENDS BookingSlots

CONSTANTS h1, h2, this, other

E(h, cal, busy, service, t, d) ==
  [host |-> h, calendar |-> cal, busy |-> busy, service |-> service,
   recurring |-> FALSE, starts |-> {t}, duration |-> d]
Every(h, cal, busy, ts, d) ==
  [host |-> h, calendar |-> cal, busy |-> busy, service |-> None,
   recurring |-> TRUE, starts |-> ts, duration |-> d]
Q(s, e, d, i, hs) == [start |-> s, end |-> e, duration |-> d, interval |-> i, hosts |-> hs]

ByCalendar == [kind |-> "calendar", calendar |-> "open"]

\* The clock is put back at hour 2 of day 0 and forward at hour 1 of day 1.
TwoDays ==
  (0 :> (0 :> {0} @@ 1 :> {1} @@ 2 :> {2, 3} @@ 3 :> {4} @@ 4 :> {5})) @@
  (1 :> (0 :> {6} @@ 1 :> {} @@ 2 :> {7} @@ 3 :> {8} @@ 4 :> {9}))
Weekly(d, s) == [weekday |-> d, date |-> -1, intervals |-> s]
Dated(d, s) == [weekday |-> -1, date |-> d, intervals |-> s]
From(a, b) == [start |-> a, end |-> b]
NoBuffers == [s \in {} |-> 0]

\* One host available by a calendar of events, one by a schedule.
TwoUsers == <<h1, h2>>
TwoResources ==
  (h1 :> [plan |-> ByCalendar, closest |-> 0, furthest |-> None,
          busyCalendars |-> {"work"}, outside |-> << >>, buffers |-> (other :> [before |-> 1, after |-> 1])]) @@
  (h2 :> [plan |-> Stored(TwoDays, <<Weekly(1, <<From(0, 4)>>), Dated(1, <<From(1, 3)>>),
                                Weekly(0, <<From(3, 4), From(3, 1), From(1, 3), From(0, 0), From(0, 4)>>)>>),
          closest |-> 2, furthest |-> 7, busyCalendars |-> {"work"},
          outside |-> <<"google", "outlook">>, buffers |-> NoBuffers])

\* Free time of h1 that overlaps and touches, some of it recurring, and busy time
\* of every kind: of another service, in progress, and recurring at Google.
TwoEvents ==
  {E(h1, "open", FALSE, None, 0, 4), Every(h1, "open", FALSE, {1, 4, 6}, 2),
   E(h1, "work", TRUE, other, 3, 1), E(h1, "home", FALSE, other, 1, 1),
   E(h2, "work", TRUE, this, -1, 4), Every(h2, "google", TRUE, {2, 7}, 1)}

\* The last two are refused: the step is too short, the time too long.
TwoQueries == {Q(1, 8, 2, 2, None), Q(0, 8, 1, 1, <<h2, h1>>),
               Q(0, 8, 1, 0, None), Q(0, 9, 1, 1, None)}

\* A host who is free from before the closest booking time.
NoticeResources ==
  h1 :> [plan |-> ByCalendar, closest |-> 3, furthest |-> None,
         busyCalendars |-> {"work"}, outside |-> << >>, buffers |-> NoBuffers]
OneUser == <<h1>>
NoticeEvents == {E(h1, "open", FALSE, None, 0, 6), E(h1, "work", TRUE, None, 5, 1)}

\* An event without a duration inside the free time.
PanicEvents == {E(h1, "open", FALSE, None, 0, 6), E(h1, "work", TRUE, None, 4, 0)}
OneQuery == {Q(0, 8, 2, 1, None)}
=============================================================================
