----------------------------- MODULE MCReminders -----------------------------
(***************************************************************************)
(* Small instances of Reminders.                                           *)
(***************************************************************************)
EXTENDS Reminders, TLC

CONSTANTS i1, i2

R(d, i) == [delta |-> d, identifier |-> i]
Single(t, rs) == [recurring |-> FALSE, occ |-> {t}, reminders |-> rs]
Every(ts, rs) == [recurring |-> TRUE, occ |-> ts, reminders |-> rs]

\* A recurring event that needs an expansion with Batch = 2, and a single one
\* that has a reminder in common with it.
RaceContent == {Every({2, 4}, <<R(0, i1)>>), Single(4, <<R(0, i1)>>)}

Interchangeable == Permutations(Handler) \cup Permutations(Run)

\* A recurring event long enough for two expansions, a single one, and one
\* without reminders.
CalmContent == {Every({4, 10, 16, 22, 28}, <<R(0, i1), R(-1, i2)>>),
                Single(5, <<R(0, i1), R(2, i2)>>),
                Every({6, 12, 18, 24, 30}, << >>)}

\* A recurring event whose next reminder is due within the margin of an
\* expansion.
DenseContent == {Every({4, 6, 8, 10, 12, 14}, <<R(0, i1), R(-1, i2)>>)}

\* An event that is moved, with and without a recurrence.
MovedContent == {Every({4, 8, 12, 16}, <<R(0, i1)>>), Single(13, <<R(0, i1)>>)}

\* A recurring event with a reminder after each occurrence.
FollowUpContent == {Every({2, 4, 6, 8, 10, 12, 14}, <<R(0, i1), R(3, i2)>>)}

\* savedAt is read by no step, and by no property of the runs that use this.
View == <<db, task, fetched, run, timers, clock, created, budget, source, taken, sent>>
=============================================================================
