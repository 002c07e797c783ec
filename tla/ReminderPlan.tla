---------------------------- MODULE ReminderPlan ----------------------------
(***************************************************************************)
(* What the reminder generator computes from one calendar event and one    *)
(* reading of the clock (create_event_reminders): which occurrences it     *)
(* selects, when each reminder is due, and when an expansion job must run  *)
(* to generate the rest.                                                   *)
(*                                                                         *)
(* Times are whole units of an abstract clock.  The content of an event is *)
(* the data the generator reads:                                           *)
(*   recurring   does the event have a recurrence rule                     *)
(*   occ         the start times of its occurrences (one if not recurring) *)
(*   reminders   the sequence of its reminders, each a delta relative to   *)
(*               the occurrence and a user defined identifier              *)
(***************************************************************************)
EXTENDS Integers, FiniteSets, Sequences

CONSTANTS
  Content,     \* the contents an event may have
  Identifier,  \* the user defined names of reminders
  Minute,      \* period of the sender, and how far ahead it collects (60 s)
  Margin,      \* how far ahead the generator starts (61 s)
  Batch,       \* future occurrences generated at a time (100)
  JobIndex     \* index of the occurrence at which a job expands further (90)

ReminderSpec == [delta : Int, identifier : Identifier]

ASSUME ContentAssumption ==
  \A c \in Content : /\ c.recurring \in BOOLEAN
                     /\ c.occ \subseteq Nat
                     /\ c.reminders \in Seq(ReminderSpec)

ASSUME PeriodAssumption == Minute \in Nat \ {0} /\ Margin \in Nat

\* The generator never produces what the sender's current round may already
\* have collected.
ASSUME MarginAssumption == Minute <= Margin

ASSUME BatchAssumption == Batch \in Nat \ {0} /\ JobIndex \in 0 .. Batch - 1

-----------------------------------------------------------------------------
\* One reminder to generate: an occurrence and the position of a reminder.
Slot == [date : Nat, pos : Nat \ {0}]

SlotsOf(c, dates) == {[date |-> d, pos |-> i] : d \in dates, i \in DOMAIN c.reminders}

RemindAt(c, s) == s.date + c.reminders[s.pos].delta

\* max_by_key(|r| r.delta), 0 for an event without reminders
MaxDelta(c) ==
  IF c.reminders = << >> THEN 0
  ELSE CHOOSE m \in {c.reminders[i].delta : i \in DOMAIN c.reminders} :
         \A i \in DOMAIN c.reminders : c.reminders[i].delta <= m

\* skip_while: occurrences are ascending, so those with every reminder in the
\* past come first
Relevant(c, now) == {d \in c.occ : d + MaxDelta(c) >= now}

\* take_while: every past one, then the first Batch that are not past
Dates(c, now) ==
  IF ~c.recurring THEN c.occ
  ELSE {d \in Relevant(c, now) :
          Cardinality({x \in Relevant(c, now) : now <= x /\ x <= d}) <= Batch}

\* Mutant of Slots: the margin is forgotten.
SlotsWithoutMargin(c, now) == {s \in SlotsOf(c, Dates(c, now)) : RemindAt(c, s) > now}

\* The reminders to insert: those due later than the margin.
Slots(c, now) == {s \in SlotsOf(c, Dates(c, now)) : RemindAt(c, s) > now + Margin}

\* Occurrences are inserted in order, the reminders of one in their sequence.
Precedes(s, t) == s.date < t.date \/ (s.date = t.date /\ s.pos <= t.pos)

\* Mutant of JobTimes: a job is stored only past the last date of the batch.
JobTimesOffByOne(c, now) ==
  {d \in Dates(c, now) : Cardinality({x \in Dates(c, now) : x < d}) = Batch}

\* A job is stored when exactly Batch dates were selected, at the one with
\* JobIndex earlier ones.  The set is empty when no job is stored.
JobTimes(c, now) ==
  IF c.recurring /\ Cardinality(Dates(c, now)) = Batch
  THEN {d \in Dates(c, now) : Cardinality({x \in Dates(c, now) : x < d}) = JobIndex}
  ELSE {}

\* Mutant of StartDelay: the subtraction is the wrong way round.
StartDelaySwapped(now, before) ==
  LET toNext == (now % Minute) - Minute
  IN  IF toNext > before THEN toNext - before ELSE toNext - (Minute - before)

\* get_start_delay: units to wait from `now` to `before` units ahead of the
\* next full period
StartDelay(now, before) ==
  LET toNext == Minute - (now % Minute)
  IN  IF toNext > before THEN toNext - before ELSE toNext + (Minute - before)

=============================================================================
