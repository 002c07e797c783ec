------------------------------ MODULE FreeBusy ------------------------------
(***************************************************************************)
(* Lists of instances: merging, subtracting one list from another, cutting *)
(* a list to a window, and the booking slots that fit into it              *)
(* (CompatibleInstances, EventInstance::remove_instances, booking_slots).  *)
(***************************************************************************)
EXTENDS Instances, FiniteSets, SequencesExt

EarlierStart(a, b) == a.start < b.start \/ (a.start = b.start /\ a.end < b.end)

MergeInto(s, x) ==
  IF s # << >> /\ HasOverlap(x, Last(s)) THEN Append(Front(s), Merge(x, Last(s)))
  ELSE Append(s, x)

\* The elements of a finite set in the order of a relation
Ranked(T, order) ==
  [k \in 1 .. Cardinality(T) |->
     CHOOSE a \in T : Cardinality({b \in T : <<b, a>> \in order}) = k - 1]

\* The instances in the order of their beginning
Sorted(S) == Ranked(S, {p \in S \X S : EarlierStart(p[1], p[2])})

\* CompatibleInstances::new.  The order of instances with the same start makes
\* no difference, since they merge, and neither do duplicates.
Compatible(S) ==
  LET sorted == Sorted(S)
      merged[n \in 0 .. Len(sorted)] ==
        IF n = 0 THEN << >> ELSE MergeInto(merged[n - 1], sorted[n])
  IN  merged[Len(sorted)]

\* An instance that overlaps what is there is silently not added.
PushBack(s, x) == IF s # << >> /\ Last(s).end > x.start THEN s ELSE Append(s, x)

PushFront(s, x) == IF s # << >> /\ Head(s).start < x.end THEN s ELSE << x >> \o s

Extend(s, t) ==
  LET pushed[n \in 0 .. Len(t)] == IF n = 0 THEN s ELSE PushBack(pushed[n - 1], t[n])
  IN  pushed[Len(t)]

-----------------------------------------------------------------------------
\* How many busy instances are visited for f: after the first `skip`, up to the
\* first that starts at or after the end of f.
Visited(f, busy, skip) ==
  Max({0} \cup {n \in 1 .. Len(busy) - skip : \A k \in 1 .. n : busy[skip + k].start < f.end})

\* What the busy instance b, the k-th that is visited, leaves of f.  What lies
\* behind b is cut further (`without`) by the list after the first k, since the
\* code counts from the `skip` it was given.  It asserts that a split yields two.
Cut(f, b, k, without) ==
  LET found == RemoveInstance(f, b)
      left == found.rest
  IN CASE found.kind = "OverlapEnd" -> left
       [] found.kind = "OverlapBeginning" -> without[left[1]][k]
       [] found.kind = "Split" ->
            IF Len(left) = 2 THEN PushFront(without[left[2]][k], left[1]) ELSE left
       [] OTHER -> << >>

\* EventInstance::remove_instances: each of the instances visited is removed from
\* f itself, and f is added whole if the last of them does not meet it.
LeftOf(f, busy, skip, without) ==
  LET n == Visited(f, busy, skip)
      cuts == [k \in 1 .. n |-> Cut(f, busy[skip + k], k, without)]
      pieces == Extend(<< >>, FlattenSeq(cuts))
  IN  IF n > 0 /\ RemoveInstance(f, busy[skip + n]).kind # "NoOverlap" THEN pieces
      ELSE PushBack(pieces, f)

Without(busy) ==
  LET without[f \in Instance] == [skip \in Nat |-> LeftOf(f, busy, skip, without)]
  IN  without

\* CompatibleInstances::remove_instances
RemoveAll(free, busy, skip) ==
  FlattenSeq([i \in DOMAIN free |-> Without(busy)[free[i]][skip]])

\* get_free_busy: what is left of the free instances
FreeOf(free, busy) == RemoveAll(Compatible(free), Compatible(busy), 0)

\* remove_instances asserts that a split yields two instances.
SplitsInTwo(free, busy) ==
  \A i \in DOMAIN free, j \in DOMAIN busy :
    LET found == RemoveInstance(free[i], busy[j])
    IN  found.kind = "Split" => Len(found.rest) = 2

-----------------------------------------------------------------------------
\* remove_all_before and remove_all_after: instances outside go, the first
\* one that reaches across the limit is cut.

\* Mutant of FromTime: the first instance is cut, even if it is all in the past.
FromTimeCutOnly(s, t) ==
  IF s # << >> /\ Head(s).start < t
  THEN << [Head(s) EXCEPT !.start = t] >> \o Tail(s)
  ELSE s

FromTime(s, t) ==
  LET first == SelectInSeq(s, LAMBDA a : a.start >= t \/ a.end > t)
      kept == IF first = 0 THEN << >> ELSE SubSeq(s, first, Len(s))
  IN  IF kept # << >> /\ Head(kept).start < t
      THEN << [Head(kept) EXCEPT !.start = t] >> \o Tail(kept)
      ELSE kept

ToTime(s, t) ==
  LET kept == SubSeq(s, 1, SelectLastInSeq(s, LAMBDA a : a.end <= t \/ a.start < t))
  IN  IF kept # << >> /\ Last(kept).end > t
      THEN Append(Front(kept), [Last(kept) EXCEPT !.end = t])
      ELSE kept

Within(s, window) == ToTime(FromTime(s, window.start), window.end)

-----------------------------------------------------------------------------
\* Mutant of SlotStarts: a slot may begin in the last moment of an instance.
SlotStartsInside(free, q) ==
  IF q.duration < 1 THEN {}
  ELSE {t \in q.start .. q.end :
          /\ (t - q.start) % q.interval = 0
          /\ t + q.interval <= q.end
          /\ \E i \in DOMAIN free : free[i].start <= t /\ t < free[i].end}

\* The starting times offered for one list of free instances: the steps of
\* `interval` from the beginning of the query that still end in it, where one
\* free instance holds the whole duration.
SlotStarts(free, q) ==
  IF q.duration < 1 THEN {}
  ELSE {t \in q.start .. q.end :
          /\ (t - q.start) % q.interval = 0
          /\ t + q.interval <= q.end
          /\ \E i \in DOMAIN free : free[i].start <= t /\ t + q.duration <= free[i].end}

=============================================================================
