------------------------------ MODULE Instances ------------------------------
(***************************************************************************)
(* Half-open intervals of time, and the removal of one from another        *)
(* (EventInstance).  Free and busy instances are kept in separate lists    *)
(* wherever instances meet, so their busy flag is left out.                *)
(***************************************************************************)
EXTENDS Integers, Sequences

Instance == [start : Int, end : Int]

\* Instances that touch count as overlapping.
HasOverlap(a, b) == a.start <= b.end /\ a.end >= b.start

Earlier(x, y) == IF x <= y THEN x ELSE y
Later(x, y) == IF x >= y THEN x ELSE y

Merge(a, b) == [start |-> Earlier(a.start, b.start), end |-> Later(a.end, b.end)]

\* CompatibleInstances::new of two instances given in order
Join(a, b) == IF HasOverlap(b, a) THEN << Merge(b, a) >> ELSE << a, b >>

Before(f, b) == [start |-> f.start, end |-> b.start]
After(f, b) == [start |-> b.end, end |-> f.end]

\* What is left of a free instance when a busy one is removed, and which of
\* the five ways they meet was found, in the order the code tries them.
RemoveInstance(f, b) ==
  IF ~HasOverlap(f, b) \/ f.start = b.end
    THEN [kind |-> "NoOverlap", rest |-> << f >>]
  ELSE IF b.start <= f.start /\ b.end >= f.end
    THEN [kind |-> "Empty", rest |-> << >>]
  ELSE IF b.start > f.start /\ b.end < f.end
    THEN [kind |-> "Split", rest |-> Join(Before(f, b), After(f, b))]
  ELSE IF f.start >= b.start
    THEN [kind |-> "OverlapBeginning", rest |-> << After(f, b) >>]
    ELSE [kind |-> "OverlapEnd", rest |-> << Before(f, b) >>]

-----------------------------------------------------------------------------
\* The instants of an instance, and of a sequence of them.
In(t, a) == a.start <= t /\ t < a.end
Covers(s, t) == \E i \in DOMAIN s : In(t, s[i])

\* Sorted and apart: two consecutive instances do not even touch.
Apart(s) == \A i, j \in DOMAIN s : i < j => s[i].end < s[j].start

=============================================================================
