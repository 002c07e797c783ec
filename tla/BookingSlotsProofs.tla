------------------------- MODULE BookingSlotsProofs -------------------------
(***************************************************************************)
(* What the removal of busy time from free time leaves, for all lists of   *)
(* instances, and what the answer of the booking slots query claims.       *)
(*                                                                         *)
(* The lists are put together by recursion.  The induction theorems of the *)
(* library cannot be instantiated, so that an induction here is a least    *)
(* counterexample: a set of natural numbers that is not empty has a least  *)
(* element (LeastNatural).                                                 *)
(***************************************************************************)
EXTENDS BookingSlots, FiniteSetTheorems, SequenceTheorems, TLAPS

-----------------------------------------------------------------------------
(* Removing one instance from another                                      *)

\* The two sequences that a removal can yield, and what they cover.
LEMMA CoversOne == \A a \in Instance, t \in Int : Covers(<< a >>, t) <=> In(t, a)
BY DEF Covers

\* Two instances cover the times of either.
LEMMA CoversTwo ==
  \A a, b \in Instance, t \in Int : Covers(<< a, b >>, t) <=> In(t, a) \/ In(t, b)
BY DEF Covers

\* An empty list covers no time.
LEMMA CoversNone == \A t \in Int : ~Covers(<< >>, t)
BY DEF Covers

\* The bounds of an instance, and of what lies before and after another.
LEMMA Pieces ==
  \A f, b \in Instance :
    /\ f.start \in Int /\ f.end \in Int
    /\ Before(f, b) \in Instance /\ Before(f, b).start = f.start /\ Before(f, b).end = b.start
    /\ After(f, b) \in Instance /\ After(f, b).start = b.end /\ After(f, b).end = f.end
BY DEF Instance, Before, After

\* EventInstance::remove_instance is exact: what is left of a free instance is
\* covered where the free instance is and the busy one is not, and nowhere else,
\* whatever the way the two meet, and also if one of them is empty.
THEOREM RemovalIsExact ==
  ASSUME NEW f \in Instance, NEW b \in Instance, f.start <= f.end, b.start <= b.end,
         NEW t \in Int
  PROVE  Covers(RemoveInstance(f, b).rest, t) <=> In(t, f) /\ ~In(t, b)
<1> DEFINE p == Before(f, b)
           q == After(f, b)
<1>0. /\ f.start \in Int /\ f.end \in Int /\ b.start \in Int /\ b.end \in Int
      /\ p \in Instance /\ p.start = f.start /\ p.end = b.start
      /\ q \in Instance /\ q.start = b.end /\ q.end = f.end
  BY Pieces
<1>1. CASE ~HasOverlap(f, b) \/ f.start = b.end
  <2>1. RemoveInstance(f, b).rest = << f >>  BY <1>1 DEF RemoveInstance
  <2> QED  BY <1>0, <1>1, <2>1, CoversOne DEF HasOverlap, In
<1>2. CASE /\ ~(~HasOverlap(f, b) \/ f.start = b.end)
           /\ b.start <= f.start /\ b.end >= f.end
  <2>1. RemoveInstance(f, b).rest = << >>  BY <1>0, <1>2 DEF RemoveInstance
  <2> QED  BY <1>0, <1>2, <2>1, CoversNone DEF In
<1>3. CASE /\ ~(~HasOverlap(f, b) \/ f.start = b.end)
           /\ b.start > f.start /\ b.end < f.end
  <2>1. RemoveInstance(f, b).rest = Join(p, q)  BY <1>0, <1>3 DEF RemoveInstance
  <2>2. CASE HasOverlap(q, p)
    <3>1. b.start = b.end  BY <1>0, <1>3, <2>2 DEF HasOverlap
    <3>2. Merge(q, p) \in Instance /\ Merge(q, p).start = f.start /\ Merge(q, p).end = f.end
      BY <1>0, <1>3 DEF Merge, Earlier, Later, Instance
    <3>3. RemoveInstance(f, b).rest = << Merge(q, p) >>  BY <2>1, <2>2 DEF Join
    <3> QED  BY <1>0, <3>1, <3>2, <3>3, CoversOne DEF In
  <2>3. CASE ~HasOverlap(q, p)
    <3>1. RemoveInstance(f, b).rest = << p, q >>  BY <2>1, <2>3 DEF Join
    <3> QED  BY <1>0, <1>3, <3>1, CoversTwo DEF In
  <2> QED  BY <2>2, <2>3
<1>4. CASE /\ ~(~HasOverlap(f, b) \/ f.start = b.end)
           /\ ~(b.start <= f.start /\ b.end >= f.end)
           /\ ~(b.start > f.start /\ b.end < f.end)
           /\ f.start >= b.start
  <2>1. RemoveInstance(f, b).rest = << q >>  BY <1>4 DEF RemoveInstance
  <2> QED  BY <1>0, <1>4, <2>1, CoversOne DEF HasOverlap, In
<1>5. CASE /\ ~(~HasOverlap(f, b) \/ f.start = b.end)
           /\ ~(b.start <= f.start /\ b.end >= f.end)
           /\ ~(b.start > f.start /\ b.end < f.end)
           /\ ~(f.start >= b.start)
  <2>1. RemoveInstance(f, b).rest = << p >>  BY <1>5 DEF RemoveInstance
  <2> QED  BY <1>0, <1>5, <2>1, CoversOne DEF HasOverlap, In
<1> QED  BY <1>1, <1>2, <1>3, <1>4, <1>5

\* The assertion in EventInstance::remove_instances holds exactly when the busy
\* instance that splits a free one takes some time.
THEOREM SplitNeedsDuration ==
  ASSUME NEW f \in Instance, NEW b \in Instance, f.start < b.start, b.start <= b.end,
         b.end < f.end
  PROVE  Len(RemoveInstance(f, b).rest) = 2 <=> b.start < b.end
<1> DEFINE p == Before(f, b)
           q == After(f, b)
<1>0. /\ f.start \in Int /\ f.end \in Int /\ b.start \in Int /\ b.end \in Int
      /\ p \in Instance /\ p.start = f.start /\ p.end = b.start
      /\ q \in Instance /\ q.start = b.end /\ q.end = f.end
  BY Pieces
<1>1. RemoveInstance(f, b).rest = Join(p, q)  BY <1>0 DEF RemoveInstance, HasOverlap
<1>2. HasOverlap(q, p) <=> b.start = b.end  BY <1>0 DEF HasOverlap
<1>3. Len(<< Merge(q, p) >>) = 1 /\ Len(<< p, q >>) = 2  OBVIOUS
<1> QED  BY <1>0, <1>1, <1>2, <1>3 DEF Join

-----------------------------------------------------------------------------
(* Induction and recursion over the natural numbers                        *)

\* The naturals are well founded: a set of them has a least element.
LEMMA LeastNatural ==
  ASSUME NEW S, S \subseteq Nat, S # {}
  PROVE  \E n \in S : \A m \in S : n <= m
<1>1. IsWellFoundedOn(OpToRel(<, Nat), Nat)  BY NatLessThanWellFounded
<1>2. PICK n \in S : \A m \in S : ~(<<m, n>> \in OpToRel(<, Nat))  BY <1>1, WFMin
<1>3. ASSUME NEW m \in S PROVE n <= m
  <2>1. m \in Nat /\ n \in Nat  OBVIOUS
  <2>2. ~(m < n)  BY <1>2, <2>1 DEF OpToRel
  <2> QED  BY <2>1, <2>2
<1> QED  BY <1>3

\* What is true of 0, and of n + 1 when it is of n, is true of every natural:
\* S is the set of those of which it is.
LEMMA Inductive ==
  ASSUME NEW S, 0 \in S, \A n \in Nat : n \in S => n + 1 \in S
  PROVE  Nat \subseteq S
<1> SUFFICES ASSUME ~(Nat \subseteq S) PROVE FALSE  OBVIOUS
<1> DEFINE T == Nat \ S
<1>1. PICK n \in T : \A m \in T : n <= m
  <2>1. T \subseteq Nat /\ T # {}  OBVIOUS
  <2> QED  BY <2>1, LeastNatural
<1>2. n \in Nat /\ n # 0 /\ n \notin S  OBVIOUS
<1>3. n - 1 \in Nat /\ ~(n <= n - 1) /\ n = (n - 1) + 1  BY <1>2
<1>4. n - 1 \in S  BY <1>1, <1>3
<1> QED  BY <1>2, <1>3, <1>4

\* `op` says what the n-th step of a fold makes of what the steps before it made.
Folds(g, A, base, N, op) ==
  g \in [0 .. N -> A] /\ g[0] = base /\ \A n \in 1 .. N : g[n] = op[n][g[n - 1]]

\* A fold from left to right exists.
LEMMA FoldExists ==
  ASSUME NEW A, NEW base \in A, NEW N \in Nat, NEW op,
         \A n \in 1 .. N : \A a \in A : op[n][a] \in A
  PROVE  \E g : Folds(g, A, base, N, op)
<1> DEFINE Upto(m, g) == Folds(g, A, base, m, op)
           S == {m \in Nat : m <= N => \E g : Upto(m, g)}
<1>1. 0 \in S
  <2> DEFINE g == [i \in 0 .. 0 |-> base]
  <2>1. g \in [0 .. 0 -> A] /\ g[0] = base  OBVIOUS
  <2>2. 1 .. 0 = {}  OBVIOUS
  <2>3. Upto(0, g)  BY <2>1, <2>2 DEF Folds
  <2> HIDE DEF Upto
  <2> QED  BY <2>3
<1>2. ASSUME NEW m \in Nat, m + 1 <= N, NEW g, Upto(m, g) PROVE \E h : Upto(m + 1, h)
  <2> DEFINE h == [i \in 0 .. m + 1 |-> IF i = m + 1 THEN op[m + 1][g[m]] ELSE g[i]]
  <2>1. g \in [0 .. m -> A] /\ g[0] = base /\ \A n \in 1 .. m : g[n] = op[n][g[n - 1]]
    BY <1>2 DEF Folds
  <2>2. g[m] \in A /\ op[m + 1][g[m]] \in A  BY <1>2, <2>1
  <2>3. h \in [0 .. m + 1 -> A] /\ h[0] = base
    <3>1. ASSUME NEW i \in 0 .. m + 1 PROVE h[i] \in A  BY <2>1, <2>2
    <3> QED  BY <2>1, <3>1
  <2>4. ASSUME NEW n \in 1 .. m + 1 PROVE h[n] = op[n][h[n - 1]]
    <3>1. n - 1 \in 0 .. m /\ h[n - 1] = g[n - 1]  OBVIOUS
    <3>2. CASE n = m + 1  BY <3>1, <3>2
    <3>3. CASE n # m + 1
      <4>1. n \in 1 .. m /\ h[n] = g[n]  BY <3>3
      <4> QED  BY <2>1, <3>1, <4>1
    <3> QED  BY <3>2, <3>3
  <2>5. Upto(m + 1, h)  BY <2>3, <2>4 DEF Folds
  <2> HIDE DEF Upto, h
  <2> QED  BY <2>5
<1>3. N \in S
  <2> HIDE DEF Upto
  <2>1. ASSUME NEW m \in Nat, m \in S PROVE m + 1 \in S  BY <1>2, <2>1
  <2> HIDE DEF S
  <2> QED  BY <1>1, <2>1, Inductive
<1> QED  BY <1>3

\* A set of naturals with a bound has a greatest element, which is its maximum.
LEMMA MaxOf ==
  ASSUME NEW N \in Nat, NEW S, S \subseteq 0 .. N, S # {}
  PROVE  Max(S) \in S /\ \A x \in S : Max(S) >= x
<1> DEFINE T == {N - x : x \in S}
<1>0. PICK s \in S : TRUE  OBVIOUS
<1>1. T \subseteq Nat /\ T # {}
  <2>1. ASSUME NEW x \in S PROVE N - x \in Nat  OBVIOUS
  <2>2. N - s \in T  BY <1>0
  <2> QED  BY <2>1, <2>2
<1>2. PICK n \in T : \A m \in T : n <= m  BY <1>1, LeastNatural
<1>3. PICK k \in S : n = N - k  BY <1>2
<1>4. \A x \in S : k >= x
  <2> TAKE x \in S
  <2>1. N - x \in T  OBVIOUS
  <2>2. n <= N - x  BY <1>2, <2>1
  <2>3. k \in Int /\ x \in Int  OBVIOUS
  <2> QED  BY <1>3, <2>2, <2>3
<1> QED  BY <1>4 DEF Max

-----------------------------------------------------------------------------
(* The folds over lists                                                    *)

\* A list with an instance pushed to its back is a list of instances.
LEMMA PushBackType ==
  ASSUME NEW s \in Seq(Instance), NEW x \in Instance
  PROVE  PushBack(s, x) \in Seq(Instance)
BY DEF PushBack

\* g[n] is s with the first n instances of t pushed to its back.
Extending(g, s, t) ==
  /\ g \in [0 .. Len(t) -> Seq(Instance)] /\ g[0] = s
  /\ \A n \in 1 .. Len(t) : g[n] = PushBack(g[n - 1], t[n])
  /\ Extend(s, t) = g[Len(t)]

\* CompatibleInstances::extend pushes the instances one after the other.
LEMMA Extends ==
  ASSUME NEW s \in Seq(Instance), NEW t \in Seq(Instance)
  PROVE  \E g : Extending(g, s, t)
<1> DEFINE N == Len(t)
           op == [n \in 1 .. N |-> [a \in Seq(Instance) |-> PushBack(a, t[n])]]
           Step(g) == [n \in 0 .. N |-> IF n = 0 THEN s ELSE PushBack(g[n - 1], t[n])]
           pushed == CHOOSE g : g = Step(g)
<1>0. N \in Nat /\ \A n \in 1 .. N : t[n] \in Instance  OBVIOUS
<1>1. \A n \in 1 .. N : \A a \in Seq(Instance) : op[n][a] \in Seq(Instance)
  BY <1>0, PushBackType
<1>2. PICK h \in [0 .. N -> Seq(Instance)] :
        h[0] = s /\ \A n \in 1 .. N : h[n] = op[n][h[n - 1]]
  <2>0. \E h : Folds(h, Seq(Instance), s, N, op)
    <3> HIDE DEF op, N
    <3> QED  BY <1>0, <1>1, FoldExists, Zenon
  <2> HIDE DEF op, N
  <2> QED  BY <2>0 DEF Folds
<1>3. h = Step(h)
  <2>1. ASSUME NEW n \in 0 .. N PROVE h[n] = IF n = 0 THEN s ELSE PushBack(h[n - 1], t[n])
    <3>1. CASE n = 0  BY <1>2, <3>1
    <3>2. CASE n # 0
      <4>1. n \in 1 .. N /\ n - 1 \in 0 .. N  BY <1>0, <3>2
      <4> QED  BY <1>2, <3>2, <4>1
    <3> QED  BY <3>1, <3>2
  <2> QED  BY <2>1
<1>4. pushed = Step(pushed)
  <2> HIDE DEF Step
  <2> QED  BY <1>3
<1>5. Extend(s, t) = pushed[N]  BY DEF Extend
<1> HIDE DEF pushed, op
<1>6. /\ DOMAIN pushed = 0 .. N /\ pushed[0] = s
      /\ \A n \in 1 .. N : pushed[n] = PushBack(pushed[n - 1], t[n])
  <2>1. DOMAIN pushed = 0 .. N  BY <1>4
  <2>2. ASSUME NEW n \in 0 .. N
        PROVE  pushed[n] = IF n = 0 THEN s ELSE PushBack(pushed[n - 1], t[n])
    BY <1>4
  <2> HIDE DEF N, Step
  <2>3. 0 \in 0 .. N /\ \A n \in 1 .. N : n \in 0 .. N /\ n # 0  BY <1>0
  <2> QED  BY <2>1, <2>2, <2>3
<1> DEFINE S == {n \in Nat : n <= N => pushed[n] \in Seq(Instance)}
<1>7. Nat \subseteq S
  <2>1. 0 \in S  BY <1>6
  <2>2. ASSUME NEW n \in Nat, n \in S PROVE n + 1 \in S
    <3> SUFFICES ASSUME n + 1 <= N PROVE pushed[n + 1] \in Seq(Instance)  OBVIOUS
    <3>1. n + 1 \in 1 .. N /\ (n + 1) - 1 = n /\ n <= N  BY <1>0
    <3>2. pushed[n + 1] = PushBack(pushed[n], t[n + 1]) /\ pushed[n] \in Seq(Instance)
      BY <1>6, <2>2, <3>1
    <3> QED  BY <1>0, <3>1, <3>2, PushBackType
  <2> HIDE DEF S
  <2> QED  BY <2>1, <2>2, Inductive
<1>8. pushed \in [0 .. N -> Seq(Instance)]
  <2>1. ASSUME NEW n \in 0 .. N PROVE pushed[n] \in Seq(Instance)  BY <1>7
  <2>2. pushed = [n \in 0 .. N |-> pushed[n]]  BY <1>4
  <2> QED  BY <2>1, <2>2
<1> QED  BY <1>5, <1>6, <1>8 DEF Extending

\* A list of lists one behind the other.
LEMMA Flattens ==
  ASSUME NEW A, NEW seqs \in Seq(Seq(A))
  PROVE  \E g \in [0 .. Len(seqs) -> Seq(A)] :
           /\ g[0] = << >>
           /\ \A n \in 1 .. Len(seqs) : g[n] = g[n - 1] \o seqs[n]
           /\ FlattenSeq(seqs) = g[Len(seqs)]
<1> DEFINE N == Len(seqs)
           op == [n \in 1 .. N |-> [a \in Seq(A) |-> a \o seqs[n]]]
           Step(g) == [i \in 1 .. N |-> IF i = 1 THEN seqs[i] ELSE g[i - 1] \o seqs[i]]
           flatten == CHOOSE g : g = Step(g)
<1>0. N \in Nat /\ \A n \in 1 .. N : seqs[n] \in Seq(A)  OBVIOUS
<1>1. \A n \in 1 .. N : \A a \in Seq(A) : op[n][a] \in Seq(A)  BY <1>0
<1>2. PICK h \in [0 .. N -> Seq(A)] :
        h[0] = << >> /\ \A n \in 1 .. N : h[n] = op[n][h[n - 1]]
  <2>0. \E h : Folds(h, Seq(A), << >>, N, op)
    <3>1. << >> \in Seq(A)  OBVIOUS
    <3> HIDE DEF op, N
    <3> QED  BY <1>0, <1>1, <3>1, FoldExists, Zenon
  <2> HIDE DEF op, N
  <2> QED  BY <2>0 DEF Folds
<1>3. \A n \in 1 .. N : h[n] = h[n - 1] \o seqs[n]
  <2> TAKE n \in 1 .. N
  <2>1. n - 1 \in 0 .. N  BY <1>0
  <2>2. h[n - 1] \in Seq(A)  BY <1>2, <2>1
  <2> QED  BY <1>2, <2>2
<1>4. CASE N = 0
  <2>1. seqs = << >> /\ FlattenSeq(seqs) = seqs  BY <1>4 DEF FlattenSeq
  <2> QED  BY <1>2, <1>3, <1>4, <2>1
<1>5. CASE N # 0
  <2> DEFINE k == [i \in 1 .. N |-> h[i]]
  <2>1. k = Step(k)
    <3>1. ASSUME NEW i \in 1 .. N PROVE k[i] = IF i = 1 THEN seqs[i] ELSE k[i - 1] \o seqs[i]
      <4>1. CASE i = 1
        <5>1. h[1] = h[1 - 1] \o seqs[1] /\ h[1 - 1] = << >>
          <6>1. 1 \in 1 .. N /\ 1 - 1 = 0  BY <1>0, <4>1
          <6> QED  BY <1>2, <1>3, <6>1
        <5>2. << >> \o seqs[1] = seqs[1]
          <6>1. seqs[1] \in Seq(A)  BY <1>0, <4>1
          <6> QED  BY <6>1, ConcatEmptySeq
        <5> QED  BY <4>1, <5>1, <5>2
      <4>2. CASE i # 1
        <5>1. i - 1 \in 1 .. N  BY <1>0, <4>2
        <5> QED  BY <1>3, <4>2, <5>1
      <4> QED  BY <4>1, <4>2
    <3> QED  BY <3>1
  <2>2. flatten = Step(flatten)
    <3> HIDE DEF Step, k
    <3> QED  BY <2>1
  <2>3. FlattenSeq(seqs) = flatten[N]  BY <1>5 DEF FlattenSeq
  <2> DEFINE S == {n \in Nat : n + 1 <= N => flatten[n + 1] = h[n + 1]}
  <2> HIDE DEF flatten, op
  <2>4. \A i \in 1 .. N : flatten[i] = IF i = 1 THEN seqs[i] ELSE flatten[i - 1] \o seqs[i]
    BY <2>2
  <2>5. \A i \in 1 .. N : h[i] = IF i = 1 THEN seqs[i] ELSE h[i - 1] \o seqs[i]
    <3> TAKE i \in 1 .. N
    <3>1. k[i] = IF i = 1 THEN seqs[i] ELSE k[i - 1] \o seqs[i]  BY <2>1
    <3>2. k[i] = h[i] /\ (i # 1 => i - 1 \in 1 .. N /\ k[i - 1] = h[i - 1])  BY <1>0
    <3> HIDE DEF k
    <3> QED  BY <3>1, <3>2
  <2> HIDE DEF Step, N
  <2>6. Nat \subseteq S
    <3>1. 0 \in S
      <4>1. 1 <= N => 1 \in 1 .. N  BY <1>0
      <4> QED  BY <2>4, <2>5, <4>1
    <3>2. ASSUME NEW n \in Nat, n \in S PROVE n + 1 \in S
      <4> SUFFICES ASSUME (n + 1) + 1 <= N PROVE flatten[(n + 1) + 1] = h[(n + 1) + 1]  OBVIOUS
      <4>1. (n + 1) + 1 \in 1 .. N /\ (n + 1) + 1 # 1 /\ ((n + 1) + 1) - 1 = n + 1 /\ n + 1 <= N
        BY <1>0
      <4>2. flatten[n + 1] = h[n + 1]  BY <3>2, <4>1
      <4> QED  BY <2>4, <2>5, <4>1, <4>2
    <3> HIDE DEF S
    <3> QED  BY <3>1, <3>2, Inductive
  <2>7. N - 1 \in S /\ (N - 1) + 1 = N /\ (N - 1) + 1 <= N
    <3>1. N - 1 \in Nat /\ (N - 1) + 1 = N /\ (N - 1) + 1 <= N  BY <1>0, <1>5
    <3> HIDE DEF S
    <3> QED  BY <2>6, <3>1
  <2>8. flatten[N] = h[N]  BY <2>7
  <2> USE DEF N
  <2> QED  BY <1>2, <1>3, <2>3, <2>8
<1> QED  BY <1>4, <1>5

\* One list behind another, element by element.
Joined(s, t) ==
  /\ Len(s \o t) = Len(s) + Len(t)
  /\ \A i \in DOMAIN s : i \in DOMAIN (s \o t) /\ (s \o t)[i] = s[i]
  /\ \A i \in DOMAIN t : Len(s) + i \in DOMAIN (s \o t) /\ (s \o t)[Len(s) + i] = t[i]
  /\ \A i \in DOMAIN (s \o t) : i \notin DOMAIN s =>
       i - Len(s) \in DOMAIN t /\ (s \o t)[i] = t[i - Len(s)]

\* What it consists of.
LEMMA Behind ==
  ASSUME NEW A, NEW s \in Seq(A), NEW t \in Seq(A)
  PROVE  s \o t \in Seq(A) /\ Joined(s, t)
BY DEF Joined

\* The elements of a list are those of the first n parts.
FromParts(l, seqs, n) ==
  /\ \A i \in DOMAIN l : \E k \in 1 .. n : \E m \in DOMAIN seqs[k] : l[i] = seqs[k][m]
  /\ \A k \in 1 .. n : \A m \in DOMAIN seqs[k] : \E i \in DOMAIN l : l[i] = seqs[k][m]

\* A list begins with one of the parts, and what follows is from those behind.
FromOne(l, seqs, c, n) ==
  /\ Len(l) >= Len(seqs[c])
  /\ \A i \in DOMAIN seqs[c] : i \in DOMAIN l /\ l[i] = seqs[c][i]
  /\ \A i \in DOMAIN l : i > Len(seqs[c]) =>
       \E k \in 1 .. n : k > c /\ \E m \in DOMAIN seqs[k] : l[i] = seqs[k][m]

\* A sum is no less than one of its parts.
LEMMA NoLess == \A a, b, d \in Nat : a >= b => a + d >= b
OBVIOUS

\* The elements of a flattened list are those of its parts.
LEMMA FlattenElements ==
  ASSUME NEW A, NEW seqs \in Seq(Seq(A))
  PROVE  FlattenSeq(seqs) \in Seq(A) /\ FromParts(FlattenSeq(seqs), seqs, Len(seqs))
<1> DEFINE N == Len(seqs)
<1>1. PICK g : /\ g \in [0 .. N -> Seq(A)] /\ g[0] = << >>
               /\ \A n \in 1 .. N : g[n] = g[n - 1] \o seqs[n]
               /\ FlattenSeq(seqs) = g[N]
  BY Flattens
<1>0. N \in Nat /\ DOMAIN seqs = 1 .. N /\ \A n \in 1 .. N : seqs[n] \in Seq(A)  OBVIOUS
<1> DEFINE P(n) == FromParts(g[n], seqs, n)
           S == {n \in Nat : n <= N => P(n)}
<1> HIDE DEF N
<1>2. P(0)
  <2>1. DOMAIN g[0] = {} /\ 1 .. 0 = {}  BY <1>1
  <2> QED  BY <2>1 DEF FromParts
<1>3. ASSUME NEW n \in Nat, n + 1 <= N, P(n) PROVE P(n + 1)
  <2>1. n \in 0 .. N /\ n + 1 \in 1 .. N /\ (n + 1) - 1 = n  BY <1>0, <1>3
  <2>2. g[n] \in Seq(A) /\ seqs[n + 1] \in Seq(A) /\ g[n + 1] = g[n] \o seqs[n + 1]
    BY <1>0, <1>1, <2>1
  <2> DEFINE s == g[n]
             t == seqs[n + 1]
  <2>0. Joined(s, t)  BY <2>2, Behind, Zenon
  <2>3. /\ \A i \in DOMAIN s : i \in DOMAIN (s \o t) /\ (s \o t)[i] = s[i]
        /\ \A i \in DOMAIN t : Len(s) + i \in DOMAIN (s \o t) /\ (s \o t)[Len(s) + i] = t[i]
        /\ \A i \in DOMAIN (s \o t) : i \notin DOMAIN s =>
             i - Len(s) \in DOMAIN t /\ (s \o t)[i] = t[i - Len(s)]
    BY <2>0, Zenon DEF Joined
  <2>4. \A k \in 1 .. n : k \in 1 .. n + 1  OBVIOUS
  <2>5. \A k \in 1 .. n + 1 : k \in 1 .. n \/ k = n + 1  OBVIOUS
  <2>6. n + 1 \in 1 .. n + 1  OBVIOUS
  <2>7. ASSUME NEW i \in DOMAIN g[n + 1]
        PROVE  \E k \in 1 .. n + 1 : \E m \in DOMAIN seqs[k] : g[n + 1][i] = seqs[k][m]
    <3>1. CASE i \in DOMAIN s
      <4>1. PICK k \in 1 .. n : \E m \in DOMAIN seqs[k] : g[n][i] = seqs[k][m]
        BY <1>3, <3>1 DEF FromParts
      <4>2. g[n + 1][i] = g[n][i]  BY <2>2, <2>3, <3>1
      <4> QED  BY <2>4, <4>1, <4>2
    <3>2. CASE i \notin DOMAIN s
      <4>1. i - Len(s) \in DOMAIN seqs[n + 1] /\ g[n + 1][i] = seqs[n + 1][i - Len(s)]
        BY <2>2, <2>3, <3>2
      <4> QED  BY <2>6, <4>1
    <3> QED  BY <3>1, <3>2
  <2>8. ASSUME NEW k \in 1 .. n + 1, NEW m \in DOMAIN seqs[k]
        PROVE  \E i \in DOMAIN g[n + 1] : g[n + 1][i] = seqs[k][m]
    <3>1. CASE k \in 1 .. n
      <4>1. PICK i \in DOMAIN g[n] : g[n][i] = seqs[k][m]  BY <1>3, <3>1 DEF FromParts
      <4> QED  BY <2>2, <2>3, <4>1
    <3>2. CASE k = n + 1  BY <2>2, <2>3, <3>2
    <3> QED  BY <2>5, <3>1, <3>2
  <2> HIDE DEF s, t
  <2> QED  BY <2>7, <2>8, Zenon DEF FromParts
<1>4. N \in S
  <2> HIDE DEF P
  <2>1. 0 \in S  BY <1>2
  <2>2. ASSUME NEW n \in Nat, n \in S PROVE n + 1 \in S  BY <1>0, <1>3, <2>2
  <2> HIDE DEF S
  <2> QED  BY <1>0, <2>1, <2>2, Inductive
<1>5. P(N)
  <2> HIDE DEF P
  <2> QED  BY <1>0, <1>4
<1>6. FlattenSeq(seqs) = g[N] /\ N \in 0 .. N  BY <1>0, <1>1
<1>7. g[N] \in Seq(A)  BY <1>1, <1>6
<1> QED  BY <1>5, <1>6, <1>7, Zenon DEF N

\* If the parts before one are empty, the flattened list begins with that one, and
\* what follows it is from the parts behind.
LEMMA FlattenFrom ==
  ASSUME NEW A, NEW seqs \in Seq(Seq(A)), NEW c \in DOMAIN seqs,
         \A k \in 1 .. c - 1 : seqs[k] = << >>
  PROVE  FromOne(FlattenSeq(seqs), seqs, c, Len(seqs))
<1> DEFINE N == Len(seqs)
           t == seqs[c]
<1>1. PICK g : /\ g \in [0 .. N -> Seq(A)] /\ g[0] = << >>
               /\ \A n \in 1 .. N : g[n] = g[n - 1] \o seqs[n]
               /\ FlattenSeq(seqs) = g[N]
  BY Flattens
<1>0. /\ N \in Nat /\ DOMAIN seqs = 1 .. N /\ c \in 1 .. N
      /\ \A n \in 1 .. N : seqs[n] \in Seq(A)
  OBVIOUS
<1> DEFINE Z == {n \in Nat : n < c => g[n] = << >>}
           P(n) == FromOne(g[n], seqs, c, n)
           S == {n \in Nat : c + n <= N => P(c + n)}
<1> HIDE DEF N, t
<1>2. g[c - 1] = << >>
  <2>1. 0 \in Z  BY <1>1
  <2>2. ASSUME NEW n \in Nat, n \in Z PROVE n + 1 \in Z
    <3> SUFFICES ASSUME n + 1 < c PROVE g[n + 1] = << >>  OBVIOUS
    <3>1. n + 1 \in 1 .. N /\ n + 1 \in 1 .. c - 1 /\ (n + 1) - 1 = n /\ n < c  BY <1>0
    <3>2. g[n + 1] = << >> \o << >>  BY <1>1, <2>2, <3>1
    <3> QED  BY <3>2
  <2>3. c - 1 \in Nat /\ c - 1 < c  BY <1>0
  <2>4. Nat \subseteq Z
    <3> HIDE DEF Z
    <3> QED  BY <2>1, <2>2, Inductive
  <2> QED  BY <2>3, <2>4
<1>3. t \in Seq(A) /\ g[c] = t
  <2>1. t \in Seq(A)  BY <1>0 DEF t
  <2>2. g[c] = << >> \o t  BY <1>0, <1>1, <1>2 DEF t
  <2> QED  BY <2>1, <2>2, ConcatEmptySeq
<1>4. P(c)
  <2>1. \A i \in DOMAIN t : ~(i > Len(t))  BY <1>3
  <2> QED  BY <1>3, <2>1 DEF FromOne, t
<1>5. ASSUME NEW n \in Nat, c + n + 1 <= N, P(c + n) PROVE P(c + n + 1)
  <2> DEFINE p == c + n
             s == g[p]
             u == seqs[p + 1]
  <2>1. p \in 0 .. N /\ p + 1 \in 1 .. N /\ (p + 1) - 1 = p /\ p + 1 > c
    <3>1. N \in Nat /\ c \in Nat /\ c >= 1  BY <1>0
    <3>2. c + n + 1 <= N  BY <1>5
    <3> QED  BY <3>1, <3>2
  <2>2. s \in Seq(A) /\ u \in Seq(A) /\ g[p + 1] = s \o u  BY <1>0, <1>1, <2>1
  <2>0. Joined(s, u)  BY <2>2, Behind, Zenon
  <2>3. /\ Len(s \o u) = Len(s) + Len(u)
        /\ \A i \in DOMAIN s : i \in DOMAIN (s \o u) /\ (s \o u)[i] = s[i]
        /\ \A i \in DOMAIN (s \o u) : i \notin DOMAIN s =>
             i - Len(s) \in DOMAIN u /\ (s \o u)[i] = u[i - Len(s)]
    BY <2>0, Zenon DEF Joined
  <2>4. P(p)  BY <1>5
  <2> HIDE DEF p
  <2>5. Len(g[p + 1]) >= Len(t)
    <3>1. Len(s) >= Len(t) /\ Len(s) \in Nat /\ Len(u) \in Nat /\ Len(t) \in Nat
      BY <1>3, <2>2, <2>4 DEF FromOne, t
    <3>2. Len(g[p + 1]) = Len(s) + Len(u)  BY <2>2, <2>3, Zenon
    <3> QED  BY <3>1, <3>2, NoLess, Zenon
  <2>6. \A i \in DOMAIN t : i \in DOMAIN g[p + 1] /\ g[p + 1][i] = t[i]
    BY <2>2, <2>3, <2>4 DEF FromOne, t
  <2>7. ASSUME NEW i \in DOMAIN g[p + 1], i > Len(t)
        PROVE  \E k \in 1 .. p + 1 : k > c /\ \E m \in DOMAIN seqs[k] : g[p + 1][i] = seqs[k][m]
    <3>1. CASE i \in DOMAIN s
      <4>1. PICK k \in 1 .. p : k > c /\ \E m \in DOMAIN seqs[k] : g[p][i] = seqs[k][m]
        BY <2>4, <2>7, <3>1 DEF FromOne, t
      <4>2. k \in 1 .. p + 1  BY <2>1
      <4> QED  BY <2>2, <2>3, <3>1, <4>1, <4>2
    <3>2. CASE i \notin DOMAIN s
      <4>1. i - Len(s) \in DOMAIN seqs[p + 1] /\ g[p + 1][i] = seqs[p + 1][i - Len(s)]
        BY <2>2, <2>3, <3>2
      <4>2. p + 1 \in 1 .. p + 1  BY <2>1
      <4> QED  BY <2>1, <4>1, <4>2
    <3> QED  BY <3>1, <3>2
  <2>8. P(p + 1)  BY <2>5, <2>6, <2>7, Zenon DEF FromOne, t
  <2> QED  BY <2>8 DEF p
<1>6. Nat \subseteq S
  <2>0. c \in Nat  BY <1>0
  <2> HIDE DEF P
  <2>1. 0 \in S
    <3>1. c + 0 = c  BY <2>0
    <3> QED  BY <1>4, <3>1
  <2>2. ASSUME NEW n \in Nat, n \in S PROVE n + 1 \in S
    <3>1. c + (n + 1) = c + n + 1 /\ (c + n + 1 <= N => c + n <= N)  BY <1>0, <2>0
    <3> QED  BY <1>5, <2>2, <3>1
  <2> HIDE DEF S
  <2> QED  BY <2>1, <2>2, Inductive
<1>7. P(N)
  <2>1. N - c \in Nat /\ c + (N - c) = N  BY <1>0
  <2> HIDE DEF P
  <2> QED  BY <1>0, <1>6, <2>1
<1>8. FlattenSeq(seqs) = g[N]  BY <1>1
<1> QED  BY <1>7, <1>8, Zenon DEF N

-----------------------------------------------------------------------------
(* Lists of instances                                                      *)

\* No instance ends before it begins.
Proper(s) == \A i \in DOMAIN s : s[i].start <= s[i].end

\* In the order of time; two of them may touch.
Ordered(s) == \A i, j \in DOMAIN s : i < j => s[i].end <= s[j].start

\* t is s with x behind it.
Added(s, x, t) ==
  /\ t \in Seq(Instance) /\ Len(t) = Len(s) + 1 /\ t[Len(t)] = x
  /\ \A i \in DOMAIN s : i \in DOMAIN t /\ i < Len(t) /\ t[i] = s[i]
  /\ \A i \in DOMAIN t : i \in DOMAIN s \/ i = Len(t)

\* The bounds of an instance are numbers.
LEMMA Bounds == \A x \in Instance : x.start \in Int /\ x.end \in Int
BY DEF Instance

\* An instance is pushed to the back unless it overlaps what is there.
LEMMA Pushed ==
  ASSUME NEW s \in Seq(Instance), NEW x \in Instance
  PROVE  \/ s # << >> /\ s[Len(s)].end > x.start /\ PushBack(s, x) = s
         \/ /\ s = << >> \/ s[Len(s)].end <= x.start
            /\ Added(s, x, PushBack(s, x))
<1>1. CASE s # << >> /\ Last(s).end > x.start
  BY <1>1 DEF PushBack, Last
<1>2. CASE ~(s # << >> /\ Last(s).end > x.start)
  <2>1. PushBack(s, x) = Append(s, x)  BY <1>2 DEF PushBack
  <2>2. Added(s, x, Append(s, x))  BY DEF Added
  <2>3. s = << >> \/ s[Len(s)].end <= x.start
    <3>1. CASE s # << >>
      <4>1. s[Len(s)] \in Instance  BY <3>1
      <4> QED  BY <1>2, <3>1, <4>1, Bounds DEF Last
    <3> QED  BY <3>1
  <2> QED  BY <2>1, <2>2, <2>3
<1> QED  BY <1>1, <1>2

\* An instance that does not end before it begins, behind what is in order.
LEMMA AddedInOrder ==
  ASSUME NEW s \in Seq(Instance), NEW x \in Instance, NEW t, Added(s, x, t),
         Ordered(s), Proper(s), x.start <= x.end, s = << >> \/ s[Len(s)].end <= x.start
  PROVE  Ordered(t) /\ Proper(t)
<1>0. \A i \in DOMAIN s : s[i].start \in Int /\ s[i].end \in Int /\ i \in 1 .. Len(s)
  <2> TAKE i \in DOMAIN s
  <2>1. s[i] \in Instance /\ i \in 1 .. Len(s)  OBVIOUS
  <2> QED  BY <2>1, Bounds
<1>1. x.start \in Int /\ x.end \in Int  BY Bounds
<1>2. Proper(t)  BY DEF Added, Proper
<1>3. ASSUME NEW i \in DOMAIN s PROVE s[i].end <= x.start
  <2>0. s # << >> /\ Len(s) \in DOMAIN s /\ Len(s) \in Nat  OBVIOUS
  <2>1. CASE i = Len(s)  BY <2>0, <2>1
  <2>2. CASE i # Len(s)
    <3>1. i < Len(s)  BY <1>0, <2>0, <2>2
    <3>2. s[i].end <= s[Len(s)].start  BY <2>0, <3>1 DEF Ordered
    <3>3. s[Len(s)].start <= s[Len(s)].end /\ s[Len(s)].end <= x.start  BY <2>0 DEF Proper
    <3> QED  BY <1>0, <1>1, <2>0, <3>2, <3>3
  <2> QED  BY <2>1, <2>2
<1>4. ASSUME NEW i \in DOMAIN t, NEW j \in DOMAIN t, i < j PROVE t[i].end <= t[j].start
  <2>0. i \in 1 .. Len(t) /\ j \in 1 .. Len(t) /\ Len(t) \in Nat  BY DEF Added
  <2>1. i # Len(t)  BY <1>4, <2>0
  <2>2. i \in DOMAIN s /\ t[i] = s[i]  BY <2>1 DEF Added
  <2>3. CASE j = Len(t)  BY <1>3, <2>2, <2>3 DEF Added
  <2>4. CASE j # Len(t)
    <3>1. j \in DOMAIN s /\ t[j] = s[j]  BY <2>4 DEF Added
    <3> QED  BY <1>4, <2>2, <3>1 DEF Ordered
  <2> QED  BY <2>3, <2>4
<1> QED  BY <1>2, <1>4 DEF Ordered

\* CompatibleInstances::extend yields a list in order, of instances it was given.
LEMMA ExtendOrders ==
  ASSUME NEW l \in Seq(Instance), Proper(l)
  PROVE  LET e == Extend(<< >>, l) IN
         /\ e \in Seq(Instance) /\ Ordered(e) /\ Proper(e)
         /\ \A i \in DOMAIN e : \E m \in DOMAIN l : e[i] = l[m]
<1> DEFINE N == Len(l)
<1>1. PICK g : /\ g \in [0 .. N -> Seq(Instance)] /\ g[0] = << >>
               /\ \A n \in 1 .. N : g[n] = PushBack(g[n - 1], l[n])
               /\ Extend(<< >>, l) = g[N]
  <2>1. << >> \in Seq(Instance)  OBVIOUS
  <2>2. \E g : Extending(g, << >>, l)  BY <2>1, Extends, Zenon
  <2> QED  BY <2>2, Zenon DEF Extending
<1>0. N \in Nat /\ DOMAIN l = 1 .. N /\ \A n \in 1 .. N : l[n] \in Instance  OBVIOUS
<1> DEFINE P(n) == /\ Ordered(g[n]) /\ Proper(g[n])
                   /\ \A i \in DOMAIN g[n] : \E m \in 1 .. n : g[n][i] = l[m]
           S == {n \in Nat : n <= N => P(n)}
<1> HIDE DEF N
<1>2. P(0)
  <2>1. DOMAIN g[0] = {}  BY <1>1
  <2> QED  BY <2>1 DEF Ordered, Proper
<1>3. ASSUME NEW n \in Nat, n + 1 <= N, P(n) PROVE P(n + 1)
  <2> DEFINE s == g[n]
             x == l[n + 1]
             t == g[n + 1]
  <2>1. n \in 0 .. N /\ n + 1 \in 1 .. N /\ n + 1 \in 0 .. N /\ (n + 1) - 1 = n  BY <1>0, <1>3
  <2>2. s \in Seq(Instance) /\ x \in Instance /\ t = PushBack(s, x)
    BY <1>0, <1>1, <2>1
  <2>3. x.start <= x.end  BY <1>0, <2>1 DEF Proper
  <2>4. \A m \in 1 .. n : m \in 1 .. n + 1  OBVIOUS
  <2>5. n + 1 \in 1 .. n + 1  OBVIOUS
  <2>6. CASE t = s  BY <1>3, <2>4, <2>6
  <2>7. CASE Added(s, x, t) /\ (s = << >> \/ s[Len(s)].end <= x.start)
    <3>1. Ordered(t) /\ Proper(t)
      <4> HIDE DEF s, x, t
      <4>1. Ordered(s) /\ Proper(s)  BY <1>3 DEF s
      <4> QED  BY <2>2, <2>3, <2>7, <4>1, AddedInOrder
    <3>2. ASSUME NEW i \in DOMAIN t PROVE \E m \in 1 .. n + 1 : t[i] = l[m]
      <4>1. CASE i \in DOMAIN s
        <5>1. t[i] = s[i]  BY <2>7, <4>1 DEF Added
        <5>2. PICK m \in 1 .. n : s[i] = l[m]  BY <1>3, <4>1
        <5> QED  BY <2>4, <5>1, <5>2
      <4>2. CASE i = Len(t)  BY <2>5, <2>7, <4>2 DEF Added
      <4> QED  BY <2>7, <4>1, <4>2 DEF Added
    <3> QED  BY <3>1, <3>2
  <2>8. (t = s) \/ (Added(s, x, t) /\ (s = << >> \/ s[Len(s)].end <= x.start))
    <3> HIDE DEF s, x, t
    <3> QED  BY <2>2, Pushed
  <2> QED  BY <2>6, <2>7, <2>8
<1>4. P(N)
  <2> HIDE DEF P
  <2>1. 0 \in S  BY <1>2
  <2>2. ASSUME NEW n \in Nat, n \in S PROVE n + 1 \in S  BY <1>0, <1>3, <2>2
  <2>3. Nat \subseteq S
    <3> HIDE DEF S
    <3> QED  BY <2>1, <2>2, Inductive
  <2> QED  BY <1>0, <2>3
<1>5. g[N] \in Seq(Instance)
  <2>1. N \in 0 .. N  BY <1>0
  <2> QED  BY <1>1, <2>1
<1>6. Extend(<< >>, l) = g[N] /\ DOMAIN l = 1 .. N  BY <1>0, <1>1
<1> QED  BY <1>4, <1>5, <1>6

\* e begins with the first n of l, and what follows them is from behind them and does
\* not start at `from`.
KeepsFirst(e, l, n, from) ==
  /\ \A i \in 1 .. n : i \in DOMAIN e /\ e[i] = l[i]
  /\ \A i \in DOMAIN e : i > n => \E m \in DOMAIN l : m > n /\ e[i] = l[m] /\ l[m].start # from

\* The first instances of a list are kept if they are in order, and of those behind,
\* the ones that would start before the last of them ends are not added.
LEMMA ExtendKeepsFirst ==
  ASSUME NEW l \in Seq(Instance), NEW n \in Nat, n <= Len(l), NEW from \in Int, Proper(l),
         \A i, j \in 1 .. n : i < j => l[i].end <= l[j].start,
         n < Len(l) => n > 0 /\ l[n].end > from
  PROVE  KeepsFirst(Extend(<< >>, l), l, n, from)
<1> DEFINE N == Len(l)
<1>1. PICK g : /\ g \in [0 .. N -> Seq(Instance)] /\ g[0] = << >>
               /\ \A k \in 1 .. N : g[k] = PushBack(g[k - 1], l[k])
               /\ Extend(<< >>, l) = g[N]
  <2>1. << >> \in Seq(Instance)  OBVIOUS
  <2>2. \E g : Extending(g, << >>, l)  BY <2>1, Extends, Zenon
  <2> QED  BY <2>2, Zenon DEF Extending
<1>0. /\ N \in Nat /\ DOMAIN l = 1 .. N /\ n <= N
      /\ \A k \in 1 .. N : l[k] \in Instance /\ l[k].start \in Int /\ l[k].end \in Int
  <2>1. \A k \in 1 .. N : l[k] \in Instance  OBVIOUS
  <2> QED  BY <2>1, Bounds
<1>p. \A k \in 1 .. N : l[k].start <= l[k].end  BY <1>0 DEF Proper
<1> DEFINE First(k) == Len(g[k]) = k /\ \A i \in 1 .. k : g[k][i] = l[i]
           Rest(k) == /\ KeepsFirst(g[k], l, n, from)
                      /\ n > 0 => g[k] # << >> /\ (n < N => g[k][Len(g[k])].end > from)
           S == {k \in Nat : k <= n => First(k)}
           T == {k \in Nat : n + k <= N => Rest(n + k)}
<1> HIDE DEF N
<1>2. First(0)
  <2>1. Len(g[0]) = 0 /\ 1 .. 0 = {}  BY <1>1
  <2> QED  BY <2>1
<1>3. ASSUME NEW k \in Nat, k + 1 <= n, First(k) PROVE First(k + 1)
  <2> DEFINE s == g[k]
             x == l[k + 1]
             t == g[k + 1]
  <2>1. k \in 0 .. N /\ k + 1 \in 1 .. N /\ (k + 1) - 1 = k /\ k + 1 \in 1 .. n  BY <1>0, <1>3
  <2>2. s \in Seq(Instance) /\ x \in Instance /\ t = PushBack(s, x)
    BY <1>0, <1>1, <2>1
  <2>3. s = << >> \/ s[Len(s)].end <= x.start
    <3>1. CASE k = 0  BY <1>3, <2>2, <3>1
    <3>2. CASE k # 0
      <4>1. k \in 1 .. n /\ k \in 1 .. k /\ k < k + 1  BY <2>1, <3>2
      <4>2. l[k].end <= l[k + 1].start  BY <2>1, <4>1
      <4>3. s[Len(s)] = l[k]  BY <1>3, <4>1
      <4> QED  BY <4>2, <4>3
    <3> QED  BY <3>1, <3>2
  <2>4. Added(s, x, t)
    <3>0. s # << >> => s[Len(s)].end \in Int
      <4>1. s # << >> => s[Len(s)] \in Instance  BY <2>2
      <4> QED  BY <4>1, Bounds
    <3>1. x.start \in Int  BY <2>2, Bounds
    <3>2. ~(s # << >> /\ s[Len(s)].end > x.start)  BY <2>3, <3>0, <3>1
    <3> HIDE DEF s, x, t
    <3> QED  BY <2>2, <3>2, Pushed
  <2>5. Len(t) = k + 1  BY <1>3, <2>4 DEF Added
  <2>6. ASSUME NEW i \in 1 .. k + 1 PROVE t[i] = l[i]
    <3>1. CASE i = k + 1  BY <2>4, <2>5, <3>1 DEF Added
    <3>2. CASE i # k + 1
      <4>1. i \in 1 .. k  BY <3>2
      <4>2. i \in DOMAIN s  BY <1>3, <2>2, <4>1
      <4> QED  BY <1>3, <2>4, <4>1, <4>2 DEF Added
    <3> QED  BY <3>1, <3>2
  <2> QED  BY <2>5, <2>6
<1>4. First(n)
  <2> HIDE DEF First
  <2>1. 0 \in S  BY <1>2
  <2>2. ASSUME NEW k \in Nat, k \in S PROVE k + 1 \in S  BY <1>3, <2>2
  <2>3. Nat \subseteq S
    <3> HIDE DEF S
    <3> QED  BY <2>1, <2>2, Inductive
  <2> QED  BY <2>3
<1>5. Rest(n)
  <2>0. n \in 0 .. N  BY <1>0
  <2>1. g[n] \in Seq(Instance)  BY <1>1, <2>0
  <2>2. DOMAIN g[n] = 1 .. n  BY <1>4, <2>1
  <2>3. KeepsFirst(g[n], l, n, from)  BY <1>4, <2>2 DEF KeepsFirst
  <2>4. ASSUME n > 0 PROVE g[n] # << >> /\ (n < N => g[n][Len(g[n])].end > from)
    <3>1. n \in 1 .. n  BY <2>4
    <3>2. g[n][Len(g[n])] = l[n]  BY <1>4, <3>1
    <3>3. g[n] # << >>  BY <1>4, <2>4
    <3> QED  BY <3>2, <3>3 DEF N
  <2> QED  BY <2>3, <2>4
<1>6. ASSUME NEW k \in Nat, k >= n, k + 1 <= N, Rest(k) PROVE Rest(k + 1)
  <2> DEFINE s == g[k]
             x == l[k + 1]
             t == g[k + 1]
  <2>1. /\ k \in 0 .. N /\ k + 1 \in 1 .. N /\ (k + 1) - 1 = k /\ k + 1 > n /\ n < N /\ n > 0
        /\ k + 1 \in DOMAIN l
    <3>1. n < N  BY <1>0, <1>6
    <3>2. n > 0  BY <3>1 DEF N
    <3> QED  BY <1>0, <1>6, <3>1, <3>2
  <2>2. s \in Seq(Instance) /\ x \in Instance /\ t = PushBack(s, x)
    BY <1>0, <1>1, <2>1
  <2>3. s # << >> /\ s[Len(s)].end > from /\ KeepsFirst(s, l, n, from)  BY <1>6, <2>1
  <2>4. x.start \in Int /\ x.end \in Int /\ x.start <= x.end  BY <1>0, <1>p, <2>1
  <2>5. s[Len(s)].end \in Int
    <3>1. s[Len(s)] \in Instance  BY <2>2, <2>3
    <3> QED  BY <3>1, Bounds
  <2>6. CASE t = s
    <3>1. Rest(k + 1)  BY <2>3, <2>6
    <3> QED  BY <3>1
  <2>7. CASE Added(s, x, t) /\ s[Len(s)].end <= x.start
    <3>1. x.start # from /\ x.end > from  BY <2>3, <2>4, <2>5, <2>7
    <3>2. ASSUME NEW i \in 1 .. n PROVE i \in DOMAIN t /\ t[i] = l[i]
      <4>1. i \in DOMAIN s /\ s[i] = l[i]  BY <2>3 DEF KeepsFirst
      <4> QED  BY <2>7, <4>1 DEF Added
    <3>3. ASSUME NEW i \in DOMAIN t, i > n
          PROVE  \E m \in DOMAIN l : m > n /\ t[i] = l[m] /\ l[m].start # from
      <4>1. CASE i \in DOMAIN s
        <5>1. t[i] = s[i]  BY <2>7, <4>1 DEF Added
        <5>2. \E m \in DOMAIN l : m > n /\ s[i] = l[m] /\ l[m].start # from
          BY <2>3, <3>3, <4>1 DEF KeepsFirst
        <5> QED  BY <5>1, <5>2
      <4>2. CASE i = Len(t)
        <5>1. t[i] = l[k + 1]  BY <2>7, <4>2 DEF Added
        <5> QED  BY <2>1, <3>1, <5>1
      <4> QED  BY <2>7, <4>1, <4>2 DEF Added
    <3>4. t # << >> /\ t[Len(t)].end > from
      <4>1. t[Len(t)] = x /\ Len(t) = Len(s) + 1  BY <2>7 DEF Added
      <4>2. Len(s) \in Nat  BY <2>2
      <4>3. t # << >>
        <5>1. Len(t) # 0  BY <4>1, <4>2
        <5>2. Len(<< >>) = 0  OBVIOUS
        <5> QED  BY <5>1, <5>2, Zenon
      <4> QED  BY <3>1, <4>1, <4>3
    <3>5. KeepsFirst(t, l, n, from)
      <4> HIDE DEF t
      <4> QED  BY <3>2, <3>3 DEF KeepsFirst
    <3> QED  BY <3>4, <3>5
  <2>8. (t = s) \/ (Added(s, x, t) /\ (s[Len(s)].end <= x.start))
    <3> HIDE DEF s, x, t
    <3> QED  BY <2>2, <2>3, Pushed
  <2> QED  BY <2>6, <2>7, <2>8
<1>7. Rest(N)
  <2> HIDE DEF Rest
  <2>1. 0 \in T
    <3>1. n + 0 = n  OBVIOUS
    <3> QED  BY <1>5, <3>1
  <2>2. ASSUME NEW k \in Nat, k \in T PROVE k + 1 \in T
    <3> SUFFICES ASSUME n + (k + 1) <= N PROVE Rest(n + (k + 1))  OBVIOUS
    <3>1. n + (k + 1) = (n + k) + 1 /\ n + k \in Nat /\ n + k >= n /\ n + k <= N /\ (n + k) + 1 <= N
      BY <1>0
    <3>2. Rest(n + k)  BY <2>2, <3>1
    <3>3. Rest((n + k) + 1)  BY <1>6, <3>1, <3>2
    <3> QED  BY <3>1, <3>3
  <2>3. Nat \subseteq T
    <3> HIDE DEF T
    <3> QED  BY <2>1, <2>2, Inductive
  <2>4. N - n \in Nat /\ n + (N - n) = N /\ N <= N  BY <1>0
  <2>5. N - n \in T
    <3> HIDE DEF T
    <3> QED  BY <2>3, <2>4
  <2>6. Rest(n + (N - n))  BY <2>4, <2>5
  <2> QED  BY <2>4, <2>6
<1>8. KeepsFirst(g[N], l, n, from)  BY <1>7
<1> QED  BY <1>1, <1>8, Zenon

-----------------------------------------------------------------------------
(* What the busy instances leave of one free instance                      *)

\* The five ways a free instance and a busy one meet, by their bounds, and what is
\* left in each.
LEMMA Kinds ==
  ASSUME NEW f \in Instance, NEW b \in Instance
  PROVE  LET found == RemoveInstance(f, b) IN
         \/ found.kind = "NoOverlap" /\ (b.end <= f.start \/ f.end < b.start)
         \/ /\ found.kind = "Empty"
            /\ b.start <= f.start /\ f.end <= b.end /\ f.start < b.end /\ b.start <= f.end
         \/ /\ found.kind = "Split" /\ found.rest = Join(Before(f, b), After(f, b))
            /\ f.start < b.start /\ b.end < f.end /\ f.start < b.end /\ b.start <= f.end
         \/ /\ found.kind = "OverlapBeginning" /\ found.rest = << After(f, b) >>
            /\ b.start <= f.start /\ b.end < f.end /\ f.start < b.end
         \/ /\ found.kind = "OverlapEnd" /\ found.rest = << Before(f, b) >>
            /\ f.start < b.start /\ f.end <= b.end /\ f.start < b.end /\ b.start <= f.end
<1>0. f.start \in Int /\ f.end \in Int /\ b.start \in Int /\ b.end \in Int  BY Bounds
<1> QED  BY <1>0 DEF RemoveInstance, HasOverlap

\* A part of f that is shorter than f.
Shorter(x, f) == x \in Instance /\ x.start < x.end /\ x.end - x.start < f.end - f.start

\* What is cut behind a busy instance is shorter, so that a cut looks up nothing else.
LEMMA CutLooksUpShorter ==
  ASSUME NEW f \in Instance, NEW b \in Instance, NEW k, NEW v, NEW w,
         \A x : Shorter(x, f) => v[x] = w[x]
  PROVE  Cut(f, b, k, v) = Cut(f, b, k, w)
<1>0. f.start \in Int /\ f.end \in Int /\ b.start \in Int /\ b.end \in Int  BY Bounds
<1> DEFINE p == Before(f, b)
           q == After(f, b)
           found == RemoveInstance(f, b)
<1>1. q \in Instance /\ q.start = b.end /\ q.end = f.end  BY Pieces
<1>2. ASSUME f.start < b.end, b.end < f.end PROVE v[q] = w[q]
  <2>1. Shorter(q, f)  BY <1>0, <1>1, <1>2 DEF Shorter
  <2> QED  BY <2>1
<1>3. Len(Join(p, q)) = 2 => Join(p, q)[2] = q
  <2>1. Len(<< Merge(q, p) >>) = 1 /\ << p, q >>[2] = q  OBVIOUS
  <2> QED  BY <2>1 DEF Join
<1>4. CASE found.kind = "NoOverlap"  BY <1>4 DEF Cut
<1>5. CASE found.kind = "Empty"  BY <1>5 DEF Cut
<1>6. CASE found.kind = "OverlapEnd"  BY <1>6 DEF Cut
<1>7. CASE /\ found.kind = "Split" /\ found.rest = Join(p, q)
           /\ b.end < f.end /\ f.start < b.end
  <2>1. v[q] = w[q]  BY <1>2, <1>7
  <2> HIDE DEF p, q
  <2>2. Len(found.rest) = 2 => v[found.rest[2]] = w[found.rest[2]]  BY <1>3, <1>7, <2>1
  <2> HIDE DEF found
  <2> QED  BY <1>7, <2>2 DEF Cut, found
<1>8. CASE found.kind = "OverlapBeginning" /\ found.rest = << q >> /\ b.end < f.end /\ f.start < b.end
  <2>1. v[found.rest[1]] = w[found.rest[1]]  BY <1>2, <1>8
  <2> QED  BY <1>8, <2>1 DEF Cut
<1> QED  BY <1>4, <1>5, <1>6, <1>7, <1>8, Kinds

\* The busy instances that are visited are those after the first `skip` that begin
\* before the free one ends, up to the first that does not.
LEMMA Visits ==
  ASSUME NEW f \in Instance, NEW busy \in Seq(Instance), NEW skip \in Nat
  PROVE  LET n == Visited(f, busy, skip) IN
         /\ n \in Nat
         /\ \A k \in 1 .. n : skip + k \in DOMAIN busy /\ busy[skip + k].start < f.end
         /\ skip + n + 1 \in DOMAIN busy => busy[skip + n + 1].start >= f.end
<1> DEFINE N == Len(busy)
           S == {n \in 1 .. N - skip : \A k \in 1 .. n : busy[skip + k].start < f.end}
           V == {0} \cup S
           n == Max(V)
<1>0. N \in Nat /\ DOMAIN busy = 1 .. N  OBVIOUS
<1>1. V \subseteq 0 .. N /\ V # {}
  <2>1. 1 .. N - skip \subseteq 0 .. N  BY <1>0
  <2>2. 0 \in 0 .. N  BY <1>0
  <2> QED  BY <2>1, <2>2
<1>2. n \in V /\ \A x \in V : n >= x
  <2> HIDE DEF V, N
  <2> QED  BY <1>0, <1>1, MaxOf
<1>3. Visited(f, busy, skip) = n  BY DEF Visited
<1> HIDE DEF n
<1>4. n \in Nat  BY <1>1, <1>2
<1>5. ASSUME NEW k \in 1 .. n PROVE skip + k \in DOMAIN busy /\ busy[skip + k].start < f.end
  <2>1. n \in S  BY <1>2, <1>4
  <2>2. n \in 1 .. N - skip /\ \A j \in 1 .. n : busy[skip + j].start < f.end  BY <2>1
  <2>3. skip + k \in 1 .. N
    <3> HIDE DEF N
    <3> QED  BY <1>0, <1>4, <2>2
  <2> QED  BY <1>0, <2>2, <2>3
<1>6. ASSUME skip + n + 1 \in DOMAIN busy PROVE busy[skip + n + 1].start >= f.end
  <2>1. ~(n + 1 \in V)
    <3>1. ~(n >= n + 1)  BY <1>4
    <3> HIDE DEF V
    <3> QED  BY <1>2, <3>1
  <2>2. n + 1 \in 1 .. N - skip  BY <1>0, <1>4, <1>6
  <2>3. ~(\A j \in 1 .. n + 1 : busy[skip + j].start < f.end)  BY <2>1, <2>2
  <2>4. PICK j \in 1 .. n + 1 : ~(busy[skip + j].start < f.end)  BY <2>3
  <2>5. j = n + 1
    <3>1. ~(j \in 1 .. n)  BY <1>5, <2>4
    <3> QED  BY <1>4, <3>1
  <2>6. ~(busy[skip + n + 1].start < f.end)
    <3>1. skip + j = skip + n + 1  BY <1>4, <2>5
    <3> QED  BY <2>4, <3>1
  <2>7. busy[skip + n + 1] \in Instance  BY <1>6
  <2>8. busy[skip + n + 1].start \in Int /\ f.end \in Int  BY <2>7, Bounds
  <2> QED  BY <2>6, <2>8
<1> QED  BY <1>3, <1>4, <1>5, <1>6

\* What is left of f depends on what is left of shorter instances only.
LEMMA LeftLooksUpShorter ==
  ASSUME NEW busy \in Seq(Instance), NEW f \in Instance, NEW skip \in Nat, NEW v, NEW w,
         \A x : Shorter(x, f) => v[x] = w[x]
  PROVE  LeftOf(f, busy, skip, v) = LeftOf(f, busy, skip, w)
<1> DEFINE n == Visited(f, busy, skip)
           cuts(u) == [k \in 1 .. n |-> Cut(f, busy[skip + k], k, u)]
<1>1. ASSUME NEW k \in 1 .. n PROVE Cut(f, busy[skip + k], k, v) = Cut(f, busy[skip + k], k, w)
  <2>1. skip + k \in DOMAIN busy  BY Visits
  <2>2. busy[skip + k] \in Instance  BY <2>1
  <2> QED  BY <2>2, CutLooksUpShorter
<1>2. cuts(v) = cuts(w)  BY <1>1
<1>3. \A u : LeftOf(f, busy, skip, u) =
               IF n > 0 /\ RemoveInstance(f, busy[skip + n]).kind # "NoOverlap"
               THEN Extend(<< >>, FlattenSeq(cuts(u)))
               ELSE PushBack(Extend(<< >>, FlattenSeq(cuts(u))), f)
  BY DEF LeftOf
<1> HIDE DEF cuts, n
<1> QED  BY <1>2, <1>3

\* What is left of f after each number of busy instances.
Row(busy, f, w) == [skip \in Nat |-> LeftOf(f, busy, skip, w)]

\* w is right about all instances shorter than n.
Solves(busy, w, n) ==
  \A f \in Instance : f.end - f.start < n => w[f] = Row(busy, f, w)

\* Two that are right about shorter instances say the same of f.
LEMMA SameRow ==
  ASSUME NEW busy \in Seq(Instance), NEW f \in Instance, NEW v, NEW w,
         \A x : Shorter(x, f) => v[x] = w[x]
  PROVE  Row(busy, f, v) = Row(busy, f, w)
BY LeftLooksUpShorter DEF Row

\* What is right about instances shorter than n says how to be right about more.
LEMMA SolvesMore ==
  ASSUME NEW busy \in Seq(Instance), NEW n \in Nat, NEW w, Solves(busy, w, n)
  PROVE  Solves(busy, [f \in Instance |-> Row(busy, f, w)], n + 1)
<1> DEFINE v == [f \in Instance |-> Row(busy, f, w)]
<1>1. ASSUME NEW f \in Instance, f.end - f.start < n + 1 PROVE v[f] = Row(busy, f, v)
  <2>0. f.start \in Int /\ f.end \in Int  BY Bounds
  <2>1. ASSUME NEW x, Shorter(x, f) PROVE w[x] = v[x]
    <3>1. x \in Instance /\ x.start \in Int /\ x.end \in Int  BY <2>1, Bounds DEF Shorter
    <3>2. x.end - x.start < n  BY <1>1, <2>0, <2>1, <3>1 DEF Shorter
    <3>3. w[x] = Row(busy, x, w)  BY <3>1, <3>2 DEF Solves
    <3>4. v[x] = Row(busy, x, w)  BY <3>1
    <3> QED  BY <3>3, <3>4
  <2>2. Row(busy, f, w) = Row(busy, f, v)
    <3> HIDE DEF v
    <3> QED  BY <2>1, SameRow
  <2>3. v[f] = Row(busy, f, w)  OBVIOUS
  <2> QED  BY <2>2, <2>3
<1> HIDE DEF v
<1>2. Solves(busy, v, n + 1)  BY <1>1 DEF Solves
<1> QED  BY <1>2 DEF v

\* There is one that is right about all shorter than n, for every n.
LEMMA SolvesExist ==
  ASSUME NEW busy \in Seq(Instance), NEW n \in Nat
  PROVE  \E w : Solves(busy, w, n)
<1> DEFINE S == {m \in Nat : \E w : Solves(busy, w, m)}
<1>1. 0 \in S
  <2> DEFINE u == [f \in Instance |-> << >>]
             w == [f \in Instance |-> Row(busy, f, u)]
  <2>1. ASSUME NEW f \in Instance, f.end - f.start < 0 PROVE w[f] = Row(busy, f, w)
    <3>1. f.start \in Int /\ f.end \in Int  BY Bounds
    <3>2. ASSUME NEW x, Shorter(x, f) PROVE FALSE
      <4>1. x.start \in Int /\ x.end \in Int  BY <3>2, Bounds DEF Shorter
      <4> QED  BY <2>1, <3>1, <3>2, <4>1 DEF Shorter
    <3>3. w[f] = Row(busy, f, u)  OBVIOUS
    <3> HIDE DEF u, w
    <3>4. Row(busy, f, u) = Row(busy, f, w)  BY <3>2, SameRow
    <3> QED  BY <3>3, <3>4
  <2> HIDE DEF w
  <2>2. Solves(busy, w, 0)  BY <2>1 DEF Solves
  <2> QED  BY <2>2
<1>2. ASSUME NEW m \in Nat, m \in S PROVE m + 1 \in S
  <2>1. PICK w : Solves(busy, w, m)  BY <1>2
  <2>2. Solves(busy, [f \in Instance |-> Row(busy, f, w)], m + 1)  BY <2>1, SolvesMore
  <2>3. \E v : Solves(busy, v, m + 1)  BY <2>2
  <2> QED  BY <2>3
<1>3. n \in S
  <2> HIDE DEF S
  <2> QED  BY <1>1, <1>2, Inductive
<1> QED  BY <1>3

\* Two that are right about all shorter than m, and than n, agree where both are.
LEMMA SolvesAgree ==
  ASSUME NEW busy \in Seq(Instance), NEW m \in Nat, NEW n \in Nat, m <= n, NEW v, NEW w,
         Solves(busy, v, m), Solves(busy, w, n),
         NEW f \in Instance, f.end - f.start < m
  PROVE  v[f] = w[f]
<1> DEFINE P(x, k) == x.end - x.start < k /\ x.end - x.start < m => v[x] = w[x]
           S == {k \in Nat : \A x \in Instance : P(x, k)}
<1>1. ASSUME NEW x \in Instance, x.end - x.start < m, \A y : Shorter(y, x) => v[y] = w[y]
      PROVE  v[x] = w[x]
  <2>0. x.start \in Int /\ x.end \in Int  BY Bounds
  <2>1. v[x] = Row(busy, x, v)  BY <1>1 DEF Solves
  <2>2. x.end - x.start < n  BY <1>1, <2>0
  <2>3. w[x] = Row(busy, x, w)  BY <2>2 DEF Solves
  <2>4. Row(busy, x, v) = Row(busy, x, w)  BY <1>1, SameRow
  <2> QED  BY <2>1, <2>3, <2>4
<1>2. 0 \in S
  <2>1. ASSUME NEW x \in Instance, x.end - x.start < 0, x.end - x.start < m PROVE v[x] = w[x]
    <3>0. x.start \in Int /\ x.end \in Int  BY Bounds
    <3>1. ASSUME NEW y, Shorter(y, x) PROVE FALSE
      <4>1. y.start \in Int /\ y.end \in Int  BY <3>1, Bounds DEF Shorter
      <4> QED  BY <2>1, <3>0, <3>1, <4>1 DEF Shorter
    <3> QED  BY <1>1, <2>1, <3>1
  <2> QED  BY <2>1
<1>3. ASSUME NEW k \in Nat, k \in S PROVE k + 1 \in S
  <2>1. ASSUME NEW x \in Instance, x.end - x.start < k + 1, x.end - x.start < m
        PROVE  v[x] = w[x]
    <3>0. x.start \in Int /\ x.end \in Int  BY Bounds
    <3>1. ASSUME NEW y, Shorter(y, x) PROVE v[y] = w[y]
      <4>1. y \in Instance /\ y.start \in Int /\ y.end \in Int  BY <3>1, Bounds DEF Shorter
      <4>2. y.end - y.start < k /\ y.end - y.start < m
        BY <2>1, <3>0, <3>1, <4>1 DEF Shorter
      <4> QED  BY <1>3, <4>1, <4>2
    <3> QED  BY <1>1, <2>1, <3>1
  <2> QED  BY <2>1
<1>4. m \in S
  <2> HIDE DEF S
  <2> QED  BY <1>2, <1>3, Inductive
<1> QED  BY <1>4

\* The recursion of remove_instances is well defined: it ends, since what is cut
\* again is shorter.
LEMMA WithoutIs ==
  ASSUME NEW busy \in Seq(Instance), NEW f \in Instance, NEW skip \in Nat
  PROVE  Without(busy)[f][skip] = LeftOf(f, busy, skip, Without(busy))
<1> DEFINE D(x) == IF x.start <= x.end THEN (x.end - x.start) + 1 ELSE 0
           Best(n) == CHOOSE w : Solves(busy, w, n)
           W == [x \in Instance |-> Best(D(x))[x]]
           Step(w) == [x \in Instance |-> [s \in Nat |-> LeftOf(x, busy, s, w)]]
           without == CHOOSE w : w = Step(w)
<1>1. \A n \in Nat : Solves(busy, Best(n), n)  BY SolvesExist
<1>2. \A x \in Instance : D(x) \in Nat /\ x.end - x.start < D(x)
  <2> TAKE x \in Instance
  <2>1. x.start \in Int /\ x.end \in Int  BY Bounds
  <2> QED  BY <2>1
<1>3. \A x, y \in Instance : Shorter(x, y) => D(x) <= D(y)
  <2> TAKE x, y \in Instance
  <2>1. x.start \in Int /\ x.end \in Int /\ y.start \in Int /\ y.end \in Int  BY Bounds
  <2> QED  BY <2>1 DEF Shorter
<1> HIDE DEF Best, D
<1>4. ASSUME NEW x \in Instance PROVE W[x] = Row(busy, x, W)
  <2>1. W[x] = Best(D(x))[x]  OBVIOUS
  <2>2. Best(D(x))[x] = Row(busy, x, Best(D(x)))  BY <1>1, <1>2 DEF Solves
  <2>3. ASSUME NEW y, Shorter(y, x) PROVE Best(D(x))[y] = W[y]
    <3>1. y \in Instance  BY <2>3 DEF Shorter
    <3>2. W[y] = Best(D(y))[y]  BY <3>1
    <3>3. Best(D(y))[y] = Best(D(x))[y]
      <4> HIDE DEF W
      <4> QED  BY <1>1, <1>2, <1>3, <2>3, <3>1, SolvesAgree
    <3> QED  BY <3>2, <3>3
  <2>4. Row(busy, x, Best(D(x))) = Row(busy, x, W)
    <3> HIDE DEF W
    <3> QED  BY <2>3, SameRow
  <2> QED  BY <2>1, <2>2, <2>4
<1>5. W = Step(W)
  <2>1. \A x \in Instance : W[x] = [s \in Nat |-> LeftOf(x, busy, s, W)]
    BY <1>4 DEF Row
  <2>2. W = [x \in Instance |-> W[x]]  OBVIOUS
  <2> HIDE DEF W
  <2> QED  BY <2>1, <2>2
<1>6. without = Step(without)
  <2> HIDE DEF Step, W
  <2> QED  BY <1>5
<1>7. Without(busy) = without  BY DEF Without
<1> HIDE DEF without
<1>8. without[f] = [s \in Nat |-> LeftOf(f, busy, s, without)]  BY <1>6
<1> QED  BY <1>7, <1>8

\* The busy instances that lie strictly inside f take some time.
Fits(f, busy) ==
  \A j \in DOMAIN busy :
    f.start < busy[j].start /\ busy[j].end < f.end => busy[j].start < busy[j].end

\* The first s busy instances are over when f begins.
Past(f, busy, s) == \A j \in DOMAIN busy : j <= s => busy[j].end <= f.start

MeetsNone(a, busy) == \A j \in DOMAIN busy : ~Meets(a, busy[j])

\* One of the instances of r holds all of a.
Holds(r, a) == \E i \in DOMAIN r : r[i].start <= a.start /\ a.end <= r[i].end

\* r holds every time within f, however long, that meets no busy instance.
HoldsFree(r, f, busy) ==
  \A a \in Instance :
    a.start < a.end /\ f.start <= a.start /\ a.end <= f.end /\ MeetsNone(a, busy) => Holds(r, a)

\* x lies within f, and takes some time if f does.
Part(x, f) ==
  /\ f.start <= x.start /\ x.start <= x.end /\ x.end <= f.end
  /\ f.start < f.end => x.start < x.end

\* r is exactly what the busy instances leave of f.
Left(r, f, busy) ==
  /\ r \in Seq(Instance) /\ Ordered(r) /\ HoldsFree(r, f, busy)
  /\ \A i \in DOMAIN r : Part(r[i], f) /\ MeetsNone(r[i], busy)

\* r is what is left when one busy instance is removed from f, and what lies behind
\* it is cut further: what begins with f may still meet others.
CutLeaves(r, f, busy) ==
  /\ r \in Seq(Instance) /\ Ordered(r) /\ HoldsFree(r, f, busy)
  /\ \A i \in DOMAIN r : Part(r[i], f) /\ (r[i].start # f.start => MeetsNone(r[i], busy))

\* An instance is put in front of those that begin after it has ended.
LEMMA PutInFront ==
  ASSUME NEW p \in Instance, NEW x \in Seq(Instance), \A i \in DOMAIN x : p.end <= x[i].start
  PROVE  LET r == PushFront(x, p) IN
         /\ r \in Seq(Instance) /\ 1 \in DOMAIN r /\ r[1] = p
         /\ \A i \in DOMAIN x : i + 1 \in DOMAIN r /\ r[i + 1] = x[i]
         /\ \A i \in DOMAIN r : i # 1 => i - 1 \in DOMAIN x /\ r[i] = x[i - 1]
<1>1. ~(x # << >> /\ Head(x).start < p.end)
  <2>1. CASE x # << >>
    <3>1. 1 \in DOMAIN x /\ Head(x) = x[1] /\ x[1] \in Instance  BY <2>1
    <3>2. x[1].start \in Int /\ p.end \in Int  BY <3>1, Bounds
    <3> QED  BY <3>1, <3>2
  <2> QED  BY <2>1
<1>2. PushFront(x, p) = << p >> \o x  BY <1>1 DEF PushFront
<1> QED  BY <1>2

\* What remains of f when one busy instance that meets it is removed.
LEMMA CutIs ==
  ASSUME NEW f \in Instance, NEW busy \in Seq(Instance), NEW j \in DOMAIN busy, NEW k, NEW w,
         Fits(f, busy), busy[j].start <= busy[j].end,
         busy[j].start < f.end, f.start < busy[j].end,
         busy[j].end < f.end => Left(w[After(f, busy[j])][k], After(f, busy[j]), busy)
  PROVE  /\ CutLeaves(Cut(f, busy[j], k, w), f, busy)
         /\ \A i \in DOMAIN Cut(f, busy[j], k, w) :
              LET x == Cut(f, busy[j], k, w)[i]
              IN  x.start = f.start => x.end = busy[j].start
         /\ RemoveInstance(f, busy[j]).kind # "NoOverlap"
<1> DEFINE b == busy[j]
           p == Before(f, b)
           q == After(f, b)
           found == RemoveInstance(f, b)
           r == Cut(f, b, k, w)
<1>0. b \in Instance  OBVIOUS
<1>1. /\ f.start \in Int /\ f.end \in Int /\ b.start \in Int /\ b.end \in Int
      /\ p \in Instance /\ p.start = f.start /\ p.end = b.start
      /\ q \in Instance /\ q.start = b.end /\ q.end = f.end
  BY <1>0, Pieces, Bounds
<1>2. b.start <= b.end /\ b.start < f.end /\ f.start < b.end
      /\ (f.start < b.start /\ b.end < f.end => b.start < b.end)
  BY DEF Fits
<1>3. ASSUME NEW a \in Instance, a.start < a.end, f.start <= a.start, a.end <= f.end,
             MeetsNone(a, busy)
      PROVE  (f.start < b.start /\ a.end <= b.start) \/ (b.end < f.end /\ b.end <= a.start)
  <2>1. a.start \in Int /\ a.end \in Int  BY Bounds
  <2>2. ~(a.start < b.end /\ b.start < a.end)  BY <1>3 DEF MeetsNone, Meets
  <2> QED  BY <1>1, <1>2, <1>3, <2>1, <2>2
<1> DEFINE Good == /\ r \in Seq(Instance) /\ Ordered(r) /\ HoldsFree(r, f, busy)
                   /\ \A i \in DOMAIN r :
                        /\ Part(r[i], f)
                        /\ r[i].start # f.start => MeetsNone(r[i], busy)
                        /\ r[i].start = f.start => r[i].end = b.start
<1>4. CASE /\ found.kind = "Empty" /\ b.start <= f.start /\ f.end <= b.end
  <2>1. r = << >>  BY <1>4 DEF Cut
  <2>2. HoldsFree(r, f, busy)  BY <1>1, <1>3, <1>4 DEF HoldsFree
  <2>3. Good  BY <2>1, <2>2 DEF Ordered
  <2> QED  BY <1>4, <2>3 DEF CutLeaves
<1>5. CASE /\ found.kind = "OverlapEnd" /\ found.rest = << p >>
           /\ f.start < b.start /\ f.end <= b.end
  <2>1. r = << p >>  BY <1>5 DEF Cut
  <2> HIDE DEF p, q, r, found
  <2>2. r \in Seq(Instance) /\ DOMAIN r = {1} /\ r[1] = p  BY <1>1, <2>1
  <2>3. ASSUME NEW a \in Instance, a.start < a.end, f.start <= a.start, a.end <= f.end,
               MeetsNone(a, busy)
        PROVE  Holds(r, a)
    <3>1. a.end <= b.start  BY <1>1, <1>3, <1>5, <2>3
    <3> QED  BY <1>1, <2>2, <2>3, <3>1 DEF Holds
  <2>4. HoldsFree(r, f, busy)  BY <2>3 DEF HoldsFree
  <2>5. Part(p, f)  BY <1>1, <1>2, <1>5 DEF Part
  <2>6. Good  BY <1>1, <2>2, <2>4, <2>5 DEF Ordered
  <2>7. found.kind # "NoOverlap"  BY <1>5
  <2> QED  BY <2>6, <2>7 DEF CutLeaves, r, found
<1>6. CASE /\ found.kind = "OverlapBeginning" /\ found.rest = << q >>
           /\ b.start <= f.start /\ b.end < f.end
  <2>1. r = w[q][k]  BY <1>6 DEF Cut
  <2>2. Left(r, q, busy)  BY <1>6, <2>1
  <2> HIDE DEF p, q, r, found
  <2>3. ASSUME NEW i \in DOMAIN r
        PROVE  Part(r[i], f) /\ MeetsNone(r[i], busy) /\ r[i].start # f.start
    <3>1. r[i] \in Instance /\ Part(r[i], q) /\ MeetsNone(r[i], busy)  BY <2>2 DEF Left
    <3>2. r[i].start \in Int /\ r[i].end \in Int  BY <3>1, Bounds
    <3> QED  BY <1>1, <1>2, <1>6, <3>1, <3>2 DEF Part
  <2>4. ASSUME NEW a \in Instance, a.start < a.end, f.start <= a.start, a.end <= f.end,
               MeetsNone(a, busy)
        PROVE  Holds(r, a)
    <3>1. q.start <= a.start /\ a.end <= q.end  BY <1>1, <1>3, <1>6, <2>4
    <3> QED  BY <2>2, <2>4, <3>1 DEF Left, HoldsFree
  <2>5. HoldsFree(r, f, busy)  BY <2>4 DEF HoldsFree
  <2>6. Good  BY <2>2, <2>3, <2>5 DEF Left
  <2>7. found.kind # "NoOverlap"  BY <1>6
  <2> QED  BY <2>6, <2>7 DEF CutLeaves, r, found
<1>7. CASE /\ found.kind = "Split" /\ found.rest = Join(p, q)
           /\ f.start < b.start /\ b.end < f.end
  <2>0. b.start < b.end  BY <1>2, <1>7
  <2>1. ~HasOverlap(q, p)  BY <1>1, <2>0 DEF HasOverlap
  <2>2. found.rest = << p, q >>  BY <1>7, <2>1 DEF Join
  <2> DEFINE x == w[q][k]
  <2>3. r = PushFront(x, p)
    <3>1. Len(found.rest) = 2 /\ found.rest[1] = p /\ found.rest[2] = q  BY <2>2
    <3> QED  BY <1>7, <3>1 DEF Cut
  <2>4. Left(x, q, busy)  BY <1>7
  <2> HIDE DEF p, q, r, found, x
  <2>5. ASSUME NEW i \in DOMAIN x
        PROVE  /\ Part(x[i], f) /\ MeetsNone(x[i], busy) /\ x[i].start # f.start
               /\ p.end <= x[i].start
    <3>1. x[i] \in Instance /\ Part(x[i], q) /\ MeetsNone(x[i], busy)  BY <2>4 DEF Left
    <3>2. x[i].start \in Int /\ x[i].end \in Int  BY <3>1, Bounds
    <3> QED  BY <1>1, <1>2, <1>7, <3>1, <3>2 DEF Part
  <2>6. /\ r \in Seq(Instance) /\ 1 \in DOMAIN r /\ r[1] = p
        /\ \A i \in DOMAIN x : i + 1 \in DOMAIN r /\ r[i + 1] = x[i]
        /\ \A i \in DOMAIN r : i # 1 => i - 1 \in DOMAIN x /\ r[i] = x[i - 1]
    <3>1. x \in Seq(Instance)  BY <2>4 DEF Left
    <3>2. \A i \in DOMAIN x : p.end <= x[i].start  BY <2>5
    <3> QED  BY <1>1, <2>3, <3>1, <3>2, PutInFront
  <2>7. ASSUME NEW a \in Instance, a.start < a.end, f.start <= a.start, a.end <= f.end,
               MeetsNone(a, busy)
        PROVE  Holds(r, a)
    <3>1. CASE a.end <= b.start  BY <1>1, <2>6, <2>7, <3>1 DEF Holds
    <3>2. CASE b.end <= a.start
      <4>1. Holds(x, a)  BY <1>1, <2>4, <2>7, <3>2 DEF Left, HoldsFree
      <4>2. PICK i \in DOMAIN x : x[i].start <= a.start /\ a.end <= x[i].end
        BY <4>1 DEF Holds
      <4>3. i + 1 \in DOMAIN r /\ r[i + 1] = x[i]  BY <2>6
      <4>4. \E m \in DOMAIN r : r[m].start <= a.start /\ a.end <= r[m].end  BY <4>2, <4>3
      <4> QED  BY <4>4 DEF Holds
    <3> QED  BY <1>3, <2>7, <3>1, <3>2
  <2>8. HoldsFree(r, f, busy)  BY <2>7 DEF HoldsFree
  <2>9. Part(p, f)  BY <1>1, <1>2, <1>7 DEF Part
  <2>10. ASSUME NEW i \in DOMAIN r, NEW m \in DOMAIN r, i < m PROVE r[i].end <= r[m].start
    <3>0. i \in Nat /\ m \in Nat /\ i >= 1 /\ m >= 1
      <4>1. i \in 1 .. Len(r) /\ m \in 1 .. Len(r)  BY <2>6
      <4> QED  BY <4>1
    <3>1. m - 1 \in DOMAIN x /\ r[m] = x[m - 1]  BY <2>6, <2>10, <3>0
    <3>2. CASE i = 1  BY <2>5, <2>6, <3>1, <3>2
    <3>3. CASE i # 1
      <4>1. i - 1 \in DOMAIN x /\ r[i] = x[i - 1]  BY <2>6, <3>3
      <4>2. i - 1 < m - 1  BY <2>10, <3>0
      <4> QED  BY <2>4, <3>1, <4>1, <4>2 DEF Left, Ordered
    <3> QED  BY <3>2, <3>3
  <2>11. Ordered(r)  BY <2>10 DEF Ordered
  <2>12. ASSUME NEW i \in DOMAIN r
         PROVE  /\ Part(r[i], f)
                /\ r[i].start # f.start => MeetsNone(r[i], busy)
                /\ r[i].start = f.start => r[i].end = b.start
    <3>1. CASE i = 1  BY <1>1, <2>6, <2>9, <3>1
    <3>2. CASE i # 1  BY <2>5, <2>6, <3>2
    <3> QED  BY <3>1, <3>2
  <2>13. Good  BY <2>6, <2>8, <2>11, <2>12
  <2>14. found.kind # "NoOverlap"  BY <1>7
  <2> QED  BY <2>13, <2>14 DEF CutLeaves, r, found
<1>8. ~(b.end <= f.start \/ f.end < b.start)  BY <1>1, <1>2
<1> QED  BY <1>0, <1>4, <1>5, <1>6, <1>7, <1>8, Kinds

\* What the recursion may rely on: w is right about what is shorter than f.
RightBelow(w, f, busy) ==
  \A x, s :
    Shorter(x, f) /\ s \in Nat /\ Fits(x, busy) /\ Past(x, busy, s) => Left(w[x][s], x, busy)

\* The busy instances are in order, and apart.
Sound(busy) == busy \in Seq(Instance) /\ Proper(busy) /\ Apart(busy)

\* The order of the bounds of busy instances.
LEMMA InTurn ==
  ASSUME NEW busy, Sound(busy), NEW i \in DOMAIN busy, NEW j \in DOMAIN busy
  PROVE  /\ busy[i] \in Instance
         /\ i \in Nat /\ i >= 1 /\ busy[i].start \in Int /\ busy[i].end \in Int
         /\ busy[i].start <= busy[i].end
         /\ i < j => busy[i].end < busy[j].start
         /\ i <= j => busy[i].end <= busy[j].end
<1>0. /\ busy[i] \in Instance /\ busy[j] \in Instance
      /\ i \in Nat /\ j \in Nat /\ i >= 1
  <2>1. busy \in Seq(Instance)  BY DEF Sound
  <2>2. i \in 1 .. Len(busy) /\ j \in 1 .. Len(busy)  BY <2>1
  <2> QED  BY <2>1, <2>2
<1>1. /\ busy[i].start \in Int /\ busy[i].end \in Int
      /\ busy[j].start \in Int /\ busy[j].end \in Int
  BY <1>0, Bounds
<1>2. busy[i].start <= busy[i].end /\ busy[j].start <= busy[j].end  BY DEF Sound, Proper
<1>3. i < j => busy[i].end < busy[j].start  BY DEF Sound, Apart
<1> QED  BY <1>0, <1>1, <1>2, <1>3

\* A function on the first n positive numbers is a list.
LEMMA ListOf ==
  ASSUME NEW A, NEW n \in Nat, NEW s \in [1 .. n -> A]
  PROVE  s \in Seq(A) /\ Len(s) = n /\ DOMAIN s = 1 .. n
OBVIOUS

\* A list without elements is empty.
LEMMA NoElements ==
  ASSUME NEW A, NEW s \in Seq(A), \A i \in DOMAIN s : FALSE
  PROVE  s = << >>
<1>1. Len(s) \in Nat /\ DOMAIN s = 1 .. Len(s)  OBVIOUS
<1>2. Len(s) = 0
  <2>1. Len(s) # 0 => 1 \in DOMAIN s  BY <1>1
  <2> QED  BY <2>1
<1> QED  BY <1>2

\* Nothing is removed if none of the busy instances visited meets f.
LEMMA NothingCut ==
  ASSUME NEW busy, Sound(busy), NEW f \in Instance, NEW s \in Nat, NEW w,
         f.start <= f.end, Past(f, busy, s),
         \A k \in 1 .. Visited(f, busy, s) : busy[s + k].end <= f.start
  PROVE  Left(LeftOf(f, busy, s, w), f, busy)
<1> DEFINE n == Visited(f, busy, s)
           cuts == [k \in 1 .. n |-> Cut(f, busy[s + k], k, w)]
           pieces == Extend(<< >>, FlattenSeq(cuts))
<1>0. busy \in Seq(Instance)  BY DEF Sound
<1>1. f.start \in Int /\ f.end \in Int  BY Bounds
<1>2. /\ n \in Nat
      /\ \A k \in 1 .. n : s + k \in DOMAIN busy /\ busy[s + k].start < f.end
      /\ s + n + 1 \in DOMAIN busy => busy[s + n + 1].start >= f.end
  BY <1>0, Visits
<1>3. ASSUME NEW k \in 1 .. n
      PROVE  RemoveInstance(f, busy[s + k]).kind = "NoOverlap" /\ Cut(f, busy[s + k], k, w) = << >>
  <2>1. busy[s + k].end <= f.start /\ busy[s + k] \in Instance  BY <1>0, <1>2
  <2>2. ~(f.start < busy[s + k].end)  BY <1>1, <2>1, Bounds
  <2>3. RemoveInstance(f, busy[s + k]).kind = "NoOverlap"  BY <2>1, <2>2, Kinds
  <2> QED  BY <2>3 DEF Cut
<1>4. LeftOf(f, busy, s, w) =
        IF n > 0 /\ RemoveInstance(f, busy[s + n]).kind # "NoOverlap" THEN pieces
        ELSE PushBack(pieces, f)
  BY DEF LeftOf
<1>5. LeftOf(f, busy, s, w) = PushBack(pieces, f)
  <2>1. n > 0 => n \in 1 .. n  BY <1>2
  <2> HIDE DEF n, pieces
  <2> QED  BY <1>3, <1>4, <2>1
<1> HIDE DEF n
<1>6. cuts = [k \in 1 .. n |-> << >>]  BY <1>3
<1>7. cuts \in Seq(Seq(Instance))
  <2> DEFINE none == [k \in 1 .. n |-> << >>]
  <2>1. << >> \in Seq(Instance)  OBVIOUS
  <2>2. none \in Seq(Seq(Instance))  BY <1>2, <2>1
  <2> HIDE DEF cuts, none
  <2> QED  BY <1>6, <2>2 DEF none
<1>8. FlattenSeq(cuts) = << >>
  <2>1. FlattenSeq(cuts) \in Seq(Instance) /\ FromParts(FlattenSeq(cuts), cuts, Len(cuts))
    <3> HIDE DEF cuts
    <3> QED  BY <1>7, FlattenElements
  <2>2. Len(cuts) = n  BY <1>2
  <2> DEFINE l == FlattenSeq(cuts)
  <2>3. ASSUME NEW i \in DOMAIN l PROVE FALSE
    <3>1. PICK k \in 1 .. n : \E m \in DOMAIN cuts[k] : l[i] = cuts[k][m]
      <4> HIDE DEF cuts
      <4> QED  BY <2>1, <2>2 DEF FromParts
    <3>2. cuts[k] = << >>  BY <1>6
    <3> QED  BY <3>1, <3>2
  <2>4. l \in Seq(Instance)  BY <2>1
  <2>5. l = << >>
    <3> HIDE DEF l
    <3> QED  BY <2>3, <2>4, NoElements
  <2> QED  BY <2>5
<1>9. pieces = << >>
  <2>1. << >> \in Seq(Instance) /\ Proper(<< >>)  BY DEF Proper
  <2>2. /\ Extend(<< >>, << >>) \in Seq(Instance)
        /\ \A i \in DOMAIN Extend(<< >>, << >>) :
             \E m \in DOMAIN << >> : Extend(<< >>, << >>)[i] = << >>[m]
    BY <2>1, ExtendOrders
  <2> DEFINE e == Extend(<< >>, << >>)
  <2>3. \A i \in DOMAIN e : FALSE  BY <2>2
  <2>4. e = << >>
    <3>1. e \in Seq(Instance)  BY <2>2
    <3> HIDE DEF e
    <3> QED  BY <2>3, <3>1, NoElements
  <2> HIDE DEF cuts
  <2> QED  BY <1>8, <2>4
<1>10. LeftOf(f, busy, s, w) = << f >>
  <2>1. PushBack(<< >>, f) = << f >>  BY DEF PushBack
  <2> HIDE DEF pieces
  <2> QED  BY <1>5, <1>9, <2>1
<1>11. MeetsNone(f, busy)
  <2>1. ASSUME NEW j \in DOMAIN busy PROVE ~Meets(f, busy[j])
    <3>0. j \in Nat /\ busy[j].start \in Int /\ busy[j].end \in Int
          /\ busy[j].start <= busy[j].end
      BY InTurn
    <3>1. CASE j <= s
      <4>1. busy[j].end <= f.start  BY <3>1 DEF Past
      <4> QED  BY <1>1, <3>0, <4>1 DEF Meets
    <3>2. CASE j > s /\ j <= s + n
      <4>1. j - s \in 1 .. n /\ s + (j - s) = j  BY <1>2, <3>0, <3>2
      <4>2. busy[s + (j - s)].end <= f.start  BY <4>1 DEF n
      <4> QED  BY <1>1, <3>0, <4>1, <4>2 DEF Meets
    <3>3. CASE j > s + n
      <4>1. s + n + 1 \in DOMAIN busy
        <5>1. j \in 1 .. Len(busy)  BY <1>0
        <5>2. s + n + 1 \in 1 .. Len(busy)  BY <1>2, <3>3, <5>1
        <5> QED  BY <1>0, <5>2
      <4>2. /\ busy[s + n + 1].start \in Int /\ busy[s + n + 1].end \in Int
            /\ busy[s + n + 1].start <= busy[s + n + 1].end
            /\ s + n + 1 < j => busy[s + n + 1].end < busy[j].start
        BY <4>1, InTurn
      <4>3. busy[s + n + 1].start >= f.end  BY <1>2, <4>1
      <4>4. s + n + 1 = j \/ s + n + 1 < j  BY <1>2, <3>0, <3>3
      <4> QED  BY <1>1, <3>0, <4>2, <4>3, <4>4 DEF Meets
    <3> QED  BY <1>2, <3>0, <3>1, <3>2, <3>3
  <2> QED  BY <2>1 DEF MeetsNone
<1>12. Part(f, f)  BY <1>1 DEF Part
<1>13. HoldsFree(<< f >>, f, busy)  BY DEF HoldsFree, Holds
<1> QED  BY <1>10, <1>11, <1>12, <1>13 DEF Left, Ordered

\* The busy instances visited that meet f are removed: the first of them leaves all
\* that is free, and what the others leave adds nothing to it.
LEMMA SomethingCut ==
  ASSUME NEW busy, Sound(busy), NEW f \in Instance, NEW s \in Nat, NEW w,
         f.start <= f.end, Past(f, busy, s), Fits(f, busy), RightBelow(w, f, busy),
         NEW c0 \in 1 .. Visited(f, busy, s), f.start < busy[s + c0].end
  PROVE  Left(LeftOf(f, busy, s, w), f, busy)
<1> DEFINE n == Visited(f, busy, s)
           b(k) == busy[s + k]
           cuts == [k \in 1 .. n |-> Cut(f, b(k), k, w)]
           l == FlattenSeq(cuts)
           e == Extend(<< >>, l)
<1>0. busy \in Seq(Instance)  BY DEF Sound
<1>1. f.start \in Int /\ f.end \in Int  BY Bounds
<1>2. n \in Nat /\ \A k \in 1 .. n : s + k \in DOMAIN busy /\ b(k).start < f.end
  BY <1>0, Visits
<1>3. \A k \in 1 .. n :
        /\ b(k) \in Instance /\ b(k).start \in Int /\ b(k).end \in Int /\ b(k).start <= b(k).end
  BY <1>2, InTurn
<1>4. ASSUME NEW j \in 1 .. n, NEW k \in 1 .. n, j < k
      PROVE  b(j).end < b(k).start /\ b(j).end <= b(k).end
  <2>1. s + j \in DOMAIN busy /\ s + k \in DOMAIN busy /\ s + j < s + k  BY <1>2, <1>4
  <2>2. b(j).end < b(k).start  BY <2>1, InTurn
  <2> QED  BY <1>3, <2>2
<1>5. PICK c \in 1 .. n : f.start < b(c).end /\ \A k \in 1 .. c - 1 : b(k).end <= f.start
  <2> DEFINE S == {k \in 1 .. n : f.start < b(k).end}
  <2>0. c0 \in 1 .. n /\ f.start < b(c0).end  OBVIOUS
  <2> HIDE DEF n, b
  <2>1. S \subseteq Nat /\ S # {}  BY <1>2, <2>0
  <2>2. PICK c \in S : \A m \in S : c <= m  BY <2>1, LeastNatural
  <2>3. ASSUME NEW k \in 1 .. c - 1 PROVE b(k).end <= f.start
    <3>1. k \in 1 .. n /\ ~(c <= k)  BY <1>2, <2>2
    <3>2. k \notin S  BY <2>2, <3>1
    <3> QED  BY <1>1, <1>3, <3>1, <3>2
  <2> QED  BY <2>2, <2>3
<1>6. ASSUME NEW k \in 1 .. n, k >= c
      PROVE  /\ f.start < b(k).end /\ CutLeaves(cuts[k], f, busy)
             /\ \A i \in DOMAIN cuts[k] : cuts[k][i].start = f.start => cuts[k][i].end = b(k).start
             /\ RemoveInstance(f, b(k)).kind # "NoOverlap"
  <2> DEFINE q == After(f, b(k))
  <2>1. f.start < b(k).end
    <3>1. k = c \/ b(c).end <= b(k).end
      <4>1. k = c \/ c < k  BY <1>2, <1>5, <1>6
      <4> QED  BY <1>4, <1>5, <4>1
    <3> HIDE DEF b
    <3> QED  BY <1>1, <1>3, <1>5, <1>6, <3>1
  <2>2. ASSUME b(k).end < f.end PROVE Left(w[q][k], q, busy)
    <3>1. q \in Instance /\ q.start = b(k).end /\ q.end = f.end  BY <1>3, <1>6, Pieces
    <3> HIDE DEF q
    <3>2. Shorter(q, f)  BY <1>1, <1>3, <2>1, <2>2, <3>1 DEF Shorter
    <3>3. Fits(q, busy)
      <4>1. ASSUME NEW j \in DOMAIN busy, q.start < busy[j].start, busy[j].end < q.end
            PROVE  busy[j].start < busy[j].end
        <5>1. busy[j].start \in Int  BY InTurn
        <5>2. f.start < busy[j].start  BY <1>1, <1>3, <1>6, <2>1, <3>1, <4>1, <5>1
        <5> QED  BY <3>1, <4>1, <5>2 DEF Fits
      <4> QED  BY <4>1 DEF Fits
    <3>4. Past(q, busy, k)
      <4>1. ASSUME NEW j \in DOMAIN busy, j <= k PROVE busy[j].end <= q.start
        <5>1. s + k \in DOMAIN busy /\ j <= s + k  BY <1>2, <1>6, <4>1, InTurn
        <5> QED  BY <3>1, <5>1, InTurn
      <4> QED  BY <4>1 DEF Past
    <3>5. k \in Nat  BY <1>6
    <3> QED  BY <3>2, <3>3, <3>4, <3>5 DEF RightBelow
  <2>3. s + k \in DOMAIN busy /\ b(k).start < f.end /\ b(k).start <= b(k).end
    BY <1>2, <1>3, <1>6
  <2>4. cuts[k] = Cut(f, b(k), k, w)  BY <1>6
  <2> DEFINE j == s + k
  <2>5. /\ CutLeaves(Cut(f, busy[j], k, w), f, busy)
        /\ \A i \in DOMAIN Cut(f, busy[j], k, w) :
             Cut(f, busy[j], k, w)[i].start = f.start
               => Cut(f, busy[j], k, w)[i].end = busy[j].start
        /\ RemoveInstance(f, busy[j]).kind # "NoOverlap"
    <3>1. /\ j \in DOMAIN busy /\ busy[j].start < f.end /\ busy[j].start <= busy[j].end
          /\ f.start < busy[j].end
          /\ busy[j].end < f.end => Left(w[After(f, busy[j])][k], After(f, busy[j]), busy)
      BY <2>1, <2>2, <2>3
    <3> HIDE DEF j, cuts, b, n
    <3> QED  BY <1>0, <3>1, CutIs
  <2> HIDE DEF cuts
  <2> QED  BY <2>1, <2>4, <2>5
<1>7. ASSUME NEW k \in 1 .. n, k < c PROVE cuts[k] = << >>
  <2>1. k \in 1 .. c - 1  BY <1>5, <1>7
  <2>2. ~(f.start < b(k).end)
    <3> HIDE DEF b, n
    <3> QED  BY <1>1, <1>3, <1>5, <2>1
  <2>3. b(k) \in Instance /\ b(k).start \in Int /\ b(k).end \in Int /\ b(k).start < f.end
    BY <1>2, <1>3
  <2>4. RemoveInstance(f, b(k)).kind = "NoOverlap"
    <3> HIDE DEF b, n
    <3> QED  BY <2>2, <2>3, Kinds
  <2> QED  BY <2>4 DEF Cut
<1>8. cuts \in Seq(Seq(Instance)) /\ Len(cuts) = n /\ DOMAIN cuts = 1 .. n
  <2>1. ASSUME NEW k \in 1 .. n PROVE cuts[k] \in Seq(Instance)
    <3>1. CASE k < c
      <4>1. << >> \in Seq(Instance)  OBVIOUS
      <4> QED  BY <1>7, <3>1, <4>1
    <3>2. CASE k >= c  BY <1>6, <3>2 DEF CutLeaves
    <3> QED  BY <1>5, <3>1, <3>2
  <2>2. DOMAIN cuts = 1 .. n /\ cuts = [k \in 1 .. n |-> cuts[k]]  OBVIOUS
  <2> HIDE DEF cuts, n
  <2>3. cuts \in [1 .. n -> Seq(Instance)]  BY <2>1, <2>2
  <2> QED  BY <1>2, <2>3, ListOf, Zenon
<1>9. l \in Seq(Instance) /\ FromParts(l, cuts, n) /\ FromOne(l, cuts, c, n)
  <2>1. \A k \in 1 .. c - 1 : cuts[k] = << >>
    <3> TAKE k \in 1 .. c - 1
    <3>1. k \in 1 .. n /\ k < c  BY <1>2, <1>5
    <3> QED  BY <1>7, <3>1
  <2>2. c \in DOMAIN cuts  BY <1>5
  <2> HIDE DEF cuts, n
  <2> QED  BY <1>8, <2>1, <2>2, FlattenElements, FlattenFrom
<1>10. LeftOf(f, busy, s, w) = e
  <2>1. n \in 1 .. n /\ n > 0 /\ n >= c  BY <1>2, <1>5
  <2>2. RemoveInstance(f, busy[s + n]).kind # "NoOverlap"  BY <1>6, <2>1
  <2> QED  BY <2>1, <2>2 DEF LeftOf
<1> DEFINE first == cuts[c]
           m == Len(first)
<1>11. CutLeaves(first, f, busy) /\ \A i \in DOMAIN first : first[i].start = f.start => first[i].end = b(c).start
  <2>1. c >= c  BY <1>5
  <2> HIDE DEF cuts, b, n
  <2> QED  BY <1>5, <1>6, <2>1
<1>12. ASSUME NEW i \in DOMAIN first PROVE MeetsNone(first[i], busy)
  <2>1. CASE first[i].start # f.start  BY <1>11, <2>1 DEF CutLeaves
  <2>2. CASE first[i].start = f.start
    <3> DEFINE x == first[i]
    <3>1. x.start = f.start /\ x.end = b(c).start  BY <1>11, <2>2
    <3>2. b(c).start \in Int /\ b(c).end \in Int  BY <1>3, <1>5
    <3>3. ASSUME NEW j \in DOMAIN busy PROVE ~Meets(x, busy[j])
      <4>0. /\ j \in Nat /\ busy[j].start \in Int /\ busy[j].end \in Int
            /\ busy[j].start <= busy[j].end
        BY InTurn
      <4>1. s + c \in DOMAIN busy  BY <1>2, <1>5
      <4>2. CASE j <= s
        <5>1. busy[j].end <= f.start  BY <4>2 DEF Past
        <5> QED  BY <1>1, <3>1, <4>0, <5>1 DEF Meets
      <4>3. CASE j > s /\ j < s + c
        <5>1. j - s \in 1 .. c - 1 /\ s + (j - s) = j  BY <1>5, <4>0, <4>3
        <5>2. b(j - s).end <= f.start
          <6> HIDE DEF b
          <6> QED  BY <1>5, <5>1
        <5>3. busy[j].end <= f.start  BY <5>1, <5>2
        <5> QED  BY <1>1, <3>1, <4>0, <5>3 DEF Meets
      <4>4. CASE j = s + c  BY <3>1, <3>2, <4>4 DEF Meets
      <4>5. CASE j > s + c
        <5>1. b(c).end < busy[j].start  BY <4>1, <4>5, InTurn
        <5>2. b(c).start <= b(c).end  BY <1>3, <1>5
        <5>3. ~(busy[j].start < b(c).start)
          <6> HIDE DEF b
          <6> QED  BY <3>2, <4>0, <5>1, <5>2
        <5> QED  BY <3>1, <5>3 DEF Meets
      <4> QED  BY <1>5, <4>0, <4>2, <4>3, <4>4, <4>5
    <3> QED  BY <3>3 DEF MeetsNone
  <2> QED  BY <2>1, <2>2
<1> HIDE DEF first
<1>13. ASSUME NEW i \in DOMAIN l
       PROVE  \E k \in 1 .. n : k >= c /\ \E j \in DOMAIN cuts[k] : l[i] = cuts[k][j]
  <2>1. PICK k \in 1 .. n : \E j \in DOMAIN cuts[k] : l[i] = cuts[k][j]
    <3> HIDE DEF cuts, l, n
    <3> QED  BY <1>9 DEF FromParts
  <2>2. k >= c
    <3>1. CASE k < c
      <4>1. cuts[k] = << >>  BY <1>7, <3>1
      <4> HIDE DEF cuts
      <4> QED  BY <2>1, <4>1
    <3> QED  BY <1>5, <3>1
  <2> QED  BY <2>1, <2>2
<1> HIDE DEF cuts, l, n, b
<1>14. ASSUME NEW i \in DOMAIN l
       PROVE  /\ l[i] \in Instance /\ Part(l[i], f)
              /\ l[i].start # f.start => MeetsNone(l[i], busy)
  <2>1. PICK k \in 1 .. n : k >= c /\ \E j \in DOMAIN cuts[k] : l[i] = cuts[k][j]  BY <1>13
  <2>2. CutLeaves(cuts[k], f, busy)  BY <1>6, <2>1
  <2> QED  BY <2>1, <2>2 DEF CutLeaves
<1>15. Proper(l)  BY <1>14 DEF Proper, Part
<1>16. first \in Seq(Instance) /\ Ordered(first) /\ HoldsFree(first, f, busy) /\ m \in Nat
       /\ \A i \in DOMAIN first : Part(first[i], f) /\ MeetsNone(first[i], busy)
  BY <1>11, <1>12 DEF CutLeaves
<1>17. /\ m <= Len(l) /\ DOMAIN first = 1 .. m
       /\ \A i \in 1 .. m : i \in DOMAIN l /\ l[i] = first[i]
       /\ \A i \in DOMAIN l : i > m =>
            \E k \in 1 .. n : k > c /\ \E j \in DOMAIN cuts[k] : l[i] = cuts[k][j]
  <2>1. DOMAIN first = 1 .. m  BY <1>16
  <2>2. Len(l) \in Nat  BY <1>9
  <2>3. Len(l) >= m  BY <1>9 DEF FromOne, first
  <2>4. m <= Len(l)  BY <1>16, <2>2, <2>3
  <2> QED  BY <1>9, <2>1, <2>4 DEF FromOne, first
<1>18. ASSUME m < Len(l) PROVE m > 0 /\ l[m].end > f.start
  <2>0. Len(l) \in Nat /\ DOMAIN l = 1 .. Len(l)  BY <1>9
  <2>1. m + 1 \in DOMAIN l /\ m + 1 > m  BY <1>16, <1>18, <2>0
  <2>2. PICK k \in 1 .. n : k > c  BY <1>17, <2>1
  <2>3. b(c).end < b(k).start /\ b(k).start < f.end  BY <1>2, <1>4, <1>5, <2>2
  <2>4. /\ b(c).start \in Int /\ b(c).end \in Int /\ b(k).start \in Int
        /\ f.start < b(c).end
    BY <1>3, <1>5, <2>2
  <2> DEFINE a == [start |-> b(c).end, end |-> b(c).end + 1]
  <2>5. /\ a \in Instance /\ a.start < a.end /\ f.start <= a.start /\ a.end <= f.end
        /\ f.start < f.end
    BY <1>1, <2>3, <2>4 DEF Instance
  <2>6. MeetsNone(a, busy)
    <3>1. ASSUME NEW j \in DOMAIN busy PROVE ~Meets(a, busy[j])
      <4>0. j \in Nat /\ busy[j].start \in Int /\ busy[j].end \in Int  BY InTurn
      <4>1. s + c \in DOMAIN busy  BY <1>2, <1>5
      <4>2. CASE j <= s + c
        <5>1. busy[j].end <= b(c).end  BY <4>1, <4>2, InTurn DEF b
        <5> QED  BY <2>4, <4>0, <5>1 DEF Meets
      <4>3. CASE j > s + c
        <5>1. b(c).end < busy[j].start  BY <4>1, <4>3, InTurn DEF b
        <5> QED  BY <2>4, <4>0, <5>1 DEF Meets
      <4>4. j <= s + c \/ j > s + c  BY <1>5, <4>0
      <4> QED  BY <4>2, <4>3, <4>4
    <3> QED  BY <3>1 DEF MeetsNone
  <2> HIDE DEF a
  <2>7. Holds(first, a)  BY <1>16, <2>5, <2>6 DEF HoldsFree
  <2>8. m > 0  BY <1>16, <1>17, <2>7 DEF Holds
  <2>9. m \in 1 .. m  BY <1>16, <2>8
  <2>10. first[m] \in Instance /\ Part(first[m], f) /\ l[m] = first[m]  BY <1>16, <1>17, <2>9
  <2>11. f.start <= first[m].start /\ first[m].start < first[m].end
         /\ first[m].start \in Int /\ first[m].end \in Int
    BY <2>5, <2>10, Bounds DEF Part
  <2> QED  BY <1>1, <2>8, <2>10, <2>11
<1>19. KeepsFirst(e, l, m, f.start)
  <2>1. \A i, j \in 1 .. m : i < j => l[i].end <= l[j].start
    BY <1>16, <1>17 DEF Ordered
  <2> HIDE DEF m
  <2> QED  BY <1>1, <1>9, <1>15, <1>16, <1>17, <1>18, <2>1, ExtendKeepsFirst
<1>20. /\ e \in Seq(Instance) /\ Ordered(e)
       /\ \A i \in DOMAIN e : \E j \in DOMAIN l : e[i] = l[j]
  BY <1>9, <1>15, ExtendOrders
<1> HIDE DEF e
<1>21. ASSUME NEW i \in DOMAIN e PROVE Part(e[i], f) /\ MeetsNone(e[i], busy)
  <2>1. Part(e[i], f)  BY <1>14, <1>20
  <2>2. CASE i > m
    <3>1. PICK j \in DOMAIN l : j > m /\ e[i] = l[j] /\ l[j].start # f.start
      BY <1>19, <2>2 DEF KeepsFirst
    <3>2. MeetsNone(l[j], busy)  BY <1>14, <3>1
    <3> QED  BY <2>1, <3>1, <3>2
  <2>3. CASE ~(i > m)
    <3>1. i \in 1 .. m
      <4>1. i \in 1 .. Len(e)  BY <1>20
      <4> QED  BY <1>16, <2>3, <4>1
    <3>2. e[i] = first[i] /\ i \in DOMAIN first  BY <1>17, <1>19, <3>1 DEF KeepsFirst
    <3> QED  BY <1>16, <2>1, <3>2
  <2> QED  BY <2>2, <2>3
<1>22. HoldsFree(e, f, busy)
  <2>1. ASSUME NEW a \in Instance, Holds(first, a) PROVE Holds(e, a)
    <3>1. PICK i \in 1 .. m : first[i].start <= a.start /\ a.end <= first[i].end
      BY <1>17, <2>1 DEF Holds
    <3>2. i \in DOMAIN e /\ e[i] = first[i]  BY <1>17, <1>19, <3>1 DEF KeepsFirst
    <3>3. \E j \in DOMAIN e : e[j].start <= a.start /\ a.end <= e[j].end  BY <3>1, <3>2
    <3> QED  BY <3>3 DEF Holds
  <2> QED  BY <1>16, <2>1 DEF HoldsFree
<1> QED  BY <1>10, <1>20, <1>21, <1>22 DEF Left, e

\* EventInstance::remove_instances leaves exactly what is free of f, at every depth of
\* its recursion: in order, within f, meeting no busy instance, and holding every time
\* that meets none.
THEOREM LeftIsExact ==
  ASSUME NEW busy, Sound(busy), NEW f \in Instance, NEW s \in Nat,
         f.start <= f.end, Fits(f, busy), Past(f, busy, s)
  PROVE  Left(Without(busy)[f][s], f, busy)
<1> DEFINE w == Without(busy)
           P(x, r) == x.start <= x.end /\ Fits(x, busy) /\ Past(x, busy, r) => Left(w[x][r], x, busy)
           S == {n \in Nat : \A x \in Instance : \A r \in Nat : x.end - x.start < n => P(x, r)}
<1>0. busy \in Seq(Instance)  BY DEF Sound
<1>1. ASSUME NEW x \in Instance, NEW r \in Nat, RightBelow(w, x, busy) PROVE P(x, r)
  <2> SUFFICES ASSUME x.start <= x.end, Fits(x, busy), Past(x, busy, r)
               PROVE  Left(w[x][r], x, busy)
    OBVIOUS
  <2>1. w[x][r] = LeftOf(x, busy, r, w)  BY <1>0, WithoutIs
  <2> HIDE DEF w
  <2>2. CASE \A k \in 1 .. Visited(x, busy, r) : busy[r + k].end <= x.start
    BY <2>1, <2>2, NothingCut
  <2>3. CASE ~(\A k \in 1 .. Visited(x, busy, r) : busy[r + k].end <= x.start)
    <3>1. PICK k \in 1 .. Visited(x, busy, r) : ~(busy[r + k].end <= x.start)  BY <2>3
    <3>2. r + k \in DOMAIN busy  BY <1>0, Visits
    <3>3. busy[r + k].end \in Int /\ x.start \in Int  BY <3>2, InTurn, Bounds
    <3>4. x.start < busy[r + k].end  BY <3>1, <3>3
    <3> QED  BY <1>1, <2>1, <3>4, SomethingCut
  <2> QED  BY <2>2, <2>3
<1> HIDE DEF w
<1>2. 0 \in S
  <2>1. ASSUME NEW x \in Instance, NEW r \in Nat, x.end - x.start < 0 PROVE P(x, r)
    <3>1. x.start \in Int /\ x.end \in Int  BY Bounds
    <3>2. ~(x.start <= x.end)  BY <2>1, <3>1
    <3> QED  BY <3>2
  <2> HIDE DEF P
  <2> QED  BY <2>1
<1>3. ASSUME NEW n \in Nat, n \in S PROVE n + 1 \in S
  <2>1. ASSUME NEW x \in Instance, NEW r \in Nat, x.end - x.start < n + 1 PROVE P(x, r)
    <3>1. x.start \in Int /\ x.end \in Int  BY Bounds
    <3>2. ASSUME NEW y, NEW q, Shorter(y, x), q \in Nat, Fits(y, busy), Past(y, busy, q)
          PROVE  Left(w[y][q], y, busy)
      <4>1. y \in Instance /\ y.start \in Int /\ y.end \in Int /\ y.start <= y.end
        BY <3>2, Bounds DEF Shorter
      <4>2. y.end - y.start < n  BY <2>1, <3>1, <3>2, <4>1 DEF Shorter
      <4>3. P(y, q)
        <5> HIDE DEF P
        <5> QED  BY <1>3, <3>2, <4>1, <4>2
      <4> QED  BY <3>2, <4>1, <4>3
    <3> HIDE DEF P, S
    <3>3. RightBelow(w, x, busy)
      <4>1. ASSUME NEW y, NEW q, Shorter(y, x) /\ q \in Nat /\ Fits(y, busy) /\ Past(y, busy, q)
            PROVE  Left(w[y][q], y, busy)
        BY <3>2, <4>1
      <4> QED  BY <4>1 DEF RightBelow
    <3> QED  BY <1>1, <3>3
  <2> HIDE DEF P
  <2> QED  BY <2>1
<1>4. Nat \subseteq S
  <2> HIDE DEF S
  <2> QED  BY <1>2, <1>3, Inductive
<1>5. P(f, s)
  <2>1. f.start \in Int /\ f.end \in Int  BY Bounds
  <2>2. (f.end - f.start) + 1 \in Nat /\ f.end - f.start < (f.end - f.start) + 1  BY <2>1
  <2>3. (f.end - f.start) + 1 \in S
    <3> HIDE DEF S
    <3> QED  BY <1>4, <2>2
  <2> HIDE DEF P
  <2> QED  BY <2>2, <2>3
<1> QED  BY <1>5 DEF w

\* The assertion of remove_instances says that no busy instance without a duration lies
\* strictly inside a free one.
LEMMA SplitsFit ==
  ASSUME NEW free \in Seq(Instance), NEW busy, Sound(busy), SplitsInTwo(free, busy),
         NEW i \in DOMAIN free
  PROVE  Fits(free[i], busy)
<1> DEFINE f == free[i]
<1>0. f \in Instance /\ f.start \in Int /\ f.end \in Int
  <2>1. f \in Instance  OBVIOUS
  <2> QED  BY <2>1, Bounds
<1>1. ASSUME NEW j \in DOMAIN busy, f.start < busy[j].start, busy[j].end < f.end
      PROVE  busy[j].start < busy[j].end
  <2> DEFINE b == busy[j]
  <2>1. b \in Instance /\ b.start \in Int /\ b.end \in Int /\ b.start <= b.end  BY InTurn
  <2>2. RemoveInstance(f, b).kind = "Split" => Len(RemoveInstance(f, b).rest) = 2
    BY DEF SplitsInTwo
  <2> HIDE DEF f, b
  <2>3. f.start < b.start /\ b.end < f.end  BY <1>1 DEF f, b
  <2>4. RemoveInstance(f, b).kind = "Split"
    BY <1>0, <2>1, <2>3 DEF RemoveInstance, HasOverlap
  <2>5. b.start < b.end
    BY <1>0, <2>1, <2>2, <2>3, <2>4, SplitNeedsDuration
  <2> QED  BY <2>5 DEF b
<1> QED  BY <1>1 DEF Fits

\* What is left of the free list.
Remaining(r, free, busy) ==
  /\ r \in Seq(Instance) /\ Proper(r)
  /\ \A i \in DOMAIN r : MeetsNone(r[i], busy) /\ \E k \in DOMAIN free : Part(r[i], free[k])
  /\ \A a \in Instance :
       a.start < a.end /\ Holds(free, a) /\ MeetsNone(a, busy) => Holds(r, a)

\* CompatibleInstances::remove_instances leaves of a free list exactly what is free of
\* the busy list: no instance that is left meets a busy one, each lies within a free
\* one, and a time within a free one that meets no busy one lies within one that is left.
THEOREM RemoveAllIsExact ==
  ASSUME NEW free \in Seq(Instance), Proper(free), NEW busy, Sound(busy),
         SplitsInTwo(free, busy)
  PROVE  Remaining(RemoveAll(free, busy, 0), free, busy)
<1> DEFINE left == [i \in DOMAIN free |-> Without(busy)[free[i]][0]]
           r == RemoveAll(free, busy, 0)
<1>0. /\ Len(free) \in Nat /\ DOMAIN free = 1 .. Len(free)
      /\ \A i \in DOMAIN free : free[i] \in Instance /\ free[i].start <= free[i].end
  BY DEF Proper
<1>1. ASSUME NEW i \in DOMAIN free PROVE Left(left[i], free[i], busy)
  <2>1. Fits(free[i], busy)  BY SplitsFit
  <2>2. Past(free[i], busy, 0)
    <3>1. ASSUME NEW j \in DOMAIN busy PROVE ~(j <= 0)
      <4>1. j \in Nat /\ j >= 1  BY InTurn
      <4> QED  BY <4>1
    <3> QED  BY <3>1 DEF Past
  <2>3. Left(Without(busy)[free[i]][0], free[i], busy)
    <3>1. free[i] \in Instance /\ free[i].start <= free[i].end  BY <1>0
    <3> DEFINE f == free[i]
    <3> HIDE DEF f
    <3>2. f \in Instance /\ f.start <= f.end /\ Fits(f, busy) /\ Past(f, busy, 0)
      BY <2>1, <2>2, <3>1 DEF f
    <3>3. Left(Without(busy)[f][0], f, busy)  BY <3>2, LeftIsExact
    <3> QED  BY <3>3 DEF f
  <2> QED  BY <2>3
<1>2. left \in [1 .. Len(free) -> Seq(Instance)]
  <2>1. ASSUME NEW i \in DOMAIN free PROVE left[i] \in Seq(Instance)  BY <1>1 DEF Left
  <2>2. DOMAIN left = 1 .. Len(free) /\ left = [i \in 1 .. Len(free) |-> left[i]]  BY <1>0
  <2> HIDE DEF left
  <2> QED  BY <1>0, <2>1, <2>2
<1>3. left \in Seq(Seq(Instance)) /\ Len(left) = Len(free) /\ DOMAIN left = DOMAIN free
  <2>1. Len(free) \in Nat  BY <1>0
  <2> HIDE DEF left
  <2> QED  BY <1>0, <1>2, <2>1, ListOf, Zenon
<1>4. r = FlattenSeq(left)  BY DEF RemoveAll
<1> HIDE DEF left, r
<1>5. r \in Seq(Instance) /\ FromParts(r, left, Len(free))
  <2>1. FlattenSeq(left) \in Seq(Instance) /\ FromParts(FlattenSeq(left), left, Len(left))
    BY <1>3, FlattenElements
  <2> QED  BY <1>3, <1>4, <2>1
<1>6. ASSUME NEW i \in DOMAIN r
      PROVE  /\ MeetsNone(r[i], busy) /\ r[i].start <= r[i].end
             /\ \E k \in DOMAIN free : Part(r[i], free[k])
  <2>1. PICK k \in DOMAIN free : \E m \in DOMAIN left[k] : r[i] = left[k][m]
    BY <1>0, <1>5 DEF FromParts
  <2>2. MeetsNone(r[i], busy) /\ Part(r[i], free[k])  BY <1>1, <2>1 DEF Left
  <2> QED  BY <2>2 DEF Part
<1>7. ASSUME NEW a \in Instance, a.start < a.end, Holds(free, a), MeetsNone(a, busy)
      PROVE  Holds(r, a)
  <2>1. PICK k \in DOMAIN free : free[k].start <= a.start /\ a.end <= free[k].end
    BY <1>7 DEF Holds
  <2>2. Holds(left[k], a)  BY <1>1, <1>7, <2>1 DEF Left, HoldsFree
  <2>3. PICK m \in DOMAIN left[k] : left[k][m].start <= a.start /\ a.end <= left[k][m].end
    BY <2>2 DEF Holds
  <2>4. PICK i \in DOMAIN r : r[i] = left[k][m]  BY <1>0, <1>5, <2>1, <2>3 DEF FromParts
  <2> QED  BY <2>3, <2>4 DEF Holds
<1>8. Proper(r)  BY <1>6 DEF Proper
<1>9. Remaining(r, free, busy)  BY <1>5, <1>6, <1>7, <1>8 DEF Remaining
<1> QED  BY <1>9 DEF r

-----------------------------------------------------------------------------
(* CompatibleInstances::new                                                *)

\* R orders T: of two elements exactly one is before the other.
Orders(R, T) ==
  \A a, b, c \in T :
    /\ ~(<<a, a>> \in R)
    /\ <<a, b>> \in R /\ <<b, c>> \in R => <<a, c>> \in R
    /\ a # b => <<a, b>> \in R \/ <<b, a>> \in R

\* Those of T that are before a.
Sooner(T, R, a) == {b \in T : <<b, a>> \in R}

\* What is later has more before it.
LEMMA MoreSooner ==
  ASSUME NEW T, IsFiniteSet(T), NEW R, Orders(R, T), NEW a \in T, NEW b \in T, <<a, b>> \in R
  PROVE  Cardinality(Sooner(T, R, a)) < Cardinality(Sooner(T, R, b))
<1>1. Sooner(T, R, a) \cup {a} \subseteq Sooner(T, R, b)
  BY DEF Sooner, Orders
<1>2. a \notin Sooner(T, R, a)  BY DEF Sooner, Orders
<1>3. IsFiniteSet(Sooner(T, R, a)) /\ IsFiniteSet(Sooner(T, R, b))
  <2>1. Sooner(T, R, a) \in SUBSET T /\ Sooner(T, R, b) \in SUBSET T  BY DEF Sooner
  <2> QED  BY <2>1, FS_Subset
<1>4. Cardinality(Sooner(T, R, a) \cup {a}) = Cardinality(Sooner(T, R, a)) + 1
  BY <1>2, <1>3, FS_AddElement
<1>5. Cardinality(Sooner(T, R, a) \cup {a}) <= Cardinality(Sooner(T, R, b))
  BY <1>1, <1>3, FS_Subset
<1>6. Cardinality(Sooner(T, R, a)) \in Nat /\ Cardinality(Sooner(T, R, b)) \in Nat
  BY <1>3, FS_CardinalityType
<1> QED  BY <1>4, <1>5, <1>6

\* s has each element of T, in the order of R.
Enumerates(s, T, R) ==
  /\ s \in Seq(T) /\ Len(s) = Cardinality(T) /\ DOMAIN s = 1 .. Cardinality(T)
  /\ \A x \in T : \E k \in DOMAIN s : s[k] = x
  /\ \A j, k \in DOMAIN s : j < k => <<s[j], s[k]>> \in R

\* A finite set is enumerated in the order of a relation that orders it.
LEMMA RankedIs ==
  ASSUME NEW T, IsFiniteSet(T), NEW R, Orders(R, T)
  PROVE  Enumerates(Ranked(T, R), T, R)
<1> DEFINE n == Cardinality(T)
           rank == [a \in T |-> Cardinality(Sooner(T, R, a)) + 1]
           N == 1 .. n
           Pick(k) == CHOOSE a \in T : Cardinality({b \in T : <<b, a>> \in R}) = k - 1
           s == [k \in N |-> Pick(k)]
<1>0. n \in Nat /\ IsFiniteSet(N) /\ Cardinality(N) = n
  <2>1. n \in Nat  BY FS_CardinalityType
  <2> HIDE DEF n
  <2>2. IsFiniteSet(1 .. n) /\ Cardinality(1 .. n) = IF 1 > n THEN 0 ELSE n - 1 + 1
    BY <2>1, FS_Interval
  <2> QED  BY <2>1, <2>2
<1>1. ASSUME NEW a \in T PROVE Cardinality(Sooner(T, R, a)) \in 0 .. n - 1
  <2>1. Sooner(T, R, a) \subseteq T \ {a}  BY DEF Sooner, Orders
  <2>2. IsFiniteSet(T \ {a}) /\ Cardinality(T \ {a}) = n - 1  BY FS_RemoveElement
  <2>3. IsFiniteSet(Sooner(T, R, a)) /\ Cardinality(Sooner(T, R, a)) <= n - 1
    BY <2>1, <2>2, FS_Subset
  <2>4. Cardinality(Sooner(T, R, a)) \in Nat  BY <2>3, FS_CardinalityType
  <2> QED  BY <1>0, <2>3, <2>4
<1>2. ASSUME NEW a \in T, NEW b \in T, a # b
      PROVE  Cardinality(Sooner(T, R, a)) # Cardinality(Sooner(T, R, b))
  <2>1. <<a, b>> \in R \/ <<b, a>> \in R  BY <1>2 DEF Orders
  <2>2. Cardinality(Sooner(T, R, a)) < Cardinality(Sooner(T, R, b))
        \/ Cardinality(Sooner(T, R, b)) < Cardinality(Sooner(T, R, a))
    BY <2>1, MoreSooner
  <2> QED  BY <1>1, <2>2
<1>3. rank \in Injection(T, N)
  <2>1. \A a \in T : rank[a] \in N
    <3> TAKE a \in T
    <3>1. Cardinality(Sooner(T, R, a)) \in 0 .. n - 1  BY <1>1
    <3> HIDE DEF n
    <3> QED  BY <1>0, <3>1
  <2>2. \A a, b \in T : rank[a] = rank[b] => a = b
    <3> TAKE a, b \in T
    <3>1. Cardinality(Sooner(T, R, a)) \in Int /\ Cardinality(Sooner(T, R, b)) \in Int  BY <1>1
    <3> QED  BY <1>2, <3>1
  <2> QED  BY <2>1, <2>2 DEF Injection, IsInjective
<1>4. rank \in Surjection(T, N)
  <2>1. Cardinality(T) = Cardinality(N)  BY <1>0
  <2> HIDE DEF rank, N
  <2> QED  BY <1>0, <1>3, <2>1, FS_Injection
<1>5. ASSUME NEW k \in N PROVE Pick(k) \in T /\ Cardinality(Sooner(T, R, Pick(k))) = k - 1
  <2>1. PICK a \in T : rank[a] = k  BY <1>4 DEF Surjection
  <2>2. Cardinality(Sooner(T, R, a)) = k - 1
    <3>1. Cardinality(Sooner(T, R, a)) \in Int  BY <1>1
    <3> QED  BY <2>1, <3>1
  <2> QED  BY <2>2 DEF Sooner
<1>6. Ranked(T, R) = s  BY DEF Ranked
<1> HIDE DEF Pick
<1>7. s \in [N -> T]  BY <1>5
<1>8. s \in Seq(T) /\ Len(s) = n /\ DOMAIN s = N
  <2> HIDE DEF s, n
  <2> QED  BY <1>0, <1>7, ListOf, Zenon
<1>9. ASSUME NEW x \in T PROVE \E k \in DOMAIN s : s[k] = x
  <2> DEFINE k == rank[x]
  <2>1. k \in N  BY <1>3 DEF Injection
  <2>2. k - 1 = Cardinality(Sooner(T, R, x))
    <3>1. Cardinality(Sooner(T, R, x)) \in Int  BY <1>1
    <3> QED  BY <3>1
  <2> HIDE DEF k
  <2>3. Pick(k) \in T /\ Cardinality(Sooner(T, R, Pick(k))) = Cardinality(Sooner(T, R, x))
    BY <1>5, <2>1, <2>2
  <2>4. Pick(k) = x  BY <1>2, <2>3
  <2> QED  BY <1>8, <2>1, <2>4
<1>10. ASSUME NEW j \in DOMAIN s, NEW k \in DOMAIN s, j < k PROVE <<s[j], s[k]>> \in R
  <2>1. /\ s[j] \in T /\ Cardinality(Sooner(T, R, s[j])) = j - 1
        /\ s[k] \in T /\ Cardinality(Sooner(T, R, s[k])) = k - 1
    BY <1>5, <1>8
  <2>2. j \in Int /\ k \in Int  BY <1>8
  <2>3. ~(k - 1 < j - 1) /\ j - 1 # k - 1  BY <1>10, <2>2
  <2> DEFINE x == s[j]
             y == s[k]
  <2> HIDE DEF s
  <2>4. ~(<<y, x>> \in R)  BY <2>1, <2>3, MoreSooner
  <2>5. x # y  BY <2>1, <2>3
  <2> QED  BY <2>1, <2>4, <2>5 DEF Orders
<1> HIDE DEF s
<1>11. Enumerates(s, T, R)  BY <1>8, <1>9, <1>10 DEF Enumerates
<1> QED  BY <1>6, <1>11

\* The instances of a finite set in the order of their beginning.
InOrderOf(s, S) ==
  /\ s \in Seq(Instance)
  /\ \A x \in S : \E k \in DOMAIN s : s[k] = x
  /\ \A k \in DOMAIN s : s[k] \in S
  /\ \A j, k \in DOMAIN s : j < k => s[j].start <= s[k].start

\* Sorted enumerates a finite set of instances in that order.
LEMMA SortedIs ==
  ASSUME NEW S, IsFiniteSet(S), S \subseteq Instance
  PROVE  InOrderOf(Sorted(S), S)
<1> DEFINE R == {p \in S \X S : EarlierStart(p[1], p[2])}
           s == Ranked(S, R)
<1>1. \A a, b \in S : <<a, b>> \in R <=> EarlierStart(a, b)  OBVIOUS
<1>2. Orders(R, S)
  <2> SUFFICES ASSUME NEW a \in S, NEW b \in S, NEW c \in S
               PROVE  /\ ~EarlierStart(a, a)
                      /\ EarlierStart(a, b) /\ EarlierStart(b, c) => EarlierStart(a, c)
                      /\ a # b => EarlierStart(a, b) \/ EarlierStart(b, a)
    BY <1>1 DEF Orders
  <2>1. /\ a.start \in Int /\ a.end \in Int /\ b.start \in Int /\ b.end \in Int
        /\ c.start \in Int /\ c.end \in Int
    BY Bounds
  <2>2. a.start = b.start /\ a.end = b.end => a = b  BY DEF Instance
  <2> QED  BY <2>1, <2>2 DEF EarlierStart
<1> HIDE DEF R
<1>3. Enumerates(s, S, R)  BY <1>2, RankedIs
<1>4. s \in Seq(Instance)  BY <1>3 DEF Enumerates
<1>5. \A k \in DOMAIN s : s[k] \in S  BY <1>3 DEF Enumerates
<1>6. ASSUME NEW j \in DOMAIN s, NEW k \in DOMAIN s, j < k PROVE s[j].start <= s[k].start
  <2>1. EarlierStart(s[j], s[k])  BY <1>1, <1>3, <1>5, <1>6 DEF Enumerates
  <2>2. s[j] \in Instance /\ s[k] \in Instance  BY <1>5
  <2> HIDE DEF s
  <2> QED  BY <2>1, <2>2, Bounds DEF EarlierStart
<1>7. InOrderOf(s, S)  BY <1>3, <1>4, <1>5, <1>6 DEF InOrderOf, Enumerates
<1> QED  BY <1>7 DEF Sorted, R

\* m is a list of instances that are apart, and covers those of S and no other time: each
\* lies within one of m, and what meets one of m meets one of S.
Merged(m, S) ==
  /\ Sound(m) /\ S \subseteq Instance
  /\ \A x \in S : Holds(m, x)
  /\ \A a \in Instance : \A i \in DOMAIN m :
       a.start < a.end /\ Meets(a, m[i]) => \E x \in S : Meets(a, x)

\* The last instance of m begins no later than x.
BeginsBefore(m, x) == m # << >> => m[Len(m)].start <= x.start

\* The last element of a list, and another in its place.
LEMMA LastOf ==
  ASSUME NEW s \in Seq(Instance), s # << >>
  PROVE  /\ Len(s) \in DOMAIN s /\ Last(s) = s[Len(s)]
         /\ \A y \in Instance : LET r == Append(Front(s), y) IN
              /\ r \in Seq(Instance) /\ Len(r) = Len(s) /\ DOMAIN r = DOMAIN s
              /\ r[Len(s)] = y /\ \A i \in DOMAIN s : i # Len(s) => r[i] = s[i]
<1>1. Len(s) \in Nat /\ DOMAIN s = 1 .. Len(s) /\ Len(s) > 0  OBVIOUS
<1>2. Last(s) = s[Len(s)]  BY DEF Last
<1>3. /\ Front(s) \in Seq(Instance) /\ Len(Front(s)) = Len(s) - 1
      /\ \A i \in 1 .. Len(s) - 1 : Front(s)[i] = s[i]
  BY <1>1 DEF Front
<1>4. ASSUME NEW y \in Instance
      PROVE  LET r == Append(Front(s), y) IN
              /\ r \in Seq(Instance) /\ Len(r) = Len(s) /\ DOMAIN r = DOMAIN s
              /\ r[Len(s)] = y /\ \A i \in DOMAIN s : i # Len(s) => r[i] = s[i]
  <2> DEFINE f == Front(s)
             r == Append(f, y)
  <2>0. Added(f, y, r)
    <3>1. f \in Seq(Instance)  BY <1>3
    <3> HIDE DEF f
    <3> QED  BY <3>1 DEF Added
  <2> HIDE DEF f, r
  <2>1. f \in Seq(Instance) /\ Len(f) = Len(s) - 1 /\ \A i \in 1 .. Len(s) - 1 : f[i] = s[i]
    BY <1>3 DEF f
  <2>2. r \in Seq(Instance) /\ Len(r) = Len(f) + 1 /\ r[Len(r)] = y  BY <2>0 DEF Added
  <2>3. Len(r) = Len(s)  BY <1>1, <2>1, <2>2
  <2>4. DOMAIN r = DOMAIN s
    <3>1. \A q \in Seq(Instance) : DOMAIN q = 1 .. Len(q)  OBVIOUS
    <3>2. DOMAIN r = 1 .. Len(r) /\ DOMAIN s = 1 .. Len(s)  BY <2>2, <3>1
    <3> QED  BY <2>3, <3>2, Zenon
  <2>5. ASSUME NEW i \in DOMAIN s, i # Len(s) PROVE r[i] = s[i]
    <3>1. i \in 1 .. Len(s) - 1  BY <1>1, <2>5
    <3>2. i \in DOMAIN f /\ f[i] = s[i]  BY <2>1, <3>1
    <3> QED  BY <2>0, <3>2 DEF Added
  <2>6. r[Len(s)] = y  BY <2>2, <2>3
  <2> QED  BY <2>2, <2>3, <2>4, <2>5, <2>6, Zenon DEF f, r
<1>5. Len(s) \in DOMAIN s  BY <1>1
<1> QED  BY <1>2, <1>4, <1>5, Zenon

\* An instance that begins last is merged into the last of a list, or put behind it.
LEMMA MergesOne ==
  ASSUME NEW m, NEW S, Merged(m, S), NEW x \in Instance, x.start <= x.end, BeginsBefore(m, x)
  PROVE  LET r == MergeInto(m, x)
         IN  Merged(r, S \cup {x}) /\ r # << >> /\ r[Len(r)].start <= x.start
<1>0. m \in Seq(Instance) /\ Proper(m) /\ Apart(m)  BY DEF Merged, Sound
<1>1. x.start \in Int /\ x.end \in Int  BY Bounds
<1> DEFINE last == m[Len(m)]
           y == Merge(x, last)
           r == MergeInto(m, x)
<1>m. \A i \in DOMAIN m : i \in 1 .. Len(m) /\ m[i] \in Instance
  BY <1>0
<1>b. \A i \in DOMAIN m : /\ m[i].start \in Int /\ m[i].end \in Int
                          /\ m[i].start <= m[i].end /\ i \in Nat /\ i <= Len(m) /\ Len(m) \in Nat
  <2> TAKE i \in DOMAIN m
  <2>1. m[i] \in Instance /\ i \in Nat /\ i <= Len(m) /\ Len(m) \in Nat  BY <1>0
  <2>2. m[i].start <= m[i].end  BY <1>0 DEF Proper
  <2> QED  BY <2>1, <2>2, Bounds
<1>2. CASE m # << >> /\ HasOverlap(x, Last(m))
  <2>0. Len(m) \in DOMAIN m /\ Last(m) = last  BY <1>0, <1>2, LastOf
  <2>1. /\ last \in Instance /\ last.start \in Int /\ last.end \in Int
        /\ last.start <= last.end /\ last.start <= x.start /\ x.start <= last.end
    BY <1>2, <1>b, <1>m, <2>0 DEF BeginsBefore, HasOverlap
  <2>2. /\ y \in Instance /\ y.start = last.start
        /\ y.end \in Int /\ y.end >= last.end /\ y.end >= x.end /\ (y.end = last.end \/ y.end = x.end)
    BY <1>1, <2>1 DEF Merge, Earlier, Later, Instance
  <2> HIDE DEF last, y
  <2>3. r = Append(Front(m), y)  BY <1>2, <2>0 DEF MergeInto, y
  <2>4. /\ r \in Seq(Instance) /\ Len(r) = Len(m) /\ DOMAIN r = DOMAIN m /\ r[Len(m)] = y
        /\ \A i \in DOMAIN m : i # Len(m) => r[i] = m[i]
    BY <1>0, <1>2, <2>2, <2>3, LastOf
  <2> HIDE DEF r
  <2>5. Proper(r)
    <3>1. ASSUME NEW i \in DOMAIN r PROVE r[i].start <= r[i].end
      <4>1. CASE i = Len(m)  BY <2>1, <2>2, <2>4, <4>1
      <4>2. CASE i # Len(m)  BY <1>b, <2>4, <4>2
      <4> QED  BY <4>1, <4>2
    <3> QED  BY <3>1 DEF Proper
  <2>6. Apart(r)
    <3>1. ASSUME NEW i \in DOMAIN r, NEW j \in DOMAIN r, i < j PROVE r[i].end < r[j].start
      <4>0. i # Len(m) /\ r[i] = m[i]  BY <1>b, <2>4, <3>1
      <4>1. m[i].end < m[j].start  BY <1>0, <2>4, <3>1 DEF Apart
      <4>2. CASE j = Len(m)
        <5>1. r[j].start = m[j].start  BY <2>2, <2>4, <4>2 DEF last
        <5> QED  BY <4>0, <4>1, <5>1
      <4>3. CASE j # Len(m)  BY <2>4, <4>0, <4>1, <4>3
      <4> QED  BY <4>2, <4>3
    <3> QED  BY <3>1 DEF Apart
  <2>7. ASSUME NEW z \in S \cup {x} PROVE Holds(r, z)
    <3>1. CASE z \in S
      <4>1. PICK i \in DOMAIN m : m[i].start <= z.start /\ z.end <= m[i].end
        BY <3>1 DEF Merged, Holds
      <4>2. CASE i = Len(m)
        <5>1. last.start <= z.start /\ z.end <= last.end  BY <4>1, <4>2 DEF last
        <5>2. y.start <= z.start  BY <2>2, <5>1
        <5>3. z.end <= y.end
          <6>1. z.end \in Int => z.end <= y.end  BY <2>1, <2>2, <5>1
          <6>2. z \in Instance  BY <3>1 DEF Merged
          <6> QED  BY <6>1, <6>2, Bounds
        <5> QED  BY <2>0, <2>4, <5>2, <5>3 DEF Holds
      <4>3. CASE i # Len(m)  BY <2>4, <4>1, <4>3 DEF Holds
      <4> QED  BY <4>2, <4>3
    <3>2. CASE z = x
      <4>1. y.start <= x.start /\ x.end <= y.end  BY <1>1, <2>1, <2>2
      <4> QED  BY <2>0, <2>4, <3>2, <4>1 DEF Holds
    <3> QED  BY <3>1, <3>2
  <2>8. ASSUME NEW a \in Instance, NEW i \in DOMAIN r, a.start < a.end, Meets(a, r[i])
        PROVE  \E z \in S \cup {x} : Meets(a, z)
    <3>1. CASE i # Len(m)
      <4>1. \E z \in S : Meets(a, z)  BY <2>4, <2>8, <3>1 DEF Merged
      <4> QED  BY <4>1
    <3>2. CASE i = Len(m)
      <4>1. a.start \in Int /\ a.end \in Int  BY Bounds
      <4>2. a.start < y.end /\ last.start < a.end  BY <2>2, <2>4, <2>8, <3>2 DEF Meets
      <4>3. CASE a.start < last.end
        <5>1. Meets(a, last)  BY <4>2, <4>3 DEF Meets
        <5>2. \E z \in S : Meets(a, z)  BY <2>0, <2>8, <5>1 DEF Merged, last
        <5> QED  BY <5>2
      <4>4. CASE ~(a.start < last.end)
        <5>1. a.start < x.end /\ x.start < a.end  BY <1>1, <2>1, <2>2, <2>8, <4>1, <4>2, <4>4
        <5>2. Meets(a, x)  BY <5>1 DEF Meets
        <5> QED  BY <5>2
      <4> QED  BY <4>3, <4>4
    <3> QED  BY <3>1, <3>2
  <2>9. r # << >> /\ r[Len(r)].start <= x.start
    <3>1. Len(r) # 0  BY <1>b, <2>0, <2>4, <1>m
    <3>2. r[Len(r)].start = last.start  BY <2>2, <2>4
    <3> QED  BY <2>1, <3>1, <3>2
  <2>10. Merged(r, S \cup {x})  BY <2>4, <2>5, <2>6, <2>7, <2>8, Zenon DEF Merged, Sound
  <2> QED  BY <2>9, <2>10 DEF r
<1>3. CASE ~(m # << >> /\ HasOverlap(x, Last(m)))
  <2>1. r = Append(m, x)  BY <1>3 DEF MergeInto
  <2>2. Added(m, x, r)  BY <1>0, <2>1 DEF Added
  <2> HIDE DEF r
  <2>3. ASSUME NEW i \in DOMAIN m PROVE m[i].end < x.start
    <3>0. m # << >> /\ Len(m) \in DOMAIN m /\ Last(m) = last
      <4>1. m # << >>  OBVIOUS
      <4> QED  BY <1>0, <4>1, LastOf
    <3>1. last.end < x.start
      <4>1. last.start <= x.start /\ last.start \in Int /\ last.end \in Int /\ last.start <= last.end
        BY <1>b, <3>0 DEF BeginsBefore
      <4> QED  BY <1>1, <1>3, <3>0, <4>1 DEF HasOverlap
    <3>2. CASE i = Len(m)  BY <3>1, <3>2
    <3>3. CASE i # Len(m)
      <4>1. i < Len(m)  BY <1>b, <3>3
      <4>2. m[i].end < last.start  BY <1>0, <3>0, <4>1 DEF Apart
      <4>3. last.start <= last.end /\ last.start \in Int /\ last.end \in Int /\ m[i].end \in Int
        BY <1>b, <3>0
      <4> QED  BY <1>1, <3>1, <4>2, <4>3
    <3> QED  BY <3>2, <3>3
  <2>4. \A i \in DOMAIN r : (i \in DOMAIN m /\ r[i] = m[i]) \/ (i = Len(r) /\ r[i] = x)
    BY <2>2 DEF Added
  <2>5. Proper(r)  BY <1>b, <2>4 DEF Proper
  <2>6. Apart(r)
    <3>1. ASSUME NEW i \in DOMAIN r, NEW j \in DOMAIN r, i < j PROVE r[i].end < r[j].start
      <4>1. i # Len(r)
        <5>1. Len(r) \in Nat /\ DOMAIN r = 1 .. Len(r)  BY <2>2 DEF Added
        <5> QED  BY <3>1, <5>1
      <4>2. i \in DOMAIN m /\ r[i] = m[i]  BY <2>4, <4>1
      <4>3. CASE j \in DOMAIN m /\ r[j] = m[j]  BY <1>0, <3>1, <4>2, <4>3 DEF Apart
      <4>4. CASE r[j] = x  BY <2>3, <4>2, <4>4
      <4> QED  BY <2>4, <4>3, <4>4
    <3> QED  BY <3>1 DEF Apart
  <2>7. ASSUME NEW z \in S \cup {x} PROVE Holds(r, z)
    <3>1. CASE z \in S
      <4>1. PICK i \in DOMAIN m : m[i].start <= z.start /\ z.end <= m[i].end
        BY <3>1 DEF Merged, Holds
      <4>2. i \in DOMAIN r /\ r[i] = m[i]  BY <2>2 DEF Added
      <4> QED  BY <4>1, <4>2 DEF Holds
    <3>2. CASE z = x
      <4>1. Len(r) \in DOMAIN r /\ r[Len(r)] = x  BY <1>0, <2>2 DEF Added
      <4> QED  BY <1>1, <3>2, <4>1 DEF Holds
    <3> QED  BY <3>1, <3>2
  <2>8. ASSUME NEW a \in Instance, NEW i \in DOMAIN r, a.start < a.end, Meets(a, r[i])
        PROVE  \E z \in S \cup {x} : Meets(a, z)
    <3>1. CASE i \in DOMAIN m /\ r[i] = m[i]
      <4>1. \E z \in S : Meets(a, z)  BY <2>8, <3>1 DEF Merged
      <4> QED  BY <4>1
    <3>2. CASE r[i] = x  BY <2>8, <3>2
    <3> QED  BY <2>4, <3>1, <3>2
  <2>9. r # << >> /\ r[Len(r)].start <= x.start
    <3>1. Len(r) = Len(m) + 1 /\ r[Len(r)] = x /\ Len(m) \in Nat  BY <1>0, <2>2 DEF Added
    <3>2. Len(r) # 0  BY <3>1
    <3>3. r # << >>
      <4>1. Len(<< >>) = 0  OBVIOUS
      <4> QED  BY <3>2, <4>1, Zenon
    <3> QED  BY <1>1, <3>1, <3>3
  <2>10. r \in Seq(Instance)  BY <2>2 DEF Added
  <2>11. Merged(r, S \cup {x})  BY <2>5, <2>6, <2>7, <2>8, <2>10 DEF Merged, Sound
  <2> QED  BY <2>9, <2>11 DEF r
<1> QED  BY <1>2, <1>3

\* A list with an instance merged into it is a list of instances.
LEMMA MergeIntoType ==
  ASSUME NEW m \in Seq(Instance), NEW x \in Instance
  PROVE  MergeInto(m, x) \in Seq(Instance)
<1>1. CASE m # << >> /\ HasOverlap(x, Last(m))
  <2>1. Len(m) \in DOMAIN m /\ Last(m) = m[Len(m)]  BY <1>1, LastOf
  <2>2. Last(m) \in Instance  BY <2>1
  <2>3. Merge(x, Last(m)) \in Instance
    <3> DEFINE y == Last(m)
    <3>1. y \in Instance  BY <2>2
    <3> HIDE DEF y
    <3>2. x.start \in Int /\ x.end \in Int /\ y.start \in Int /\ y.end \in Int  BY <3>1, Bounds
    <3>3. Earlier(x.start, y.start) \in Int /\ Later(x.end, y.end) \in Int
      BY <3>2 DEF Earlier, Later
    <3>4. Merge(x, y) \in Instance  BY <3>3 DEF Merge, Instance
    <3> QED  BY <3>4 DEF y
  <2>4. MergeInto(m, x) = Append(Front(m), Merge(x, Last(m)))  BY <1>1 DEF MergeInto
  <2>5. Append(Front(m), Merge(x, Last(m))) \in Seq(Instance)  BY <1>1, <2>3, LastOf
  <2> QED  BY <2>4, <2>5
<1>2. CASE ~(m # << >> /\ HasOverlap(x, Last(m)))
  <2>1. MergeInto(m, x) = Append(m, x)  BY <1>2 DEF MergeInto
  <2> QED  BY <2>1
<1> QED  BY <1>1, <1>2

\* g[n] is the first n instances of l, each merged into what was made of those before,
\* or absorbed by it.
Merging(g, l) ==
  /\ g[0] = << >>
  /\ \A n \in 1 .. Len(l) : g[n] = MergeInto(g[n - 1], l[n]) \/ g[n] = Absorb(g[n - 1], l[n])

\* In the order of their beginning
Starting(l) == \A j, k \in DOMAIN l : j < k => l[j].start <= l[k].start

\* What an instance that begins last is merged into absorbs it.
LEMMA AbsorbMerges ==
  ASSUME NEW m, Sound(m), NEW x \in Instance, x.start <= x.end, BeginsBefore(m, x)
  PROVE  Absorb(m, x) = MergeInto(m, x)
<1>1. m \in Seq(Instance) /\ x.start \in Int /\ x.end \in Int  BY Bounds DEF Sound
<1>2. CASE m = << >>  BY <1>2 DEF Absorb, MergeInto
<1>3. CASE m # << >>
  <2> DEFINE y == Last(m)
  <2>1. y = m[Len(m)] /\ Len(m) \in DOMAIN m  BY <1>1, <1>3, LastOf
  <2>2. y \in Instance /\ y.start <= x.start  BY <1>1, <1>3, <2>1 DEF BeginsBefore
  <2> HIDE DEF y
  <2>3. y.start \in Int /\ y.end \in Int  BY <2>2, Bounds
  <2>4. HasOverlap(x, y) <=> x.start <= y.end
    BY <1>1, <2>2, <2>3 DEF HasOverlap
  <2>5. [y EXCEPT !.end = Later(@, x.end)] = Merge(x, y)
    <3>1. Earlier(x.start, y.start) = y.start  BY <1>1, <2>2, <2>3 DEF Earlier
    <3>2. Later(y.end, x.end) = Later(x.end, y.end)  BY <1>1, <2>3 DEF Later
    <3> QED  BY <2>2, <3>1, <3>2 DEF Merge, Instance
  <2>6. Absorb(m, x) = IF x.start <= y.end THEN Append(Front(m), [y EXCEPT !.end = Later(@, x.end)])
                       ELSE Append(m, x)
    BY <1>3 DEF Absorb, y
  <2>7. MergeInto(m, x) = IF HasOverlap(x, y) THEN Append(Front(m), Merge(x, y)) ELSE Append(m, x)
    BY <1>3 DEF MergeInto, y
  <2> QED  BY <2>4, <2>5, <2>6, <2>7
<1> QED  BY <1>2, <1>3

\* CompatibleInstances::new merges the sorted instances one after the other.
LEMMA CompatibleFolds ==
  ASSUME NEW S, Sorted(S) \in Seq(Instance)
  PROVE  \E g : Merging(g, Sorted(S)) /\ Compatible(S) = g[Len(Sorted(S))]
<1> DEFINE l == Sorted(S)
           N == Len(l)
           op == [n \in 1 .. N |-> [a \in Seq(Instance) |-> MergeInto(a, l[n])]]
           Step(g) == [n \in 0 .. N |-> IF n = 0 THEN << >> ELSE MergeInto(g[n - 1], l[n])]
           merged == CHOOSE g : g = Step(g)
<1> HIDE DEF l
<1>0. N \in Nat /\ \A n \in 1 .. N : l[n] \in Instance
  <2>1. l \in Seq(Instance)  BY DEF l
  <2> QED  BY <2>1
<1>1. \A n \in 1 .. N : \A a \in Seq(Instance) : op[n][a] \in Seq(Instance)
  BY <1>0, MergeIntoType
<1>2. PICK h \in [0 .. N -> Seq(Instance)] :
        h[0] = << >> /\ \A n \in 1 .. N : h[n] = op[n][h[n - 1]]
  <2>0. \E h : Folds(h, Seq(Instance), << >>, N, op)
    <3>1. << >> \in Seq(Instance)  OBVIOUS
    <3> HIDE DEF op, N
    <3> QED  BY <1>0, <1>1, <3>1, FoldExists, Zenon
  <2> HIDE DEF op, N
  <2> QED  BY <2>0 DEF Folds
<1>3. h = Step(h)
  <2>1. ASSUME NEW n \in 0 .. N
        PROVE  h[n] = IF n = 0 THEN << >> ELSE MergeInto(h[n - 1], l[n])
    <3>1. CASE n = 0  BY <1>2, <3>1
    <3>2. CASE n # 0
      <4>1. n \in 1 .. N /\ n - 1 \in 0 .. N  BY <1>0, <3>2
      <4> QED  BY <1>2, <3>2, <4>1
    <3> QED  BY <3>1, <3>2
  <2> QED  BY <2>1
<1>4. merged = Step(merged)
  <2> HIDE DEF Step
  <2> QED  BY <1>3
<1>5. Compatible(S) = merged[N]  BY DEF Compatible, l
<1> HIDE DEF merged, op
<1>6. merged[0] = << >> /\ \A n \in 1 .. N : merged[n] = MergeInto(merged[n - 1], l[n])
  <2>2. ASSUME NEW n \in 0 .. N
        PROVE  merged[n] = IF n = 0 THEN << >> ELSE MergeInto(merged[n - 1], l[n])
    BY <1>4
  <2> HIDE DEF N, Step
  <2>3. 0 \in 0 .. N /\ \A n \in 1 .. N : n \in 0 .. N /\ n # 0  BY <1>0
  <2> QED  BY <2>2, <2>3
<1>7. Merging(merged, l)  BY <1>6 DEF Merging
<1> QED  BY <1>5, <1>7 DEF l

\* Instances merged in the order of their beginning cover the same time, and are apart.
LEMMA MergesAll ==
  ASSUME NEW l \in Seq(Instance), Proper(l), Starting(l), NEW g, Merging(g, l)
  PROVE  Merged(g[Len(l)], {l[k] : k \in 1 .. Len(l)})
<1> DEFINE N == Len(l)
<1>0. N \in Nat /\ DOMAIN l = 1 .. N /\ \A k \in 1 .. N : l[k] \in Instance /\ l[k].start <= l[k].end
  BY DEF Proper
<1>2. Merging(g, l)  OBVIOUS
<1> DEFINE First(n) == {l[k] : k \in 1 .. n}
           P(n) == /\ Merged(g[n], First(n))
                   /\ n > 0 => g[n] # << >> /\ g[n][Len(g[n])].start <= l[n].start
           T == {n \in Nat : n <= N => P(n)}
<1> HIDE DEF N
<1>3. P(0)
  <2>1. g[0] = << >>  BY <1>2 DEF Merging
  <2>2. First(0) = {}
    <3>1. 1 .. 0 = {}  OBVIOUS
    <3> QED  BY <3>1
  <2>3. Merged(<< >>, {})
    <3>1. << >> \in Seq(Instance) /\ DOMAIN << >> = {}  OBVIOUS
    <3> QED  BY <3>1 DEF Merged, Sound, Proper, Apart
  <2> HIDE DEF First
  <2>4. Merged(g[0], First(0))  BY <2>1, <2>2, <2>3
  <2>5. ~(0 > 0)  OBVIOUS
  <2> QED  BY <2>4, <2>5
<1>4. ASSUME NEW n \in Nat, n + 1 <= N, P(n) PROVE P(n + 1)
  <2> DEFINE m == g[n]
             x == l[n + 1]
             r == g[n + 1]
  <2>1. n + 1 \in 1 .. N /\ (n + 1) - 1 = n /\ (n > 0 => n \in 1 .. N) /\ n < n + 1  BY <1>0, <1>4
  <2>3. x \in Instance /\ x.start <= x.end  BY <1>0, <2>1
  <2>4. Merged(m, First(n))  BY <1>4
  <2>5. BeginsBefore(m, x)
    <3>1. CASE n = 0
      <4>1. m = << >>  BY <1>2, <3>1 DEF Merging
      <4> QED  BY <4>1 DEF BeginsBefore
    <3>2. CASE n > 0
      <4>1. m # << >> /\ m[Len(m)].start <= l[n].start  BY <1>4, <3>2
      <4>2. l[n].start <= x.start  BY <1>0, <2>1, <3>2 DEF Starting
      <4>3. m[Len(m)].start \in Int /\ l[n].start \in Int /\ x.start \in Int
        <5>1. m \in Seq(Instance)  BY <2>4 DEF Merged, Sound
        <5>2. m[Len(m)] \in Instance
          <6> HIDE DEF m
          <6>1. Len(m) \in DOMAIN m  BY <4>1, <5>1, LastOf
          <6> QED  BY <5>1, <6>1
        <5>3. l[n] \in Instance  BY <1>0, <2>1, <3>2
        <5> QED  BY <2>3, <5>2, <5>3, Bounds
      <4> QED  BY <4>1, <4>2, <4>3 DEF BeginsBefore
    <3> QED  BY <3>1, <3>2
  <2>5r. r = MergeInto(m, x)
    <3>1. r = MergeInto(m, x) \/ r = Absorb(m, x)
      <4>1. \A k \in 1 .. N : g[k] = MergeInto(g[k - 1], l[k]) \/ g[k] = Absorb(g[k - 1], l[k])
        BY <1>2 DEF Merging, N
      <4> QED  BY <2>1, <4>1
    <3>2. Sound(m)  BY <2>4 DEF Merged
    <3> HIDE DEF m, x, r
    <3> QED  BY <2>3, <2>5, <3>1, <3>2, AbsorbMerges
  <2>6. First(n) \cup {x} = First(n + 1)
    <3>1. 1 .. n + 1 = (1 .. n) \cup {n + 1}  OBVIOUS
    <3> QED  BY <3>1
  <2> HIDE DEF m, x, r, First
  <2>7. Merged(r, First(n) \cup {x}) /\ r # << >> /\ r[Len(r)].start <= x.start
    BY <2>3, <2>4, <2>5, <2>5r, MergesOne
  <2>8. Merged(r, First(n + 1))  BY <2>6, <2>7
  <2> QED  BY <2>7, <2>8 DEF r, x
<1>5. P(N)
  <2> HIDE DEF P
  <2>1. 0 \in T  BY <1>3
  <2>2. ASSUME NEW n \in Nat, n \in T PROVE n + 1 \in T  BY <1>0, <1>4, <2>2
  <2>3. Nat \subseteq T
    <3> HIDE DEF T
    <3> QED  BY <2>1, <2>2, Inductive
  <2> QED  BY <1>0, <2>3
<1>6. First(N) = {l[k] : k \in 1 .. Len(l)}  BY DEF N
<1>7. Merged(g[N], First(N))
  <2> HIDE DEF First
  <2> QED  BY <1>5
<1> QED  BY <1>6, <1>7 DEF N

\* CompatibleInstances::new makes of any set of instances a list of instances that are
\* apart and cover the same time.
THEOREM CompatibleIsExact ==
  ASSUME NEW S, IsFiniteSet(S), S \subseteq Instance, \A x \in S : x.start <= x.end
  PROVE  Merged(Compatible(S), S)
<1> DEFINE l == Sorted(S)
           N == Len(l)
<1>1. InOrderOf(l, S)  BY SortedIs
<1>0. N \in Nat /\ DOMAIN l = 1 .. N /\ \A k \in 1 .. N : l[k] \in S
  <2>1. l \in Seq(Instance) /\ \A k \in DOMAIN l : l[k] \in S  BY <1>1 DEF InOrderOf
  <2> HIDE DEF l
  <2> QED  BY <2>1
<1>2. PICK g : Merging(g, l) /\ Compatible(S) = g[N]
  <2>1. l \in Seq(Instance)  BY <1>1 DEF InOrderOf
  <2> QED  BY <2>1, CompatibleFolds
<1> HIDE DEF l
<1>3. Starting(l) /\ l \in Seq(Instance)  BY <1>1 DEF InOrderOf, Starting
<1>4. Proper(l)  BY <1>0 DEF Proper
<1> HIDE DEF N
<1>5. Merged(g[N], {l[k] : k \in 1 .. N})  BY <1>2, <1>3, <1>4, MergesAll DEF N
<1>6. {l[k] : k \in 1 .. N} = S
  <2>1. \A x \in S : \E k \in 1 .. N : l[k] = x  BY <1>0, <1>1 DEF InOrderOf
  <2> QED  BY <1>0, <2>1
<1> QED  BY <1>2, <1>5, <1>6

-----------------------------------------------------------------------------
(* What the query finds in the database                                    *)

\* The images of the elements of a finite set are finitely many.
LEMMA FiniteImage ==
  ASSUME NEW S, IsFiniteSet(S), NEW f
  PROVE  IsFiniteSet({f[x] : x \in S})
<1> DEFINE T == {f[x] : x \in S}
           g == [x \in S |-> f[x]]
<1>1. g \in Surjection(S, T)  BY DEF Surjection
<1> QED  BY <1>1, FS_Surjection

\* A finite set of times that is not empty has a first one.
LEMMA FirstOf ==
  ASSUME NEW S, S \subseteq Int, IsFiniteSet(S), S # {}
  PROVE  Min(S) \in S /\ \A x \in S : Min(S) <= x
<1> DEFINE R == {p \in S \X S : p[1] < p[2]}
           s == Ranked(S, R)
<1>1. Orders(R, S)  BY DEF Orders
<1>2. Enumerates(s, S, R)  BY <1>1, RankedIs
<1>3. \A x \in S : s[1] \in S /\ s[1] <= x
  <2> SUFFICES ASSUME NEW x \in S PROVE s[1] \in S /\ s[1] <= x  OBVIOUS
  <2>1. PICK k \in DOMAIN s : s[k] = x  BY <1>2 DEF Enumerates
  <2>2. Cardinality(S) \in Nat /\ DOMAIN s = 1 .. Cardinality(S) /\ s \in Seq(S)
    BY <1>2, FS_CardinalityType DEF Enumerates
  <2>3. 1 \in DOMAIN s /\ 1 <= k  BY <2>1, <2>2
  <2>4. s[1] \in S
    <3> HIDE DEF s
    <3> QED  BY <2>2, <2>3
  <2>5. CASE k = 1  BY <2>1, <2>4, <2>5
  <2>6. CASE k # 1
    <3> HIDE DEF s
    <3>1. << s[1], s[k] >> \in R
      <4> HIDE DEF R
      <4>1. 1 \in DOMAIN s /\ k \in DOMAIN s /\ 1 < k  BY <2>1, <2>2, <2>3, <2>6
      <4> QED  BY <1>2, <4>1 DEF Enumerates
    <3>2. s[1] < s[k]  BY <3>1
    <3>3. s[1] \in Int /\ s[k] \in Int  BY <2>1, <2>4
    <3> QED  BY <2>1, <2>4, <3>2, <3>3
  <2> QED  BY <2>5, <2>6
<1>4. \E x \in S : \A y \in S : x <= y
  <2> HIDE DEF s
  <2> QED  BY <1>3
<1> QED  BY <1>4 DEF Min

\* Finitely many instances, none of which ends before it begins
Times(S) == IsFiniteSet(S) /\ S \subseteq Instance /\ \A x \in S : x.start <= x.end

\* Of two such sets, both together are one.
LEMMA TimesTogether ==
  ASSUME NEW S, NEW T, Times(S), Times(T)
  PROVE  Times(S \cup T)
BY FS_Union DEF Times

\* An occurrence of an event, and its buffers, take no negative time.
LEMMA StayIs ==
  ASSUME NEW e \in Event, NEW t \in e.starts, e.host \in Host
  PROVE  /\ At(e, t) \in Instance /\ At(e, t).start = t /\ At(e, t).end = t + e.duration
         /\ t \in Int /\ e.duration \in Nat
         /\ Buffered(e, At(e, t)) \in Instance
         /\ Buffered(e, At(e, t)).start <= t /\ t + e.duration <= Buffered(e, At(e, t)).end
         /\ Stay(e, t) \in {At(e, t), Buffered(e, At(e, t))}
<1>1. t \in Int /\ e.duration \in Nat  BY EventAssumption
<1>2. At(e, t) \in Instance /\ At(e, t).start = t /\ At(e, t).end = t + e.duration
  BY <1>1 DEF At, Instance
<1>3. /\ Buffered(e, At(e, t)) \in Instance
      /\ Buffered(e, At(e, t)).start <= t /\ t + e.duration <= Buffered(e, At(e, t)).end
  <2>1. CASE e.service \in DOMAIN Resource[e.host].buffers
    <3> DEFINE b == Resource[e.host].buffers[e.service]
    <3>1. b.before \in Nat /\ b.after \in Nat  BY <2>1, HostAssumption
    <3>2. Buffered(e, At(e, t)) = [start |-> t - b.before, end |-> (t + e.duration) + b.after]
      BY <1>2, <2>1 DEF Buffered
    <3> HIDE DEF b
    <3>3. t - b.before \in Int /\ (t + e.duration) + b.after \in Int  BY <1>1, <3>1
    <3>4. Buffered(e, At(e, t)) \in Instance  BY <3>2, <3>3 DEF Instance
    <3> QED  BY <1>1, <3>1, <3>2, <3>4
  <2>2. CASE e.service \notin DOMAIN Resource[e.host].buffers
    <3>1. Buffered(e, At(e, t)) = At(e, t)  BY <2>2 DEF Buffered
    <3> QED  BY <1>1, <1>2, <3>1
  <2> QED  BY <2>1, <2>2
<1>4. Stay(e, t) \in {At(e, t), Buffered(e, At(e, t))}  BY DEF Stay
<1> QED  BY <1>1, <1>2, <1>3, <1>4

\* What the query knows of an occurrence of an event, it finds.
LEMMA KnownIsFetched ==
  ASSUME NEW e \in Event, NEW t \in e.starts, NEW w \in Instance, Known(e, t, w)
  PROVE  Fetched(e, w) /\ At(e, t) \in Expand(e, w) /\ Reaches(e, t, w)
<1>1. t \in Int /\ e.duration \in Nat /\ w.start \in Int /\ w.end \in Int
  BY EventAssumption, Bounds
<1>2. Min(e.starts) \in e.starts /\ Min(e.starts) <= t /\ Min(e.starts) \in Int
  BY EventAssumption, FirstOf
<1>3. ~e.recurring => Min(e.starts) = t  BY <1>2, EventAssumption
<1>4. e.recurring \in BOOLEAN  BY EventAssumption
<1>5. t <= w.end /\ t + e.duration >= w.start /\ (e.recurring => t >= w.start)
  <2>1. CASE e.recurring  BY <1>1, <2>1 DEF Known, Expanded, Beginning
  <2>2. CASE ~e.recurring  BY <1>1, <2>2 DEF Known, Reaches
  <2> QED  BY <2>1, <2>2
<1>6. Fetched(e, w)
  <2> DEFINE first == Min(e.starts)
  <2>1. CASE ~e.recurring  BY <1>3, <1>5, <2>1 DEF Fetched, Touches, Reaches
  <2>2. CASE e.recurring /\ first < w.end  BY <2>2 DEF Fetched
  <2>3. CASE e.recurring /\ ~(first < w.end)
    <3>1. first = t
      <4> HIDE DEF first
      <4> QED  BY <1>1, <1>2, <1>5, <2>3 DEF first
    <3> QED  BY <1>5, <3>1 DEF Fetched, Touches, Reaches
  <2> QED  BY <2>1, <2>2, <2>3
<1>7. At(e, t) \in Expand(e, w)
  <2>1. CASE e.recurring  BY <2>1 DEF Expand, Known
  <2>2. CASE ~e.recurring  BY <2>2 DEF Expand
  <2> QED  BY <2>1, <2>2
<1>8. Reaches(e, t, w)  BY <1>5 DEF Reaches
<1> QED  BY <1>6, <1>7, <1>8

\* The occurrences of an event among the starts of a set are such a set, with its buffers
\* or without.
LEMMA OccurrencesAreTimes ==
  ASSUME NEW e \in Event, e.host \in Host, NEW S, S \subseteq e.starts
  PROVE  Times({At(e, t) : t \in S}) /\ Times({Buffered(e, At(e, t)) : t \in S})
<1>1. IsFiniteSet(S)  BY EventAssumption, FS_Subset
<1> DEFINE f == [t \in S |-> At(e, t)]
           g == [t \in S |-> Buffered(e, At(e, t))]
<1>2. IsFiniteSet({f[t] : t \in S}) /\ IsFiniteSet({g[t] : t \in S})
  BY <1>1, FiniteImage
<1>3. {f[t] : t \in S} = {At(e, t) : t \in S} /\ {g[t] : t \in S} = {Buffered(e, At(e, t)) : t \in S}
  OBVIOUS
<1>4. \A t \in S : /\ At(e, t) \in Instance /\ At(e, t).start <= At(e, t).end
                   /\ Buffered(e, At(e, t)) \in Instance
                   /\ Buffered(e, At(e, t)).start <= Buffered(e, At(e, t)).end
  <2> SUFFICES ASSUME NEW t \in S
               PROVE  /\ At(e, t) \in Instance /\ At(e, t).start <= At(e, t).end
                      /\ Buffered(e, At(e, t)) \in Instance
                      /\ Buffered(e, At(e, t)).start <= Buffered(e, At(e, t)).end
    OBVIOUS
  <2> DEFINE a == At(e, t)
             b == Buffered(e, At(e, t))
  <2>1. /\ a \in Instance /\ a.start = t /\ a.end = t + e.duration
        /\ t \in Int /\ e.duration \in Nat /\ b \in Instance
        /\ b.start <= t /\ t + e.duration <= b.end
    BY StayIs
  <2> HIDE DEF a, b
  <2>2. b.start \in Int /\ b.end \in Int  BY <2>1, Bounds
  <2>3. a.start <= a.end /\ b.start <= b.end  BY <2>1, <2>2
  <2> QED  BY <2>1, <2>3 DEF a, b
<1> QED  BY <1>2, <1>3, <1>4 DEF Times

\* The occurrences found of finitely many events are such a set.
LEMMA AllTimes ==
  ASSUME NEW E, IsFiniteSet(E), NEW f, \A e \in E : Times(f[e])
  PROVE  Times(UNION {f[e] : e \in E})
<1>1. IsFiniteSet({f[e] : e \in E})  BY FiniteImage
<1>2. IsFiniteSet(UNION {f[e] : e \in E})  BY <1>1, FS_UNION DEF Times
<1> QED  BY <1>2 DEF Times

\* What is found are occurrences of the events of a calendar in S, among them those the
\* query knows of.
Occurrences(found, S, h, c, busy, w) ==
  /\ Times(found)
  /\ \A x \in found : \E e \in S :
       e.host = h /\ e.calendar = c /\ e.busy = busy /\ \E t \in e.starts : x = At(e, t)
  /\ \A e \in S : \A t \in e.starts :
       e.host = h /\ e.calendar = c /\ e.busy = busy /\ Known(e, t, w) => At(e, t) \in found

\* The events found in a calendar for a window are expanded to them.
LEMMA OpenIs ==
  ASSUME store \subseteq Event, NEW h \in Host, NEW c, NEW busy, NEW w \in Instance
  PROVE  Occurrences(UNION {Expand(e, w) : e \in InCalendar(h, c, busy, w)},
                     store, h, c, busy, w)
<1> DEFINE E == InCalendar(h, c, busy, w)
           f == [e \in E |-> Expand(e, w)]
           starts(e) == IF e.recurring THEN Expanded(e, w) ELSE e.starts
           found == UNION {Expand(e, w) : e \in InCalendar(h, c, busy, w)}
<1>1. E \subseteq store /\ \A e \in E : e.host = h /\ e.calendar = c /\ e.busy = busy
  BY DEF InCalendar
<1>2. IsFiniteSet(E)
  <2>1. E \in SUBSET Event  BY <1>1
  <2> QED  BY <2>1, EventAssumption, FS_Subset
<1>3. \A e \in E : Expand(e, w) = {At(e, t) : t \in starts(e)} /\ starts(e) \subseteq e.starts
  BY DEF Expand, Expanded, Beginning
<1>4. \A e \in E : Times(f[e])
  <2> SUFFICES ASSUME NEW e \in E PROVE Times(f[e])  OBVIOUS
  <2>1. e \in Event /\ e.host \in Host  BY <1>1
  <2>2. f[e] = {At(e, t) : t \in starts(e)} /\ starts(e) \subseteq e.starts  BY <1>3
  <2> HIDE DEF starts, f, E
  <2>3. Times({At(e, t) : t \in starts(e)})  BY <2>1, <2>2, OccurrencesAreTimes
  <2> QED  BY <2>2, <2>3
<1>5. found = UNION {f[e] : e \in E}  OBVIOUS
<1>6. Times(UNION {f[e] : e \in E})
  <2> HIDE DEF f, E
  <2> QED  BY <1>2, <1>4, AllTimes
<1>7. ASSUME NEW x \in found
      PROVE  \E e \in store :
               e.host = h /\ e.calendar = c /\ e.busy = busy /\ \E t \in e.starts : x = At(e, t)
  <2>1. PICK e \in E : x \in Expand(e, w)  OBVIOUS
  <2> HIDE DEF E
  <2>2. PICK t \in e.starts : x = At(e, t)  BY <1>3, <2>1
  <2> QED  BY <1>1, <2>2
<1>8. ASSUME NEW e \in store, NEW t \in e.starts,
             e.host = h, e.calendar = c, e.busy = busy, Known(e, t, w)
      PROVE  At(e, t) \in found
  <2>1. e \in Event  OBVIOUS
  <2>2. Fetched(e, w) /\ At(e, t) \in Expand(e, w)  BY <1>8, <2>1, KnownIsFetched
  <2>3. e \in E  BY <1>8, <2>2 DEF InCalendar
  <2> QED  BY <2>2, <2>3
<1>9. Occurrences(found, store, h, c, busy, w)
  <2> HIDE DEF found
  <2> QED  BY <1>5, <1>6, <1>7, <1>8 DEF Occurrences
<1> QED  BY <1>9

\* The same of a busy calendar, with the buffers of the events.
BufferedOccurrences(found, S, h, c, w) ==
  /\ Times(found)
  /\ \A x \in found : \E e \in S :
       e.host = h /\ e.calendar = c /\ e.busy /\ \E t \in e.starts : x = Buffered(e, At(e, t))
  /\ \A e \in S : \A t \in e.starts :
       e.host = h /\ e.calendar = c /\ e.busy /\ Known(e, t, w) => Buffered(e, At(e, t)) \in found

\* The busy events of a calendar are expanded to them.
LEMMA BusyIs ==
  ASSUME store \subseteq Event, NEW h \in Host, NEW c, NEW w \in Instance
  PROVE  BufferedOccurrences(UNION {{Buffered(e, a) : a \in Expand(e, w)} :
                                      e \in InCalendar(h, c, TRUE, w)}, store, h, c, w)
<1> DEFINE E == InCalendar(h, c, TRUE, w)
           f == [e \in E |-> {Buffered(e, a) : a \in Expand(e, w)}]
           starts(e) == IF e.recurring THEN Expanded(e, w) ELSE e.starts
           found == UNION {{Buffered(e, a) : a \in Expand(e, w)} :
                             e \in InCalendar(h, c, TRUE, w)}
<1>1. E \subseteq store /\ \A e \in E : e.host = h /\ e.calendar = c /\ e.busy
  BY DEF InCalendar
<1>2. IsFiniteSet(E)
  <2>1. E \in SUBSET Event  BY <1>1
  <2> QED  BY <2>1, EventAssumption, FS_Subset
<1>3. \A e \in E : Expand(e, w) = {At(e, t) : t \in starts(e)} /\ starts(e) \subseteq e.starts
  BY DEF Expand, Expanded, Beginning
<1>4. \A e \in E : Times(f[e])
  <2> SUFFICES ASSUME NEW e \in E PROVE Times(f[e])  OBVIOUS
  <2>1. e \in Event /\ e.host \in Host  BY <1>1
  <2>2. f[e] = {Buffered(e, At(e, t)) : t \in starts(e)} /\ starts(e) \subseteq e.starts
    <3>1. f[e] = {Buffered(e, a) : a \in Expand(e, w)}  OBVIOUS
    <3> HIDE DEF f, E
    <3> QED  BY <1>3, <3>1
  <2> HIDE DEF starts, f, E
  <2>3. Times({Buffered(e, At(e, t)) : t \in starts(e)})  BY <2>1, <2>2, OccurrencesAreTimes
  <2> QED  BY <2>2, <2>3
<1>5. found = UNION {f[e] : e \in E}  OBVIOUS
<1>6. Times(UNION {f[e] : e \in E})
  <2> HIDE DEF f, E
  <2> QED  BY <1>2, <1>4, AllTimes
<1>7. ASSUME NEW x \in found
      PROVE  \E e \in store : /\ e.host = h /\ e.calendar = c /\ e.busy
                              /\ \E t \in e.starts : x = Buffered(e, At(e, t))
  <2>1. PICK e \in E : x \in {Buffered(e, a) : a \in Expand(e, w)}  OBVIOUS
  <2> HIDE DEF E
  <2>2. PICK t \in e.starts : x = Buffered(e, At(e, t))  BY <1>3, <2>1
  <2> QED  BY <1>1, <2>2
<1>8. ASSUME NEW e \in store, NEW t \in e.starts,
             e.host = h, e.calendar = c, e.busy, Known(e, t, w)
      PROVE  Buffered(e, At(e, t)) \in found
  <2>1. e \in Event /\ e.busy = TRUE  BY <1>8, EventAssumption
  <2>2. Fetched(e, w) /\ At(e, t) \in Expand(e, w)  BY <1>8, <2>1, KnownIsFetched
  <2>3. e \in E  BY <1>8, <2>1, <2>2 DEF InCalendar
  <2>4. Buffered(e, At(e, t)) \in f[e]
    <3>1. f[e] = {Buffered(e, a) : a \in Expand(e, w)}  BY <2>3
    <3> QED  BY <2>2, <3>1
  <2> HIDE DEF f, E, found
  <2> QED  BY <1>5, <2>3, <2>4
<1>9. BufferedOccurrences(found, store, h, c, w)
  <2> HIDE DEF found
  <2> QED  BY <1>5, <1>6, <1>7, <1>8 DEF BufferedOccurrences
<1> QED  BY <1>9

\* The same of the events of other services, which do not recur.
ServiceOccurrences(found, S, h, w) ==
  /\ Times(found)
  /\ \A x \in found : \E e \in S :
       e.host = h /\ ~e.busy /\ e.service \notin {None, This} /\ \E t \in e.starts : x = At(e, t)
  /\ \A e \in S : \A t \in e.starts :
       e.host = h /\ ~e.busy /\ e.service \notin {None, This} /\ Known(e, t, w)
         => At(e, t) \in found

\* Of each of them one occurrence is found.
LEMMA ServicesAre ==
  ASSUME NEW S, S \subseteq Event, NEW h \in Host, NEW w \in Instance
  PROVE  LET others == {e \in S : /\ e.host = h /\ ~e.busy
                                  /\ e.service \notin {None, This}
                                  /\ Touches(e, w)}
         IN  ServiceOccurrences({At(e, Min(e.starts)) : e \in others}, S, h, w)
<1> DEFINE others == {e \in S : /\ e.host = h /\ ~e.busy
                                /\ e.service \notin {None, This}
                                /\ Touches(e, w)}
           f == [e \in others |-> At(e, Min(e.starts))]
           found == {At(e, Min(e.starts)) : e \in others}
<1>1. IsFiniteSet(others)
  <2>1. others \in SUBSET Event  OBVIOUS
  <2> QED  BY <2>1, EventAssumption, FS_Subset
<1>2. IsFiniteSet(found)
  <2>1. found = {f[e] : e \in others}  OBVIOUS
  <2> HIDE DEF f, others, found
  <2> QED  BY <1>1, <2>1, FiniteImage
<1>3. \A e \in others : Min(e.starts) \in e.starts
  <2> SUFFICES ASSUME NEW e \in others PROVE Min(e.starts) \in e.starts  OBVIOUS
  <2>1. e.starts \subseteq Int /\ IsFiniteSet(e.starts) /\ e.starts # {}  BY EventAssumption
  <2> QED  BY <2>1, FirstOf
<1>4. \A e \in others : At(e, Min(e.starts)) \in Instance
                          /\ At(e, Min(e.starts)).start <= At(e, Min(e.starts)).end
  <2> SUFFICES ASSUME NEW e \in others, NEW t \in e.starts
               PROVE  At(e, t) \in Instance /\ At(e, t).start <= At(e, t).end
    BY <1>3
  <2>1. e \in Event /\ e.host \in Host  OBVIOUS
  <2>2. /\ At(e, t) \in Instance /\ At(e, t).start = t /\ At(e, t).end = t + e.duration
        /\ t \in Int /\ e.duration \in Nat
    BY <2>1, StayIs
  <2>3. t <= t + e.duration  BY <2>2
  <2> QED  BY <2>2, <2>3
<1>5. Times(found)
  <2>1. \A x \in found : x \in Instance /\ x.start <= x.end  BY <1>4
  <2> HIDE DEF found
  <2> QED  BY <1>2, <2>1 DEF Times
<1>6. ASSUME NEW x \in found
      PROVE  \E e \in S : /\ e.host = h /\ ~e.busy /\ e.service \notin {None, This}
                          /\ \E t \in e.starts : x = At(e, t)
  BY <1>3
<1>7. ASSUME NEW e \in S, NEW t \in e.starts,
             e.host = h, ~e.busy, e.service \notin {None, This}, Known(e, t, w)
      PROVE  At(e, t) \in found
  <2>1. e \in Event /\ ~e.recurring /\ e.recurring \in BOOLEAN  BY <1>7, EventAssumption
  <2>2. e.starts \subseteq Int /\ IsFiniteSet(e.starts) /\ e.starts # {}  BY <2>1, EventAssumption
  <2>3. Min(e.starts) \in e.starts  BY <2>2, FirstOf
  <2>4. Min(e.starts) = t  BY <2>1, <2>3, EventAssumption
  <2>5. Touches(e, w)
    <3>1. Reaches(e, t, w)  BY <1>7, <2>1, KnownIsFetched
    <3> QED  BY <2>4, <3>1 DEF Touches
  <2>6. e \in others  BY <1>7, <2>5
  <2> QED  BY <2>4, <2>6
<1>8. ServiceOccurrences(found, S, h, w)
  <2> HIDE DEF found, others
  <2> QED  BY <1>5, <1>6, <1>7 DEF ServiceOccurrences
<1> QED  BY <1>8

\* The busy occurrences of a calendar outside are found.
FoundOutside(S, h, c, w) ==
  UNION {{At(e, t) : t \in {u \in e.starts : Reaches(e, u, w)}} :
           e \in {f \in S : /\ f.host = h /\ f.busy
                            /\ f.calendar = c}}

\* An outside calendar yields the occurrences of the events that are in it.
LEMMA OutsideIs ==
  ASSUME NEW S, S \subseteq Event, NEW h \in Host, NEW c, NEW w \in Instance
  PROVE  Occurrences(FoundOutside(S, h, c, w), S, h, c, TRUE, w)
<1> USE DEF FoundOutside
<1> DEFINE E == {f \in S : /\ f.host = h /\ f.busy
                           /\ f.calendar = c}
           starts(e) == {u \in e.starts : Reaches(e, u, w)}
           g == [e \in E |-> {At(e, t) : t \in starts(e)}]
           found == UNION {{At(e, t) : t \in starts(e)} : e \in E}
<1>1. IsFiniteSet(E)
  <2>1. E \in SUBSET Event  OBVIOUS
  <2> QED  BY <2>1, EventAssumption, FS_Subset
<1>2. \A e \in E : Times(g[e])
  <2> SUFFICES ASSUME NEW e \in E PROVE Times(g[e])  OBVIOUS
  <2>1. e \in Event /\ e.host \in Host  OBVIOUS
  <2>2. g[e] = {At(e, t) : t \in starts(e)} /\ starts(e) \subseteq e.starts  OBVIOUS
  <2> HIDE DEF starts, g, E
  <2>3. Times({At(e, t) : t \in starts(e)})  BY <2>1, <2>2, OccurrencesAreTimes
  <2> QED  BY <2>2, <2>3
<1>3. found = UNION {g[e] : e \in E}
  <2>1. {g[e] : e \in E} = {{At(e, t) : t \in starts(e)} : e \in E}
    <3> HIDE DEF E, starts
    <3> QED  OBVIOUS
  <2> QED  BY <2>1
<1>4. Times(UNION {g[e] : e \in E})
  <2> HIDE DEF g, E
  <2> QED  BY <1>1, <1>2, AllTimes
<1>5. ASSUME NEW x \in found
      PROVE  \E e \in S : /\ e.host = h /\ e.calendar = c /\ e.busy
                          /\ \E t \in e.starts : x = At(e, t)
  <2>1. PICK e \in E : x \in {At(e, t) : t \in starts(e)}  OBVIOUS
  <2> QED  BY <2>1
<1>6. ASSUME NEW e \in S, NEW t \in e.starts,
             e.host = h, e.calendar = c, e.busy, Known(e, t, w)
      PROVE  At(e, t) \in found
  <2>1. Reaches(e, t, w)  BY <1>6, KnownIsFetched
  <2> QED  BY <1>6, <2>1
<1>7. Occurrences(found, S, h, c, TRUE, w)
  <2>1. \A e \in S : e.busy \in BOOLEAN  BY EventAssumption
  <2>2. \A x \in found : \E e \in S :
          e.host = h /\ e.calendar = c /\ e.busy = TRUE /\ \E t \in e.starts : x = At(e, t)
    <3> HIDE DEF found
    <3> QED  BY <1>5, <2>1
  <2> HIDE DEF found
  <2> QED  BY <1>3, <1>4, <1>6, <2>2 DEF Occurrences
<1> QED  BY <1>7

-----------------------------------------------------------------------------
(* What is known of a host while the query reads                           *)

Stages == {"open", "services", "calendars", "done"}

Readers ==
  [host : Host, window : Instance \cup {None}, free : Seq(Instance), busy : SUBSET Instance,
   left : SUBSET UNION {Resource[h].busyCalendars : h \in Host},
   outside : Seq(UNION {Range(Resource[h].outside) : h \in Host}),
   lost : BOOLEAN, stage : Stages]

\* The types of what has been read, and the window it is read for.
Typed(r, q, now) ==
  /\ r \in Readers
  /\ r.window = Window(r.host, q, now)
  /\ r.window = None => r.stage = "done"
  /\ r.stage = "open" \/ r.window = None => r.free = << >>
  /\ Proper(r.free)
  /\ Times(r.busy)
  /\ r.left \subseteq Resource[r.host].busyCalendars
  /\ Range(r.outside) \subseteq Range(Resource[r.host].outside)

\* The reads to come find the event, if it is stored by then.
ToCome(r, e) ==
  LET busyCalendars == Resource[r.host].busyCalendars
  IN  \/ /\ r.stage = "services"
         /\ \/ ~e.busy
            \/ e.calendar \in busyCalendars
            \/ e.calendar \in Range(Resource[r.host].outside)
      \/ /\ r.stage = "calendars" /\ e.busy
         /\ \/ e.calendar \in r.left
            \/ e.calendar \notin busyCalendars /\ e.calendar \in Range(r.outside)

Avoids(r, a) == \A k \in DOMAIN r.free : ~Meets(a, r.free[k])

\* An occurrence that blocks is still to be read, or was read and is to be removed, or
\* nothing that is free meets it.
Handled(r, e, t) ==
  \/ r.stage = "open"
  \/ ToCome(r, e)
  \/ r.stage = "calendars" /\ Stay(e, t) \in r.busy
  \/ Avoids(r, Stay(e, t))

\* What was stored during the whole query (st) is handled if no read was lost.
BusyHandled(r, st) ==
  ~r.lost =>
    \A e \in st : Blocks(e, r.host) =>
      \A t \in e.starts : Known(e, t, r.window) => Handled(r, e, t)

\* The moment m of h is offered, by what was stored at some time (sn).
OfferedBy(h, m, sn) ==
  IF Plan(h).kind = "schedule" THEN Offered(Plan(h), m)
  ELSE \E e \in sn : Offers(e, h) /\ \E t \in e.starts : In(m, At(e, t))

OffersOnly(r, sn) ==
  \A k \in DOMAIN r.free : \A m \in Int : In(m, r.free[k]) => OfferedBy(r.host, m, sn)

\* The free time of a schedule keeps to the window.
KeepsWindow(r) ==
  Plan(r.host).kind = "schedule" =>
    \A k \in DOMAIN r.free : r.window.start <= r.free[k].start /\ r.free[k].end <= r.window.end

\* What is busy is what was stored at some time.
BusyOnly(r, sn) ==
  \A b \in r.busy : \E e \in sn : Blocks(e, r.host) /\
    \E t \in e.starts : Stay(e, t).start <= b.start /\ b.end <= Stay(e, t).end

\* The host is surely offered the time a, and surely not kept busy.
OfferedFor(r, a, st) ==
  IF Plan(r.host).kind = "schedule"
  THEN \A t \in a.start .. a.end - 1 : OfferedSurely(Plan(r.host), t)
  ELSE \E e \in st : Offers(e, r.host) /\ \E t \in e.starts :
         Known(e, t, r.window) /\ Inside(a, At(e, t))

FreeFor(r, a, st, sn) ==
  /\ Inside(a, r.window) /\ ~r.lost
  /\ OfferedFor(r, a, st)
  /\ \A e \in sn : Blocks(e, r.host) => \A t \in e.starts : ~Meets(Stay(e, t), a)

\* Such a time is held by the free list.
FreeKept(r, st, sn) ==
  \A a \in Instance :
    a.start < a.end /\ FreeFor(r, a, st, sn) => r.stage = "open" \/ Holds(r.free, a)

Good(r, q, now, st, sn) ==
  /\ Typed(r, q, now)
  /\ BusyHandled(r, st) /\ OffersOnly(r, sn) /\ KeepsWindow(r)
  /\ BusyOnly(r, sn) /\ FreeKept(r, st, sn)

\* As events change, less was stored during the whole query, and more at some time.
LEMMA StaysGood ==
  ASSUME NEW r, NEW q, NEW now, NEW st, NEW sn, Good(r, q, now, st, sn),
         NEW st2, st2 \subseteq st, NEW sn2, sn \subseteq sn2
  PROVE  Good(r, q, now, st2, sn2)
<1>1. BusyHandled(r, st2)  BY DEF Good, BusyHandled
<1>2. OffersOnly(r, sn2)
  <2>1. \A m : OfferedBy(r.host, m, sn) => OfferedBy(r.host, m, sn2)  BY DEF OfferedBy
  <2> QED  BY <2>1 DEF Good, OffersOnly
<1>3. BusyOnly(r, sn2)  BY DEF Good, BusyOnly
<1>4. FreeKept(r, st2, sn2)
  <2>1. \A a : OfferedFor(r, a, st2) => OfferedFor(r, a, st)  BY DEF OfferedFor
  <2>2. \A a : FreeFor(r, a, st2, sn2) => FreeFor(r, a, st, sn)  BY <2>1 DEF FreeFor
  <2> QED  BY <2>2 DEF Good, FreeKept
<1> QED  BY <1>1, <1>2, <1>3, <1>4 DEF Good

\* The window of a host, if there is one, keeps the notice of the host.
LEMMA WindowIs ==
  ASSUME NEW h \in Host, NEW q, q.start \in Int, q.end \in Int, NEW now \in Int
  PROVE  LET w == Window(h, q, now) IN
         w = None \/ /\ w \in Instance
                     /\ w.start = Later(q.start, now + Resource[h].closest)
                     /\ w.start >= now + Resource[h].closest
                     /\ w.end <= q.end
                     /\ w.end = q.end \/ w.start < w.end
                     /\ Resource[h].furthest # None => w.end <= now + Resource[h].furthest
<1> DEFINE w == Window(h, q, now)
           c == Resource[h].closest
           f == Resource[h].furthest
           start == Later(q.start, now + c)
<1>1. c \in Int /\ (f = None \/ f \in Int)  BY HostAssumption
<1>2. start \in Int /\ start >= now + c  BY <1>1 DEF Later
<1>3. CASE f = None
  <2>1. w = [start |-> start, end |-> q.end]  BY <1>3 DEF Window
  <2> QED  BY <1>2, <1>3, <2>1 DEF Instance
<1>4. CASE f # None /\ now + f >= q.end
  <2>1. w = [start |-> start, end |-> q.end]  BY <1>4 DEF Window
  <2> HIDE DEF c, f, start
  <2> QED  BY <1>1, <1>2, <1>4, <2>1 DEF Instance, c, f, start
<1>5. CASE f # None /\ ~(now + f >= q.end) /\ now + f <= start
  <2>1. w = None  BY <1>5 DEF Window
  <2> QED  BY <2>1
<1>6. CASE f # None /\ ~(now + f >= q.end) /\ ~(now + f <= start)
  <2>1. w = [start |-> start, end |-> now + f]  BY <1>6 DEF Window
  <2>2. f \in Int  BY <1>1, <1>6
  <2>3. now + f \in Int /\ now + f < q.end /\ start < now + f  BY <1>2, <1>6, <2>2
  <2>4. w \in Instance  BY <1>2, <2>1, <2>3 DEF Instance
  <2> HIDE DEF w
  <2>5. w.start = start /\ w.end = now + f  BY <2>1
  <2>6. w.start = Later(q.start, now + Resource[h].closest) /\ w.start >= now + Resource[h].closest
    BY <1>2, <2>5
  <2>7. w.end <= q.end /\ w.start < w.end /\ w.end <= now + Resource[h].furthest
    BY <2>2, <2>3, <2>5
  <2> QED  BY <2>4, <2>6, <2>7 DEF w
<1> QED  BY <1>3, <1>4, <1>5, <1>6

\* Once the availability of a host is read, what blocks in its calendar is removed, and the
\* rest is to come.
LEMMA OpenStep ==
  ASSUME NEW r, NEW q, NEW now, NEW st, NEW sn, Good(r, q, now, st, sn), st \subseteq Event,
         r.stage = "open", NEW free \in Seq(Instance), Proper(free),
         NEW r2, r2 = [r EXCEPT !.free = free, !.stage = "services"],
         OffersOnly(r2, sn), KeepsWindow(r2), FreeKept(r2, st, sn),
         Plan(r.host).kind = "calendar" =>
           \A e \in st : e.host = r.host /\ e.busy /\ e.calendar = Plan(r.host).calendar =>
             \A t \in e.starts : Known(e, t, r.window) => Avoids(r2, At(e, t))
  PROVE  Good(r2, q, now, st, sn)
<1>1. r \in Readers /\ Typed(r, q, now)  BY DEF Good, Typed
<1>2. /\ r2 \in Readers /\ r2.host = r.host /\ r2.window = r.window /\ r2.free = free
      /\ r2.busy = r.busy /\ r2.left = r.left /\ r2.outside = r.outside
      /\ r2.lost = r.lost /\ r2.stage = "services"
  BY <1>1 DEF Readers, Stages
<1>3. Typed(r2, q, now)
  <2>1. r2.window # None  BY <1>1, <1>2 DEF Typed
  <2> QED  BY <1>1, <1>2, <2>1 DEF Typed
<1>4. BusyOnly(r2, sn)  BY <1>2 DEF Good, BusyOnly
<1>5. BusyHandled(r2, st)
  <2> SUFFICES ASSUME NEW e \in st, Blocks(e, r.host), NEW t \in e.starts, Known(e, t, r.window),
                      ~ToCome(r2, e)
               PROVE  Avoids(r2, Stay(e, t))
    BY <1>2 DEF BusyHandled, Handled
  <2>1. /\ e.busy /\ e.calendar \notin Resource[r.host].busyCalendars
        /\ e.calendar \notin Range(Resource[r.host].outside)
    BY <1>2 DEF ToCome
  <2>2. /\ e.host = r.host /\ Plan(r.host).kind = "calendar"
        /\ e.calendar = Plan(r.host).calendar
    BY <2>1 DEF Blocks
  <2>3. Stay(e, t) = At(e, t)  BY <2>1, <2>2 DEF Stay
  <2> QED  BY <2>1, <2>2, <2>3
<1> QED  BY <1>3, <1>4, <1>5 DEF Good

\* Times that lie within others, and what meets them.
LEMMA MeetsWithin ==
  ASSUME NEW a \in Instance, NEW x \in Instance, NEW y \in Instance,
         y.start <= x.start, x.end <= y.end
  PROVE  Meets(a, x) => Meets(a, y)
<1>1. /\ a.start \in Int /\ a.end \in Int /\ x.start \in Int /\ x.end \in Int
      /\ y.start \in Int /\ y.end \in Int
  BY Bounds
<1> QED  BY <1>1 DEF Meets

\* Two times meet each other.
LEMMA MeetsEither == \A a, b : Meets(a, b) <=> Meets(b, a)
BY DEF Meets

\* Of a host who is available by a calendar, the free time is what is open in it, without
\* what is busy in it.
LEMMA CalendarStep ==
  ASSUME NEW r, NEW q, NEW now, NEW st, NEW sn, Good(r, q, now, st, sn),
         NEW S, st \subseteq S, S \subseteq sn, S \subseteq Event,
         r.stage = "open", Plan(r.host).kind = "calendar",
         NEW F, Occurrences(F, S, r.host, Plan(r.host).calendar, FALSE, r.window),
         NEW B, Occurrences(B, S, r.host, Plan(r.host).calendar, TRUE, r.window),
         SplitsInTwo(Compatible(F), Compatible(B)),
         NEW r2, r2 = [r EXCEPT !.free = FreeOf(F, B), !.stage = "services"]
  PROVE  Good(r2, q, now, st, sn)
<1> DEFINE m == Compatible(F)
           b == Compatible(B)
           free == FreeOf(F, B)
           h == r.host
<1>0. r \in Readers /\ Typed(r, q, now) /\ h \in Host
  BY DEF Good, Typed, Readers
<1>f. /\ Times(F)
      /\ \A x \in F : \E e \in S :
           e.host = h /\ e.calendar = Plan(h).calendar /\ e.busy = FALSE /\
           \E t \in e.starts : x = At(e, t)
      /\ \A e \in S : \A t \in e.starts :
           e.host = h /\ e.calendar = Plan(h).calendar /\ e.busy = FALSE /\ Known(e, t, r.window)
             => At(e, t) \in F
  BY DEF Occurrences
<1>b. /\ Times(B)
      /\ \A x \in B : \E e \in S :
           e.host = h /\ e.calendar = Plan(h).calendar /\ e.busy = TRUE /\
           \E t \in e.starts : x = At(e, t)
      /\ \A e \in S : \A t \in e.starts :
           e.host = h /\ e.calendar = Plan(h).calendar /\ e.busy = TRUE /\ Known(e, t, r.window)
             => At(e, t) \in B
  BY DEF Occurrences
<1>1. Merged(m, F) /\ Merged(b, B)  BY <1>f, <1>b, CompatibleIsExact DEF Times
<1>2. /\ Sound(m) /\ m \in Seq(Instance) /\ Proper(m) /\ Sound(b) /\ b \in Seq(Instance)
  BY <1>1 DEF Merged, Sound
<1>3. Remaining(free, m, b)
  <2>1. SplitsInTwo(m, b)  OBVIOUS
  <2> HIDE DEF m, b
  <2>2. Remaining(RemoveAll(m, b, 0), m, b)  BY <1>2, <2>1, RemoveAllIsExact
  <2> QED  BY <2>2 DEF FreeOf, m, b
<1>4. free \in Seq(Instance) /\ Proper(free)  BY <1>3 DEF Remaining
<1>5. r2.free = free /\ r2.host = h /\ r2.window = r.window /\ r2.stage = "services"
      /\ r2.lost = r.lost
  BY <1>0 DEF Readers
<1>6. /\ \A k \in DOMAIN free : free[k] \in Instance
      /\ \A k \in DOMAIN m : m[k] \in Instance
      /\ \A k \in DOMAIN b : b[k] \in Instance
  <2> HIDE DEF free, m, b
  <2> QED  BY <1>2, <1>4
<1> HIDE DEF free, m, b
<1>7. OffersOnly(r2, sn)
  <2> SUFFICES ASSUME NEW k \in DOMAIN free, NEW x \in Int, In(x, free[k])
               PROVE  OfferedBy(h, x, sn)
    BY <1>5 DEF OffersOnly
  <2> DEFINE a == [start |-> x, end |-> x + 1]
  <2>1. PICK j \in DOMAIN m : Part(free[k], m[j])  BY <1>3 DEF Remaining
  <2>2. /\ free[k].start \in Int /\ free[k].end \in Int /\ m[j].start \in Int /\ m[j].end \in Int
    BY <1>6, Bounds
  <2>3. a \in Instance /\ a.start < a.end /\ a.start = x /\ a.end = x + 1  BY DEF Instance
  <2> HIDE DEF a
  <2>4. Meets(a, m[j])  BY <2>1, <2>2, <2>3 DEF Part, In, Meets
  <2>5. PICK y \in F : Meets(a, y)  BY <1>1, <2>3, <2>4 DEF Merged
  <2>6. PICK e \in S : /\ e.host = h /\ e.calendar = Plan(h).calendar /\ e.busy = FALSE
                       /\ \E t \in e.starts : y = At(e, t)
    BY <1>f
  <2>7. PICK t \in e.starts : y = At(e, t)  BY <2>6
  <2>8. y \in Instance /\ y.start \in Int /\ y.end \in Int  BY <1>f, Bounds DEF Times
  <2>9. In(x, At(e, t))  BY <2>3, <2>5, <2>7, <2>8 DEF Meets, In
  <2>10. Offers(e, h)  BY <2>6 DEF Offers
  <2> QED  BY <2>9, <2>10 DEF OfferedBy
<1>8. ASSUME NEW e \in st, e.host = h, e.busy, e.calendar = Plan(h).calendar,
             NEW t \in e.starts, Known(e, t, r.window)
      PROVE  Avoids(r2, At(e, t))
  <2>1. e \in S /\ e \in Event /\ e.busy = TRUE  BY <1>8, EventAssumption
  <2>2. At(e, t) \in B  BY <1>b, <1>8, <2>1
  <2> DEFINE x == At(e, t)
  <2>3. x \in Instance  BY <1>b, <2>2 DEF Times
  <2>4. PICK j \in DOMAIN b : b[j].start <= x.start /\ x.end <= b[j].end
    BY <1>1, <2>2 DEF Merged, Holds
  <2> HIDE DEF x
  <2>5. \A k \in DOMAIN free : ~Meets(free[k], b[j])  BY <1>3 DEF Remaining, MeetsNone
  <2>6. \A k \in DOMAIN free : ~Meets(free[k], x)
    BY <1>6, <2>3, <2>4, <2>5, MeetsWithin
  <2> QED  BY <1>5, <2>6, MeetsEither DEF Avoids, x
<1>9. FreeKept(r2, st, sn)
  <2> SUFFICES ASSUME NEW a \in Instance, a.start < a.end, FreeFor(r2, a, st, sn)
               PROVE  Holds(free, a)
    BY <1>5 DEF FreeKept
  <2>0. a.start \in Int /\ a.end \in Int  BY Bounds
  <2>1. Holds(m, a)
    <3>1. PICK e \in st : /\ Offers(e, h)
                          /\ \E t \in e.starts : Known(e, t, r.window) /\ Inside(a, At(e, t))
      BY <1>5 DEF FreeFor, OfferedFor
    <3>2. PICK t \in e.starts : Known(e, t, r.window) /\ Inside(a, At(e, t))  BY <3>1
    <3> DEFINE x == At(e, t)
    <3>3. e.busy = FALSE /\ e.host = h /\ e.calendar = Plan(h).calendar
      BY <3>1, EventAssumption DEF Offers
    <3>4. x \in F  BY <1>f, <3>2, <3>3
    <3>5. x \in Instance  BY <1>f, <3>4 DEF Times
    <3>6. x.start <= a.start /\ a.end <= x.end  BY <3>2 DEF Inside
    <3> HIDE DEF x
    <3>7. PICK j \in DOMAIN m : m[j].start <= x.start /\ x.end <= m[j].end
      BY <1>1, <3>4 DEF Merged, Holds
    <3>8. m[j].start <= a.start /\ a.end <= m[j].end
      <4>1. m[j] \in Instance  BY <1>6
      <4> QED  BY <2>0, <3>5, <3>6, <3>7, <4>1, Bounds
    <3> QED  BY <3>8 DEF Holds
  <2>2. MeetsNone(a, b)
    <3> SUFFICES ASSUME NEW j \in DOMAIN b, Meets(a, b[j]) PROVE FALSE  BY DEF MeetsNone
    <3>1. PICK x \in B : Meets(a, x)  BY <1>1 DEF Merged
    <3>2. PICK e \in S : /\ e.host = h /\ e.calendar = Plan(h).calendar /\ e.busy = TRUE
                         /\ \E t \in e.starts : x = At(e, t)
      BY <1>b
    <3>3. PICK t \in e.starts : x = At(e, t)  BY <3>2
    <3>4. Blocks(e, h)  BY <3>2 DEF Blocks
    <3>5. ~Meets(Stay(e, t), a)  BY <1>5, <3>4 DEF FreeFor
    <3>6. Meets(a, Stay(e, t))
      <4> DEFINE y == Stay(e, t)
                 z == Buffered(e, x)
      <4>1. /\ x \in Instance /\ x.start = t /\ x.end = t + e.duration
            /\ t \in Int /\ e.duration \in Nat
            /\ z \in Instance /\ z.start <= t /\ t + e.duration <= z.end
            /\ y \in {x, z}
        BY <1>0, <3>2, <3>3, StayIs
      <4> HIDE DEF y, z
      <4>2. y \in Instance /\ y.start <= x.start /\ x.end <= y.end
        <5>1. CASE y = x  BY <4>1, <5>1
        <5>2. CASE y = z  BY <4>1, <5>2
        <5> QED  BY <4>1, <5>1, <5>2
      <4>3. Meets(a, y)  BY <3>1, <4>1, <4>2, MeetsWithin
      <4> QED  BY <4>3 DEF y
    <3> QED  BY <3>5, <3>6, MeetsEither
  <2> QED  BY <1>3, <2>1, <2>2 DEF Remaining
<1>10. KeepsWindow(r2)  BY <1>5 DEF KeepsWindow
<1>11. \A e \in st : e.host = r.host /\ e.busy /\ e.calendar = Plan(r.host).calendar =>
         \A t \in e.starts : Known(e, t, r.window) => Avoids(r2, At(e, t))
  BY <1>8
<1>12. r2 = [r EXCEPT !.free = free, !.stage = "services"] /\ st \subseteq Event  BY DEF free
<1> QED  BY <1>4, <1>7, <1>9, <1>10, <1>11, <1>12, OpenStep

\* What a list has is its first element, or behind it.
LEMMA HeadOrTail ==
  ASSUME NEW A, NEW s \in Seq(A), s # << >>
  PROVE  /\ Head(s) \in A /\ Tail(s) \in Seq(A)
         /\ Range(Tail(s)) \subseteq Range(s) /\ Head(s) \in Range(s)
         /\ \A x \in Range(s) : x = Head(s) \/ x \in Range(Tail(s))
<1>1. Len(s) \in Nat /\ Len(s) > 0 /\ DOMAIN s = 1 .. Len(s)  OBVIOUS
<1>2. Head(s) = s[1] /\ Head(s) \in A /\ Tail(s) \in Seq(A) /\ Len(Tail(s)) = Len(s) - 1
      /\ DOMAIN Tail(s) = 1 .. Len(s) - 1
      /\ \A i \in 1 .. Len(s) - 1 : Tail(s)[i] = s[i + 1]
  OBVIOUS
<1>3. ASSUME NEW x \in Range(s), x # Head(s) PROVE x \in Range(Tail(s))
  <2>1. PICK i \in DOMAIN s : x = s[i]  BY DEF Range
  <2>2. i # 1 /\ i \in Nat /\ i >= 1 /\ i <= Len(s)  BY <1>1, <1>2, <1>3, <2>1
  <2>3. i - 1 \in DOMAIN Tail(s) /\ (i - 1) + 1 = i  BY <1>1, <1>2, <2>2
  <2>4. Tail(s)[i - 1] = s[i]
    <3>1. i - 1 \in 1 .. Len(s) - 1  BY <1>2, <2>3
    <3> QED  BY <1>2, <2>3, <3>1
  <2> QED  BY <2>1, <2>3, <2>4 DEF Range
<1>4. Range(Tail(s)) \subseteq Range(s)
  <2> SUFFICES ASSUME NEW i \in DOMAIN Tail(s) PROVE Tail(s)[i] \in Range(s)  BY DEF Range
  <2>1. i \in 1 .. Len(s) - 1 /\ i + 1 \in DOMAIN s /\ Tail(s)[i] = s[i + 1]  BY <1>1, <1>2
  <2> QED  BY <2>1 DEF Range
<1>5. Head(s) \in Range(s)  BY <1>1, <1>2 DEF Range
<1> QED  BY <1>2, <1>3, <1>4, <1>5

\* With nothing free there is nothing to show.
LEMMA NothingFree ==
  ASSUME NEW r, r.free = << >>, NEW sn
  PROVE  OffersOnly(r, sn) /\ KeepsWindow(r) /\ \A a : Avoids(r, a)
BY DEF OffersOnly, KeepsWindow, Avoids

\* A host without a plan has no free time.
LEMMA NoPlanStep ==
  ASSUME NEW r, NEW q, NEW now, NEW st, NEW sn, Good(r, q, now, st, sn), st \subseteq Event,
         r.stage = "open", Plan(r.host).kind \notin {"calendar", "schedule"},
         NEW r2, r2 = [r EXCEPT !.free = << >>, !.stage = "services"]
  PROVE  Good(r2, q, now, st, sn)
<1>1. r \in Readers  BY DEF Good, Typed
<1>2. << >> \in Seq(Instance) /\ Proper(<< >>)  BY DEF Proper
<1>3. r2.free = << >> /\ r2.host = r.host  BY <1>1 DEF Readers
<1>4. OffersOnly(r2, sn) /\ KeepsWindow(r2)  BY <1>3, NothingFree
<1>5. FreeKept(r2, st, sn)  BY <1>3 DEF FreeKept, FreeFor, OfferedFor, Offers
<1> QED  BY <1>2, <1>4, <1>5, OpenStep

\* A read that is lost leaves the free list as it is, and claims nothing of what blocks.
LEMMA LostStep ==
  ASSUME NEW r, NEW q, NEW now, NEW st, NEW sn, Good(r, q, now, st, sn),
         NEW r2, r2 \in Readers, r2.host = r.host, r2.window = r.window, r2.free = r.free,
         r2.busy = r.busy, r2.left \subseteq r.left, Range(r2.outside) \subseteq Range(r.outside),
         r2.lost, r.stage # "done", r2.stage # "open"
  PROVE  Good(r2, q, now, st, sn)
<1>1. Typed(r, q, now)  BY DEF Good
<1>2. Typed(r2, q, now)  BY <1>1 DEF Typed
<1>3. BusyHandled(r2, st) /\ FreeKept(r2, st, sn)  BY DEF BusyHandled, FreeKept, FreeFor
<1>4. OffersOnly(r2, sn) /\ KeepsWindow(r2) /\ BusyOnly(r2, sn)
  BY DEF Good, OffersOnly, KeepsWindow, BusyOnly
<1> QED  BY <1>2, <1>3, <1>4 DEF Good

\* More is known to be busy, and less is to come.
LEMMA BusyStep ==
  ASSUME NEW r, NEW q, NEW now, NEW st, NEW sn, Good(r, q, now, st, sn),
         NEW r2, r2 \in Readers, r2.host = r.host, r2.window = r.window, r2.free = r.free,
         r2.lost = r.lost, r2.stage = "calendars", r.stage \in {"services", "calendars"},
         Times(r2.busy), r2.left \subseteq Resource[r.host].busyCalendars,
         Range(r2.outside) \subseteq Range(Resource[r.host].outside), BusyOnly(r2, sn),
         r.stage = "calendars" => r.busy \subseteq r2.busy,
         \A e \in st : Blocks(e, r.host) /\ ToCome(r, e) =>
           \A t \in e.starts : Known(e, t, r.window) => ToCome(r2, e) \/ Stay(e, t) \in r2.busy
  PROVE  Good(r2, q, now, st, sn)
<1>1. Typed(r, q, now) /\ BusyHandled(r, st) /\ FreeKept(r, st, sn)  BY DEF Good
<1>2. Typed(r2, q, now)  BY <1>1 DEF Typed
<1>3. BusyHandled(r2, st)
  <2> SUFFICES ASSUME ~r.lost, NEW e \in st, Blocks(e, r.host),
                      NEW t \in e.starts, Known(e, t, r.window)
               PROVE  Handled(r2, e, t)
    BY DEF BusyHandled
  <2>1. Handled(r, e, t)  BY <1>1 DEF BusyHandled
  <2>2. CASE ToCome(r, e)
    <3>1. ToCome(r2, e) \/ Stay(e, t) \in r2.busy  BY <2>2
    <3> QED  BY <3>1 DEF Handled
  <2>3. CASE r.stage = "calendars" /\ Stay(e, t) \in r.busy  BY <2>3 DEF Handled
  <2>4. CASE Avoids(r, Stay(e, t))
    <3>1. Avoids(r2, Stay(e, t))  BY <2>4 DEF Avoids
    <3> QED  BY <3>1 DEF Handled
  <2>5. r.stage # "open"  OBVIOUS
  <2> QED  BY <2>1, <2>2, <2>3, <2>4, <2>5 DEF Handled
<1>4. FreeKept(r2, st, sn)
  <2> SUFFICES ASSUME NEW a \in Instance, a.start < a.end, FreeFor(r2, a, st, sn)
               PROVE  Holds(r2.free, a)
    BY DEF FreeKept
  <2>1. FreeFor(r, a, st, sn)  BY DEF FreeFor, OfferedFor
  <2>2. r.stage # "open"  OBVIOUS
  <2> QED  BY <1>1, <2>1, <2>2 DEF FreeKept
<1>5. OffersOnly(r2, sn) /\ KeepsWindow(r2)  BY DEF Good, OffersOnly, KeepsWindow
<1> QED  BY <1>2, <1>3, <1>4, <1>5 DEF Good

\* An element of busy time that is found is one of a stored event.
LEMMA BusyFound ==
  ASSUME NEW h \in Host, NEW e \in Event, e.host = h, NEW t \in e.starts
  PROVE  /\ Stay(e, t).start <= At(e, t).start /\ At(e, t).end <= Stay(e, t).end
         /\ ~e.busy \/ e.calendar \notin Resource[h].busyCalendars => Stay(e, t) = At(e, t)
         /\ e.busy /\ e.calendar \in Resource[h].busyCalendars
              => Stay(e, t) = Buffered(e, At(e, t))
<1> DEFINE x == At(e, t)
           y == Stay(e, t)
           z == Buffered(e, x)
<1>1. /\ x \in Instance /\ x.start = t /\ x.end = t + e.duration
      /\ t \in Int /\ e.duration \in Nat
      /\ z \in Instance /\ z.start <= t /\ t + e.duration <= z.end
      /\ y \in {x, z}
  BY StayIs
<1>2. (~e.busy \/ e.calendar \notin Resource[h].busyCalendars => y = x)
      /\ (e.busy /\ e.calendar \in Resource[h].busyCalendars => y = z)
  BY DEF Stay
<1> HIDE DEF x, y, z
<1>3. y.start <= x.start /\ x.end <= y.end
  <2>1. CASE y = x  BY <1>1, <2>1
  <2>2. CASE y = z  BY <1>1, <2>2
  <2> QED  BY <1>1, <2>1, <2>2
<1> QED  BY <1>2, <1>3 DEF x, y, z

\* The events of other services are the first that are known to be busy.
LEMMA ServicesStep ==
  ASSUME NEW r, NEW q, NEW now, NEW st, NEW sn, Good(r, q, now, st, sn),
         NEW S, st \subseteq S, S \subseteq sn, S \subseteq Event,
         r.stage = "services", NEW found, ServiceOccurrences(found, S, r.host, r.window),
         NEW r2, r2 = [r EXCEPT !.busy = found, !.left = Resource[r.host].busyCalendars,
                                !.outside = Resource[r.host].outside, !.stage = "calendars"]
  PROVE  Good(r2, q, now, st, sn)
<1> DEFINE h == r.host
<1>1. r \in Readers /\ h \in Host  BY DEF Good, Typed, Readers
<1>0. /\ Times(found)
      /\ \A x \in found : \E e \in S :
           e.host = h /\ ~e.busy /\ e.service \notin {None, This} /\ \E t \in e.starts : x = At(e, t)
      /\ \A e \in S : \A t \in e.starts :
           e.host = h /\ ~e.busy /\ e.service \notin {None, This} /\ Known(e, t, r.window)
             => At(e, t) \in found
  BY DEF ServiceOccurrences
<1>2. found \subseteq Instance  BY <1>0 DEF Times
<1>3. Resource[h].outside \in Seq(UNION {Range(Resource[g].outside) : g \in Host})
  <2>1. Resource[h].outside \in Seq(Range(Resource[h].outside))  BY <1>1, HostAssumption
  <2>2. Range(Resource[h].outside) \subseteq UNION {Range(Resource[g].outside) : g \in Host}
    BY <1>1
  <2> DEFINE A == Range(Resource[h].outside)
             B == UNION {Range(Resource[g].outside) : g \in Host}
             s == Resource[h].outside
  <2> HIDE DEF A, B, s
  <2>3. s \in Seq(A) /\ A \subseteq B  BY <2>1, <2>2 DEF A, B, s
  <2>4. s \in Seq(B)  BY <2>3
  <2> QED  BY <2>4 DEF B, s
<1>4. Resource[h].busyCalendars \subseteq UNION {Resource[g].busyCalendars : g \in Host}
  BY <1>1
<1>5. /\ r2 \in Readers /\ r2.host = h /\ r2.window = r.window /\ r2.free = r.free
      /\ r2.lost = r.lost /\ r2.stage = "calendars" /\ r2.busy = found
      /\ r2.left = Resource[h].busyCalendars /\ r2.outside = Resource[h].outside
  BY <1>1, <1>2, <1>3, <1>4 DEF Readers, Stages
<1>6. BusyOnly(r2, sn)
  <2> SUFFICES ASSUME NEW b \in found
               PROVE  \E e \in sn : Blocks(e, h) /\
                        \E t \in e.starts : Stay(e, t).start <= b.start /\ b.end <= Stay(e, t).end
    BY <1>5 DEF BusyOnly
  <2>1. PICK e \in S : /\ e.host = h /\ ~e.busy /\ e.service \notin {None, This}
                       /\ \E t \in e.starts : b = At(e, t)
    BY <1>0
  <2>2. PICK t \in e.starts : b = At(e, t)  BY <2>1
  <2>3. Stay(e, t).start <= b.start /\ b.end <= Stay(e, t).end
    BY <1>1, <2>1, <2>2, BusyFound
  <2> QED  BY <2>1, <2>3 DEF Blocks
<1>7. ASSUME NEW e \in st, Blocks(e, h), ToCome(r, e), NEW t \in e.starts, Known(e, t, r.window)
      PROVE  ToCome(r2, e) \/ Stay(e, t) \in r2.busy
  <2>0. e \in S /\ e \in Event /\ e.host = h  BY <1>7 DEF Blocks
  <2>1. CASE ~e.busy
    <3>1. e.service \notin {None, This}  BY <1>7, <2>1 DEF Blocks
    <3>2. At(e, t) \in found  BY <1>0, <1>7, <2>0, <2>1, <3>1
    <3>3. Stay(e, t) = At(e, t)  BY <2>1 DEF Stay
    <3> QED  BY <1>5, <3>2, <3>3
  <2>2. CASE e.busy
    <3>1. e.calendar \in Resource[h].busyCalendars \/ e.calendar \in Range(Resource[h].outside)
      BY <1>7, <2>2 DEF ToCome
    <3> QED  BY <1>5, <2>2, <3>1 DEF ToCome
  <2> QED  BY <2>1, <2>2
<1>8. /\ Times(r2.busy) /\ r2.left \subseteq Resource[h].busyCalendars
      /\ Range(r2.outside) \subseteq Range(Resource[h].outside)
  BY <1>0, <1>5
<1> QED  BY <1>5, <1>6, <1>7, <1>8, BusyStep

\* The events of a busy calendar are known from then on.
LEMMA BusyCalendarStep ==
  ASSUME NEW r, NEW q, NEW now, NEW st, NEW sn, Good(r, q, now, st, sn),
         NEW S, st \subseteq S, S \subseteq sn, S \subseteq Event,
         r.stage = "calendars", NEW c \in r.left,
         NEW found, BufferedOccurrences(found, S, r.host, c, r.window),
         NEW r2, r2 = [r EXCEPT !.busy = r.busy \cup found, !.left = r.left \ {c}]
  PROVE  Good(r2, q, now, st, sn)
<1> DEFINE h == r.host
<1>1. r \in Readers /\ h \in Host /\ Typed(r, q, now) /\ BusyOnly(r, sn)
  BY DEF Good, Typed, Readers
<1>0. /\ Times(found)
      /\ \A x \in found : \E e \in S : /\ e.host = h /\ e.calendar = c /\ e.busy
                                       /\ \E t \in e.starts : x = Buffered(e, At(e, t))
      /\ \A e \in S : \A t \in e.starts :
           e.host = h /\ e.calendar = c /\ e.busy /\ Known(e, t, r.window)
             => Buffered(e, At(e, t)) \in found
  BY DEF BufferedOccurrences
<1>2. found \subseteq Instance  BY <1>0 DEF Times
<1>3. c \in Resource[h].busyCalendars  BY <1>1 DEF Typed
<1>5. /\ r2 \in Readers /\ r2.host = h /\ r2.window = r.window /\ r2.free = r.free
      /\ r2.lost = r.lost /\ r2.stage = "calendars" /\ r2.busy = r.busy \cup found
      /\ r2.left = r.left \ {c} /\ r2.outside = r.outside
  BY <1>1, <1>2 DEF Readers
<1>6. BusyOnly(r2, sn)
  <2> SUFFICES ASSUME NEW b \in found
               PROVE  \E e \in sn : Blocks(e, h) /\
                        \E t \in e.starts : Stay(e, t).start <= b.start /\ b.end <= Stay(e, t).end
    BY <1>1, <1>5 DEF BusyOnly
  <2>1. PICK e \in S : /\ e.host = h /\ e.calendar = c /\ e.busy
                       /\ \E t \in e.starts : b = Buffered(e, At(e, t))
    BY <1>0
  <2>2. PICK t \in e.starts : b = Buffered(e, At(e, t))  BY <2>1
  <2>3. Stay(e, t) = b  BY <1>1, <1>3, <2>1, <2>2, BusyFound
  <2>4. b.start <= b.start /\ b.end <= b.end
    <3>1. b.start \in Int /\ b.end \in Int  BY <1>2, Bounds
    <3> QED  BY <3>1
  <2> QED  BY <1>3, <2>1, <2>3, <2>4 DEF Blocks
<1>7. ASSUME NEW e \in st, Blocks(e, h), ToCome(r, e), NEW t \in e.starts, Known(e, t, r.window)
      PROVE  ToCome(r2, e) \/ Stay(e, t) \in r2.busy
  <2>0. e \in S /\ e \in Event /\ e.host = h /\ e.busy  BY <1>7 DEF Blocks, ToCome
  <2>1. CASE e.calendar = c
    <3>1. Buffered(e, At(e, t)) \in found  BY <1>0, <1>7, <2>0, <2>1
    <3>2. Stay(e, t) = Buffered(e, At(e, t))  BY <1>1, <1>3, <2>0, <2>1, BusyFound
    <3> QED  BY <1>5, <3>1, <3>2
  <2>2. CASE e.calendar # c  BY <1>5, <1>7, <2>0, <2>2 DEF ToCome
  <2> QED  BY <2>1, <2>2
<1>8. /\ Times(r2.busy) /\ r2.left \subseteq Resource[h].busyCalendars
      /\ Range(r2.outside) \subseteq Range(Resource[h].outside)
  BY <1>0, <1>1, <1>5, TimesTogether DEF Typed
<1> QED  BY <1>5, <1>6, <1>7, <1>8, BusyStep

\* And then those of a calendar outside.
LEMMA OutsideStep ==
  ASSUME NEW r, NEW q, NEW now, NEW st, NEW sn, Good(r, q, now, st, sn),
         NEW S, st \subseteq S, S \subseteq sn, S \subseteq Event,
         r.stage = "calendars", r.outside # << >>,
         NEW found, Occurrences(found, S, r.host, Head(r.outside), TRUE, r.window),
         NEW r2, r2 = [r EXCEPT !.busy = r.busy \cup found, !.outside = Tail(r.outside)]
  PROVE  Good(r2, q, now, st, sn)
<1> DEFINE h == r.host
           c == Head(r.outside)
<1>1. r \in Readers /\ h \in Host /\ Typed(r, q, now) /\ BusyOnly(r, sn)
  BY DEF Good, Typed, Readers
<1>0. /\ Times(found)
      /\ \A x \in found : \E e \in S :
           e.host = h /\ e.calendar = c /\ e.busy = TRUE /\ \E t \in e.starts : x = At(e, t)
      /\ \A e \in S : \A t \in e.starts :
           e.host = h /\ e.calendar = c /\ e.busy = TRUE /\ Known(e, t, r.window)
             => At(e, t) \in found
  BY DEF Occurrences
<1>2. found \subseteq Instance  BY <1>0 DEF Times
<1>3. /\ Tail(r.outside) \in Seq(UNION {Range(Resource[g].outside) : g \in Host})
      /\ \A x \in Range(r.outside) : x = c \/ x \in Range(Tail(r.outside))
      /\ c \in Range(Resource[h].outside)
      /\ Range(Tail(r.outside)) \subseteq Range(Resource[h].outside)
  <2>1. r.outside \in Seq(UNION {Range(Resource[g].outside) : g \in Host})
    BY <1>1 DEF Readers
  <2>2. Range(r.outside) \subseteq Range(Resource[h].outside)  BY <1>1 DEF Typed
  <2> QED  BY <2>1, <2>2, HeadOrTail
<1>5. /\ r2 \in Readers /\ r2.host = h /\ r2.window = r.window /\ r2.free = r.free
      /\ r2.lost = r.lost /\ r2.stage = "calendars" /\ r2.busy = r.busy \cup found
      /\ r2.left = r.left /\ r2.outside = Tail(r.outside)
  BY <1>1, <1>2, <1>3 DEF Readers
<1>6. BusyOnly(r2, sn)
  <2> SUFFICES ASSUME NEW b \in found
               PROVE  \E e \in sn : Blocks(e, h) /\
                        \E t \in e.starts : Stay(e, t).start <= b.start /\ b.end <= Stay(e, t).end
    BY <1>1, <1>5 DEF BusyOnly
  <2>1. PICK e \in S : /\ e.host = h /\ e.calendar = c /\ e.busy = TRUE
                       /\ \E t \in e.starts : b = At(e, t)
    BY <1>0
  <2>2. PICK t \in e.starts : b = At(e, t)  BY <2>1
  <2>3. Stay(e, t).start <= b.start /\ b.end <= Stay(e, t).end
    BY <1>1, <2>1, <2>2, BusyFound
  <2> QED  BY <1>3, <2>1, <2>3 DEF Blocks
<1>7. ASSUME NEW e \in st, Blocks(e, h), ToCome(r, e), NEW t \in e.starts, Known(e, t, r.window)
      PROVE  ToCome(r2, e) \/ Stay(e, t) \in r2.busy
  <2>0. e \in S /\ e \in Event /\ e.host = h /\ e.busy  BY <1>7 DEF Blocks, ToCome
  <2>1. CASE e.calendar \in r.left  BY <1>5, <2>0, <2>1 DEF ToCome
  <2>2. CASE e.calendar \notin r.left
    <3>1. e.calendar \notin Resource[h].busyCalendars /\ e.calendar \in Range(r.outside)
      BY <1>7, <2>2 DEF ToCome
    <3>2. CASE e.calendar = c
      <4>1. e.busy = TRUE  BY <2>0, EventAssumption
      <4>3. At(e, t) \in found  BY <1>0, <1>7, <2>0, <3>2, <4>1
      <4>2. Stay(e, t) = At(e, t)  BY <3>1, <2>0 DEF Stay
      <4> QED  BY <1>5, <4>2, <4>3
    <3>3. CASE e.calendar # c
      <4>1. e.calendar \in Range(Tail(r.outside))  BY <1>3, <3>1, <3>3
      <4> QED  BY <1>5, <2>0, <3>1, <4>1 DEF ToCome
    <3> QED  BY <3>2, <3>3
  <2> QED  BY <2>1, <2>2
<1>8. /\ Times(r2.busy) /\ r2.left \subseteq Resource[h].busyCalendars
      /\ Range(r2.outside) \subseteq Range(Resource[h].outside)
  BY <1>0, <1>1, <1>3, <1>5, TimesTogether DEF Typed
<1> QED  BY <1>5, <1>6, <1>7, <1>8, BusyStep

\* At last all that is busy is removed.
LEMMA DoneStep ==
  ASSUME NEW r, NEW q, NEW now, NEW st, NEW sn, Good(r, q, now, st, sn),
         st \subseteq sn, sn \subseteq Event,
         r.stage = "calendars", r.left = {}, r.outside = << >>,
         SplitsInTwo(r.free, Compatible(r.busy)),
         NEW r2,
         r2 = [r EXCEPT !.free = RemoveAll(r.free, Compatible(r.busy), 0), !.stage = "done"]
  PROVE  Good(r2, q, now, st, sn)
<1> DEFINE h == r.host
           b == Compatible(r.busy)
           free == RemoveAll(r.free, b, 0)
<1>1. /\ r \in Readers /\ h \in Host /\ Typed(r, q, now) /\ BusyHandled(r, st)
      /\ OffersOnly(r, sn) /\ KeepsWindow(r) /\ BusyOnly(r, sn) /\ FreeKept(r, st, sn)
  BY DEF Good, Typed, Readers
<1>2. r.free \in Seq(Instance) /\ Proper(r.free) /\ Times(r.busy) /\ r.window # None
  BY <1>1 DEF Typed, Readers
<1>3. Merged(b, r.busy)  BY <1>2, CompatibleIsExact DEF Times
<1>4. Sound(b) /\ b \in Seq(Instance)  BY <1>3 DEF Merged, Sound
<1>5. Remaining(free, r.free, b)
  <2>1. SplitsInTwo(r.free, b)  OBVIOUS
  <2> HIDE DEF b
  <2> QED  BY <1>2, <1>4, <2>1, RemoveAllIsExact
<1>6. free \in Seq(Instance) /\ Proper(free)  BY <1>5 DEF Remaining
<1>7. /\ r2 \in Readers /\ r2.free = free /\ r2.host = h /\ r2.window = r.window
      /\ r2.stage = "done" /\ r2.lost = r.lost /\ r2.busy = r.busy /\ r2.left = r.left
      /\ r2.outside = r.outside
  <2>1. r2 = [r EXCEPT !.free = free, !.stage = "done"]  OBVIOUS
  <2> HIDE DEF free
  <2> QED  BY <1>1, <1>6, <2>1 DEF Readers, Stages
<1>8. /\ \A k \in DOMAIN free : free[k] \in Instance
      /\ \A k \in DOMAIN r.free : r.free[k] \in Instance
      /\ \A k \in DOMAIN b : b[k] \in Instance
  <2> HIDE DEF free, b
  <2> QED  BY <1>2, <1>4, <1>6
<1> HIDE DEF free, b
<1>9. \A k \in DOMAIN free : \E j \in DOMAIN r.free :
        r.free[j].start <= free[k].start /\ free[k].end <= r.free[j].end
  BY <1>5 DEF Remaining, Part
<1>10. Typed(r2, q, now)  BY <1>1, <1>2, <1>6, <1>7 DEF Typed
<1>11. BusyHandled(r2, st)
  <2> SUFFICES ASSUME ~r.lost, NEW e \in st, Blocks(e, h),
                      NEW t \in e.starts, Known(e, t, r.window)
               PROVE  Avoids(r2, Stay(e, t))
    BY <1>7 DEF BusyHandled, Handled
  <2> DEFINE x == Stay(e, t)
  <2>0. x \in Instance
    <3>1. e \in Event /\ e.host = h  BY DEF Blocks
    <3>2. x \in {At(e, t), Buffered(e, At(e, t))} /\ At(e, t) \in Instance
          /\ Buffered(e, At(e, t)) \in Instance
      BY <1>1, <3>1, StayIs
    <3> HIDE DEF x
    <3> QED  BY <3>2
  <2>1. Handled(r, e, t)  BY <1>1 DEF BusyHandled
  <2>2. ~ToCome(r, e)  BY DEF ToCome, Range
  <2>3. x \in r.busy \/ Avoids(r, x)  BY <2>1, <2>2 DEF Handled
  <2> HIDE DEF x
  <2> SUFFICES ASSUME NEW k \in DOMAIN free PROVE ~Meets(x, free[k])
    BY <1>7 DEF Avoids, x
  <2>4. CASE x \in r.busy
    <3>1. PICK j \in DOMAIN b : b[j].start <= x.start /\ x.end <= b[j].end
      BY <1>3, <2>4 DEF Merged, Holds
    <3>2. ~Meets(free[k], b[j])  BY <1>5 DEF Remaining, MeetsNone
    <3> QED  BY <1>8, <2>0, <3>1, <3>2, MeetsWithin, MeetsEither
  <2>5. CASE Avoids(r, x)
    <3>1. PICK j \in DOMAIN r.free :
            r.free[j].start <= free[k].start /\ free[k].end <= r.free[j].end
      BY <1>9
    <3>2. ~Meets(x, r.free[j])  BY <2>5 DEF Avoids
    <3> QED  BY <1>8, <2>0, <3>1, <3>2, MeetsWithin
  <2> QED  BY <2>3, <2>4, <2>5
<1>12. OffersOnly(r2, sn)
  <2> SUFFICES ASSUME NEW k \in DOMAIN free, NEW m \in Int, In(m, free[k])
               PROVE  OfferedBy(h, m, sn)
    BY <1>7 DEF OffersOnly
  <2>1. PICK j \in DOMAIN r.free :
          r.free[j].start <= free[k].start /\ free[k].end <= r.free[j].end
    BY <1>9
  <2>2. free[k] \in Instance /\ r.free[j] \in Instance  BY <1>8
  <2>3. In(m, r.free[j])  BY <2>1, <2>2, Bounds DEF In
  <2> QED  BY <1>1, <2>3 DEF OffersOnly
<1>13. KeepsWindow(r2)
  <2> SUFFICES ASSUME Plan(h).kind = "schedule", NEW k \in DOMAIN free
               PROVE  r.window.start <= free[k].start /\ free[k].end <= r.window.end
    BY <1>7 DEF KeepsWindow
  <2>1. PICK j \in DOMAIN r.free :
          r.free[j].start <= free[k].start /\ free[k].end <= r.free[j].end
    BY <1>9
  <2>2. free[k] \in Instance /\ r.free[j] \in Instance /\ r.window \in Instance
    BY <1>1, <1>2, <1>8 DEF Readers
  <2>3. r.window.start <= r.free[j].start /\ r.free[j].end <= r.window.end
    BY <1>1 DEF KeepsWindow
  <2> QED  BY <2>1, <2>2, <2>3, Bounds
<1>14. BusyOnly(r2, sn)  BY <1>1, <1>7 DEF BusyOnly
<1>15. FreeKept(r2, st, sn)
  <2> SUFFICES ASSUME NEW a \in Instance, a.start < a.end, FreeFor(r2, a, st, sn)
               PROVE  Holds(free, a)
    BY <1>7 DEF FreeKept
  <2>1. FreeFor(r, a, st, sn)  BY <1>7 DEF FreeFor, OfferedFor
  <2>2. Holds(r.free, a)  BY <1>1, <2>1 DEF FreeKept
  <2>3. MeetsNone(a, b)
    <3> SUFFICES ASSUME NEW j \in DOMAIN b, Meets(a, b[j]) PROVE FALSE  BY DEF MeetsNone
    <3>1. PICK x \in r.busy : Meets(a, x)  BY <1>3 DEF Merged
    <3>2. PICK e \in sn : /\ Blocks(e, h)
                          /\ \E t \in e.starts :
                               Stay(e, t).start <= x.start /\ x.end <= Stay(e, t).end
      BY <1>1 DEF BusyOnly
    <3>3. PICK t \in e.starts : Stay(e, t).start <= x.start /\ x.end <= Stay(e, t).end
      BY <3>2
    <3>4. ~Meets(Stay(e, t), a)  BY <2>1, <3>2 DEF FreeFor
    <3>5. Stay(e, t) \in Instance
      <4>1. e \in Event /\ e.host = h  BY <3>2 DEF Blocks
      <4>2. Stay(e, t) \in {At(e, t), Buffered(e, At(e, t))} /\ At(e, t) \in Instance
            /\ Buffered(e, At(e, t)) \in Instance
        BY <1>1, <4>1, StayIs
      <4> QED  BY <4>2
    <3>6. x \in Instance  BY <1>2 DEF Times
    <3>7. Meets(a, Stay(e, t))  BY <3>1, <3>3, <3>5, <3>6, MeetsWithin
    <3> QED  BY <3>4, <3>7, MeetsEither
  <2> QED  BY <1>5, <2>2, <2>3 DEF Remaining
<1> QED  BY <1>10, <1>11, <1>12, <1>13, <1>14, <1>15 DEF Good

-----------------------------------------------------------------------------
(* The inductive invariant                                                 *)

\* What was asked, when it was asked
AskedRight(a, now) ==
  /\ a.start \in Int /\ a.end \in Int /\ a.duration \in Int /\ a.interval \in Int /\ a.at = now
  /\ \E q \in Query : q.start = a.start /\ q.end = a.end

Consistent ==
  /\ store \subseteq Event /\ steady \subseteq seen /\ seen \subseteq Event
  /\ clock \in 0 .. MaxTime /\ budget \in 0 .. MaxDisturbances
  /\ asked # None => steady \subseteq store /\ store \subseteq seen /\ AskedRight(asked, clock)
  /\ asked = None => reader = << >>
  /\ reader # << >> => asked.interval \in Nat

AllGood(rd, q, now, st, sn) ==
  rd \in Seq(Readers) /\ \A i \in DOMAIN rd : Good(rd[i], q, now, st, sn)

ReadersGood == AllGood(reader, asked, clock, steady, seen)

\* An answer with slots is one of what was read, when all of it was.
Answered ==
  /\ answer = None \/ answer.kind \in Answers
  /\ answer # None /\ answer.kind = "slots" =>
       /\ asked # None /\ answer.slots = Bookable
       /\ \A i \in DOMAIN reader : reader[i].stage = "done"

Inv == Consistent /\ ReadersGood /\ Answered

\* Another record in place of one of them
LEMMA OneRead ==
  ASSUME NEW rd, NEW q, NEW now, NEW st, NEW sn, AllGood(rd, q, now, st, sn),
         NEW i \in DOMAIN rd, NEW r, Good(r, q, now, st, sn)
  PROVE  AllGood([rd EXCEPT ![i] = r], q, now, st, sn)
<1> DEFINE rd2 == [rd EXCEPT ![i] = r]
<1>1. r \in Readers  BY DEF Good, Typed
<1>2. rd \in Seq(Readers)  BY DEF AllGood
<1>3. rd2 \in Seq(Readers) /\ DOMAIN rd2 = DOMAIN rd  BY <1>1, <1>2
<1>4. \A j \in DOMAIN rd : rd2[j] = IF j = i THEN r ELSE rd[j]  BY <1>2
<1> HIDE DEF rd2
<1>5. \A j \in DOMAIN rd2 : Good(rd2[j], q, now, st, sn)
  <2> SUFFICES ASSUME NEW j \in DOMAIN rd PROVE Good(rd2[j], q, now, st, sn)  BY <1>3
  <2>1. CASE j = i  BY <1>4, <2>1
  <2>2. CASE j # i
    <3>1. rd2[j] = rd[j]  BY <1>4, <2>2
    <3> QED  BY <3>1 DEF AllGood
  <2> QED  BY <2>1, <2>2
<1> QED  BY <1>3, <1>5 DEF AllGood, rd2

\* A read changes the record of one host.
LEMMA ReadKeeps ==
  ASSUME Inv, NEW i \in DOMAIN reader, NEW r, Good(r, asked, clock, steady, seen),
         reader' = [reader EXCEPT ![i] = r], answer = None, answer' = answer,
         UNCHANGED <<store, clock, asked, steady, seen>>, budget' \in 0 .. MaxDisturbances
  PROVE  Inv'
<1>1. AllGood(reader, asked, clock, steady, seen)  BY DEF Inv, ReadersGood
<1>2. AllGood(reader', asked, clock, steady, seen)  BY <1>1, OneRead
<1>3. ReadersGood'  BY <1>2 DEF ReadersGood
<1>4. Consistent'  BY DEF Inv, Consistent
<1>5. Answered'  BY DEF Answered
<1> QED  BY <1>3, <1>4, <1>5 DEF Inv

\* The query ends without slots.
LEMMA StopKeeps ==
  ASSUME Inv, reader' = reader, NEW kind \in {"error", "panic"}, answer' = [kind |-> kind],
         UNCHANGED <<store, clock, asked, steady, seen>>, budget' \in 0 .. MaxDisturbances
  PROVE  Inv'
<1>1. ReadersGood'  BY DEF Inv, ReadersGood
<1>2. Consistent'  BY DEF Inv, Consistent
<1>3. Answered'  BY DEF Answered, Answers
<1> QED  BY <1>1, <1>2, <1>3 DEF Inv

\* While a host is read, all is as it should be.
LEMMA WhileRead ==
  ASSUME Inv, NEW i \in DOMAIN reader, NEW stage, Reads(i, stage), stage # "done"
  PROVE  /\ Good(reader[i], asked, clock, steady, seen) /\ reader[i].stage = stage
         /\ reader[i] \in Readers /\ reader[i].host \in Host
         /\ reader[i].window \in Instance /\ reader[i].window # None
         /\ answer = None /\ asked # None
         /\ steady \subseteq store /\ store \subseteq seen /\ seen \subseteq Event
         /\ store \subseteq Event /\ AskedRight(asked, clock)
         /\ budget \in 0 .. MaxDisturbances
<1>1. answer = None /\ asked # None /\ reader[i].stage = stage  BY DEF Reads
<1>2. Good(reader[i], asked, clock, steady, seen)  BY DEF Inv, ReadersGood, AllGood
<1>3. reader[i] \in Readers /\ reader[i].window # None  BY <1>1, <1>2 DEF Good, Typed
<1>4. reader[i].host \in Host /\ reader[i].window \in Instance  BY <1>3 DEF Readers
<1> QED  BY <1>1, <1>2, <1>3, <1>4 DEF Inv, Consistent

-----------------------------------------------------------------------------
(* ScheduleRule::parse_intervals                                           *)

Intervals == [start : Nat, end : Nat]

\* An interval absorbed by a list of intervals leaves a list of intervals.
LEMMA AbsorbType ==
  ASSUME NEW m \in Seq(Instance), NEW x \in Instance
  PROVE  Absorb(m, x) \in Seq(Instance)
<1>1. CASE m # << >> /\ x.start <= Last(m).end
  <2> DEFINE y == Last(m)
             z == [y EXCEPT !.end = Later(@, x.end)]
  <2>1. Len(m) \in DOMAIN m /\ y = m[Len(m)]  BY <1>1, LastOf
  <2>2. y \in Instance  BY <2>1
  <2>3. Absorb(m, x) = Append(Front(m), z)  BY <1>1 DEF Absorb
  <2> HIDE DEF y
  <2>4. z \in Instance  BY <2>2, Bounds DEF Later, Instance
  <2> HIDE DEF z
  <2>5. Append(Front(m), z) \in Seq(Instance)  BY <1>1, <2>4, LastOf
  <2> QED  BY <2>3, <2>5
<1>2. CASE ~(m # << >> /\ x.start <= Last(m).end)
  <2>1. Absorb(m, x) = Append(m, x)  BY <1>2 DEF Absorb
  <2> QED  BY <2>1
<1> QED  BY <1>1, <1>2

\* Those of the intervals given that are kept, the positions of which are in `order`
Kept(given) ==
  {j \in 1 .. Earlier(Len(given), MaxIntervals) : given[j].start <= given[j].end}

\* The intervals are absorbed one after the other.
LEMMA ParsedFolds ==
  ASSUME NEW given \in Seq(Intervals), NEW order, order = StartOrder(given, Kept(given)),
         order \in Seq(DOMAIN given),
         NEW l, l = [k \in DOMAIN order |-> given[order[k]]]
  PROVE  \E g : Merging(g, l) /\ Parsed(given) = g[Len(l)]
<1> DEFINE N == Len(order)
           op == [n \in 1 .. N |-> [a \in Seq(Instance) |-> Absorb(a, given[order[n]])]]
           Step(g) == [n \in 0 .. N |->
                         IF n = 0 THEN << >> ELSE Absorb(g[n - 1], given[order[n]])]
           absorbed == CHOOSE g : g = Step(g)
<1>0. N \in Nat /\ DOMAIN order = 1 .. N /\ \A n \in 1 .. N : given[order[n]] \in Instance
  <2>1. N \in Nat /\ DOMAIN order = 1 .. N /\ \A n \in 1 .. N : order[n] \in DOMAIN given  OBVIOUS
  <2>2. \A j \in DOMAIN given : given[j] \in Intervals  OBVIOUS
  <2>3. Intervals \subseteq Instance  BY DEF Intervals, Instance
  <2> QED  BY <2>1, <2>2, <2>3
<1>1. \A n \in 1 .. N : \A a \in Seq(Instance) : op[n][a] \in Seq(Instance)
  BY <1>0, AbsorbType
<1>2. PICK h \in [0 .. N -> Seq(Instance)] :
        h[0] = << >> /\ \A n \in 1 .. N : h[n] = op[n][h[n - 1]]
  <2>0. \E h : Folds(h, Seq(Instance), << >>, N, op)
    <3>1. << >> \in Seq(Instance)  OBVIOUS
    <3> HIDE DEF op, N
    <3> QED  BY <1>0, <1>1, <3>1, FoldExists, Zenon
  <2> HIDE DEF op, N
  <2> QED  BY <2>0 DEF Folds
<1>3. h = Step(h)
  <2>1. ASSUME NEW n \in 0 .. N
        PROVE  h[n] = IF n = 0 THEN << >> ELSE Absorb(h[n - 1], given[order[n]])
    <3>1. CASE n = 0  BY <1>2, <3>1
    <3>2. CASE n # 0
      <4>1. n \in 1 .. N /\ n - 1 \in 0 .. N  BY <1>0, <3>2
      <4> QED  BY <1>2, <3>2, <4>1
    <3> QED  BY <3>1, <3>2
  <2> QED  BY <2>1
<1>4. absorbed = Step(absorbed)
  <2> HIDE DEF Step
  <2> QED  BY <1>3
<1>5. Parsed(given) = absorbed[N]  BY DEF Parsed, Kept
<1> HIDE DEF absorbed, op
<1>6. absorbed[0] = << >>
      /\ \A n \in 1 .. N : absorbed[n] = Absorb(absorbed[n - 1], given[order[n]])
  <2>2. ASSUME NEW n \in 0 .. N
        PROVE  absorbed[n] = IF n = 0 THEN << >> ELSE Absorb(absorbed[n - 1], given[order[n]])
    BY <1>4
  <2> HIDE DEF N, Step
  <2>3. 0 \in 0 .. N /\ \A n \in 1 .. N : n \in 0 .. N /\ n # 0  BY <1>0
  <2> QED  BY <2>2, <2>3
<1>7. Len(l) = N /\ \A n \in 1 .. N : l[n] = given[order[n]]
  <2>1. l \in [1 .. N -> Instance]
    <3> HIDE DEF N
    <3> QED  BY <1>0
  <2>2. Len(l) = N
    <3> HIDE DEF N
    <3> QED  BY <1>0, <2>1, ListOf
  <2> QED  BY <1>0, <2>2
<1>8. Merging(absorbed, l)
  <2> HIDE DEF N, Step
  <2> QED  BY <1>6, <1>7 DEF Merging
<1> QED  BY <1>5, <1>7, <1>8

\* An interval given, of those that are looked at, that holds the hour h
Gives(given, h) ==
  \E j \in DOMAIN given : j <= MaxIntervals /\ given[j].start <= h /\ h < given[j].end

\* What rules are stored with: intervals that do not touch, for the hours that were given.
ParsedRight(p, given) ==
  /\ Sound(p)
  /\ \A k \in DOMAIN p : p[k].start \in Nat
  /\ \A h \in Int : Gives(given, h) <=> Covers(p, h)

\* Parsing leaves intervals that do not touch, and they hold the hours that were given.
LEMMA ParsedIs ==
  ASSUME NEW given \in Seq(Intervals)
  PROVE  ParsedRight(Parsed(given), given)
<1> DEFINE T == Kept(given)
           R == {p \in T \X T :
                   \/ given[p[1]].start < given[p[2]].start
                   \/ given[p[1]].start = given[p[2]].start /\ p[1] < p[2]}
           order == Ranked(T, R)
           l == [k \in DOMAIN order |-> given[order[k]]]
           p == Parsed(given)
<1>0. /\ Len(given) \in Nat /\ DOMAIN given = 1 .. Len(given) /\ MaxIntervals \in Nat
      /\ \A j \in DOMAIN given : /\ given[j] \in Instance /\ given[j].start \in Nat
                                 /\ given[j].end \in Nat
  <2>1. \A j \in DOMAIN given : given[j] \in Intervals  OBVIOUS
  <2>2. Len(given) \in Nat /\ DOMAIN given = 1 .. Len(given)  OBVIOUS
  <2> QED  BY <2>1, <2>2, LimitsAssumption DEF Intervals, Instance
<1>1. \A j : j \in T <=> j \in DOMAIN given /\ j <= MaxIntervals /\ given[j].start <= given[j].end
  <2>1. \A j : j \in 1 .. Earlier(Len(given), MaxIntervals) <=> j \in DOMAIN given /\ j <= MaxIntervals
    BY <1>0 DEF Earlier
  <2> QED  BY <2>1 DEF Kept
<1>2. IsFiniteSet(T)
  <2>1. IsFiniteSet(1 .. Len(given))  BY <1>0, FS_Interval
  <2>2. T \in SUBSET (1 .. Len(given))  BY <1>0, <1>1
  <2> QED  BY <2>1, <2>2, FS_Subset
<1> HIDE DEF T
<1>3. Orders(R, T)
  <2>1. ASSUME NEW a \in T, NEW b \in T
        PROVE  <<a, b>> \in R <=> \/ given[a].start < given[b].start
                                  \/ given[a].start = given[b].start /\ a < b
    BY Zenon
  <2> HIDE DEF R
  <2> SUFFICES ASSUME NEW a \in T, NEW b \in T, NEW c \in T
               PROVE  /\ ~(<<a, a>> \in R)
                      /\ <<a, b>> \in R /\ <<b, c>> \in R => <<a, c>> \in R
                      /\ a # b => <<a, b>> \in R \/ <<b, a>> \in R
    BY DEF Orders
  <2>2. /\ a \in Int /\ b \in Int /\ c \in Int /\ given[a].start \in Int
        /\ given[b].start \in Int /\ given[c].start \in Int
    BY <1>0, <1>1
  <2> DEFINE x == given[a].start
             y == given[b].start
             z == given[c].start
  <2>3. /\ <<a, a>> \in R <=> (x < x \/ (x = x /\ a < a))
        /\ <<a, b>> \in R <=> (x < y \/ (x = y /\ a < b))
        /\ <<b, a>> \in R <=> (y < x \/ (y = x /\ b < a))
        /\ <<b, c>> \in R <=> (y < z \/ (y = z /\ b < c))
        /\ <<a, c>> \in R <=> (x < z \/ (x = z /\ a < c))
    BY <2>1
  <2> HIDE DEF x, y, z
  <2>4. x \in Int /\ y \in Int /\ z \in Int  BY <2>2 DEF x, y, z
  <2> QED  BY <2>2, <2>3, <2>4
<1> HIDE DEF R
<1>4. Enumerates(order, T, R)  BY <1>2, <1>3, RankedIs
<1>5. order = StartOrder(given, T)  BY DEF StartOrder, R
<1> HIDE DEF order
<1>6. /\ order \in Seq(T) /\ DOMAIN order = 1 .. Cardinality(T) /\ Cardinality(T) \in Nat
      /\ \A x \in T : \E k \in DOMAIN order : order[k] = x
      /\ \A j, k \in DOMAIN order : j < k => <<order[j], order[k]>> \in R
  BY <1>2, <1>4, FS_CardinalityType DEF Enumerates
<1>7. \A k \in DOMAIN order : order[k] \in T  BY <1>6
<1>8. order \in Seq(DOMAIN given)
  <2>1. order \in [1 .. Cardinality(T) -> DOMAIN given]  BY <1>1, <1>6, <1>7
  <2> QED  BY <1>6, <2>1, ListOf
<1>9. PICK g : Merging(g, l) /\ p = g[Len(l)]  BY <1>5, <1>8, ParsedFolds DEF T
<1>10. l \in Seq(Instance) /\ DOMAIN l = DOMAIN order /\ Len(l) = Cardinality(T)
  <2>1. l \in [1 .. Cardinality(T) -> Instance]  BY <1>0, <1>1, <1>6, <1>7
  <2> HIDE DEF l
  <2> QED  BY <1>6, <2>1, ListOf
<1>11. \A k \in DOMAIN l : l[k] = given[order[k]] /\ order[k] \in T  BY <1>7, <1>10
<1> HIDE DEF l, p
<1>12. Proper(l)  BY <1>1, <1>11 DEF Proper
<1>13. Starting(l)
  <2> SUFFICES ASSUME NEW j \in DOMAIN l, NEW k \in DOMAIN l, j < k
               PROVE  l[j].start <= l[k].start
    BY DEF Starting
  <2>1. <<order[j], order[k]>> \in R  BY <1>6, <1>10
  <2>2. given[order[j]].start \in Int /\ given[order[k]].start \in Int  BY <1>0, <1>1, <1>11
  <2> DEFINE a == order[j]
             b == order[k]
  <2>4. given[a].start < given[b].start \/ given[a].start = given[b].start
    <3> HIDE DEF a, b
    <3>1. <<a, b>> \in R  BY <2>1 DEF a, b
    <3> QED  BY <3>1, Zenon DEF R
  <2>3. given[order[j]].start <= given[order[k]].start  BY <2>2, <2>4
  <2> QED  BY <1>11, <2>3
<1> DEFINE S == {l[k] : k \in 1 .. Len(l)}
<1>14. Merged(p, S)  BY <1>9, <1>10, <1>12, <1>13, MergesAll
<1>15. ASSUME NEW x PROVE x \in S <=> \E j \in T : x = given[j]
  <2>1. x \in S <=> \E k \in DOMAIN l : x = l[k]  BY <1>10
  <2> HIDE DEF S
  <2>2. ASSUME NEW k \in DOMAIN l, x = l[k] PROVE \E j \in T : x = given[j]  BY <1>11, <2>2
  <2>3. ASSUME NEW j \in T, x = given[j] PROVE \E k \in DOMAIN l : x = l[k]
    <3>1. PICK k \in DOMAIN order : order[k] = j  BY <1>6
    <3> QED  BY <1>10, <1>11, <2>3, <3>1
  <2> QED  BY <2>1, <2>2, <2>3
<1> HIDE DEF S
<1>16. Sound(p) /\ \A k \in DOMAIN p : /\ p[k] \in Instance /\ p[k].start \in Int
                                       /\ p[k].end \in Int /\ p[k].start <= p[k].end
  <2>1. Sound(p)  BY <1>14 DEF Merged
  <2>2. p \in Seq(Instance)  BY <2>1 DEF Sound
  <2>3. \A k \in DOMAIN p : p[k] \in Instance  BY <2>2
  <2> QED  BY <2>1, <2>3, Bounds DEF Sound, Proper
\* What takes time and meets an interval meets one that was given.
<1>17. ASSUME NEW a \in Instance, a.start < a.end, NEW k \in DOMAIN p, Meets(a, p[k])
       PROVE  \E j \in T : a.start < given[j].end /\ given[j].start < a.end
  <2>1. PICK x \in S : Meets(a, x)  BY <1>14, <1>17 DEF Merged
  <2>2. PICK j \in T : x = given[j]  BY <1>15, <2>1
  <2> QED  BY <2>1, <2>2 DEF Meets
<1>18. ASSUME NEW k \in DOMAIN p PROVE p[k].start \in Nat
  <2> DEFINE a == [start |-> p[k].start - 1, end |-> p[k].start + 1]
  <2>1. a \in Instance /\ a.start = p[k].start - 1 /\ a.end = p[k].start + 1
    BY <1>16 DEF Instance
  <2>2. a.start < a.end /\ Meets(a, p[k])  BY <1>16, <2>1 DEF Meets
  <2> HIDE DEF a
  <2>3. PICK j \in T : given[j].start < a.end  BY <1>17, <2>1, <2>2
  <2>4. given[j].start \in Nat  BY <1>0, <1>1
  <2> QED  BY <1>16, <2>1, <2>3, <2>4
<1>19. ASSUME NEW h \in Int, NEW k \in DOMAIN p, In(h, p[k]) PROVE Gives(given, h)
  <2> DEFINE a == [start |-> h, end |-> h + 1]
  <2>1. a \in Instance /\ a.start = h /\ a.end = h + 1  BY DEF Instance
  <2>2. a.start < a.end /\ Meets(a, p[k])  BY <1>16, <1>19, <2>1 DEF Meets, In
  <2> HIDE DEF a
  <2>3. PICK j \in T : a.start < given[j].end /\ given[j].start < a.end  BY <1>17, <2>1, <2>2
  <2>4. given[j].start <= h /\ h < given[j].end  BY <1>0, <1>1, <2>1, <2>3
  <2> QED  BY <1>1, <2>4 DEF Gives
<1>20. ASSUME NEW h \in Int, Gives(given, h) PROVE Covers(p, h)
  <2>1. PICK j \in DOMAIN given : j <= MaxIntervals /\ given[j].start <= h /\ h < given[j].end
    BY <1>20 DEF Gives
  <2>2. given[j].start <= given[j].end  BY <1>0, <2>1
  <2>3. given[j] \in S  BY <1>1, <1>15, <2>1, <2>2
  <2>4. PICK k \in DOMAIN p : p[k].start <= given[j].start /\ given[j].end <= p[k].end
    BY <1>14, <2>3 DEF Merged, Holds
  <2>5. In(h, p[k])  BY <1>0, <1>16, <2>1, <2>4 DEF In
  <2> QED  BY <2>5 DEF Covers
<1>21. \A h \in Int : Covers(p, h) <=> \E k \in DOMAIN p : In(h, p[k])  BY DEF Covers
<1>22. ParsedRight(p, given)  BY <1>16, <1>18, <1>19, <1>20, <1>21 DEF ParsedRight
<1> QED  BY <1>22 DEF p

-----------------------------------------------------------------------------
(* Cutting a list to a window                                              *)

\* What is cut to begin and end within the window, but not more
CutTo(r, s, from, to) ==
  /\ r \in Seq(Instance) /\ Proper(r) /\ Ordered(r)
  /\ \A k \in DOMAIN r : /\ from <= r[k].start /\ r[k].end <= to
                         /\ \E i \in DOMAIN s : s[i].start <= r[k].start /\ r[k].end <= s[i].end
  /\ \A a \in Instance : a.start < a.end /\ from <= a.start /\ a.end <= to /\ Holds(s, a) => Holds(r, a)

\* The bounds of the instances of a list in order
LEMMA OrderedBounds ==
  ASSUME NEW s \in Seq(Instance), Ordered(s), Proper(s), NEW i \in DOMAIN s, NEW j \in DOMAIN s
  PROVE  /\ s[i] \in Instance /\ s[i].start \in Int /\ s[i].end \in Int /\ s[i].start <= s[i].end
         /\ i \in Nat /\ i >= 1 /\ i <= Len(s) /\ Len(s) \in Nat
         /\ i < j => s[i].end <= s[j].start /\ s[i].start <= s[j].start /\ s[i].end <= s[j].end
<1>1. /\ s[i] \in Instance /\ s[j] \in Instance /\ i \in Nat /\ i >= 1 /\ i <= Len(s)
      /\ Len(s) \in Nat
  OBVIOUS
<1>2. s[i].start \in Int /\ s[i].end \in Int /\ s[j].start \in Int /\ s[j].end \in Int
  BY <1>1, Bounds
<1>3. s[i].start <= s[i].end /\ s[j].start <= s[j].end  BY DEF Proper
<1>4. i < j => s[i].end <= s[j].start  BY DEF Ordered
<1> QED  BY <1>1, <1>2, <1>3, <1>4

\* remove_all_before keeps what begins later, and cuts the first that is left.
LEMMA FromTimeIs ==
  ASSUME NEW s \in Seq(Instance), Ordered(s), Proper(s), NEW t \in Int
  PROVE  LET r == FromTime(s, t) IN
         /\ r \in Seq(Instance) /\ Proper(r) /\ Ordered(r)
         /\ \A k \in DOMAIN r : /\ t <= r[k].start
                                /\ \E i \in DOMAIN s : s[i].start <= r[k].start /\ r[k].end <= s[i].end
         /\ \A a \in Instance : a.start < a.end /\ t <= a.start /\ Holds(s, a) => Holds(r, a)
<1> DEFINE N == Len(s)
           Stays(i) == s[i].start >= t \/ s[i].end > t
           I == {i \in 1 .. N : Stays(i)}
           first == IF I # {} THEN Min(I) ELSE 0
           kept == IF first = 0 THEN << >> ELSE SubSeq(s, first, N)
           cut == [Head(kept) EXCEPT !.start = t]
           r == FromTime(s, t)
<1>1. r = IF kept # << >> /\ Head(kept).start < t THEN << cut >> \o Tail(kept) ELSE kept
  BY DEF FromTime, SelectInSeq
<1>2. N \in Nat /\ DOMAIN s = 1 .. N  OBVIOUS
<1> HIDE DEF r
<1>3. ASSUME NEW a \in Instance, a.start < a.end, t <= a.start, NEW i \in DOMAIN s,
             s[i].start <= a.start, a.end <= s[i].end
      PROVE  i \in I
  <2>1. a.start \in Int /\ a.end \in Int /\ s[i].end \in Int
    <3>1. s[i] \in Instance  OBVIOUS
    <3> QED  BY <3>1, Bounds
  <2> QED  BY <1>2, <1>3, <2>1
<1>4. CASE I = {}
  <2>1. r = << >>  BY <1>1, <1>4
  <2>2. \A a \in Instance : a.start < a.end /\ t <= a.start => ~Holds(s, a)
    BY <1>3, <1>4 DEF Holds
  <2> QED  BY <2>1, <2>2 DEF Proper, Ordered, r
<1>5. CASE I # {}
  <2>1. first \in I /\ \A i \in I : first <= i
    <3>1. IsFiniteSet(1 .. N)  BY <1>2, FS_Interval
    <3>2. IsFiniteSet(I)  BY <3>1, FS_Subset
    <3>3. I \subseteq Int  BY <1>2
    <3> HIDE DEF I
    <3>4. Min(I) \in I /\ \A i \in I : Min(I) <= i  BY <1>5, <3>2, <3>3, FirstOf
    <3> QED  BY <1>5, <3>4
  <2>2. first \in 1 .. N /\ Stays(first)  BY <2>1
  <2> HIDE DEF I, first
  <2>3. /\ kept \in Seq(Instance) /\ kept # << >> /\ Len(kept) = N - first + 1
        /\ DOMAIN kept = 1 .. N - first + 1
        /\ \A k \in 1 .. N - first + 1 : kept[k] = s[k + first - 1] /\ k + first - 1 \in DOMAIN s
    <3>1. first \in Int /\ 1 <= first /\ first <= N /\ first # 0  BY <1>2, <2>2
    <3>2. kept = SubSeq(s, first, N)  BY <3>1
    <3> HIDE DEF kept
    <3>3. Len(kept) = N - first + 1 /\ kept \in Seq(Instance)  BY <1>2, <3>1, <3>2
    <3>4. \A k \in 1 .. N - first + 1 : kept[k] = s[k + first - 1] /\ k + first - 1 \in DOMAIN s
      BY <1>2, <3>1, <3>2
    <3> QED  BY <1>2, <3>1, <3>3, <3>4
  <2>4. Head(kept) = s[first]
    <3>1. 1 \in 1 .. N - first + 1 /\ 1 + first - 1 = first  BY <1>2, <2>2
    <3> QED  BY <2>3, <3>1
  <2> DEFINE M == N - first + 1
             begin(k) == IF k = 1 /\ s[first].start < t THEN t ELSE s[k + first - 1].start
  <2> HIDE DEF Stays
  <2>5. /\ s[first] \in Instance /\ s[first].start \in Int /\ s[first].end \in Int
        /\ s[first].start <= s[first].end /\ (s[first].start < t => t < s[first].end)
    <3>1. s[first] \in Instance /\ first \in DOMAIN s  BY <1>2, <2>2
    <3>2. s[first].start \in Int /\ s[first].end \in Int  BY <3>1, Bounds
    <3>3. s[first].start <= s[first].end  BY <3>1 DEF Proper
    <3> QED  BY <2>2, <3>1, <3>2, <3>3 DEF Stays
  <2>6. /\ r \in Seq(Instance) /\ DOMAIN r = 1 .. M
        /\ \A k \in 1 .. M : r[k] = [start |-> begin(k), end |-> s[k + first - 1].end]
    <3>0. 1 + first - 1 = first /\ 1 \in 1 .. M /\ M \in Nat  BY <1>2, <2>2
    <3>1. CASE ~(s[first].start < t)
      <4>1. r = kept  BY <1>1, <2>4, <3>1
      <4>2. \A k \in 1 .. M : s[k + first - 1] \in Instance  BY <2>3
      <4>3. \A k \in 1 .. M : begin(k) = s[k + first - 1].start  BY <3>1
      <4>4. \A x \in Instance : x = [start |-> x.start, end |-> x.end]  BY DEF Instance
      <4> HIDE DEF kept, begin
      <4> QED  BY <2>3, <4>1, <4>2, <4>3, <4>4
    <3>2. CASE s[first].start < t
      <4>1. r = << cut >> \o Tail(kept)  BY <1>1, <2>3, <2>4, <3>2
      <4>2. cut = [start |-> t, end |-> s[first].end] /\ cut \in Instance
        <5>1. cut = [s[first] EXCEPT !.start = t]  BY <2>4
        <5> HIDE DEF cut, kept
        <5>2. \A x \in Instance : [x EXCEPT !.start = t] = [start |-> t, end |-> x.end]
          BY DEF Instance
        <5> QED  BY <2>5, <5>1, <5>2 DEF Instance
      <4> HIDE DEF kept, cut
      <4>3. /\ Tail(kept) \in Seq(Instance) /\ Len(Tail(kept)) = M - 1
            /\ \A k \in 1 .. M - 1 : Tail(kept)[k] = kept[k + 1]
        BY <2>3
      <4>4. r \in Seq(Instance) /\ Len(r) = M /\ DOMAIN r = 1 .. M  BY <3>0, <4>1, <4>2, <4>3
      <4>5. r[1] = cut /\ \A k \in 2 .. M : r[k] = kept[k]
        <5>1. r[1] = cut  BY <4>1, <4>2, <4>3
        <5>2. ASSUME NEW k \in 2 .. M PROVE r[k] = kept[k]
          <6>1. k - 1 \in 1 .. M - 1 /\ (k - 1) + 1 = k  BY <3>0
          <6>2. r[k] = Tail(kept)[k - 1]  BY <4>1, <4>2, <4>3, <6>1
          <6> QED  BY <4>3, <6>1, <6>2
        <5> QED  BY <5>1, <5>2
      <4>6. ASSUME NEW k \in 1 .. M
            PROVE  r[k] = [start |-> begin(k), end |-> s[k + first - 1].end]
        <5>1. CASE k = 1  BY <3>0, <3>2, <4>2, <4>5, <5>1
        <5>2. CASE k # 1
          <6>1. k \in 2 .. M  BY <3>0, <5>2
          <6>2. r[k] = s[k + first - 1] /\ s[k + first - 1] \in Instance  BY <2>3, <4>5, <6>1
          <6>3. \A x \in Instance : x = [start |-> x.start, end |-> x.end]  BY DEF Instance
          <6> QED  BY <5>2, <6>2, <6>3
        <5> QED  BY <5>1, <5>2
      <4> QED  BY <4>4, <4>6
    <3> QED  BY <3>1, <3>2
  <2>7. ASSUME NEW k \in 1 .. M
        PROVE  LET i == k + first - 1 IN
               /\ i \in DOMAIN s /\ r[k].end = s[i].end /\ t <= r[k].start
               /\ s[i].start <= r[k].start /\ r[k].start <= r[k].end
               /\ r[k].start = s[i].start \/ r[k].start = t
               /\ s[i].start \in Int /\ s[i].end \in Int
    <3> DEFINE i == k + first - 1
    <3>1. i \in DOMAIN s /\ i \in Int /\ i >= first /\ k \in Int /\ (k = 1 <=> i = first)
      BY <1>2, <2>2, <2>3
    <3>2. r[k].start = begin(k) /\ r[k].end = s[i].end  BY <2>6
    <3>3. s[i].start \in Int /\ s[i].end \in Int /\ s[i].start <= s[i].end
      BY <3>1, OrderedBounds
    <3>4. CASE k = 1
      <4>1. s[i] = s[first]  BY <3>1, <3>4
      <4>2. s[first].start < t \/ s[first].start >= t  BY <2>5
      <4> QED  BY <2>5, <3>1, <3>2, <3>4, <4>1, <4>2
    <3>5. CASE k # 1
      <4>1. first < i /\ first \in DOMAIN s  BY <1>2, <2>2, <3>1, <3>5
      <4>2. s[first].end <= s[i].start  BY <3>1, <4>1 DEF Ordered
      <4>3. t <= s[first].end  BY <2>2, <2>5 DEF Stays
      <4>4. r[k].start = s[i].start  BY <3>2, <3>5
      <4>5. t <= s[i].start  BY <2>5, <3>3, <4>2, <4>3
      <4> QED  BY <3>1, <3>2, <3>3, <4>4, <4>5
    <3> QED  BY <3>4, <3>5
  <2> HIDE DEF begin, kept, cut
  <2>8. Proper(r)  BY <2>6, <2>7 DEF Proper
  <2>9. Ordered(r)
    <3> SUFFICES ASSUME NEW j \in 1 .. M, NEW k \in 1 .. M, j < k PROVE r[j].end <= r[k].start
      BY <2>6 DEF Ordered
    <3>1. M \in Nat /\ first \in Int  BY <1>2, <2>2
    <3>2. j + first - 1 < k + first - 1  BY <3>1
    <3>3. s[j + first - 1].end <= s[k + first - 1].start  BY <2>7, <3>2 DEF Ordered
    <3>4. r[j].end = s[j + first - 1].end /\ s[j + first - 1].end \in Int
      <4> HIDE DEF M, r
      <4> QED  BY <2>7
    <3>5. s[k + first - 1].start <= r[k].start /\ s[k + first - 1].start \in Int
      <4> HIDE DEF M, r
      <4> QED  BY <2>7
    <3>6. r[k] \in Instance
      <4>1. r \in Seq(Instance) /\ k \in DOMAIN r  BY <2>6
      <4> HIDE DEF M, r
      <4> QED  BY <4>1
    <3> QED  BY <3>3, <3>4, <3>5, <3>6, Bounds
  <2>10. ASSUME NEW a \in Instance, a.start < a.end, t <= a.start, Holds(s, a) PROVE Holds(r, a)
    <3>1. PICK i \in DOMAIN s : s[i].start <= a.start /\ a.end <= s[i].end  BY <2>10 DEF Holds
    <3>2. i \in I  BY <1>3, <2>10, <3>1
    <3>3. first <= i /\ i \in Int /\ i <= N /\ first \in Int  BY <1>2, <2>1, <2>2, <3>2
    <3>4. i - first + 1 \in 1 .. M /\ (i - first + 1) + first - 1 = i  BY <1>2, <3>3
    <3>5. r[i - first + 1].end = s[i].end
          /\ (r[i - first + 1].start = s[i].start \/ r[i - first + 1].start = t)
      BY <2>7, <3>4
    <3> QED  BY <2>6, <2>10, <3>1, <3>4, <3>5 DEF Holds
  <2>11. \A k \in DOMAIN r : /\ t <= r[k].start
                             /\ \E i \in DOMAIN s : s[i].start <= r[k].start /\ r[k].end <= s[i].end
    <3> SUFFICES ASSUME NEW k \in 1 .. M
                 PROVE  /\ t <= r[k].start
                        /\ \E i \in DOMAIN s : s[i].start <= r[k].start /\ r[k].end <= s[i].end
      BY <2>6
    <3>1. r[k].end <= s[k + first - 1].end  BY <2>7
    <3> QED  BY <2>7, <3>1
  <2> QED  BY <2>6, <2>8, <2>9, <2>10, <2>11 DEF r
<1> QED  BY <1>4, <1>5

\* remove_all_after keeps what begins earlier, and cuts the last that is left.
LEMMA ToTimeIs ==
  ASSUME NEW s \in Seq(Instance), Ordered(s), Proper(s), NEW t \in Int
  PROVE  LET r == ToTime(s, t) IN
         /\ r \in Seq(Instance) /\ Proper(r) /\ Ordered(r)
         /\ \A k \in DOMAIN r : /\ k \in DOMAIN s /\ r[k].end <= t
                                /\ r[k].start = s[k].start /\ r[k].end <= s[k].end
         /\ \A a \in Instance : a.start < a.end /\ a.end <= t /\ Holds(s, a) => Holds(r, a)
<1> DEFINE N == Len(s)
           Stays(i) == s[i].end <= t \/ s[i].start < t
           I == {i \in 1 .. N : Stays(i)}
           last == IF I # {} THEN Max(I) ELSE 0
           kept == SubSeq(s, 1, last)
           cut == [Last(kept) EXCEPT !.end = t]
           r == ToTime(s, t)
<1>1. r = IF kept # << >> /\ Last(kept).end > t THEN Append(Front(kept), cut) ELSE kept
  BY DEF ToTime, SelectLastInSeq
<1>2. N \in Nat /\ DOMAIN s = 1 .. N  OBVIOUS
<1> HIDE DEF r
<1>3. ASSUME NEW a \in Instance, a.start < a.end, a.end <= t, NEW i \in DOMAIN s,
             s[i].start <= a.start, a.end <= s[i].end
      PROVE  i \in I
  <2>1. a.start \in Int /\ a.end \in Int /\ s[i].start \in Int
    <3>1. s[i] \in Instance  OBVIOUS
    <3> QED  BY <3>1, Bounds
  <2> QED  BY <1>2, <1>3, <2>1
<1>4. CASE I = {}
  <2>1. kept = << >>  BY <1>4
  <2>2. r = << >>  BY <1>1, <2>1
  <2>3. \A a \in Instance : a.start < a.end /\ a.end <= t => ~Holds(s, a)
    BY <1>3, <1>4 DEF Holds
  <2> QED  BY <2>2, <2>3 DEF Proper, Ordered, r
<1>5. CASE I # {}
  <2>1. last \in I /\ \A i \in I : last >= i
    <3>1. I \subseteq 0 .. N  BY <1>2
    <3> HIDE DEF I
    <3>2. Max(I) \in I /\ \A i \in I : Max(I) >= i  BY <1>2, <1>5, <3>1, MaxOf
    <3> QED  BY <1>5, <3>2
  <2>2. last \in 1 .. N /\ Stays(last)  BY <2>1
  <2> HIDE DEF I, last
  <2>3. last \in Nat /\ 1 <= last /\ last <= N /\ last \in DOMAIN s  BY <1>2, <2>2
  <2>4. /\ kept \in Seq(Instance) /\ kept # << >> /\ Len(kept) = last
        /\ DOMAIN kept = 1 .. last
        /\ \A k \in 1 .. last : kept[k] = s[k] /\ k \in DOMAIN s
    <3>1. Len(kept) = last /\ kept \in Seq(Instance)  BY <1>2, <2>3
    <3>2. \A k \in 1 .. last : kept[k] = s[k] /\ k \in DOMAIN s  BY <1>2, <2>3
    <3> HIDE DEF kept
    <3> QED  BY <2>3, <3>1, <3>2
  <2>5. Last(kept) = s[last]  BY <2>3, <2>4 DEF Last
  <2> HIDE DEF Stays, kept
  <2>6. /\ s[last] \in Instance /\ s[last].start \in Int /\ s[last].end \in Int
        /\ s[last].start <= s[last].end /\ (s[last].end > t => s[last].start < t)
    <3>1. s[last] \in Instance  BY <2>3
    <3>2. s[last].start \in Int /\ s[last].end \in Int  BY <3>1, Bounds
    <3>3. s[last].start <= s[last].end  BY <2>3 DEF Proper
    <3> QED  BY <2>2, <3>1, <3>2, <3>3 DEF Stays
  <2>7. /\ r \in Seq(Instance) /\ DOMAIN r = 1 .. last
        /\ \A k \in 1 .. last - 1 : r[k] = s[k]
        /\ r[last] \in Instance /\ r[last].start = s[last].start
        /\ r[last].end = IF s[last].end > t THEN t ELSE s[last].end
    <3>1. CASE ~(s[last].end > t)
      <4>1. r = kept  BY <1>1, <2>5, <3>1
      <4> QED  BY <2>3, <2>4, <2>6, <3>1, <4>1
    <3>2. CASE s[last].end > t
      <4>1. r = Append(Front(kept), cut)  BY <1>1, <2>4, <2>5, <3>2
      <4>2. cut = [s[last] EXCEPT !.end = t]  BY <2>5
      <4> HIDE DEF cut
      <4>3. cut \in Instance /\ cut.start = s[last].start /\ cut.end = t
        BY <2>6, <4>2 DEF Instance
      <4>4. /\ Front(kept) \in Seq(Instance) /\ Len(Front(kept)) = last - 1
            /\ \A k \in 1 .. last - 1 : Front(kept)[k] = kept[k]
        BY <2>3, <2>4 DEF Front
      <4>5. Len(r) = last /\ r \in Seq(Instance) /\ r[last] = cut
        BY <2>3, <4>1, <4>3, <4>4
      <4>6. \A k \in 1 .. last - 1 : r[k] = kept[k]  BY <2>3, <4>1, <4>3, <4>4
      <4> QED  BY <2>3, <2>4, <3>2, <4>3, <4>5, <4>6
    <3> QED  BY <3>1, <3>2
  <2> HIDE DEF cut
  <2>8. ASSUME NEW k \in 1 .. last
        PROVE  /\ k \in DOMAIN s /\ r[k].start = s[k].start /\ r[k].end <= t /\ r[k].end <= s[k].end
               /\ r[k].start <= r[k].end /\ (r[k].end = s[k].end \/ r[k].end = t)
               /\ s[k].start \in Int /\ s[k].end \in Int /\ r[k].end \in Int
    <3>1. k \in DOMAIN s  BY <2>4
    <3>2. s[k].start \in Int /\ s[k].end \in Int /\ s[k].start <= s[k].end
      BY <3>1, OrderedBounds
    <3>3. CASE k = last
      <4>1. r[k].start = s[last].start /\ r[k].end = (IF s[last].end > t THEN t ELSE s[last].end)
        BY <2>7, <3>3
      <4> QED  BY <2>6, <3>1, <3>2, <3>3, <4>1
    <3>4. CASE k # last
      <4>1. k \in 1 .. last - 1 /\ k < last  BY <2>3, <3>4
      <4>2. r[k] = s[k]  BY <2>7, <4>1
      <4>3. s[k].end <= s[last].start  BY <2>3, <3>1, <4>1 DEF Ordered
      <4>4. s[k].end <= t  BY <2>6, <3>2, <4>3
      <4> QED  BY <3>1, <3>2, <4>2, <4>4
    <3> QED  BY <3>3, <3>4
  <2>9. Proper(r)  BY <2>7, <2>8 DEF Proper
  <2>10. Ordered(r)
    <3> SUFFICES ASSUME NEW j \in 1 .. last, NEW k \in 1 .. last, j < k PROVE r[j].end <= r[k].start
      BY <2>7 DEF Ordered
    <3>1. r[j].end <= s[j].end /\ j \in DOMAIN s /\ r[j].end \in Int /\ s[j].end \in Int  BY <2>8
    <3>2. r[k].start = s[k].start /\ k \in DOMAIN s /\ s[k].start \in Int  BY <2>8
    <3>3. s[j].end <= s[k].start  BY <3>1, <3>2 DEF Ordered
    <3> QED  BY <3>1, <3>2, <3>3
  <2>11. ASSUME NEW a \in Instance, a.start < a.end, a.end <= t, Holds(s, a) PROVE Holds(r, a)
    <3>1. PICK i \in DOMAIN s : s[i].start <= a.start /\ a.end <= s[i].end  BY <2>11 DEF Holds
    <3>2. i \in I  BY <1>3, <2>11, <3>1
    <3>3. i \in 1 .. last  BY <1>2, <2>1, <2>3, <3>1, <3>2
    <3>4. r[i].start = s[i].start /\ (r[i].end = s[i].end \/ r[i].end = t)  BY <2>8, <3>3
    <3>5. r[i].start <= a.start /\ a.end <= r[i].end  BY <2>11, <3>1, <3>4
    <3> QED  BY <2>7, <3>3, <3>5 DEF Holds
  <2> QED  BY <2>7, <2>8, <2>9, <2>10, <2>11 DEF r
<1> QED  BY <1>4, <1>5

\* A list in order is cut to the window.
LEMMA WithinIs ==
  ASSUME NEW s \in Seq(Instance), Ordered(s), Proper(s), NEW w \in Instance
  PROVE  CutTo(Within(s, w), s, w.start, w.end)
<1> DEFINE f == FromTime(s, w.start)
           r == ToTime(f, w.end)
<1>1. w.start \in Int /\ w.end \in Int  BY Bounds
<1>2. /\ f \in Seq(Instance) /\ Proper(f) /\ Ordered(f)
      /\ \A k \in DOMAIN f : /\ w.start <= f[k].start
                             /\ \E i \in DOMAIN s : s[i].start <= f[k].start /\ f[k].end <= s[i].end
      /\ \A a \in Instance : a.start < a.end /\ w.start <= a.start /\ Holds(s, a) => Holds(f, a)
  BY <1>1, FromTimeIs
<1> HIDE DEF f
<1>3. /\ r \in Seq(Instance) /\ Proper(r) /\ Ordered(r)
      /\ \A k \in DOMAIN r : /\ k \in DOMAIN f /\ r[k].end <= w.end
                             /\ r[k].start = f[k].start /\ r[k].end <= f[k].end
      /\ \A a \in Instance : a.start < a.end /\ a.end <= w.end /\ Holds(f, a) => Holds(r, a)
  BY <1>1, <1>2, ToTimeIs
<1>4. Within(s, w) = r  BY DEF Within, f
<1> HIDE DEF r
<1>5. ASSUME NEW k \in DOMAIN r
      PROVE  /\ w.start <= r[k].start /\ r[k].end <= w.end
             /\ \E i \in DOMAIN s : s[i].start <= r[k].start /\ r[k].end <= s[i].end
  <2>1. k \in DOMAIN f /\ r[k].end <= w.end /\ r[k].start = f[k].start /\ r[k].end <= f[k].end
    BY <1>3
  <2>2. PICK i \in DOMAIN s : s[i].start <= f[k].start /\ f[k].end <= s[i].end  BY <1>2, <2>1
  <2>3. r[k] \in Instance /\ f[k] \in Instance /\ s[i] \in Instance  BY <1>2, <1>3, <2>1
  <2>4. r[k].end \in Int /\ f[k].end \in Int /\ s[i].end \in Int  BY <2>3, Bounds
  <2>5. r[k].end <= s[i].end  BY <2>1, <2>2, <2>4
  <2> QED  BY <1>2, <2>1, <2>2, <2>5
<1>6. \A a \in Instance : a.start < a.end /\ w.start <= a.start /\ a.end <= w.end /\ Holds(s, a)
        => Holds(r, a)
  BY <1>2, <1>3
<1> QED  BY <1>3, <1>4, <1>5, <1>6 DEF CutTo

-----------------------------------------------------------------------------
(* The free time of the days of a schedule                                 *)

\* Two lists in order, the second of which begins when the first has ended, are one in
\* order.
LEMMA JoinedInOrder ==
  ASSUME NEW s \in Seq(Instance), NEW t \in Seq(Instance),
         Ordered(s), Proper(s), Ordered(t), Proper(t),
         \A i \in DOMAIN s : \A m \in DOMAIN t : s[i].end <= t[m].start
  PROVE  Ordered(s \o t) /\ Proper(s \o t)
<1> DEFINE r == s \o t
           From(i) == i - Len(s)
<1>1. Joined(s, t)  BY Behind, Zenon
<1>2. /\ \A i \in DOMAIN s : r[i] = s[i]
      /\ \A i \in DOMAIN r : i \notin DOMAIN s => From(i) \in DOMAIN t /\ r[i] = t[From(i)]
  BY <1>1, Zenon DEF Joined
<1>3. DOMAIN s = 1 .. Len(s) /\ Len(s) \in Nat /\ DOMAIN r \subseteq Nat \ {0}  OBVIOUS
<1> HIDE DEF r
<1>4. Proper(r)
  <2> SUFFICES ASSUME NEW i \in DOMAIN r PROVE r[i].start <= r[i].end  BY DEF Proper
  <2>1. CASE i \in DOMAIN s  BY <1>2, <2>1 DEF Proper
  <2>2. CASE i \notin DOMAIN s
    <3> HIDE DEF From
    <3> QED  BY <1>2, <2>2 DEF Proper
  <2> QED  BY <2>1, <2>2
<1>5. Ordered(r)
  <2> SUFFICES ASSUME NEW i \in DOMAIN r, NEW j \in DOMAIN r, i < j PROVE r[i].end <= r[j].start
    BY DEF Ordered
  <2>1. CASE i \in DOMAIN s /\ j \in DOMAIN s  BY <1>2, <2>1 DEF Ordered
  <2>2. CASE i \in DOMAIN s /\ j \notin DOMAIN s
    <3> HIDE DEF From
    <3> QED  BY <1>2, <2>2
  <2>3. CASE i \notin DOMAIN s
    <3>1. j \notin DOMAIN s  BY <1>3, <2>3
    <3>2. From(i) < From(j)  BY <1>3
    <3> HIDE DEF From
    <3> QED  BY <1>2, <2>3, <3>1, <3>2 DEF Ordered
  <2> QED  BY <2>1, <2>2, <2>3
<1> QED  BY <1>4, <1>5 DEF r

\* What is in a later part begins when what is in an earlier part has ended.
InSuccession(seqs) ==
  /\ \A n \in DOMAIN seqs : Ordered(seqs[n]) /\ Proper(seqs[n])
  /\ \A j, k \in DOMAIN seqs : j < k =>
       \A i \in DOMAIN seqs[j] : \A m \in DOMAIN seqs[k] : seqs[j][i].end <= seqs[k][m].start

\* Such parts are flattened to a list in order.
LEMMA FlattenOrders ==
  ASSUME NEW seqs \in Seq(Seq(Instance)), InSuccession(seqs)
  PROVE  Ordered(FlattenSeq(seqs)) /\ Proper(FlattenSeq(seqs))
<1> DEFINE N == Len(seqs)
<1>1. PICK g : /\ g \in [0 .. N -> Seq(Instance)] /\ g[0] = << >>
               /\ \A n \in 1 .. N : g[n] = g[n - 1] \o seqs[n]
               /\ FlattenSeq(seqs) = g[N]
  BY Flattens
<1>0. N \in Nat /\ DOMAIN seqs = 1 .. N /\ \A n \in 1 .. N : seqs[n] \in Seq(Instance)  OBVIOUS
<1> DEFINE P(n) == /\ Ordered(g[n]) /\ Proper(g[n])
                   /\ \A i \in DOMAIN g[n] : \E k \in 1 .. n : \E m \in DOMAIN seqs[k] :
                        g[n][i] = seqs[k][m]
           S == {n \in Nat : n <= N => P(n)}
<1> HIDE DEF N
<1>2. P(0)
  <2>1. DOMAIN g[0] = {}  BY <1>1
  <2> QED  BY <2>1 DEF Ordered, Proper
<1>3. ASSUME NEW n \in Nat, n + 1 <= N, P(n) PROVE P(n + 1)
  <2>0. n + 1 <= N  BY <1>3
  <2>1. n \in 0 .. N /\ n + 1 \in 1 .. N /\ (n + 1) - 1 = n  BY <1>0, <2>0
  <2> DEFINE s == g[n]
             t == seqs[n + 1]
             r == s \o t
  <2>2. s \in Seq(Instance) /\ t \in Seq(Instance) /\ g[n + 1] = r
    BY <1>0, <1>1, <2>1
  <2>3. \A k \in 1 .. n : k \in 1 .. n + 1 /\ k \in 1 .. N /\ k < n + 1  BY <1>0, <2>1
  <2>4. n + 1 \in 1 .. n + 1  OBVIOUS
  <2>5. ASSUME NEW i \in DOMAIN s, NEW m \in DOMAIN t PROVE s[i].end <= t[m].start
    <3>1. PICK k \in 1 .. n : \E x \in DOMAIN seqs[k] : s[i] = seqs[k][x]  BY <1>3
    <3>2. PICK x \in DOMAIN seqs[k] : s[i] = seqs[k][x]  BY <3>1
    <3> QED  BY <1>0, <2>1, <2>3, <3>2 DEF InSuccession
  <2>6. Ordered(t) /\ Proper(t) /\ Ordered(s) /\ Proper(s)
    BY <1>0, <1>3, <2>1 DEF InSuccession
  <2>7. Joined(s, t)
    <3> HIDE DEF s, t
    <3> QED  BY <2>2, Behind, Zenon
  <2>8. Ordered(r) /\ Proper(r)
    <3> HIDE DEF s, t
    <3> QED  BY <2>2, <2>5, <2>6, JoinedInOrder
  <2>9. /\ \A i \in DOMAIN s : r[i] = s[i]
        /\ \A i \in DOMAIN r : i \notin DOMAIN s =>
             i - Len(s) \in DOMAIN t /\ r[i] = t[i - Len(s)]
    BY <2>7, Zenon DEF Joined
  <2> HIDE DEF r
  <2>10. ASSUME NEW i \in DOMAIN r
         PROVE  \E k \in 1 .. n + 1 : \E m \in DOMAIN seqs[k] : r[i] = seqs[k][m]
    <3>1. CASE i \in DOMAIN s
      <4>1. PICK k \in 1 .. n : \E m \in DOMAIN seqs[k] : s[i] = seqs[k][m]  BY <1>3, <3>1
      <4>2. r[i] = s[i]  BY <2>9, <3>1
      <4> QED  BY <2>3, <4>1, <4>2
    <3>2. CASE i \notin DOMAIN s
      <4>1. i - Len(s) \in DOMAIN seqs[n + 1] /\ r[i] = seqs[n + 1][i - Len(s)]
        BY <2>9, <3>2
      <4> QED  BY <2>4, <4>1
    <3> QED  BY <3>1, <3>2
  <2> HIDE DEF s, t
  <2> QED  BY <2>2, <2>8, <2>10
<1>4. P(N)
  <2> HIDE DEF P
  <2>1. 0 \in S  BY <1>2
  <2>2. ASSUME NEW n \in Nat, n \in S PROVE n + 1 \in S  BY <1>0, <1>3, <2>2
  <2>3. Nat \subseteq S
    <3> HIDE DEF S
    <3> QED  BY <2>1, <2>2, Inductive
  <2> QED  BY <1>0, <2>3
<1> QED  BY <1>1, <1>4

\* A list in order is extended by all of its instances.
LEMMA ExtendKeepsAll ==
  ASSUME NEW l \in Seq(Instance), Ordered(l), Proper(l), NEW i \in DOMAIN l
  PROVE  i \in DOMAIN Extend(<< >>, l) /\ Extend(<< >>, l)[i] = l[i]
<1>1. Len(l) \in Nat /\ DOMAIN l = 1 .. Len(l) /\ Len(l) <= Len(l) /\ 0 \in Int
      /\ ~(Len(l) < Len(l))
  OBVIOUS
<1>2. \A j, k \in 1 .. Len(l) : j < k => l[j].end <= l[k].start  BY <1>1 DEF Ordered
<1>3. KeepsFirst(Extend(<< >>, l), l, Len(l), 0)  BY <1>1, <1>2, ExtendKeepsFirst
<1> QED  BY <1>1, <1>3 DEF KeepsFirst

\* A stored schedule has the intervals of the rules its client gave, parsed.
LEMMA RulesAreParsed ==
  ASSUME NEW s, IsSchedule(s), NEW d \in Int
  PROVE  ParsedRight(IntervalsOf(s.rules, d), IntervalsOf(s.given, d))
<1> DEFINE G == s.given
           R == s.rules
           dated == {i \in DOMAIN G : G[i].date = d}
           weekly == {i \in DOMAIN G : G[i].date < 0 /\ G[i].weekday = d % Week}
           ruling == IF dated # {} THEN dated ELSE weekly
<1>1. /\ G \in Seq([weekday : Int, date : Int, intervals : Seq(Intervals)])
      /\ R = [i \in DOMAIN G |-> [G[i] EXCEPT !.intervals = Parsed(@)]]
  BY DEF IsSchedule, Stored, Intervals
<1> HIDE DEF G, R
<1>2. DOMAIN R = DOMAIN G /\ \A i \in DOMAIN G :
        /\ G[i] \in [weekday : Int, date : Int, intervals : Seq(Intervals)]
        /\ R[i].date = G[i].date /\ R[i].weekday = G[i].weekday
        /\ R[i].intervals = Parsed(G[i].intervals) /\ G[i].intervals \in Seq(Intervals)
  <2>1. DOMAIN R = DOMAIN G  BY <1>1
  <2>2. ASSUME NEW i \in DOMAIN G
        PROVE  /\ G[i] \in [weekday : Int, date : Int, intervals : Seq(Intervals)]
               /\ R[i].date = G[i].date /\ R[i].weekday = G[i].weekday
               /\ R[i].intervals = Parsed(G[i].intervals) /\ G[i].intervals \in Seq(Intervals)
    <3> DEFINE Rule == [weekday : Int, date : Int, intervals : Seq(Intervals)]
    <3>0. G \in Seq(Rule)  BY <1>1
    <3>1. G[i] \in Rule
      <4> HIDE DEF Rule
      <4> QED  BY <3>0
    <3>2. R[i] = [G[i] EXCEPT !.intervals = Parsed(G[i].intervals)]  BY <1>1
    <3> QED  BY <3>1, <3>2
  <2> QED  BY <2>1, <2>2
<1>3. /\ {i \in DOMAIN R : R[i].date = d} = dated
      /\ {i \in DOMAIN R : R[i].date < 0 /\ R[i].weekday = d % Week} = weekly
  BY <1>2
<1>4. IntervalsOf(G, d) = IF ruling = {} THEN << >> ELSE G[Max(ruling)].intervals
  BY DEF IntervalsOf
<1>5. IntervalsOf(R, d) = IF ruling = {} THEN << >> ELSE R[Max(ruling)].intervals
  BY <1>3 DEF IntervalsOf
<1>6. ruling \subseteq DOMAIN G  OBVIOUS
<1> HIDE DEF dated, weekly, ruling
<1>7. CASE ruling = {}
  <2>1. IntervalsOf(G, d) = << >> /\ IntervalsOf(R, d) = << >>  BY <1>4, <1>5, <1>7
  <2>2. DOMAIN << >> = {} /\ << >> \in Seq(Instance)  OBVIOUS
  <2>3. ParsedRight(<< >>, << >>)
    BY <2>2 DEF ParsedRight, Sound, Proper, Apart, Gives, Covers
  <2> QED  BY <2>1, <2>3 DEF G, R
<1>8. CASE ruling # {}
  <2>1. DOMAIN G = 1 .. Len(G) /\ Len(G) \in Nat  BY <1>1
  <2>2. ruling \subseteq 0 .. Len(G)  BY <1>6, <2>1
  <2>3. Max(ruling) \in ruling  BY <1>8, <2>1, <2>2, MaxOf
  <2>4. Max(ruling) \in DOMAIN G  BY <1>6, <2>3
  <2>5. IntervalsOf(R, d) = Parsed(IntervalsOf(G, d)) /\ IntervalsOf(G, d) \in Seq(Intervals)
    BY <1>2, <1>4, <1>5, <1>8, <2>4
  <2> QED  BY <2>5, ParsedIs DEF G, R
<1> QED  BY <1>7, <1>8

\* An hour that exists once, and what is earlier in its day
LEMMA SingleIs ==
  ASSUME NEW zone, IsTimeZone(zone), NEW d \in DOMAIN zone, NEW h \in Nat, Single(zone, d, h)
  PROVE  /\ d \in Int /\ h \in 0 .. Hours - 1 /\ h \in DOMAIN zone[d]
         /\ Instant(zone, d, h) \in zone[d][h] /\ Instant(zone, d, h) \in Int
         /\ Instant(zone, d, h) \in Instants(zone, d)
         /\ \A g \in DOMAIN zone[d] : \A t \in zone[d][g] : t < Instant(zone, d, h) <=> g < h
<1>1. h < Hours /\ Cardinality(zone[d][h]) = 1 /\ Hours \in Nat
  BY LimitsAssumption DEF Single
<1>2. h \in 0 .. Hours - 1 /\ DOMAIN zone[d] = 0 .. Hours - 1  BY <1>1 DEF IsTimeZone
<1>3. zone[d][h] \subseteq Int /\ IsFiniteSet(zone[d][h])  BY <1>2 DEF IsTimeZone
<1>4. zone[d][h] # {}  BY <1>1, FS_EmptySet
<1>5. Instant(zone, d, h) \in zone[d][h]  BY <1>4 DEF Instant
<1>6. Instant(zone, d, h) \in Instants(zone, d)  BY <1>2, <1>5 DEF Instants
<1>7. \A g \in DOMAIN zone[d] : \A t \in zone[d][g] : t < Instant(zone, d, h) <=> g < h
  BY <1>2 DEF IsTimeZone
<1>8. d \in Int  BY DEF IsTimeZone
<1> QED  BY <1>2, <1>3, <1>5, <1>6, <1>7, <1>8

\* The first hour from h on that exists once
LEMMA FirstSingleIs ==
  ASSUME NEW zone, NEW d, Single(zone, d, 0), NEW h \in Nat
  PROVE  LET f == FirstSingle(zone, d, h) IN
         /\ f \in Nat /\ Single(zone, d, f)
         /\ \A g \in Nat : h <= g /\ Single(zone, d, g) => h <= f /\ f <= g
<1> DEFINE later == {x \in h .. Hours - 1 : Single(zone, d, x)}
           any == {x \in 0 .. Hours - 1 : Single(zone, d, x)}
           S == IF later # {} THEN later ELSE any
           f == FirstSingle(zone, d, h)
<1>1. Hours \in Nat /\ 0 < Hours /\ 0 \in any  BY LimitsAssumption
<1>2. any \subseteq Nat /\ later \subseteq Nat /\ S # {}  BY <1>1
<1>3. IsFiniteSet(S)
  <2>1. IsFiniteSet(0 .. Hours - 1)  BY <1>1, FS_Interval
  <2>2. S \subseteq 0 .. Hours - 1  BY <1>1
  <2> QED  BY <2>1, <2>2, FS_Subset
<1>4. S \subseteq Int  BY <1>2
<1>5. f = Min(S)  BY DEF FirstSingle
<1>6. f \in S /\ \A x \in S : f <= x
  <2> HIDE DEF S, f
  <2> QED  BY <1>2, <1>3, <1>4, <1>5, FirstOf
<1> HIDE DEF f
<1>7. f \in Nat /\ Single(zone, d, f)  BY <1>2, <1>6
<1>8. ASSUME NEW g \in Nat, h <= g, Single(zone, d, g) PROVE h <= f /\ f <= g
  <2>1. g < Hours  BY <1>8 DEF Single
  <2>2. g \in later  BY <1>1, <1>8, <2>1
  <2>3. f \in later /\ f <= g  BY <1>6, <2>2
  <2> QED  BY <2>3
<1> QED  BY <1>7, <1>8 DEF f

\* e lasts from an hour of v that exists once to the end of v.
EventOf(zone, d, v, e) ==
  /\ e \in Instance /\ e.start <= e.end /\ Single(zone, d, v.end)
  /\ e.end = Instant(zone, d, v.end)
  /\ \E f \in Nat : /\ Single(zone, d, f) /\ v.start <= f /\ f <= v.end
                    /\ e.start = Instant(zone, d, f)

\* An interval is turned into no event or one, and into one that begins in time if it
\* has an hour that exists once.
LEMMA ToEventIs ==
  ASSUME NEW zone, IsTimeZone(zone), NEW d \in DOMAIN zone, Single(zone, d, 0),
         NEW v \in Instance, v.start \in Nat, v.start <= v.end, ~NeverEnds(zone, d, v)
  PROVE  /\ ToEvent(zone, d, v) = << >>
            \/ \E e \in Instance : ToEvent(zone, d, v) = << e >> /\ EventOf(zone, d, v, e)
         /\ \A g \in Nat : Single(zone, d, g) /\ v.start <= g /\ g <= v.end =>
              \E e \in Instance : /\ ToEvent(zone, d, v) = << e >> /\ EventOf(zone, d, v, e)
                                  /\ e.start <= Instant(zone, d, g)
<1> DEFINE f == FirstSingle(zone, d, v.start)
           e == [start |-> Instant(zone, d, f), end |-> Instant(zone, d, v.end)]
<1>1. v.end \in Nat  BY Bounds
<1>2. /\ f \in Nat /\ Single(zone, d, f)
      /\ \A g \in Nat : v.start <= g /\ Single(zone, d, g) => v.start <= f /\ f <= g
  BY FirstSingleIs
<1>3. v.start <= f => Single(zone, d, v.end)  BY DEF NeverEnds
<1>4. ToEvent(zone, d, v) = IF v.start > f \/ e.start > e.end THEN << >> ELSE << e >>
  BY DEF ToEvent
<1> HIDE DEF f
<1>5. ASSUME v.start <= f
      PROVE  /\ e \in Instance /\ e.start \in Int /\ e.end \in Int
             /\ e.end < e.start <=> v.end < f
  <2>1. Single(zone, d, v.end)  BY <1>3, <1>5
  <2>2. e.start = Instant(zone, d, f) /\ e.end = Instant(zone, d, v.end)  OBVIOUS
  <2>3. v.end \in DOMAIN zone[d] /\ e.end \in zone[d][v.end] /\ e.end \in Int
    BY <1>1, <2>1, <2>2, SingleIs
  <2>4. e.start \in Int /\ \A g \in DOMAIN zone[d] : \A t \in zone[d][g] : t < e.start <=> g < f
    BY <1>2, <2>2, SingleIs
  <2> QED  BY <2>3, <2>4 DEF Instance
<1>6. ASSUME v.start <= f, f <= v.end
      PROVE  e \in Instance /\ ToEvent(zone, d, v) = << e >> /\ EventOf(zone, d, v, e)
  <2>1. /\ e \in Instance /\ e.start \in Int /\ e.end \in Int
        /\ e.end < e.start <=> v.end < f
    BY <1>5, <1>6
  <2>2. e.start <= e.end  BY <1>1, <1>2, <1>6, <2>1
  <2>3. ToEvent(zone, d, v) = << e >>  BY <1>2, <1>4, <1>6, <2>1, <2>2
  <2>4. Single(zone, d, v.end)  BY <1>3, <1>6
  <2>5. e.start = Instant(zone, d, f) /\ e.end = Instant(zone, d, v.end)  OBVIOUS
  <2> HIDE DEF e
  <2>6. EventOf(zone, d, v, e)  BY <1>2, <1>6, <2>1, <2>2, <2>4, <2>5 DEF EventOf
  <2> QED  BY <2>1, <2>3, <2>6
<1>7. ASSUME ToEvent(zone, d, v) # << >> PROVE v.start <= f /\ f <= v.end
  <2>1. v.start <= f /\ ~(e.start > e.end)  BY <1>2, <1>4, <1>7
  <2>2. e.start \in Int /\ e.end \in Int /\ (e.end < e.start <=> v.end < f)
    BY <1>5, <2>1
  <2> HIDE DEF e
  <2> QED  BY <1>1, <1>2, <2>1, <2>2
<1>8. ASSUME NEW g \in Nat, Single(zone, d, g), v.start <= g, g <= v.end
      PROVE  v.start <= f /\ f <= v.end /\ e.start <= Instant(zone, d, g)
  <2>1. v.start <= f /\ f <= g  BY <1>2, <1>8
  <2>2. g \in DOMAIN zone[d] /\ Instant(zone, d, g) \in zone[d][g] /\ Instant(zone, d, g) \in Int
    BY <1>8, SingleIs
  <2>3. Instant(zone, d, f) \in Int /\ (Instant(zone, d, g) < Instant(zone, d, f) <=> g < f)
    BY <1>2, <2>2, SingleIs
  <2>4. e.start = Instant(zone, d, f)  OBVIOUS
  <2> HIDE DEF e
  <2> QED  BY <1>1, <1>2, <1>8, <2>1, <2>2, <2>3, <2>4
<1> HIDE DEF e
<1> QED  BY <1>6, <1>7, <1>8

\* The day of an instant
LEMMA DayIs ==
  ASSUME NEW zone, IsTimeZone(zone), NEW d \in DOMAIN zone, NEW t \in Instants(zone, d)
  PROVE  DayOf(zone, t) = d
<1>1. ASSUME NEW e \in DOMAIN zone, t \in Instants(zone, e) PROVE e = d
  <2>1. d \in Int /\ e \in Int  BY DEF IsTimeZone
  <2>2. t \in Int
    <3>1. PICK h \in DOMAIN zone[d] : t \in zone[d][h]  BY DEF Instants
    <3> QED  BY <3>1 DEF IsTimeZone
  <2>3. d < e => t < t  BY <1>1 DEF IsTimeZone
  <2>4. e < d => t < t  BY <1>1 DEF IsTimeZone
  <2> QED  BY <2>1, <2>2, <2>3, <2>4
<1> QED  BY <1>1 DEF DayOf

\* The instants are numbers, and those of a later day are later.
LEMMA InstantsAre ==
  ASSUME NEW zone, IsTimeZone(zone), NEW d \in DOMAIN zone, NEW e \in DOMAIN zone,
         NEW t \in Instants(zone, d), NEW u \in Instants(zone, e)
  PROVE  /\ d \in Int /\ e \in Int /\ t \in Int /\ u \in Int
         /\ d < e => t < u
         /\ t < u => d <= e
         /\ \A x \in t .. u : HasDay(zone, x)
<1>1. d \in Int /\ e \in Int  BY DEF IsTimeZone
<1>2. t \in Int
  <2>1. PICK h \in DOMAIN zone[d] : t \in zone[d][h]  BY DEF Instants
  <2> QED  BY <2>1 DEF IsTimeZone
<1>3. u \in Int
  <2>1. PICK h \in DOMAIN zone[e] : u \in zone[e][h]  BY DEF Instants
  <2> QED  BY <2>1 DEF IsTimeZone
<1>4. d < e => t < u  BY DEF IsTimeZone
<1>5. e < d => u < t  BY DEF IsTimeZone
<1>6. \A x \in t .. u : HasDay(zone, x)  BY DEF IsTimeZone
<1> QED  BY <1>1, <1>2, <1>3, <1>4, <1>5, <1>6

\* What an event of a day needs to be looked up: a midnight, and ends that exist once
Usable(zone, d, p) ==
  /\ p # << >> => Single(zone, d, 0)
  /\ \A j \in DOMAIN p : ~NeverEnds(zone, d, p[j])

\* The events of a day are those of its intervals, in order, and one begins in time
\* where an interval has an hour that exists once.
EventsRight(l, zone, d, p) ==
  /\ l \in Seq(Instance) /\ Ordered(l) /\ Proper(l)
  /\ \A k \in DOMAIN l : \E j \in DOMAIN p : EventOf(zone, d, p[j], l[k])
  /\ \A j \in DOMAIN p : \A g \in Nat :
       Single(zone, d, g) /\ p[j].start <= g /\ g <= p[j].end =>
         \E k \in DOMAIN l : EventOf(zone, d, p[j], l[k]) /\ l[k].start <= Instant(zone, d, g)

\* The end of an event is not after the beginning of one for a later interval.
LEMMA EventsFollow ==
  ASSUME NEW zone, IsTimeZone(zone), NEW d \in DOMAIN zone,
         NEW v \in Instance, NEW w \in Instance, v.end < w.start, v.end \in Nat,
         NEW a, NEW b, EventOf(zone, d, v, a), EventOf(zone, d, w, b)
  PROVE  a.end <= b.start
<1>1. PICK f \in Nat : /\ Single(zone, d, f) /\ w.start <= f /\ f <= w.end
                       /\ b.start = Instant(zone, d, f)
  BY DEF EventOf
<1>2. v.end < f
  <2>1. w.start \in Int  BY Bounds
  <2> QED  BY <1>1, <2>1
<1>3. v.end \in DOMAIN zone[d] /\ a.end \in zone[d][v.end]
  <2>1. Single(zone, d, v.end) /\ a.end = Instant(zone, d, v.end)  BY DEF EventOf
  <2> QED  BY <2>1, SingleIs
<1>4. \A g \in DOMAIN zone[d] : \A t \in zone[d][g] : t < b.start <=> g < f  BY <1>1, SingleIs
<1>5. a.end < b.start  BY <1>2, <1>3, <1>4
<1>6. a.end \in Int /\ b.start \in Int  BY Bounds DEF EventOf
<1> QED  BY <1>5, <1>6

\* The events of a day
LEMMA EventsOnAre ==
  ASSUME NEW s, IsTimeZone(s.zone), NEW d \in DOMAIN s.zone,
         Sound(IntervalsOf(s.rules, d)),
         \A j \in DOMAIN IntervalsOf(s.rules, d) : IntervalsOf(s.rules, d)[j].start \in Nat,
         Usable(s.zone, d, IntervalsOf(s.rules, d))
  PROVE  EventsRight(EventsOn(s, d), s.zone, d, IntervalsOf(s.rules, d))
<1> DEFINE zone == s.zone
           p == IntervalsOf(s.rules, d)
           seqs == [j \in DOMAIN p |-> ToEvent(zone, d, p[j])]
           l == FlattenSeq(seqs)
<1>1. EventsOn(s, d) = l  BY DEF EventsOn
<1>2. /\ p \in Seq(Instance) /\ DOMAIN p = 1 .. Len(p) /\ Len(p) \in Nat
      /\ Proper(p) /\ Apart(p) /\ Usable(zone, d, p) /\ IsTimeZone(zone) /\ d \in DOMAIN zone
      /\ \A j \in DOMAIN p : p[j].start \in Nat
  BY DEF Sound
<1> HIDE DEF p, zone
<1>3. ASSUME NEW j \in DOMAIN p
      PROVE  /\ p[j] \in Instance /\ p[j].start \in Nat /\ p[j].end \in Nat
             /\ seqs[j] = << >>
                \/ \E e \in Instance : seqs[j] = << e >> /\ EventOf(zone, d, p[j], e)
             /\ \A g \in Nat : Single(zone, d, g) /\ p[j].start <= g /\ g <= p[j].end =>
                  \E e \in Instance : /\ seqs[j] = << e >> /\ EventOf(zone, d, p[j], e)
                                      /\ e.start <= Instant(zone, d, g)
  <2>1. seqs[j] = ToEvent(zone, d, p[j])  OBVIOUS
  <2>2. p[j] \in Instance /\ p[j].start \in Nat /\ p[j].start <= p[j].end
    BY <1>2 DEF Proper
  <2>3. p # << >>  BY <1>2
  <2>4. Single(zone, d, 0) /\ ~NeverEnds(zone, d, p[j])  BY <1>2, <2>3 DEF Usable
  <2>5. p[j].end \in Nat  BY <2>2, Bounds
  <2> HIDE DEF seqs
  <2> QED  BY <1>2, <2>1, <2>2, <2>4, <2>5, ToEventIs
<1>4. DOMAIN seqs = DOMAIN p /\ Len(seqs) = Len(p)  BY <1>2
<1>5. seqs \in Seq(Seq(Instance))
  <2>1. ASSUME NEW j \in DOMAIN p PROVE ToEvent(zone, d, p[j]) \in Seq(Instance)
    <3>1. seqs[j] = ToEvent(zone, d, p[j])  OBVIOUS
    <3> HIDE DEF seqs
    <3>2. << >> \in Seq(Instance) /\ \A e \in Instance : << e >> \in Seq(Instance)  OBVIOUS
    <3>3. seqs[j] = << >> \/ \E e \in Instance : seqs[j] = << e >>  BY <1>3
    <3>4. seqs[j] \in Seq(Instance)  BY <3>2, <3>3
    <3> QED  BY <3>1, <3>4
  <2> QED  BY <1>2, <2>1
<1> HIDE DEF seqs
<1>6. ASSUME NEW j \in DOMAIN seqs, NEW i \in DOMAIN seqs[j]
      PROVE  /\ i = 1 /\ DOMAIN seqs[j] = {1} /\ EventOf(zone, d, p[j], seqs[j][i])
             /\ seqs[j][i] \in Instance
  <2>1. seqs[j] # << >>  OBVIOUS
  <2>2. PICK e \in Instance : seqs[j] = << e >> /\ EventOf(zone, d, p[j], e)
    BY <1>3, <1>4, <2>1
  <2> QED  BY <2>2
<1>7. InSuccession(seqs)
  <2>1. ASSUME NEW n \in DOMAIN seqs PROVE Ordered(seqs[n]) /\ Proper(seqs[n])
    <3>1. ASSUME NEW i \in DOMAIN seqs[n] PROVE i = 1 /\ seqs[n][i].start <= seqs[n][i].end
      BY <1>6 DEF EventOf
    <3> QED  BY <3>1 DEF Ordered, Proper
  <2>2. ASSUME NEW j \in DOMAIN seqs, NEW k \in DOMAIN seqs, j < k,
               NEW i \in DOMAIN seqs[j], NEW m \in DOMAIN seqs[k]
        PROVE  seqs[j][i].end <= seqs[k][m].start
    <3>1. EventOf(zone, d, p[j], seqs[j][i]) /\ EventOf(zone, d, p[k], seqs[k][m])  BY <1>6
    <3>2. p[j].end < p[k].start  BY <1>2, <1>4, <2>2 DEF Apart
    <3>3. p[j] \in Instance /\ p[k] \in Instance /\ p[j].end \in Nat  BY <1>3, <1>4
    <3> QED  BY <1>2, <3>1, <3>2, <3>3, EventsFollow
  <2> QED  BY <2>1, <2>2 DEF InSuccession
<1>8. l \in Seq(Instance) /\ FromParts(l, seqs, Len(seqs))  BY <1>5, FlattenElements, Zenon
<1>9. Ordered(l) /\ Proper(l)  BY <1>5, <1>7, FlattenOrders
<1>10. DOMAIN seqs = 1 .. Len(seqs)  BY <1>2, <1>4
<1> HIDE DEF l
<1>11. ASSUME NEW k \in DOMAIN l PROVE \E j \in DOMAIN p : EventOf(zone, d, p[j], l[k])
  <2>1. PICK j \in 1 .. Len(seqs) : \E m \in DOMAIN seqs[j] : l[k] = seqs[j][m]
    BY <1>8 DEF FromParts
  <2> QED  BY <1>4, <1>6, <1>10, <2>1
<1>12. ASSUME NEW j \in DOMAIN p, NEW g \in Nat, Single(zone, d, g), p[j].start <= g, g <= p[j].end
       PROVE  \E k \in DOMAIN l : EventOf(zone, d, p[j], l[k]) /\ l[k].start <= Instant(zone, d, g)
  <2>1. PICK e \in Instance : /\ seqs[j] = << e >> /\ EventOf(zone, d, p[j], e)
                              /\ e.start <= Instant(zone, d, g)
    BY <1>3, <1>12
  <2>2. 1 \in DOMAIN seqs[j] /\ seqs[j][1] = e  BY <2>1
  <2>3. PICK k \in DOMAIN l : l[k] = seqs[j][1]  BY <1>4, <1>8, <1>10, <2>2 DEF FromParts
  <2> QED  BY <2>1, <2>2, <2>3
<1> QED  BY <1>1, <1>8, <1>9, <1>11, <1>12 DEF EventsRight, p, zone, l

\* What an event of an interval holds is in the hours of that interval.
LEMMA InEvent ==
  ASSUME NEW zone, IsTimeZone(zone), NEW d \in DOMAIN zone, NEW v, v.start \in Nat, v.end \in Nat,
         NEW e, EventOf(zone, d, v, e), NEW m \in Int, In(m, e)
  PROVE  /\ m \in Instants(zone, d) /\ DayOf(zone, m) = d
         /\ \E h \in DOMAIN zone[d] : m \in zone[d][h] /\ v.start <= h /\ h < v.end
<1>1. PICK f \in Nat : /\ Single(zone, d, f) /\ v.start <= f /\ f <= v.end
                       /\ e.start = Instant(zone, d, f)
  BY DEF EventOf
<1>2. /\ e.start \in Instants(zone, d) /\ e.start \in Int
      /\ \A g \in DOMAIN zone[d] : \A t \in zone[d][g] : t < e.start <=> g < f
  BY <1>1, SingleIs
<1>3. /\ e.end \in Instants(zone, d) /\ e.end \in Int
      /\ \A g \in DOMAIN zone[d] : \A t \in zone[d][g] : t < e.end <=> g < v.end
  <2>1. Single(zone, d, v.end) /\ e.end = Instant(zone, d, v.end)  BY DEF EventOf
  <2> QED  BY <2>1, SingleIs
<1>4. e.start <= m /\ m < e.end  BY DEF In
<1>5. m \in e.start .. e.end  BY <1>2, <1>3, <1>4
<1>6. HasDay(zone, m)  BY <1>2, <1>3, <1>5, InstantsAre
<1>7. PICK x \in DOMAIN zone : m \in Instants(zone, x)  BY <1>6 DEF HasDay
<1>8. x = d
  <2>1. x \in Int /\ d \in Int /\ (x < d => m < e.start)  BY <1>2, <1>7, InstantsAre
  <2>2. d < x => e.end < m  BY <1>3, <1>7, InstantsAre
  <2> QED  BY <1>2, <1>3, <1>4, <2>1, <2>2
<1>9. m \in Instants(zone, d)  BY <1>7, <1>8
<1>10. PICK h \in DOMAIN zone[d] : m \in zone[d][h]  BY <1>9 DEF Instants
<1>11. h \in Int
  <2>1. DOMAIN zone[d] = 0 .. Hours - 1  BY DEF IsTimeZone
  <2> QED  BY <2>1, LimitsAssumption
<1>12. h < v.end  BY <1>3, <1>4, <1>10
<1>13. ~(h < f)
  <2>1. ~(m < e.start)  BY <1>2, <1>4
  <2> QED  BY <1>2, <1>10, <2>1
<1>14. v.start <= h  BY <1>1, <1>11, <1>13
<1> QED  BY <1>9, <1>10, <1>12, <1>14, DayIs

\* An hour that is promised is in an interval of the stored rules.
LEMMA PromisedIs ==
  ASSUME NEW s, IsSchedule(s), NEW d \in Int, NEW h \in Int
  PROVE  Promised(s, d, h) <=> Covers(IntervalsOf(s.rules, d), h)
<1>1. Promised(s, d, h) <=> Gives(IntervalsOf(s.given, d), h)  BY DEF Promised, Gives
<1>2. Gives(IntervalsOf(s.given, d), h) <=> Covers(IntervalsOf(s.rules, d), h)
  BY RulesAreParsed DEF ParsedRight
<1> QED  BY <1>1, <1>2

\* Two intervals of a list that holds them apart do not hold the end of one of them.
LEMMA NotTheEnd ==
  ASSUME NEW p, Sound(p), NEW i \in DOMAIN p, NEW j \in DOMAIN p, In(p[j].end, p[i])
  PROVE  FALSE
<1>1. p[i] \in Instance /\ p[j] \in Instance /\ i \in Nat /\ j \in Nat  BY DEF Sound
<1>2. /\ p[i].start \in Int /\ p[i].end \in Int /\ p[j].start \in Int /\ p[j].end \in Int
      /\ p[i].start <= p[i].end /\ p[j].start <= p[j].end
  BY <1>1, Bounds DEF Sound, Proper
<1>3. p[i].start <= p[j].end /\ p[j].end < p[i].end  BY DEF In
<1>4. i # j  BY <1>2, <1>3
<1>5. CASE i < j
  <2>1. p[i].end < p[j].start  BY <1>5 DEF Sound, Apart
  <2> QED  BY <1>2, <1>3, <2>1
<1>6. CASE j < i
  <2>1. p[j].end < p[i].start  BY <1>6 DEF Sound, Apart
  <2> QED  BY <1>2, <1>3, <2>1
<1> QED  BY <1>1, <1>4, <1>5, <1>6

\* Hours that follow each other are in one interval of such a list.
LEMMA OneInterval ==
  ASSUME NEW p, Sound(p), NEW j \in DOMAIN p, NEW g \in Int, NEW h \in Int, g <= h, In(h, p[j]),
         \A x \in g .. h : Covers(p, x)
  PROVE  p[j].start <= g
<1> SUFFICES ASSUME g < p[j].start PROVE FALSE
  <2>1. p[j] \in Instance  BY DEF Sound
  <2> QED  BY <2>1, Bounds
<1>1. p[j] \in Instance /\ p[j].start \in Int /\ p[j].end \in Int /\ j \in Nat
  BY Bounds DEF Sound
<1>2. p[j].start <= h /\ h < p[j].end  BY DEF In
<1> DEFINE x == p[j].start - 1
<1>3. x \in g .. h /\ x \in Int  BY <1>1, <1>2
<1>4. PICK i \in DOMAIN p : In(x, p[i])  BY <1>3 DEF Covers
<1>5. /\ p[i] \in Instance /\ p[i].start \in Int /\ p[i].end \in Int /\ i \in Nat
      /\ p[i].start <= x /\ x < p[i].end
  BY <1>4, Bounds DEF Sound, In
<1>6. i # j  BY <1>1, <1>5
<1>7. CASE i < j
  <2>1. p[i].end < p[j].start  BY <1>7 DEF Sound, Apart
  <2> QED  BY <1>1, <1>5, <2>1
<1>8. CASE j < i
  <2>1. p[j].end < p[i].start  BY <1>8 DEF Sound, Apart
  <2> QED  BY <1>1, <1>2, <1>5, <2>1
<1> QED  BY <1>1, <1>5, <1>6, <1>7, <1>8

\* What a schedule surely offers at an instant of a day
LEMMA SurelyIs ==
  ASSUME NEW s, IsSchedule(s), NEW d \in DOMAIN s.zone, NEW t \in Instants(s.zone, d),
         OfferedSurely(s, t)
  PROVE  \E h \in DOMAIN s.zone[d] : \E g \in Nat :
           /\ t \in s.zone[d][h] /\ h \in Nat /\ g <= h /\ Single(s.zone, d, g)
           /\ \A x \in g .. h : Covers(IntervalsOf(s.rules, d), x)
<1>1. IsTimeZone(s.zone)  BY DEF IsSchedule
<1>2. DayOf(s.zone, t) = d /\ d \in Int  BY <1>1, DayIs, InstantsAre
<1>3. DOMAIN s.zone[d] = 0 .. Hours - 1 /\ Hours \in Nat  BY <1>1, LimitsAssumption DEF IsTimeZone
<1>4. PICK h \in DOMAIN s.zone[d] :
        /\ t \in s.zone[d][h]
        /\ \E g \in 0 .. h : Single(s.zone, d, g) /\ \A x \in g .. h : Promised(s, d, x)
  BY <1>2 DEF OfferedSurely
<1>5. PICK g \in 0 .. h : Single(s.zone, d, g) /\ \A x \in g .. h : Promised(s, d, x)  BY <1>4
<1>6. h \in Nat /\ g \in Nat /\ g <= h  BY <1>3
<1>7. ASSUME NEW x \in g .. h PROVE Covers(IntervalsOf(s.rules, d), x)
  BY <1>2, <1>5, <1>6, PromisedIs
<1> QED  BY <1>4, <1>5, <1>6, <1>7

\* The stored intervals of a day
LEMMA DayRules ==
  ASSUME NEW s, IsSchedule(s), NEW d \in DOMAIN s.zone
  PROVE  LET p == IntervalsOf(s.rules, d) IN
         /\ Sound(p)
         /\ \A j \in DOMAIN p : p[j] \in Instance /\ p[j].start \in Nat /\ p[j].end \in Nat
<1> DEFINE p == IntervalsOf(s.rules, d)
<1>1. d \in Int  BY DEF IsSchedule, IsTimeZone
<1>2. Sound(p) /\ \A k \in DOMAIN p : p[k].start \in Nat
  BY <1>1, RulesAreParsed DEF ParsedRight
<1> HIDE DEF p
<1>3. ASSUME NEW j \in DOMAIN p PROVE p[j] \in Instance /\ p[j].start \in Nat /\ p[j].end \in Nat
  <2>1. p[j] \in Instance /\ p[j].start \in Nat /\ p[j].start <= p[j].end
    BY <1>2 DEF Sound, Proper
  <2> QED  BY <2>1, Bounds
<1> QED  BY <1>2, <1>3 DEF p

\* An instant that is surely offered is in an event of its day.
LEMMA OfferedIsIn ==
  ASSUME NEW s, IsSchedule(s), NEW d \in DOMAIN s.zone, NEW t \in Instants(s.zone, d),
         OfferedSurely(s, t), NEW l, EventsRight(l, s.zone, d, IntervalsOf(s.rules, d))
  PROVE  \E k \in DOMAIN l : In(t, l[k])
<1> DEFINE zone == s.zone
           p == IntervalsOf(s.rules, d)
<1>0. IsTimeZone(zone)  BY DEF IsSchedule
<1>1. Sound(p) /\ \A j \in DOMAIN p : p[j] \in Instance /\ p[j].start \in Nat /\ p[j].end \in Nat
  BY DayRules
<1>2. PICK h \in DOMAIN zone[d] : \E g \in Nat :
        /\ t \in zone[d][h] /\ h \in Nat /\ g <= h /\ Single(zone, d, g)
        /\ \A x \in g .. h : Covers(p, x)
  BY SurelyIs
<1>3. PICK g \in Nat : /\ t \in zone[d][h] /\ h \in Nat /\ g <= h /\ Single(zone, d, g)
                       /\ \A x \in g .. h : Covers(p, x)
  BY <1>2
<1> HIDE DEF p, zone
<1>4. h \in g .. h  BY <1>3
<1>5. PICK j \in DOMAIN p : In(h, p[j])  BY <1>3, <1>4 DEF Covers
<1>6. p[j].start <= g  BY <1>1, <1>3, <1>5, OneInterval
<1>7. g <= p[j].end /\ h < p[j].end  BY <1>1, <1>3, <1>5 DEF In
<1>8. PICK k \in DOMAIN l : EventOf(zone, d, p[j], l[k]) /\ l[k].start <= Instant(zone, d, g)
  BY <1>3, <1>6, <1>7 DEF EventsRight, zone, p
<1>9. /\ t \in Int /\ Instant(zone, d, g) \in Int /\ ~(t < Instant(zone, d, g))
  <2>1. Instant(zone, d, g) \in Instants(zone, d) /\ Instant(zone, d, g) \in Int
        /\ \A x \in DOMAIN zone[d] : \A u \in zone[d][x] : u < Instant(zone, d, g) <=> x < g
    BY <1>0, <1>3, SingleIs DEF zone
  <2>2. t \in Int  BY <1>0, InstantsAre DEF zone
  <2>3. ~(h < g)  BY <1>3
  <2> QED  BY <1>3, <2>1, <2>2, <2>3
<1>10. t < l[k].end
  <2>1. Single(zone, d, p[j].end) /\ l[k].end = Instant(zone, d, p[j].end)  BY <1>8 DEF EventOf
  <2>2. \A x \in DOMAIN zone[d] : \A u \in zone[d][x] : u < l[k].end <=> x < p[j].end
    BY <1>0, <1>1, <2>1, SingleIs DEF zone
  <2> QED  BY <1>3, <1>7, <2>2
<1>11. l[k].start \in Int  BY <1>8, Bounds DEF EventOf
<1>12. l[k].start <= t  BY <1>8, <1>9, <1>11
<1> QED  BY <1>10, <1>12 DEF In

\* The instant an event ends with is not offered: what follows is not promised.
LEMMA EndIsNotOffered ==
  ASSUME NEW s, IsSchedule(s), NEW d \in DOMAIN s.zone, NEW j \in DOMAIN IntervalsOf(s.rules, d),
         NEW e, EventOf(s.zone, d, IntervalsOf(s.rules, d)[j], e), OfferedSurely(s, e.end)
  PROVE  FALSE
<1> DEFINE zone == s.zone
           p == IntervalsOf(s.rules, d)
           n == p[j].end
           t == e.end
<1>0. IsTimeZone(zone)  BY DEF IsSchedule
<1>1. Sound(p) /\ n \in Nat  BY DayRules
<1>2. Single(zone, d, n) /\ t = Instant(zone, d, n)  BY DEF EventOf
<1>3. /\ t \in zone[d][n] /\ n \in DOMAIN zone[d] /\ t \in Int /\ t \in Instants(zone, d)
      /\ \A x \in DOMAIN zone[d] : \A u \in zone[d][x] : u < t <=> x < n
  BY <1>0, <1>1, <1>2, SingleIs
<1>4. PICK h \in DOMAIN zone[d] : \E g \in Nat :
        /\ t \in zone[d][h] /\ h \in Nat /\ g <= h /\ Single(zone, d, g)
        /\ \A x \in g .. h : Covers(p, x)
  BY <1>3, SurelyIs
<1>5. PICK g \in Nat : /\ t \in zone[d][h] /\ h \in Nat /\ g <= h /\ Single(zone, d, g)
                       /\ \A x \in g .. h : Covers(p, x)
  BY <1>4
<1>6. n <= h
  <2>1. ~(t < t)  BY <1>3
  <2>2. ~(h < n)  BY <1>3, <1>5, <2>1
  <2> HIDE DEF n
  <2> QED  BY <1>1, <1>5, <2>2
<1>7. CASE g <= n
  <2>1. n \in g .. h  BY <1>1, <1>5, <1>6, <1>7
  <2>2. PICK i \in DOMAIN p : In(n, p[i])  BY <1>5, <2>1 DEF Covers
  <2> QED  BY <1>1, <2>2, NotTheEnd
<1>8. CASE n < g
  <2>1. \A x \in DOMAIN zone[d] : \A u \in zone[d][x] : u < Instant(zone, d, g) <=> x < g
    BY <1>0, <1>5, SingleIs
  <2>2. t < Instant(zone, d, g)  BY <1>3, <1>8, <2>1
  <2>3. ~(h < g)  BY <1>5
  <2>4. ~(t < Instant(zone, d, g))
    <3> HIDE DEF t
    <3> QED  BY <1>5, <2>1, <2>3
  <2> QED  BY <2>2, <2>4
<1>9. g <= n \/ n < g
  <2> HIDE DEF n
  <2> QED  BY <1>1, <1>5
<1> QED  BY <1>7, <1>8, <1>9

\* Times that are surely offered one after the other are in one event.
LEMMA OneEvent ==
  ASSUME NEW s, IsSchedule(s), NEW d \in DOMAIN s.zone, NEW j \in DOMAIN IntervalsOf(s.rules, d),
         NEW e, EventOf(s.zone, d, IntervalsOf(s.rules, d)[j], e),
         NEW a \in Instance, In(a.start, e), \A t \in a.start .. a.end - 1 : OfferedSurely(s, t)
  PROVE  a.end <= e.end
<1>1. a.start \in Int /\ a.end \in Int  BY Bounds
<1>2. e.start \in Int /\ e.end \in Int  BY Bounds DEF EventOf
<1>3. a.start < e.end  BY DEF In
<1> SUFFICES ASSUME e.end < a.end PROVE FALSE  BY <1>1, <1>2
<1>4. e.end \in a.start .. a.end - 1  BY <1>1, <1>2, <1>3
<1>5. OfferedSurely(s, e.end)  BY <1>4
<1> QED  BY <1>5, EndIsNotOffered

\* The days from one to another, counted from the first
LEMMA DaysInTurn ==
  ASSUME NEW c \in Int, NEW d \in Int
  PROVE  LET days == c .. d
             N == Cardinality(days)
         IN  /\ N \in Nat
             /\ \A i \in 1 .. N : Min(days) + i - 1 \in days /\ Min(days) + i - 1 \in Int
             /\ \A i, k \in 1 .. N : i < k => Min(days) + i - 1 < Min(days) + k - 1
             /\ \A x \in days : \E n \in 1 .. N : x = Min(days) + n - 1
<1> DEFINE days == c .. d
           N == Cardinality(days)
<1>1. IsFiniteSet(days) /\ N = IF c > d THEN 0 ELSE d - c + 1  BY FS_Interval
<1>2. CASE c > d
  <2>1. days = {} /\ N = 0 /\ 1 .. 0 = {}  BY <1>1, <1>2
  <2> QED  BY <2>1
<1>3. CASE c <= d
  <2>1. N = d - c + 1 /\ N \in Nat  BY <1>1, <1>3
  <2>2. Min(days) = c
    <3>1. c \in days /\ days \subseteq Int /\ days # {}  BY <1>3
    <3> HIDE DEF days
    <3>2. Min(days) \in days /\ \A x \in days : Min(days) <= x  BY <1>1, <3>1, FirstOf
    <3>3. Min(days) >= c /\ Min(days) <= c /\ Min(days) \in Int  BY <3>1, <3>2 DEF days
    <3> QED  BY <3>3
  <2>3. ASSUME NEW x \in days PROVE \E n \in 1 .. N : x = Min(days) + n - 1
    <3>1. x - c + 1 \in 1 .. N /\ x = c + (x - c + 1) - 1  BY <2>1
    <3> HIDE DEF N, days
    <3> QED  BY <2>2, <3>1
  <2>4. ASSUME NEW i \in 1 .. N PROVE Min(days) + i - 1 \in days /\ Min(days) + i - 1 \in Int
    BY <2>1, <2>2
  <2>5. ASSUME NEW i \in 1 .. N, NEW k \in 1 .. N, i < k
        PROVE  Min(days) + i - 1 < Min(days) + k - 1
    BY <2>1, <2>2, <2>5
  <2> HIDE DEF N, days
  <2> QED  BY <2>1, <2>3, <2>4, <2>5 DEF N, days
<1> QED  BY <1>2, <1>3

\* An event begins and ends on its day.
LEMMA EventDay ==
  ASSUME NEW zone, IsTimeZone(zone), NEW d \in DOMAIN zone, NEW v, v.end \in Nat,
         NEW e, EventOf(zone, d, v, e)
  PROVE  e.start \in Instants(zone, d) /\ e.end \in Instants(zone, d)
<1>1. PICK f \in Nat : Single(zone, d, f) /\ e.start = Instant(zone, d, f)  BY DEF EventOf
<1>2. Single(zone, d, v.end) /\ e.end = Instant(zone, d, v.end)  BY DEF EventOf
<1> QED  BY <1>1, <1>2, SingleIs

\* The day in which the count of the days of a window begins, and how many there are
FirstDay(s, w) == Min(DaysOf(s, w))
DayCount(s, w) == Cardinality(DaysOf(s, w))
OnDay(s, w, n) == FirstDay(s, w) + n - 1

\* What FreeIn puts one behind the other
DayEvents(s, w) == [n \in 1 .. DayCount(s, w) |-> EventsOn(s, OnDay(s, w, n))]

\* The days of a window
DaysRight(s, w) ==
  /\ DayCount(s, w) \in Nat
  /\ \A n \in 1 .. DayCount(s, w) :
       /\ OnDay(s, w, n) \in DOMAIN s.zone
       /\ EventsRight(DayEvents(s, w)[n], s.zone, OnDay(s, w, n), IntervalsOf(s.rules, OnDay(s, w, n)))
  /\ \A i, k \in 1 .. DayCount(s, w) : i < k => OnDay(s, w, i) < OnDay(s, w, k)
  /\ \A t \in Int : w.start <= t /\ t <= w.end =>
       \E n \in 1 .. DayCount(s, w) : t \in Instants(s.zone, OnDay(s, w, n))

\* The days of a window, when the lookups of their midnights and hours come to an end.
LEMMA DaysAre ==
  ASSUME NEW s, IsSchedule(s), NEW w \in Instance, HasDay(s.zone, w.start), HasDay(s.zone, w.end),
         ~NoMidnight(s, w), ~LoopsForEver(s, w)
  PROVE  DaysRight(s, w)
<1> DEFINE zone == s.zone
           days == DaysOf(s, w)
           N == DayCount(s, w)
           day(n) == OnDay(s, w, n)
<1>1. IsTimeZone(zone)  BY DEF IsSchedule
<1>2. PICK c \in DOMAIN zone : w.start \in Instants(zone, c)  BY DEF HasDay
<1>3. PICK d \in DOMAIN zone : w.end \in Instants(zone, d)  BY DEF HasDay
<1>4. days = c .. d /\ c \in Int /\ d \in Int /\ days \subseteq DOMAIN zone
  <2>1. DayOf(zone, w.start) = c /\ DayOf(zone, w.end) = d  BY <1>1, <1>2, <1>3, DayIs
  <2> QED  BY <1>1, <2>1 DEF DaysOf, IsTimeZone
<1>5. /\ N \in Nat
      /\ \A i \in 1 .. N : day(i) \in days /\ day(i) \in Int
      /\ \A i, k \in 1 .. N : i < k => day(i) < day(k)
      /\ \A x \in days : \E n \in 1 .. N : x = day(n)
  <2> HIDE DEF days
  <2>1. N = Cardinality(c .. d) /\ \A n : day(n) = Min(c .. d) + n - 1
    BY <1>4 DEF DayCount, OnDay, FirstDay, days
  <2> HIDE DEF N, day
  <2> QED  BY <1>4, <2>1, DaysInTurn
<1> HIDE DEF days, N, day
<1>6. ASSUME NEW n \in 1 .. N
      PROVE  /\ day(n) \in DOMAIN zone
             /\ EventsRight(DayEvents(s, w)[n], zone, day(n), IntervalsOf(s.rules, day(n)))
  <2> DEFINE p == IntervalsOf(s.rules, day(n))
  <2>1. day(n) \in days /\ day(n) \in DOMAIN zone  BY <1>4, <1>5
  <2>2. DayEvents(s, w)[n] = EventsOn(s, day(n))  BY DEF DayEvents, N, day
  <2>3. Sound(p) /\ \A j \in DOMAIN p : p[j].start \in Nat  BY <2>1, DayRules
  <2>4. Usable(zone, day(n), p)
    <3>1. p # << >> => Single(zone, day(n), 0)  BY <2>1 DEF NoMidnight, days
    <3>2. ASSUME NEW j \in DOMAIN p PROVE ~NeverEnds(zone, day(n), p[j])
      <4>1. p[j] \in Range(p)  BY DEF Range
      <4> QED  BY <2>1, <4>1 DEF LoopsForEver, days
    <3> QED  BY <3>1, <3>2 DEF Usable
  <2> QED  BY <1>1, <2>1, <2>2, <2>3, <2>4, EventsOnAre
<1>7. ASSUME NEW t \in Int, w.start <= t, t <= w.end
      PROVE  \E n \in 1 .. N : t \in Instants(zone, day(n))
  <2>1. w.start \in Int /\ w.end \in Int  BY Bounds
  <2>2. t \in w.start .. w.end  BY <1>7, <2>1
  <2>3. HasDay(zone, t)  BY <1>1, <1>2, <1>3, <2>2, InstantsAre
  <2>4. PICK x \in DOMAIN zone : t \in Instants(zone, x)  BY <2>3 DEF HasDay
  <2>5. x < c => t < w.start  BY <1>1, <1>2, <2>4, InstantsAre
  <2>6. d < x => w.end < t  BY <1>1, <1>3, <2>4, InstantsAre
  <2>7. x \in Int  BY <1>1, <2>4, InstantsAre
  <2>8. x \in days  BY <1>4, <1>7, <2>1, <2>5, <2>6, <2>7
  <2> QED  BY <1>5, <2>4, <2>8
<1> QED  BY <1>5, <1>6, <1>7 DEF DaysRight, N, day

\* The events of the days of a window, one behind the other
LEMMA DaysSucceed ==
  ASSUME NEW s, IsSchedule(s), NEW w \in Instance, DaysRight(s, w)
  PROVE  /\ DayEvents(s, w) \in Seq(Seq(Instance)) /\ InSuccession(DayEvents(s, w))
         /\ DOMAIN DayEvents(s, w) = 1 .. DayCount(s, w)
         /\ Len(DayEvents(s, w)) = DayCount(s, w)
<1> DEFINE N == DayCount(s, w)
           day(n) == OnDay(s, w, n)
           seqs == DayEvents(s, w)
           zone == s.zone
<1>0. IsTimeZone(zone)  BY DEF IsSchedule
<1>1. DOMAIN seqs = 1 .. N /\ N \in Nat  BY DEF DayEvents, DaysRight
<1>2. seqs = [n \in 1 .. N |-> seqs[n]]  BY DEF DayEvents
<1>3. ASSUME NEW n \in 1 .. N
      PROVE  /\ day(n) \in DOMAIN zone
             /\ EventsRight(seqs[n], zone, day(n), IntervalsOf(s.rules, day(n)))
  BY DEF DaysRight
<1>4. \A i, k \in 1 .. N : i < k => day(i) < day(k)  BY DEF DaysRight
<1> HIDE DEF N, day, seqs, zone
<1>5. ASSUME NEW n \in 1 .. N PROVE seqs[n] \in Seq(Instance)  BY <1>3 DEF EventsRight
<1>6. seqs \in Seq(Seq(Instance)) /\ Len(seqs) = N  BY <1>1, <1>2, <1>5
<1>7. ASSUME NEW n \in 1 .. N, NEW k \in DOMAIN seqs[n]
      PROVE  seqs[n][k].start \in Instants(zone, day(n)) /\ seqs[n][k].end \in Instants(zone, day(n))
  <2> DEFINE p == IntervalsOf(s.rules, day(n))
  <2>1. PICK j \in DOMAIN p : EventOf(zone, day(n), p[j], seqs[n][k])
    BY <1>3 DEF EventsRight
  <2>2. p[j].end \in Nat  BY <1>3, DayRules DEF zone
  <2> QED  BY <1>0, <1>3, <2>1, <2>2, EventDay
<1>8. InSuccession(seqs)
  <2>1. ASSUME NEW n \in DOMAIN seqs PROVE Ordered(seqs[n]) /\ Proper(seqs[n])
    BY <1>1, <1>3 DEF EventsRight
  <2>2. ASSUME NEW j \in DOMAIN seqs, NEW k \in DOMAIN seqs, j < k,
               NEW i \in DOMAIN seqs[j], NEW m \in DOMAIN seqs[k]
        PROVE  seqs[j][i].end <= seqs[k][m].start
    <3>1. /\ seqs[j][i].end \in Instants(zone, day(j)) /\ seqs[k][m].start \in Instants(zone, day(k))
          /\ day(j) < day(k) /\ day(j) \in DOMAIN zone /\ day(k) \in DOMAIN zone
      BY <1>1, <1>3, <1>4, <1>7, <2>2
    <3>2. /\ seqs[j][i].end < seqs[k][m].start
          /\ seqs[j][i].end \in Int /\ seqs[k][m].start \in Int
      BY <1>0, <3>1, InstantsAre
    <3> QED  BY <3>2
  <2> QED  BY <2>1, <2>2 DEF InSuccession
<1> QED  BY <1>1, <1>6, <1>8 DEF N, seqs

\* Schedule::freebusy, in a window whose ends have a day: what it yields lies in the
\* window, holds no moment that the rules of the client do not promise, and holds all of
\* a time every moment of which they surely promise, whatever hours are skipped or
\* repeated.
THEOREM ScheduleIsKept ==
  ASSUME NEW s, IsSchedule(s), NEW w \in Instance, HasDay(s.zone, w.start), HasDay(s.zone, w.end),
         ~NoMidnight(s, w), ~LoopsForEver(s, w)
  PROVE  LET free == FreeIn(s, w) IN
         /\ free \in Seq(Instance) /\ Proper(free)
         /\ \A k \in DOMAIN free : w.start <= free[k].start /\ free[k].end <= w.end
         /\ \A k \in DOMAIN free : \A m \in Int : In(m, free[k]) => Offered(s, m)
         /\ \A a \in Instance :
              a.start < a.end /\ Inside(a, w) /\ (\A t \in a.start .. a.end - 1 : OfferedSurely(s, t))
                => Holds(free, a)
<1> DEFINE zone == s.zone
           N == DayCount(s, w)
           day(n) == OnDay(s, w, n)
           seqs == DayEvents(s, w)
           l == FlattenSeq(seqs)
           e == Extend(<< >>, l)
           free == FreeIn(s, w)
<1>0. IsTimeZone(zone)  BY DEF IsSchedule
<1>1. free = Within(e, w)
  BY DEF FreeIn, DayEvents, DayCount, OnDay, FirstDay
<1>2. DaysRight(s, w)  BY DaysAre
<1>3. /\ seqs \in Seq(Seq(Instance)) /\ InSuccession(seqs)
      /\ DOMAIN seqs = 1 .. N /\ Len(seqs) = N
  BY <1>2, DaysSucceed
<1>4. ASSUME NEW n \in 1 .. N
      PROVE  /\ day(n) \in DOMAIN zone
             /\ EventsRight(seqs[n], zone, day(n), IntervalsOf(s.rules, day(n)))
  BY <1>2 DEF DaysRight
<1>5. \A t \in Int : w.start <= t /\ t <= w.end => \E n \in 1 .. N : t \in Instants(zone, day(n))
  BY <1>2 DEF DaysRight
<1> HIDE DEF zone, N, day, seqs
<1>6. l \in Seq(Instance) /\ FromParts(l, seqs, N)  BY <1>3, FlattenElements
<1>7. Ordered(l) /\ Proper(l)  BY <1>3, FlattenOrders
<1> HIDE DEF l
<1>8. /\ e \in Seq(Instance) /\ Ordered(e) /\ Proper(e)
      /\ \A i \in DOMAIN e : \E m \in DOMAIN l : e[i] = l[m]
  BY <1>6, <1>7, ExtendOrders
<1>9. \A i \in DOMAIN l : i \in DOMAIN e /\ e[i] = l[i]  BY <1>6, <1>7, ExtendKeepsAll
<1> HIDE DEF e, free
<1>10. CutTo(free, e, w.start, w.end)  BY <1>1, <1>8, WithinIs
<1>11. w.start \in Int /\ w.end \in Int  BY Bounds
<1>12. ASSUME NEW k \in DOMAIN free, NEW m \in Int, In(m, free[k]) PROVE Offered(s, m)
  <2>1. PICK i \in DOMAIN e : e[i].start <= free[k].start /\ free[k].end <= e[i].end
    BY <1>10 DEF CutTo
  <2>2. In(m, e[i])
    <3>1. e[i] \in Instance /\ free[k] \in Instance  BY <1>8, <1>10 DEF CutTo
    <3>2. e[i].start \in Int /\ e[i].end \in Int /\ free[k].start \in Int /\ free[k].end \in Int
      BY <3>1, Bounds
    <3> QED  BY <1>12, <2>1, <3>2 DEF In
  <2>3. PICK x \in DOMAIN l : e[i] = l[x]  BY <1>8
  <2>4. PICK n \in 1 .. N : \E y \in DOMAIN seqs[n] : l[x] = seqs[n][y]  BY <1>6 DEF FromParts
  <2>5. PICK y \in DOMAIN seqs[n] : e[i] = seqs[n][y]  BY <2>3, <2>4
  <2> DEFINE d == day(n)
             p == IntervalsOf(s.rules, d)
  <2>6. d \in DOMAIN zone /\ EventsRight(seqs[n], zone, d, p)  BY <1>4
  <2> HIDE DEF d
  <2>7. \A j \in DOMAIN p : p[j] \in Instance /\ p[j].start \in Nat /\ p[j].end \in Nat
    BY <2>6, DayRules DEF zone
  <2> HIDE DEF p
  <2>8. PICK j \in DOMAIN p : EventOf(zone, d, p[j], e[i])  BY <2>5, <2>6 DEF EventsRight
  <2>9. /\ DayOf(zone, m) = d
        /\ \E h \in DOMAIN zone[d] : m \in zone[d][h] /\ p[j].start <= h /\ h < p[j].end
    BY <1>0, <2>2, <2>6, <2>7, <2>8, InEvent
  <2>10. PICK h \in DOMAIN zone[d] : m \in zone[d][h] /\ p[j].start <= h /\ h < p[j].end
    BY <2>9
  <2>11. Covers(p, h)  BY <2>10 DEF Covers, In
  <2>12. d \in Int /\ h \in Int
    <3>1. DOMAIN zone[d] = 0 .. Hours - 1 /\ d \in Int  BY <1>0, <2>6 DEF IsTimeZone
    <3> QED  BY <3>1, LimitsAssumption
  <2>13. Promised(s, d, h)  BY <2>11, <2>12, PromisedIs DEF p
  <2> QED  BY <2>9, <2>10, <2>13 DEF Offered, zone
<1>13. ASSUME NEW a \in Instance, a.start < a.end, Inside(a, w),
              \A t \in a.start .. a.end - 1 : OfferedSurely(s, t)
       PROVE  Holds(free, a)
  <2>1. a.start \in Int /\ a.end \in Int /\ w.start <= a.start /\ a.end <= w.end
    BY <1>13, Bounds DEF Inside
  <2>2. OfferedSurely(s, a.start)
    <3>1. a.start \in a.start .. a.end - 1  BY <1>13, <2>1
    <3> QED  BY <1>13, <3>1
  <2>3. PICK n \in 1 .. N : a.start \in Instants(zone, day(n))  BY <1>5, <1>11, <1>13, <2>1
  <2> DEFINE d == day(n)
             p == IntervalsOf(s.rules, d)
  <2>4. d \in DOMAIN zone /\ EventsRight(seqs[n], zone, d, p)  BY <1>4
  <2> HIDE DEF d
  <2>5. PICK y \in DOMAIN seqs[n] : In(a.start, seqs[n][y])
    BY <2>2, <2>3, <2>4, OfferedIsIn DEF zone, d
  <2>6. PICK j \in DOMAIN p : EventOf(zone, d, p[j], seqs[n][y])  BY <2>4 DEF EventsRight
  <2>7. a.end <= seqs[n][y].end  BY <1>13, <2>4, <2>5, <2>6, OneEvent DEF zone
  <2>8. seqs[n][y].start <= a.start  BY <2>5 DEF In
  <2>9. PICK i \in DOMAIN l : l[i] = seqs[n][y]  BY <1>6 DEF FromParts
  <2>10. Holds(e, a)  BY <1>9, <2>7, <2>8, <2>9 DEF Holds
  <2> QED  BY <1>10, <1>13, <2>1, <2>10 DEF CutTo
<1>14. free \in Seq(Instance) /\ Proper(free)
       /\ \A k \in DOMAIN free : w.start <= free[k].start /\ free[k].end <= w.end
  BY <1>10 DEF CutTo
<1> QED  BY <1>12, <1>13, <1>14 DEF free

\* The window of a host who is available by a schedule has days.
LEMMA WindowHasDays ==
  ASSUME NEW h \in Host, Plan(h).kind = "schedule", NEW a, NEW now \in 0 .. MaxTime,
         AskedRight(a, now), NEW w \in Instance, w # None, w = Window(h, a, now)
  PROVE  HasDay(Plan(h).zone, w.start) /\ HasDay(Plan(h).zone, w.end)
<1> DEFINE c == Resource[h].closest
           from == Earlier(a.start, a.end)
           to == Later(a.end, Later(a.start, MaxTime + c))
<1>1. a.start \in Int /\ a.end \in Int  BY DEF AskedRight
<1>2. now \in Int /\ MaxTime \in Int /\ now <= MaxTime /\ c \in Int
  BY BoundsAssumption, HostAssumption
<1>3. /\ w.start = Later(a.start, now + c) /\ w.end <= a.end
      /\ w.end = a.end \/ w.start < w.end
  BY <1>1, <1>2, WindowIs
<1>4. w.start \in Int /\ w.end \in Int  BY Bounds
<1>5. from \in Int /\ to \in Int /\ from <= a.start /\ from <= a.end
      /\ to >= a.end /\ to >= a.start /\ to >= MaxTime + c
  BY <1>1, <1>2 DEF Earlier, Later
<1>6. w.start >= a.start /\ (w.start = a.start \/ w.start = now + c)
  BY <1>1, <1>2, <1>3 DEF Later
<1> HIDE DEF c, from, to
<1>7. w.start \in from .. to
  <2>1. now + c <= MaxTime + c  BY <1>2
  <2>2. w.start <= to
    <3>1. CASE w.start = a.start  BY <1>5, <3>1
    <3>2. CASE w.start = now + c  BY <1>2, <1>5, <2>1, <3>2
    <3> QED  BY <1>6, <3>1, <3>2
  <2> QED  BY <1>1, <1>4, <1>5, <1>6, <2>2
<1>8. w.end \in from .. to  BY <1>1, <1>3, <1>4, <1>5, <1>6
<1>9. \A t \in from .. to : HasDay(Plan(h).zone, t)
  BY ScheduleAssumption DEF AskedRight, from, to, c
<1> QED  BY <1>7, <1>8, <1>9

\* A read of the availability keeps the invariant.
LEMMA AvailabilityKeeps ==
  ASSUME Inv, NEW i \in DOMAIN reader, ReadAvailability(i)
  PROVE  Inv'
<1> DEFINE r == reader[i]
           h == reader[i].host
           w == reader[i].window
           open(busy) == UNION {Expand(e, r.window) :
                                  e \in InCalendar(r.host, Plan(r.host).calendar, busy, r.window)}
           panics ==
             CASE Plan(r.host).kind = "calendar" ->
                    ~SplitsInTwo(Compatible(open(FALSE)), Compatible(open(TRUE)))
               [] Plan(r.host).kind = "schedule" -> NoMidnight(Plan(r.host), r.window)
               [] OTHER -> FALSE
           free == CASE Plan(r.host).kind = "calendar" -> FreeOf(open(FALSE), open(TRUE))
                     [] Plan(r.host).kind = "schedule" -> FreeIn(Plan(r.host), r.window)
                     [] OTHER -> << >>
           r2 == [r EXCEPT !.free = free, !.stage = "services"]
<1>0. Reads(i, "open")  BY DEF ReadAvailability
<1>1. /\ Good(r, asked, clock, steady, seen) /\ r.stage = "open"
      /\ r \in Readers /\ h \in Host /\ w \in Instance /\ w # None
      /\ answer = None /\ asked # None
      /\ steady \subseteq store /\ store \subseteq seen /\ seen \subseteq Event
      /\ store \subseteq Event /\ AskedRight(asked, clock)
      /\ budget \in 0 .. MaxDisturbances
  BY <1>0, WhileRead, Zenon
<1>2. UNCHANGED <<store, clock, budget, asked, steady, seen>>  BY DEF ReadAvailability
<1>3. CASE panics
  <2>1. answer' = [kind |-> "panic"] /\ reader' = reader  BY <1>3 DEF ReadAvailability
  <2> QED  BY <1>1, <1>2, <2>1, StopKeeps
<1>4. CASE ~panics
  <2>1. /\ reader' = [reader EXCEPT ![i].free = free, ![i].stage = "services"]
        /\ answer' = answer
        /\ Plan(h).kind = "schedule" => ~LoopsForEver(Plan(h), w)
    BY <1>4 DEF ReadAvailability
  <2>2. reader' = [reader EXCEPT ![i] = r2]
    <3>1. reader \in Seq(Readers)  BY DEF Inv, ReadersGood, AllGood
    <3> HIDE DEF free
    <3> QED  BY <1>1, <2>1, <3>1 DEF Readers
  <2>3. CASE Plan(h).kind = "calendar"
    <3> DEFINE F == open(FALSE)
               B == open(TRUE)
    <3>1. free = FreeOf(F, B) /\ SplitsInTwo(Compatible(F), Compatible(B))
      <4> HIDE DEF open
      <4> QED  BY <1>4, <2>3
    <3>2. Occurrences(F, store, h, Plan(h).calendar, FALSE, w)
      <4>1. F = UNION {Expand(e, w) : e \in InCalendar(h, Plan(h).calendar, FALSE, w)}  OBVIOUS
      <4> HIDE DEF F, B, h, w, r, r2, free, panics, open
      <4> QED  BY <1>1, <4>1, OpenIs, Zenon
    <3>3. Occurrences(B, store, h, Plan(h).calendar, TRUE, w)
      <4>1. B = UNION {Expand(e, w) : e \in InCalendar(h, Plan(h).calendar, TRUE, w)}  OBVIOUS
      <4> HIDE DEF F, B, h, w, r, r2, free, panics, open
      <4> QED  BY <1>1, <4>1, OpenIs, Zenon
    <3> HIDE DEF F, B, free
    <3>4. r2 = [r EXCEPT !.free = FreeOf(F, B), !.stage = "services"]  BY <3>1
    <3> HIDE DEF r2
    <3>5. Good(r2, asked, clock, steady, seen)
      BY <1>1, <2>3, <3>1, <3>2, <3>3, <3>4, CalendarStep
    <3> QED  BY <1>1, <1>2, <2>1, <2>2, <3>5, ReadKeeps
  <2>4. CASE Plan(h).kind = "schedule"
    <3> DEFINE s == Plan(h)
    <3>1. free = FreeIn(s, w) /\ ~NoMidnight(s, w) /\ ~LoopsForEver(s, w)
      <4> HIDE DEF open
      <4> QED  BY <1>4, <2>1, <2>4
    <3>2. HasDay(s.zone, w.start) /\ HasDay(s.zone, w.end)
      <4>1. w = Window(h, asked, clock)  BY <1>1 DEF Good, Typed
      <4>2. clock \in 0 .. MaxTime  BY DEF Inv, Consistent
      <4> QED  BY <1>1, <2>4, <4>1, <4>2, WindowHasDays
    <3>3. IsSchedule(s)  BY <1>1, <2>4, ScheduleAssumption
    <3> HIDE DEF s
    <3>4. /\ free \in Seq(Instance) /\ Proper(free)
          /\ \A k \in DOMAIN free : w.start <= free[k].start /\ free[k].end <= w.end
          /\ \A k \in DOMAIN free : \A m \in Int : In(m, free[k]) => Offered(s, m)
          /\ \A a \in Instance :
               a.start < a.end /\ Inside(a, w) /\ (\A t \in a.start .. a.end - 1 : OfferedSurely(s, t))
                 => Holds(free, a)
      <4> HIDE DEF free, w
      <4> QED  BY <1>1, <3>1, <3>2, <3>3, ScheduleIsKept
    <3> HIDE DEF free
    <3>5. r2.free = free /\ r2.host = h /\ r2.window = w /\ r2.lost = r.lost
      BY <1>1 DEF Readers
    <3>6. r2 = [r EXCEPT !.free = free, !.stage = "services"]  OBVIOUS
    <3> HIDE DEF r2
    <3>7. OffersOnly(r2, seen)  BY <2>4, <3>4, <3>5 DEF OffersOnly, OfferedBy, s
    <3>8. KeepsWindow(r2)  BY <3>4, <3>5 DEF KeepsWindow
    <3>9. FreeKept(r2, steady, seen)
      <4> SUFFICES ASSUME NEW a \in Instance, a.start < a.end, FreeFor(r2, a, steady, seen)
                   PROVE  Holds(r2.free, a)
        BY DEF FreeKept
      <4>1. Inside(a, w) /\ OfferedFor(r2, a, steady)  BY <3>5 DEF FreeFor
      <4>2. \A t \in a.start .. a.end - 1 : OfferedSurely(s, t)
        BY <2>4, <3>5, <4>1 DEF OfferedFor, s
      <4> QED  BY <3>4, <3>5, <4>1, <4>2
    <3>10. Good(r2, asked, clock, steady, seen)
      <4>1. steady \subseteq Event  BY <1>1
      <4> QED  BY <1>1, <2>4, <3>4, <3>6, <3>7, <3>8, <3>9, <4>1, OpenStep
    <3> QED  BY <1>1, <1>2, <2>1, <2>2, <3>10, ReadKeeps
  <2>5. CASE Plan(h).kind \notin {"calendar", "schedule"}
    <3>1. free = << >>
      <4> HIDE DEF open
      <4> QED  BY <2>5
    <3> HIDE DEF free
    <3>2. r2 = [r EXCEPT !.free = << >>, !.stage = "services"]  BY <3>1
    <3> HIDE DEF r2
    <3>3. Good(r2, asked, clock, steady, seen)
      <4>1. steady \subseteq Event  BY <1>1
      <4> QED  BY <1>1, <2>5, <3>2, <4>1, NoPlanStep
    <3> QED  BY <1>1, <1>2, <2>1, <2>2, <3>3, ReadKeeps
  <2> QED  BY <2>3, <2>4, <2>5
<1> QED  BY <1>3, <1>4

\* The reads of what keeps a host busy keep the invariant.
LEMMA ServiceEventsKeep ==
  ASSUME Inv, NEW i \in DOMAIN reader, ReadServiceEvents(i)
  PROVE  Inv'
<1> DEFINE r == reader[i]
           h == reader[i].host
           w == reader[i].window
           others == {e \in store : /\ e.host = r.host /\ ~e.busy
                                    /\ e.service \notin {None, This}
                                    /\ Touches(e, r.window)}
           stays == {At(e, Min(e.starts)) : e \in others}
           r2 == [r EXCEPT !.busy = stays, !.left = Resource[r.host].busyCalendars,
                           !.outside = Resource[r.host].outside, !.stage = "calendars"]
<1>0. Reads(i, "services")  BY DEF ReadServiceEvents
<1>1. /\ Good(r, asked, clock, steady, seen) /\ r.stage = "services"
      /\ r \in Readers /\ h \in Host /\ w \in Instance /\ w # None
      /\ answer = None /\ asked # None
      /\ steady \subseteq store /\ store \subseteq seen /\ seen \subseteq Event
      /\ store \subseteq Event /\ AskedRight(asked, clock)
      /\ budget \in 0 .. MaxDisturbances
  BY <1>0, WhileRead, Zenon
<1>2. UNCHANGED <<store, clock, budget, asked, answer, steady, seen>>  BY DEF ReadServiceEvents
<1>3. reader' = [reader EXCEPT ![i].busy = stays,
                               ![i].left = Resource[r.host].busyCalendars,
                               ![i].outside = Resource[r.host].outside,
                               ![i].stage = "calendars"]
  BY DEF ReadServiceEvents
<1>4. reader' = [reader EXCEPT ![i] = r2]
  <2>1. reader \in Seq(Readers)  BY DEF Inv, ReadersGood, AllGood
  <2> HIDE DEF stays
  <2> QED  BY <1>1, <1>3, <2>1 DEF Readers
<1>5. ServiceOccurrences(stays, store, h, w)
  <2>1. stays = {At(e, Min(e.starts)) : e \in {f \in store : /\ f.host = h /\ ~f.busy
                                                             /\ f.service \notin {None, This}
                                                             /\ Touches(f, w)}}
    OBVIOUS
  <2> HIDE DEF stays, others, h, w, r, r2
  <2> QED  BY <1>1, <2>1, ServicesAre, Zenon
<1> HIDE DEF stays
<1>6. r2 = [r EXCEPT !.busy = stays, !.left = Resource[r.host].busyCalendars,
                     !.outside = Resource[r.host].outside, !.stage = "calendars"]
  OBVIOUS
<1> HIDE DEF r2
<1>7. Good(r2, asked, clock, steady, seen)  BY <1>1, <1>5, <1>6, ServicesStep
<1> QED  BY <1>1, <1>2, <1>4, <1>7, ReadKeeps

\* A read of a busy calendar keeps the invariant.
LEMMA BusyCalendarKeeps ==
  ASSUME Inv, NEW i \in DOMAIN reader, NEW c, ReadBusyCalendar(i, c)
  PROVE  Inv'
<1> DEFINE r == reader[i]
           h == reader[i].host
           w == reader[i].window
           found == UNION {{Buffered(e, a) : a \in Expand(e, r.window)} :
                             e \in InCalendar(r.host, c, TRUE, r.window)}
           r2 == [r EXCEPT !.busy = r.busy \cup found, !.left = r.left \ {c}]
<1>0. Reads(i, "calendars") /\ c \in r.left  BY DEF ReadBusyCalendar
<1>1. /\ Good(r, asked, clock, steady, seen) /\ r.stage = "calendars"
      /\ r \in Readers /\ h \in Host /\ w \in Instance /\ w # None
      /\ answer = None /\ asked # None
      /\ steady \subseteq store /\ store \subseteq seen /\ seen \subseteq Event
      /\ store \subseteq Event /\ AskedRight(asked, clock)
      /\ budget \in 0 .. MaxDisturbances
  BY <1>0, WhileRead, Zenon
<1>2. UNCHANGED <<store, clock, budget, asked, answer, steady, seen>>  BY DEF ReadBusyCalendar
<1>3. reader' = [reader EXCEPT ![i].busy = @ \cup found, ![i].left = @ \ {c}]
  BY DEF ReadBusyCalendar
<1>4. reader' = [reader EXCEPT ![i] = r2]
  <2>1. reader \in Seq(Readers)  BY DEF Inv, ReadersGood, AllGood
  <2> HIDE DEF found
  <2> QED  BY <1>1, <1>3, <2>1 DEF Readers
<1>5. BufferedOccurrences(found, store, h, c, w)
  <2>1. found = UNION {{Buffered(e, a) : a \in Expand(e, w)} : e \in InCalendar(h, c, TRUE, w)}
    OBVIOUS
  <2> HIDE DEF found, h, w, r, r2
  <2> QED  BY <1>1, <2>1, BusyIs, Zenon
<1> HIDE DEF found
<1>6. r2 = [r EXCEPT !.busy = r.busy \cup found, !.left = r.left \ {c}]  OBVIOUS
<1> HIDE DEF r2
<1>7. Good(r2, asked, clock, steady, seen)  BY <1>0, <1>1, <1>5, <1>6, BusyCalendarStep
<1> QED  BY <1>1, <1>2, <1>4, <1>7, ReadKeeps

\* A read of an outside calendar keeps the invariant.
LEMMA OutsideKeeps ==
  ASSUME Inv, NEW i \in DOMAIN reader, ReadOutside(i)
  PROVE  Inv'
<1> DEFINE r == reader[i]
           h == reader[i].host
           w == reader[i].window
           c == Head(reader[i].outside)
           found == UNION {{At(e, t) : t \in {u \in e.starts : Reaches(e, u, r.window)}} :
                             e \in {f \in store : /\ f.host = r.host /\ f.busy
                                                  /\ f.calendar = Head(r.outside)}}
           r2 == [r EXCEPT !.busy = r.busy \cup found, !.outside = Tail(r.outside)]
<1>0. Reads(i, "calendars") /\ r.outside # << >>  BY DEF ReadOutside
<1>1. /\ Good(r, asked, clock, steady, seen) /\ r.stage = "calendars"
      /\ r \in Readers /\ h \in Host /\ w \in Instance /\ w # None
      /\ answer = None /\ asked # None
      /\ steady \subseteq store /\ store \subseteq seen /\ seen \subseteq Event
      /\ store \subseteq Event /\ AskedRight(asked, clock)
      /\ budget \in 0 .. MaxDisturbances
  BY <1>0, WhileRead, Zenon
<1>2. UNCHANGED <<store, clock, budget, asked, answer, steady, seen>>  BY DEF ReadOutside
<1>3. reader' = [reader EXCEPT ![i].busy = @ \cup found, ![i].outside = Tail(@)]
  BY DEF ReadOutside
<1>4. reader' = [reader EXCEPT ![i] = r2]
  <2>1. reader \in Seq(Readers)  BY DEF Inv, ReadersGood, AllGood
  <2> HIDE DEF found
  <2> QED  BY <1>1, <1>3, <2>1 DEF Readers
<1>5. Occurrences(found, store, h, c, TRUE, w)
  <2>1. found = FoundOutside(store, h, c, w)  BY Zenon DEF FoundOutside
  <2> HIDE DEF found, h, w, r, r2, c
  <2> QED  BY <1>1, <2>1, OutsideIs
<1> HIDE DEF found
<1>6. r2 = [r EXCEPT !.busy = r.busy \cup found, !.outside = Tail(r.outside)]  OBVIOUS
<1> HIDE DEF r2
<1>7. Good(r2, asked, clock, steady, seen)  BY <1>0, <1>1, <1>5, <1>6, OutsideStep
<1> QED  BY <1>1, <1>2, <1>4, <1>7, ReadKeeps

\* The removal of the busy time of a host keeps the invariant.
LEMMA HostDoneKeeps ==
  ASSUME Inv, NEW i \in DOMAIN reader, HostDone(i)
  PROVE  Inv'
<1> DEFINE r == reader[i]
           b == Compatible(r.busy)
           r2 == [r EXCEPT !.free = RemoveAll(r.free, b, 0), !.stage = "done"]
<1>0. Reads(i, "calendars") /\ r.left = {} /\ r.outside = << >>  BY DEF HostDone
<1>1. /\ Good(r, asked, clock, steady, seen) /\ r.stage = "calendars"
      /\ r \in Readers /\ answer = None
      /\ steady \subseteq store /\ store \subseteq seen /\ seen \subseteq Event
      /\ budget \in 0 .. MaxDisturbances
  BY <1>0, WhileRead, Zenon
<1>2. UNCHANGED <<store, clock, budget, asked, steady, seen>>  BY DEF HostDone
<1>3. CASE SplitsInTwo(r.free, b)
  <2>1. /\ reader' = [reader EXCEPT ![i].free = RemoveAll(@, b, 0), ![i].stage = "done"]
        /\ answer' = answer
    BY <1>3 DEF HostDone
  <2>2. reader' = [reader EXCEPT ![i] = r2]
    <3>1. reader \in Seq(Readers)  BY DEF Inv, ReadersGood, AllGood
    <3> HIDE DEF b
    <3> QED  BY <1>1, <2>1, <3>1 DEF Readers
  <2>3. Good(r2, asked, clock, steady, seen)
    <3>1. steady \subseteq seen  BY <1>1
    <3>2. r2 = [r EXCEPT !.free = RemoveAll(r.free, Compatible(r.busy), 0), !.stage = "done"]
      OBVIOUS
    <3>3. SplitsInTwo(r.free, Compatible(r.busy))  BY <1>3
    <3> HIDE DEF r2, r
    <3> QED  BY <1>0, <1>1, <3>1, <3>2, <3>3, DoneStep, Zenon
  <2> QED  BY <1>1, <1>2, <2>1, <2>2, <2>3, ReadKeeps
<1>4. CASE ~SplitsInTwo(r.free, b)
  <2>1. answer' = [kind |-> "panic"] /\ reader' = reader  BY <1>4 DEF HostDone
  <2> QED  BY <1>1, <1>2, <2>1, StopKeeps
<1> QED  BY <1>3, <1>4

\* A failed read of the availability keeps the invariant.
LEMMA AvailabilityFailsKeeps ==
  ASSUME Inv, NEW i \in DOMAIN reader, AvailabilityFails(i)
  PROVE  Inv'
<1> DEFINE r == reader[i]
           r2 == [r EXCEPT !.lost = TRUE, !.stage = "services"]
<1>0. Reads(i, "open")  BY DEF AvailabilityFails
<1>1. /\ Good(r, asked, clock, steady, seen) /\ r.stage = "open"
      /\ r \in Readers /\ answer = None /\ budget \in 0 .. MaxDisturbances
  BY <1>0, WhileRead, Zenon
<1>2. UNCHANGED <<store, clock, asked, steady, seen>> /\ budget > 0 /\ budget' = budget - 1
  BY DEF AvailabilityFails, Fails
<1>3. budget' \in 0 .. MaxDisturbances  BY <1>1, <1>2, BoundsAssumption
<1>4. CASE Plan(r.host).kind = "schedule"
  <2>1. answer' = [kind |-> "error"] /\ reader' = reader  BY <1>4 DEF AvailabilityFails
  <2> QED  BY <1>2, <1>3, <2>1, StopKeeps
<1>5. CASE Plan(r.host).kind # "schedule"
  <2>1. /\ reader' = [reader EXCEPT ![i].lost = TRUE, ![i].stage = "services"]
        /\ answer' = answer
    BY <1>5 DEF AvailabilityFails
  <2>2. reader' = [reader EXCEPT ![i] = r2]
    <3>1. reader \in Seq(Readers)  BY DEF Inv, ReadersGood, AllGood
    <3> QED  BY <1>1, <2>1, <3>1 DEF Readers
  <2>3. /\ r2 \in Readers /\ r2.host = r.host /\ r2.window = r.window /\ r2.free = r.free
        /\ r2.busy = r.busy /\ r2.left \subseteq r.left
        /\ Range(r2.outside) \subseteq Range(r.outside)
        /\ r2.lost /\ r.stage # "done" /\ r2.stage # "open"
    BY <1>1 DEF Readers, Stages
  <2> HIDE DEF r2
  <2>4. Good(r2, asked, clock, steady, seen)  BY <1>1, <2>3, LostStep
  <2> QED  BY <1>1, <1>2, <1>3, <2>1, <2>2, <2>4, ReadKeeps
<1> QED  BY <1>4, <1>5

\* So does a failed read of the list of busy calendars.
LEMMA BusyListFailsKeeps ==
  ASSUME Inv, NEW i \in DOMAIN reader, BusyListFails(i)
  PROVE  Inv'
<1> DEFINE r == reader[i]
           r2 == [r EXCEPT !.lost = TRUE, !.stage = "calendars"]
<1>0. Reads(i, "services")  BY DEF BusyListFails
<1>1. /\ Good(r, asked, clock, steady, seen) /\ r.stage = "services"
      /\ r \in Readers /\ answer = None /\ budget \in 0 .. MaxDisturbances
  BY <1>0, WhileRead, Zenon
<1>2. /\ UNCHANGED <<store, clock, asked, steady, seen>> /\ budget > 0 /\ budget' = budget - 1
      /\ answer' = answer /\ reader' = [reader EXCEPT ![i].lost = TRUE, ![i].stage = "calendars"]
  BY DEF BusyListFails, Fails
<1>3. budget' \in 0 .. MaxDisturbances  BY <1>1, <1>2, BoundsAssumption
<1>4. reader' = [reader EXCEPT ![i] = r2]
  <2>1. reader \in Seq(Readers)  BY DEF Inv, ReadersGood, AllGood
  <2> QED  BY <1>1, <1>2, <2>1 DEF Readers
<1>5. /\ r2 \in Readers /\ r2.host = r.host /\ r2.window = r.window /\ r2.free = r.free
      /\ r2.busy = r.busy /\ r2.left \subseteq r.left
      /\ Range(r2.outside) \subseteq Range(r.outside)
      /\ r2.lost /\ r.stage # "done" /\ r2.stage # "open"
  BY <1>1 DEF Readers, Stages
<1> HIDE DEF r2
<1>6. Good(r2, asked, clock, steady, seen)  BY <1>1, <1>5, LostStep
<1> QED  BY <1>1, <1>2, <1>3, <1>4, <1>6, ReadKeeps

\* So does a failed read of a busy calendar.
LEMMA BusyCalendarFailsKeeps ==
  ASSUME Inv, NEW i \in DOMAIN reader, NEW c, BusyCalendarFails(i, c)
  PROVE  Inv'
<1> DEFINE r == reader[i]
           r2 == [r EXCEPT !.lost = TRUE, !.left = r.left \ {c}]
<1>0. Reads(i, "calendars")  BY DEF BusyCalendarFails
<1>1. /\ Good(r, asked, clock, steady, seen) /\ r.stage = "calendars"
      /\ r \in Readers /\ answer = None /\ budget \in 0 .. MaxDisturbances
  BY <1>0, WhileRead, Zenon
<1>2. /\ UNCHANGED <<store, clock, asked, steady, seen>> /\ budget > 0 /\ budget' = budget - 1
      /\ answer' = answer /\ reader' = [reader EXCEPT ![i].lost = TRUE, ![i].left = @ \ {c}]
  BY DEF BusyCalendarFails, Fails
<1>3. budget' \in 0 .. MaxDisturbances  BY <1>1, <1>2, BoundsAssumption
<1>4. reader' = [reader EXCEPT ![i] = r2]
  <2>1. reader \in Seq(Readers)  BY DEF Inv, ReadersGood, AllGood
  <2> QED  BY <1>1, <1>2, <2>1 DEF Readers
<1>5. /\ r2 \in Readers /\ r2.host = r.host /\ r2.window = r.window /\ r2.free = r.free
      /\ r2.busy = r.busy /\ r2.left \subseteq r.left
      /\ Range(r2.outside) \subseteq Range(r.outside)
      /\ r2.lost /\ r.stage # "done" /\ r2.stage # "open"
  BY <1>1 DEF Readers, Stages
<1> HIDE DEF r2
<1>6. Good(r2, asked, clock, steady, seen)  BY <1>1, <1>5, LostStep
<1> QED  BY <1>1, <1>2, <1>3, <1>4, <1>6, ReadKeeps

\* So does an outside calendar that does not answer.
LEMMA OutsideFailsKeeps ==
  ASSUME Inv, NEW i \in DOMAIN reader, OutsideFails(i)
  PROVE  Inv'
<1> DEFINE r == reader[i]
           r2 == [r EXCEPT !.lost = TRUE, !.outside = Tail(r.outside)]
<1>0. Reads(i, "calendars") /\ r.outside # << >>  BY DEF OutsideFails
<1>1. /\ Good(r, asked, clock, steady, seen) /\ r.stage = "calendars"
      /\ r \in Readers /\ answer = None /\ budget \in 0 .. MaxDisturbances
  BY <1>0, WhileRead, Zenon
<1>2. UNCHANGED <<store, clock, asked, steady, seen>> /\ budget > 0 /\ budget' = budget - 1
  BY DEF OutsideFails, Fails
<1>3. budget' \in 0 .. MaxDisturbances  BY <1>1, <1>2, BoundsAssumption
<1>4. CASE answer' = [kind |-> "error"] /\ reader' = reader
  BY <1>2, <1>3, <1>4, StopKeeps
<1>5. CASE /\ reader' = [reader EXCEPT ![i].lost = TRUE, ![i].outside = Tail(@)]
           /\ answer' = answer
  <2>2. reader' = [reader EXCEPT ![i] = r2]
    <3>1. reader \in Seq(Readers)  BY DEF Inv, ReadersGood, AllGood
    <3> QED  BY <1>1, <1>5, <3>1 DEF Readers
  <2>3. /\ Tail(r.outside) \in Seq(UNION {Range(Resource[g].outside) : g \in Host})
        /\ Range(Tail(r.outside)) \subseteq Range(r.outside)
    <3>1. r.outside \in Seq(UNION {Range(Resource[g].outside) : g \in Host})
      BY <1>1 DEF Readers
    <3> QED  BY <1>0, <3>1, HeadOrTail
  <2>4. /\ r2 \in Readers /\ r2.host = r.host /\ r2.window = r.window /\ r2.free = r.free
        /\ r2.busy = r.busy /\ r2.left \subseteq r.left
        /\ Range(r2.outside) \subseteq Range(r.outside)
        /\ r2.lost /\ r.stage # "done" /\ r2.stage # "open"
    BY <1>1, <2>3 DEF Readers, Stages
  <2> HIDE DEF r2
  <2>5. Good(r2, asked, clock, steady, seen)  BY <1>1, <2>4, LostStep
  <2> QED  BY <1>1, <1>2, <1>3, <1>5, <2>2, <2>5, ReadKeeps
<1> QED  BY <1>4, <1>5 DEF OutsideFails

\* So does a failed read of the events of the service.
LEMMA ServiceEventsFailKeeps ==
  ASSUME Inv, NEW i \in DOMAIN reader, ServiceEventsFail(i)
  PROVE  Inv'
<1>0. Reads(i, "services")  BY DEF ServiceEventsFail
<1>1. budget \in 0 .. MaxDisturbances  BY DEF Inv, Consistent
<1>2. /\ UNCHANGED <<store, clock, asked, steady, seen>> /\ budget > 0 /\ budget' = budget - 1
      /\ answer' = [kind |-> "error"] /\ reader' = reader
  BY DEF ServiceEventsFail, Fails
<1>3. budget' \in 0 .. MaxDisturbances  BY <1>1, <1>2, BoundsAssumption
<1> QED  BY <1>2, <1>3, StopKeeps

\* A change of the events keeps the invariant.
LEMMA ChangeKeeps == ASSUME Inv, Change PROVE Inv'
<1>1. /\ asked # None /\ answer = None /\ budget > 0 /\ budget' = budget - 1
      /\ UNCHANGED <<clock, asked, reader, answer>>
      /\ steady' = steady \cap store' /\ seen' = seen \cup store'
  BY DEF Change
<1>2. store' \subseteq Event
  <2>1. store \subseteq Event  BY DEF Inv, Consistent
  <2> QED  BY <2>1 DEF Change
<1>3. Consistent'
  <2>1. budget' \in 0 .. MaxDisturbances  BY <1>1, BoundsAssumption DEF Inv, Consistent
  <2> QED  BY <1>1, <1>2, <2>1 DEF Inv, Consistent
<1>4. ReadersGood'
  <2>1. AllGood(reader, asked, clock, steady, seen)  BY DEF Inv, ReadersGood
  <2>2. steady' \subseteq steady /\ seen \subseteq seen'  BY <1>1
  <2>3. AllGood(reader, asked, clock, steady', seen')
    <3>1. reader \in Seq(Readers)  BY <2>1 DEF AllGood
    <3>2. ASSUME NEW i \in DOMAIN reader PROVE Good(reader[i], asked, clock, steady', seen')
      <4>1. Good(reader[i], asked, clock, steady, seen)  BY <2>1 DEF AllGood
      <4> QED  BY <2>2, <4>1, StaysGood
    <3> QED  BY <3>1, <3>2 DEF AllGood
  <2> QED  BY <1>1, <2>3 DEF ReadersGood
<1>5. Answered'  BY <1>1 DEF Answered
<1> QED  BY <1>3, <1>4, <1>5 DEF Inv

\* So does the clock.
LEMMA TickKeeps == ASSUME Inv, Tick PROVE Inv'
<1>1. /\ asked = None /\ clock < MaxTime /\ clock' = clock + 1
      /\ UNCHANGED <<store, budget, asked, reader, answer, steady, seen>>
  BY DEF Tick
<1>2. Consistent'  BY <1>1, BoundsAssumption DEF Inv, Consistent
<1>3. ReadersGood'
  <2>1. reader' = << >>  BY <1>1 DEF Inv, Consistent
  <2>2. << >> \in Seq(Readers)  OBVIOUS
  <2> QED  BY <2>1, <2>2 DEF ReadersGood, AllGood
<1>4. Answered'  BY <1>1 DEF Inv, Answered
<1> QED  BY <1>2, <1>3, <1>4 DEF Inv

\* a has what s has at the positions T.
TakenFrom(a, s, T, A) ==
  /\ a \in Seq(A) /\ Len(a) = Cardinality(T) /\ IsFiniteSet(T)
  /\ \A x : x \in Range(a) <=> \E i \in T : x = s[i]

\* What a list has at some of its positions
LEMMA AtPositionsIs ==
  ASSUME NEW A, NEW s \in Seq(A), NEW T, T \subseteq DOMAIN s
  PROVE  TakenFrom(AtPositions(s, T), s, T, A)
<1> DEFINE R == {p \in T \X T : p[1] < p[2]}
           order == Ranked(T, R)
           a == [k \in DOMAIN order |-> s[order[k]]]
<1>1. DOMAIN s = 1 .. Len(s) /\ Len(s) \in Nat  OBVIOUS
<1>2. IsFiniteSet(T)
  <2>1. IsFiniteSet(1 .. Len(s))  BY <1>1, FS_Interval
  <2>2. T \in SUBSET (1 .. Len(s))  BY <1>1
  <2> QED  BY <2>1, <2>2, FS_Subset
<1>3. Orders(R, T)
  <2>1. \A x \in T : x \in Int  BY <1>1
  <2>2. \A x, y \in T : <<x, y>> \in R <=> x < y  OBVIOUS
  <2> HIDE DEF R
  <2> SUFFICES ASSUME NEW x \in T, NEW y \in T, NEW z \in T
               PROVE  /\ ~(x < x) /\ (x < y /\ y < z => x < z)
                      /\ x # y => x < y \/ y < x
    BY <2>2 DEF Orders
  <2>3. x \in Int /\ y \in Int /\ z \in Int  BY <2>1
  <2> QED  BY <2>3
<1> HIDE DEF R
<1>4. Enumerates(order, T, R)  BY <1>2, <1>3, RankedIs
<1> HIDE DEF order
<1>5. /\ order \in Seq(T) /\ Len(order) = Cardinality(T) /\ DOMAIN order = 1 .. Cardinality(T)
      /\ \A x \in T : \E k \in DOMAIN order : order[k] = x
  BY <1>4, Zenon DEF Enumerates
<1>6. Cardinality(T) \in Nat  BY <1>2, FS_CardinalityType
<1>7. \A k \in DOMAIN order : order[k] \in T  BY <1>5
<1>8. a \in Seq(A) /\ Len(a) = Cardinality(T) /\ DOMAIN a = DOMAIN order
  <2>1. a \in [1 .. Cardinality(T) -> A]  BY <1>5, <1>7
  <2> HIDE DEF a
  <2> QED  BY <1>5, <1>6, <2>1, ListOf
<1>9. ASSUME NEW x PROVE x \in Range(a) <=> \E i \in T : x = s[i]
  <2>1. x \in Range(a) <=> \E k \in DOMAIN a : x = a[k]  BY DEF Range
  <2> QED  BY <1>5, <1>7, <1>8, <2>1
<1>10. AtPositions(s, T) = a  BY DEF AtPositions, order, R
<1> HIDE DEF a
<1> QED  BY <1>2, <1>8, <1>9, <1>10 DEF TakenFrom

\* The hosts asked for are hosts.
LEMMA HostsAreHosts ==
  ASSUME NEW q \in Query
  PROVE  HostsOf(q) \in Seq(Host)
<1>1. Users \in Seq(Host) /\ Range(Users) \subseteq Host  BY HostAssumption DEF Range
<1>2. CASE q.hosts = None  BY <1>1, <1>2 DEF HostsOf
<1>3. CASE q.hosts # None
  <2> DEFINE s == q.hosts
             T == {i \in DOMAIN s : s[i] \in Range(Users)}
             a == AtPositions(s, T)
  <2>1. s \in Seq(Range(s))  BY <1>3, QueryAssumption
  <2>2. HostsOf(q) = a  BY <1>3 DEF HostsOf
  <2>3. /\ a \in Seq(Range(s)) /\ Len(a) = Cardinality(T)
        /\ \A x : x \in Range(a) <=> \E i \in T : x = s[i]
    <3>1. T \subseteq DOMAIN s  OBVIOUS
    <3> HIDE DEF T, s
    <3>2. TakenFrom(a, s, T, Range(s))  BY <2>1, <3>1, AtPositionsIs
    <3> HIDE DEF a
    <3> QED  BY <3>2 DEF TakenFrom
  <2>4. \A i \in T : s[i] \in Host  BY <1>1
  <2>5. \A k \in DOMAIN a : a[k] \in Host
    <3> SUFFICES ASSUME NEW k \in DOMAIN a PROVE a[k] \in Host  OBVIOUS
    <3> HIDE DEF a, T
    <3>1. a[k] \in Range(a)  BY DEF Range
    <3> QED  BY <2>3, <2>4, <3>1
  <2> HIDE DEF a
  <2>6. a \in Seq(Host)
    <3>1. Len(a) \in Nat /\ DOMAIN a = 1 .. Len(a) /\ a = [k \in DOMAIN a |-> a[k]]
      <4> HIDE DEF s
      <4> QED  BY <2>3
    <3>2. a \in [1 .. Len(a) -> Host]  BY <2>5, <3>1
    <3> QED  BY <3>1, <3>2, ListOf
  <2> QED  BY <2>2, <2>6
<1> QED  BY <1>2, <1>3

\* The record of a host before anything is read is as it should be.
LEMMA BeforeReads ==
  ASSUME NEW h \in Host, NEW q, q.start \in Int, q.end \in Int,
         NEW a, a.start = q.start, a.end = q.end, NEW now, clock = now, clock \in Int,
         NEW st, st \subseteq Event
  PROVE  Good(Reader(h, q), a, now, st, st)
<1> DEFINE w == Window(h, q, clock)
           r == Reader(h, q)
<1>1. w = None \/ w \in Instance
  <2>1. w = None \/ w \in Instance  BY WindowIs
  <2> QED  BY <2>1
<1>2. r = [host |-> h, window |-> w, free |-> << >>, busy |-> {}, left |-> {},
           outside |-> << >>, lost |-> FALSE, stage |-> IF w = None THEN "done" ELSE "open"]
  BY DEF Reader
<1>3. w = Window(h, a, now)  BY DEF Window
<1> HIDE DEF w, r
<1>4. /\ r.host = h /\ r.window = w /\ r.free = << >> /\ r.busy = {} /\ r.left = {}
      /\ r.outside = << >> /\ r.lost = FALSE /\ r.stage = IF w = None THEN "done" ELSE "open"
  BY <1>2
<1>5. r \in Readers
  <2>1. /\ << >> \in Seq(Instance)
        /\ << >> \in Seq(UNION {Range(Resource[g].outside) : g \in Host})
    OBVIOUS
  <2>2. (IF w = None THEN "done" ELSE "open") \in Stages  BY DEF Stages
  <2>3. w \in Instance \cup {None}  BY <1>1
  <2> QED  BY <1>2, <2>1, <2>2, <2>3 DEF Readers
<1>6. Typed(r, a, now)
  <2>1. Proper(<< >>)  BY DEF Proper
  <2>2. Times({})  BY FS_EmptySet DEF Times
  <2>3. Range(<< >>) = {}  BY DEF Range
  <2>4. r.stage = "open" \/ r.window = None  BY <1>4
  <2> QED  BY <1>3, <1>4, <1>5, <2>1, <2>2, <2>3 DEF Typed
<1>7. BusyHandled(r, st)
  <2>1. CASE w = None
    <3>1. \A x : Avoids(r, x)  BY <1>4, NothingFree
    <3> QED  BY <3>1 DEF BusyHandled, Handled
  <2>2. CASE w # None  BY <1>4, <2>2 DEF BusyHandled, Handled
  <2> QED  BY <2>1, <2>2
<1>8. OffersOnly(r, st) /\ KeepsWindow(r)  BY <1>4, NothingFree
<1>9. BusyOnly(r, st)  BY <1>4 DEF BusyOnly
<1>10. FreeKept(r, st, st)
  <2>1. CASE w = None  BY <1>4, <2>1 DEF FreeKept, FreeFor, Inside
  <2>2. CASE w # None  BY <1>4, <2>2 DEF FreeKept
  <2> QED  BY <2>1, <2>2
<1>11. Good(r, a, now, st, st)  BY <1>6, <1>7, <1>8, <1>9, <1>10 DEF Good
<1> QED  BY <1>11 DEF r

\* The request, when it is made
LEMMA AskKeeps ==
  ASSUME Inv, NEW q \in Query, NEW multi \in Multi, Ask(q, multi)
  PROVE  Inv'
<1>1. /\ asked = None /\ asked' = Asked(q, multi, clock)
      /\ steady' = store /\ seen' = store /\ UNCHANGED <<store, clock, budget>>
  BY DEF Ask
<1>2. /\ q.start \in Int /\ q.end \in Int /\ q.duration \in Int /\ q.interval \in Int
  BY QueryAssumption
<1>3. store \subseteq Event /\ clock \in 0 .. MaxTime /\ budget \in 0 .. MaxDisturbances
  BY DEF Inv, Consistent
<1>4. /\ asked'.start = q.start /\ asked'.end = q.end /\ asked'.duration = q.duration
      /\ asked'.interval = q.interval /\ asked'.at = clock /\ asked'.multi = multi
  BY <1>1 DEF Asked
<1>5. asked' # None  BY <1>1, <1>3, QueryAssumption
<1>6. AskedRight(asked', clock)  BY <1>2, <1>4 DEF AskedRight
<1>6i. reader' # << >> => asked'.interval \in Nat  BY <1>4, BoundsAssumption DEF Ask
<1>7. Consistent'  BY <1>1, <1>3, <1>5, <1>6, <1>6i DEF Consistent
<1>8. CASE reader' = << >>
  <2>1. << >> \in Seq(Readers)  OBVIOUS
  <2>2. ReadersGood'  BY <1>8, <2>1 DEF ReadersGood, AllGood
  <2>3. Answered'
    <3>1. CASE q.interval \notin Interval \/ (multi # "closed" /\ q.end - q.start > MaxSpan)
      <4>1. answer' = [kind |-> "refused"]  BY <3>1 DEF Ask
      <4> QED  BY <4>1 DEF Answered, Answers
    <3>2. CASE ~(q.interval \notin Interval \/ (multi # "closed" /\ q.end - q.start > MaxSpan))
      <4>1. multi # "closed" => answer' = None  BY <3>2 DEF Ask
      <4>2. multi = "closed" => answer' = [kind |-> "slots", slots |-> {}]
        BY <3>2 DEF Ask, Empty
      <4>3. Bookable' = {}  BY <1>8 DEF Bookable
      <4> QED  BY <1>5, <1>8, <4>1, <4>2, <4>3 DEF Answered, Answers
    <3> QED  BY <3>1, <3>2
  <2> QED  BY <1>7, <2>2, <2>3 DEF Inv
<1>9. CASE reader' = [i \in DOMAIN HostsOf(q) |-> Reader(HostsOf(q)[i], q)] /\ answer' = None
  <2> DEFINE hosts == HostsOf(q)
  <2>1. hosts \in Seq(Host)  BY HostsAreHosts
  <2>2. \A i \in DOMAIN hosts : Good(Reader(hosts[i], q), asked', clock, store, store)
    <3> HIDE DEF hosts
    <3>1. \A i \in DOMAIN hosts : hosts[i] \in Host  BY <2>1
    <3>2. clock \in Int  BY <1>3
    <3> QED  BY <1>2, <1>3, <1>4, <3>1, <3>2, BeforeReads
  <2>3. reader' \in Seq(Readers) /\ DOMAIN reader' = DOMAIN hosts
    <3>1. \A i \in DOMAIN hosts : Reader(hosts[i], q) \in Readers  BY <2>2 DEF Good, Typed
    <3>2. Len(hosts) \in Nat /\ DOMAIN hosts = 1 .. Len(hosts)  BY <2>1
    <3>3. reader' \in [1 .. Len(hosts) -> Readers]
      <4> HIDE DEF hosts
      <4>1. reader' = [i \in DOMAIN hosts |-> Reader(hosts[i], q)]  BY <1>9 DEF hosts
      <4> QED  BY <3>1, <3>2, <4>1
    <3> QED  BY <3>2, <3>3, ListOf
  <2>4. \A i \in DOMAIN reader' : reader'[i] = Reader(hosts[i], q)  BY <1>9
  <2>5. AllGood(reader', asked', clock, store, store)
    <3> HIDE DEF hosts
    <3> QED  BY <2>2, <2>3, <2>4 DEF AllGood
  <2>6. ReadersGood'  BY <1>1, <2>5 DEF ReadersGood
  <2>7. Answered'  BY <1>9 DEF Answered
  <2> QED  BY <1>7, <2>6, <2>7 DEF Inv
<1> QED  BY <1>8, <1>9 DEF Ask

\* The answer is made of what was read.
LEMMA AnswerKeeps == ASSUME Inv, Answer PROVE Inv'
<1>1. /\ asked # None /\ \A i \in DOMAIN reader : reader[i].stage = "done"
      /\ answer' = [kind |-> "slots", slots |-> Bookable]
      /\ UNCHANGED <<store, clock, budget, asked, reader, steady, seen>>
  BY DEF Answer
<1>2. Consistent' /\ ReadersGood'  BY <1>1 DEF Inv, Consistent, ReadersGood
<1>3. Bookable' = Bookable  BY <1>1 DEF Bookable, HostsAt
<1>4. Answered'  BY <1>1, <1>3 DEF Answered, Answers
<1> QED  BY <1>2, <1>4 DEF Inv

\* So does the end of a query.
LEMMA DoneKeeps == ASSUME Inv, Done PROVE Inv'
<1>1. /\ asked' = None /\ reader' = << >> /\ answer' = None /\ steady' = {} /\ seen' = {}
      /\ UNCHANGED <<store, clock, budget>>
  BY DEF Done
<1>2. Consistent'  BY <1>1 DEF Inv, Consistent
<1>3. << >> \in Seq(Readers)  OBVIOUS
<1>4. ReadersGood'  BY <1>1, <1>3 DEF ReadersGood, AllGood
<1>5. Answered'  BY <1>1 DEF Answered
<1> QED  BY <1>2, <1>4, <1>5 DEF Inv

\* Before the first query there is nothing to be right about.
LEMMA InitIsRight == Init => Inv
<1> SUFFICES ASSUME Init PROVE Inv  OBVIOUS
<1>1. /\ store \subseteq Event /\ clock = 0 /\ budget = MaxDisturbances /\ asked = None
      /\ reader = << >> /\ answer = None /\ steady = {} /\ seen = {}
  BY DEF Init
<1>2. Consistent  BY <1>1, BoundsAssumption DEF Consistent
<1>3. << >> \in Seq(Readers)  OBVIOUS
<1>4. ReadersGood  BY <1>1, <1>3 DEF ReadersGood, AllGood
<1>5. Answered  BY <1>1 DEF Answered
<1> QED  BY <1>2, <1>4, <1>5 DEF Inv

\* A stuttering step keeps the invariant.
LEMMA NothingChanges == Inv /\ UNCHANGED vars => Inv'
<1> SUFFICES ASSUME Inv, UNCHANGED vars PROVE Inv'  OBVIOUS
<1>1. UNCHANGED <<store, clock, budget, asked, reader, answer, steady, seen>>  BY DEF vars
<1>2. Bookable' = Bookable  BY <1>1 DEF Bookable, HostsAt
<1>3. Consistent' /\ ReadersGood' /\ Answered'
  BY <1>1, <1>2 DEF Inv, Consistent, ReadersGood, Answered
<1> QED  BY <1>3 DEF Inv

\* Every step keeps the invariant.
LEMMA NextKeeps == Inv /\ [Next]_vars => Inv'
<1> SUFFICES ASSUME Inv, [Next]_vars PROVE Inv'  OBVIOUS
<1>1. CASE Change  BY <1>1, ChangeKeeps
<1>2. CASE Tick  BY <1>2, TickKeeps
<1>3. CASE \E q \in Query, multi \in Multi : Ask(q, multi)  BY <1>3, AskKeeps
<1>4. ASSUME NEW i \in DOMAIN reader, ReadAvailability(i) PROVE Inv'
  BY <1>4, AvailabilityKeeps
<1>5. ASSUME NEW i \in DOMAIN reader, ReadServiceEvents(i) PROVE Inv'
  BY <1>5, ServiceEventsKeep
<1>6. ASSUME NEW i \in DOMAIN reader, NEW c \in reader[i].left, ReadBusyCalendar(i, c) PROVE Inv'
  BY <1>6, BusyCalendarKeeps
<1>7. ASSUME NEW i \in DOMAIN reader, NEW c \in reader[i].left, BusyCalendarFails(i, c) PROVE Inv'
  BY <1>7, BusyCalendarFailsKeeps
<1>8. ASSUME NEW i \in DOMAIN reader, ReadOutside(i) PROVE Inv'  BY <1>8, OutsideKeeps
<1>9. ASSUME NEW i \in DOMAIN reader, OutsideFails(i) PROVE Inv'  BY <1>9, OutsideFailsKeeps
<1>10. ASSUME NEW i \in DOMAIN reader, HostDone(i) PROVE Inv'  BY <1>10, HostDoneKeeps
<1>11. ASSUME NEW i \in DOMAIN reader, AvailabilityFails(i) PROVE Inv'
  BY <1>11, AvailabilityFailsKeeps
<1>12. ASSUME NEW i \in DOMAIN reader, BusyListFails(i) PROVE Inv'
  BY <1>12, BusyListFailsKeeps
<1>13. ASSUME NEW i \in DOMAIN reader, ServiceEventsFail(i) PROVE Inv'
  BY <1>13, ServiceEventsFailKeeps
<1>14. CASE Answer  BY <1>14, AnswerKeeps
<1>15. CASE Done  BY <1>15, DoneKeeps
<1>16. CASE UNCHANGED vars  BY <1>16, NothingChanges
<1> QED  BY <1>1, <1>2, <1>3, <1>4, <1>5, <1>6, <1>7, <1>8, <1>9, <1>10, <1>11, <1>12, <1>13,
            <1>14, <1>15, <1>16 DEF Next

\* What has been read of each host is right, whatever was done so far.
THEOREM AlwaysRight == Spec => []Inv
<1>1. Init => Inv  BY InitIsRight
<1>2. Inv /\ [Next]_vars => Inv'  BY NextKeeps
<1> QED  BY <1>1, <1>2, PTL DEF Spec

-----------------------------------------------------------------------------
(* What the answer claims                                                  *)

\* A slot is held by a free instance of a record of the host.
HeldBy(s, j) ==
  /\ reader[j].stage = "done" /\ s.start \in Int
  /\ \E k \in DOMAIN reader[j].free :
       reader[j].free[k].start <= s.start /\ s.start + asked.duration <= reader[j].free[k].end

\* A host of a slot has a free instance that holds it.
LEMMA SlotsAreHeld ==
  ASSUME Inv, answer # None, answer.kind = "slots", NEW s \in answer.slots, NEW i \in Attending(s)
  PROVE  \E j \in DOMAIN reader : reader[j].host = reader[i].host /\ HeldBy(s, j)
<1> DEFINE hosts == [j \in DOMAIN reader |-> reader[j].host]
           T(t) == {j \in DOMAIN reader : t \in SlotStarts(reader[j].free, asked)}
<1>1. /\ asked # None /\ answer.slots = Bookable /\ \A j \in DOMAIN reader : reader[j].stage = "done"
      /\ reader \in Seq(Readers) /\ i \in DOMAIN reader
      /\ asked.start \in Int /\ asked.end \in Int
  BY DEF Inv, Answered, ReadersGood, AllGood, Attending, Consistent, AskedRight
<1>2. PICK t : /\ s.start = t /\ s.hosts = HostsAt(t)
               /\ asked.multi = "all" => Len(s.hosts) = Len(Users)
  <2>1. s \in Bookable  BY <1>1
  <2>2. /\ asked.multi = "all" => Len(s.hosts) = Len(Users)
        /\ \E t : s = [start |-> t, hosts |-> HostsAt(t)]
    BY <2>1 DEF Bookable
  <2> QED  BY <2>2
<1>3. hosts \in Seq(Host)
  <2>1. ASSUME NEW j \in DOMAIN reader PROVE reader[j].host \in Host
    <3>1. reader[j] \in Readers  BY <1>1
    <3> QED  BY <3>1 DEF Readers
  <2> QED  BY <1>1, <2>1
<1>4. TakenFrom(s.hosts, hosts, T(t), Host)
  <2>1. HostsAt(t) = AtPositions(hosts, T(t))  BY DEF HostsAt
  <2>2. T(t) \subseteq DOMAIN hosts  OBVIOUS
  <2> HIDE DEF hosts, T
  <2> QED  BY <1>2, <1>3, <2>1, <2>2, AtPositionsIs
<1>5. ASSUME NEW j \in T(t) PROVE HeldBy(s, j)
  <2>1. j \in DOMAIN reader /\ t \in SlotStarts(reader[j].free, asked)  BY <1>5
  <2>2. /\ t \in asked.start .. asked.end
        /\ \E k \in DOMAIN reader[j].free :
             reader[j].free[k].start <= t /\ t + asked.duration <= reader[j].free[k].end
    BY <2>1 DEF SlotStarts
  <2>3. t \in Int  BY <1>1, <2>2
  <2> QED  BY <1>1, <1>2, <2>1, <2>2, <2>3 DEF HeldBy
<1>6. CASE asked.multi = "all" /\ Len(reader) <= Len(Users)
  <2>1. DOMAIN reader = 1 .. Len(reader) /\ Len(reader) \in Nat  BY <1>1
  <2>2. IsFiniteSet(DOMAIN reader) /\ Cardinality(DOMAIN reader) = Len(reader)
    <3>1. /\ IsFiniteSet(1 .. Len(reader))
          /\ Cardinality(1 .. Len(reader)) = IF 1 > Len(reader) THEN 0 ELSE Len(reader) - 1 + 1
      BY <2>1, FS_Interval
    <3> QED  BY <2>1, <3>1
  <2>3. Len(Users) = Cardinality(T(t))  BY <1>2, <1>4, <1>6 DEF TakenFrom
  <2>4. T(t) \subseteq DOMAIN reader  OBVIOUS
  <2>5. T(t) = DOMAIN reader
    <3> HIDE DEF T
    <3>1. IsFiniteSet(T(t)) /\ Cardinality(T(t)) <= Cardinality(DOMAIN reader)
          /\ (Cardinality(DOMAIN reader) = Cardinality(T(t)) => DOMAIN reader = T(t))
      BY <2>2, <2>4, FS_Subset
    <3>2. Cardinality(T(t)) \in Nat  BY <3>1, FS_CardinalityType
    <3> QED  BY <1>6, <2>1, <2>2, <2>3, <3>1, <3>2
  <2> QED  BY <1>1, <1>5, <2>5
<1>7. CASE reader[i].host \in Range(s.hosts)
  <2>1. PICK j \in T(t) : reader[i].host = hosts[j]
    <3> HIDE DEF T, hosts
    <3> QED  BY <1>4, <1>7 DEF TakenFrom
  <2> QED  BY <1>5, <2>1
<1> QED  BY <1>6, <1>7 DEF Attending

\* Whatever the code reads when, a slot does not meet what kept the host busy all the time.
THEOREM SlotsAvoidBusyTime == Spec => []NoSlotOverBusy
<1>1. Inv => NoSlotOverBusy
  <2> SUFFICES ASSUME Inv, asked # None, answer # None, answer.kind = "slots",
                      NEW s \in answer.slots, NEW i \in Attending(s),
                      Inside(Slot(s), reader[i].window), AllRead(reader[i].host),
                      NEW e \in steady, Blocks(e, reader[i].host),
                      NEW t \in e.starts, Known(e, t, reader[i].window)
               PROVE  ~Meets(Stay(e, t), Slot(s))
    BY DEF NoSlotOverBusy
  <2>1. PICK j \in DOMAIN reader : reader[j].host = reader[i].host /\ HeldBy(s, j)
    BY SlotsAreHeld
  <2> DEFINE r == reader[j]
             x == Stay(e, t)
             a == Slot(s)
  <2>2. i \in DOMAIN reader  BY DEF Attending
  <2>3. /\ Good(r, asked, clock, steady, seen) /\ Good(reader[i], asked, clock, steady, seen)
        /\ e \in Event /\ asked.duration \in Int
    BY <2>2 DEF Inv, ReadersGood, AllGood, Consistent, AskedRight
  <2>4. r.window = reader[i].window /\ r \in Readers  BY <2>1, <2>3 DEF Good, Typed
  <2>5. ~r.lost /\ r.stage = "done"  BY <2>1 DEF AllRead, HeldBy
  <2>6. Handled(r, e, t)  BY <2>1, <2>3, <2>4, <2>5 DEF Good, BusyHandled
  <2>7. Avoids(r, x)  BY <2>5, <2>6 DEF Handled, ToCome
  <2>8. PICK k \in DOMAIN r.free :
          r.free[k].start <= s.start /\ s.start + asked.duration <= r.free[k].end
    BY <2>1 DEF HeldBy
  <2>9. a \in Instance /\ a.start = s.start /\ a.end = s.start + asked.duration
    BY <2>1, <2>3 DEF Slot, HeldBy, Instance
  <2>10. r.free[k] \in Instance  BY <2>4 DEF Readers
  <2>11. x \in Instance
    <3>1. e.host \in Host  BY <2>1, <2>4 DEF Blocks, Readers
    <3>2. x \in {At(e, t), Buffered(e, At(e, t))} /\ At(e, t) \in Instance
          /\ Buffered(e, At(e, t)) \in Instance
      BY <2>3, <3>1, StayIs
    <3> HIDE DEF x
    <3> QED  BY <3>2
  <2>12. ~Meets(x, r.free[k])  BY <2>7 DEF Avoids
  <2> HIDE DEF x, a, r
  <2>13. ~Meets(x, a)  BY <2>8, <2>9, <2>10, <2>11, <2>12, MeetsWithin
  <2> QED  BY <2>13 DEF x, a
<1> QED  BY <1>1, AlwaysRight, PTL

\* No moment of a slot was made up.
THEOREM SlotsWereOffered == Spec => []OnlyOfferedTime
<1>1. Inv => OnlyOfferedTime
  <2> SUFFICES ASSUME Inv, asked # None, answer # None, answer.kind = "slots",
                      NEW s \in answer.slots, NEW i \in Attending(s),
                      NEW m \in s.start .. s.start + asked.duration - 1
               PROVE  OfferedBy(reader[i].host, m, seen)
    BY DEF OnlyOfferedTime, OfferedBy
  <2>1. PICK j \in DOMAIN reader : reader[j].host = reader[i].host /\ HeldBy(s, j)
    BY SlotsAreHeld
  <2> DEFINE r == reader[j]
  <2>2. Good(r, asked, clock, steady, seen) /\ asked.duration \in Int
    BY DEF Inv, ReadersGood, AllGood, Consistent, AskedRight
  <2>3. PICK k \in DOMAIN r.free :
          r.free[k].start <= s.start /\ s.start + asked.duration <= r.free[k].end
    BY <2>1 DEF HeldBy
  <2>4. r.free[k] \in Instance  BY <2>2 DEF Good, Typed, Readers
  <2>5. s.start \in Int  BY <2>1 DEF HeldBy
  <2> HIDE DEF r
  <2>6. m \in Int /\ In(m, r.free[k])  BY <2>2, <2>3, <2>4, <2>5, Bounds DEF In
  <2> QED  BY <2>1, <2>2, <2>6 DEF Good, OffersOnly, r
<1> QED  BY <1>1, AlwaysRight, PTL

\* A schedule is offered with the notice of its host.
THEOREM SchedulesKeepNotice == Spec => []ScheduleKeepsNotice
<1>1. Inv => ScheduleKeepsNotice
  <2> SUFFICES ASSUME Inv, asked # None, answer # None, answer.kind = "slots",
                      NEW s \in answer.slots, NEW i \in Attending(s),
                      Plan(reader[i].host).kind = "schedule"
               PROVE  Noticed(s, i)
    BY DEF ScheduleKeepsNotice
  <2>1. PICK j \in DOMAIN reader : reader[j].host = reader[i].host /\ HeldBy(s, j)
    BY SlotsAreHeld
  <2> DEFINE r == reader[j]
             h == r.host
             w == r.window
  <2>2. /\ Good(r, asked, clock, steady, seen) /\ asked.duration \in Int
        /\ asked.start \in Int /\ asked.end \in Int /\ asked.at = clock /\ clock \in Int
    BY DEF Inv, ReadersGood, AllGood, Consistent, AskedRight
  <2>3. PICK k \in DOMAIN r.free :
          r.free[k].start <= s.start /\ s.start + asked.duration <= r.free[k].end
    BY <2>1 DEF HeldBy
  <2>4. r \in Readers /\ w = Window(h, asked, clock) /\ w # None
    BY <2>2, <2>3 DEF Good, Typed
  <2>5. r.free[k] \in Instance /\ h \in Host /\ w \in Instance  BY <2>4 DEF Readers
  <2>6. w.start <= r.free[k].start /\ r.free[k].end <= w.end
    BY <2>1, <2>2 DEF Good, KeepsWindow
  <2>7. /\ w.start >= clock + Resource[h].closest
        /\ Resource[h].furthest # None => w.end <= clock + Resource[h].furthest
    BY <2>2, <2>4, <2>5, WindowIs
  <2>8. s.start \in Int  BY <2>1 DEF HeldBy
  <2>9. Resource[h].closest \in Int /\ (Resource[h].furthest # None => Resource[h].furthest \in Int)
    BY <2>5, HostAssumption
  <2>10. h = reader[i].host  BY <2>1
  <2> HIDE DEF r, h, w
  <2>11. /\ r.free[k].start \in Int /\ r.free[k].end \in Int /\ w.start \in Int /\ w.end \in Int
    BY <2>5, Bounds
  <2>12. s.start >= asked.at + Resource[h].closest
    BY <2>2, <2>3, <2>6, <2>7, <2>8, <2>9, <2>11
  <2>13. Resource[h].furthest # None => s.start + asked.duration <= asked.at + Resource[h].furthest
    BY <2>2, <2>3, <2>6, <2>7, <2>8, <2>9, <2>11
  <2> QED  BY <2>10, <2>12, <2>13 DEF Noticed
<1> QED  BY <1>1, AlwaysRight, PTL

\* The time at which a host is surely free is held by what is left of its free time.
LEMMA FreeIsHeld ==
  ASSUME Inv, NEW i \in DOMAIN reader, reader[i].stage = "done",
         NEW a \in Instance, a.start < a.end, SurelyFree(i, a)
  PROVE  Holds(reader[i].free, a)
<1>1. Good(reader[i], asked, clock, steady, seen)  BY DEF Inv, ReadersGood, AllGood
<1>2. FreeFor(reader[i], a, steady, seen)  BY DEF SurelyFree, FreeFor, OfferedFor
<1> QED  BY <1>1, <1>2 DEF Good, FreeKept

\* A step of the query at which a host is surely free is offered.
THEOREM FreeTimeIsOffered == Spec => []NothingWithheld
<1>1. Inv => NothingWithheld
  <2> SUFFICES ASSUME Inv, asked # None, answer # None, answer.kind = "slots", asked.duration > 0,
                      NEW t \in asked.start .. asked.end - asked.interval,
                      (t - asked.start) % asked.interval = 0
               PROVE  LET a == [start |-> t, end |-> t + asked.duration]
                          free == {i \in DOMAIN reader : SurelyFree(i, a)}
                      IN  IF asked.multi = "all"
                          THEN Len(reader) = Len(Users) /\ reader # << >> /\ free = DOMAIN reader
                                 => \E s \in answer.slots : s.start = t
                          ELSE \A i \in free : \E s \in answer.slots :
                                 s.start = t /\ reader[i].host \in Range(s.hosts)
    BY DEF NothingWithheld
  <2> DEFINE a == [start |-> t, end |-> t + asked.duration]
             free == {i \in DOMAIN reader : SurelyFree(i, a)}
             hosts == [j \in DOMAIN reader |-> reader[j].host]
             T == {j \in DOMAIN reader : t \in SlotStarts(reader[j].free, asked)}
             s == [start |-> t, hosts |-> HostsAt(t)]
  <2>1. /\ answer.slots = Bookable /\ \A j \in DOMAIN reader : reader[j].stage = "done"
        /\ reader \in Seq(Readers)
        /\ asked.start \in Int /\ asked.end \in Int /\ asked.duration \in Int
        /\ reader # << >> => asked.interval \in Nat
    BY DEF Inv, Answered, ReadersGood, AllGood, Consistent, AskedRight
  <2>2. ASSUME NEW i \in free PROVE i \in T
    <3>1. reader # << >> /\ i \in DOMAIN reader /\ SurelyFree(i, a)  OBVIOUS
    <3>2. asked.interval \in Nat  BY <2>1, <3>1
    <3>3. t \in Int /\ t >= asked.start /\ t <= asked.end - asked.interval  BY <2>1, <3>2
    <3>4. t \in asked.start .. asked.end /\ t + asked.interval <= asked.end
      BY <2>1, <3>2, <3>3
    <3>5. a \in Instance /\ a.start < a.end  BY <2>1, <3>3 DEF Instance
    <3>6. Holds(reader[i].free, a)
      <4> HIDE DEF a
      <4> QED  BY <2>1, <3>1, <3>5, FreeIsHeld
    <3>7. \E k \in DOMAIN reader[i].free :
            reader[i].free[k].start <= t /\ t + asked.duration <= reader[i].free[k].end
      BY <3>6 DEF Holds
    <3>8. ~(asked.duration < 1)  BY <2>1
    <3>9. t \in SlotStarts(reader[i].free, asked)
      <4> HIDE DEF a, free, hosts, T, s
      <4> QED  BY <3>4, <3>7, <3>8 DEF SlotStarts
    <3> QED  BY <3>1, <3>9
  <2>3. hosts \in Seq(Host)
    <3>1. ASSUME NEW j \in DOMAIN reader PROVE reader[j].host \in Host
      <4>1. reader[j] \in Readers  BY <2>1
      <4> QED  BY <4>1 DEF Readers
    <3>2. Len(reader) \in Nat /\ DOMAIN reader = 1 .. Len(reader)
      <4> HIDE DEF a, free, hosts, T, s
      <4> QED  BY <2>1
    <3>3. hosts \in [1 .. Len(reader) -> Host]  BY <3>1, <3>2
    <3> HIDE DEF a, free, hosts, T, s
    <3> QED  BY <3>2, <3>3
  <2>4. TakenFrom(s.hosts, hosts, T, Host)
    <3>1. HostsAt(t) = AtPositions(hosts, T)  BY DEF HostsAt
    <3>2. T \subseteq DOMAIN hosts  OBVIOUS
    <3> HIDE DEF hosts, T
    <3> QED  BY <2>3, <3>1, <3>2, AtPositionsIs
  <2>5. ASSUME NEW i \in T, asked.multi = "all" => Len(s.hosts) = Len(Users)
        PROVE  s \in answer.slots
    <3>1. i \in DOMAIN reader /\ t \in SlotStarts(reader[i].free, asked)  OBVIOUS
    <3>2. t \in UNION {SlotStarts(reader[j].free, asked) : j \in DOMAIN reader}  BY <3>1
    <3> HIDE DEF T, a, free, hosts
    <3>3. s \in Bookable  BY <2>5, <3>2 DEF Bookable
    <3> QED  BY <2>1, <3>3
  <2>6. CASE asked.multi # "all"
    <3> SUFFICES ASSUME NEW i \in free
                 PROVE  \E z \in answer.slots : z.start = t /\ reader[i].host \in Range(z.hosts)
      BY <2>6
    <3>1. i \in T  BY <2>2
    <3>2. s \in answer.slots /\ s.start = t  BY <2>5, <2>6, <3>1
    <3>3. reader[i].host = hosts[i]  OBVIOUS
    <3> HIDE DEF T, hosts, s
    <3>4. reader[i].host \in Range(s.hosts)  BY <2>4, <3>1, <3>3 DEF TakenFrom
    <3> QED  BY <3>2, <3>4
  <2>7. CASE asked.multi = "all"
    <3> SUFFICES ASSUME Len(reader) = Len(Users), reader # << >>, free = DOMAIN reader
                 PROVE  \E z \in answer.slots : z.start = t
      BY <2>7
    <3>1. DOMAIN reader = 1 .. Len(reader) /\ Len(reader) \in Nat /\ 1 \in DOMAIN reader  BY <2>1
    <3>2. T = DOMAIN reader  BY <2>2
    <3>3. Cardinality(T) = Len(reader)
      <4>1. Cardinality(1 .. Len(reader)) = IF 1 > Len(reader) THEN 0 ELSE Len(reader) - 1 + 1
        BY <3>1, FS_Interval
      <4> HIDE DEF T
      <4> QED  BY <3>1, <3>2, <4>1
    <3>4. Len(s.hosts) = Len(Users)  BY <2>4, <3>3 DEF TakenFrom
    <3>5. 1 \in T  BY <3>1, <3>2
    <3>6. s \in answer.slots  BY <2>5, <3>4, <3>5
    <3> QED  BY <3>6
  <2> QED  BY <2>6, <2>7
<1> QED  BY <1>1, AlwaysRight, PTL

\* The variables keep their types.
THEOREM TypesAreKept == Spec => []TypeOK
<1>1. Inv => TypeOK
  <2> SUFFICES ASSUME Inv PROVE TypeOK  OBVIOUS
  <2>1. ASSUME NEW i \in DOMAIN reader
        PROVE  /\ reader[i].host \in Host
               /\ reader[i].stage \in {"open", "services", "calendars", "done"}
               /\ reader[i].window = None \/ reader[i].window \in Instance
               /\ \A k \in DOMAIN reader[i].free :
                    /\ reader[i].free[k] \in Instance
                    /\ reader[i].free[k].start <= reader[i].free[k].end
               /\ reader[i].busy \subseteq Instance
               /\ reader[i].left \subseteq Resource[reader[i].host].busyCalendars
    <3> DEFINE r == reader[i]
    <3>1. Typed(r, asked, clock)  BY DEF Inv, ReadersGood, AllGood, Good
    <3>2. r \in Readers  BY <3>1 DEF Typed
    <3> HIDE DEF r
    <3>3. \A k \in DOMAIN r.free : r.free[k] \in Instance  BY <3>2 DEF Readers
    <3>4. /\ r.host \in Host /\ r.stage \in Stages /\ r.window \in Instance \cup {None}
          /\ r.busy \subseteq Instance
      BY <3>2 DEF Readers
    <3>5. \A k \in DOMAIN r.free : r.free[k].start <= r.free[k].end
      BY <3>1 DEF Typed, Proper
    <3>6. r.left \subseteq Resource[r.host].busyCalendars  BY <3>1 DEF Typed
    <3> QED  BY <3>3, <3>4, <3>5, <3>6 DEF Stages, r
  <2>2. /\ store \subseteq Event /\ steady \subseteq seen /\ seen \subseteq Event
        /\ clock \in 0 .. MaxTime /\ budget \in 0 .. MaxDisturbances
        /\ answer = None \/ answer.kind \in Answers
    BY DEF Inv, Consistent, Answered
  <2> QED  BY <2>1, <2>2 DEF TypeOK
<1> QED  BY <1>1, AlwaysRight, PTL

=============================================================================
