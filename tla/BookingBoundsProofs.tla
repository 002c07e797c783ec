------------------------ MODULE BookingBoundsProofs ------------------------
(***************************************************************************)
(* How far concurrent bookings go beyond what one booking after the other  *)
(* would do, for any number of hosts, clients and slots: hosts are double  *)
(* booked, preferred or booked in a row at most as often as there are      *)
(* clients that book at the same time.                                     *)
(***************************************************************************)
EXTENDS ServiceBookingProofs, WellFoundedInduction

-----------------------------------------------------------------------------
(* Finite sets of clients and of places in the sequence of events          *)

\* When one client at most comes to a set of clients or leaves it, the size of
\* the set changes accordingly.
LEMMA OneClient ==
  ASSUME NEW c \in Client, NEW S \in SUBSET Client, NEW T \in SUBSET Client,
         \A d \in Client \ {c} : d \in T <=> d \in S
  PROVE  /\ Cardinality(S) \in Nat /\ Cardinality(T) \in Nat /\ Cardinality(Client) \in Nat
         /\ Cardinality(S) <= Cardinality(Client) /\ Cardinality(T) <= Cardinality(Client)
         /\ c \in S /\ c \notin T => Cardinality(T) = Cardinality(S) - 1
         /\ (c \in T => c \in S) => Cardinality(T) <= Cardinality(S)
<1>1. IsFiniteSet(Client)  BY DomainAssumption
<1>2. /\ IsFiniteSet(S) /\ IsFiniteSet(T)
      /\ Cardinality(S) <= Cardinality(Client) /\ Cardinality(T) <= Cardinality(Client)
  BY <1>1, FS_Subset
<1>3. Cardinality(S) \in Nat /\ Cardinality(T) \in Nat /\ Cardinality(Client) \in Nat
  BY <1>1, <1>2, FS_CardinalityType
<1>4. ASSUME c \in S, c \notin T PROVE Cardinality(T) = Cardinality(S) - 1
  <2>1. T = S \ {c}  BY <1>4
  <2> QED  BY <1>2, <1>4, <2>1, FS_RemoveElement
<1>5. ASSUME c \in T => c \in S PROVE Cardinality(T) <= Cardinality(S)
  <2>1. T \subseteq S  BY <1>5
  <2> QED  BY <1>2, <2>1, FS_Subset
<1> QED  BY <1>2, <1>3, <1>4, <1>5

\* The places of a sequence are finitely many.
LEMMA PlacesFinite ==
  ASSUME TypeOK, NEW S \in SUBSET DOMAIN events
  PROVE  IsFiniteSet(S) /\ Cardinality(S) \in Nat
<1>1. DOMAIN events = 1 .. Len(events) /\ Len(events) \in Nat  BY DEF TypeOK
<1>2. IsFiniteSet(DOMAIN events)  BY <1>1, FS_Interval
<1>3. IsFiniteSet(S)  BY <1>2, FS_Subset
<1> QED  BY <1>3, FS_CardinalityType

\* What an event added at the end does to the places of events of a kind.
LEMMA Appended ==
  ASSUME TypeOK, NEW e, events' = Append(events, e)
  PROVE  /\ Len(events) \in Nat /\ Len(events') = Len(events) + 1
         /\ DOMAIN events = 1 .. Len(events) /\ DOMAIN events' = 1 .. Len(events) + 1
         /\ \A i \in DOMAIN events : events'[i] = events[i]
         /\ events'[Len(events) + 1] = e
BY DEF TypeOK

\* A non-empty set of numbers up to n has a greatest one.
LEMMA Greatest ==
  ASSUME NEW n \in Nat, NEW S \in SUBSET (0 .. n), S # {}
  PROVE  \E k \in S : \A j \in S : j <= k
<1> DEFINE From(k) == {j \in S : j >= k}
           T == {From(k) : k \in S}
<1>1. IsFiniteSet(S)
  <2>1. IsFiniteSet(0 .. n)  BY FS_Interval
  <2> QED  BY <2>1, FS_Subset
<1>2. T \subseteq FiniteSubsetsOf(S) /\ T # {}
  <2>1. ASSUME NEW k \in S PROVE From(k) \in FiniteSubsetsOf(S)
    <3>1. From(k) \in SUBSET S  OBVIOUS
    <3>2. IsFiniteSet(From(k))  BY <1>1, <3>1, FS_Subset
    <3> QED  BY <3>1, <3>2 DEF FiniteSubsetsOf
  <2>2. From(CHOOSE k \in S : TRUE) \in T  OBVIOUS
  <2> HIDE DEF From
  <2> QED  BY <2>1, <2>2
<1>3. PICK x \in T : \A y \in T : ~(<<y, x>> \in StrictSubsetOrdering(S))
  BY <1>2, FS_StrictSubsetOrderingWellFounded, WFMin
<1>4. PICK k \in S : x = From(k)  BY <1>3
<1>5. ASSUME NEW j \in S, ~(j <= k) PROVE FALSE
  <2>1. j \in Nat /\ k \in Nat /\ j > k  BY <1>5
  <2>2. From(j) \subseteq From(k) /\ k \in From(k) /\ k \notin From(j)
    <3>1. ASSUME NEW i \in S, i >= j PROVE i >= k
      <4>1. i \in Nat  OBVIOUS
      <4> QED  BY <2>1, <3>1, <4>1
    <3>2. ~(k >= j) /\ k >= k  BY <2>1
    <3> QED  BY <3>1, <3>2
  <2>3. From(j) \in T  OBVIOUS
  <2>4. <<From(j), From(k)>> \in StrictSubsetOrdering(S)
    BY <2>2 DEF StrictSubsetOrdering
  <2> QED  BY <1>3, <1>4, <2>3, <2>4
<1> QED  BY <1>5

-----------------------------------------------------------------------------
(* A host is booked twice only by clients that overlap.                    *)

\* The bookings that may yet store an event with a host at a slot: they found
\* the host free, or were given it.
Aims(b, h, s) ==
  \/ b.at = "hosts" /\ b.slot = s /\ h \in b.free
  \/ b.at \in {"increment", "users", "told"} /\ b.slot = s /\ h \in b.hosts
Aiming(h, s) == {c \in Client : Aims(client[c], h, s)}
Places(h, s) == {i \in DOMAIN events : events[i] = [host |-> h, slot |-> s]}

\* The events of a host at a slot and the bookings that may add one are together
\* no more than the clients.
SharedInv(h, s) ==
  service.blocking => Cardinality(Places(h, s)) + Cardinality(Aiming(h, s)) <= Cardinality(Client)

\* A step that stores nothing, after which the client aims at no host that it
\* did not aim at before, unless it just found that host free.
LEMMA AimKept ==
  ASSUME TypeOK, NEW h \in Host, NEW s \in Slot, SharedInv(h, s), NEW c \in Client, NEW b,
         service'.blocking = service.blocking, events' = events,
         client' = [client EXCEPT ![c] = b],
         Aims(b, h, s) => Aims(client[c], h, s) \/ Free(h, s)
  PROVE  SharedInv(h, s)'
<1> SUFFICES ASSUME service.blocking
             PROVE  Cardinality(Places(h, s)') + Cardinality(Aiming(h, s)') <= Cardinality(Client)
  BY DEF SharedInv
<1>1. Places(h, s)' = Places(h, s)  BY DEF Places
<1>2. /\ \A d \in Client \ {c} : d \in Aiming(h, s)' <=> d \in Aiming(h, s)
      /\ Aiming(h, s) \in SUBSET Client /\ Aiming(h, s)' \in SUBSET Client
      /\ c \in Aiming(h, s)' <=> Aims(b, h, s)
      /\ c \in Aiming(h, s) <=> Aims(client[c], h, s)
  <2>1. client' \in [Client -> {client[d] : d \in Client} \cup {b}]  BY DEF TypeOK
  <2>2. client'[c] = b /\ \A d \in Client \ {c} : client'[d] = client[d]  BY DEF TypeOK
  <2> QED  BY <2>2 DEF Aiming
<1>3. CASE Aims(b, h, s) => Aims(client[c], h, s)
  <2>1. Cardinality(Aiming(h, s)') <= Cardinality(Aiming(h, s))  BY <1>2, <1>3, OneClient
  <2>2. /\ Cardinality(Aiming(h, s)') \in Nat /\ Cardinality(Aiming(h, s)) \in Nat
        /\ Cardinality(Client) \in Nat
    BY <1>2, OneClient
  <2>3. Cardinality(Places(h, s)) \in Nat  BY PlacesFinite DEF Places
  <2> QED  BY <1>1, <2>1, <2>2, <2>3 DEF SharedInv
<1>4. CASE Free(h, s)
  <2>1. Places(h, s) = {}  BY <1>4 DEF Places, Free
  <2>2. Cardinality(Places(h, s)') = 0  BY <1>1, <2>1, FS_EmptySet
  <2>3. /\ Cardinality(Aiming(h, s)') \in Nat /\ Cardinality(Client) \in Nat
        /\ Cardinality(Aiming(h, s)') <= Cardinality(Client)
    BY <1>2, OneClient
  <2> QED  BY <2>2, <2>3
<1> QED  BY <1>3, <1>4

\* A stored event takes the place of an aim.
LEMMA AimReached ==
  ASSUME TypeOK, NEW h \in Host, NEW s \in Slot, SharedInv(h, s), NEW c \in Client, NEW g \in Host,
         CreateEvent(c, g)
  PROVE  SharedInv(h, s)'
<1> DEFINE b == client[c]
           n == Len(events) + 1
<1> SUFFICES ASSUME service.blocking
             PROVE  Cardinality(Places(h, s)') + Cardinality(Aiming(h, s)') <= Cardinality(Client)
  BY DEF SharedInv, CreateEvent
<1>1. b \in Told /\ g \in b.hosts  BY Stages DEF CreateEvent, TypeOK
<1>2. /\ \A d \in Client \ {c} : d \in Aiming(h, s)' <=> d \in Aiming(h, s)
      /\ Aiming(h, s) \in SUBSET Client /\ Aiming(h, s)' \in SUBSET Client
      /\ c \in Aiming(h, s)' <=> Aims(Stored(b, g), h, s)
      /\ c \in Aiming(h, s) <=> Aims(b, h, s)
  <2>1. client' = [client EXCEPT ![c] = Stored(b, g)]  BY DEF CreateEvent
  <2>2. client'[c] = Stored(b, g) /\ \A d \in Client \ {c} : client'[d] = client[d]
    BY <2>1 DEF TypeOK
  <2> QED  BY <2>2 DEF Aiming
<1>3. Aims(Stored(b, g), h, s) => Aims(b, h, s) /\ h # g
  BY <1>1 DEF Stored, Aims, Told, Idle
<1>4. Aims(b, h, s) <=> b.slot = s /\ h \in b.hosts  BY <1>1 DEF Aims, Told
<1>5. events' = Append(events, [host |-> g, slot |-> b.slot])  BY DEF CreateEvent
<1>6. /\ n \in Nat /\ DOMAIN events = 1 .. Len(events) /\ DOMAIN events' = 1 .. n
      /\ \A i \in DOMAIN events : events'[i] = events[i]
      /\ events'[n] = [host |-> g, slot |-> b.slot] /\ n \notin DOMAIN events
  BY <1>5, Appended
<1>7. IsFiniteSet(Places(h, s)) /\ Cardinality(Places(h, s)) \in Nat
  BY PlacesFinite DEF Places
<1>8. /\ Cardinality(Aiming(h, s)) \in Nat /\ Cardinality(Aiming(h, s)') \in Nat
      /\ Cardinality(Client) \in Nat
      /\ c \in Aiming(h, s) /\ c \notin Aiming(h, s)' =>
           Cardinality(Aiming(h, s)') = Cardinality(Aiming(h, s)) - 1
      /\ Cardinality(Aiming(h, s)') <= Cardinality(Aiming(h, s))
  BY <1>2, <1>3, OneClient
<1>9. Cardinality(Places(h, s)) + Cardinality(Aiming(h, s)) <= Cardinality(Client)
  BY DEF SharedInv
<1>10. CASE g = h /\ b.slot = s
  <2>1. Places(h, s)' = Places(h, s) \cup {n} /\ n \notin Places(h, s)
    BY <1>6, <1>10 DEF Places
  <2>2. Cardinality(Places(h, s)') = Cardinality(Places(h, s)) + 1
    BY <1>7, <2>1, FS_AddElement
  <2>3. c \in Aiming(h, s) /\ c \notin Aiming(h, s)'  BY <1>1, <1>2, <1>3, <1>4, <1>10
  <2> QED  BY <1>7, <1>8, <1>9, <2>2, <2>3
<1>11. CASE ~(g = h /\ b.slot = s)
  <2>1. Places(h, s)' = Places(h, s)  BY <1>6, <1>11 DEF Places
  <2> QED  BY <1>7, <1>8, <1>9, <2>1
<1> QED  BY <1>10, <1>11

\* Every step keeps the bound on double bookings.
LEMMA SharedStep ==
  ASSUME TypeOK, NEW h \in Host, NEW s \in Slot, SharedInv(h, s), [Next]_vars
  PROVE  SharedInv(h, s)'
<1>0. ~Aims(Idle, h, s)  BY DEF Aims, Idle
<1>1. ASSUME NEW c \in Client, NEW t \in Slot, NEW wanted \in Wanted[service.kind] \cup {Anyone},
             Ask(c, t, wanted)
      PROVE  SharedInv(h, s)'
  <2> DEFINE b == [at |-> "hosts", slot |-> t, kind |-> service.kind, spots |-> service.spots,
                   wanted |-> wanted, free |-> {},
                   unread |-> IF wanted = Anyone THEN Host ELSE wanted]
  <2>1. ~Aims(b, h, s)  BY DEF Aims
  <2> QED  BY <1>1, <2>1, AimKept DEF Ask
<1>2. ASSUME NEW c \in Client, NEW g \in Host, ReadHost(c, g) PROVE SharedInv(h, s)'
  <2> DEFINE free == IF Free(g, client[c].slot) THEN {g} ELSE {}
             b == [client[c] EXCEPT !.free = @ \cup free, !.unread = @ \ {g}]
  <2>1. client[c] \in Looking  BY <1>2, Stages DEF ReadHost, TypeOK
  <2>2. h \in free => g = h /\ Free(h, client[c].slot)  OBVIOUS
  <2>3. client' = [client EXCEPT ![c] = b]  BY <1>2 DEF ReadHost
  <2> HIDE DEF free
  <2>4. b.at = "hosts" /\ b.slot = client[c].slot /\ b.free = client[c].free \cup free
    BY <2>1 DEF Looking
  <2>5. Aims(b, h, s) => Aims(client[c], h, s) \/ Free(h, s)
    BY <1>2, <2>2, <2>4 DEF Aims, ReadHost
  <2> QED  BY <1>2, <2>3, <2>5, AimKept DEF ReadHost
<1>3. ASSUME NEW c \in Client, Refuse(c) \/ StorageError(c) PROVE SharedInv(h, s)'
  BY <1>0, <1>3, AimKept DEF Refuse, StorageError
<1>4. ASSUME NEW c \in Client, NEW hosts, hosts \subseteq client[c].free, client[c].at = "hosts",
             Choose(c, hosts)
      PROVE  SharedInv(h, s)'
  <2>1. Aims(Chosen(client[c], hosts, TRUE), h, s) => Aims(client[c], h, s)
    BY <1>4 DEF Aims, Chosen
  <2> QED  BY <1>4, <2>1, AimKept DEF Choose
<1>5. ASSUME NEW c \in Client,
             \/ TakeWanted(c) \/ TakeOnly(c) \/ TakeLeastRecent(c) \/ TakeFewest(c) \/ TakeAll(c)
      PROVE  SharedInv(h, s)'
  <2>1. client[c].at = "hosts"
    BY <1>5 DEF TakeWanted, TakeOnly, TakeLeastRecent, TakeFewest, TakeAll, Granted, RoundRobin,
                Open, SlotFound
  <2>2. TakeAll(c) => client[c].free = Host
    BY DEF TakeAll, RoundRobin, Open, SlotFound, NeedsAll
  <2>3. PICK hosts : hosts \subseteq client[c].free /\ Choose(c, hosts)
    <3>1. CASE TakeWanted(c)  BY <3>1 DEF TakeWanted, Granted
    <3>2. CASE TakeOnly(c)  BY <3>2 DEF TakeOnly
    <3>3. CASE TakeLeastRecent(c)
      <4>1. PICK g \in client[c].free : Choose(c, {g})  BY <3>3 DEF TakeLeastRecent, LeastRecent
      <4> QED  BY <4>1
    <3>4. CASE TakeFewest(c)
      <4>1. PICK g \in client[c].free : Choose(c, {g})  BY <3>4 DEF TakeFewest, Fewest
      <4> QED  BY <4>1
    <3>5. CASE TakeAll(c)  BY <2>2, <3>5 DEF TakeAll
    <3> QED  BY <1>5, <3>1, <3>2, <3>3, <3>4, <3>5
  <2> QED  BY <1>4, <2>1, <2>3
<1>6. ASSUME NEW c \in Client, ReadCount(c) PROVE SharedInv(h, s)'
  <2> DEFINE b == [at |-> "increment", slot |-> client[c].slot, hosts |-> Host,
                   tell |-> LastSeat(client[c]), found |-> count[client[c].slot]]
  <2>1. client[c].at = "hosts" /\ client[c].free = Host
    BY <1>6 DEF ReadCount, Open, SlotFound, NeedsAll
  <2>2. Aims(b, h, s) => Aims(client[c], h, s)  BY <2>1 DEF Aims
  <2> QED  BY <1>6, <2>2, AimKept DEF ReadCount
<1>7. ASSUME NEW c \in Client, Increment(c) PROVE SharedInv(h, s)'
  <2> DEFINE b == [Chosen(client[c], client[c].hosts, client[c].tell) EXCEPT !.reserved = TRUE]
  <2>1. b.slot = client[c].slot /\ b.hosts = client[c].hosts /\ b.at = "users"  BY DEF Chosen
  <2>2. Aims(b, h, s) => Aims(client[c], h, s)  BY <1>7, <2>1 DEF Aims, Increment
  <2> QED  BY <1>7, <2>2, AimKept DEF Increment
<1>8. ASSUME NEW c \in Client, Reply(c) PROVE SharedInv(h, s)'
  <2> DEFINE b == IF client[c].tell
                  THEN [at |-> "told", slot |-> client[c].slot, hosts |-> client[c].hosts] ELSE Idle
  <2>1. Aims(b, h, s) => Aims(client[c], h, s)  BY <1>0, <1>8 DEF Aims, Reply
  <2> QED  BY <1>8, <2>1, AimKept DEF Reply
<1>9. ASSUME NEW c \in Client, NEW g \in Host, CreateEvent(c, g) PROVE SharedInv(h, s)'
  BY <1>9, AimReached
<1>10. ASSUME service'.blocking = service.blocking, client' = client,
              events' = events \/ events' = << >>
       PROVE  SharedInv(h, s)'
  <2>1. Aiming(h, s)' = Aiming(h, s)  BY <1>10 DEF Aiming
  <2>2. Places(h, s)' = Places(h, s) \/ Places(h, s)' = {}  BY <1>10 DEF Places
  <2>3. /\ Cardinality(Aiming(h, s)) \in Nat /\ Cardinality(Client) \in Nat
        /\ Cardinality(Aiming(h, s)) <= Cardinality(Client) /\ Cardinality({}) = 0
    BY DomainAssumption, FS_EmptySet, FS_Subset, FS_CardinalityType DEF Aiming
  <2>4. service'.blocking =>
          Cardinality(Places(h, s)') + Cardinality(Aiming(h, s)') <= Cardinality(Client)
    <3>1. CASE Places(h, s)' = Places(h, s)  BY <1>10, <2>1, <3>1 DEF SharedInv
    <3>2. CASE Places(h, s)' = {}  BY <2>1, <2>3, <3>2
    <3> QED  BY <2>2, <3>1, <3>2
  <2> QED  BY <2>4 DEF SharedInv
<1>11. CASE \/ \E t \in Slot : Withdraw(t)
            \/ \E o \in Options[service.kind] : UpdateBegin(o)
            \/ UpdateSave \/ UpdateFails \/ UNCHANGED vars
  <2>1. service'.blocking = service.blocking
    BY <1>11 DEF Withdraw, UpdateBegin, UpdateSave, UpdateFails, vars, TypeOK
  <2> QED  BY <1>10, <1>11, <2>1 DEF Withdraw, UpdateBegin, UpdateSave, UpdateFails, vars
<1> QED
  BY <1>1, <1>2, <1>3, <1>5, <1>6, <1>7, <1>8, <1>9, <1>11 DEF Next

\* A host that events block is booked for a slot at most once for each client,
\* whatever fails, is given back or is updated meanwhile.
THEOREM FewDoubleBookings == Spec => []DoubleBookedByFew
<1> DEFINE Inv == TypeOK /\ \A h \in Host, s \in Slot : SharedInv(h, s)
<1>1. Init => Inv
  <2> SUFFICES ASSUME Init, NEW h \in Host, NEW s \in Slot PROVE SharedInv(h, s)
    BY TypeInit
  <2>1. Places(h, s) = {}  BY DEF Init, Places
  <2>2. Aiming(h, s) = {}  BY DEF Init, Aiming, Aims, Idle
  <2>3. Cardinality({}) = 0 /\ Cardinality(Client) \in Nat
    BY DomainAssumption, FS_EmptySet, FS_CardinalityType
  <2> QED  BY <2>1, <2>2, <2>3 DEF SharedInv
<1>2. Inv /\ [Next]_vars => Inv'
  <2> SUFFICES ASSUME Inv, [Next]_vars PROVE Inv'
    OBVIOUS
  <2>1. TypeOK'  BY TypeStep
  <2>2. \A h \in Host, s \in Slot : SharedInv(h, s)'  BY SharedStep
  <2> QED  BY <2>1, <2>2
<1>3. Inv => DoubleBookedByFew
  <2> SUFFICES ASSUME Inv, service.blocking, NEW h \in Host, NEW s \in Slot
               PROVE  Cardinality(Places(h, s)) <= Cardinality(Client)
    BY DEF DoubleBookedByFew, Places
  <2>1. Cardinality(Places(h, s)) \in Nat /\ Cardinality(Aiming(h, s)) \in Nat
        /\ Cardinality(Client) \in Nat
    BY PlacesFinite, DomainAssumption, FS_Subset, FS_CardinalityType DEF Places, Aiming
  <2> QED  BY <2>1 DEF SharedInv
<1> QED  BY <1>1, <1>2, <1>3, PTL DEF Spec

-----------------------------------------------------------------------------
(* The two ways to distribute bookings over hosts that are always free     *)

TurnKinds == {"availability", "equal"}

\* What must be so: clients leave the choice of the host to the server, and no
\* other service becomes one that distributes its bookings. Each would leave
\* events behind that nobody distributed.
LeftToServer ==
  /\ \A k \in TurnKinds : Wanted[k] = {}
  /\ \A k \in Kind : \A o \in Options[k] : o.kind \in TurnKinds => o.kind = k

\* The booking has a host
Has(b, h) == b.at \in {"users", "told"} /\ h \in b.hosts

\* A client of such a service asks for any host and is given one; hosts that are
\* always free are all found to be.
TurnClient(c) ==
  LET b == client[c]
  IN  /\ b.at = "hosts" => /\ b.kind = service.kind /\ b.wanted = Anyone
                           /\ ~service.blocking => Host \subseteq b.free \cup b.unread
      /\ b.at # "increment"
      /\ b.at \in {"users", "told"} => \E h \in Host : b.hosts = {h}
TurnInv ==
  /\ service.kind \in TurnKinds => \A c \in Client : TurnClient(c)
  /\ update.at = "save" /\ update.to.kind \in TurnKinds => service.kind = update.to.kind

\* What a step can do to such a service: no booking comes to a host, one host is
\* chosen by the rule of the service, or an event is stored with the host of a
\* booking.
Quietly ==
  /\ events' = events
  /\ \/ client' = client
     \/ \E c \in Client, b \in Booking :
          /\ client' = [client EXCEPT ![c] = b]
          /\ \A h \in Host : Has(b, h) => Has(client[c], h) /\ b.slot = client[c].slot
Chooses(c, h) ==
  /\ client[c] \in Looking /\ client[c].unread = {} /\ h \in client[c].free
  /\ client' = [client EXCEPT ![c] = Chosen(client[c], {h}, TRUE)] /\ events' = events
  /\ client[c].free # {h} =>
       \/ client[c].kind = "availability" /\ h \in LeastRecent(client[c].free)
       \/ client[c].kind = "equal" /\ h \in Fewest(client[c].free)
Stores(c, h) ==
  /\ client[c] \in Told /\ client[c].hosts = {h}
  /\ events' = Append(events, [host |-> h, slot |-> client[c].slot])
  /\ client' = [client EXCEPT ![c] = Idle]

\* The kind of such a service stays what it was, and no other becomes one.
LEMMA KindStays ==
  ASSUME TypeOK, TurnInv, [Next]_vars, service'.kind \in TurnKinds
  PROVE  service.kind = service'.kind /\ service.blocking = service'.blocking
<1>1. CASE UpdateSave  BY <1>1 DEF UpdateSave, TurnInv, TypeOK
<1>2. CASE service' = service  BY <1>2
<1> QED
  BY <1>1, <1>2 DEF Next, Ask, ReadHost, CreateEvent, Refuse, TakeWanted, TakeOnly, TakeLeastRecent,
                    TakeFewest, TakeAll, Choose, ReadCount, Increment, Reply, StorageError, Withdraw,
                    UpdateBegin, UpdateFails, vars

\* The server chooses by the rule of the service.
LEMMA ChoiceOf ==
  ASSUME TypeOK, NEW c \in Client, TakeOnly(c) \/ TakeLeastRecent(c) \/ TakeFewest(c)
  PROVE  \E h \in Host : Chooses(c, h)
<1>1. client[c].at = "hosts" /\ client[c].unread = {}
  BY DEF TakeOnly, TakeLeastRecent, TakeFewest, RoundRobin, Open, SlotFound
<1>2. client[c] \in Looking /\ client[c].free \subseteq Host
  BY <1>1, Stages DEF TypeOK, Looking
<1>3. PICK h \in client[c].free :
        /\ Choose(c, {h})
        /\ client[c].free # {h} =>
             \/ client[c].kind = "availability" /\ h \in LeastRecent(client[c].free)
             \/ client[c].kind = "equal" /\ h \in Fewest(client[c].free)
  <2>1. CASE TakeOnly(c)
    <3>1. IsFiniteSet(client[c].free)  BY <1>2, FS_Subset, DomainAssumption
    <3>2. PICK h : client[c].free = {h}  BY <2>1, <3>1, FS_Singleton DEF TakeOnly
    <3> QED  BY <2>1, <3>2 DEF TakeOnly
  <2>2. CASE TakeLeastRecent(c)
    <3>1. PICK h \in LeastRecent(client[c].free) : Choose(c, {h})  BY <2>2 DEF TakeLeastRecent
    <3>2. h \in client[c].free  BY <3>1 DEF LeastRecent
    <3> QED  BY <2>2, <3>1, <3>2 DEF TakeLeastRecent, RoundRobin
  <2>3. CASE TakeFewest(c)
    <3>1. PICK h \in Fewest(client[c].free) : Choose(c, {h})  BY <2>3 DEF TakeFewest
    <3>2. h \in client[c].free  BY <3>1 DEF Fewest
    <3> QED  BY <2>3, <3>1, <3>2 DEF TakeFewest, RoundRobin
  <2> QED  BY <2>1, <2>2, <2>3
<1> QED  BY <1>1, <1>2, <1>3 DEF Chooses, Choose

\* Nobody asks for all the hosts, or for some.
LEMMA NoOtherChoice ==
  ASSUME service.kind \in TurnKinds, NEW c \in Client, TurnClient(c)
  PROVE  ~(TakeWanted(c) \/ TakeAll(c) \/ ReadCount(c) \/ Increment(c))
BY DEF TakeWanted, TakeAll, ReadCount, Increment, Granted, RoundRobin, Open, SlotFound,
       TurnClient, TurnKinds

\* A step goes quietly, chooses a host for a client, or stores the event of one.
LEMMA TurnCases ==
  ASSUME TypeOK, TurnInv, [Next]_vars, service.kind \in TurnKinds
  PROVE  \/ Quietly
         \/ \E c \in Client, h \in Host : Chooses(c, h)
         \/ \E c \in Client, h \in Host : Stores(c, h)
<1>0. \A c \in Client : TurnClient(c)  BY DEF TurnInv
<1>1. ASSUME NEW c \in Client,
             \/ \E s \in Slot, wanted \in Wanted[service.kind] \cup {Anyone} : Ask(c, s, wanted)
             \/ \E h \in Host : ReadHost(c, h)
             \/ Refuse(c) \/ StorageError(c)
      PROVE  Quietly
  <2>1. events' = events  BY <1>1 DEF Ask, ReadHost, Refuse, StorageError
  <2>2. PICK b : client' = [client EXCEPT ![c] = b] /\ b.at \notin {"users", "told"}
    <3>1. CASE \E s \in Slot, wanted \in Wanted[service.kind] \cup {Anyone} : Ask(c, s, wanted)
      BY <3>1 DEF Ask
    <3>2. CASE \E h \in Host : ReadHost(c, h)
      <4>1. PICK h \in Host : ReadHost(c, h)  BY <3>2
      <4>2. client[c] \in Looking  BY <4>1, Stages DEF ReadHost, TypeOK
      <4> DEFINE free == IF Free(h, client[c].slot) THEN {h} ELSE {}
                 b == [client[c] EXCEPT !.free = @ \cup free, !.unread = @ \ {h}]
      <4> HIDE DEF free
      <4>3. b.at = "hosts"  BY <4>1, <4>2 DEF ReadHost, Looking
      <4>4. client' = [client EXCEPT ![c] = b]  BY <4>1 DEF ReadHost, free
      <4> QED  BY <4>3, <4>4
    <3>3. CASE Refuse(c) \/ StorageError(c)
      BY <3>3 DEF Refuse, StorageError, Idle
    <3> QED  BY <1>1, <3>1, <3>2, <3>3
  <2>3. b \in Booking
    <3>1. TypeOK'  BY TypeStep
    <3>2. client'[c] = b  BY <2>2 DEF TypeOK
    <3> QED  BY <3>1, <3>2 DEF TypeOK
  <2> QED  BY <2>1, <2>2, <2>3 DEF Quietly, Has
<1>2. ASSUME NEW c \in Client, TakeWanted(c) \/ TakeAll(c) \/ ReadCount(c) \/ Increment(c)
      PROVE  FALSE
  BY <1>0, <1>2, NoOtherChoice
<1>3. ASSUME NEW c \in Client, TakeOnly(c) \/ TakeLeastRecent(c) \/ TakeFewest(c)
      PROVE  \E h \in Host : Chooses(c, h)
  BY <1>3, ChoiceOf
<1>4. ASSUME NEW c \in Client, Reply(c) PROVE Quietly
  <2> DEFINE b == IF client[c].tell
                  THEN [at |-> "told", slot |-> client[c].slot, hosts |-> client[c].hosts] ELSE Idle
  <2>1. client[c] \in Chose  BY <1>4, Stages DEF Reply, TypeOK
  <2>2. b \in Booking  BY <2>1 DEF Chose, Booking, Told, Waiting, Idle
  <2>3. \A h \in Host : Has(b, h) => Has(client[c], h) /\ b.slot = client[c].slot
    BY <1>4 DEF Has, Reply, Idle
  <2>4. client' = [client EXCEPT ![c] = b] /\ events' = events  BY <1>4 DEF Reply
  <2> HIDE DEF b
  <2> QED  BY <2>2, <2>3, <2>4 DEF Quietly
<1>5. ASSUME NEW c \in Client, NEW h \in Host, CreateEvent(c, h) PROVE Stores(c, h)
  <2>1. client[c] \in Told  BY <1>5, Stages DEF CreateEvent, TypeOK
  <2>2. client[c].hosts = {h}  BY <1>0, <1>5 DEF TurnClient, CreateEvent
  <2> QED  BY <1>5, <2>1, <2>2 DEF CreateEvent, Stores, Stored
<1>6. CASE \/ \E s \in Slot : Withdraw(s)
           \/ \E o \in Options[service.kind] : UpdateBegin(o)
           \/ UpdateSave \/ UpdateFails \/ UNCHANGED vars
  BY <1>6 DEF Withdraw, UpdateBegin, UpdateSave, UpdateFails, vars, Quietly, Reopens, TurnKinds
<1> QED  BY <1>1, <1>2, <1>3, <1>4, <1>5, <1>6 DEF Next

\* What every step leaves so.
LEMMA TurnInit == Init => TurnInv
BY DEF Init, TurnInv, TurnClient, Idle

\* Every step keeps the bookkeeping of the turns.
LEMMA TurnStep ==
  ASSUME LeftToServer, TypeOK, TurnInv, [Next]_vars
  PROVE  TurnInv'
<1>1. ASSUME update'.at = "save", update'.to.kind \in TurnKinds
      PROVE  service'.kind = update'.to.kind
  <2>1. CASE UpdateSave \/ UpdateFails  BY <1>1, <2>1 DEF UpdateSave, UpdateFails, Idle
  <2>2. ASSUME NEW o \in Options[service.kind], UpdateBegin(o) PROVE service'.kind = update'.to.kind
    <3>1. service.kind \in Kind  BY DEF TypeOK
    <3> QED  BY <1>1, <2>2, <3>1 DEF UpdateBegin, LeftToServer
  <2>3. CASE update' = update /\ service' = service  BY <1>1, <2>3 DEF TurnInv
  <2> QED
    BY <2>1, <2>2, <2>3 DEF Next, Ask, ReadHost, CreateEvent, Refuse, TakeWanted, TakeOnly,
            TakeLeastRecent, TakeFewest, TakeAll, Choose, ReadCount, Increment, Reply, StorageError,
            Withdraw, vars
<1>2. ASSUME service'.kind \in TurnKinds, NEW e \in Client PROVE TurnClient(e)'
  <2>1. service'.kind = service.kind /\ service'.blocking = service.blocking
    BY <1>2, KindStays
  <2>2. TurnClient(e)  BY <1>2, <2>1 DEF TurnInv
  <2>3. CASE client'[e] = client[e]  BY <2>1, <2>2, <2>3 DEF TurnClient
  <2>4. CASE client'[e] = Idle  BY <2>4 DEF TurnClient, Idle
  <2>5. CASE \E s \in Slot, wanted \in Wanted[service.kind] \cup {Anyone} : Ask(e, s, wanted)
    <3>1. PICK s \in Slot, wanted \in Wanted[service.kind] \cup {Anyone} : Ask(e, s, wanted)
      BY <2>5
    <3>2. wanted = Anyone  BY <1>2, <2>1 DEF LeftToServer
    <3> DEFINE b == [at |-> "hosts", slot |-> s, kind |-> service.kind, spots |-> service.spots,
                     wanted |-> wanted, free |-> {},
                     unread |-> IF wanted = Anyone THEN Host ELSE wanted]
    <3>3. client'[e] = b  BY <3>1 DEF Ask, TypeOK
    <3> QED  BY <2>1, <3>2, <3>3 DEF TurnClient
  <2>6. CASE \E h \in Host : ReadHost(e, h)
    <3>1. PICK h \in Host : ReadHost(e, h)  BY <2>6
    <3>2. client[e] \in Looking  BY <3>1, Stages DEF ReadHost, TypeOK
    <3> DEFINE free == IF Free(h, client[e].slot) THEN {h} ELSE {}
               b == [client[e] EXCEPT !.free = @ \cup free, !.unread = @ \ {h}]
    <3>3. client'[e] = b  BY <3>1 DEF ReadHost, TypeOK
    <3>4. ~service.blocking => h \in free  BY DEF Free
    <3> HIDE DEF free
    <3>5. /\ b.at = "hosts" /\ b.kind = client[e].kind /\ b.wanted = client[e].wanted
          /\ b.free = client[e].free \cup free /\ b.unread = client[e].unread \ {h}
      BY <3>2 DEF Looking
    <3> QED  BY <2>1, <2>2, <3>1, <3>3, <3>4, <3>5 DEF TurnClient, ReadHost
  <2>7. CASE \E h \in Host : Chooses(e, h)
    BY <2>7 DEF Chooses, Chosen, TurnClient, TypeOK
  <2>8. CASE Reply(e)
    <3>1. client'[e] = IF client[e].tell
                       THEN [at |-> "told", slot |-> client[e].slot, hosts |-> client[e].hosts] ELSE Idle
      BY <2>8 DEF Reply, TypeOK
    <3> QED  BY <2>2, <2>8, <3>1 DEF Reply, TurnClient, Idle
  <2>9. ASSUME NEW d \in Client,
               \/ \E s \in Slot, wanted \in Wanted[service.kind] \cup {Anyone} : Ask(d, s, wanted)
               \/ \E h \in Host : ReadHost(d, h) \/ Chooses(d, h) \/ Stores(d, h)
               \/ Reply(d) \/ Refuse(d) \/ StorageError(d)
        PROVE  TurnClient(e)'
    <3>1. CASE d # e
      <4>1. client'[e] = client[e]
        BY <2>9, <3>1 DEF Ask, ReadHost, Chooses, Stores, Reply, Refuse, StorageError, TypeOK
      <4> QED  BY <2>3, <4>1
    <3>2. CASE d = e
      <4>1. (\E h \in Host : Stores(e, h)) \/ Refuse(e) \/ StorageError(e) => client'[e] = Idle
        BY DEF Stores, Refuse, StorageError, TypeOK
      <4> QED  BY <2>4, <2>5, <2>6, <2>7, <2>8, <2>9, <3>2, <4>1
    <3> QED  BY <3>1, <3>2
  <2>10. CASE UNCHANGED vars \/ client' = client  BY <2>3, <2>10 DEF vars
  <2>11. ASSUME NEW d \in Client, NEW h \in Host, CreateEvent(d, h) PROVE Stores(d, h)
    <3>1. client[d] \in Told  BY <2>11, Stages DEF CreateEvent, TypeOK
    <3>2. TurnClient(d)  BY <1>2, <2>1 DEF TurnInv
    <3>3. client[d].hosts = {h}  BY <2>11, <3>2 DEF TurnClient, CreateEvent
    <3> QED  BY <2>11, <3>1, <3>3 DEF CreateEvent, Stores, Stored
  <2>12. ASSUME NEW d \in Client, TakeOnly(d) \/ TakeLeastRecent(d) \/ TakeFewest(d)
         PROVE  \E h \in Host : Chooses(d, h)
    BY <2>12, ChoiceOf
  <2>13. ASSUME NEW d \in Client, TakeWanted(d) \/ TakeAll(d) \/ ReadCount(d) \/ Increment(d)
         PROVE  FALSE
    BY <1>2, <2>1, <2>13, NoOtherChoice DEF TurnInv
  <2>14. ASSUME NEW d \in Client, NEW h \in Host, CreateEvent(d, h) PROVE TurnClient(e)'
    <3>1. \E g \in Host : ReadHost(d, g) \/ Chooses(d, g) \/ Stores(d, g)  BY <2>11, <2>14
    <3> QED  BY <2>9, <3>1
  <2>15. ASSUME NEW d \in Client,
                \/ TakeWanted(d) \/ TakeOnly(d) \/ TakeLeastRecent(d) \/ TakeFewest(d)
                \/ TakeAll(d) \/ ReadCount(d) \/ Increment(d)
         PROVE  TurnClient(e)'
    BY <2>9, <2>12, <2>13, <2>15
  <2>16. CASE \/ \E s \in Slot : Withdraw(s)
              \/ \E o \in Options[service.kind] : UpdateBegin(o)
              \/ UpdateSave \/ UpdateFails
    BY <2>10, <2>16 DEF Withdraw, UpdateBegin, UpdateSave, UpdateFails
  <2>17. CASE Next
    <3>1. ASSUME NEW d \in Client,
                 \/ \E s \in Slot, wanted \in Wanted[service.kind] \cup {Anyone} : Ask(d, s, wanted)
                 \/ \E h \in Host : ReadHost(d, h)
                 \/ Reply(d) \/ Refuse(d) \/ StorageError(d)
          PROVE  TurnClient(e)'
      <4>1. CASE \E h \in Host : ReadHost(d, h)
        <5>1. \E h \in Host : ReadHost(d, h) \/ Chooses(d, h) \/ Stores(d, h)  BY <4>1
        <5> QED  BY <2>9, <5>1
      <4> QED  BY <2>9, <3>1, <4>1
    <3> QED  BY <2>14, <2>15, <2>16, <2>17, <3>1 DEF Next
  <2> QED  BY <2>10, <2>17
<1> QED  BY <1>1, <1>2 DEF TurnInv

-----------------------------------------------------------------------------
(* Equal distribution                                                      *)

\* The bookings that will store an event of the next two months with a host
Holding(h) == {c \in Client : Has(client[c], h) /\ client[c].slot \in Near}

\* The events of a host and the bookings that hold one are no more than the
\* events of any other host, and one for each client.
SpreadInv(g, h) ==
  service.kind = "equal" /\ ~service.blocking =>
    Cardinality(NearEvents(h)) + Cardinality(Holding(h))
      <= Cardinality(NearEvents(g)) + Cardinality(Client)

\* The near events of a host are finitely many.
LEMMA NearCounted ==
  ASSUME TypeOK, NEW h
  PROVE  IsFiniteSet(NearEvents(h)) /\ Cardinality(NearEvents(h)) \in Nat
BY PlacesFinite DEF NearEvents

\* A host has one more event, or as many as before.
LEMMA NearAppended ==
  ASSUME TypeOK, NEW h, NEW e, events' = Append(events, e)
  PROVE  Cardinality(NearEvents(h)') = Cardinality(NearEvents(h))
                                       + (IF e.host = h /\ e.slot \in Near THEN 1 ELSE 0)
<1> DEFINE n == Len(events) + 1
<1>1. /\ n \in Nat /\ DOMAIN events = 1 .. Len(events) /\ DOMAIN events' = 1 .. n
      /\ \A i \in DOMAIN events : events'[i] = events[i]
      /\ events'[n] = e /\ n \notin DOMAIN events
  BY Appended
<1>2. IsFiniteSet(NearEvents(h)) /\ Cardinality(NearEvents(h)) \in Nat  BY NearCounted
<1>3. CASE e.host = h /\ e.slot \in Near
  <2>1. NearEvents(h)' = NearEvents(h) \cup {n} /\ n \notin NearEvents(h)
    BY <1>1, <1>3 DEF NearEvents
  <2> QED  BY <1>2, <1>3, <2>1, FS_AddElement
<1>4. CASE ~(e.host = h /\ e.slot \in Near)
  <2>1. NearEvents(h)' = NearEvents(h)  BY <1>1, <1>4 DEF NearEvents
  <2> QED  BY <1>2, <1>4, <2>1
<1> QED  BY <1>3, <1>4

\* When one client alone moves, another host's bookings stay.
LEMMA HoldingMoves ==
  ASSUME TypeOK, NEW h, NEW c \in Client, NEW b, client' = [client EXCEPT ![c] = b]
  PROVE  /\ Holding(h) \in SUBSET Client /\ Holding(h)' \in SUBSET Client
         /\ \A d \in Client \ {c} : d \in Holding(h)' <=> d \in Holding(h)
         /\ c \in Holding(h)' <=> Has(b, h) /\ b.slot \in Near
         /\ c \in Holding(h) <=> Has(client[c], h) /\ client[c].slot \in Near
<1>1. client'[c] = b /\ \A d \in Client \ {c} : client'[d] = client[d]  BY DEF TypeOK
<1> QED  BY <1>1 DEF Holding

\* The clients that hold a host are at most all of them.
LEMMA HoldingCounted ==
  ASSUME NEW h
  PROVE  /\ Cardinality(Holding(h)) \in Nat /\ Cardinality(Client) \in Nat
         /\ Cardinality(Holding(h)) <= Cardinality(Client)
<1>1. Holding(h) \in SUBSET Client  BY DEF Holding
<1> QED  BY <1>1, DomainAssumption, FS_Subset, FS_CardinalityType

\* Every step keeps the spread of the hosts.
LEMMA SpreadStep ==
  ASSUME TypeOK, TurnInv, NEW g \in Host, NEW h \in Host, SpreadInv(g, h), [Next]_vars
  PROVE  SpreadInv(g, h)'
<1> SUFFICES ASSUME service'.kind = "equal", ~service'.blocking
             PROVE  Cardinality(NearEvents(h)') + Cardinality(Holding(h)')
                      <= Cardinality(NearEvents(g)') + Cardinality(Client)
  BY DEF SpreadInv
<1>1. service.kind = "equal" /\ ~service.blocking  BY KindStays DEF TurnKinds
<1>2. Cardinality(NearEvents(h)) + Cardinality(Holding(h))
        <= Cardinality(NearEvents(g)) + Cardinality(Client)
  BY <1>1 DEF SpreadInv
<1>3. /\ Cardinality(NearEvents(h)) \in Nat /\ Cardinality(NearEvents(g)) \in Nat
      /\ Cardinality(Holding(h)) \in Nat /\ Cardinality(Client) \in Nat
  BY NearCounted, HoldingCounted
<1>4. Cardinality(Holding(h)') \in Nat /\ Cardinality(Holding(h)') <= Cardinality(Client)
  <2>1. Holding(h)' \in SUBSET Client  BY DEF Holding
  <2> QED  BY <2>1, DomainAssumption, FS_Subset, FS_CardinalityType
<1>5. CASE Quietly
  <2>1. NearEvents(h)' = NearEvents(h) /\ NearEvents(g)' = NearEvents(g)
    BY <1>5 DEF Quietly, NearEvents
  <2>2. Cardinality(Holding(h)') <= Cardinality(Holding(h))
    <3>1. CASE client' = client
      <4>1. Holding(h)' = Holding(h)  BY <3>1 DEF Holding
      <4> QED  BY <1>3, <4>1
    <3>2. ASSUME NEW c \in Client, NEW b, client' = [client EXCEPT ![c] = b],
                 Has(b, h) => Has(client[c], h) /\ b.slot = client[c].slot
          PROVE  Cardinality(Holding(h)') <= Cardinality(Holding(h))
      <4>1. c \in Holding(h)' => c \in Holding(h)  BY <3>2, HoldingMoves
      <4> QED  BY <3>2, <4>1, HoldingMoves, OneClient
    <3> QED  BY <1>5, <3>1, <3>2 DEF Quietly
  <2> QED  BY <1>2, <1>3, <1>4, <2>1, <2>2
<1>6. ASSUME NEW c \in Client, NEW k \in Host, Chooses(c, k)
      PROVE  Cardinality(NearEvents(h)') + Cardinality(Holding(h)')
               <= Cardinality(NearEvents(g)') + Cardinality(Client)
  <2> DEFINE b == Chosen(client[c], {k}, TRUE)
  <2>1. NearEvents(h)' = NearEvents(h) /\ NearEvents(g)' = NearEvents(g)
    BY <1>6 DEF Chooses, NearEvents
  <2>2. CASE k # h
    <3>1. client' = [client EXCEPT ![c] = b] /\ ~Has(b, h)
      BY <1>6, <2>2 DEF Chooses, Chosen, Has
    <3> HIDE DEF b
    <3>2. Cardinality(Holding(h)') <= Cardinality(Holding(h))
      BY <3>1, HoldingMoves, OneClient
    <3> QED  BY <1>2, <1>3, <1>4, <2>1, <3>2
  <2>3. CASE k = h
    <3>1. client[c].at = "hosts" /\ client[c].unread = {} /\ h \in client[c].free
      BY <1>6, <2>3 DEF Chooses, Looking
    <3>2. client[c].kind = "equal" /\ Host \subseteq client[c].free
      BY <1>1, <3>1 DEF TurnInv, TurnKinds, TurnClient
    <3>3. Cardinality(NearEvents(h)) <= Cardinality(NearEvents(g))
      <4>1. CASE client[c].free = {h}
        <5>1. g = h  BY <3>2, <4>1
        <5> QED  BY <1>3, <5>1
      <4>2. CASE client[c].free # {h}
        <5>1. h \in Fewest(client[c].free)  BY <1>6, <2>3, <3>2, <4>2 DEF Chooses
        <5>2. g \in client[c].free  BY <3>2
        <5> QED  BY <5>1, <5>2 DEF Fewest
      <4> QED  BY <4>1, <4>2
    <3> QED  BY <1>3, <1>4, <2>1, <3>3
  <2> QED  BY <2>2, <2>3
<1>7. ASSUME NEW c \in Client, NEW k \in Host, Stores(c, k)
      PROVE  Cardinality(NearEvents(h)') + Cardinality(Holding(h)')
               <= Cardinality(NearEvents(g)') + Cardinality(Client)
  <2> DEFINE e == [host |-> k, slot |-> client[c].slot]
  <2>1. events' = Append(events, e) /\ client' = [client EXCEPT ![c] = Idle]
    BY <1>7 DEF Stores
  <2>2. e.host = k /\ e.slot = client[c].slot  OBVIOUS
  <2> HIDE DEF e
  <2>3. /\ Cardinality(NearEvents(h)') = Cardinality(NearEvents(h))
                                         + (IF k = h /\ client[c].slot \in Near THEN 1 ELSE 0)
        /\ Cardinality(NearEvents(g)') = Cardinality(NearEvents(g))
                                         + (IF k = g /\ client[c].slot \in Near THEN 1 ELSE 0)
    BY <2>1, <2>2, NearAppended
  <2>4. ~Has(Idle, h)  BY DEF Has, Idle
  <2>5. Has(client[c], h) <=> k = h  BY <1>7 DEF Stores, Told, Has
  <2>6. CASE k = h /\ client[c].slot \in Near
    <3>1. c \in Holding(h) /\ c \notin Holding(h)'  BY <2>1, <2>4, <2>5, <2>6, HoldingMoves
    <3>2. Cardinality(Holding(h)') = Cardinality(Holding(h)) - 1
      BY <2>1, <3>1, HoldingMoves, OneClient
    <3> QED  BY <1>2, <1>3, <1>4, <2>3, <2>6, <3>2
  <2>7. CASE ~(k = h /\ client[c].slot \in Near)
    <3>1. Cardinality(Holding(h)') <= Cardinality(Holding(h))
      BY <2>1, <2>4, HoldingMoves, OneClient
    <3> QED  BY <1>2, <1>3, <1>4, <2>3, <2>7, <3>1
  <2> QED  BY <2>6, <2>7
<1> QED  BY <1>1, <1>5, <1>6, <1>7, TurnCases DEF TurnKinds

\* Where clients leave the choice to the server, hosts who are always free get
\* equally many events but for one for each client, whatever fails and however the
\* bookings overlap.
THEOREM SpreadOverHosts == LeftToServer => (Spec => []EvenlySpread)
<1> SUFFICES ASSUME LeftToServer PROVE Spec => []EvenlySpread
  OBVIOUS
<1> DEFINE Inv == TypeOK /\ TurnInv /\ \A g, h \in Host : SpreadInv(g, h)
<1>1. Init => Inv
  <2> SUFFICES ASSUME Init, NEW g \in Host, NEW h \in Host PROVE SpreadInv(g, h)
    BY TypeInit, TurnInit
  <2>1. NearEvents(g) = {} /\ NearEvents(h) = {}  BY DEF Init, NearEvents
  <2>2. Holding(h) = {}  BY DEF Init, Holding, Has, Idle
  <2>3. Cardinality({}) = 0 /\ Cardinality(Client) \in Nat
    BY DomainAssumption, FS_EmptySet, FS_CardinalityType
  <2> QED  BY <2>1, <2>2, <2>3 DEF SpreadInv
<1>2. Inv /\ [Next]_vars => Inv'
  <2> SUFFICES ASSUME Inv, [Next]_vars PROVE Inv'
    OBVIOUS
  <2>1. TypeOK' /\ TurnInv'  BY TypeStep, TurnStep
  <2>2. \A g, h \in Host : SpreadInv(g, h)'  BY SpreadStep
  <2> QED  BY <2>1, <2>2
<1>3. Inv => EvenlySpread
  <2> SUFFICES ASSUME Inv, service.kind = "equal", ~service.blocking, NEW g \in Host, NEW h \in Host
               PROVE  Cardinality(NearEvents(h)) <= Cardinality(NearEvents(g)) + Cardinality(Client)
    BY DEF EvenlySpread
  <2>1. /\ Cardinality(NearEvents(h)) \in Nat /\ Cardinality(NearEvents(g)) \in Nat
        /\ Cardinality(Holding(h)) \in Nat /\ Cardinality(Client) \in Nat
    BY NearCounted, HoldingCounted
  <2> QED  BY <2>1 DEF SpreadInv
<1> QED  BY <1>1, <1>2, <1>3, PTL DEF Spec

-----------------------------------------------------------------------------
(* Turns                                                                   *)

\* Where a host was last booked
LEMMA PositionFound ==
  ASSUME TypeOK, NEW h
  PROVE  /\ Position(h) \in 0 .. Len(events)
         /\ Position(h) # 0 => events[Position(h)].host = h
         /\ \A j \in Position(h) + 1 .. Len(events) : events[j].host # h
<1> DEFINE S == {0} \cup {i \in DOMAIN events : events[i].host = h}
<1>1. DOMAIN events = 1 .. Len(events) /\ Len(events) \in Nat  BY DEF TypeOK
<1>2. S \in SUBSET (0 .. Len(events)) /\ S # {}  BY <1>1
<1>3. PICK k \in S : \A j \in S : j <= k  BY <1>1, <1>2, Greatest
<1>4. k \in 0 .. Len(events) /\ (k # 0 => events[k].host = h)  BY <1>2, <1>3
<1>5. ASSUME NEW j \in k + 1 .. Len(events), events[j].host = h PROVE FALSE
  <2>1. j \in S /\ j > k  BY <1>1, <1>4, <1>5
  <2> QED  BY <1>3, <1>4, <2>1
<1> QED  BY <1>4, <1>5 DEF Position

\* The bookings that will store an event with a host
Given(h) == {c \in Client : Has(client[c], h)}

\* From event i on, all events are a host's.
LastRun(h, i) == \A k \in i .. Len(events) : events[k].host = h
Run(i, j) == \A k \in i .. j : events[k].host = events[i].host

\* The host of the last events and the bookings that were given that host: a host
\* whose event is the last one is not given to another booking.
TurnsInv ==
  service.kind = "availability" /\ ~service.blocking /\ Cardinality(Host) > 1 =>
    /\ \A h \in Host : \A i \in DOMAIN events :
         LastRun(h, i) => Len(events) - i + 1 + Cardinality(Given(h)) <= Cardinality(Client)
    /\ \A i, j \in DOMAIN events : Run(i, j) => j - i < Cardinality(Client)

\* A step of one client gives it a host, or takes one from it, at most.
LEMMA GivenMoves ==
  ASSUME TypeOK, NEW h, NEW c \in Client, NEW b, client' = [client EXCEPT ![c] = b]
  PROVE  /\ Given(h) \in SUBSET Client /\ Given(h)' \in SUBSET Client
         /\ \A d \in Client \ {c} : d \in Given(h)' <=> d \in Given(h)
         /\ c \in Given(h)' <=> Has(b, h)
         /\ c \in Given(h) <=> Has(client[c], h)
<1>1. client'[c] = b /\ \A d \in Client \ {c} : client'[d] = client[d]  BY DEF TypeOK
<1> QED  BY <1>1 DEF Given

\* The clients that were given a host are finitely many.
LEMMA GivenCounted ==
  ASSUME NEW h
  PROVE  Cardinality(Given(h)) \in Nat /\ Cardinality(Client) \in Nat
<1>1. Given(h) \in SUBSET Client  BY DEF Given
<1> QED  BY <1>1, DomainAssumption, FS_Subset, FS_CardinalityType

\* The host of the last event is not chosen when there is another one.
LEMMA LastNotChosen ==
  ASSUME TypeOK, TurnInv, service.kind = "availability", ~service.blocking, Cardinality(Host) > 1,
         NEW c \in Client, NEW h \in Host, Chooses(c, h), NEW i \in DOMAIN events, LastRun(h, i)
  PROVE  FALSE
<1>1. /\ DOMAIN events = 1 .. Len(events) /\ Len(events) \in Nat /\ Len(events) # 0
      /\ events[Len(events)].host = h
  BY DEF TypeOK, LastRun
<1>2. client[c].at = "hosts" /\ client[c].unread = {} /\ client[c] \in Looking
  BY DEF Chooses, Looking
<1>3. client[c].kind = "availability" /\ client[c].free = Host
  BY <1>2 DEF TurnInv, TurnKinds, TurnClient, Looking
<1>4. Host # {h}
  <2>1. Cardinality({h}) = 1  BY FS_Singleton
  <2> QED  BY <2>1
<1>5. h \in LeastRecent(Host)  BY <1>3, <1>4 DEF Chooses
<1>6. PICK g \in Host : g # h  BY <1>4
<1>7. Position(h) <= Position(g)  BY <1>5 DEF LeastRecent
<1>8. Position(h) = Len(events)
  <2>1. Position(h) \in 0 .. Len(events) /\ ~(Len(events) \in Position(h) + 1 .. Len(events))
    BY <1>1, PositionFound
  <2> QED  BY <1>1, <2>1
<1>9. Position(g) = Len(events)
  <2>1. Position(g) \in 0 .. Len(events)  BY PositionFound
  <2> QED  BY <1>1, <1>7, <1>8, <2>1
<1> QED  BY <1>1, <1>6, <1>9, PositionFound

\* Every step keeps the hosts taking turns.
LEMMA TurnsStep ==
  ASSUME TypeOK, TurnInv, TurnsInv, [Next]_vars
  PROVE  TurnsInv'
<1> SUFFICES ASSUME service'.kind = "availability", ~service'.blocking, Cardinality(Host) > 1
             PROVE  /\ \A h \in Host : \A i \in DOMAIN events' :
                         LastRun(h, i)' =>
                           Len(events') - i + 1 + Cardinality(Given(h)') <= Cardinality(Client)
                    /\ \A i, j \in DOMAIN events' : Run(i, j)' => j - i < Cardinality(Client)
  BY DEF TurnsInv
<1>1. service.kind = "availability" /\ ~service.blocking  BY KindStays DEF TurnKinds
<1>2. \A h \in Host : \A i \in DOMAIN events :
        LastRun(h, i) => Len(events) - i + 1 + Cardinality(Given(h)) <= Cardinality(Client)
  BY <1>1 DEF TurnsInv
<1>3. \A i, j \in DOMAIN events : Run(i, j) => j - i < Cardinality(Client)
  BY <1>1 DEF TurnsInv
<1>4. \A h : Cardinality(Given(h)) \in Nat /\ Cardinality(Client) \in Nat  BY GivenCounted
<1>5. \A h : Cardinality(Given(h)') \in Nat
  <2> SUFFICES ASSUME NEW h PROVE Cardinality(Given(h)') \in Nat
    OBVIOUS
  <2>1. Given(h)' \in SUBSET Client  BY DEF Given
  <2> QED  BY <2>1, DomainAssumption, FS_Subset, FS_CardinalityType
<1>6. DOMAIN events = 1 .. Len(events) /\ Len(events) \in Nat  BY DEF TypeOK
<1>7. ASSUME events' = events,
             \A h \in Host : \/ Cardinality(Given(h)') <= Cardinality(Given(h))
                             \/ ~(\E i \in DOMAIN events : LastRun(h, i))
      PROVE  /\ \A h \in Host : \A i \in DOMAIN events' :
                  LastRun(h, i)' =>
                    Len(events') - i + 1 + Cardinality(Given(h)') <= Cardinality(Client)
             /\ \A i, j \in DOMAIN events' : Run(i, j)' => j - i < Cardinality(Client)
  <2>1. ASSUME NEW h \in Host, NEW i \in DOMAIN events, LastRun(h, i)'
        PROVE  Len(events) - i + 1 + Cardinality(Given(h)') <= Cardinality(Client)
    <3>1. LastRun(h, i)  BY <1>7, <2>1 DEF LastRun
    <3>2. Cardinality(Given(h)') <= Cardinality(Given(h))  BY <1>7, <3>1
    <3>3. Len(events) - i + 1 + Cardinality(Given(h)) <= Cardinality(Client)  BY <1>2, <3>1
    <3> HIDE <1>2, <1>3
    <3> QED  BY <1>4, <1>5, <1>6, <3>2, <3>3
  <2>2. ASSUME NEW i \in DOMAIN events, NEW j \in DOMAIN events, Run(i, j)'
        PROVE  j - i < Cardinality(Client)
    <3>1. Run(i, j)  BY <1>7, <2>2 DEF Run
    <3> QED  BY <1>3, <3>1
  <2> QED  BY <1>7, <2>1, <2>2
<1>8. CASE Quietly
  <2>1. events' = events  BY <1>8 DEF Quietly
  <2>2. ASSUME NEW h \in Host PROVE Cardinality(Given(h)') <= Cardinality(Given(h))
    <3>1. CASE client' = client
      <4>1. Given(h)' = Given(h)  BY <3>1 DEF Given
      <4> QED  BY <1>4, <4>1
    <3>2. ASSUME NEW c \in Client, NEW b, client' = [client EXCEPT ![c] = b],
                 Has(b, h) => Has(client[c], h)
          PROVE  Cardinality(Given(h)') <= Cardinality(Given(h))
      <4>1. c \in Given(h)' => c \in Given(h)  BY <3>2, GivenMoves
      <4> QED  BY <3>2, <4>1, GivenMoves, OneClient
    <3> QED  BY <1>8, <3>1, <3>2 DEF Quietly
  <2> QED  BY <1>7, <2>1, <2>2
<1>9. ASSUME NEW c \in Client, NEW g \in Host, Chooses(c, g)
      PROVE  /\ \A h \in Host : \A i \in DOMAIN events' :
                  LastRun(h, i)' =>
                    Len(events') - i + 1 + Cardinality(Given(h)') <= Cardinality(Client)
             /\ \A i, j \in DOMAIN events' : Run(i, j)' => j - i < Cardinality(Client)
  <2> DEFINE b == Chosen(client[c], {g}, TRUE)
  <2>1. events' = events /\ client' = [client EXCEPT ![c] = b]  BY <1>9 DEF Chooses
  <2>2. \A h : Has(b, h) <=> h = g  BY DEF Chosen, Has
  <2> HIDE DEF b
  <2>3. ~(\E i \in DOMAIN events : LastRun(g, i))  BY <1>1, <1>9, LastNotChosen
  <2>4. ASSUME NEW h \in Host, h # g PROVE Cardinality(Given(h)') <= Cardinality(Given(h))
    BY <2>1, <2>2, <2>4, GivenMoves, OneClient
  <2> QED  BY <1>7, <2>1, <2>3, <2>4
<1>10. ASSUME NEW c \in Client, NEW g \in Host, Stores(c, g)
       PROVE  /\ \A h \in Host : \A i \in DOMAIN events' :
                   LastRun(h, i)' =>
                     Len(events') - i + 1 + Cardinality(Given(h)') <= Cardinality(Client)
              /\ \A i, j \in DOMAIN events' : Run(i, j)' => j - i < Cardinality(Client)
  <2> DEFINE e == [host |-> g, slot |-> client[c].slot]
             n == Len(events) + 1
  <2>1. events' = Append(events, e) /\ client' = [client EXCEPT ![c] = Idle] /\ e.host = g
    BY <1>10 DEF Stores
  <2> HIDE DEF e
  <2>2. /\ n \in Nat /\ Len(events') = n /\ DOMAIN events' = 1 .. n
        /\ \A i \in DOMAIN events : events'[i] = events[i]
        /\ events'[n] = e
    BY <2>1, Appended
  <2>3. Has(client[c], g) /\ ~Has(Idle, g)  BY <1>10 DEF Stores, Told, Has, Idle
  <2>4. Cardinality(Given(g)') = Cardinality(Given(g)) - 1
    BY <2>1, <2>3, GivenMoves, OneClient
  <2>5. Cardinality(Given(g)) <= Cardinality(Client)
    <3>1. Given(g) \in SUBSET Client  BY DEF Given
    <3> QED  BY <3>1, DomainAssumption, FS_Subset
  <2>6. ASSUME NEW h \in Host, NEW i \in 1 .. n, LastRun(h, i)'
        PROVE  n - i + 1 + Cardinality(Given(h)') <= Cardinality(Client)
    <3>1. \A k \in i .. n : events'[k].host = h  BY <2>2, <2>6 DEF LastRun
    <3>2. n \in i .. n  BY <2>2
    <3>3. h = g  BY <2>1, <2>2, <3>1, <3>2
    <3>4. CASE i = n  BY <1>4, <1>5, <2>2, <2>4, <2>5, <3>3, <3>4
    <3>5. CASE i # n
      <4>1. i \in DOMAIN events  BY <1>6, <2>2, <3>5
      <4>2. LastRun(h, i)
        <5>1. ASSUME NEW k \in i .. Len(events) PROVE events[k].host = h
          <6>1. k \in i .. n /\ k \in DOMAIN events  BY <1>6, <2>2, <4>1
          <6> QED  BY <2>2, <3>1, <6>1
        <5> QED  BY <5>1 DEF LastRun
      <4>3. Len(events) - i + 1 + Cardinality(Given(h)) <= Cardinality(Client)
        BY <1>2, <4>1, <4>2
      <4> QED  BY <1>4, <1>5, <1>6, <2>4, <3>3, <4>1, <4>3
    <3> QED  BY <3>4, <3>5
  <2>7. ASSUME NEW i \in 1 .. n, NEW j \in 1 .. n, Run(i, j)' PROVE j - i < Cardinality(Client)
    <3>1. \A k \in i .. j : events'[k].host = events'[i].host  BY <2>7 DEF Run
    <3>2. CASE j = n
      <4>1. n \in i .. n  BY <2>2
      <4>2. events'[i].host = g  BY <2>1, <2>2, <3>1, <3>2, <4>1
      <4>3. LastRun(g, i)'  BY <2>2, <3>1, <3>2, <4>2 DEF LastRun
      <4>4. n - i + 1 + Cardinality(Given(g)') <= Cardinality(Client)  BY <2>6, <4>3
      <4>5. Cardinality(Given(g)') \in Nat /\ Cardinality(Client) \in Nat /\ n \in Nat
        BY <1>4, <1>5, <2>2
      <4> HIDE DEF n
      <4> QED  BY <3>2, <4>4, <4>5
    <3>3. CASE j # n /\ i = n
      <4>1. Cardinality(Client) \in Nat  BY GivenCounted
      <4> QED  BY <2>2, <3>3, <4>1
    <3>4. CASE j # n /\ i # n
      <4>1. i \in DOMAIN events /\ j \in DOMAIN events  BY <1>6, <2>2, <3>4
      <4>2. Run(i, j)
        <5>1. ASSUME NEW k \in i .. j PROVE events[k].host = events[i].host
          <6>1. k \in DOMAIN events  BY <1>6, <4>1
          <6> QED  BY <2>2, <3>1, <4>1, <6>1
        <5> QED  BY <5>1 DEF Run
      <4> QED  BY <1>3, <4>1, <4>2
    <3> QED  BY <3>2, <3>3, <3>4
  <2> QED  BY <2>2, <2>6, <2>7
<1> QED  BY <1>1, <1>8, <1>9, <1>10, TurnCases DEF TurnKinds

\* Where clients leave the choice to the server and there is more than one host,
\* none is booked more often in a row than there are clients, whatever fails and
\* however the bookings overlap.
THEOREM HostsTakeTurns == LeftToServer => (Spec => []TakesTurns)
<1> SUFFICES ASSUME LeftToServer PROVE Spec => []TakesTurns
  OBVIOUS
<1> DEFINE Inv == TypeOK /\ TurnInv /\ TurnsInv
<1>1. Init => Inv
  <2> SUFFICES ASSUME Init PROVE TurnsInv
    BY TypeInit, TurnInit
  <2>1. DOMAIN events = {}  BY DEF Init
  <2> QED  BY <2>1 DEF TurnsInv
<1>2. Inv /\ [Next]_vars => Inv'  BY TypeStep, TurnStep, TurnsStep
<1>3. Inv => TakesTurns
  <2> SUFFICES ASSUME Inv, service.kind = "availability", ~service.blocking, Cardinality(Host) > 1,
                      NEW i \in DOMAIN events, NEW j \in DOMAIN events, j - i >= Cardinality(Client),
                      \A k \in i .. j : events[k].host = events[i].host
               PROVE  FALSE
    BY DEF TakesTurns
  <2>1. j - i < Cardinality(Client)  BY DEF TurnsInv, Run
  <2>2. i \in Nat /\ j \in Nat /\ Cardinality(Client) \in Nat
    BY DomainAssumption, FS_CardinalityType DEF TypeOK
  <2> QED  BY <2>1, <2>2
<1> QED  BY <1>1, <1>2, <1>3, PTL DEF Spec

-----------------------------------------------------------------------------
(* A group is exceeded by few seats.                                       *)

\* What must be so besides Calm: no group is given fewer spots than it has.
KeepsSpots ==
  service.kind = "group" /\ service'.kind = "group" => service'.spots >= service.spots

Closed(s) == \E i \in DOMAIN events : events[i].slot = s

\* The booking of a slot was told to store its events and does not come back to
\* the slot before the slot is closed.
Leaves(b, s) == b.at \in {"users", "told"} /\ b.slot = s /\ (b.at = "users" => b.tell)

\* The client may take one more seat of a slot: it is about to, may yet find every
\* host free, or the slot is open and the client comes back to it.
Might(b, s) ==
  \/ b.at = "increment" /\ b.slot = s
  \/ b.at = "hosts" /\ b.slot = s /\ \A h \in Host : h \in b.free \/ (h \in b.unread /\ Free(h, s))
  \/ ~Closed(s) /\ ~Leaves(b, s)

\* It may take two: it was not told to close the slot when it counted the seats.
Twice(b, s) == b.at = "increment" /\ b.slot = s /\ ~b.tell

Once(s) == {c \in Client : Might(client[c], s)}
Two(s) == {c \in Client : Twice(client[c], s)}
Load(s) == count[s] + Cardinality(Once(s)) + Cardinality(Two(s))

Others == Cardinality(Client) - 1
Slack == (2 + Reopened) * Others + Failed
Growing == update.at = "save" /\ update.to.kind = "group" /\ update.to.spots > service.spots

\* From the last seat but one on, the seats that are taken and those that may yet
\* be are no more than the bound allows; a group that is being reopened is about
\* to have one spot more at least, unless that fails.
OverInv(s) ==
  service.kind = "group" /\ service.blocking =>
    /\ count[s] <= service.spots + Slack
    /\ service.spots = 0 =>
         count[s] = 0 /\ \A c \in Client : ~(client[c].at = "increment" /\ client[c].slot = s)
    /\ service.spots >= 1 /\ count[s] >= service.spots - 1 =>
         Load(s) <= service.spots + Slack + (IF Growing THEN 1 ELSE 0)

ReopenedInv == Reopened \in Nat

\* Nothing that was spent comes back.
LEMMA Spent ==
  ASSUME TypeOK, [Next]_vars, NEW e \in Expense
  PROVE  budget[e] \in Nat /\ budget'[e] \in Nat /\ budget'[e] <= budget[e]
<1>1. budget[e] \in Nat  BY DEF TypeOK
<1>2. budget' = budget \/ \E what \in Expense : Spend(what)
  BY DEF Next, Ask, ReadHost, CreateEvent, Refuse, TakeWanted, TakeOnly, TakeLeastRecent,
         TakeFewest, TakeAll, Choose, ReadCount, Increment, Reply, StorageError, Withdraw,
         UpdateBegin, UpdateSave, UpdateFails, Expense, vars
<1>3. CASE budget' = budget  BY <1>1, <1>3
<1>4. CASE \E what \in Expense : Spend(what)  BY <1>1, <1>4 DEF Spend, TypeOK
<1> QED  BY <1>2, <1>3, <1>4

\* Only an update that begins adds to what was reopened.
LEMMA ReopenedStep ==
  ASSUME TypeOK, ReopenedInv, [Next]_vars
  PROVE  /\ Reopened \in Nat /\ Reopened' \in Nat /\ Reopened' >= Reopened
         /\ (\E o \in Options[service.kind] : UpdateBegin(o)) => Reopened' = Reopened + 1
<1>0. "updates" \in Expense /\ Limit["updates"] \in Nat  BY DomainAssumption DEF Expense
<1>1. /\ budget["updates"] \in Nat /\ budget'["updates"] \in Nat
      /\ budget'["updates"] <= budget["updates"] /\ Limit["updates"] \in Nat
  BY <1>0, Spent
<1>2. ASSUME NEW o \in Options[service.kind], UpdateBegin(o)
      PROVE  budget'["updates"] = budget["updates"] - 1
  BY <1>2 DEF UpdateBegin, Spend, TypeOK, Expense
<1>3. Limit["updates"] - budget["updates"] \in Nat  BY DEF ReopenedInv, Reopened
<1>4. Limit["updates"] - budget'["updates"] \in Nat
      /\ Limit["updates"] - budget'["updates"] >= Limit["updates"] - budget["updates"]
  BY <1>1, <1>3
<1>5. ASSUME NEW o \in Options[service.kind], UpdateBegin(o)
      PROVE  Limit["updates"] - budget'["updates"] = Limit["updates"] - budget["updates"] + 1
  BY <1>1, <1>2, <1>5
<1> QED  BY <1>3, <1>4, <1>5 DEF Reopened

\* Failures are never taken back, and each is counted.
LEMMA FailedGrows ==
  ASSUME TypeOK, FailedInv, [Next]_vars
  PROVE  /\ Failed \in Nat /\ Failed' \in Nat /\ Failed' >= Failed
         /\ UpdateFails \/ (\E c \in Client : StorageError(c)) => Failed' = Failed + 1
<1>0. "failures" \in Expense /\ Limit["failures"] \in Nat  BY DomainAssumption DEF Expense
<1>1. /\ budget["failures"] \in Nat /\ budget'["failures"] \in Nat
      /\ budget'["failures"] <= budget["failures"] /\ Limit["failures"] \in Nat
  BY <1>0, Spent
<1>2. ASSUME UpdateFails \/ \E c \in Client : StorageError(c)
      PROVE  budget'["failures"] = budget["failures"] - 1
  BY <1>2 DEF UpdateFails, StorageError, Spend, TypeOK, Expense
<1>3. Limit["failures"] - budget["failures"] \in Nat  BY DEF FailedInv, Failed
<1>4. Limit["failures"] - budget'["failures"] \in Nat
      /\ Limit["failures"] - budget'["failures"] >= Limit["failures"] - budget["failures"]
  BY <1>1, <1>3
<1>5. ASSUME UpdateFails \/ \E c \in Client : StorageError(c)
      PROVE  Limit["failures"] - budget'["failures"] = Limit["failures"] - budget["failures"] + 1
  BY <1>1, <1>2, <1>5
<1> QED  BY <1>3, <1>4, <1>5 DEF Failed

\* The products the bounds are made of are naturals.
LEMMA Factors ==
  ASSUME NEW r \in Nat, NEW m \in Nat
  PROVE  /\ (2 + r) * m \in Nat /\ (2 + r) * m >= 2 * m
         /\ (2 + (r + 1)) * m = (2 + r) * m + m
<1>1. r * m \in Nat /\ (2 + r) * m = 2 * m + r * m  OBVIOUS
<1>2. (2 + (r + 1)) * m = 2 * m + r * m + m  OBVIOUS
<1> QED  BY <1>1, <1>2

\* A larger factor gives a larger product.
LEMMA FactorsGrow ==
  ASSUME NEW r \in Nat, NEW q \in Nat, NEW m \in Nat, q >= r
  PROVE  (2 + q) * m >= (2 + r) * m
<1>1. (q - r) * m >= 0
  <2>1. q - r \in Nat  OBVIOUS
  <2>2. \A x \in Nat : x * m >= 0  OBVIOUS
  <2> QED  BY <2>1, <2>2
<1>2. (2 + q) * m = (2 + r) * m + (q - r) * m  OBVIOUS
<1>3. (2 + r) * m \in Int /\ (q - r) * m \in Int  OBVIOUS
<1> QED  BY <1>1, <1>2, <1>3

\* How the bound moves.
LEMMA SlackStep ==
  ASSUME TypeOK, FailedInv, ReopenedInv, Client # {}, [Next]_vars
  PROVE  /\ Others \in Nat /\ Slack \in Nat /\ Slack' \in Nat
         /\ Slack' >= Slack /\ Slack >= 2 * Others /\ Slack' >= 2 * Others
         /\ UpdateFails \/ (\E c \in Client : StorageError(c)) => Slack' >= Slack + 1
         /\ (\E o \in Options[service.kind] : UpdateBegin(o)) => Slack' >= Slack + Others
<1>1. Others \in Nat
  <2>1. Cardinality(Client) \in Nat /\ Cardinality(Client) # 0
    BY DomainAssumption, FS_CardinalityType, FS_EmptySet
  <2> QED  BY <2>1 DEF Others
<1>2. /\ Reopened \in Nat /\ Reopened' \in Nat /\ Reopened' >= Reopened
      /\ (\E o \in Options[service.kind] : UpdateBegin(o)) => Reopened' = Reopened + 1
  BY ReopenedStep
<1>3. /\ Failed \in Nat /\ Failed' \in Nat /\ Failed' >= Failed
      /\ UpdateFails \/ (\E c \in Client : StorageError(c)) => Failed' = Failed + 1
  BY FailedGrows
<1> DEFINE F == (2 + Reopened) * Others
           G == (2 + Reopened') * Others
<1>4. F \in Nat /\ G \in Nat /\ F >= 2 * Others /\ G >= 2 * Others  BY <1>1, <1>2, Factors
<1>5. G >= F  BY <1>1, <1>2, FactorsGrow
<1>6. Reopened' = Reopened + 1 => G = F + Others
  <2> SUFFICES ASSUME Reopened' = Reopened + 1 PROVE G = F + Others
    OBVIOUS
  <2>1. (2 + (Reopened + 1)) * Others = (2 + Reopened) * Others + Others  BY <1>1, <1>2, Factors
  <2> QED  BY <2>1
<1>7. Slack = F + Failed /\ Slack' = G + Failed'
  <2>1. Others' = Others  BY DEF Others
  <2> QED  BY <2>1 DEF Slack
<1> HIDE DEF F, G
<1>8. ASSUME NEW o \in Nat, NEW f \in Nat, NEW g \in Nat, NEW d \in Nat, NEW e \in Nat,
             f >= 2 * o, g >= f, e >= d
      PROVE  /\ f + d \in Nat /\ g + e \in Nat /\ g + e >= f + d /\ f + d >= 2 * o
             /\ g + e >= 2 * o
             /\ e = d + 1 => g + e >= (f + d) + 1
             /\ g = f + o => g + e >= (f + d) + o
  BY <1>8
<1>9. /\ Slack \in Nat /\ Slack' \in Nat /\ Slack' >= Slack /\ Slack >= 2 * Others
      /\ Slack' >= 2 * Others
      /\ Failed' = Failed + 1 => Slack' >= Slack + 1
      /\ G = F + Others => Slack' >= Slack + Others
  BY <1>1, <1>3, <1>4, <1>5, <1>7, <1>8, Zenon
<1> QED  BY <1>1, <1>2, <1>3, <1>6, <1>9

\* A client that leaves a set, or none that enters it
LEMMA FewerClients ==
  ASSUME NEW S \in SUBSET Client, NEW T \in SUBSET Client, NEW c \in Client,
         \A d \in Client \ {c} : d \in T => d \in S
  PROVE  /\ Cardinality(S) \in Nat /\ Cardinality(T) \in Nat /\ Cardinality(Client) \in Nat
         /\ Cardinality(T) <= Cardinality(Client) /\ Cardinality(T) <= Cardinality(S) + 1
         /\ c \notin T => Cardinality(T) <= Cardinality(Client) - 1
         /\ (c \in T => c \in S) => Cardinality(T) <= Cardinality(S)
         /\ c \in S /\ c \notin T => Cardinality(T) <= Cardinality(S) - 1
<1>1. IsFiniteSet(Client) /\ IsFiniteSet(S) /\ IsFiniteSet(T)
  BY DomainAssumption, FS_Subset
<1>2. Cardinality(S) \in Nat /\ Cardinality(T) \in Nat /\ Cardinality(Client) \in Nat
  BY <1>1, FS_CardinalityType
<1>3. Cardinality(T) <= Cardinality(Client)  BY <1>1, FS_Subset
<1>4. ASSUME c \in T => c \in S PROVE Cardinality(T) <= Cardinality(S)
  <2>1. T \subseteq S  BY <1>4
  <2> QED  BY <1>1, <2>1, FS_Subset
<1>5. ASSUME c \notin T PROVE Cardinality(T) <= Cardinality(Client) - 1
  <2>1. T \subseteq Client \ {c} /\ IsFiniteSet(Client \ {c})  BY <1>1, <1>5, FS_Subset
  <2>2. Cardinality(T) <= Cardinality(Client \ {c})  BY <2>1, FS_Subset
  <2>3. Cardinality(Client \ {c}) = Cardinality(Client) - 1  BY <1>1, FS_RemoveElement
  <2> QED  BY <2>2, <2>3
<1>6. ASSUME c \in S, c \notin T PROVE Cardinality(T) <= Cardinality(S) - 1
  <2>1. T \subseteq S \ {c} /\ IsFiniteSet(S \ {c})  BY <1>1, <1>6, FS_Subset
  <2>2. Cardinality(T) <= Cardinality(S \ {c})  BY <2>1, FS_Subset
  <2>3. Cardinality(S \ {c}) = Cardinality(S) - 1  BY <1>1, <1>6, FS_RemoveElement
  <2> QED  BY <2>2, <2>3
<1>7. Cardinality(T) <= Cardinality(S) + 1
  <2>1. CASE c \in T => c \in S  BY <1>2, <1>4, <2>1
  <2>2. CASE c \in T /\ c \notin S
    <3>1. T \subseteq S \cup {c} /\ IsFiniteSet(S \cup {c})  BY <1>1, <2>2, FS_AddElement
    <3>2. Cardinality(T) <= Cardinality(S \cup {c})  BY <3>1, FS_Subset
    <3>3. Cardinality(S \cup {c}) = Cardinality(S) + 1  BY <1>1, <2>2, FS_AddElement
    <3> QED  BY <3>2, <3>3
  <2> QED  BY <2>1, <2>2
<1> QED  BY <1>2, <1>3, <1>4, <1>5, <1>6, <1>7

\* The load of a slot is counted by its events and the clients that may still add one.
LEMMA LoadCounted ==
  ASSUME NEW s
  PROVE  /\ Once(s) \in SUBSET Client /\ Once(s)' \in SUBSET Client
         /\ Two(s) \in SUBSET Client /\ Two(s)' \in SUBSET Client
         /\ Cardinality(Once(s)) \in Nat /\ Cardinality(Once(s)') \in Nat
         /\ Cardinality(Two(s)) \in Nat /\ Cardinality(Two(s)') \in Nat
         /\ Cardinality(Client) \in Nat
         /\ Cardinality(Once(s)') <= Cardinality(Client)
         /\ Cardinality(Two(s)') <= Cardinality(Client)
<1>1. /\ Once(s) \in SUBSET Client /\ Once(s)' \in SUBSET Client
      /\ Two(s) \in SUBSET Client /\ Two(s)' \in SUBSET Client
  BY DEF Once, Two
<1> QED  BY <1>1, DomainAssumption, FS_Subset, FS_CardinalityType

\* A step after which no more seats are taken, and no more may yet be
LEMMA OverKept ==
  ASSUME TypeOK, FailedInv, ReopenedInv, Client # {}, [Next]_vars, NEW s \in Slot, OverInv(s),
         service.kind = "group", service.blocking, service' = service,
         update' = update, count'[s] <= count[s],
         service.spots = 0 =>
           \A c \in Client : ~(client'[c].at = "increment" /\ client'[c].slot = s),
         count[s] >= service.spots - 1 =>
           Cardinality(Once(s)') + Cardinality(Two(s)')
             <= Cardinality(Once(s)) + Cardinality(Two(s)) + (Slack' - Slack)
  PROVE  OverInv(s)'
<1> DEFINE n == Cardinality(Once(s))
           m == Cardinality(Two(s))
           p == Cardinality(Once(s)')
           q == Cardinality(Two(s)')
<1>1. n \in Nat /\ m \in Nat /\ p \in Nat /\ q \in Nat  BY LoadCounted
<1>2. /\ count[s] \in Nat /\ service.spots \in Nat /\ count'[s] \in Nat
      /\ Slack \in Nat /\ Slack' \in Nat /\ Slack' >= Slack
  <2>1. TypeOK'  BY TypeStep
  <2> QED  BY <2>1, SlackStep DEF TypeOK
<1> DEFINE g == IF Growing THEN 1 ELSE 0
<1>3. g \in Nat /\ Load(s) = count[s] + n + m
  <2>1. g \in Nat  OBVIOUS
  <2>2. Load(s) = count[s] + n + m  BY DEF Load
  <2> QED  BY <2>1, <2>2
<1>4. /\ count[s] <= service.spots + Slack
      /\ service.spots = 0 => count[s] = 0
      /\ service.spots >= 1 /\ count[s] >= service.spots - 1 =>
           Load(s) <= service.spots + Slack + g
  BY DEF OverInv
<1>5. count[s] >= service.spots - 1 => p + q <= n + m + (Slack' - Slack)  OBVIOUS
<1>6. Load(s)' = count'[s] + p + q /\ (Growing' <=> Growing)
  <2>1. Load(s)' = count'[s] + p + q  BY DEF Load
  <2>2. Growing' <=> Growing  BY DEF Growing
  <2> QED  BY <2>1, <2>2
<1> HIDE DEF n, m, p, q, g
<1>7. /\ count'[s] <= service.spots + Slack'
      /\ service.spots = 0 => count'[s] = 0
      /\ service.spots >= 1 /\ count'[s] >= service.spots - 1 =>
           count'[s] + p + q <= service.spots + Slack' + g
  <2>1. count'[s] <= service.spots + Slack' /\ (service.spots = 0 => count'[s] = 0)
    BY <1>2, <1>4
  <2>2. ASSUME service.spots >= 1, count'[s] >= service.spots - 1
        PROVE  count'[s] + p + q <= service.spots + Slack' + g
    <3>1. count[s] >= service.spots - 1  BY <1>2, <2>2
    <3>2. count[s] + n + m <= service.spots + Slack + g /\ p + q <= n + m + (Slack' - Slack)
      BY <1>3, <1>4, <1>5, <2>2, <3>1
    <3>3. ASSUME NEW j \in Nat, NEW k \in Nat, NEW t \in Nat, NEW u \in Nat, NEW v \in Nat,
                 j <= k, k + n + m <= t + u + g, p + q <= n + m + (v - u)
          PROVE  j + p + q <= t + v + g
      BY <1>1, <1>3, <3>3
    <3> QED  BY <1>2, <3>2, <3>3, Zenon
  <2> QED  BY <2>1, <2>2
<1> QED  BY <1>6, <1>7 DEF OverInv, g

\* A step of one client that takes no seat
LEMMA OverClient ==
  ASSUME TypeOK, FailedInv, ReopenedInv, Client # {}, [Next]_vars, NEW s \in Slot, OverInv(s),
         service.kind = "group", service.blocking, service' = service, events' = events,
         count'[s] = count[s], update' = update,
         NEW c \in Client, NEW b, client' = [client EXCEPT ![c] = b],
         service.spots = 0 => ~(b.at = "increment" /\ b.slot = s),
         Might(b, s) => Might(client[c], s),
         count[s] >= service.spots - 1 => ~Twice(b, s)
  PROVE  OverInv(s)'
<1>1. client'[c] = b /\ \A d \in Client \ {c} : client'[d] = client[d]  BY DEF TypeOK
<1>2. \A d \in Client : Might(client[d], s)' <=> Might(client'[d], s)
  BY DEF Might, Free, Closed, Leaves
<1>3. /\ \A d \in Client \ {c} : d \in Once(s)' => d \in Once(s)
      /\ c \in Once(s)' => c \in Once(s)
  BY <1>1, <1>2 DEF Once
<1>4. /\ \A d \in Client \ {c} : d \in Two(s)' => d \in Two(s)
      /\ count[s] >= service.spots - 1 => c \notin Two(s)'
  BY <1>1 DEF Two, Twice
<1>5. /\ Once(s) \in SUBSET Client /\ Once(s)' \in SUBSET Client
      /\ Two(s) \in SUBSET Client /\ Two(s)' \in SUBSET Client
      /\ Cardinality(Once(s)) \in Nat /\ Cardinality(Once(s)') \in Nat
      /\ Cardinality(Two(s)) \in Nat /\ Cardinality(Two(s)') \in Nat
  BY LoadCounted
<1>6. Cardinality(Once(s)') <= Cardinality(Once(s))  BY <1>3, <1>5, FewerClients
<1>7. count[s] >= service.spots - 1 => Cardinality(Two(s)') <= Cardinality(Two(s))
  BY <1>4, <1>5, FewerClients
<1>8. Slack \in Nat /\ Slack' \in Nat /\ Slack' >= Slack  BY SlackStep
<1>9. count[s] >= service.spots - 1 =>
        Cardinality(Once(s)') + Cardinality(Two(s)')
          <= Cardinality(Once(s)) + Cardinality(Two(s)) + (Slack' - Slack)
  BY <1>5, <1>6, <1>7, <1>8
<1>10. service.spots = 0 =>
         \A d \in Client : ~(client'[d].at = "increment" /\ client'[d].slot = s)
  BY <1>1 DEF OverInv
<1>11. count'[s] <= count[s]  BY DEF TypeOK
<1> QED  BY <1>9, <1>10, <1>11, OverKept

\* A slot at which every host is free has no event.
LEMMA OpenWhenFree ==
  ASSUME TypeOK, service.blocking, NEW s, \A h \in Host : Free(h, s)
  PROVE  ~Closed(s)
<1> SUFFICES ASSUME NEW i \in DOMAIN events, events[i].slot = s PROVE FALSE
  BY DEF Closed
<1>1. events[i] \in [host : Host, slot : Slot]
  <2> DEFINE S == [host : Host, slot : Slot]
  <2>1. ASSUME NEW T, NEW q \in Seq(T), NEW j \in DOMAIN q PROVE q[j] \in T
    OBVIOUS
  <2>2. events \in Seq(S)  BY DEF TypeOK
  <2>3. events[i] \in S  BY <2>1, <2>2
  <2> QED  BY <2>3
<1>2. events[i].host \in Host /\ events[i] = [host |-> events[i].host, slot |-> s]  BY <1>1
<1> QED  BY <1>2 DEF Free

\* The seat that is counted was one that might be taken.
LEMMA OverIncrement ==
  ASSUME TypeOK, FailedInv, ReopenedInv, Client # {}, [Next]_vars, NEW s \in Slot, OverInv(s),
         service.kind = "group", service.blocking, update.at # "save",
         NEW c \in Client, Increment(c), client[c].slot = s
  PROVE  OverInv(s)'
<1> DEFINE b == [Chosen(client[c], client[c].hosts, client[c].tell) EXCEPT !.reserved = TRUE]
           n == Cardinality(Once(s))
           m == Cardinality(Two(s))
           p == Cardinality(Once(s)')
           q == Cardinality(Two(s)')
<1>1. client[c].at = "increment" /\ client[c] \in Counting  BY Stages DEF Increment, TypeOK
<1>2. client'[c] = b /\ \A d \in Client \ {c} : client'[d] = client[d]  BY DEF Increment, TypeOK
<1>3. b.at = "users" /\ b.slot = s /\ b.tell = client[c].tell  BY DEF Chosen
<1> HIDE DEF b
<1>4. /\ service' = service /\ events' = events /\ update' = update
      /\ count'[s] = count[s] + 1
  BY DEF Increment, Raised, TypeOK
<1>5. \A d \in Client : Might(client[d], s)' <=> Might(client'[d], s)
  BY <1>4 DEF Might, Free, Closed, Leaves
<1>6. /\ \A d \in Client \ {c} : d \in Once(s)' => d \in Once(s)
      /\ c \in Once(s) /\ (client[c].tell => c \notin Once(s)')
  BY <1>1, <1>2, <1>3, <1>5 DEF Once, Might, Leaves
<1>7. /\ \A d \in Client \ {c} : d \in Two(s)' => d \in Two(s)
      /\ c \notin Two(s)' /\ (~client[c].tell => c \in Two(s))
  BY <1>1, <1>2, <1>3 DEF Two, Twice
<1>8. /\ Once(s) \in SUBSET Client /\ Once(s)' \in SUBSET Client
      /\ Two(s) \in SUBSET Client /\ Two(s)' \in SUBSET Client
      /\ n \in Nat /\ m \in Nat /\ p \in Nat /\ q \in Nat /\ Cardinality(Client) \in Nat
  BY LoadCounted
<1>9. p <= n /\ p <= Cardinality(Client) /\ (client[c].tell => p <= n - 1)
  BY <1>6, <1>8, FewerClients
<1>10. q <= m /\ q <= Cardinality(Client) - 1 /\ (~client[c].tell => q <= m - 1)
  BY <1>7, <1>8, FewerClients
<1>11. /\ count[s] \in Nat /\ service.spots \in Nat
       /\ Slack \in Nat /\ Slack' \in Nat /\ Slack' >= Slack /\ Slack >= 2 * Others
  BY SlackStep DEF TypeOK
<1>12. ~Growing /\ ~Growing'  BY <1>4 DEF Growing
<1>13. /\ service.spots # 0 /\ count[s] <= service.spots + Slack
       /\ service.spots >= 1 /\ count[s] >= service.spots - 1 =>
            count[s] + n + m <= service.spots + Slack
  <2>1. service.spots + Slack + 0 = service.spots + Slack  BY <1>11
  <2> QED  BY <1>1, <1>12, <2>1 DEF OverInv, Load
<1>14. Load(s)' = count'[s] + p + q  BY DEF Load
<1>15. p + q <= n + m - 1 /\ p + q <= 2 * Others + 1
  <2>1. CASE client[c].tell  BY <1>8, <1>9, <1>10, <2>1 DEF Others
  <2>2. CASE ~client[c].tell  BY <1>8, <1>9, <1>10, <2>2 DEF Others
  <2> QED  BY <2>1, <2>2
<1> HIDE DEF n, m, p, q
<1>16. count[s] >= service.spots - 1 => count[s] + 1 + p + q <= service.spots + Slack'
  BY <1>8, <1>11, <1>13, <1>15
<1>17. count[s] = service.spots - 2 => count[s] + 1 + p + q <= service.spots + Slack'
  BY <1>8, <1>11, <1>15, SlackStep
<1>18. /\ count'[s] <= service.spots + Slack'
       /\ service.spots >= 1 /\ count'[s] >= service.spots - 1 =>
            count'[s] + p + q <= service.spots + Slack' + 0
  <2>1. CASE count[s] >= service.spots - 1  BY <1>4, <1>8, <1>11, <1>16, <2>1
  <2>2. CASE count[s] = service.spots - 2  BY <1>4, <1>8, <1>11, <1>17, <2>2
  <2>3. CASE count[s] < service.spots - 2  BY <1>4, <1>8, <1>11, <2>3
  <2> QED  BY <1>11, <2>1, <2>2, <2>3
<1> QED  BY <1>4, <1>12, <1>13, <1>14, <1>18 DEF OverInv

\* The client stores the next event, or is done.
LEMMA StoredTo ==
  ASSUME NEW b \in Told, NEW h
  PROVE  Stored(b, h) = Idle \/ (Stored(b, h).at = "told" /\ Stored(b, h).slot = b.slot)
<1>1. CASE b.hosts = {h}  BY <1>1 DEF Stored
<1>2. CASE b.hosts # {h}
  <2>1. Stored(b, h) = [b EXCEPT !.hosts = @ \ {h}]  BY <1>2 DEF Stored
  <2>2. [b EXCEPT !.hosts = @ \ {h}].at = "told" /\ [b EXCEPT !.hosts = @ \ {h}].slot = b.slot
    BY DEF Told
  <2> QED  BY <2>1, <2>2
<1> QED  BY <1>1, <1>2

\* A stored event closes the slot, and its client comes back to it no more.
LEMMA OverEvent ==
  ASSUME TypeOK, FailedInv, ReopenedInv, Client # {}, [Next]_vars, NEW s \in Slot, OverInv(s),
         service.kind = "group", service.blocking, update.at # "save",
         NEW c \in Client, NEW h \in Host, CreateEvent(c, h)
  PROVE  OverInv(s)'
<1> DEFINE e == [host |-> h, slot |-> client[c].slot]
<1>1. client[c] \in Told /\ client[c].at = "told"  BY Stages DEF CreateEvent, TypeOK
<1>2. /\ client'[c] = Stored(client[c], h) /\ \A d \in Client \ {c} : client'[d] = client[d]
      /\ service' = service /\ update' = update /\ count' = count /\ events' = Append(events, e)
  BY DEF CreateEvent, TypeOK
<1>3. client'[c] = Idle \/ (client'[c].at = "told" /\ client'[c].slot = client[c].slot)
  <2>1. client'[c] = Stored(client[c], h)  BY <1>2
  <2>2. \/ Stored(client[c], h) = Idle
        \/ Stored(client[c], h).at = "told" /\ Stored(client[c], h).slot = client[c].slot
    BY <1>1, StoredTo
  <2> QED  BY <2>1, <2>2
<1>4. /\ Len(events) \in Nat
      /\ DOMAIN events = 1 .. Len(events) /\ DOMAIN events' = 1 .. Len(events) + 1
      /\ \A i \in DOMAIN events : events'[i] = events[i]
      /\ events'[Len(events) + 1] = e
  BY <1>2, Appended
<1>5. Closed(s) => Closed(s)'  BY <1>4 DEF Closed
<1>6. client[c].slot = s => Closed(s)'
  <2>1. Len(events) + 1 \in DOMAIN events' /\ e.slot = client[c].slot  BY <1>4
  <2> QED  BY <1>4, <2>1 DEF Closed
<1>7. \A k : Free(k, s)' => Free(k, s)  BY <1>2, <1>4 DEF Free
<1>8. \A d \in Client \ {c} : d \in Once(s)' => d \in Once(s)
  BY <1>2, <1>5, <1>7 DEF Once, Might, Leaves
<1>9. c \in Once(s)' => c \in Once(s)
  BY <1>1, <1>3, <1>5, <1>6 DEF Once, Might, Leaves, Idle
<1>10. \A d \in Client : d \in Two(s)' => d \in Two(s)  BY <1>2, <1>3 DEF Two, Twice, Idle
<1>11. /\ Once(s) \in SUBSET Client /\ Once(s)' \in SUBSET Client
       /\ Two(s) \in SUBSET Client /\ Two(s)' \in SUBSET Client
       /\ Cardinality(Once(s)) \in Nat /\ Cardinality(Once(s)') \in Nat
       /\ Cardinality(Two(s)) \in Nat /\ Cardinality(Two(s)') \in Nat
  BY LoadCounted
<1>12. Cardinality(Once(s)') <= Cardinality(Once(s)) /\ Cardinality(Two(s)') <= Cardinality(Two(s))
  BY <1>8, <1>9, <1>10, <1>11, FewerClients
<1>13. Slack \in Nat /\ Slack' \in Nat /\ Slack' >= Slack  BY SlackStep
<1>14. Cardinality(Once(s)') + Cardinality(Two(s)')
         <= Cardinality(Once(s)) + Cardinality(Two(s)) + (Slack' - Slack)
  BY <1>11, <1>12, <1>13
<1>15. service.spots = 0 =>
         \A d \in Client : ~(client'[d].at = "increment" /\ client'[d].slot = s)
  BY <1>2, <1>3 DEF OverInv, Idle
<1>16. count'[s] <= count[s]  BY <1>2 DEF TypeOK
<1> QED  BY <1>2, <1>14, <1>15, <1>16, OverKept

\* Updates happen between bookings; reopening gives every client another chance,
\* and the group one spot more at least.
LEMMA OverUpdate ==
  ASSUME TypeOK, FailedInv, ReopenedInv, Client # {}, [Next]_vars, NEW s \in Slot, OverInv(s),
         service.kind = "group", service.blocking, service'.kind = "group", service'.blocking,
         service'.spots >= service.spots, \A c \in Client : client[c].at = "idle",
         UpdateSave \/ UpdateFails \/ \E o \in Options[service.kind] : UpdateBegin(o)
  PROVE  OverInv(s)'
<1> DEFINE n == Cardinality(Once(s))
           p == Cardinality(Once(s)')
<1>1. client' = client /\ count' = count
  BY DEF UpdateSave, UpdateFails, UpdateBegin
<1>2. Two(s) = {} /\ Two(s)' = {}  BY <1>1 DEF Two, Twice
<1>3. Cardinality(Two(s)) = 0 /\ Cardinality(Two(s)') = 0  BY <1>2, FS_EmptySet
<1>4. n \in Nat /\ p \in Nat /\ p <= Others + 1
  BY LoadCounted DEF Others
<1>5. /\ count[s] \in Nat /\ service.spots \in Nat /\ service'.spots \in Nat
      /\ Slack \in Nat /\ Slack' \in Nat /\ Slack' >= Slack /\ Slack >= 2 * Others /\ Others \in Nat
      /\ Slack' >= 2 * Others
  <2>1. TypeOK'  BY TypeStep
  <2> QED  BY <2>1, SlackStep DEF TypeOK
<1>6. Load(s) = count[s] + n /\ Load(s)' = count[s] + p
  BY <1>1, <1>3, <1>4, <1>5 DEF Load
<1>7. /\ count[s] <= service.spots + Slack
      /\ service.spots = 0 => count[s] = 0
      /\ service.spots >= 1 /\ count[s] >= service.spots - 1 =>
           Load(s) <= service.spots + Slack + (IF Growing THEN 1 ELSE 0)
  BY DEF OverInv
<1>8. events' = events => p = n
  <2> SUFFICES ASSUME events' = events PROVE Once(s)' = Once(s)
    OBVIOUS
  <2>1. Closed(s)' <=> Closed(s)  BY DEF Closed
  <2>2. \A c \in Client : Might(client[c], s)' <=> Might(client[c], s)
    BY <1>1, <2>1 DEF Might, Leaves
  <2> QED  BY <2>2 DEF Once
<1> HIDE DEF n, p
<1>9. /\ count[s] <= service'.spots + Slack'
      /\ service'.spots >= 1 /\ count[s] >= service'.spots - 1 =>
           count[s] + p <= service'.spots + Slack' + (IF Growing' THEN 1 ELSE 0)
  <2>1. CASE UpdateSave
    <3>1. /\ service'.spots = update.to.spots /\ events' = events /\ update.at = "save"
          /\ update.to.kind = "group" /\ update'.at # "save"
      BY <2>1 DEF UpdateSave, TypeOK, Idle
    <3>2. (Growing <=> service'.spots > service.spots) /\ ~Growing'  BY <3>1 DEF Growing
    <3>3. ASSUME service'.spots >= 1, count[s] >= service'.spots - 1
          PROVE  count[s] + p <= service'.spots + Slack' + 0
      <4>1. CASE service.spots >= 1
        <5>1. CASE Growing  BY <1>4, <1>5, <1>6, <1>7, <1>8, <3>1, <3>2, <3>3, <4>1, <5>1
        <5>2. CASE ~Growing  BY <1>4, <1>5, <1>6, <1>7, <1>8, <3>1, <3>2, <3>3, <4>1, <5>2
        <5> QED  BY <5>1, <5>2
      <4>2. CASE service.spots = 0  BY <1>4, <1>5, <1>7, <3>3, <4>2
      <4> QED  BY <1>5, <4>1, <4>2
    <3> QED  BY <1>5, <1>7, <3>2, <3>3
  <2>2. CASE UpdateFails
    <3>1. /\ service' = service /\ events' = events /\ update'.at # "save"
      BY <2>2 DEF UpdateFails, Idle
    <3>2. ~Growing' /\ Slack' >= Slack + 1  BY <2>2, <3>1, SlackStep DEF Growing
    <3>3. ASSUME service.spots >= 1, count[s] >= service.spots - 1
          PROVE  count[s] + p <= service.spots + Slack' + 0
      <4>1. Load(s) <= service.spots + Slack + 1  BY <1>4, <1>5, <1>6, <1>7, <3>3
      <4> QED  BY <1>4, <1>5, <1>6, <1>8, <3>1, <3>2, <4>1
    <3> QED  BY <1>5, <1>7, <3>1, <3>2, <3>3
  <2>3. ASSUME NEW o \in Options[service.kind], UpdateBegin(o)
        PROVE  /\ count[s] <= service'.spots + Slack'
               /\ service'.spots >= 1 /\ count[s] >= service'.spots - 1 =>
                    count[s] + p <= service'.spots + Slack' + (IF Growing' THEN 1 ELSE 0)
    <3>1. /\ service' = service /\ update.at = "idle" /\ update' = [at |-> "save", to |-> o]
          /\ events' = IF Reopens(o) THEN << >> ELSE events
      BY <2>3 DEF UpdateBegin
    <3>2. ~Growing /\ (Growing' <=> Reopens(o))  BY <3>1 DEF Growing, Reopens
    <3>3. Slack' >= Slack + Others  BY <2>3, SlackStep
    <3>4. ASSUME service.spots >= 1, count[s] >= service.spots - 1
          PROVE  count[s] + p <= service.spots + Slack' + (IF Growing' THEN 1 ELSE 0)
      <4>1. CASE Reopens(o)
        <5>1. count[s] + p <= service.spots + Slack' + 1  BY <1>4, <1>5, <1>7, <3>3
        <5> QED  BY <3>2, <4>1, <5>1
      <4>2. CASE ~Reopens(o)
        <5>1. p = n  BY <1>8, <3>1, <4>2
        <5>2. Load(s) <= service.spots + Slack + 0  BY <1>7, <3>2, <3>4
        <5>3. count[s] + p <= service.spots + Slack' + 0  BY <1>4, <1>5, <1>6, <5>1, <5>2
        <5> QED  BY <3>2, <4>2, <5>3
      <4> QED  BY <4>1, <4>2
    <3> QED  BY <1>5, <1>7, <3>1, <3>4
  <2> QED  BY <2>1, <2>2, <2>3
<1>10. service'.spots = 0 => count[s] = 0  BY <1>5, <1>7
<1> QED  BY <1>1, <1>6, <1>9, <1>10 DEF OverInv

\* Every step keeps the bound on overbookings.
LEMMA OverStep ==
  ASSUME Calm, Client # {}, TypeOK, SpentInv, FullInv, FailedInv, ReopenedInv,
         [Next]_vars, [KeepsSpots]_vars, NEW s \in Slot, OverInv(s)
  PROVE  OverInv(s)'
<1>1. CASE UNCHANGED vars
  BY <1>1 DEF vars, OverInv, Load, Once, Two, Might, Twice, Closed, Leaves, Free, Slack, Reopened,
              Failed, Growing
<1> SUFFICES ASSUME Next, service'.kind = "group", service'.blocking PROVE OverInv(s)'
  BY <1>1 DEF OverInv
<1>2. service.blocking
  BY DEF Next, Ask, ReadHost, CreateEvent, Refuse, TakeWanted, TakeOnly, TakeLeastRecent, TakeFewest,
         TakeAll, Choose, ReadCount, Increment, Reply, StorageError, Withdraw, UpdateBegin,
         UpdateSave, UpdateFails, TypeOK
<1>3. service.kind = "group"
  <2>1. CASE UpdateSave
    <3>1. service'.kind = update.to.kind /\ update.at = "save"
      BY <2>1 DEF UpdateSave, TypeOK
    <3> QED  BY <3>1 DEF FullInv, UpdateInv
  <2>2. CASE service' = service  BY <2>2
  <2> QED
    BY <2>1, <2>2 DEF Next, Ask, ReadHost, CreateEvent, Refuse, TakeWanted, TakeOnly,
            TakeLeastRecent, TakeFewest, TakeAll, Choose, ReadCount, Increment, Reply, StorageError,
            Withdraw, UpdateBegin, UpdateFails
<1>4. service'.spots >= service.spots
  <2>1. CASE service' = service
    <3>1. service.spots \in Nat  BY DEF TypeOK
    <3> QED  BY <2>1, <3>1
  <2>2. CASE service' # service  BY <1>3, <2>2 DEF KeepsSpots, vars
  <2> QED  BY <2>1, <2>2
<1>5. \A c \in Client : ClientInv(c)  BY <1>3 DEF FullInv
<1>6. \A c \in Client : client[c].at # "idle" => update.at # "save"  BY DEF FullInv, UpdateInv
<1>7. ~Leaves(Idle, s) /\ (Might(Idle, s) <=> ~Closed(s)) /\ ~Twice(Idle, s)
  BY DEF Leaves, Might, Twice, Idle
<1>8. ASSUME NEW c \in Client, NEW t \in Slot, NEW wanted \in Wanted[service.kind] \cup {Anyone},
             Ask(c, t, wanted)
      PROVE  OverInv(s)'
  <2> DEFINE b == [at |-> "hosts", slot |-> t, kind |-> service.kind, spots |-> service.spots,
                   wanted |-> wanted, free |-> {},
                   unread |-> IF wanted = Anyone THEN Host ELSE wanted]
  <2>1. client[c].at = "idle"  BY <1>8 DEF Ask
  <2>2. Might(client[c], s) <=> ~Closed(s)  BY <2>1 DEF Might, Leaves
  <2>3. b.at = "hosts" /\ b.free = {}  OBVIOUS
  <2>4. client' = [client EXCEPT ![c] = b]  BY <1>8 DEF Ask
  <2> HIDE DEF b
  <2>5. Might(b, s) => ~Closed(s)  BY <1>2, <2>3, OpenWhenFree DEF Might
  <2>6. ~Twice(b, s)  BY <2>3 DEF Twice
  <2> QED  BY <1>2, <1>3, <1>8, <2>2, <2>3, <2>4, <2>5, <2>6, OverClient DEF Ask
<1>9. ASSUME NEW c \in Client, NEW h \in Host, ReadHost(c, h) PROVE OverInv(s)'
  <2> DEFINE free == IF Free(h, client[c].slot) THEN {h} ELSE {}
             b == [client[c] EXCEPT !.free = @ \cup free, !.unread = @ \ {h}]
  <2>1. client[c] \in Looking /\ client[c].at = "hosts" /\ h \in client[c].unread
    BY <1>9, Stages DEF ReadHost, TypeOK
  <2>2. \A k \in free : k = h /\ Free(h, client[c].slot)  OBVIOUS
  <2>3. client' = [client EXCEPT ![c] = b]  BY <1>9 DEF ReadHost
  <2> HIDE DEF free
  <2>4. /\ b.at = "hosts" /\ b.slot = client[c].slot /\ b.free = client[c].free \cup free
        /\ b.unread = client[c].unread \ {h}
    BY <2>1 DEF Looking
  <2> HIDE DEF b
  <2>5. Might(b, s) => Might(client[c], s)
    <3>1. ~Leaves(client[c], s)  BY <2>1 DEF Leaves
    <3>2. CASE ~Closed(s)  BY <3>1, <3>2 DEF Might
    <3>3. ASSUME b.slot = s, \A k \in Host : k \in b.free \/ (k \in b.unread /\ Free(k, s))
          PROVE  Might(client[c], s)
      <4>1. ASSUME NEW k \in Host
            PROVE  k \in client[c].free \/ (k \in client[c].unread /\ Free(k, s))
        BY <2>1, <2>2, <2>4, <3>3
      <4> QED  BY <2>1, <2>4, <3>3, <4>1 DEF Might
    <3> QED  BY <2>4, <3>2, <3>3 DEF Might
  <2>6. ~Twice(b, s)  BY <2>4 DEF Twice
  <2> QED  BY <1>2, <1>3, <1>9, <2>3, <2>4, <2>5, <2>6, OverClient DEF ReadHost
<1>10. ASSUME NEW c \in Client, Refuse(c) PROVE OverInv(s)'
  <2>1. Might(Idle, s) => Might(client[c], s)  BY <1>7, <1>10 DEF Might, Leaves, Refuse
  <2> QED  BY <1>2, <1>3, <1>7, <1>10, <2>1, OverClient DEF Refuse, Idle
<1>11. ASSUME NEW c \in Client,
              \/ TakeWanted(c) \/ TakeOnly(c) \/ TakeLeastRecent(c) \/ TakeFewest(c) \/ TakeAll(c)
       PROVE  FALSE
  BY <1>5, <1>11 DEF TakeWanted, TakeOnly, TakeLeastRecent, TakeFewest, TakeAll, Granted, RoundRobin,
                     Open, SlotFound, ClientInv
<1>12. ASSUME NEW c \in Client, ReadCount(c) PROVE OverInv(s)'
  <2> DEFINE b == [at |-> "increment", slot |-> client[c].slot, hosts |-> Host,
                   tell |-> LastSeat(client[c]), found |-> count[client[c].slot]]
  <2>1. client[c].at = "hosts" /\ client[c].free = Host /\ client[c].kind = "group"
        /\ client[c].spots # 0
    BY <1>12 DEF ReadCount, Open, SlotFound, NeedsAll
  <2>2. client[c].spots = service.spots  BY <1>5, <2>1 DEF ClientInv
  <2>3. client' = [client EXCEPT ![c] = b]  BY <1>12 DEF ReadCount
  <2>4. b.at = "increment" /\ b.slot = client[c].slot /\ b.tell = LastSeat(client[c])  OBVIOUS
  <2> HIDE DEF b
  <2>5. Might(b, s) => Might(client[c], s)  BY <2>1, <2>4 DEF Might, Leaves
  <2>6. count[s] >= service.spots - 1 => ~Twice(b, s)
    <3>1. count[s] \in Nat /\ service.spots \in Nat  BY DEF TypeOK
    <3>2. CASE client[c].slot = s
      <4>1. b.tell <=> count[s] + 1 >= service.spots  BY <2>2, <2>4, <3>2 DEF LastSeat
      <4>2. count[s] >= service.spots - 1 => count[s] + 1 >= service.spots  BY <3>1
      <4> QED  BY <4>1, <4>2 DEF Twice
    <3>3. CASE client[c].slot # s  BY <2>4, <3>3 DEF Twice
    <3> QED  BY <3>2, <3>3
  <2> QED  BY <1>2, <1>3, <1>12, <2>1, <2>2, <2>3, <2>5, <2>6, OverClient DEF ReadCount
<1>13. ASSUME NEW c \in Client, Increment(c) PROVE OverInv(s)'
  <2>1. update.at # "save"  BY <1>6, <1>13 DEF Increment
  <2>2. CASE client[c].slot = s  BY <1>2, <1>3, <1>13, <2>1, <2>2, OverIncrement
  <2>3. CASE client[c].slot # s
    <3> DEFINE b == [Chosen(client[c], client[c].hosts, client[c].tell) EXCEPT !.reserved = TRUE]
    <3>1. b.at = "users" /\ b.slot = client[c].slot  BY DEF Chosen
    <3>2. /\ client' = [client EXCEPT ![c] = b] /\ count'[s] = count[s]
          /\ service' = service /\ events' = events /\ update' = update
      BY <1>13, <2>3 DEF Increment, Raised, TypeOK
    <3> HIDE DEF b
    <3>3. Might(b, s) => Might(client[c], s)
      BY <1>13, <2>3, <3>1 DEF Might, Leaves, Increment
    <3>4. ~Twice(b, s)  BY <3>1 DEF Twice
    <3> QED  BY <1>2, <1>3, <3>1, <3>2, <3>3, <3>4, OverClient
  <2> QED  BY <2>2, <2>3
<1>14. ASSUME NEW c \in Client, Reply(c) PROVE OverInv(s)'
  <2> DEFINE b == IF client[c].tell
                  THEN [at |-> "told", slot |-> client[c].slot, hosts |-> client[c].hosts] ELSE Idle
  <2>1. client[c].at = "users"  BY <1>14 DEF Reply
  <2>2. /\ client' = [client EXCEPT ![c] = b] /\ count' = count
        /\ service' = service /\ events' = events /\ update' = update
    BY <1>14 DEF Reply
  <2>3. b.at \in {"told", "idle"}  BY DEF Idle
  <2>4. Might(b, s) => Might(client[c], s)
    <3>1. CASE client[c].tell  BY <2>1, <3>1 DEF Might, Leaves
    <3>2. CASE ~client[c].tell  BY <1>7, <2>1, <3>2 DEF Might, Leaves
    <3> QED  BY <3>1, <3>2
  <2> HIDE DEF b
  <2>5. ~Twice(b, s) /\ b.at # "increment"  BY <2>3 DEF Twice
  <2> QED  BY <1>2, <1>3, <2>2, <2>4, <2>5, OverClient
<1>15. ASSUME NEW c \in Client, StorageError(c) PROVE OverInv(s)'
  <2>1. /\ client'[c] = Idle /\ \A d \in Client \ {c} : client'[d] = client[d]
        /\ service' = service /\ events' = events /\ update' = update /\ count' = count
    BY <1>15 DEF StorageError, TypeOK
  <2>2. \A d \in Client : Might(client[d], s)' <=> Might(client'[d], s)
    BY <2>1 DEF Might, Free, Closed, Leaves
  <2>3. \A d \in Client \ {c} : d \in Once(s)' => d \in Once(s)  BY <2>1, <2>2 DEF Once
  <2>4. \A d \in Client : d \in Two(s)' => d \in Two(s)  BY <2>1 DEF Two, Twice, Idle
  <2>5. /\ Once(s) \in SUBSET Client /\ Once(s)' \in SUBSET Client
        /\ Two(s) \in SUBSET Client /\ Two(s)' \in SUBSET Client
        /\ Cardinality(Once(s)) \in Nat /\ Cardinality(Once(s)') \in Nat
        /\ Cardinality(Two(s)) \in Nat /\ Cardinality(Two(s)') \in Nat
    BY LoadCounted
  <2>6. /\ Cardinality(Once(s)') <= Cardinality(Once(s)) + 1
        /\ Cardinality(Two(s)') <= Cardinality(Two(s))
    BY <2>3, <2>4, <2>5, FewerClients
  <2>7. Slack \in Nat /\ Slack' \in Nat /\ Slack' >= Slack + 1  BY <1>15, SlackStep
  <2>8. Cardinality(Once(s)') + Cardinality(Two(s)')
          <= Cardinality(Once(s)) + Cardinality(Two(s)) + (Slack' - Slack)
    BY <2>5, <2>6, <2>7
  <2>9. service.spots = 0 =>
          \A d \in Client : ~(client'[d].at = "increment" /\ client'[d].slot = s)
    BY <1>2, <1>3, <2>1 DEF OverInv, Idle
  <2>10. count'[s] <= count[s]
    <3>1. count[s] \in Nat  BY DEF TypeOK
    <3> QED  BY <2>1, <3>1
  <2> QED  BY <1>2, <1>3, <2>1, <2>8, <2>9, <2>10, OverKept
<1>16. ASSUME NEW c \in Client, NEW h \in Host, CreateEvent(c, h) PROVE OverInv(s)'
  <2>1. update.at # "save"  BY <1>6, <1>16 DEF CreateEvent
  <2> QED  BY <1>2, <1>3, <1>16, <2>1, OverEvent
<1>17. ASSUME NEW t \in Slot, Withdraw(t) PROVE OverInv(s)'
  <2>1. /\ client' = client /\ service' = service /\ events' = events /\ update' = update
        /\ count' = [count EXCEPT ![t] = @ - 1]
    BY <1>17 DEF Withdraw
  <2>2. Once(s)' = Once(s) /\ Two(s)' = Two(s)
    BY <2>1 DEF Once, Two, Might, Twice, Closed, Leaves, Free
  <2>3. count'[s] <= count[s]
    <3>1. count \in [Slot -> Nat] /\ count[s] \in Nat  BY DEF TypeOK
    <3> QED  BY <2>1, <3>1
  <2>4. /\ Cardinality(Once(s)) \in Nat /\ Cardinality(Two(s)) \in Nat
        /\ Slack \in Nat /\ Slack' \in Nat /\ Slack' >= Slack
    BY LoadCounted, SlackStep
  <2>5. Cardinality(Once(s)') + Cardinality(Two(s)')
          <= Cardinality(Once(s)) + Cardinality(Two(s)) + (Slack' - Slack)
    BY <2>2, <2>4
  <2>6. service.spots = 0 =>
          \A d \in Client : ~(client'[d].at = "increment" /\ client'[d].slot = s)
    BY <1>2, <1>3, <2>1 DEF OverInv
  <2> QED  BY <1>2, <1>3, <2>1, <2>3, <2>5, <2>6, OverKept
<1>18. ASSUME UpdateSave \/ UpdateFails \/ \E o \in Options[service.kind] : UpdateBegin(o)
       PROVE  OverInv(s)'
  <2>1. \A c \in Client : client[c].at = "idle"
    BY <1>18 DEF UpdateSave, UpdateFails, UpdateBegin, Calm, FullInv, UpdateInv
  <2> QED  BY <1>2, <1>3, <1>4, <1>18, <2>1, OverUpdate
<1> QED
  BY <1>8, <1>9, <1>10, <1>11, <1>12, <1>13, <1>14, <1>15, <1>16, <1>17, <1>18 DEF Next

\* Where updates do not overlap with bookings and no group loses spots, a group that
\* blocks its hosts is exceeded by two seats for every other client at most, one
\* more each time it is reopened and one for each statement that failed.
THEOREM FewOverbookings ==
  ASSUME Calm, Client # {}
  PROVE  Spec /\ [][KeepsSpots]_vars => []OverbookedByFew
<1> DEFINE Inv == /\ TypeOK /\ SpentInv /\ FullInv /\ FailedInv /\ ReopenedInv
                  /\ \A s \in Slot : OverInv(s)
<1>1. Init => Inv
  <2> SUFFICES ASSUME Init PROVE FailedInv /\ ReopenedInv /\ \A s \in Slot : OverInv(s)
    BY TypeInit, SpentInit, FullInit
  <2>1. Failed = 0 /\ Reopened = 0
    <3>1. \A e \in Expense : Limit[e] \in Nat  BY DomainAssumption
    <3> QED  BY <3>1 DEF Init, Failed, Reopened, Expense
  <2>2. ASSUME NEW s \in Slot PROVE OverInv(s)
    <3>1. /\ Others \in Nat /\ Slack = 2 * Others
      <4>1. Cardinality(Client) \in Nat /\ Cardinality(Client) # 0
        BY DomainAssumption, FS_CardinalityType, FS_EmptySet
      <4>2. Others \in Nat  BY <4>1 DEF Others
      <4>3. (2 + 0) * Others + 0 = 2 * Others  BY <4>2
      <4> QED  BY <2>1, <4>2, <4>3 DEF Slack
    <3>2. Two(s) = {}  BY DEF Init, Two, Twice, Idle
    <3>3. Cardinality(Two(s)) = 0  BY <3>2, FS_EmptySet
    <3>4. Cardinality(Once(s)) \in Nat /\ Cardinality(Once(s)) <= Others + 1
      <4>1. Once(s) \in SUBSET Client  BY DEF Once
      <4> QED  BY <4>1, DomainAssumption, FS_Subset, FS_CardinalityType DEF Others
    <3>5. count[s] = 0 /\ service.spots \in Nat /\ ~Growing
      BY TypeInit DEF Init, TypeOK, Growing, Idle
    <3>6. Load(s) = Cardinality(Once(s))  BY <3>3, <3>4, <3>5 DEF Load
    <3>7. \A c \in Client : ~(client[c].at = "increment" /\ client[c].slot = s)
      BY DEF Init, Idle
    <3>8. /\ 0 <= service.spots + Slack
          /\ service.spots >= 1 => Cardinality(Once(s)) <= service.spots + Slack + 0
      BY <3>1, <3>4, <3>5
    <3> QED  BY <3>5, <3>6, <3>7, <3>8 DEF OverInv
  <2> QED  BY <2>1, <2>2 DEF FailedInv, ReopenedInv
<1>2. Inv /\ [Next]_vars /\ [KeepsSpots]_vars => Inv'
  <2> SUFFICES ASSUME Inv, [Next]_vars, [KeepsSpots]_vars PROVE Inv'
    OBVIOUS
  <2>1. TypeOK' /\ SpentInv' /\ FullInv'  BY TypeStep, SpentStep, FullStep
  <2>2. FailedInv' /\ ReopenedInv'  BY FailedGrows, ReopenedStep DEF FailedInv, ReopenedInv
  <2>3. \A s \in Slot : OverInv(s)'  BY OverStep
  <2> QED  BY <2>1, <2>2, <2>3
<1>3. Inv => OverbookedByFew
  <2> SUFFICES ASSUME Inv, service.kind = "group", service.blocking, NEW s \in Slot
               PROVE  count[s] <= service.spots
                                    + (2 + Reopened) * (Cardinality(Client) - 1) + Failed
    BY DEF OverbookedByFew
  <2> DEFINE x == (2 + Reopened) * (Cardinality(Client) - 1)
  <2>1. x \in Nat
    <3>1. Cardinality(Client) \in Nat /\ Cardinality(Client) # 0
      BY DomainAssumption, FS_CardinalityType, FS_EmptySet
    <3>2. Cardinality(Client) - 1 \in Nat /\ Reopened \in Nat  BY <3>1 DEF ReopenedInv
    <3> QED  BY <3>2, Factors
  <2>2. count[s] <= service.spots + (x + Failed)  BY DEF OverInv, Slack, Others
  <2>3. service.spots \in Nat /\ Failed \in Nat /\ count[s] \in Nat  BY DEF TypeOK, FailedInv
  <2> HIDE DEF x
  <2>4. count[s] <= service.spots + x + Failed  BY <2>1, <2>2, <2>3
  <2> QED  BY <2>4 DEF x
<1> QED  BY <1>1, <1>2, <1>3, PTL DEF Spec

=============================================================================
