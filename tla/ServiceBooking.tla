--------------------------- MODULE ServiceBooking ---------------------------
(***************************************************************************)
(* Booking a service (CreateServiceEventIntendUseCase): the client asks    *)
(* for a slot, the server finds the hosts who are free at it, chooses      *)
(* among them, counts the reservations of a group, and tells the client    *)
(* which hosts are booked and whether to store the event with each.        *)
(*                                                                         *)
(* Every read is a statement of its own and no lock spans two of them, and *)
(* it is the client who stores the events.  How far concurrent bookings    *)
(* can go beyond what one booking after the other would do is the subject  *)
(* of the properties.                                                      *)
(*                                                                         *)
(* Who is free at a slot is decided in detail in BookingSlots: here a host *)
(* is free unless an event of this service keeps the host busy.            *)
(***************************************************************************)
EXTENDS Integers, Sequences, FiniteSets

CONSTANTS
  Host,           \* the hosts of the service
  Client,         \* the clients that may book at the same time
  Slot,           \* the times that can be booked
  Near,           \* the slots within the 61 days whose events an equal distribution counts
  Services,       \* the kinds of service a run begins with
  Options,        \* what a service of each kind may be updated to
  Wanted,         \* the hosts a client of a service of each kind may ask for
  Overlap,        \* whether the service may be updated during a booking
  Limit           \* bound of the model: how often each Expense may happen

Expense == {"requests", "failures", "withdrawals", "updates"}
Kind == {"availability", "equal", "collective", "group"}

ASSUME DomainAssumption ==
  /\ IsFiniteSet(Host) /\ IsFiniteSet(Client) /\ Near \subseteq Slot
  /\ Services \subseteq [kind : Kind, spots : Nat, blocking : BOOLEAN]
  /\ Options \in [Kind -> SUBSET [kind : Kind, spots : Nat]]
  /\ Wanted \in [Kind -> SUBSET SUBSET Host]
  /\ Overlap \in BOOLEAN
  /\ Limit \in [Expense -> Nat]

VARIABLES
  service,        \* its kind, its spots, and whether its events keep hosts busy
  events,         \* the events of the service, in the order they were created
  count,          \* service_reservations
  client,         \* where each client's booking is
  update,         \* where the update of the service is
  budget,         \* how often each Expense may still happen
  seats           \* history: the seats that were confirmed and not given back

vars == <<service, events, count, client, update, budget, seats>>

\* What a client that leaves the choice of the hosts to the server asks for
Anyone == {}

Idle == [at |-> "idle"]

\* The kinds for which every host of the service must come
NeedsAll(s) == s.kind \in {"collective", "group"}

\* Mutant of Free: the events of the service keep nobody busy.
FreeAlways(h, s) == TRUE

Free(h, s) ==
  service.blocking => \A i \in DOMAIN events : events[i] # [host |-> h, slot |-> s]

-----------------------------------------------------------------------------
Init ==
  /\ service \in Services
  /\ events = << >>
  /\ count = [s \in Slot |-> 0]
  /\ client = [c \in Client |-> Idle]
  /\ update = Idle
  /\ budget = Limit
  /\ seats = [s \in Slot |-> 0]

Spend(what) == budget[what] > 0 /\ budget' = [budget EXCEPT ![what] = @ - 1]

-----------------------------------------------------------------------------
\* A client asks for a slot, with hosts of its choice or any.
Ask(c, s, wanted) ==
  /\ client[c].at = "idle" /\ Spend("requests")
  /\ ~Overlap => update.at = "idle"
  /\ client' = [client EXCEPT ![c] =
                  [at |-> "hosts", slot |-> s, kind |-> service.kind, spots |-> service.spots,
                   wanted |-> wanted, free |-> {},
                   unread |-> IF wanted = Anyone THEN Host ELSE wanted]]
  /\ UNCHANGED <<service, events, count, update, seats>>

\* The slots of one host are found (get_bookable_times).
ReadHost(c, h) ==
  LET b == client[c]
      free == IF Free(h, b.slot) THEN {h} ELSE {}
  IN  /\ b.at = "hosts" /\ h \in b.unread
      /\ client' = [client EXCEPT ![c] =
                      [b EXCEPT !.free = @ \cup free, !.unread = @ \ {h}]]
      /\ UNCHANGED <<service, events, count, update, budget, seats>>

\* The slot is among the slots the query returned.
SlotFound(b) ==
  /\ b.at = "hosts" /\ b.unread = {} /\ b.free # {}
  /\ NeedsAll(b) => b.free = Host
  /\ b.kind = "group" => b.spots # 0

\* The hosts asked for are all free, where the client asked for any.
Granted(b) == SlotFound(b) /\ b.wanted # Anyone /\ b.wanted \subseteq b.free
Open(b) == SlotFound(b) /\ b.wanted = Anyone

Refuse(c) ==
  /\ client[c].at = "hosts" /\ client[c].unread = {}
  /\ ~Granted(client[c]) /\ ~Open(client[c])
  /\ client' = [client EXCEPT ![c] = Idle]
  /\ UNCHANGED <<service, events, count, update, budget, seats>>

Chosen(b, hosts, tell) ==
  [at |-> "users", slot |-> b.slot, hosts |-> hosts, tell |-> tell, reserved |-> FALSE]

Choose(c, hosts) ==
  /\ client' = [client EXCEPT ![c] = Chosen(client[c], hosts, TRUE)]
  /\ UNCHANGED <<service, events, count, update, budget, seats>>

TakeWanted(c) == Granted(client[c]) /\ Choose(c, client[c].wanted)

RoundRobin(b, kind) == Open(b) /\ b.kind = kind

TakeOnly(c) ==
  /\ RoundRobin(client[c], "availability") \/ RoundRobin(client[c], "equal")
  /\ Cardinality(client[c].free) = 1
  /\ Choose(c, client[c].free)

\* When the last event of a host was created: 0 if there is none.
Position(h) ==
  CHOOSE k \in 0 .. Len(events) :
    /\ k # 0 => events[k].host = h
    /\ \A j \in k + 1 .. Len(events) : events[j].host # h

\* Mutant of LeastRecent: the host who was booked last is booked again.
MostRecent(hosts) == {h \in hosts : \A g \in hosts : Position(h) >= Position(g)}

LeastRecent(hosts) == {h \in hosts : \A g \in hosts : Position(h) <= Position(g)}

NearEvents(h) == {i \in DOMAIN events : events[i].host = h /\ events[i].slot \in Near}

\* Mutant of Fewest: every host counts as equally booked.
FewestOfNone(hosts) == hosts

Fewest(hosts) ==
  {h \in hosts : \A g \in hosts : Cardinality(NearEvents(h)) <= Cardinality(NearEvents(g))}

\* One of the candidates at random
TakeLeastRecent(c) ==
  /\ RoundRobin(client[c], "availability") /\ Cardinality(client[c].free) > 1
  /\ \E h \in LeastRecent(client[c].free) : Choose(c, {h})

TakeFewest(c) ==
  /\ RoundRobin(client[c], "equal") /\ Cardinality(client[c].free) > 1
  /\ \E h \in Fewest(client[c].free) : Choose(c, {h})

TakeAll(c) == RoundRobin(client[c], "collective") /\ Choose(c, Host)

\* Mutant of LastSeat: one more seat before the group is full.
LastSeatLate(b) == count[b.slot] >= b.spots

\* Mutant of LastSeat: one seat less.
LastSeatEarly(b) == count[b.slot] + 2 >= b.spots

LastSeat(b) == count[b.slot] + 1 >= b.spots

\* The reservations are counted, to tell whether this is the last one,
ReadCount(c) ==
  LET b == client[c]
  IN  /\ Open(b) /\ b.kind = "group"
      /\ client' = [client EXCEPT ![c] =
                      [at |-> "increment", slot |-> b.slot, hosts |-> Host,
                       tell |-> LastSeat(b), found |-> count[b.slot]]]
      /\ UNCHANGED <<service, events, count, update, budget, seats>>

\* Mutant of Raised: what was read before is written back.
RaisedFromRead(b) == [count EXCEPT ![b.slot] = b.found + 1]

Raised(b) == [count EXCEPT ![b.slot] = @ + 1]

\* and incremented in a second statement.
Increment(c) ==
  /\ client[c].at = "increment"
  /\ count' = Raised(client[c])
  /\ client' = [client EXCEPT ![c] =
                  [Chosen(client[c], client[c].hosts, client[c].tell) EXCEPT !.reserved = TRUE]]
  /\ UNCHANGED <<service, events, update, budget, seats>>

\* The users are looked up, and the client is answered.
Reply(c) ==
  LET b == client[c]
  IN  /\ b.at = "users"
      /\ client' = [client EXCEPT ![c] =
                      IF b.tell THEN [at |-> "told", slot |-> b.slot, hosts |-> b.hosts] ELSE Idle]
      /\ seats' = [seats EXCEPT ![b.slot] = IF b.reserved THEN @ + 1 ELSE @]
      /\ UNCHANGED <<service, events, count, update, budget>>

\* A statement fails, and with it the booking. A seat that was reserved stays
\* reserved.
StorageError(c) ==
  /\ client[c].at \in {"hosts", "increment", "users"}
  /\ Spend("failures")
  /\ client' = [client EXCEPT ![c] = Idle]
  /\ UNCHANGED <<service, events, count, update, seats>>

\* Mutant of Stored: the client waits although it has nothing left to store.
StoredForever(b, h) == [b EXCEPT !.hosts = @ \ {h}]

Stored(b, h) == IF b.hosts = {h} THEN Idle ELSE [b EXCEPT !.hosts = @ \ {h}]

\* A client that was told to stores the event with each of the hosts.
CreateEvent(c, h) ==
  LET b == client[c]
  IN  /\ b.at = "told" /\ h \in b.hosts
      /\ events' = Append(events, [host |-> h, slot |-> b.slot])
      /\ client' = [client EXCEPT ![c] = Stored(b, h)]
      /\ UNCHANGED <<service, count, update, budget, seats>>

\* A client gives a seat back (RemoveServiceEventIntendUseCase). The check on
\* the column lets no count below zero.
Withdraw(s) ==
  /\ seats[s] > 0 /\ Spend("withdrawals")
  /\ count[s] > 0
  /\ count' = [count EXCEPT ![s] = @ - 1]
  /\ seats' = [seats EXCEPT ![s] = @ - 1]
  /\ UNCHANGED <<service, events, client, update>>

-----------------------------------------------------------------------------
\* Mutant of Reopens: the events stay however many spots there are.
ReopensNever(o) == FALSE

\* More spots: everybody may book again.
Reopens(o) == service.kind = "group" /\ o.kind = "group" /\ o.spots > service.spots

\* UpdateServiceUseCase: the events of a group that grows are deleted,
UpdateBegin(o) ==
  /\ update.at = "idle" /\ Spend("updates")
  /\ ~Overlap => \A c \in Client : client[c].at = "idle"
  /\ events' = IF Reopens(o) THEN << >> ELSE events
  /\ update' = [at |-> "save", to |-> o]
  /\ UNCHANGED <<service, count, client, seats>>

\* and then the service is saved.
UpdateSave ==
  /\ update.at = "save"
  /\ service' = [service EXCEPT !.kind = update.to.kind, !.spots = update.to.spots]
  /\ update' = Idle
  /\ UNCHANGED <<events, count, client, budget, seats>>

\* Or it is not, and the events stay deleted.
UpdateFails ==
  /\ update.at = "save" /\ Spend("failures")
  /\ update' = Idle
  /\ UNCHANGED <<service, events, count, client, seats>>

Next ==
  \/ \E c \in Client :
       \/ \E s \in Slot, wanted \in Wanted[service.kind] \cup {Anyone} : Ask(c, s, wanted)
       \/ \E h \in Host : ReadHost(c, h) \/ CreateEvent(c, h)
       \/ Refuse(c)
       \/ TakeWanted(c)
       \/ TakeOnly(c)
       \/ TakeLeastRecent(c)
       \/ TakeFewest(c)
       \/ TakeAll(c)
       \/ ReadCount(c)
       \/ Increment(c)
       \/ Reply(c)
       \/ StorageError(c)
  \/ \E s \in Slot : Withdraw(s)
  \/ \E o \in Options[service.kind] : UpdateBegin(o)
  \/ UpdateSave
  \/ UpdateFails

Spec == Init /\ [][Next]_vars

-----------------------------------------------------------------------------
Waiting == [at : {"idle"}]
Looking == [at : {"hosts"}, slot : Slot, kind : Kind, spots : Nat, wanted : SUBSET Host,
            free : SUBSET Host, unread : SUBSET Host]
Counting == [at : {"increment"}, slot : Slot, hosts : (SUBSET Host) \ {{}}, tell : BOOLEAN,
             found : Nat]
Chose == [at : {"users"}, slot : Slot, hosts : (SUBSET Host) \ {{}}, tell : BOOLEAN,
          reserved : BOOLEAN]
Told == [at : {"told"}, slot : Slot, hosts : (SUBSET Host) \ {{}}]

Booking == Waiting \cup Looking \cup Counting \cup Chose \cup Told

\* The variables keep their types; in particular a booking that has come to its
\* hosts has at least one, and a client with nothing left to store is idle.
TypeOK ==
  /\ service \in [kind : Kind, spots : Nat, blocking : BOOLEAN]
  /\ events \in Seq([host : Host, slot : Slot])
  /\ count \in [Slot -> Nat] /\ seats \in [Slot -> Nat]
  /\ client \in [Client -> Booking]
  /\ update \in [at : {"idle"}] \cup [at : {"save"}, to : [kind : Kind, spots : Nat]]
  /\ budget \in [Expense -> Nat]

Failed == Limit["failures"] - budget["failures"]
GivenBack == Limit["withdrawals"] - budget["withdrawals"]
Reopened == Limit["updates"] - budget["updates"]

\* The bookings of a slot that have a seat and no answer yet
Pending(s) ==
  {c \in Client : client[c].at = "users" /\ client[c].slot = s /\ client[c].reserved}

\* No seat is lost and none is counted twice, however the bookings overlap: the
\* count is that of the seats confirmed and those about to be, and at most one
\* more for every booking that failed.
SeatsCounted ==
  \A s \in Slot :
    /\ seats[s] + Cardinality(Pending(s)) <= count[s]
    /\ count[s] <= seats[s] + Cardinality(Pending(s)) + Failed

\* A slot of a group that events have closed is full: all its spots were taken.
ClosedMeansFull ==
  service.kind = "group" =>
    \A s \in Slot : (\E i \in DOMAIN events : events[i].slot = s)
                     => count[s] + GivenBack >= service.spots

\* Nothing holds a booking back when the group is full but its events are not
\* stored yet.  Still a group that blocks its hosts is exceeded by no more than
\* two seats for every other client that books at the same time, one more each
\* time it was reopened, and those of statements that failed.
OverbookedByFew ==
  service.kind = "group" /\ service.blocking =>
    \A s \in Slot :
      count[s] <= service.spots + (2 + Reopened) * (Cardinality(Client) - 1) + Failed

\* A host that events block is booked twice for one slot only by clients that
\* book at the same time.
DoubleBookedByFew ==
  service.blocking =>
    \A h \in Host, s \in Slot :
      Cardinality({i \in DOMAIN events : events[i] = [host |-> h, slot |-> s]})
        <= Cardinality(Client)

\* Equal distribution: of hosts who are always free, none gets more of the events
\* of the next 61 days than another, beyond one for each client that books at the
\* same time. The period is that of create_service_event_intend.rs; the comment on
\* RoundRobinAlgorithm promises it of two weeks, of which this says nothing: an
\* event after the two weeks weighs as much as one within them.
EvenlySpread ==
  service.kind = "equal" /\ ~service.blocking =>
    \A g, h \in Host :
      Cardinality(NearEvents(h)) <= Cardinality(NearEvents(g)) + Cardinality(Client)

\* Availability: of hosts who are always free, none is booked more often in a row
\* than there are clients that book at the same time.
TakesTurns ==
  service.kind = "availability" /\ ~service.blocking /\ Cardinality(Host) > 1 =>
    \A i, j \in DOMAIN events :
      j - i >= Cardinality(Client) =>
        \E k \in i .. j : events[k].host # events[i].host

=============================================================================
