------------------------ MODULE ServiceBookingProofs ------------------------
(***************************************************************************)
(* The types of ServiceBooking, that a group whose events are stored is    *)
(* full, and that the reservations are counted exactly, for any number of  *)
(* hosts, clients, slots and spots.                                        *)
(***************************************************************************)
EXTENDS ServiceBooking, FiniteSetTheorems, TLAPS

USE DomainAssumption

\* The stages of a booking are told apart by `at`.
LEMMA Stages ==
  ASSUME NEW b \in Booking
  PROVE  /\ b.at = "idle" => b = Idle
         /\ b.at = "hosts" => b \in Looking
         /\ b.at = "increment" => b \in Counting
         /\ b.at = "users" => b \in Chose
         /\ b.at = "told" => b \in Told
         /\ b.at \in {"idle", "hosts", "increment", "users", "told"}
BY DEF Booking, Waiting, Looking, Counting, Chose, Told, Idle

\* The initial states are well typed.
LEMMA TypeInit == Init => TypeOK
BY DEF Init, TypeOK, Booking, Waiting, Idle

\* A step of one client changes its own booking to another one.
LEMMA ClientType ==
  ASSUME TypeOK, NEW c \in Client, NEW b \in Booking,
         client' = [client EXCEPT ![c] = b]
  PROVE  client' \in [Client -> Booking]
BY DEF TypeOK

\* What is left of the failures is a natural number.
LEMMA BudgetType ==
  ASSUME TypeOK, NEW what \in Expense, Spend(what)
  PROVE  budget' \in [Expense -> Nat]
BY DEF TypeOK, Spend

\* Every step keeps the types.
LEMMA TypeStep == TypeOK /\ [Next]_vars => TypeOK'
<1> SUFFICES ASSUME TypeOK, [Next]_vars PROVE TypeOK'
  OBVIOUS
<1>0. Idle \in Booking  BY DEF Idle, Booking, Waiting
<1>1. ASSUME NEW c \in Client, NEW s \in Slot, NEW wanted \in Wanted[service.kind] \cup {Anyone},
             Ask(c, s, wanted)
      PROVE  TypeOK'
  <2> DEFINE b == [at |-> "hosts", slot |-> s, kind |-> service.kind, spots |-> service.spots,
                   wanted |-> wanted, free |-> {},
                   unread |-> IF wanted = Anyone THEN Host ELSE wanted]
  <2>1. service.kind \in Kind /\ service.spots \in Nat  BY DEF TypeOK
  <2>2. wanted \in SUBSET Host  BY <2>1 DEF Anyone
  <2>3. b \in Booking  BY <2>1, <2>2 DEF Booking, Looking
  <2>4. client' = [client EXCEPT ![c] = b]  BY <1>1 DEF Ask
  <2>5. client' \in [Client -> Booking]  BY <2>3, <2>4, ClientType
  <2>6. budget' \in [Expense -> Nat]  BY <1>1, BudgetType DEF Ask, Expense
  <2> QED  BY <1>1, <2>5, <2>6 DEF Ask, TypeOK
<1>2. ASSUME NEW c \in Client, NEW h \in Host, ReadHost(c, h) PROVE TypeOK'
  <2> DEFINE b == client[c]
             free == IF Free(h, b.slot) THEN {h} ELSE {}
             d == [b EXCEPT !.free = @ \cup free, !.unread = @ \ {h}]
  <2>1. b \in Looking  BY <1>2, Stages DEF ReadHost, TypeOK
  <2>2. free \subseteq Host  OBVIOUS
  <2> HIDE DEF free
  <2>3. d \in Booking  BY <2>1, <2>2 DEF Booking, Looking
  <2>4. client' = [client EXCEPT ![c] = d]  BY <1>2 DEF ReadHost, free
  <2>5. client' \in [Client -> Booking]  BY <2>3, <2>4, ClientType
  <2> QED  BY <1>2, <2>5 DEF ReadHost, TypeOK
<1>3. ASSUME NEW c \in Client, NEW h \in Host, CreateEvent(c, h) PROVE TypeOK'
  <2> DEFINE b == client[c]
  <2>1. b \in Told  BY <1>3, Stages DEF CreateEvent, TypeOK
  <2>2. Stored(b, h) \in Booking
    <3>1. CASE b.hosts = {h}  BY <1>0, <3>1 DEF Stored
    <3>2. CASE b.hosts # {h}
      <4>1. [b EXCEPT !.hosts = @ \ {h}] \in Told
        <5>1. b.hosts \ {h} \in (SUBSET Host) \ {{}}  BY <2>1, <3>2 DEF Told
        <5> QED  BY <2>1, <5>1 DEF Told
      <4> QED  BY <3>2, <4>1 DEF Stored, Booking
    <3> QED  BY <3>1, <3>2
  <2>3. client' \in [Client -> Booking]  BY <1>3, <2>2, ClientType DEF CreateEvent
  <2>4. [host |-> h, slot |-> b.slot] \in [host : Host, slot : Slot]  BY <2>1 DEF Told
  <2>5. events' \in Seq([host : Host, slot : Slot])  BY <1>3, <2>4 DEF CreateEvent, TypeOK
  <2> QED  BY <1>3, <2>3, <2>5 DEF CreateEvent, TypeOK
<1>4. ASSUME NEW c \in Client, Refuse(c) PROVE TypeOK'
  <2>1. client' \in [Client -> Booking]  BY <1>0, <1>4, ClientType DEF Refuse
  <2> QED  BY <1>4, <2>1 DEF Refuse, TypeOK
<1>5. ASSUME NEW c \in Client, NEW hosts \in (SUBSET Host) \ {{}}, client[c].at = "hosts",
             Choose(c, hosts)
      PROVE  TypeOK'
  <2>1. client[c] \in Looking  BY <1>5, Stages DEF TypeOK
  <2>2. Chosen(client[c], hosts, TRUE) \in Booking  BY <2>1 DEF Chosen, Looking, Booking, Chose
  <2>3. client' \in [Client -> Booking]  BY <1>5, <2>2, ClientType DEF Choose
  <2> QED  BY <1>5, <2>3 DEF Choose, TypeOK
<1>6. ASSUME NEW c \in Client,
             \/ TakeWanted(c) \/ TakeOnly(c) \/ TakeLeastRecent(c) \/ TakeFewest(c) \/ TakeAll(c)
      PROVE  TypeOK'
  <2>1. client[c].at = "hosts" /\ client[c].free # {}
    BY <1>6 DEF TakeWanted, TakeOnly, TakeLeastRecent, TakeFewest, TakeAll, Granted, RoundRobin,
                Open, SlotFound
  <2>2. client[c] \in Looking  BY <2>1, Stages DEF TypeOK
  <2>3. client[c].free \in (SUBSET Host) \ {{}} /\ client[c].wanted \in SUBSET Host
    BY <2>1, <2>2 DEF Looking
  <2>4. Host \in (SUBSET Host) \ {{}} /\ \A h \in client[c].free : {h} \in (SUBSET Host) \ {{}}
    BY <2>3
  <2>5. PICK hosts \in (SUBSET Host) \ {{}} : Choose(c, hosts)
    <3>1. CASE TakeWanted(c)
      <4>1. client[c].wanted \in (SUBSET Host) \ {{}}
        BY <2>3, <3>1 DEF TakeWanted, Granted, Anyone
      <4> QED  BY <3>1, <4>1 DEF TakeWanted
    <3>2. CASE TakeOnly(c)  BY <2>3, <3>2 DEF TakeOnly
    <3>3. CASE TakeLeastRecent(c)
      <4>1. PICK h \in client[c].free : Choose(c, {h})  BY <3>3 DEF TakeLeastRecent, LeastRecent
      <4> QED  BY <2>4, <4>1
    <3>4. CASE TakeFewest(c)
      <4>1. PICK h \in client[c].free : Choose(c, {h})  BY <3>4 DEF TakeFewest, Fewest
      <4> QED  BY <2>4, <4>1
    <3>5. CASE TakeAll(c)  BY <2>4, <3>5 DEF TakeAll
    <3> QED  BY <1>6, <3>1, <3>2, <3>3, <3>4, <3>5
  <2> QED  BY <2>1, <2>5, <1>5
<1>7. ASSUME NEW c \in Client, ReadCount(c) PROVE TypeOK'
  <2> DEFINE b == client[c]
             d == [at |-> "increment", slot |-> b.slot, hosts |-> Host,
                   tell |-> LastSeat(b), found |-> count[b.slot]]
  <2>1. b \in Looking  BY <1>7, Stages DEF ReadCount, Open, SlotFound, TypeOK
  <2>2. b.slot \in Slot /\ count[b.slot] \in Nat  BY <2>1 DEF Looking, TypeOK
  <2>3. LastSeat(b) \in BOOLEAN  BY DEF LastSeat
  <2>4. Host # {}  BY <1>7, <2>1 DEF ReadCount, Open, SlotFound, Looking
  <2>5. d \in Booking  BY <2>2, <2>3, <2>4 DEF Booking, Counting
  <2>6. client' \in [Client -> Booking]  BY <1>7, <2>5, ClientType DEF ReadCount
  <2> QED  BY <1>7, <2>6 DEF ReadCount, TypeOK
<1>8. ASSUME NEW c \in Client, Increment(c) PROVE TypeOK'
  <2> DEFINE b == client[c]
             d == [Chosen(b, b.hosts, b.tell) EXCEPT !.reserved = TRUE]
  <2>1. b \in Counting  BY <1>8, Stages DEF Increment, TypeOK
  <2>2. d \in Booking  BY <2>1 DEF Counting, Chosen, Booking, Chose
  <2>3. client' \in [Client -> Booking]  BY <1>8, <2>2, ClientType DEF Increment
  <2>4. count' \in [Slot -> Nat]  BY <1>8, <2>1 DEF Increment, Raised, Counting, TypeOK
  <2> QED  BY <1>8, <2>3, <2>4 DEF Increment, TypeOK
<1>9. ASSUME NEW c \in Client, Reply(c) PROVE TypeOK'
  <2> DEFINE b == client[c]
             d == IF b.tell THEN [at |-> "told", slot |-> b.slot, hosts |-> b.hosts] ELSE Idle
  <2>1. b \in Chose  BY <1>9, Stages DEF Reply, TypeOK
  <2>2. d \in Booking  BY <1>0, <2>1 DEF Chose, Booking, Told
  <2>3. client' \in [Client -> Booking]  BY <1>9, <2>2, ClientType DEF Reply
  <2>4. seats' \in [Slot -> Nat]  BY <1>9, <2>1 DEF Reply, Chose, TypeOK
  <2> QED  BY <1>9, <2>3, <2>4 DEF Reply, TypeOK
<1>10. ASSUME NEW c \in Client, StorageError(c) PROVE TypeOK'
  <2>1. client' \in [Client -> Booking]  BY <1>0, <1>10, ClientType DEF StorageError
  <2>2. budget' \in [Expense -> Nat]  BY <1>10, BudgetType DEF StorageError, Expense
  <2> QED  BY <1>10, <2>1, <2>2 DEF StorageError, TypeOK
<1>11. ASSUME NEW s \in Slot, Withdraw(s) PROVE TypeOK'
  <2>1. budget' \in [Expense -> Nat]  BY <1>11, BudgetType DEF Withdraw, Expense
  <2>2. count' \in [Slot -> Nat] /\ seats' \in [Slot -> Nat]  BY <1>11 DEF Withdraw, TypeOK
  <2> QED  BY <1>11, <2>1, <2>2 DEF Withdraw, TypeOK
<1>12. ASSUME NEW o \in Options[service.kind], UpdateBegin(o) PROVE TypeOK'
  <2>1. service.kind \in Kind  BY DEF TypeOK
  <2>2. o \in [kind : Kind, spots : Nat]  BY <2>1
  <2>3. budget' \in [Expense -> Nat]  BY <1>12, BudgetType DEF UpdateBegin, Expense
  <2>4. events' \in Seq([host : Host, slot : Slot])  BY <1>12 DEF UpdateBegin, TypeOK
  <2> QED  BY <1>12, <2>2, <2>3, <2>4 DEF UpdateBegin, TypeOK
<1>13. ASSUME UpdateSave PROVE TypeOK'
  <2>1. update.to \in [kind : Kind, spots : Nat]  BY <1>13 DEF UpdateSave, TypeOK
  <2>2. service' \in [kind : Kind, spots : Nat, blocking : BOOLEAN]
    BY <1>13, <2>1 DEF UpdateSave, TypeOK
  <2> QED  BY <1>13, <2>2 DEF UpdateSave, TypeOK, Idle
<1>14. CASE UNCHANGED vars  BY <1>14 DEF vars, TypeOK
<1>15. ASSUME UpdateFails PROVE TypeOK'
  <2>1. budget' \in [Expense -> Nat]  BY <1>15, BudgetType DEF UpdateFails, Expense
  <2> QED  BY <1>15, <2>1 DEF UpdateFails, TypeOK, Idle
<1> QED
  BY <1>1, <1>2, <1>3, <1>4, <1>6, <1>7, <1>8, <1>9, <1>10, <1>11, <1>12, <1>13, <1>14, <1>15 DEF Next

\* Every variable keeps its type; in particular nobody is booked without a host,
\* and no client is left with nothing to store.
THEOREM Typing == Spec => []TypeOK
BY TypeInit, TypeStep, PTL DEF Spec

-----------------------------------------------------------------------------
(* A group whose events are stored is full.                                *)

\* What must be so: the service is not updated while clients book, clients of a
\* group leave the choice of the hosts to the server, and no other service is
\* turned into a group.  Without the first the run booking_update shows a slot
\* that is closed too early; each of the others would also break the property.
Calm ==
  /\ ~Overlap
  /\ Wanted["group"] = {}
  /\ \A k \in Kind \ {"group"} : \A o \in Options[k] : o.kind # "group"

\* The seats of a slot that were ever taken
Taken(s) == count[s] + GivenBack

\* What a client knows of the group it books is true, and has not changed: this
\* is what ClosedMeansFull needs to be inductive.
ClientInv(c) ==
  LET b == client[c]
  IN  /\ b.at = "hosts" => b.kind = "group" /\ b.spots = service.spots /\ b.wanted = Anyone
      /\ b.at = "increment" /\ b.tell => Taken(b.slot) + 1 >= service.spots
      /\ b.at = "users" /\ b.tell => Taken(b.slot) >= service.spots
      /\ b.at = "told" => Taken(b.slot) >= service.spots

EventInv ==
  \A i \in DOMAIN events : Taken(events[i].slot) >= service.spots

UpdateInv ==
  update.at = "save" =>
    /\ \A c \in Client : client[c].at = "idle"
    /\ service.kind # "group" => update.to.kind # "group"
    /\ service.kind = "group" /\ update.to.kind = "group" /\ update.to.spots > service.spots
         => events = << >>

FullInv ==
  /\ service.kind = "group" => EventInv /\ \A c \in Client : ClientInv(c)
  /\ UpdateInv

\* No more seats are given back than the model lets clients give back.
SpentInv == GivenBack \in Nat

\* Nothing is given back at first.
LEMMA SpentInit == Init => SpentInv
BY DEF Init, SpentInv, GivenBack, Expense

\* Every step keeps what is given back within its bound.
LEMMA SpentStep ==
  ASSUME TypeOK, SpentInv, [Next]_vars
  PROVE  SpentInv'
<1>1. CASE UNCHANGED vars  BY <1>1 DEF vars, SpentInv, GivenBack
<1>2. CASE Next
  <2>1. /\ budget["withdrawals"] \in Nat /\ Limit["withdrawals"] \in Nat
        /\ budget["withdrawals"] <= Limit["withdrawals"]
    BY DEF SpentInv, GivenBack, TypeOK, Expense
  <2>2. TypeOK'  BY TypeStep
  <2>3. budget'["withdrawals"] \in Nat  BY <2>2 DEF TypeOK, Expense
  <2>4. budget'["withdrawals"] <= budget["withdrawals"]
    <3>1. budget' = budget \/ \E what \in Expense : Spend(what)
      BY <1>2 DEF Next, Ask, ReadHost, CreateEvent, Refuse, TakeWanted, TakeOnly, TakeLeastRecent,
                  TakeFewest, TakeAll, Choose, ReadCount, Increment, Reply, StorageError, Withdraw,
                  UpdateBegin, UpdateSave, UpdateFails, Expense
    <3>2. CASE budget' = budget  BY <2>1, <3>2
    <3>3. CASE \E what \in Expense : Spend(what)
      BY <2>1, <3>3 DEF Spend, TypeOK, Expense
    <3> QED  BY <3>1, <3>2, <3>3
  <2> QED  BY <2>1, <2>3, <2>4 DEF SpentInv, GivenBack
<1> QED  BY <1>1, <1>2

\* FullInv holds at first.
LEMMA FullInit == Init => FullInv
BY DEF Init, FullInv, EventInv, ClientInv, UpdateInv, Idle

\* A seat once taken counts for ever, even if it is given back.
LEMMA TakenGrows ==
  ASSUME TypeOK, Next, NEW s \in Slot
  PROVE  Taken(s) \in Int /\ Taken(s)' \in Int /\ Taken(s)' >= Taken(s)
<1>1. TypeOK'  BY TypeStep
<1>2. /\ count[s] \in Nat /\ budget["withdrawals"] \in Nat
      /\ count'[s] \in Nat /\ budget'["withdrawals"] \in Nat
      /\ Limit["withdrawals"] \in Nat
  BY <1>1 DEF TypeOK, Expense
<1>3. Taken(s) \in Int /\ Taken(s)' \in Int  BY <1>2 DEF Taken, GivenBack
<1>4. CASE \E t \in Slot : Withdraw(t)
  <2>1. PICK t \in Slot : Withdraw(t)  BY <1>4
  <2>2. budget'["withdrawals"] = budget["withdrawals"] - 1
    BY <2>1 DEF Withdraw, Spend, TypeOK, Expense
  <2>3. count'[s] >= count[s] - 1  BY <1>2, <2>1 DEF Withdraw, TypeOK
  <2> QED  BY <1>2, <1>3, <2>2, <2>3 DEF Taken, GivenBack
<1>5. CASE \E c \in Client : Increment(c)
  <2>1. PICK c \in Client : Increment(c)  BY <1>5
  <2>2. count'[s] >= count[s]  BY <1>2, <2>1 DEF Increment, Raised, TypeOK
  <2>3. budget' = budget  BY <2>1 DEF Increment
  <2> QED  BY <1>2, <1>3, <2>2, <2>3 DEF Taken, GivenBack
<1>6. CASE ~(\E t \in Slot : Withdraw(t)) /\ ~(\E c \in Client : Increment(c))
  <2>1. count' = count
    BY <1>6 DEF Next, Ask, ReadHost, CreateEvent, Refuse, TakeWanted, TakeOnly, TakeLeastRecent,
                TakeFewest, TakeAll, Choose, ReadCount, Reply, StorageError, UpdateBegin, UpdateSave,
                UpdateFails
  <2>2. budget'["withdrawals"] = budget["withdrawals"]
    <3>1. CASE \E c \in Client, t \in Slot, wanted \in Wanted[service.kind] \cup {Anyone} :
                 Ask(c, t, wanted)
      BY <3>1 DEF Ask, Spend, TypeOK, Expense
    <3>2. CASE \E c \in Client : StorageError(c)
      BY <3>2 DEF StorageError, Spend, TypeOK, Expense
    <3>3. CASE \E o \in Options[service.kind] : UpdateBegin(o)
      BY <3>3 DEF UpdateBegin, Spend, TypeOK, Expense
    <3>4. CASE UpdateFails
      BY <3>4 DEF UpdateFails, Spend, TypeOK, Expense
    <3>5. CASE budget' = budget  BY <3>5
    <3> QED
      BY <1>6, <3>1, <3>2, <3>3, <3>4, <3>5 DEF Next, ReadHost, CreateEvent, Refuse, TakeWanted, TakeOnly,
                TakeLeastRecent, TakeFewest, TakeAll, Choose, ReadCount, Reply, UpdateSave
  <2> QED  BY <1>2, <1>3, <2>1, <2>2 DEF Taken, GivenBack
<1> QED  BY <1>3, <1>4, <1>5, <1>6

\* The slot of a booking is one of the slots.
LEMMA BookedSlot ==
  ASSUME TypeOK, NEW c \in Client, client[c].at # "idle"
  PROVE  client[c].slot \in Slot
<1>1. client[c] \in Booking  BY DEF TypeOK
<1> QED  BY <1>1, Stages DEF Looking, Counting, Chose, Told

\* A step that leaves the booking of a client alone keeps what is known of it.
LEMMA OthersKeep ==
  ASSUME TypeOK, Next, service' = service, NEW d \in Client, client'[d] = client[d], ClientInv(d)
  PROVE  ClientInv(d)'
<1>1. CASE client[d].at = "idle"  BY <1>1 DEF ClientInv
<1>2. CASE client[d].at # "idle"
  <2>1. client[d].slot \in Slot  BY <1>2, BookedSlot
  <2>2. /\ Taken(client[d].slot) \in Int /\ (Taken(client[d].slot))' \in Int
        /\ (Taken(client[d].slot))' >= Taken(client[d].slot)
    <3> DEFINE s == client[d].slot
    <3>1. Taken(s) \in Int /\ count'[s] + GivenBack' \in Int
          /\ count'[s] + GivenBack' >= Taken(s)
      BY <2>1, TakenGrows DEF Taken
    <3> QED  BY <3>1 DEF Taken
  <2>3. service.spots \in Nat  BY DEF TypeOK
  <2> QED  BY <2>2, <2>3 DEF ClientInv
<1> QED  BY <1>1, <1>2

\* Every event has a slot.
LEMMA EventSlot ==
  ASSUME TypeOK, NEW i \in DOMAIN events
  PROVE  events[i].slot \in Slot
<1> DEFINE S == [host : Host, slot : Slot]
<1>1. ASSUME NEW T, NEW q \in Seq(T), NEW j \in DOMAIN q PROVE q[j] \in T
  OBVIOUS
<1>2. events \in Seq(S)  BY DEF TypeOK
<1>3. events[i] \in S  BY <1>1, <1>2
<1> QED  BY <1>3

\* So do the events that were there before.
LEMMA EventsKeep ==
  ASSUME TypeOK, Next, service' = service, events' = events, EventInv
  PROVE  EventInv'
<1> SUFFICES ASSUME NEW i \in DOMAIN events
             PROVE  count'[events[i].slot] + GivenBack' >= service.spots
  BY DEF EventInv, Taken
<1>1. events[i].slot \in Slot  BY EventSlot
<1>2. Taken(events[i].slot) >= service.spots  BY DEF EventInv
<1>3. /\ Taken(events[i].slot) \in Int /\ count'[events[i].slot] + GivenBack' \in Int
      /\ count'[events[i].slot] + GivenBack' >= Taken(events[i].slot)
  BY <1>1, TakenGrows DEF Taken
<1>4. service.spots \in Nat  BY DEF TypeOK
<1> QED  BY <1>2, <1>3, <1>4

\* What remains to be shown of a step in which one client acts.
LEMMA ClientStep ==
  ASSUME TypeOK, FullInv, Next, NEW c \in Client, service' = service, update' = update,
         update.at # "save", \A d \in Client \ {c} : client'[d] = client[d],
         service.kind = "group" => ClientInv(c)' /\ EventInv'
  PROVE  FullInv'
<1>1. UpdateInv'  BY DEF UpdateInv
<1>2. ASSUME service.kind = "group", NEW d \in Client PROVE ClientInv(d)'
  <2>1. CASE d = c  BY <1>2, <2>1
  <2>2. CASE d # c
    <3>1. ClientInv(d) /\ client'[d] = client[d]  BY <1>2, <2>2 DEF FullInv
    <3> QED  BY <3>1, OthersKeep
  <2> QED  BY <2>1, <2>2
<1> QED  BY <1>1, <1>2 DEF FullInv

\* Between two bookings a client knows nothing that could become false.
LEMMA IdleKnows ==
  ASSUME NEW c \in Client, client'[c].at = "idle"
  PROVE  ClientInv(c)'
BY DEF ClientInv

\* Choosing among the hosts of an open slot
LEMMA ChooseKeeps ==
  ASSUME TypeOK, FullInv, Next, NEW c \in Client, NEW hosts, Choose(c, hosts),
         client[c].at = "hosts", client[c].kind # "group"
  PROVE  FullInv'
<1>1. service.kind # "group"  BY DEF FullInv, ClientInv
<1>2. update.at # "save"  BY DEF FullInv, UpdateInv
<1> QED  BY <1>1, <1>2, ClientStep DEF Choose, TypeOK

\* Every step of a service and of its clients keeps the invariant.
LEMMA FullStep ==
  ASSUME TypeOK, SpentInv, FullInv, Calm, [Next]_vars
  PROVE  FullInv'
<1>1. CASE UNCHANGED vars
  BY <1>1 DEF vars, FullInv, EventInv, ClientInv, UpdateInv, Taken, GivenBack
<1> SUFFICES ASSUME Next PROVE FullInv'
  BY <1>1
<1>2. service \in [kind : Kind, spots : Nat, blocking : BOOLEAN] /\ service.spots \in Nat
  BY DEF TypeOK
<1>3. TypeOK'  BY TypeStep
<1>4. ASSUME NEW c \in Client, NEW s \in Slot, NEW wanted \in Wanted[service.kind] \cup {Anyone},
             Ask(c, s, wanted)
      PROVE  FullInv'
  <2>1. update.at # "save"  BY <1>4 DEF Ask, Calm
  <2>2. ASSUME service.kind = "group" PROVE ClientInv(c)'
    <3>1. wanted = Anyone  BY <1>4, <2>2 DEF Calm
    <3>2. /\ client'[c].at = "hosts" /\ client'[c].kind = service.kind
          /\ client'[c].spots = service.spots /\ client'[c].wanted = wanted
      BY <1>4 DEF Ask, TypeOK
    <3> QED  BY <1>4, <2>2, <3>1, <3>2 DEF ClientInv, Ask
  <2>3. ASSUME service.kind = "group" PROVE EventInv'
    BY <1>4, <2>3, EventsKeep DEF Ask, FullInv
  <2> QED  BY <1>4, <2>1, <2>2, <2>3, ClientStep DEF Ask, TypeOK
<1>5. ASSUME NEW c \in Client, NEW h \in Host, ReadHost(c, h) PROVE FullInv'
  <2>1. update.at # "save"  BY <1>5 DEF ReadHost, FullInv, UpdateInv
  <2>2. ASSUME service.kind = "group" PROVE ClientInv(c)'
    <3>1. client[c].at = "hosts"  BY <1>5 DEF ReadHost
    <3>2. client[c] \in Looking  BY <3>1, Stages DEF TypeOK
    <3>3. /\ client'[c].at = "hosts" /\ client'[c].kind = client[c].kind
          /\ client'[c].spots = client[c].spots /\ client'[c].wanted = client[c].wanted
      BY <1>5, <3>1, <3>2 DEF ReadHost, TypeOK, Looking
    <3> QED  BY <1>5, <2>2, <3>1, <3>3 DEF ClientInv, FullInv, ReadHost
  <2>3. ASSUME service.kind = "group" PROVE EventInv'
    BY <1>5, <2>3, EventsKeep DEF ReadHost, FullInv
  <2> QED  BY <1>5, <2>1, <2>2, <2>3, ClientStep DEF ReadHost, TypeOK
<1>6. ASSUME NEW c \in Client, NEW h \in Host, CreateEvent(c, h) PROVE FullInv'
  <2> DEFINE b == client[c]
             e == [host |-> h, slot |-> b.slot]
  <2>1. update.at # "save"  BY <1>6 DEF CreateEvent, FullInv, UpdateInv
  <2>2. b.slot \in Slot  BY <1>6, BookedSlot DEF CreateEvent
  <2>3. ASSUME service.kind = "group"
        PROVE  Taken(b.slot) >= service.spots /\ count' = count /\ GivenBack' = GivenBack
    BY <1>6, <2>3 DEF CreateEvent, FullInv, ClientInv, GivenBack
  <2>4. ASSUME service.kind = "group" PROVE ClientInv(c)'
    <3>1. client'[c] = Stored(b, h)  BY <1>6 DEF CreateEvent, TypeOK
    <3>2. CASE b.hosts = {h}  BY <3>1, <3>2, IdleKnows DEF Stored, Idle
    <3>3. CASE b.hosts # {h}
      <4>1. b \in Told  BY <1>6, Stages DEF CreateEvent, TypeOK
      <4>2. client'[c].at = "told" /\ client'[c].slot = b.slot
        BY <3>1, <3>3, <4>1 DEF Stored, Told
      <4> QED  BY <1>6, <2>3, <2>4, <4>2 DEF ClientInv, Taken, CreateEvent
    <3> QED  BY <3>2, <3>3
  <2>5. ASSUME service.kind = "group" PROVE EventInv'
    <3>1. events' = Append(events, e)  BY <1>6 DEF CreateEvent
    <3>2. events \in Seq([host : Host, slot : Slot]) /\ e \in [host : Host, slot : Slot]
      BY <2>2 DEF TypeOK
    <3> SUFFICES ASSUME NEW i \in DOMAIN events'
                 PROVE  count'[events'[i].slot] + GivenBack' >= service'.spots
      BY DEF EventInv, Taken
    <3>3. service' = service  BY <1>6 DEF CreateEvent
    <3>4. CASE i = Len(events) + 1
      <4>1. events'[i].slot = b.slot  BY <3>1, <3>2, <3>4
      <4> QED  BY <2>3, <2>5, <3>3, <4>1 DEF Taken
    <3>5. CASE i # Len(events) + 1
      <4>1. i \in DOMAIN events /\ events'[i] = events[i]  BY <3>1, <3>2, <3>5
      <4>2. Taken(events[i].slot) >= service.spots  BY <2>5, <4>1 DEF FullInv, EventInv
      <4> QED  BY <2>3, <2>5, <3>3, <4>1, <4>2 DEF Taken
    <3> QED  BY <3>4, <3>5
  <2> QED  BY <1>6, <2>1, <2>4, <2>5, ClientStep DEF CreateEvent, TypeOK
<1>7. ASSUME NEW c \in Client, Refuse(c) \/ StorageError(c) PROVE FullInv'
  <2>1. client[c].at # "idle"  BY <1>7 DEF Refuse, StorageError
  <2>2. update.at # "save"  BY <2>1 DEF FullInv, UpdateInv
  <2>3. client' = [client EXCEPT ![c] = Idle] /\ UNCHANGED <<service, events, update>>
    BY <1>7 DEF Refuse, StorageError
  <2>4. ClientInv(c)'  BY <2>3, IdleKnows DEF Idle, TypeOK
  <2>5. ASSUME service.kind = "group" PROVE EventInv'  BY <2>3, <2>5, EventsKeep DEF FullInv
  <2> QED  BY <2>2, <2>3, <2>4, <2>5, ClientStep DEF TypeOK
<1>8. ASSUME NEW c \in Client, TakeWanted(c) PROVE FullInv'
  <2>1. client[c].at = "hosts" /\ client[c].wanted # Anyone
    BY <1>8 DEF TakeWanted, Granted, SlotFound
  <2>2. service.kind # "group"  BY <2>1 DEF FullInv, ClientInv
  <2>3. update.at # "save"  BY <2>1 DEF FullInv, UpdateInv
  <2> QED  BY <1>8, <2>2, <2>3, ClientStep DEF TakeWanted, Choose, TypeOK
<1>9. ASSUME NEW c \in Client, TakeOnly(c) \/ TakeLeastRecent(c) \/ TakeFewest(c) \/ TakeAll(c)
      PROVE  FullInv'
  <2>1. client[c].at = "hosts" /\ client[c].kind # "group" /\ \E hosts : Choose(c, hosts)
    BY <1>9 DEF TakeOnly, TakeLeastRecent, TakeFewest, TakeAll, RoundRobin, Open, SlotFound
  <2>2. service.kind # "group"  BY <2>1 DEF FullInv, ClientInv
  <2>3. update.at # "save"  BY <2>1 DEF FullInv, UpdateInv
  <2> QED  BY <2>1, <2>2, <2>3, ClientStep DEF Choose, TypeOK
<1>10. ASSUME NEW c \in Client, ReadCount(c) PROVE FullInv'
  <2> DEFINE b == client[c]
  <2>1. b.at = "hosts"  BY <1>10 DEF ReadCount, Open, SlotFound
  <2>2. update.at # "save"  BY <2>1 DEF FullInv, UpdateInv
  <2>3. b.slot \in Slot  BY <2>1, BookedSlot
  <2>4. ASSUME service.kind = "group" PROVE ClientInv(c)'
    <3>1. b.spots = service.spots  BY <2>1, <2>4 DEF FullInv, ClientInv
    <3>2. /\ client'[c].at = "increment" /\ client'[c].slot = b.slot
          /\ client'[c].tell = LastSeat(b)
      BY <1>10 DEF ReadCount, TypeOK
    <3>3. LastSeat(b) => Taken(b.slot) + 1 >= service.spots
      <4>1. count[b.slot] \in Nat /\ GivenBack \in Nat  BY <2>3 DEF TypeOK, SpentInv
      <4> QED  BY <1>2, <3>1, <4>1 DEF LastSeat, Taken
    <3> QED  BY <1>10, <3>2, <3>3 DEF ClientInv, ReadCount, Taken, GivenBack
  <2>5. ASSUME service.kind = "group" PROVE EventInv'
    BY <1>10, <2>5, EventsKeep DEF ReadCount, FullInv
  <2> QED  BY <1>10, <2>2, <2>4, <2>5, ClientStep DEF ReadCount, TypeOK
<1>11. ASSUME NEW c \in Client, Increment(c) PROVE FullInv'
  <2> DEFINE b == client[c]
  <2>1. b \in Counting  BY <1>11, Stages DEF Increment, TypeOK
  <2>2. update.at # "save"  BY <1>11 DEF Increment, FullInv, UpdateInv
  <2>3. ASSUME service.kind = "group" PROVE ClientInv(c)'
    <3>1. /\ client'[c].at = "users" /\ client'[c].slot = b.slot /\ client'[c].tell = b.tell
      BY <1>11, <2>1 DEF Increment, Chosen, Counting, TypeOK
    <3>2. b.tell => Taken(b.slot) + 1 >= service.spots
      BY <1>11, <2>3 DEF Increment, FullInv, ClientInv
    <3>3. count'[b.slot] = count[b.slot] + 1 /\ GivenBack' = GivenBack
      BY <1>11, <2>1 DEF Increment, Raised, Counting, TypeOK, GivenBack
    <3>4. count[b.slot] \in Nat /\ GivenBack \in Nat  BY <2>1 DEF Counting, TypeOK, SpentInv
    <3>5. b.tell => count'[b.slot] + GivenBack' >= service.spots
      BY <1>2, <3>2, <3>3, <3>4 DEF Taken
    <3> QED  BY <1>11, <3>1, <3>5 DEF ClientInv, Increment, Taken
  <2>4. ASSUME service.kind = "group" PROVE EventInv'
    BY <1>11, <2>4, EventsKeep DEF Increment, FullInv
  <2> QED  BY <1>11, <2>2, <2>3, <2>4, ClientStep DEF Increment, TypeOK
<1>12. ASSUME NEW c \in Client, Reply(c) PROVE FullInv'
  <2> DEFINE b == client[c]
  <2>1. b \in Chose  BY <1>12, Stages DEF Reply, TypeOK
  <2>2. update.at # "save"  BY <1>12 DEF Reply, FullInv, UpdateInv
  <2>3. ASSUME service.kind = "group" PROVE ClientInv(c)'
    <3>1. CASE ~b.tell
      <4>1. client'[c] = Idle  BY <1>12, <3>1 DEF Reply, TypeOK
      <4> QED  BY <4>1, IdleKnows DEF Idle
    <3>2. CASE b.tell
      <4>1. client'[c].at = "told" /\ client'[c].slot = b.slot  BY <1>12, <3>2 DEF Reply, TypeOK
      <4>2. Taken(b.slot) >= service.spots  BY <1>12, <2>3, <3>2 DEF Reply, FullInv, ClientInv
      <4> QED  BY <1>12, <4>1, <4>2 DEF ClientInv, Reply, Taken, GivenBack
    <3> QED  BY <3>1, <3>2
  <2>4. ASSUME service.kind = "group" PROVE EventInv'
    BY <1>12, <2>4, EventsKeep DEF Reply, FullInv
  <2> QED  BY <1>12, <2>2, <2>3, <2>4, ClientStep DEF Reply, TypeOK
<1>13. ASSUME NEW s \in Slot, Withdraw(s) PROVE FullInv'
  <2>1. UpdateInv'  BY <1>13 DEF Withdraw, FullInv, UpdateInv
  <2>2. ASSUME service.kind = "group", NEW c \in Client PROVE ClientInv(c)'
    BY <1>13, <2>2, OthersKeep DEF Withdraw, FullInv
  <2>3. ASSUME service.kind = "group" PROVE EventInv'
    BY <1>13, <2>3, EventsKeep DEF Withdraw, FullInv
  <2> QED  BY <1>13, <2>1, <2>2, <2>3 DEF FullInv, Withdraw
<1>14. ASSUME NEW o \in Options[service.kind], UpdateBegin(o) PROVE FullInv'
  <2>1. \A c \in Client : client[c].at = "idle"  BY <1>14 DEF UpdateBegin, Calm
  <2>2. service' = service /\ client' = client /\ update' = [at |-> "save", to |-> o]
        /\ events' = IF Reopens(o) THEN << >> ELSE events
    BY <1>14 DEF UpdateBegin
  <2>3. service.kind # "group" => o.kind # "group"  BY <1>2 DEF Calm
  <2>4. UpdateInv'  BY <2>1, <2>2, <2>3 DEF UpdateInv, Reopens
  <2>5. \A c \in Client : ClientInv(c)'  BY <2>1, <2>2, IdleKnows
  <2>6. ASSUME service.kind = "group" PROVE EventInv'
    <3>1. CASE Reopens(o)  BY <2>2, <3>1 DEF EventInv
    <3>2. CASE ~Reopens(o)  BY <2>2, <2>6, <3>2, EventsKeep DEF FullInv
    <3> QED  BY <3>1, <3>2
  <2> QED  BY <2>2, <2>4, <2>5, <2>6 DEF FullInv
<1>15. ASSUME UpdateSave PROVE FullInv'
  <2>1. /\ \A c \in Client : client[c].at = "idle"
        /\ service.kind # "group" => update.to.kind # "group"
        /\ service.kind = "group" /\ update.to.kind = "group" /\ update.to.spots > service.spots
             => events = << >>
    BY <1>15 DEF UpdateSave, FullInv, UpdateInv
  <2>2. /\ service'.kind = update.to.kind /\ service'.spots = update.to.spots
        /\ client' = client /\ events' = events /\ count' = count /\ budget' = budget
        /\ update'.at # "save"
    BY <1>2, <1>15 DEF UpdateSave, Idle
  <2>3. UpdateInv'  BY <2>2 DEF UpdateInv
  <2>4. \A c \in Client : ClientInv(c)'  BY <2>1, <2>2, IdleKnows
  <2>5. ASSUME service'.kind = "group" PROVE EventInv'
    <3>1. service.kind = "group" /\ update.to.kind = "group"  BY <2>1, <2>2, <2>5
    <3>2. CASE update.to.spots > service.spots  BY <2>1, <2>2, <3>1, <3>2 DEF EventInv
    <3>3. CASE ~(update.to.spots > service.spots)
      <4> SUFFICES ASSUME NEW i \in DOMAIN events
                   PROVE  Taken(events[i].slot) >= update.to.spots
        BY <2>2 DEF EventInv, Taken, GivenBack
      <4>1. Taken(events[i].slot) >= service.spots  BY <3>1 DEF FullInv, EventInv
      <4>2. update.to.spots \in Nat  BY <1>15 DEF UpdateSave, TypeOK
      <4>3. Taken(events[i].slot) \in Int
        <5>1. count[events[i].slot] \in Nat  BY EventSlot DEF TypeOK
        <5> QED  BY <5>1 DEF Taken, SpentInv
      <4> QED  BY <1>2, <3>3, <4>1, <4>2, <4>3
    <3> QED  BY <3>2, <3>3
  <2> QED  BY <2>3, <2>4, <2>5 DEF FullInv
<1>16. ASSUME UpdateFails PROVE FullInv'
  <2>1. \A c \in Client : client[c].at = "idle"  BY <1>16 DEF UpdateFails, FullInv, UpdateInv
  <2>2. /\ service' = service /\ client' = client /\ events' = events
        /\ update'.at # "save"
    BY <1>16 DEF UpdateFails, Idle
  <2>3. UpdateInv' /\ \A c \in Client : ClientInv(c)'  BY <2>1, <2>2, IdleKnows DEF UpdateInv
  <2>4. ASSUME service.kind = "group" PROVE EventInv'
    BY <2>2, <2>4, EventsKeep DEF FullInv
  <2> QED  BY <2>2, <2>3, <2>4 DEF FullInv
<1> QED
  BY <1>4, <1>5, <1>6, <1>7, <1>8, <1>9, <1>10, <1>11, <1>12, <1>13, <1>14, <1>15, <1>16 DEF Next

\* A slot of a group that is closed by events is full: however many clients book
\* at the same time, however often statements fail and seats are given back, the
\* last seat is told to nobody before all the others were taken.
THEOREM FullWhenClosed ==
  ASSUME Calm
  PROVE  Spec => []ClosedMeansFull
<1> DEFINE IInv == TypeOK /\ SpentInv /\ FullInv
<1>1. Init => IInv  BY TypeInit, SpentInit, FullInit
<1>2. IInv /\ [Next]_vars => IInv'  BY TypeStep, SpentStep, FullStep
<1>3. IInv => ClosedMeansFull
  BY DEF ClosedMeansFull, FullInv, EventInv, Taken
<1> QED  BY <1>1, <1>2, <1>3, PTL DEF Spec

-----------------------------------------------------------------------------
(* The reservations are counted exactly.                                   *)

\* A step of one client changes who is pending by that client at most.
LEMMA PendingFinite ==
  ASSUME NEW s \in Slot
  PROVE  IsFiniteSet(Pending(s)) /\ Cardinality(Pending(s)) \in Nat
<1>1. Pending(s) \subseteq Client  BY DEF Pending
<1> QED  BY <1>1, FS_Subset, FS_CardinalityType

\* The clients pending at a slot after a step are finitely many.
LEMMA PendingFinitePrime ==
  ASSUME NEW s \in Slot
  PROVE  IsFiniteSet(Pending(s)') /\ Cardinality(Pending(s)') \in Nat
<1>1. Pending(s)' \subseteq Client  BY DEF Pending
<1> QED  BY <1>1, FS_Subset, FS_CardinalityType

\* A step of one client adds it to those pending at a slot, or takes it away, at most.
LEMMA PendingStep ==
  ASSUME NEW c \in Client, \A d \in Client \ {c} : client'[d] = client[d], NEW s \in Slot
  PROVE  /\ c \notin Pending(s) /\ c \notin Pending(s)' => Pending(s)' = Pending(s)
         /\ c \notin Pending(s) /\ c \in Pending(s)' =>
              Cardinality(Pending(s)') = Cardinality(Pending(s)) + 1
         /\ c \in Pending(s) /\ c \notin Pending(s)' =>
              Cardinality(Pending(s)') = Cardinality(Pending(s)) - 1
<1>1. \A d \in Client \ {c} : d \in Pending(s)' <=> d \in Pending(s)  BY DEF Pending
<1>2. Pending(s) \subseteq Client /\ Pending(s)' \subseteq Client  BY DEF Pending
<1>3. c \notin Pending(s) /\ c \notin Pending(s)' => Pending(s)' = Pending(s)
  <2>1. ASSUME c \notin Pending(s), c \notin Pending(s)', NEW d
        PROVE  d \in Pending(s)' <=> d \in Pending(s)
    BY <1>1, <1>2, <2>1
  <2> QED  BY <2>1
<1>4. ASSUME c \notin Pending(s), c \in Pending(s)'
      PROVE  Cardinality(Pending(s)') = Cardinality(Pending(s)) + 1
  <2>1. Pending(s)' = Pending(s) \cup {c}  BY <1>1, <1>2, <1>4
  <2> QED  BY <1>4, <2>1, PendingFinite, FS_AddElement
<1>5. ASSUME c \in Pending(s), c \notin Pending(s)'
      PROVE  Cardinality(Pending(s)') = Cardinality(Pending(s)) - 1
  <2>1. Pending(s)' = Pending(s) \ {c}  BY <1>1, <1>2, <1>5
  <2> QED  BY <1>5, <2>1, PendingFinite, FS_RemoveElement
<1> QED  BY <1>3, <1>4, <1>5

\* No fewer statements have failed than the model lets fail.
FailedInv == Failed \in Nat

Counted(s) ==
  /\ seats[s] + Cardinality(Pending(s)) <= count[s]
  /\ count[s] <= seats[s] + Cardinality(Pending(s)) + Failed

\* A statement fails, or none does.
LEMMA FailedStep ==
  ASSUME TypeOK, FailedInv, Next
  PROVE  /\ Failed' \in Nat /\ Failed' >= Failed
         /\ ~UpdateFails /\ (\A c \in Client : ~StorageError(c)) => Failed' = Failed
         /\ (\E c \in Client : StorageError(c)) => Failed' = Failed + 1
<1>1. /\ budget \in [Expense -> Nat] /\ budget["failures"] \in Nat /\ Limit["failures"] \in Nat
      /\ Failed = Limit["failures"] - budget["failures"]
  BY DEF TypeOK, Failed, Expense
<1>2. Failed' = Limit["failures"] - budget'["failures"]  BY DEF Failed
<1>3. ASSUME Spend("failures") PROVE Failed' = Failed + 1 /\ Failed' \in Nat
  <2>1. budget'["failures"] = budget["failures"] - 1  BY <1>1, <1>3 DEF Spend, Expense
  <2> QED  BY <1>1, <1>2, <2>1 DEF FailedInv
<1>4. ASSUME ~UpdateFails, \A c \in Client : ~StorageError(c) PROVE Failed' = Failed
  <2>1. budget' = budget \/ \E what \in Expense \ {"failures"} : Spend(what)
    BY <1>4 DEF Next, Ask, ReadHost, CreateEvent, Refuse, TakeWanted, TakeOnly, TakeLeastRecent,
                TakeFewest, TakeAll, Choose, ReadCount, Increment, Reply, Withdraw, UpdateBegin,
                UpdateSave, Expense
  <2>2. budget'["failures"] = budget["failures"]
    BY <1>1, <2>1 DEF Spend, Expense
  <2> QED  BY <1>1, <1>2, <2>2
<1>5. (\E c \in Client : StorageError(c)) => Spend("failures")  BY DEF StorageError
<1>6. UpdateFails => Spend("failures")  BY DEF UpdateFails
<1> QED  BY <1>3, <1>4, <1>5, <1>6 DEF FailedInv

\* A step that neither counts nor confirms a seat, and ends no booking with one.
LEMMA NothingCounted ==
  ASSUME TypeOK, FailedInv, Next, NEW s \in Slot, Counted(s), count' = count, seats' = seats,
         Pending(s)' = Pending(s)
  PROVE  Counted(s)'
<1>1. /\ count[s] \in Nat /\ seats[s] \in Nat /\ Failed \in Nat /\ Failed' \in Nat
      /\ Failed' >= Failed
  BY FailedStep DEF TypeOK, FailedInv
<1>2. Cardinality(Pending(s)) \in Nat  BY PendingFinite
<1> QED  BY <1>1, <1>2 DEF Counted

\* Every step counts as many seats as it takes and gives back.
LEMMA CountedStep ==
  ASSUME TypeOK, FailedInv, NEW s \in Slot, Counted(s), [Next]_vars
  PROVE  Counted(s)'
<1>1. CASE UNCHANGED vars  BY <1>1 DEF vars, Counted, Pending, Failed
<1> SUFFICES ASSUME Next PROVE Counted(s)'
  BY <1>1
<1> DEFINE P == Cardinality(Pending(s))
           Q == Cardinality(Pending(s)')
<1>2. /\ count[s] \in Nat /\ seats[s] \in Nat /\ Failed \in Nat /\ Failed' \in Nat
      /\ P \in Nat /\ Q \in Nat
  BY FailedStep, PendingFinite, PendingFinitePrime DEF TypeOK, FailedInv
<1>3. seats[s] + P <= count[s] /\ count[s] <= seats[s] + P + Failed  BY DEF Counted
<1>4. ASSUME seats'[s] + Q <= count'[s], count'[s] <= seats'[s] + Q + Failed'
      PROVE  Counted(s)'
  BY <1>4 DEF Counted
<1> HIDE DEF P, Q
<1>5. ASSUME NEW c \in Client, client[c].at \in {"idle", "hosts", "told"},
             client'[c].at # "users" \/ ~client'[c].reserved,
             \A d \in Client \ {c} : client'[d] = client[d], count' = count, seats' = seats
      PROVE  Counted(s)'
  <2>1. c \notin Pending(s) /\ c \notin Pending(s)'  BY <1>5 DEF Pending
  <2> QED  BY <1>5, <2>1, PendingStep, NothingCounted
<1>6. ASSUME NEW c \in Client,
             \/ \E t \in Slot, wanted \in Wanted[service.kind] \cup {Anyone} : Ask(c, t, wanted)
             \/ \E h \in Host : ReadHost(c, h) \/ CreateEvent(c, h)
             \/ Refuse(c) \/ TakeWanted(c) \/ TakeOnly(c) \/ TakeLeastRecent(c) \/ TakeFewest(c)
             \/ TakeAll(c) \/ ReadCount(c)
      PROVE  Counted(s)'
  <2>1. client[c].at \in {"idle", "hosts", "told"} /\ count' = count /\ seats' = seats
    BY <1>6 DEF Ask, ReadHost, CreateEvent, Refuse, TakeWanted, TakeOnly, TakeLeastRecent,
                TakeFewest, TakeAll, Choose, ReadCount, Granted, RoundRobin, Open, SlotFound
  <2>2. PICK b : client' = [client EXCEPT ![c] = b] /\ (b.at # "users" \/ ~b.reserved)
    <3>1. CASE \E t \in Slot, wanted \in Wanted[service.kind] \cup {Anyone} : Ask(c, t, wanted)
      BY <3>1 DEF Ask
    <3>2. CASE \E h \in Host : ReadHost(c, h)
      <4>1. PICK h \in Host : ReadHost(c, h)  BY <3>2
      <4>2. client[c] \in Looking  BY <4>1, Stages DEF ReadHost, TypeOK
      <4> DEFINE free == IF Free(h, client[c].slot) THEN {h} ELSE {}
                 b == [client[c] EXCEPT !.free = @ \cup free, !.unread = @ \ {h}]
      <4> HIDE DEF free
      <4>3. b.at = "hosts"  BY <4>1, <4>2 DEF ReadHost, Looking
      <4>4. client' = [client EXCEPT ![c] = b]  BY <4>1 DEF ReadHost, free
      <4> QED  BY <4>3, <4>4
    <3>3. CASE \E h \in Host : CreateEvent(c, h)
      <4>1. PICK h \in Host : CreateEvent(c, h)  BY <3>3
      <4>2. client[c] \in Told  BY <4>1, Stages DEF CreateEvent, TypeOK
      <4>3. Stored(client[c], h).at # "users"  BY <4>2 DEF Stored, Told, Idle
      <4> QED  BY <4>1, <4>3 DEF CreateEvent
    <3>4. CASE Refuse(c)
      <4>1. Idle.at # "users"  BY DEF Idle
      <4> QED  BY <3>4, <4>1 DEF Refuse
    <3>5. CASE ReadCount(c)
      <4> DEFINE b == [at |-> "increment", slot |-> client[c].slot, hosts |-> Host,
                       tell |-> LastSeat(client[c]), found |-> count[client[c].slot]]
      <4>1. b.at # "users"  OBVIOUS
      <4>2. client' = [client EXCEPT ![c] = b]  BY <3>5 DEF ReadCount
      <4> QED  BY <4>1, <4>2
    <3>6. CASE TakeWanted(c) \/ TakeOnly(c) \/ TakeLeastRecent(c) \/ TakeFewest(c) \/ TakeAll(c)
      <4>1. PICK hosts : Choose(c, hosts)
        BY <3>6 DEF TakeWanted, TakeOnly, TakeLeastRecent, TakeFewest, TakeAll
      <4>2. ~Chosen(client[c], hosts, TRUE).reserved  BY DEF Chosen
      <4> QED  BY <4>1, <4>2 DEF Choose
    <3> QED  BY <1>6, <3>1, <3>2, <3>3, <3>4, <3>5, <3>6
  <2>3. client'[c] = b /\ \A d \in Client \ {c} : client'[d] = client[d]  BY <2>2 DEF TypeOK
  <2> QED  BY <1>5, <2>1, <2>2, <2>3
<1>7. ASSUME NEW c \in Client, Increment(c) PROVE Counted(s)'
  <2>1. client[c] \in Counting /\ count' = [count EXCEPT ![client[c].slot] = @ + 1]
    BY <1>7, Stages DEF Increment, Raised, TypeOK
  <2>2. /\ client'[c].at = "users" /\ client'[c].slot = client[c].slot /\ client'[c].reserved
        /\ \A d \in Client \ {c} : client'[d] = client[d]
    BY <1>7, <2>1 DEF Increment, Chosen, Counting, TypeOK
  <2>3. c \notin Pending(s) /\ (c \in Pending(s)' <=> client[c].slot = s)
    BY <1>7, <2>2 DEF Increment, Pending
  <2>4. seats' = seats /\ Failed' = Failed  BY <1>7 DEF Increment, Failed
  <2>5. CASE client[c].slot = s
    <3>1. Q = P + 1  BY <2>2, <2>3, <2>5, PendingStep DEF P, Q
    <3>2. count'[s] = count[s] + 1  BY <2>1, <2>5 DEF TypeOK
    <3> QED  BY <1>2, <1>3, <1>4, <2>4, <3>1, <3>2
  <2>6. CASE client[c].slot # s
    <3>1. Q = P  BY <2>2, <2>3, <2>6, PendingStep DEF P, Q
    <3>2. count'[s] = count[s]  BY <2>1, <2>6 DEF TypeOK
    <3> QED  BY <1>2, <1>3, <1>4, <2>4, <3>1, <3>2
  <2> QED  BY <2>5, <2>6
<1>8. ASSUME NEW c \in Client, Reply(c) PROVE Counted(s)'
  <2>1. client[c] \in Chose  BY <1>8, Stages DEF Reply, TypeOK
  <2>2. /\ client'[c].at # "users"
        /\ \A d \in Client \ {c} : client'[d] = client[d]
    BY <1>8 DEF Reply, TypeOK, Idle
  <2>3. c \notin Pending(s)' /\ (c \in Pending(s) <=> client[c].slot = s /\ client[c].reserved)
    BY <1>8, <2>2 DEF Reply, Pending
  <2>4. /\ seats' = [seats EXCEPT ![client[c].slot] = IF client[c].reserved THEN @ + 1 ELSE @]
        /\ count' = count /\ Failed' = Failed
    BY <1>8 DEF Reply, Failed
  <2>5. CASE c \in Pending(s)
    <3>1. Q = P - 1  BY <2>2, <2>3, <2>5, PendingStep DEF P, Q
    <3>2. seats'[s] = seats[s] + 1  BY <2>1, <2>3, <2>4, <2>5 DEF TypeOK
    <3> QED  BY <1>2, <1>3, <1>4, <2>4, <3>1, <3>2
  <2>6. CASE c \notin Pending(s)
    <3>1. Pending(s)' = Pending(s)  BY <2>2, <2>3, <2>6, PendingStep
    <3>2. seats'[s] = seats[s]  BY <2>1, <2>3, <2>4, <2>6 DEF TypeOK, Chose
    <3>3. Q = P  BY <3>1 DEF P, Q
    <3> QED  BY <1>2, <1>3, <1>4, <2>4, <3>2, <3>3
  <2> QED  BY <2>5, <2>6
<1>9. ASSUME NEW c \in Client, StorageError(c) PROVE Counted(s)'
  <2>1. /\ client'[c].at # "users" /\ \A d \in Client \ {c} : client'[d] = client[d]
        /\ count' = count /\ seats' = seats
    BY <1>9 DEF StorageError, Idle, TypeOK
  <2>2. Failed' = Failed + 1  BY <1>9, FailedStep
  <2>3. c \notin Pending(s)'  BY <2>1 DEF Pending
  <2>4. Q = P \/ Q = P - 1
    <3>1. CASE c \in Pending(s)  BY <2>1, <2>3, <3>1, PendingStep DEF P, Q
    <3>2. CASE c \notin Pending(s)
      <4>1. Pending(s)' = Pending(s)  BY <2>1, <2>3, <3>2, PendingStep
      <4> QED  BY <4>1 DEF P, Q
    <3> QED  BY <3>1, <3>2
  <2> QED  BY <1>2, <1>3, <1>4, <2>1, <2>2, <2>4
<1>10. ASSUME NEW t \in Slot, Withdraw(t) PROVE Counted(s)'
  <2>1. Q = P /\ Failed' = Failed
    <3>1. ~UpdateFails /\ \A c \in Client : ~StorageError(c)
      BY <1>10 DEF Withdraw, UpdateFails, StorageError, TypeOK
    <3>2. Pending(s)' = Pending(s)  BY <1>10 DEF Withdraw, Pending
    <3> QED  BY <3>1, <3>2, FailedStep DEF P, Q
  <2>2. \/ t = s /\ count'[s] = count[s] - 1 /\ seats'[s] = seats[s] - 1
        \/ t # s /\ count'[s] = count[s] /\ seats'[s] = seats[s]
    BY <1>10 DEF Withdraw, TypeOK
  <2> QED  BY <1>2, <1>3, <1>4, <2>1, <2>2
<1>11. ASSUME \/ \E o \in Options[service.kind] : UpdateBegin(o)
              \/ UpdateSave \/ UpdateFails
       PROVE  Counted(s)'
  <2>1. client' = client /\ count' = count /\ seats' = seats
    BY <1>11 DEF UpdateBegin, UpdateSave, UpdateFails
  <2>2. Pending(s)' = Pending(s)  BY <2>1 DEF Pending
  <2> QED  BY <2>1, <2>2, NothingCounted
<1> QED  BY <1>6, <1>7, <1>8, <1>9, <1>10, <1>11 DEF Next

\* The reservations of a slot are those confirmed and not given back, those about
\* to be confirmed, and at most one for every statement that failed, however the
\* bookings overlap and whatever is updated.
THEOREM SeatsAreCounted == Spec => []SeatsCounted
<1> DEFINE CInv == TypeOK /\ FailedInv /\ \A s \in Slot : Counted(s)
<1>1. Init => CInv
  <2> SUFFICES ASSUME Init PROVE FailedInv /\ \A s \in Slot : Counted(s)
    BY TypeInit
  <2>1. Failed = 0  BY DEF Init, Failed, Expense
  <2>2. ASSUME NEW s \in Slot PROVE Counted(s)
    <3>1. Pending(s) = {}  BY DEF Init, Pending, Idle
    <3>2. Cardinality(Pending(s)) = 0  BY <3>1, FS_EmptySet
    <3>3. count[s] = 0 /\ seats[s] = 0  BY DEF Init
    <3> QED  BY <2>1, <3>2, <3>3 DEF Counted
  <2> QED  BY <2>1, <2>2 DEF FailedInv
<1>2. CInv /\ [Next]_vars => CInv'
  <2> SUFFICES ASSUME CInv, [Next]_vars PROVE CInv'
    OBVIOUS
  <2>1. TypeOK'  BY TypeStep
  <2>2. FailedInv'
    <3>1. CASE UNCHANGED vars  BY <3>1 DEF vars, FailedInv, Failed
    <3>2. CASE Next  BY <3>2, FailedStep DEF FailedInv
    <3> QED  BY <3>1, <3>2
  <2>3. \A s \in Slot : Counted(s)'  BY CountedStep
  <2> QED  BY <2>1, <2>2, <2>3
<1>3. CInv => SeatsCounted  BY DEF SeatsCounted, Counted
<1> QED  BY <1>1, <1>2, <1>3, PTL DEF Spec

=============================================================================
