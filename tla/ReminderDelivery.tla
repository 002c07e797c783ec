-------------------------- MODULE ReminderDelivery --------------------------
(***************************************************************************)
(* What the reminder pipeline promises its client, without tables, versions*)
(* or requests: a reminder may be scheduled and withdrawn as often as the  *)
(* event changes, but once the sender has accepted it, at most `Lead`      *)
(* before its time, it is never scheduled again; it is announced at most   *)
(* once and never before its time.  It may also be lost: nothing here      *)
(* obliges an accepted reminder to be announced.                           *)
(***************************************************************************)
EXTENDS Integers

CONSTANTS Reminder,  \* every reminder there may be
          At(_),     \* when it is due
          Lead       \* how early the sender may accept it

VARIABLES now, scheduled, accepted, announced

vars == <<now, scheduled, accepted, announced>>

Init == /\ now = 0
        /\ scheduled = {}
        /\ accepted = {}
        /\ announced = {}

\* Only what the sender has never accepted is scheduled.
Schedule == /\ scheduled \subseteq scheduled'
            /\ scheduled' \subseteq Reminder \ accepted
            /\ UNCHANGED <<now, accepted, announced>>

Withdraw == /\ scheduled' \subseteq scheduled
            /\ UNCHANGED <<now, accepted, announced>>

\* What leaves the schedule here is what is accepted.
Accept == /\ scheduled' \subseteq scheduled
          /\ \A r \in scheduled \ scheduled' : At(r) <= now + Lead
          /\ accepted' = accepted \cup (scheduled \ scheduled')
          /\ UNCHANGED <<now, announced>>

\* Each announcement is recorded with its time; none repeats an earlier one.
Announce ==
  /\ announced \subseteq announced'
  /\ \A x \in announced' \ announced :
       /\ x.key \in accepted
       /\ x.time = now
       /\ At(x.key) <= now
       /\ \A y \in announced : y.key # x.key
  /\ UNCHANGED <<now, scheduled, accepted>>

Pass == /\ now' = now + 1
        /\ UNCHANGED <<scheduled, accepted, announced>>

Next == Schedule \/ Withdraw \/ Accept \/ Announce \/ Pass

Spec == Init /\ [][Next]_vars
=============================================================================
