-------------------------- MODULE MCServiceBooking --------------------------
(***************************************************************************)
(* Small instances of ServiceBooking.                                      *)
(***************************************************************************)
EXTENDS ServiceBooking, TLC

S(kind, spots, blocking) == [kind |-> kind, spots |-> spots, blocking |-> blocking]

EveryKind == {S("availability", 0, FALSE), S("equal", 0, FALSE), S("equal", 0, TRUE),
              S("collective", 0, TRUE), S("group", 2, TRUE)}
\* A group gets one more spot, and a service with turns becomes a collective.
Updates == [k \in Kind |-> CASE k = "group" -> {[kind |-> "group", spots |-> 3]}
                             [] k = "equal" -> {[kind |-> "collective", spots |-> 0]}
                             [] OTHER -> {}]

OneSpot == {S("group", 1, TRUE)}
TwoSpots == [k \in Kind |-> {[kind |-> "group", spots |-> 2]}]

\* The clients of a collective may ask for some of the hosts, and are refused, or
\* for all.
Choices == [k \in Kind |-> IF k = "collective" THEN (SUBSET Host) \ {Anyone} ELSE {}]

Limits == [e \in Expense |-> IF e = "requests" THEN 5 ELSE 1]
OneEach == [e \in Expense |-> IF e \in {"requests", "updates"} THEN 1 ELSE 0]

Interchangeable == Permutations(Host) \cup Permutations(Client)
=============================================================================
