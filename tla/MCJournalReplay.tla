-------------------------- MODULE MCJournalReplay --------------------------
(* Instances of JournalReplay for TLC: b depended on a, and now depends on  *)
(* the new c as well.                                                       *)
EXTENDS JournalReplay

CONSTANTS a, b, c

LeftPending == <<[op |-> 0, type |-> "creating"], [op |-> 90, type |-> "updating"]>>
TwoUrns == <<a, b>>
DepsBefore == [u \in Urns |-> IF u = b THEN {a} ELSE {}]
DepsNow == [u \in Urns |-> IF u = b THEN {a, c} ELSE IF u = c THEN {a} ELSE {}]
=============================================================================
