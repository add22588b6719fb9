------------------------- MODULE MCDeltaCheckpoint -------------------------
(* Instances of DeltaCheckpoint for TLC. *)
EXTENDS DeltaCheckpoint

CONSTANTS a, b, c

\* Each kind of fault by itself, or both together.
OneKind == {[lateput |-> TRUE, giveup |-> FALSE, saves |-> 3],
            [lateput |-> FALSE, giveup |-> TRUE, saves |-> 2]}
BothKinds == {[lateput |-> TRUE, giveup |-> TRUE, saves |-> 2]}
=============================================================================
