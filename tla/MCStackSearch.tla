---------------------------- MODULE MCStackSearch ----------------------------
(* An instance of StackSearch for TLC. *)
EXTENDS StackSearch

CONSTANTS p1, p2
=============================================================================
