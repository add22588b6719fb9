-------------------------- MODULE MCEscEnvironments --------------------------
(* Instances of EscEnvironments for TLC. *)
EXTENDS EscEnvironments

CONSTANTS n1, t1, t2, c1, c2
=============================================================================
