------------------------ MODULE MCUpdateLifecycle ------------------------
(* Instances of UpdateLifecycle for TLC. *)
EXTENDS UpdateLifecycle, TLC

CONSTANTS s1, s2, r1, r2

\* Two replicas whose clocks differ by the whole grace period.
MCSkew == r1 :> 0 @@ r2 :> 1
MCSkewOne == r1 :> 0
=============================================================================
