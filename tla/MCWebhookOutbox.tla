------------------------- MODULE MCWebhookOutbox -------------------------
(* Instances of WebhookOutbox for TLC. *)
EXTENDS WebhookOutbox

CONSTANTS h1, h2, w1, w2

\* Workers that keep their claims, and workers that lose them.
InTime == [slowest |-> 1, hooks |-> {h1, h2}, claims |-> 3]
TooLate == [slowest |-> 3, hooks |-> {h1}, claims |-> 4]
BothWorlds == {InTime, TooLate}
OneInTime == {[slowest |-> 1, hooks |-> {h1}, claims |-> 3]}
=============================================================================
