------------------------ MODULE MCNotificationHub ------------------------
(* Instances of NotificationHub for TLC. *)
EXTENDS NotificationHub, TLC

CONSTANTS ch, k1, s1, s2, s3, c1, c2

\* Three subscribers of one key for two slots, or two with more events.
OneChannel == s1 :> ch @@ s2 :> ch @@ s3 :> ch
SameKey == s1 :> k1 @@ s2 :> k1 @@ s3 :> k1
TwoWorlds == {[subs |-> {s1, s2}, lossy |-> FALSE, events |-> 2],
              [subs |-> {s1, s2, s3}, lossy |-> TRUE, events |-> 1]}
=============================================================================
