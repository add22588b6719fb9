--------------------------- MODULE NotificationHub ---------------------------
(***************************************************************************)
(* The event stream of a dashboard: postEvents inserts the events of an    *)
(* update and then notifies its channel; in every replica one listener     *)
(* connection per channel (PostgresNotificationHub) wakes the subscribers; *)
(* each of them (updates.onEvents) replays from its resume token, then     *)
(* waits and drains, and reconnects when its stream ends.                  *)
(*                                                                         *)
(* JavaScript runs to the next await, so a step is what runs between two   *)
(* awaits.  The connection of a channel passes from "connecting" through   *)
(* "listening" (the server has executed LISTEN) to "ready" (the hub knows).*)
(***************************************************************************)
EXTENDS Integers, FiniteSets

CONSTANTS
    Channels, Keys, Subs,
    Conns,          \* the connections; one that nobody uses any more is used again
    NoConn,
    ChannelOf, KeyOf,  \* what each subscriber subscribes to
    MaxConcurrent,  \* the hub's limit of subscriptions
    MaxEvents,
    MaxFailures,    \* bound: broken connections, aborted requests
    Worlds          \* what is considered: the subscribers that come, whether a replica
                    \* may stop between the insert and the notification, and, a bound,
                    \* the events per key, numbered in their order

ASSUME HubAssumption ==
    /\ NoConn \notin Conns /\ IsFiniteSet(Subs)
    /\ ChannelOf \in [Subs -> Channels] /\ KeyOf \in [Subs -> Keys]
    /\ MaxConcurrent \in Nat /\ MaxEvents \in Nat /\ MaxFailures \in Nat
    /\ Worlds \subseteq [subs : SUBSET Subs, lossy : BOOLEAN, events : 0..MaxEvents]

VARIABLES
    world,       \* the world of this behaviour
    stored,      \* table update_events: how many events of each key
    unsent,      \* keys whose pg_notify is still to come
    inbox,       \* notifications on their way to a connection
    closed, active, channels,  \* the hub: closed, active and channels
    conn,        \* a connection: its phase, and ChannelState's refCount and retired
    sub,         \* a subscriber: Subscriber's fields, and where its loop is
    at,          \* the connection it is attached to
    seen,        \* the last event its client was sent, which is its resume token
    failures

hub == <<closed, active, channels, conn>>
vars == <<world, stored, unsent, inbox, hub, sub, at, seen, failures>>

Live == {"connecting", "listening", "ready"}
Attached == {"admitting", "replaying", "asking", "waiting", "leaving"}
Fresh == [at |-> "away", notified |-> FALSE, failed |-> FALSE, finished |-> FALSE]
Unused == [phase |-> "unused", refCount |-> 0, retired |-> FALSE]

TypeOK ==
    /\ world \in Worlds
    /\ stored \in [Keys -> 0..MaxEvents]
    /\ unsent \in SUBSET Keys
    /\ inbox \in SUBSET (Conns \X Keys)
    /\ closed \in BOOLEAN
    /\ active \in 0..MaxConcurrent
    /\ channels \in [Channels -> Conns \cup {NoConn}]
    /\ conn \in [Conns -> [phase : Live \cup {"unused", "ended"},
                           refCount : 0..Cardinality(Subs), retired : BOOLEAN]]
    /\ sub \in [Subs -> [at : Attached \cup {"away"}, notified : BOOLEAN,
                         failed : BOOLEAN, finished : BOOLEAN]]
    /\ at \in [Subs -> Conns \cup {NoConn}]
    /\ seen \in [Subs -> 0..MaxEvents]
    /\ failures \in 0..MaxFailures

Init ==
    /\ world \in Worlds
    /\ stored = [k \in Keys |-> 0]
    /\ unsent = {} /\ inbox = {}
    /\ closed = FALSE /\ active = 0
    /\ channels = [c \in Channels |-> NoConn]
    /\ conn = [c \in Conns |-> Unused]
    /\ sub = [s \in Subs |-> Fresh]
    /\ at = [s \in Subs |-> NoConn]
    /\ seen = [s \in Subs |-> 0]
    /\ failures = 0

-----------------------------------------------------------------------------
(* The service and the database. *)

PostEvents(k) ==
    /\ stored[k] < world.events
    /\ stored' = [stored EXCEPT ![k] = @ + 1]
    /\ unsent' = unsent \cup {k}
    /\ UNCHANGED <<world, inbox, hub, sub, at, seen, failures>>

Listening(c) == conn[c].phase \in {"listening", "ready"}

Notify(k) ==
    /\ unsent' = unsent \ {k}
    /\ inbox' = inbox \cup ({c \in Conns : Listening(c)} \X {k})
    /\ UNCHANGED <<world, stored, hub, sub, at, seen, failures>>

LoseNotify(k) ==
    /\ world.lossy
    /\ unsent' = unsent \ {k}
    /\ UNCHANGED <<world, stored, inbox, hub, sub, at, seen, failures>>

\* The server executes LISTEN.
Listen(c) ==
    /\ conn[c].phase = "connecting"
    /\ conn' = [conn EXCEPT ![c].phase = "listening"]
    /\ UNCHANGED <<world, stored, unsent, inbox, closed, active, channels, sub, at, seen, failures>>

-----------------------------------------------------------------------------
(* Subscribing. *)

AttachedTo(c) == {s \in Subs : at[s] = c}

\* ensureChannel: the channel's connection, or a new one.
Recyclable(c) == conn[c].phase = "unused"
Connection(ch, c) ==
    IF channels[ch] # NoConn THEN c = channels[ch] ELSE Recyclable(c)

\* The limit of subscriptions.
Room == active < MaxConcurrent

\* Where the admission awaits state.ready; here it never waits for LISTEN.
MutantAwaits(c) == FALSE
Awaits(c) == conn[c].phase # "ready"

\* subscribe; the client resumes after the last event it saw.
Subscribe(s, c) ==
    /\ s \in world.subs /\ sub[s].at = "away"
    /\ ~closed /\ Room
    /\ Connection(ChannelOf[s], c)
    /\ active' = active + 1
    /\ channels' = [channels EXCEPT ![ChannelOf[s]] = c]
    /\ conn' = [conn EXCEPT ![c] = [phase |-> IF Recyclable(c) THEN "connecting" ELSE @.phase,
                                    refCount |-> @.refCount + 1, retired |-> FALSE]]
    /\ sub' = [sub EXCEPT ![s] =
         [Fresh EXCEPT !.at = IF Awaits(c) THEN "admitting" ELSE "replaying"]]
    /\ at' = [at EXCEPT ![s] = c]
    /\ UNCHANGED <<world, stored, unsent, inbox, closed, seen, failures>>

\* The answer to LISTEN arrives: state.ready is fulfilled, and the admissions
\* that await it go on before anything else happens to the connection.
Ready(c) ==
    /\ conn[c].phase = "listening"
    /\ conn' = [conn EXCEPT ![c].phase = "ready"]
    /\ sub' = [s \in Subs |-> IF at[s] = c /\ sub[s].at = "admitting"
                             THEN [sub[s] EXCEPT !.at = "replaying"] ELSE sub[s]]
    /\ UNCHANGED <<world, stored, unsent, inbox, closed, active, channels, at, seen, failures>>

\* state.ready is rejected: the connection broke, or was ended, before LISTEN.
Refuse(s) ==
    /\ sub[s].at = "admitting"
    /\ conn[at[s]].phase = "ended"
    /\ sub' = [sub EXCEPT ![s].at = "leaving"]
    /\ UNCHANGED <<world, stored, unsent, inbox, hub, at, seen, failures>>

-----------------------------------------------------------------------------
(* The loop of onEvents, and Subscriber. *)

\* SELECT the events after lastSeq, and yield them.
Replay(s) ==
    /\ sub[s].at = "replaying"
    /\ seen' = [seen EXCEPT ![s] = stored[KeyOf[s]]]
    /\ sub' = [sub EXCEPT ![s].at = "asking"]
    /\ UNCHANGED <<world, stored, unsent, inbox, hub, at, failures>>

\* wait: an end wins over a notification, a notification over a failure.
Wait(s) ==
    /\ sub[s].at = "asking"
    /\ sub' = [sub EXCEPT
         ![s].at = IF sub[s].finished THEN "leaving"
                   ELSE IF sub[s].notified THEN "replaying"
                   ELSE IF sub[s].failed THEN "leaving" ELSE "waiting",
         ![s].notified = sub[s].finished /\ @]
    /\ UNCHANGED <<world, stored, unsent, inbox, hub, at, seen, failures>>

\* notify: wake the waiter, or remember; here only waking.
MutantWoken(x) == IF x.at = "waiting" THEN [x EXCEPT !.at = "replaying"] ELSE x
Woken(x) ==
    IF x.at = "waiting" THEN [x EXCEPT !.at = "replaying"] ELSE [x EXCEPT !.notified = TRUE]
Failed(x) ==
    IF x.at = "waiting" THEN [x EXCEPT !.at = "leaving", !.failed = TRUE]
    ELSE [x EXCEPT !.failed = TRUE]
\* end: here the waiter stays.
MutantEnded(x) == [x EXCEPT !.finished = TRUE]
Ended(x) ==
    IF x.at = "waiting" THEN [x EXCEPT !.at = "leaving", !.finished = TRUE]
    ELSE [x EXCEPT !.finished = TRUE]

\* dispatch
Dispatch(c, k) ==
    /\ inbox' = inbox \ {<<c, k>>}
    /\ sub' = [s \in Subs |->
         IF at[s] = c /\ KeyOf[s] = k THEN Woken(sub[s]) ELSE sub[s]]
    /\ UNCHANGED <<world, stored, unsent, hub, at, seen, failures>>

-----------------------------------------------------------------------------
(* Leaving, and failures. *)

\* A channel's connection retires: no longer registered, being ended.
Drop(ch, c) == [channels EXCEPT ![ch] = IF @ = c THEN NoConn ELSE @]

\* release; here with the slot given back only while the connection lives.
MutantSlots(c) == IF conn[c].retired THEN active ELSE active - 1
Slots(c) == active - 1

\* The last subscriber ends the connection; here nobody does.
MutantLastOut(c) == FALSE
LastOut(c) == ~conn[c].retired /\ conn[c].refCount = 1

\* Subscriber.close, in the finally of the loop or of the admission.
Release(s) ==
    LET c == at[s] IN
    /\ sub[s].at = "leaving"
    /\ active' = Slots(c)
    /\ conn' = [conn EXCEPT
         ![c].refCount = IF conn[c].retired THEN @ ELSE @ - 1,
         ![c].retired = @ \/ LastOut(c)]
    /\ channels' = IF LastOut(c) THEN Drop(ChannelOf[s], c) ELSE channels
    /\ sub' = [sub EXCEPT ![s] = Fresh]
    /\ at' = [at EXCEPT ![s] = NoConn]
    /\ UNCHANGED <<world, stored, unsent, inbox, closed, seen, failures>>

\* The request is aborted: the admission is refused, a loop ends at its wait.
Abort(s) ==
    /\ sub[s].at \in Attached \ {"leaving"} /\ failures < MaxFailures
    /\ failures' = failures + 1
    /\ sub' = [sub EXCEPT ![s] =
         IF @.at = "admitting" THEN [@ EXCEPT !.at = "leaving", !.finished = TRUE]
         ELSE Ended(@)]
    /\ UNCHANGED <<world, stored, unsent, inbox, hub, at, seen>>

\* failChannel: the connection cannot be made, or breaks.
FailChannel(c) ==
    /\ conn[c].phase \in Live /\ ~conn[c].retired /\ failures < MaxFailures
    /\ failures' = failures + 1
    /\ conn' = [conn EXCEPT ![c].retired = TRUE, ![c].phase = "ended"]
    /\ channels' = [ch \in Channels |-> IF channels[ch] = c THEN NoConn ELSE channels[ch]]
    /\ sub' = [s \in Subs |-> IF at[s] = c THEN Failed(sub[s]) ELSE sub[s]]
    /\ UNCHANGED <<world, stored, unsent, inbox, closed, active, at, seen>>

\* client.end() of a retired connection takes effect.
End(c) ==
    /\ conn[c].retired /\ conn[c].phase \in Live
    /\ conn' = [conn EXCEPT ![c].phase = "ended"]
    /\ UNCHANGED <<world, stored, unsent, inbox, closed, active, channels, sub, at, seen, failures>>

\* Nothing refers to an ended connection any more.
Forget(c) ==
    /\ conn[c].phase = "ended" /\ AttachedTo(c) = {}
    /\ conn' = [conn EXCEPT ![c] = Unused]
    /\ inbox' = {n \in inbox : n[1] # c}
    /\ UNCHANGED <<world, stored, unsent, closed, active, channels, sub, at, seen, failures>>

\* close, at the shutdown of the server.
Close ==
    /\ ~closed
    /\ closed' = TRUE
    /\ channels' = [ch \in Channels |-> NoConn]
    /\ conn' = [c \in Conns |->
         IF \E ch \in Channels : channels[ch] = c THEN [conn[c] EXCEPT !.retired = TRUE]
         ELSE conn[c]]
    /\ sub' = [s \in Subs |->
         IF \E ch \in Channels : channels[ch] = at[s] /\ at[s] # NoConn
         THEN Ended(sub[s]) ELSE sub[s]]
    /\ UNCHANGED <<world, stored, unsent, inbox, active, at, seen, failures>>

Next ==
    \/ \E k \in Keys : PostEvents(k)
    \/ \E k \in unsent : Notify(k)
    \/ \E k \in unsent : LoseNotify(k)
    \/ \E c \in Conns : Listen(c)
    \/ \E c \in Conns : Ready(c)
    \/ \E s \in Subs, c \in Conns : Subscribe(s, c)
    \/ \E s \in Subs : Refuse(s)
    \/ \E s \in Subs : Replay(s)
    \/ \E s \in Subs : Wait(s)
    \/ \E n \in inbox : Dispatch(n[1], n[2])
    \/ \E s \in Subs : Release(s)
    \/ \E s \in Subs : Abort(s)
    \/ \E c \in Conns : FailChannel(c)
    \/ \E c \in Conns : End(c)
    \/ \E c \in Conns : Forget(c)
    \/ Close

Spec == Init /\ [][Next]_vars

\* Every await ends, and every promise's continuation runs.
FairSpec ==
    /\ Spec
    /\ \A k \in Keys : WF_vars(k \in unsent /\ Notify(k))
    /\ \A c \in Conns : WF_vars(Listen(c)) /\ WF_vars(Ready(c)) /\ WF_vars(End(c))
    /\ \A c \in Conns, k \in Keys : WF_vars(<<c, k>> \in inbox /\ Dispatch(c, k))
    /\ \A s \in Subs : /\ WF_vars(Refuse(s)) /\ WF_vars(Replay(s))
                       /\ WF_vars(Wait(s)) /\ WF_vars(Release(s))

-----------------------------------------------------------------------------
(* Properties. *)

\* The hub's counters are what they count, through every abort, failure and
\* shutdown: a slot per attached subscriber, within the limit, and of a connection that has not
\* retired the subscribers it serves.
CountersTrue ==
    /\ active <= MaxConcurrent
    /\ active = Cardinality({s \in Subs : sub[s].at # "away"})
    /\ \A c \in Conns :
         ~conn[c].retired => conn[c].refCount = Cardinality(AttachedTo(c))

\* No connection is kept for nobody: one that is neither unused nor retired is
\* registered under its channel and serves somebody; one registered is alive.
ConnectionsOwned ==
    /\ \A c \in Conns : conn[c].phase # "unused" /\ ~conn[c].retired =>
         AttachedTo(c) # {} /\ \E ch \in Channels : channels[ch] = c
    /\ \A ch \in Channels : channels[ch] # NoConn =>
         conn[channels[ch]].phase \in Live /\ ~conn[channels[ch]].retired

\* A subscriber that waits has missed nothing: for an event it has not sent,
\* a notification is still to come, unless its stream has failed or ended.
NoMissedWakeup ==
    \A s \in Subs :
        LET k == KeyOf[s]  c == at[s] IN
        ~world.lossy /\ sub[s].at = "waiting" /\ seen[s] < stored[k] =>
            k \in unsent \/ <<c, k>> \in inbox

\* While it stays subscribed, a client is sent every event.
EventsDelivered ==
    \A s \in Subs, n \in 1..MaxEvents :
        ~world.lossy /\ n <= stored[KeyOf[s]] /\ sub[s].at \in Attached ~>
            n <= seen[s] \/ sub[s].at = "away"

\* A shutdown ends every subscription and every connection.
ShutdownDrains ==
    closed ~> /\ \A s \in Subs : sub[s].at = "away"
              /\ \A c \in Conns : conn[c].phase \in {"unused", "ended"}

=============================================================================
