----------------------------- MODULE UpdateEvents -----------------------------
(***************************************************************************)
(* The events of one update, as a client reads them page by page.  The CLI *)
(* numbers them from 1 and sends them in batches, several at a time; a     *)
(* page is what is stored above the number in the continuation token, and  *)
(* the status that decides on the next token is read by a second query.    *)
(* What onEvents pushes instead is in NotificationHub.                     *)
(***************************************************************************)
EXTENDS Naturals, FiniteSetsExt

CONSTANTS
    NoToken,
    MaxSequence    \* bound: the events of the update

VARIABLES
    running,    \* whether updates.status is not terminal yet
    events,     \* table update_events: sequence numbers
    batches,    \* batches sent and not answered
    sent,       \* the last number sent
    poll        \* the client: its request, its last token, what it was shown

eventVars == <<running, events, batches, sent, poll>>

EventsInit ==
    /\ running = TRUE
    /\ events = {} /\ batches = {} /\ sent = 0
    /\ poll = [at |-> "idle", token |-> NoToken, rows |-> {}, shown |-> {}]

SendEvents(last) ==
    /\ running /\ sent < last /\ last <= MaxSequence
    /\ sent' = last
    /\ batches' = batches \cup {(sent + 1)..last}
    /\ UNCHANGED <<running, events, poll>>

\* The lease was verified before; numbers that are there already are left alone.
\* The CLI sends a batch again when it hears no answer.
PostEvents(b, again) ==
    /\ b \in batches
    /\ events' = events \cup b
    /\ batches' = IF again THEN batches ELSE batches \ {b}
    /\ UNCHANGED <<running, sent, poll>>

\* completeUpdate, cancelUpdate or GC.
EndRun ==
    /\ running
    /\ running' = FALSE
    /\ UNCHANGED <<events, batches, sent, poll>>

LastSeq == IF poll.token = NoToken THEN 0 ELSE poll.token

\* The first request has no token; after that a client asks as long as it is
\* given one.
ReadEvents ==
    /\ poll.at = "idle" \/ (poll.at = "answered" /\ poll.token # NoToken)
    /\ poll' = [poll EXCEPT !.at = "read", !.rows = {e \in events : e > LastSeq}]
    /\ UNCHANGED <<running, events, batches, sent>>

NextToken == IF poll.rows # {} /\ running THEN Max(poll.rows) ELSE NoToken

ReadStatus ==
    /\ poll.at = "read"
    /\ poll' = [at |-> "answered", token |-> NextToken, rows |-> {},
                shown |-> poll.shown \cup poll.rows]
    /\ UNCHANGED <<running, events, batches, sent>>

EventsNext ==
    \/ \E last \in 1..MaxSequence : SendEvents(last)
    \/ \E b \in batches, again \in BOOLEAN : PostEvents(b, again)
    \/ EndRun
    \/ ReadEvents
    \/ ReadStatus

EventsSpec == EventsInit /\ [][EventsNext]_eventVars

-----------------------------------------------------------------------------
(* Properties. *)

\* The token "will be nil once all events have been returned and the update is
\* complete", and is there to ask for more "if the update is still in progress":
\* an answer without one was given for an update that had ended, and whoever read
\* page after page has been shown what was stored by then.
NilIsTheEnd ==
    [][ReadStatus /\ poll'.token = NoToken => ~running /\ events \subseteq poll'.shown]_eventVars

=============================================================================
