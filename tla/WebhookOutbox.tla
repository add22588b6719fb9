---------------------------- MODULE WebhookOutbox ----------------------------
(***************************************************************************)
(* The transactional outbox of webhook deliveries: enqueueWebhookEvent     *)
(* writes one row per subscribed webhook in the transaction of the change  *)
(* it tells of, and the WebhookOutboxWorkers of all replicas drain it.     *)
(* A claim, a settlement and a change of a webhook are one transaction     *)
(* each; between claim and settlement the worker talks to the endpoint and *)
(* may be slow, or crash.                                                  *)
(*                                                                         *)
(* Time is relative: every row counts down to the end of its claim and of  *)
(* its back-off, and Tick moves all countdowns together.                   *)
(***************************************************************************)
EXTENDS Integers, Sequences, FiniteSets

CONSTANTS
    Hooks, Workers, NoWorker,
    MaxAttempts,   \* WEBHOOK_OUTBOX_MAX_ATTEMPTS
    ClaimTime,     \* WEBHOOK_OUTBOX_CLAIM_SECONDS
    MaxDelay,      \* the ceiling of webhookRetryDelaySeconds
    MaxEvents,     \* bound: lifecycle events ever enqueued
    MaxClaims,
    MaxCrashes,    \* bound: crashes of workers
    Worlds         \* what is considered: the longest time between a claim and its
                   \* settlement, the webhooks that are created and, a bound, the
                   \* claims of one row

ASSUME OutboxAssumption ==
    /\ NoWorker \notin Workers
    /\ MaxAttempts \in Nat \ {0} /\ ClaimTime \in Nat \ {0} /\ MaxDelay \in Nat \ {0}
    /\ MaxEvents \in Nat /\ MaxClaims \in Nat /\ MaxCrashes \in Nat
    /\ Worlds \subseteq [slowest : Nat, hooks : SUBSET Hooks, claims : 0..MaxClaims]

VARIABLES
    world,       \* the world of this behaviour
    hook,        \* table webhooks: "none", "subscribed", "unsubscribed", "deleted"
    events,      \* lifecycle events so far, in the order of created_at
    row,         \* table webhook_outbox: "absent", "queued", "failed" (failed_at set)
    attempts, claimedBy,   \* its columns
    claim, delay,          \* time until its claim is over, until available_at
    work,        \* each worker's claim and what came of it, or Idle
    deliveries,  \* table webhook_deliveries, per intent
    crashes,
    owed, requests, received  \* history: the intents ever enqueued, the requests
                              \* made for each, and those that arrived

columns == <<row, attempts, claimedBy, claim, delay>>
vars == <<world, hook, events, columns, work, deliveries, crashes, owed, requests, received>>

Intents == (1..MaxEvents) \X Hooks      \* an event and the webhook to tell
Idle == [step |-> "idle"]
Outcomes == {"ok", "retry", "permanent"}
Claims == [step : {"claimed"}, intent : Intents, attempt : 1..MaxClaims, age : Nat]
Answers == [step : {"answered"}, intent : Intents, attempt : 1..MaxClaims, age : Nat,
            outcome : Outcomes]

TypeOK ==
    /\ world \in Worlds
    /\ hook \in [Hooks -> {"none", "subscribed", "unsubscribed", "deleted"}]
    /\ events \in 0..MaxEvents
    /\ row \in [Intents -> {"absent", "queued", "failed"}]
    /\ attempts \in [Intents -> 0..MaxClaims]
    /\ claimedBy \in [Intents -> Workers \cup {NoWorker}]
    /\ claim \in [Intents -> 0..(ClaimTime + 1)]
    /\ delay \in [Intents -> 0..MaxDelay]
    /\ work \in [Workers -> {Idle} \cup Claims \cup Answers]
    /\ deliveries \in [Intents -> Seq([attempt : 1..MaxClaims, success : BOOLEAN])]
    /\ crashes \in 0..MaxCrashes
    /\ owed \in SUBSET Intents
    /\ requests \in [Intents -> Nat] /\ received \in [Intents -> Nat]

Init ==
    /\ world \in Worlds
    /\ hook = [h \in Hooks |-> "none"]
    /\ events = 0
    /\ row = [d \in Intents |-> "absent"]
    /\ attempts = [d \in Intents |-> 0]
    /\ claimedBy = [d \in Intents |-> NoWorker]
    /\ claim = [d \in Intents |-> 0] /\ delay = [d \in Intents |-> 0]
    /\ work = [w \in Workers |-> Idle]
    /\ deliveries = [d \in Intents |-> <<>>]
    /\ crashes = 0
    /\ owed = {}
    /\ requests = [d \in Intents |-> 0] /\ received = [d \in Intents |-> 0]

-----------------------------------------------------------------------------
(* Webhooks, and the events of the lifecycle transactions. *)

CreateWebhook(h) ==
    /\ h \in world.hooks /\ hook[h] = "none"
    /\ hook' = [hook EXCEPT ![h] = "subscribed"]
    /\ UNCHANGED <<world, events, columns, work, deliveries, crashes, owed, requests, received>>

\* Other events are subscribed to; what is queued stays queued.
UpdateWebhook(h) ==
    /\ hook[h] \in {"subscribed", "unsubscribed"}
    /\ hook' = [hook EXCEPT ![h] =
         IF @ = "subscribed" THEN "unsubscribed" ELSE "subscribed"]
    /\ UNCHANGED <<world, events, columns, work, deliveries, crashes, owed, requests, received>>

\* ON DELETE CASCADE: its outbox rows and its deliveries go with it.
DeleteWebhook(h) ==
    LET mine == {d \in Intents : d[2] = h}
        clear(column, null) == [d \in Intents |-> IF d \in mine THEN null ELSE column[d]] IN
    /\ hook[h] \in {"subscribed", "unsubscribed"}
    /\ hook' = [hook EXCEPT ![h] = "deleted"]
    /\ row' = clear(row, "absent")
    /\ attempts' = clear(attempts, 0)
    /\ claimedBy' = clear(claimedBy, NoWorker)
    /\ claim' = clear(claim, 0) /\ delay' = clear(delay, 0)
    /\ deliveries' = clear(deliveries, <<>>)
    /\ UNCHANGED <<world, events, work, crashes, owed, requests, received>>

EnqueueWebhookEvent ==
    LET new == {d \in Intents : d[1] = events + 1 /\ hook[d[2]] = "subscribed"} IN
    /\ events < MaxEvents
    /\ events' = events + 1
    /\ row' = [d \in Intents |-> IF d \in new THEN "queued" ELSE row[d]]
    /\ owed' = owed \cup new
    /\ UNCHANGED <<world, hook, attempts, claimedBy, claim, delay, work, deliveries, crashes,
                   requests, received>>

-----------------------------------------------------------------------------
(* A worker's cycle. *)

\* The rows claimNext looks at; here without the test of claimed_until.
MutantClaimable(d) == row[d] = "queued" /\ delay[d] = 0
Claimable(d) == row[d] = "queued" /\ delay[d] = 0 /\ claim[d] = 0

\* ORDER BY created_at; the rows of one event are in no particular order.
Oldest(d) == Claimable(d) /\ \A e \in Intents : e[1] < d[1] => ~Claimable(e)

ClaimNext(w, d) ==
    /\ work[w] = Idle
    /\ Oldest(d) /\ attempts[d] < world.claims
    /\ attempts' = [attempts EXCEPT ![d] = @ + 1]
    /\ claimedBy' = [claimedBy EXCEPT ![d] = w]
    /\ claim' = [claim EXCEPT ![d] = ClaimTime + 1]
    /\ work' = [work EXCEPT ![w] =
         [step |-> "claimed", intent |-> d, attempt |-> attempts[d] + 1, age |-> 0]]
    /\ UNCHANGED <<world, hook, events, row, delay, deliveries, crashes, owed, requests, received>>

\* The request: answered with 2xx; failed for now, having arrived or not (5xx,
\* 408, 429, a lost connection, a timeout, an unresolvable name); or refused
\* for good (another 4xx, an address that is not allowed).
Deliver(w, outcome, arrived) ==
    LET d == work[w].intent IN
    /\ work[w].step = "claimed"
    /\ outcome = "ok" => arrived
    /\ outcome = "permanent" => ~arrived
    /\ work' = [work EXCEPT ![w] = [step |-> "answered", intent |-> d,
         attempt |-> work[w].attempt, age |-> work[w].age, outcome |-> outcome]]
    /\ requests' = [requests EXCEPT ![d] = @ + 1]
    /\ received' = [received EXCEPT ![d] = IF arrived THEN @ + 1 ELSE @]
    /\ UNCHANGED <<world, hook, events, columns, deliveries, crashes, owed>>

\* webhookRetryDelaySeconds, in units of its first step.
RetryDelay(n) == IF 2^(n - 1) < MaxDelay THEN 2^(n - 1) ELSE MaxDelay

\* No further attempt; here without the limit on attempts.
MutantGivesUp(a) == a.outcome = "permanent"
GivesUp(a) == a.outcome = "permanent" \/ (a.outcome = "retry" /\ a.attempt >= MaxAttempts)

\* What becomes of the row; here a refused intent is deleted like a delivered one.
MutantRowAfter(a) ==
    IF a.outcome # "retry" THEN "absent" ELSE IF GivesUp(a) THEN "failed" ELSE "queued"
RowAfter(a) ==
    IF a.outcome = "ok" THEN "absent" ELSE IF GivesUp(a) THEN "failed" ELSE "queued"

\* The fence of settle; here only the row's existence.
MutantFence(w) == row[work[w].intent] # "absent"
Fence(w) == row[work[w].intent] # "absent" /\ claimedBy[work[w].intent] = w

\* The delivery is recorded in the same transaction.
Record(a) == [attempt |-> a.attempt, success |-> a.outcome = "ok"]

Settle(w) ==
    LET a == work[w]  d == a.intent IN
    /\ a.step = "answered"
    /\ work' = [work EXCEPT ![w] = Idle]
    /\ IF Fence(w)
       THEN /\ row' = [row EXCEPT ![d] = RowAfter(a)]
            /\ claimedBy' = [claimedBy EXCEPT ![d] = NoWorker]
            /\ claim' = [claim EXCEPT ![d] = 0]
            /\ delay' = [delay EXCEPT ![d] =
                 IF RowAfter(a) = "queued" THEN RetryDelay(a.attempt) ELSE @]
            /\ deliveries' = [deliveries EXCEPT ![d] = Append(@, Record(a))]
       ELSE UNCHANGED <<row, claimedBy, claim, delay, deliveries>>
    /\ UNCHANGED <<world, hook, events, attempts, crashes, owed, requests, received>>

\* A replica stops; its worker starts again under another id, so that its old
\* claims are nobody's.
Crash(w) ==
    /\ work[w] # Idle /\ crashes < MaxCrashes
    /\ crashes' = crashes + 1
    /\ work' = [work EXCEPT ![w] = Idle]
    /\ claimedBy' = [d \in Intents |-> IF claimedBy[d] = w THEN NoWorker ELSE claimedBy[d]]
    /\ UNCHANGED <<world, hook, events, row, attempts, claim, delay, deliveries, owed, requests,
                   received>>

Counting(n) == IF n > 0 THEN n - 1 ELSE 0

Tick ==
    /\ \A w \in Workers : work[w] # Idle => work[w].age < world.slowest
    /\ \/ \E d \in Intents : claim[d] > 0 \/ delay[d] > 0
       \/ \E w \in Workers : work[w] # Idle
    /\ claim' = [d \in Intents |-> Counting(claim[d])]
    /\ delay' = [d \in Intents |-> Counting(delay[d])]
    /\ work' = [w \in Workers |->
         IF work[w] = Idle THEN Idle ELSE [work[w] EXCEPT !.age = @ + 1]]
    /\ UNCHANGED <<world, hook, events, row, attempts, claimedBy, deliveries, crashes, owed,
                   requests, received>>

Attempt(w) == \E outcome \in Outcomes, arrived \in BOOLEAN : Deliver(w, outcome, arrived)

Next ==
    \/ \E h \in Hooks : CreateWebhook(h)
    \/ \E h \in Hooks : UpdateWebhook(h)
    \/ \E h \in Hooks : DeleteWebhook(h)
    \/ EnqueueWebhookEvent
    \/ \E w \in Workers, d \in Intents : ClaimNext(w, d)
    \/ \E w \in Workers : Attempt(w)
    \/ \E w \in Workers : Settle(w)
    \/ \E w \in Workers : Crash(w)
    \/ Tick

Spec == Init /\ [][Next]_vars

\* Time passes, some worker polls again and again, and a worker that holds a
\* claim goes on with it (or crashes).
FairSpec ==
    /\ Spec
    /\ WF_vars(Tick)
    /\ WF_vars(\E w \in Workers, d \in Intents : ClaimNext(w, d))
    /\ \A w \in Workers : WF_vars(Attempt(w)) /\ WF_vars(Settle(w))

-----------------------------------------------------------------------------
(* Properties. *)

Kept(d) == d \in owed /\ hook[d[2]] # "deleted"

\* An intent leaves the queue only once its endpoint has received it, as long
\* as its webhook exists: a crash, a lost answer or a stolen claim loses nothing.
DeliveredOrOwed == \A d \in Intents : Kept(d) /\ row[d] = "absent" => received[d] > 0

\* The delivery history tells what became of an intent, whichever workers
\* claimed, lost and settled it: attempts in order and none twice, at most one
\* success, the last, and exactly then the row is gone.
HistoryTrue ==
    \A d \in Intents : Kept(d) =>
        LET h == deliveries[d] IN
        /\ \A i, j \in 1..Len(h) :
             i < j => h[i].attempt < h[j].attempt /\ ~h[i].success
        /\ row[d] = "absent" <=> h # <<>> /\ h[Len(h)].success

\* Workers that settle within their claim never deliver the same intent at the
\* same time.
NeverConcurrent ==
    world.slowest <= ClaimTime =>
    \A v, w \in Workers :
        v # w /\ work[v].step = "claimed" /\ work[w].step = "claimed" =>
            work[v].intent # work[w].intent

\* An endpoint is asked at most MaxAttempts times for one intent.
AttemptsLimited == \A d \in Intents : requests[d] <= MaxAttempts

\* Only the worker that holds the newest claim retires an intent; one whose
\* claim was stolen meanwhile, or settled by the thief, changes nothing.
RetiredByHolder ==
    [][\A d \in Intents :
         row[d] = "queued" /\ row'[d] # "queued" /\ hook'[d[2]] # "deleted" =>
             \E w \in Workers :
                 /\ work[w].step = "answered" /\ work'[w] = Idle
                 /\ work[w].intent = d /\ work[w].attempt = attempts[d]]_vars

\* Every intent is delivered, given up or deleted with its webhook, if workers
\* settle within their claim.
EventuallySettled ==
    \A d \in Intents :
        row[d] = "queued" /\ world.slowest <= ClaimTime ~> row[d] # "queued"

=============================================================================
