------------------------- MODULE WebhookOutbox_proofs -------------------------
(***************************************************************************)
(* Proofs about WebhookOutbox, for any number of webhooks, workers, events,*)
(* claims and crashes, and any lengths of the claims and of the back-off.  *)
(***************************************************************************)
EXTENDS WebhookOutbox, TLAPS

Records == [attempt : 1..MaxClaims, success : BOOLEAN]

\* The types that the invariant rests on: no property depends on the back-off.
OutboxTypes ==
    /\ world \in Worlds
    /\ hook \in [Hooks -> {"none", "subscribed", "unsubscribed", "deleted"}]
    /\ events \in 0..MaxEvents
    /\ row \in [Intents -> {"absent", "queued", "failed"}]
    /\ attempts \in [Intents -> 0..MaxClaims]
    /\ claimedBy \in [Intents -> Workers \cup {NoWorker}]
    /\ claim \in [Intents -> 0..(ClaimTime + 1)]
    /\ work \in [Workers -> {Idle} \cup Claims \cup Answers]
    /\ deliveries \in [Intents -> Seq(Records)]
    /\ owed \in SUBSET Intents
    /\ requests \in [Intents -> Nat] /\ received \in [Intents -> Nat]

\* An event has been enqueued at most once, and a deleted webhook's rows are gone.
Enqueued(d) ==
    /\ d \in owed => d[1] <= events
    /\ d \notin owed => row[d] = "absent" /\ deliveries[d] = <<>>
    /\ hook[d[2]] = "deleted" => row[d] = "absent"
    /\ row[d] # "queued" => claimedBy[d] = NoWorker

\* The worker that a row names is at work on that row's newest attempt.
Held(d) ==
    \A w \in Workers : claimedBy[d] = w =>
        work[w] # Idle /\ work[w].intent = d /\ work[w].attempt = attempts[d]

\* The history ends before the attempt under way.
Before(d) ==
    \A i \in 1..Len(deliveries[d]) :
        /\ deliveries[d][i].attempt <= attempts[d]
        /\ claimedBy[d] # NoWorker => deliveries[d][i].attempt < attempts[d]

HistorySound(d) ==
    Kept(d) =>
        /\ Before(d)
        /\ \A i, j \in 1..Len(deliveries[d]) : i < j =>
              deliveries[d][i].attempt < deliveries[d][j].attempt /\ ~deliveries[d][i].success
        /\ row[d] = "absent" <=>
              deliveries[d] # <<>> /\ deliveries[d][Len(deliveries[d])].success
        /\ row[d] = "absent" => received[d] > 0

\* A delivery that was answered with success has arrived.
Arrived == \A w \in Workers : work[w].step = "answered" /\ work[w].outcome = "ok" =>
               received[work[w].intent] > 0

\* The claim of a worker that is in time outlasts its work.
InTime ==
    world.slowest <= ClaimTime =>
    /\ \A w \in Workers : work[w] # Idle =>
          /\ work[w].age <= world.slowest
          /\ \/ hook[work[w].intent[2]] = "deleted"
             \/ /\ claimedBy[work[w].intent] = w
                /\ claim[work[w].intent] + work[w].age = ClaimTime + 1
    /\ \A v, w \in Workers :
          v # w /\ work[v] # Idle /\ work[w] # Idle => work[v].intent # work[w].intent

OutboxInv ==
    /\ OutboxTypes /\ \A d \in Intents : Enqueued(d) /\ Held(d) /\ HistorySound(d)
    /\ Arrived /\ InTime

-----------------------------------------------------------------------------
(* Lemmas. *)

\* The fields of a claim and of an answer.
LEMMA WorkFields ==
  ASSUME OutboxTypes, NEW w \in Workers, work[w] # Idle \/ work[w].step # "idle"
  PROVE  /\ work[w] # Idle /\ work[w].intent \in Intents /\ work[w].attempt \in 1..MaxClaims
         /\ work[w].age \in Nat /\ work[w].step \in {"claimed", "answered"}
         /\ work[w].step = "claimed" => work[w] \in Claims
         /\ work[w].step = "answered" => work[w] \in Answers
BY DEF OutboxTypes, Claims, Answers, Idle

LEMMA IntentParts ==
  ASSUME NEW d \in Intents
  PROVE  d[1] \in 1..MaxEvents /\ d[2] \in Hooks
BY DEF Intents

LEMMA WorldFields ==
  ASSUME OutboxTypes
  PROVE  world.slowest \in Nat /\ world.claims \in 0..MaxClaims /\ MaxClaims \in Nat /\ ClaimTime \in Nat
BY OutboxAssumption DEF OutboxTypes

\* A change of webhooks that deletes none.
LEMMA WebhookKeeps ==
  ASSUME OutboxInv, NEW h \in Hooks, CreateWebhook(h) \/ UpdateWebhook(h)
  PROVE  OutboxInv'
<1>1. UNCHANGED <<world, events, row, attempts, claimedBy, claim, work, deliveries, owed, requests,
                  received>>
  BY DEF CreateWebhook, UpdateWebhook, columns
<1>2. OutboxTypes'
  BY <1>1 DEF OutboxInv, OutboxTypes, CreateWebhook, UpdateWebhook
<1>3. \A g \in Hooks : hook'[g] = "deleted" <=> hook[g] = "deleted"
  BY DEF OutboxInv, OutboxTypes, CreateWebhook, UpdateWebhook
<1>4. ASSUME NEW d \in Intents PROVE Enqueued(d)' /\ Held(d)' /\ HistorySound(d)'
  BY <1>1, <1>3, IntentParts DEF OutboxInv, Enqueued, Held, HistorySound, Before, Kept
<1>5. Arrived'
  BY <1>1 DEF OutboxInv, Arrived
<1>6. InTime'
  BY <1>1, <1>3, WorkFields, IntentParts DEF OutboxInv, InTime
<1> QED
  BY <1>2, <1>4, <1>5, <1>6 DEF OutboxInv

\* A deletion takes the webhook's rows and deliveries with it, from under the
\* workers that have claimed them.
LEMMA DeleteWebhookKeeps ==
  ASSUME OutboxInv, NEW h \in Hooks, DeleteWebhook(h)
  PROVE  OutboxInv'
<1>1. /\ UNCHANGED <<world, events, work, owed, requests, received>>
      /\ hook' = [hook EXCEPT ![h] = "deleted"]
      /\ row' = [d \in Intents |-> IF d[2] = h THEN "absent" ELSE row[d]]
      /\ attempts' = [d \in Intents |-> IF d[2] = h THEN 0 ELSE attempts[d]]
      /\ claimedBy' = [d \in Intents |-> IF d[2] = h THEN NoWorker ELSE claimedBy[d]]
      /\ claim' = [d \in Intents |-> IF d[2] = h THEN 0 ELSE claim[d]]
      /\ deliveries' = [d \in Intents |-> IF d[2] = h THEN <<>> ELSE deliveries[d]]
  BY DEF DeleteWebhook
<1>2. OutboxTypes'
  <2>1. <<>> \in Seq(Records)
    OBVIOUS
  <2> QED
    BY <1>1, <2>1, WorldFields DEF OutboxInv, OutboxTypes
<1>3. \A g \in Hooks : hook'[g] = IF g = h THEN "deleted" ELSE hook[g]
  BY <1>1 DEF OutboxInv, OutboxTypes
<1>4. ASSUME NEW d \in Intents PROVE Enqueued(d)' /\ Held(d)' /\ HistorySound(d)'
  <2>1. CASE d[2] = h
    BY <1>1, <1>3, <2>1, OutboxAssumption DEF OutboxInv, Enqueued, Held, HistorySound, Kept
  <2>2. CASE d[2] # h
    BY <1>1, <1>3, <2>2, IntentParts DEF OutboxInv, Enqueued, Held, HistorySound, Before, Kept
  <2> QED
    BY <2>1, <2>2
<1>5. Arrived'
  BY <1>1 DEF OutboxInv, Arrived
<1>6. InTime'
  BY <1>1, <1>3, WorkFields, IntentParts DEF OutboxInv, InTime
<1> QED
  BY <1>2, <1>4, <1>5, <1>6 DEF OutboxInv

\* A new event's rows are new.
LEMMA EnqueueKeeps ==
  ASSUME OutboxInv, EnqueueWebhookEvent
  PROVE  OutboxInv'
<1> DEFINE new == {d \in Intents : d[1] = events + 1 /\ hook[d[2]] = "subscribed"}
<1>1. /\ UNCHANGED <<world, hook, attempts, claimedBy, claim, work, deliveries, requests, received>>
      /\ events' = events + 1 /\ owed' = owed \cup new
      /\ row' = [d \in Intents |-> IF d \in new THEN "queued" ELSE row[d]]
  BY DEF EnqueueWebhookEvent
<1>2. OutboxTypes'
  BY <1>1, OutboxAssumption DEF OutboxInv, OutboxTypes, EnqueueWebhookEvent
<1>3. events \in Nat
  BY OutboxAssumption DEF OutboxInv, OutboxTypes
<1>4. ASSUME NEW d \in Intents PROVE Enqueued(d)' /\ Held(d)' /\ HistorySound(d)'
  <2>1. CASE d \in new
    <3>1. d[1] = events + 1 /\ hook[d[2]] = "subscribed"
      BY <2>1
    <3>2. d \notin owed
      BY <1>3, <3>1 DEF OutboxInv, Enqueued
    <3>3. row[d] = "absent" /\ deliveries[d] = <<>> /\ claimedBy[d] = NoWorker
      BY <3>2 DEF OutboxInv, Enqueued
    <3> QED
      BY <1>1, <1>3, <2>1, <3>1, <3>3, OutboxAssumption DEF Enqueued, Held, HistorySound, Before, Kept
  <2>2. CASE d \notin new
    <3>1. row'[d] = row[d] /\ (d \in owed' <=> d \in owed)
      BY <1>1, <2>2
    <3>2. Enqueued(d)'
      BY <1>1, <1>3, <3>1, IntentParts DEF OutboxInv, Enqueued
    <3> QED
      BY <1>1, <3>1, <3>2 DEF OutboxInv, Held, HistorySound, Before, Kept
  <2> QED
    BY <2>1, <2>2
<1>5. Arrived' /\ InTime'
  BY <1>1 DEF OutboxInv, Arrived, InTime
<1> QED
  BY <1>2, <1>4, <1>5 DEF OutboxInv

\* A claim opens an attempt later than all in the history; while workers are in
\* time, nobody else is at work on the intent.
LEMMA ClaimKeeps ==
  ASSUME OutboxInv, NEW w \in Workers, NEW d \in Intents, ClaimNext(w, d)
  PROVE  OutboxInv'
<1> DEFINE new == [step |-> "claimed", intent |-> d, attempt |-> attempts[d] + 1, age |-> 0]
<1>1. /\ UNCHANGED <<world, hook, events, row, deliveries, owed, requests, received>>
      /\ work[w] = Idle /\ row[d] = "queued" /\ claim[d] = 0 /\ attempts[d] < world.claims
      /\ attempts' = [attempts EXCEPT ![d] = @ + 1] /\ claimedBy' = [claimedBy EXCEPT ![d] = w]
      /\ claim' = [claim EXCEPT ![d] = ClaimTime + 1] /\ work' = [work EXCEPT ![w] = new]
  BY DEF ClaimNext, Oldest, Claimable
<1>2. /\ attempts \in [Intents -> 0..MaxClaims] /\ claimedBy \in [Intents -> Workers \cup {NoWorker}]
      /\ claim \in [Intents -> 0..(ClaimTime + 1)] /\ work \in [Workers -> {Idle} \cup Claims \cup Answers]
      /\ NoWorker \notin Workers
  BY OutboxAssumption DEF OutboxInv, OutboxTypes
<1>3. attempts[d] + 1 \in 1..MaxClaims /\ attempts[d] \in Nat
  BY <1>1, <1>2, WorldFields DEF OutboxInv
<1>4. new \in Claims /\ new # Idle
  BY <1>3 DEF Claims, Idle
<1>5. OutboxTypes'
  <2>1. ClaimTime + 1 \in 0..(ClaimTime + 1)
    BY WorldFields DEF OutboxInv
  <2> QED
    BY <1>1, <1>2, <1>3, <1>4, <2>1 DEF OutboxInv, OutboxTypes
<1>6. \A v \in Workers : work'[v] = IF v = w THEN new ELSE work[v]
  BY <1>1, <1>2
<1>7. ASSUME NEW e \in Intents PROVE Enqueued(e)' /\ Held(e)' /\ HistorySound(e)'
  <2>1. CASE e = d
    <3>1. claimedBy'[d] = w /\ attempts'[d] = attempts[d] + 1
      BY <1>1, <1>2
    <3>2. Enqueued(d)'
      BY <1>1 DEF OutboxInv, Enqueued
    <3>3. Held(d)'
      BY <1>2, <1>4, <1>6, <3>1 DEF Held
    <3>4. HistorySound(d)'
      <4>1. \A i \in 1..Len(deliveries[d]) : deliveries[d][i] \in Records
        BY DEF OutboxInv, OutboxTypes
      <4>2. \A i \in 1..Len(deliveries[d]) : deliveries[d][i].attempt \in Nat
        BY <4>1, WorldFields DEF OutboxInv, Records
      <4>3. Kept(d)' => Kept(d) /\ Before(d)
        BY <1>1 DEF OutboxInv, HistorySound, Kept
      <4>4. Kept(d)' => Before(d)'
        BY <1>1, <1>3, <3>1, <4>2, <4>3 DEF Before
      <4> QED
        BY <1>1, <4>3, <4>4 DEF OutboxInv, HistorySound
    <3> QED
      BY <2>1, <3>2, <3>3, <3>4
  <2>2. CASE e # d
    <3>1. claimedBy'[e] = claimedBy[e] /\ attempts'[e] = attempts[e]
      BY <1>1, <1>2, <2>2
    <3>2. claimedBy[e] # w
      BY <1>1 DEF OutboxInv, Held
    <3> QED
      BY <1>1, <1>6, <3>1, <3>2 DEF OutboxInv, Enqueued, Held, HistorySound, Before, Kept
  <2> QED
    BY <2>1, <2>2
<1>8. Arrived'
  BY <1>1, <1>6 DEF OutboxInv, Arrived
<1>9. InTime'
  <2> SUFFICES ASSUME world.slowest <= ClaimTime PROVE InTime'
    BY <1>1 DEF InTime
  <2>1. hook[d[2]] # "deleted"
    BY <1>1 DEF OutboxInv, Enqueued
  <2>2. ASSUME NEW v \in Workers, v # w, work[v] # Idle PROVE work[v].intent # d
    <3>1. work[v].intent \in Intents /\ work[v].age \in Nat /\ work[v].age <= ClaimTime
      BY <2>2, WorkFields, WorldFields DEF OutboxInv, InTime
    <3> QED
      BY <1>1, <2>1, <2>2, <3>1, WorldFields DEF OutboxInv, InTime
  <2>3. ASSUME NEW v \in Workers, work'[v] # Idle
        PROVE  /\ work'[v].age <= world.slowest
               /\ \/ hook[work'[v].intent[2]] = "deleted"
                  \/ /\ claimedBy'[work'[v].intent] = v
                     /\ claim'[work'[v].intent] + work'[v].age = ClaimTime + 1
    <3>1. CASE v = w
      BY <1>1, <1>2, <1>6, <3>1, WorldFields DEF OutboxInv
    <3>2. CASE v # w
      BY <1>1, <1>2, <1>6, <2>2, <2>3, <3>2, WorkFields DEF OutboxInv, InTime
    <3> QED
      BY <3>1, <3>2
  <2>4. ASSUME NEW u \in Workers, NEW v \in Workers, u # v, work'[u] # Idle, work'[v] # Idle
        PROVE  work'[u].intent # work'[v].intent
    BY <1>6, <2>2, <2>4 DEF OutboxInv, InTime
  <2> QED
    BY <1>1, <2>3, <2>4 DEF InTime
<1> QED
  BY <1>5, <1>7, <1>8, <1>9 DEF OutboxInv

\* An answer of success has arrived.
LEMMA DeliverKeeps ==
  ASSUME OutboxInv, NEW w \in Workers, NEW outcome \in Outcomes, NEW arrived \in BOOLEAN,
         Deliver(w, outcome, arrived)
  PROVE  OutboxInv'
<1> DEFINE d == work[w].intent
           new == [step |-> "answered", intent |-> d, attempt |-> work[w].attempt,
                   age |-> work[w].age, outcome |-> outcome]
<1>1. /\ UNCHANGED <<world, hook, events, row, attempts, claimedBy, claim, deliveries, owed>>
      /\ work[w].step = "claimed" /\ (outcome = "ok" => arrived)
      /\ work' = [work EXCEPT ![w] = new]
      /\ requests' = [requests EXCEPT ![d] = @ + 1]
      /\ received' = [received EXCEPT ![d] = IF arrived THEN @ + 1 ELSE @]
  BY DEF Deliver, columns
<1>2. /\ work[w] # Idle /\ d \in Intents /\ work[w].attempt \in 1..MaxClaims /\ work[w].age \in Nat
      /\ received \in [Intents -> Nat] /\ requests \in [Intents -> Nat]
      /\ work \in [Workers -> {Idle} \cup Claims \cup Answers]
  BY <1>1, WorkFields DEF OutboxInv, OutboxTypes
<1>3. new \in Answers /\ new # Idle
  BY <1>2 DEF Answers, Idle
<1>4. \A v \in Workers : work'[v] = IF v = w THEN new ELSE work[v]
  BY <1>1, <1>2
<1>5. \A e \in Intents : received'[e] \in Nat /\ received[e] <= received'[e]
  BY <1>1, <1>2
<1>6. OutboxTypes'
  BY <1>1, <1>2, <1>3 DEF OutboxInv, OutboxTypes
<1>7. ASSUME NEW e \in Intents PROVE Enqueued(e)' /\ Held(e)' /\ HistorySound(e)'
  <2>1. received[e] > 0 => received'[e] > 0
    BY <1>2, <1>5
  <2>2. Held(e)'
    BY <1>1, <1>3, <1>4 DEF OutboxInv, Held
  <2> QED
    BY <1>1, <2>1, <2>2 DEF OutboxInv, Enqueued, HistorySound, Before, Kept
<1>8. Arrived'
  <2> SUFFICES ASSUME NEW v \in Workers, work'[v].step = "answered", work'[v].outcome = "ok"
               PROVE  received'[work'[v].intent] > 0
    BY DEF Arrived
  <2>1. CASE v = w
    BY <1>1, <1>2, <1>4, <2>1
  <2>2. CASE v # w
    <3>1. work[v].intent \in Intents /\ received[work[v].intent] > 0
      BY <1>4, <2>2, WorkFields DEF OutboxInv, Arrived
    <3> QED
      BY <1>2, <1>4, <1>5, <2>2, <3>1
  <2> QED
    BY <2>1, <2>2
<1>9. InTime'
  BY <1>1, <1>2, <1>3, <1>4 DEF OutboxInv, InTime
<1> QED
  BY <1>6, <1>7, <1>8, <1>9 DEF OutboxInv

\* A crash: its row is nobody's, though still claimed.
LEMMA CrashKeeps ==
  ASSUME OutboxInv, NEW w \in Workers, Crash(w)
  PROVE  OutboxInv'
<1>1. /\ UNCHANGED <<world, hook, events, row, attempts, claim, deliveries, owed, requests, received>>
      /\ work' = [work EXCEPT ![w] = Idle]
      /\ claimedBy' = [d \in Intents |-> IF claimedBy[d] = w THEN NoWorker ELSE claimedBy[d]]
  BY DEF Crash
<1>2. work \in [Workers -> {Idle} \cup Claims \cup Answers] /\ NoWorker \notin Workers
  BY OutboxAssumption DEF OutboxInv, OutboxTypes
<1>3. \A v \in Workers : work'[v] = IF v = w THEN Idle ELSE work[v]
  BY <1>1, <1>2
<1>4. OutboxTypes'
  BY <1>1, <1>2 DEF OutboxInv, OutboxTypes
<1>5. ASSUME NEW d \in Intents PROVE Enqueued(d)' /\ Held(d)' /\ HistorySound(d)'
  <2>1. claimedBy'[d] = IF claimedBy[d] = w THEN NoWorker ELSE claimedBy[d]
    BY <1>1
  <2> QED
    BY <1>1, <1>2, <1>3, <2>1 DEF OutboxInv, Enqueued, Held, HistorySound, Before, Kept
<1>6. Arrived'
  BY <1>1, <1>3 DEF OutboxInv, Arrived, Idle
<1>7. InTime'
  BY <1>1, <1>3, WorkFields DEF OutboxInv, InTime
<1> QED
  BY <1>4, <1>5, <1>6, <1>7 DEF OutboxInv

\* Claims and work age together.
LEMMA TickKeeps ==
  ASSUME OutboxInv, Tick
  PROVE  OutboxInv'
<1>1. /\ UNCHANGED <<world, hook, events, row, attempts, claimedBy, deliveries, owed, requests, received>>
      /\ claim' = [d \in Intents |-> Counting(claim[d])]
      /\ work' = [w \in Workers |-> IF work[w] = Idle THEN Idle ELSE [work[w] EXCEPT !.age = @ + 1]]
      /\ \A w \in Workers : work[w] # Idle => work[w].age < world.slowest
  BY DEF Tick
<1>2. \A w \in Workers : work[w] = Idle => work'[w] = Idle
  BY <1>1
<1>3. ASSUME NEW w \in Workers, work[w] # Idle
      PROVE  /\ work'[w] # Idle /\ work'[w].intent = work[w].intent
             /\ work'[w].attempt = work[w].attempt /\ work'[w].step = work[w].step
             /\ work'[w].age = work[w].age + 1 /\ work'[w] \in Claims \cup Answers
             /\ work[w].step = "answered" => work'[w].outcome = work[w].outcome
  <2>1. work'[w] = [work[w] EXCEPT !.age = @ + 1]
    BY <1>1, <1>3
  <2>2. CASE work[w] \in Claims
    BY <2>1, <2>2 DEF Claims, Idle
  <2>3. CASE work[w] \in Answers
    BY <2>1, <2>3 DEF Answers, Idle
  <2> QED
    BY <1>3, <2>2, <2>3, WorkFields DEF OutboxInv
<1>4. \A d \in Intents : claim[d] \in 0..(ClaimTime + 1) /\ claim'[d] = Counting(claim[d])
  BY <1>1 DEF OutboxInv, OutboxTypes
<1>5. OutboxTypes'
  <2>1. work' \in [Workers -> {Idle} \cup Claims \cup Answers]
    BY <1>1, <1>2, <1>3
  <2>2. claim' \in [Intents -> 0..(ClaimTime + 1)]
    BY <1>1, <1>4, WorldFields DEF Counting, OutboxInv
  <2> QED
    BY <1>1, <2>1, <2>2 DEF OutboxInv, OutboxTypes
<1>6. ASSUME NEW d \in Intents PROVE Enqueued(d)' /\ Held(d)' /\ HistorySound(d)'
  <2>1. Held(d)'
    BY <1>1, <1>3 DEF OutboxInv, Held
  <2>2. Enqueued(d)' /\ HistorySound(d)'
    BY <1>1 DEF OutboxInv, Enqueued, HistorySound, Before, Kept
  <2> QED
    BY <2>1, <2>2
<1>7. Arrived'
  BY <1>1, <1>2, <1>3 DEF OutboxInv, Arrived, Idle
<1>8. InTime'
  <2> SUFFICES ASSUME world.slowest <= ClaimTime PROVE InTime'
    BY <1>1 DEF InTime
  <2>1. ASSUME NEW w \in Workers, work[w] # Idle
        PROVE  /\ work[w].age + 1 <= world.slowest
               /\ \/ hook[work[w].intent[2]] = "deleted"
                  \/ /\ claimedBy[work[w].intent] = w
                     /\ claim'[work[w].intent] + work[w].age + 1 = ClaimTime + 1
    <3>1. work[w].age \in Nat /\ work[w].intent \in Intents /\ work[w].age < world.slowest
      BY <1>1, <2>1, WorkFields DEF OutboxInv
    <3> QED
      BY <1>4, <2>1, <3>1, WorldFields DEF OutboxInv, InTime, Counting
  <2>2. ASSUME NEW w \in Workers, work'[w] # Idle
        PROVE  /\ work[w] # Idle /\ work'[w].intent = work[w].intent /\ work'[w].age = work[w].age + 1
               /\ work[w].age \in Nat
    BY <1>2, <1>3, <2>2, WorkFields DEF OutboxInv
  <2>3. ASSUME NEW w \in Workers, work'[w] # Idle
        PROVE  /\ work'[w].age <= world.slowest
               /\ \/ hook[work'[w].intent[2]] = "deleted"
                  \/ /\ claimedBy[work'[w].intent] = w
                     /\ claim'[work'[w].intent] + work'[w].age = ClaimTime + 1
    <3>1. claim'[work[w].intent] \in Int
      <4>1. work[w].intent \in Intents
        BY <2>2, <2>3, WorkFields DEF OutboxInv
      <4> QED
        BY <1>5, <4>1, WorldFields DEF OutboxTypes, OutboxInv
    <3> QED
      BY <2>1, <2>2, <2>3, <3>1, WorldFields DEF OutboxInv
  <2>4. ASSUME NEW v \in Workers, NEW w \in Workers, v # w, work'[v] # Idle, work'[w] # Idle
        PROVE  work'[v].intent # work'[w].intent
    BY <2>2, <2>4 DEF OutboxInv, InTime
  <2> QED
    BY <1>1, <2>3, <2>4 DEF InTime
<1> QED
  BY <1>5, <1>6, <1>7, <1>8 DEF OutboxInv

\* A settlement that has lost its claim changes no row.
LEMMA StolenKeeps ==
  ASSUME OutboxInv, NEW w \in Workers, Settle(w), ~Fence(w)
  PROVE  OutboxInv'
<1>1. /\ UNCHANGED <<world, hook, events, row, attempts, claimedBy, claim, deliveries, owed, requests,
                     received>>
      /\ work' = [work EXCEPT ![w] = Idle] /\ work[w].step = "answered"
  BY DEF Settle
<1>2. work[w] # Idle /\ work[w].intent \in Intents
      /\ \A v \in Workers : work'[v] = IF v = w THEN Idle ELSE work[v]
  BY <1>1, WorkFields DEF OutboxInv, OutboxTypes
<1>3. OutboxTypes'
  BY <1>1 DEF OutboxInv, OutboxTypes
<1>4. ASSUME NEW d \in Intents PROVE Enqueued(d)' /\ Held(d)' /\ HistorySound(d)'
  <2>1. Held(d)'
    <3>1. claimedBy[d] # w
      BY OutboxAssumption DEF OutboxInv, Held, Fence, Enqueued
    <3> QED
      BY <1>1, <1>2, <3>1 DEF OutboxInv, Held
  <2> QED
    BY <1>1, <2>1 DEF OutboxInv, Enqueued, HistorySound, Before, Kept
<1>5. Arrived' /\ InTime'
  BY <1>1, <1>2 DEF OutboxInv, Arrived, InTime, Idle
<1> QED
  BY <1>3, <1>4, <1>5 DEF OutboxInv

\* The settlement of the holder: the history ends with its attempt, and tells of
\* a success exactly if the row goes.
LEMMA SettleKeeps ==
  ASSUME OutboxInv, NEW w \in Workers, Settle(w), Fence(w)
  PROVE  OutboxInv'
<1> DEFINE a == work[w]
           rec == [attempt |-> a.attempt, success |-> a.outcome = "ok"]
<1>0. PICK d \in Intents : d = work[w].intent
  BY WorkFields DEF Settle, OutboxInv
<1>1. /\ UNCHANGED <<world, hook, events, attempts, owed, requests, received>>
      /\ a.step = "answered" /\ row[d] # "absent" /\ claimedBy[d] = w
      /\ work' = [work EXCEPT ![w] = Idle]
      /\ row' = [row EXCEPT ![d] = RowAfter(a)] /\ claimedBy' = [claimedBy EXCEPT ![d] = NoWorker]
      /\ claim' = [claim EXCEPT ![d] = 0] /\ deliveries' = [deliveries EXCEPT ![d] = Append(@, rec)]
  BY <1>0 DEF Settle, Fence, Record
<1>2. /\ a \in Answers /\ a.attempt \in 1..MaxClaims /\ a # Idle
      /\ work \in [Workers -> {Idle} \cup Claims \cup Answers]
      /\ row \in [Intents -> {"absent", "queued", "failed"}]
      /\ claimedBy \in [Intents -> Workers \cup {NoWorker}] /\ NoWorker \notin Workers
      /\ claim \in [Intents -> 0..(ClaimTime + 1)] /\ deliveries \in [Intents -> Seq(Records)]
  BY <1>1, WorkFields, OutboxAssumption DEF OutboxInv, OutboxTypes
<1>3. /\ RowAfter(a) \in {"absent", "queued", "failed"} /\ (RowAfter(a) = "absent" <=> a.outcome = "ok")
      /\ rec \in Records /\ (rec.success <=> a.outcome = "ok") /\ rec.attempt = attempts[d]
  <2>1. a.attempt = attempts[d]
    BY <1>0, <1>1 DEF OutboxInv, Held
  <2> QED
    BY <1>2, <2>1 DEF RowAfter, Records
<1>4. \A v \in Workers : work'[v] = IF v = w THEN Idle ELSE work[v]
  BY <1>1, <1>2
<1>5. /\ row'[d] = RowAfter(a) /\ claimedBy'[d] = NoWorker /\ deliveries'[d] = Append(deliveries[d], rec)
      /\ \A e \in Intents : e # d =>
            /\ row'[e] = row[e] /\ claimedBy'[e] = claimedBy[e] /\ deliveries'[e] = deliveries[e]
            /\ claim'[e] = claim[e]
  BY <1>1, <1>2
<1>6. OutboxTypes'
  <2>1. Append(deliveries[d], rec) \in Seq(Records)
    BY <1>2, <1>3
  <2>2. 0 \in 0..(ClaimTime + 1)
    BY WorldFields DEF OutboxInv
  <2> QED
    BY <1>1, <1>2, <1>3, <2>1, <2>2 DEF OutboxInv, OutboxTypes
<1>7. d \in owed /\ hook[d[2]] # "deleted"
  BY <1>1, <1>2 DEF OutboxInv, Enqueued
<1>8. Enqueued(d)' /\ Held(d)'
  <2>1. d[1] <= events
    BY <1>2, <1>7 DEF OutboxInv, Enqueued
  <2>2. Enqueued(d)'
    BY <1>1, <1>5, <1>7, <2>1 DEF Enqueued
  <2>3. Held(d)'
    BY <1>2, <1>5 DEF Held
  <2> QED
    BY <2>2, <2>3
<1>9. HistorySound(d)'
  <2> DEFINE h == deliveries[d]
  <2>1. /\ h \in Seq(Records) /\ Len(h) \in Nat
        /\ \A i \in 1..Len(h) : h[i] \in Records
        /\ Len(Append(h, rec)) = Len(h) + 1 /\ Append(h, rec)[Len(h) + 1] = rec
        /\ \A i \in 1..Len(h) : Append(h, rec)[i] = h[i]
    BY <1>2, <1>3
  <2>2. /\ \A i \in 1..Len(h) : h[i].attempt < attempts[d]
        /\ \A i, j \in 1..Len(h) : i < j => h[i].attempt < h[j].attempt /\ ~h[i].success
        /\ ~(h # <<>> /\ h[Len(h)].success)
    BY <1>1, <1>2, <1>7 DEF OutboxInv, HistorySound, Kept, Before
  <2>3. \A i \in 1..Len(h) : ~h[i].success
    BY <2>1, <2>2
  <2>4. received[d] > 0 \/ a.outcome # "ok"
    BY <1>0, <1>1 DEF OutboxInv, Arrived
  <2>5. attempts[d] \in Nat /\ \A i \in 1..Len(h) : h[i].attempt \in Nat
    <3>1. attempts[d] \in 0..MaxClaims /\ MaxClaims \in Nat
      BY <1>2, WorldFields DEF OutboxInv, OutboxTypes
    <3>2. \A i \in 1..Len(h) : h[i].attempt \in 1..MaxClaims
      BY <2>1 DEF Records
    <3> QED
      BY <3>1, <3>2
  <2>6. deliveries'[d] # <<>>
    BY <1>5, <2>1
  <2>7. \A i, j \in 1..Len(deliveries'[d]) : i < j =>
          deliveries'[d][i].attempt < deliveries'[d][j].attempt /\ ~deliveries'[d][i].success
    BY <1>3, <1>5, <2>1, <2>2, <2>3
  <2>8. Before(d)'
    <3> SUFFICES ASSUME NEW i \in 1..Len(deliveries'[d])
                 PROVE  deliveries'[d][i].attempt <= attempts[d]
      BY <1>1, <1>5 DEF Before
    <3>1. CASE i \in 1..Len(h)
      BY <1>5, <2>1, <2>2, <2>5, <3>1
    <3>2. CASE i = Len(h) + 1
      BY <1>3, <1>5, <2>1, <2>5, <3>2
    <3> QED
      BY <1>5, <2>1, <3>1, <3>2
  <2>9. deliveries'[d][Len(deliveries'[d])].success <=> a.outcome = "ok"
    BY <1>3, <1>5, <2>1
  <2>10. row'[d] = "absent" <=> a.outcome = "ok"
    BY <1>3, <1>5
  <2>11. received'[d] = received[d]
    BY <1>1
  <2> HIDE DEF h, a, rec
  <2> QED
    BY <2>4, <2>6, <2>7, <2>8, <2>9, <2>10, <2>11 DEF HistorySound
<1>10. ASSUME NEW e \in Intents, e # d PROVE Enqueued(e)' /\ Held(e)' /\ HistorySound(e)'
  <2>1. claimedBy[e] # w
    BY <1>0, <1>2, <1>10 DEF OutboxInv, Held
  <2> QED
    BY <1>1, <1>4, <1>5, <1>10, <2>1 DEF OutboxInv, Enqueued, Held, HistorySound, Before, Kept
<1>11. Arrived'
  BY <1>1, <1>4 DEF OutboxInv, Arrived, Idle
<1>12. InTime'
  <2> SUFFICES ASSUME world.slowest <= ClaimTime PROVE InTime'
    BY <1>1 DEF InTime
  <2>1. ASSUME NEW v \in Workers, v # w, work[v] # Idle PROVE work[v].intent # d /\ work[v].intent \in Intents
    BY <1>0, <1>2, <2>1, WorkFields DEF OutboxInv, InTime
  <2> QED
    BY <1>1, <1>4, <1>5, <2>1 DEF OutboxInv, InTime
<1>13. ASSUME NEW e \in Intents PROVE Enqueued(e)' /\ Held(e)' /\ HistorySound(e)'
  <2>1. CASE e = d
    BY <1>8, <1>9, <2>1
  <2> QED
    BY <1>10, <2>1
<1> QED
  BY <1>6, <1>11, <1>12, <1>13 DEF OutboxInv

-----------------------------------------------------------------------------
(* Theorems. *)

\* Every step keeps the invariant.
LEMMA OutboxStep == OutboxInv /\ [Next]_vars => OutboxInv'
<1> SUFFICES ASSUME OutboxInv, [Next]_vars PROVE OutboxInv'
  OBVIOUS
<1>1. ASSUME NEW h \in Hooks, CreateWebhook(h) \/ UpdateWebhook(h) PROVE OutboxInv'
  BY <1>1, WebhookKeeps
<1>2. ASSUME NEW h \in Hooks, DeleteWebhook(h) PROVE OutboxInv'
  BY <1>2, DeleteWebhookKeeps
<1>3. CASE EnqueueWebhookEvent
  BY <1>3, EnqueueKeeps
<1>4. ASSUME NEW w \in Workers, NEW d \in Intents, ClaimNext(w, d) PROVE OutboxInv'
  BY <1>4, ClaimKeeps
<1>5. ASSUME NEW w \in Workers, Attempt(w) PROVE OutboxInv'
  BY <1>5, DeliverKeeps DEF Attempt
<1>6. ASSUME NEW w \in Workers, Settle(w) PROVE OutboxInv'
  BY <1>6, SettleKeeps, StolenKeeps
<1>7. ASSUME NEW w \in Workers, Crash(w) PROVE OutboxInv'
  BY <1>7, CrashKeeps
<1>8. CASE Tick
  BY <1>8, TickKeeps
<1>9. CASE UNCHANGED vars
  <2>1. UNCHANGED <<world, hook, events, row, attempts, claimedBy, claim, work, deliveries, owed,
                    requests, received>>
    BY <1>9 DEF vars, columns
  <2> QED
    BY <2>1 DEF OutboxInv, OutboxTypes, Enqueued, Held, HistorySound, Before, Kept, Arrived, InTime
<1> QED
  BY <1>1, <1>2, <1>3, <1>4, <1>5, <1>6, <1>7, <1>8, <1>9 DEF Next

\* Rows, claims, workers and histories agree, however claims are stolen and
\* workers crash.
THEOREM OutboxInvariance == Spec => []OutboxInv
<1>1. Init => OutboxInv
  <2> SUFFICES ASSUME Init PROVE OutboxInv
    OBVIOUS
  <2>1. <<>> \in Seq(Records) /\ 0 \in 0..MaxClaims /\ 0 \in 0..(ClaimTime + 1) /\ 0 \in 0..MaxEvents
    BY OutboxAssumption
  <2>2. OutboxTypes
    BY <2>1 DEF Init, OutboxTypes
  <2>3. \A d \in Intents : Enqueued(d) /\ Held(d) /\ HistorySound(d)
    BY OutboxAssumption DEF Init, Enqueued, Held, HistorySound, Kept
  <2>4. Arrived /\ InTime
    BY DEF Init, Arrived, InTime, Idle
  <2> QED
    BY <2>2, <2>3, <2>4 DEF OutboxInv
<1> QED
  BY <1>1, OutboxStep, PTL DEF Spec

\* No intent is lost: what has left the queue has been received.
THEOREM NothingLost == Spec => []DeliveredOrOwed
<1>1. OutboxInv => DeliveredOrOwed
  BY DEF OutboxInv, HistorySound, DeliveredOrOwed
<1> QED
  BY <1>1, OutboxInvariance, PTL

\* The delivery history is true.
THEOREM HistoriesTrue == Spec => []HistoryTrue
<1>1. OutboxInv => HistoryTrue
  BY DEF OutboxInv, HistorySound, HistoryTrue
<1> QED
  BY <1>1, OutboxInvariance, PTL

\* Workers in time never deliver one intent at once.
THEOREM DeliveriesApart == Spec => []NeverConcurrent
<1>1. OutboxInv => NeverConcurrent
  BY DEF OutboxInv, InTime, NeverConcurrent, Idle
<1> QED
  BY <1>1, OutboxInvariance, PTL

\* Only the holder of the newest claim retires an intent.
THEOREM HolderRetires == Spec => RetiredByHolder
<1> DEFINE ByHolder(d) == \E w \in Workers :
             /\ work[w].step = "answered" /\ work'[w] = Idle
             /\ work[w].intent = d /\ work[w].attempt = attempts[d]
<1>1. ASSUME OutboxInv, [Next]_vars, NEW d \in Intents,
             row[d] = "queued", row'[d] # "queued", hook'[d[2]] # "deleted"
      PROVE  ByHolder(d)
  <2>1. row \in [Intents -> {"absent", "queued", "failed"}] /\ d[2] \in Hooks
    BY <1>1, IntentParts DEF OutboxInv, OutboxTypes
  <2>2. ASSUME NEW w \in Workers, Settle(w) PROVE ByHolder(d)
    <3>1. work[w].step = "answered" /\ Fence(w) /\ work[w].intent = d
      BY <1>1, <2>1, <2>2 DEF Settle
    <3>2. claimedBy[d] = w /\ work'[w] = Idle
      <4>1. work \in [Workers -> {Idle} \cup Claims \cup Answers]
        BY <1>1 DEF OutboxInv, OutboxTypes
      <4> QED
        BY <2>2, <3>1, <4>1 DEF Fence, Settle
    <3> QED
      BY <1>1, <3>1, <3>2 DEF OutboxInv, Held
  <2>3. ASSUME NEW h \in Hooks, DeleteWebhook(h) PROVE FALSE
    BY <1>1, <2>1, <2>3 DEF DeleteWebhook, OutboxInv, OutboxTypes
  <2>4. CASE EnqueueWebhookEvent
    BY <1>1, <2>4 DEF EnqueueWebhookEvent
  <2>5. CASE UNCHANGED row
    BY <1>1, <2>5
  <2> QED
    BY <1>1, <2>2, <2>3, <2>4, <2>5
       DEF Next, vars, columns, CreateWebhook, UpdateWebhook, ClaimNext, Attempt, Deliver, Crash, Tick
<1>2. OutboxInv /\ [Next]_vars =>
        [\A d \in Intents :
           row[d] = "queued" /\ row'[d] # "queued" /\ hook'[d[2]] # "deleted" => ByHolder(d)]_vars
  BY <1>1
<1> QED
  BY <1>2, OutboxInvariance, PTL DEF Spec, RetiredByHolder

=============================================================================
