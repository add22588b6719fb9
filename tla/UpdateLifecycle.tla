-------------------------- MODULE UpdateLifecycle --------------------------
(***************************************************************************)
(* The life of an update: creation, start, lease, checkpoints, completion, *)
(* cancellation, garbage collection, stack import, repair and deletion, as *)
(* PostgresUpdatesService, GCWorker and deleteStack execute them against   *)
(* one database from several replicas.                                     *)
(*                                                                         *)
(* A transaction that locks the rows it reads is one action.  What a       *)
(* request learns before it takes those locks is remembered in a set of    *)
(* requests in flight, and the request is finished by a second action at   *)
(* any later moment, possibly never (its replica crashed):                 *)
(*   authed    the lease token was verified, the handler has not run yet   *)
(*   renewals  renewLease has read the row and computed the new expiry     *)
(*   repairs   repairStack has read the head checkpoint                    *)
(*   gc        a GC cycle has computed its thresholds and candidates       *)
(*                                                                         *)
(* Updates are numbered in the order their rows are inserted, stacks are   *)
(* values, a lease token is present or null (startUpdate makes one token   *)
(* in an update's life).  A replica r reads its own clock, now + Skew[r];  *)
(* SQL's now() is now + DbSkew.                                            *)
(***************************************************************************)
EXTENDS Integers, Sequences, FiniteSets

CONSTANTS
    Stacks, Replicas,
    NoStack, NoUpdate, NoCheckpoint, NoLease,  \* SQL's NULL
    Skew, DbSkew,                     \* what each clock adds to the real time
    LeaseDuration,                    \* LEASE_DURATION_SECONDS
    Grace,                            \* GC_LEASE_GRACE_MS
    StaleAfter,                       \* GC_STALE_THRESHOLD_MS
    MaxUpdates,                       \* bound: rows ever inserted in updates
    MaxLog,                           \* bound: checkpoints kept per stack
    MaxInFlight,                      \* bound: requests between two steps
    MaxTime,                          \* bound: the last tick of the clock
    Horizon                           \* bound: clients are quiet after it

ASSUME BoundsAssumption ==
    /\ LeaseDuration \in Nat \ {0} /\ Grace \in Nat /\ StaleAfter \in Nat
    /\ MaxUpdates \in Nat /\ MaxLog \in Nat /\ MaxInFlight \in Nat
    /\ MaxTime \in Nat /\ Horizon \in Nat
ASSUME NullAssumption ==
    /\ NoStack \notin Stacks /\ NoUpdate \notin Nat
    /\ NoCheckpoint \notin Nat \X Nat /\ NoLease \notin Int
ASSUME SkewAssumption ==
    Skew \in [Replicas -> Int] /\ DbSkew \in Int

UpdateIds == 1..MaxUpdates
\* The status the code spells "not started" is written with an underscore.
Active == {"not_started", "requested", "running"}
Terminal == {"succeeded", "failed", "cancelled"}
\* "refresh" and "destroy" take every branch that "update" takes.
CreateKinds == {"update", "preview"}

VARIABLES
    live,            \* the rows of table stacks
    activeUpdateId,  \* column stacks.active_update_id
    status,          \* table updates, column status ("absent": no such row)
    lease,           \* its lease_token and lease_expires_at, which are set
                     \* and cleared together: the expiry, or NoLease
    stackOf, kind, version, createdAt,  \* the columns no handler changes
    log,             \* per stack, its checkpoints in the order of created_at
    nextId,          \* the number of the next row of updates
    now,             \* real time
    authed, renewals, repairs, gc,
    promised,        \* history: the real time up to which the lease was given
    webhooks         \* history: the webhook events enqueued for each update

fixed == <<stackOf, kind, version, createdAt>>
inFlight == <<authed, renewals, repairs>>
history == <<promised, webhooks>>
vars == <<live, activeUpdateId, status, lease, fixed, log, nextId, now, inFlight,
          gc, history>>

IdleGc == [stacks |-> {}, grace |-> 0, stale |-> 0]
CheckpointIds == UpdateIds \X Nat       \* <<update, version>>
Checkpoints == [update : UpdateIds, version : Nat,
                repairs : CheckpointIds \cup {NoCheckpoint}]
Requests == [op : {"complete", "checkpoint"}, update : UpdateIds, replica : Replicas]
Renewals == [update : UpdateIds, expiry : Int, until : Int]
Repairs == [stack : Stacks, head : CheckpointIds]

TypeOK ==
    /\ live \in SUBSET Stacks
    /\ activeUpdateId \in [Stacks -> UpdateIds \cup {NoUpdate}]
    /\ status \in [UpdateIds -> Active \cup Terminal \cup {"absent"}]
    /\ lease \in [UpdateIds -> Int \cup {NoLease}]
    /\ stackOf \in [UpdateIds -> Stacks \cup {NoStack}]
    /\ kind \in [UpdateIds -> CreateKinds \cup {"import", "none"}]
    /\ version \in [UpdateIds -> Nat]
    /\ createdAt \in [UpdateIds -> Int]
    /\ log \in [Stacks -> Seq(Checkpoints)]
    /\ nextId \in Nat \ {0}
    /\ now \in Nat
    /\ authed \in SUBSET Requests
    /\ renewals \in SUBSET Renewals
    /\ repairs \in SUBSET Repairs
    /\ gc \in [stacks : SUBSET (Stacks \cup {NoStack}), grace : Int, stale : Int]
    /\ promised \in [UpdateIds -> Int]
    /\ webhooks \in [UpdateIds -> Seq({"started"} \cup Terminal)]

Init ==
    /\ live = Stacks
    /\ activeUpdateId = [s \in Stacks |-> NoUpdate]
    /\ status = [u \in UpdateIds |-> "absent"]
    /\ lease = [u \in UpdateIds |-> NoLease]
    /\ stackOf = [u \in UpdateIds |-> NoStack]
    /\ kind = [u \in UpdateIds |-> "none"]
    /\ version = [u \in UpdateIds |-> 0]
    /\ createdAt = [u \in UpdateIds |-> 0]
    /\ log = [s \in Stacks |-> <<>>]
    /\ nextId = 1
    /\ now = 0
    /\ authed = {} /\ renewals = {} /\ repairs = {}
    /\ gc = IdleGc
    /\ promised = [u \in UpdateIds |-> 0]
    /\ webhooks = [u \in UpdateIds |-> <<>>]

-----------------------------------------------------------------------------
Clock(r) == now + Skew[r]
DbClock == now + DbSkew

UpdatesOf(s) == {u \in UpdateIds : stackOf[u] = s}
NonPreviews(s) == {u \in UpdatesOf(s) : kind[u] # "preview"}

\* SELECT max(...), with 0 for the null it gives over no row.
IsMaximum(m, S) ==
    IF S = {} THEN m = 0 ELSE m \in S /\ \A x \in S : x <= m
VersionsOf(rows) == {version[u] : u \in rows}

\* verifyLeaseToken, and the lease test of lockUpdateForWrite.
LeaseValid(u, r) == lease[u] # NoLease /\ lease[u] >= Clock(r)

\* lockUpdateForWrite lets a checkpoint through; here with only the row's
\* existence tested, and the rest left to the authentication.
MutantMayWrite(u, r) == status[u] # "absent"
MayWrite(u, r) == status[u] = "running" /\ LeaseValid(u, r)

\* lockStackForOperation found the row, and no update in progress; here
\* without the second test.
MutantStackFree(s) == s \in live
StackFree(s) == s \in live /\ activeUpdateId[s] = NoUpdate

\* cancelUpdate has something to cancel; here in any status.
MutantMayCancel(u) == status[u] # "absent"
MayCancel(u) == status[u] \in Active

\* The rows whose versions createUpdate looks at.
VersionRows(s, k) ==
    {u \in NonPreviews(s) : k = "preview" => status[u] = "succeeded"}

Quiet == now > Horizon
RoomInFlight ==
    Cardinality(authed) + Cardinality(renewals) + Cardinality(repairs) < MaxInFlight

IdOf(c) == <<c.update, c.version>>
HeadOf(s) == IdOf(log[s][Len(log[s])])
CheckpointVersions(s, u) ==
    {log[s][i].version : i \in {j \in 1..Len(log[s]) : log[s][j].update = u}}

-----------------------------------------------------------------------------
(* INSERT INTO updates, and the three columns every way out of an active   *)
(* status writes.                                                          *)

InsertUpdate(s, k, v, st) ==
    /\ stackOf' = [stackOf EXCEPT ![nextId] = s]
    /\ kind' = [kind EXCEPT ![nextId] = k]
    /\ version' = [version EXCEPT ![nextId] = v]
    /\ createdAt' = [createdAt EXCEPT ![nextId] = DbClock]
    /\ status' = [status EXCEPT ![nextId] = st]
    /\ nextId' = nextId + 1

\* Here with the lease left on the row, and with the pointer left on the update.
MutantEndKeepsLease(u, result) ==
    /\ status' = [status EXCEPT ![u] = result]
    /\ activeUpdateId' = [activeUpdateId EXCEPT ![stackOf[u]] = NoUpdate]
    /\ webhooks' = [webhooks EXCEPT ![u] = Append(@, result)]
    /\ UNCHANGED lease
EndUpdate(u, result) ==
    /\ status' = [status EXCEPT ![u] = result]
    /\ lease' = [lease EXCEPT ![u] = NoLease]
    /\ activeUpdateId' = [activeUpdateId EXCEPT ![stackOf[u]] = NoUpdate]
    /\ webhooks' = [webhooks EXCEPT ![u] = Append(@, result)]

-----------------------------------------------------------------------------
(* The API-token operations of a client: create, start, cancel. *)

CreateUpdate(s, k) ==
    /\ ~Quiet /\ nextId \in UpdateIds
    /\ StackFree(s)
    /\ \E v \in 0..MaxUpdates :
         /\ IsMaximum(v, VersionsOf(VersionRows(s, k)))
         /\ InsertUpdate(s, k, IF k = "preview" THEN v ELSE v + 1, "not_started")
    /\ activeUpdateId' = [activeUpdateId EXCEPT ![s] = nextId]
    /\ UNCHANGED <<live, lease, log, now, inFlight, gc, history>>

StartUpdate(u, r) ==
    /\ ~Quiet
    /\ status[u] = "not_started"
    /\ status' = [status EXCEPT ![u] = "running"]
    /\ lease' = [lease EXCEPT ![u] = Clock(r) + LeaseDuration]
    /\ activeUpdateId' = [activeUpdateId EXCEPT ![stackOf[u]] = u]
    /\ promised' = [promised EXCEPT ![u] = now + LeaseDuration]
    /\ webhooks' = [webhooks EXCEPT ![u] = Append(@, "started")]
    /\ UNCHANGED <<live, fixed, log, nextId, now, inFlight, gc>>

\* A terminal update is left as it is (the call answers false).
CancelUpdate(u) ==
    /\ MayCancel(u)
    /\ EndUpdate(u, "cancelled")
    /\ UNCHANGED <<live, fixed, log, nextId, now, inFlight, gc, promised>>

-----------------------------------------------------------------------------
(* The lease-token operations: authentication is a step of its own. *)

tables == <<live, activeUpdateId, status, lease, fixed, log, nextId>>

Authorise(u, r, op) ==
    /\ RoomInFlight
    /\ LeaseValid(u, r)
    /\ authed' = authed \cup {[op |-> op, update |-> u, replica |-> r]}
    /\ UNCHANGED <<tables, now, renewals, repairs, gc, history>>

CompleteUpdate(q, result) ==
    /\ q.op = "complete"
    /\ status[q.update] = "running"
    /\ EndUpdate(q.update, result)
    /\ authed' = authed \ {q}
    /\ UNCHANGED <<live, fixed, log, nextId, now, renewals, repairs, gc, promised>>

\* The checkpoint of a request of any kind: full, verbatim, delta or journal.
WriteCheckpoint(q) ==
    LET u == q.update  s == stackOf[u] IN
    /\ q.op = "checkpoint"
    /\ MayWrite(u, q.replica)
    /\ Len(log[s]) < MaxLog
    /\ \E n \in 0..MaxLog :
         /\ IsMaximum(n, CheckpointVersions(s, u))
         /\ log' = [log EXCEPT ![s] =
              Append(@, [update |-> u, version |-> n + 1, repairs |-> NoCheckpoint])]
    /\ authed' = authed \ {q}
    /\ UNCHANGED <<live, activeUpdateId, status, lease, fixed, nextId, now,
                   renewals, repairs, gc, history>>

RenewRead(u, r, duration) ==
    /\ ~Quiet /\ RoomInFlight
    /\ LeaseValid(u, r)
    /\ renewals' = renewals \cup
         {[update |-> u, expiry |-> Clock(r) + duration, until |-> now + duration]}
    /\ UNCHANGED <<tables, now, authed, repairs, gc, history>>

RenewWrite(q) ==
    /\ status[q.update] = "running"
    /\ lease[q.update] # NoLease /\ lease[q.update] > DbClock
    /\ lease' = [lease EXCEPT ![q.update] = q.expiry]
    /\ promised' = [promised EXCEPT ![q.update] = q.until]
    /\ renewals' = renewals \ {q}
    /\ UNCHANGED <<live, activeUpdateId, status, fixed, log, nextId, now, authed,
                   repairs, gc, webhooks>>

-----------------------------------------------------------------------------
(* Import, repair and deletion of a stack. *)

ImportStackVersion(s, repaired) ==
    /\ nextId \in UpdateIds
    /\ StackFree(s)
    /\ Len(log[s]) < MaxLog
    /\ \E v \in 0..MaxUpdates :
         /\ IsMaximum(v, VersionsOf(VersionRows(s, "import")))
         /\ InsertUpdate(s, "import", v + 1, "succeeded")
    /\ log' = [log EXCEPT ![s] =
         Append(@, [update |-> nextId, version |-> 1, repairs |-> repaired])]
    /\ UNCHANGED <<live, activeUpdateId, lease, now, authed, renewals, gc, history>>

ImportStack(s) ==
    ~Quiet /\ ImportStackVersion(s, NoCheckpoint) /\ UNCHANGED repairs

RepairRead(s) ==
    /\ RoomInFlight
    /\ s \in live /\ log[s] # <<>>
    /\ repairs' = repairs \cup {[stack |-> s, head |-> HeadOf(s)]}
    /\ UNCHANGED <<tables, now, authed, renewals, gc, history>>

\* importStackVersion's comparison with the head that was repaired; here left out.
MutantHeadUnchanged(q) == TRUE
HeadUnchanged(q) == log[q.stack] # <<>> /\ HeadOf(q.stack) = q.head

RepairWrite(q) ==
    /\ HeadUnchanged(q)
    /\ ImportStackVersion(q.stack, q.head)
    /\ repairs' = repairs \ {q}

\* ON DELETE CASCADE: a stack's updates and checkpoints go with it.
DeleteStack(s, force) ==
    LET keep(column, null) ==
          [u \in UpdateIds |-> IF stackOf[u] = s THEN null ELSE column[u]] IN
    /\ s \in live
    /\ ~force => activeUpdateId[s] = NoUpdate
    /\ live' = live \ {s}
    /\ activeUpdateId' = [activeUpdateId EXCEPT ![s] = NoUpdate]
    /\ status' = keep(status, "absent")
    /\ lease' = keep(lease, NoLease)
    /\ stackOf' = keep(stackOf, NoStack)
    /\ kind' = keep(kind, "none")
    /\ version' = keep(version, 0)
    /\ createdAt' = keep(createdAt, 0)
    /\ log' = [log EXCEPT ![s] = <<>>]
    /\ UNCHANGED <<nextId, now, inFlight, gc, history>>

-----------------------------------------------------------------------------
(* Garbage collection: one cycle at a time in the cluster (advisory lock). *)

Expired(threshold) ==
    {u \in UpdateIds : /\ status[u] = "running"
                       /\ lease[u] # NoLease /\ lease[u] < threshold}
\* Updates that were created and never started; here not looked for.
MutantStale(threshold) == {}
Stale(threshold) ==
    {u \in UpdateIds : /\ status[u] \in {"not_started", "requested"}
                       /\ createdAt[u] < threshold}

\* The latest expiry GC takes for dead; here without the grace period.
MutantGraceThreshold(r) == Clock(r)
GraceThreshold(r) == Clock(r) - Grace

GcScan(r) ==
    LET grace == GraceThreshold(r)
        stale == Clock(r) - StaleAfter
        candidates == {stackOf[u] : u \in Expired(grace) \cup Stale(stale)}
    IN
    /\ gc = IdleGc
    /\ candidates # {}
    /\ gc' = [stacks |-> candidates, grace |-> grace, stale |-> stale]
    /\ UNCHANGED <<tables, now, inFlight, history>>

\* The candidate stacks are locked and both UPDATEs evaluated again on them.
GcFinish ==
    LET locked == gc.stacks \cap live
        expired == {u \in Expired(gc.grace) : stackOf[u] \in locked}
        orphans == expired \cup {u \in Stale(gc.stale) : stackOf[u] \in locked}
    IN
    /\ gc # IdleGc
    /\ status' = [u \in UpdateIds |-> IF u \in orphans THEN "cancelled" ELSE status[u]]
    /\ lease' = [u \in UpdateIds |-> IF u \in orphans THEN NoLease ELSE lease[u]]
    /\ activeUpdateId' = [s \in Stacks |->
         IF activeUpdateId[s] \in orphans THEN NoUpdate ELSE activeUpdateId[s]]
    /\ webhooks' = [u \in UpdateIds |->
         IF u \in expired THEN Append(webhooks[u], "cancelled") ELSE webhooks[u]]
    /\ gc' = IdleGc
    /\ UNCHANGED <<live, fixed, log, nextId, now, inFlight, promised>>

-----------------------------------------------------------------------------
(* Crashes, and requests a handler refuses, leave no trace. *)

DropAuthed(q) ==
    /\ authed' = authed \ {q}
    /\ UNCHANGED <<tables, now, renewals, repairs, gc, history>>
DropRenewal(q) ==
    /\ renewals' = renewals \ {q}
    /\ UNCHANGED <<tables, now, authed, repairs, gc, history>>
DropRepair(q) ==
    /\ repairs' = repairs \ {q}
    /\ UNCHANGED <<tables, now, authed, renewals, gc, history>>
GcCrash ==
    /\ gc # IdleGc
    /\ gc' = IdleGc
    /\ UNCHANGED <<tables, now, inFlight, history>>

Tick ==
    /\ now < MaxTime
    /\ now' = now + 1
    /\ UNCHANGED <<tables, inFlight, gc, history>>

Next ==
    \/ \E s \in Stacks, k \in CreateKinds : CreateUpdate(s, k)
    \/ \E u \in UpdateIds, r \in Replicas : StartUpdate(u, r)
    \/ \E u \in UpdateIds : CancelUpdate(u)
    \/ \E u \in UpdateIds, r \in Replicas, op \in {"complete", "checkpoint"} :
         Authorise(u, r, op)
    \/ \E q \in authed, result \in Terminal : CompleteUpdate(q, result)
    \/ \E q \in authed : WriteCheckpoint(q)
    \/ \E u \in UpdateIds, r \in Replicas, d \in 1..LeaseDuration : RenewRead(u, r, d)
    \/ \E q \in renewals : RenewWrite(q)
    \/ \E s \in Stacks : ImportStack(s)
    \/ \E s \in Stacks : RepairRead(s)
    \/ \E q \in repairs : RepairWrite(q)
    \/ \E s \in Stacks, force \in BOOLEAN : DeleteStack(s, force)
    \/ \E r \in Replicas : GcScan(r)
    \/ GcFinish
    \/ \E q \in authed : DropAuthed(q)
    \/ \E q \in renewals : DropRenewal(q)
    \/ \E q \in repairs : DropRepair(q)
    \/ GcCrash
    \/ Tick

Spec == Init /\ [][Next]_vars

\* Time passes, some replica's GC interval fires again and again, and a cycle
\* that is started over and over is not cut off every time.
FairSpec ==
    /\ Spec
    /\ WF_vars(Tick)
    /\ WF_vars(\E r \in Replicas : GcScan(r))
    /\ SF_vars(GcFinish)

-----------------------------------------------------------------------------
(* Properties. *)

\* The pointer that guards a stack (stacks.active_update_id, read by
\* createUpdate, importStack and deleteStack) and the rows that GC and the
\* lifecycle handlers work from always agree: it names the one update of the
\* stack whose status is active, and is null when there is none.
ActiveMatches ==
    \A s \in Stacks, u \in UpdateIds :
        activeUpdateId[s] = u <=>
            stackOf[u] = s /\ status[u] \in Active

\* Versions of non-preview updates grow with their creation, so that
\* export/{version} and the index idx_updates_stack_version name one update.
VersionsIncrease ==
    \A s \in Stacks : \A u, w \in NonPreviews(s) :
        u < w => version[u] < version[w]

\* A checkpoint never lands after one of a newer update: a request that was
\* authenticated before its update was cancelled, collected or completed
\* cannot overwrite the head its successor has written.
CheckpointOrder ==
    \A s \in Stacks : \A i, j \in 1..Len(log[s]) :
        i < j => \/ log[s][i].update < log[s][j].update
                 \/ /\ log[s][i].update = log[s][j].update
                    /\ log[s][i].version < log[s][j].version

\* A repair's checkpoint follows directly the checkpoint it was computed from.
RepairsBuildOnHead ==
    \A s \in Stacks : \A i \in 1..Len(log[s]) :
        log[s][i].repairs # NoCheckpoint =>
            i > 1 /\ IdOf(log[s][i - 1]) = log[s][i].repairs

\* The webhook events enqueued with the lifecycle transactions tell each
\* update's life exactly once: a start, then at most one end, the one its
\* row records; a never-started update that GC collects is not announced.
WebhooksTellLife ==
    \A u \in UpdateIds :
        LET st == status[u]  told == webhooks[u] IN
        /\ st = "not_started" => told = <<>>
        /\ st = "running" => told = <<"started">>
        /\ st \in {"succeeded", "failed"} /\ kind[u] # "import" =>
             told = <<"started", st>>
        /\ st = "cancelled" =>
             told \in {<<>>, <<"cancelled">>, <<"started", "cancelled">>}

\* What makes the four invariants above inductive: a row exists exactly when
\* it belongs to a live stack, and only a running update has a lease; every
\* update of a stack but its newest has ended; a stack's checkpoints were
\* written by its own updates.
RowsSound ==
    \A u \in UpdateIds :
        /\ u >= nextId => status[u] = "absent"
        /\ status[u] = "absent" <=> stackOf[u] = NoStack
        /\ status[u] = "running" <=> lease[u] # NoLease
        /\ stackOf[u] \in live \cup {NoStack}
OlderHaveEnded ==
    \A u, w \in UpdateIds :
        u < w /\ stackOf[u] = stackOf[w] /\ stackOf[u] # NoStack =>
            status[u] \in Terminal
LogOwned ==
    \A s \in Stacks : \A i \in 1..Len(log[s]) : stackOf[log[s][i].update] = s

IInv ==
    /\ RowsSound
    /\ OlderHaveEnded
    /\ LogOwned
    /\ ActiveMatches
    /\ VersionsIncrease
    /\ CheckpointOrder
    /\ RepairsBuildOnHead

\* A terminal update stays as it ended until its stack is deleted, and the row
\* of a deleted stack's update never comes back, whatever is still in flight.
TerminalForever ==
    [][\A u \in UpdateIds :
         /\ status[u] \in Terminal => status'[u] \in {status[u], "absent"}
         /\ u < nextId /\ status[u] = "absent" => status'[u] = "absent"]_vars

\* GC cancels a running update only after the real time its last grant (the
\* start, or the last renewal that was stored) promised it, although the
\* replica that granted, the one that collects and the database disagree on
\* the time by up to the grace period.
LeaseRespected ==
    [][gc # IdleGc /\ gc' = IdleGc =>
         \A u \in UpdateIds :
            status[u] = "running" /\ status'[u] = "cancelled" =>
                promised[u] < now]_vars

\* A stack whose client vanished is free again after a while.
StackFreed ==
    \A s \in Stacks : activeUpdateId[s] # NoUpdate ~> activeUpdateId[s] = NoUpdate

\* The updates implement a lock on the stack.
Lock == INSTANCE StackLock WITH
    NoHolder <- NoUpdate,
    holder <- [s \in Stacks |-> activeUpdateId[s]],
    writers <- [s \in Stacks |-> [i \in 1..Len(log[s]) |-> log[s][i].update]],
    next <- nextId
ImplementsLock == Lock!Spec

=============================================================================
