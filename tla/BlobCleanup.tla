----------------------------- MODULE BlobCleanup -----------------------------
(***************************************************************************)
(* The end of a stack and of its blobs: deleteStack queues the keys that   *)
(* only this stack's checkpoints name, in the transaction that removes the *)
(* rows, and the BlobCleanupWorkers of all replicas drain the queue.       *)
(*                                                                         *)
(* deleteStack takes its locks one after the other, so it is three steps:  *)
(* the stack's row, the keys (after its updates' rows and the advisory     *)
(* lock), the commit.  A checkpoint is put into the blob store inside its  *)
(* transaction, before the commit.  Time is abstract: a claim may be over, *)
(* and a back-off may end, at any moment.                                  *)
(***************************************************************************)
EXTENDS Naturals, FiniteSets

CONSTANTS
    Stacks, Keys, Workers, NoKey, NoWorker,
    Old, Shared,  \* the stacks there are at first, and the keys that all of them name
    MaxFailures   \* bound: requests to the store that fail, transactions that
                  \* are lost, workers that crash or are slower than their claim

ASSUME CleanupAssumption ==
    /\ NoKey \notin Keys /\ NoWorker \notin Workers
    /\ IsFiniteSet(Stacks) /\ Old \subseteq Stacks
    /\ Shared \subseteq Keys /\ MaxFailures \in Nat
    /\ (Old = {} => Shared = {})

VARIABLES
    stack,     \* table stacks: "absent", "idle", "updating" (active_update_id), "deleted"
    head,      \* what the newest checkpoint holds: "empty", "resources" or a "blob"
    rows,      \* table checkpoints: which stack's updates name which key
    saving,    \* per stack, the key a checkpoint's open transaction has put
    deletion,  \* per stack, its deleteStack transaction: "none", "locked", "queued"
    pending,   \* the keys this transaction has inserted into the queue
    blobs,     \* the blob store
    queue,     \* blob_cleanup_queue: the keys it holds, and in claimedBy, over,
    claimedBy, over, ready, age, \* ready and age the row's claim, whether the claim
               \* is over, whether available_at has come, and the order of created_at
    work,      \* each worker's claim: its step and its key
    failures,
    used, strays \* history: keys ever put, and those that only a transaction
               \* that rolled back has put, with its stack

columns == <<queue, claimedBy, over, ready, age>>
tables == <<stack, head, rows, saving, deletion, pending>>
vars == <<tables, blobs, columns, work, failures, used, strays>>

Idle == [step |-> "idle", key |-> NoKey]
Jobs == [step : {"claimed", "deleted", "failed"}, key : Keys]

TypeOK ==
    /\ stack \in [Stacks -> {"absent", "idle", "updating", "deleted"}]
    /\ head \in [Stacks -> {"empty", "resources", "blob"}]
    /\ rows \subseteq Stacks \X Keys
    /\ saving \in [Stacks -> Keys \cup {NoKey}]
    /\ deletion \in [Stacks -> {"none", "locked", "queued"}]
    /\ pending \in [Stacks -> SUBSET Keys]
    /\ blobs \subseteq Keys /\ queue \subseteq Keys
    /\ claimedBy \in [Keys -> Workers \cup {NoWorker}]
    /\ over \in [Keys -> BOOLEAN] /\ ready \in [Keys -> BOOLEAN] /\ age \in [Keys -> Nat]
    /\ work \in [Workers -> {Idle} \cup Jobs]
    /\ failures \in Nat
    /\ used \subseteq Keys /\ strays \subseteq Stacks \X Keys

Init ==
    /\ rows = Old \X Shared /\ used = Shared /\ blobs = Shared
    /\ stack = [s \in Stacks |-> IF s \in Old THEN "idle" ELSE "absent"]
    /\ head = [s \in Stacks |-> IF s \in Old THEN "blob" ELSE "empty"]
    /\ saving = [s \in Stacks |-> NoKey]
    /\ deletion = [s \in Stacks |-> "none"]
    /\ pending = [s \in Stacks |-> {}]
    /\ queue = {}
    /\ claimedBy = [k \in Keys |-> NoWorker]
    /\ over = [k \in Keys |-> FALSE] /\ ready = [k \in Keys |-> TRUE]
    /\ age = [k \in Keys |-> 0]
    /\ work = [w \in Workers |-> Idle]
    /\ failures = 0
    /\ strays = {}

-----------------------------------------------------------------------------
(* Stacks and their checkpoints. *)

CreateStack(s) ==
    /\ stack[s] = "absent"
    /\ stack' = [stack EXCEPT ![s] = "idle"]
    /\ UNCHANGED <<head, rows, saving, deletion, pending, blobs, columns, work, failures,
                   used, strays>>

\* An update of the stack begins or ends; both lock the stack's row.
ToggleUpdate(s) ==
    /\ stack[s] \in {"idle", "updating"} /\ deletion[s] = "none" /\ saving[s] = NoKey
    /\ stack' = [stack EXCEPT ![s] = IF @ = "idle" THEN "updating" ELSE "idle"]
    /\ UNCHANGED <<head, rows, saving, deletion, pending, blobs, columns, work, failures,
                   used, strays>>

\* A small checkpoint stays in its row.
SaveInline(s, resources) ==
    /\ stack[s] = "updating" /\ deletion[s] # "queued" /\ saving[s] = NoKey
    /\ head' = [head EXCEPT ![s] = resources]
    /\ UNCHANGED <<stack, rows, saving, deletion, pending, blobs, columns, work, failures,
                   used, strays>>

\* A large one is put under a key of its own while its update's row is locked:
\* one that was never put, or that this stack put before a rollback.
PutBlob(s, k) ==
    /\ stack[s] = "updating" /\ deletion[s] # "queued" /\ saving[s] = NoKey
    /\ k \notin used \/ <<s, k>> \in strays
    /\ used' = used \cup {k}
    /\ blobs' = blobs \cup {k}
    /\ saving' = [saving EXCEPT ![s] = k]
    /\ UNCHANGED <<stack, head, rows, deletion, pending, columns, work, failures, strays>>

CommitBlob(s) ==
    /\ saving[s] # NoKey
    /\ rows' = rows \cup {<<s, saving[s]>>}
    /\ head' = [head EXCEPT ![s] = "blob"]
    /\ saving' = [saving EXCEPT ![s] = NoKey]
    /\ strays' = strays \ {<<s, saving[s]>>}
    /\ UNCHANGED <<stack, deletion, pending, blobs, columns, work, failures, used>>

RollbackBlob(s) ==
    /\ saving[s] # NoKey
    /\ strays' = strays \cup {<<s, saving[s]>>}
    /\ saving' = [saving EXCEPT ![s] = NoKey]
    /\ UNCHANGED <<stack, head, rows, deletion, pending, blobs, columns, work, failures, used>>

-----------------------------------------------------------------------------
(* deleteStack. *)

DeletionAllowed(s, force) == force \/ (stack[s] = "idle" /\ head[s] = "empty")

\* SELECT ... FOR UPDATE OF stacks, and the tests that force skips.
LockStack(s, force) ==
    /\ stack[s] \in {"idle", "updating"} /\ deletion[s] = "none"
    /\ DeletionAllowed(s, force)
    /\ deletion' = [deletion EXCEPT ![s] = "locked"]
    /\ UNCHANGED <<stack, head, rows, saving, pending, blobs, columns, work, failures, used,
                   strays>>

KeysOf(s) == {k \in Keys : <<s, k>> \in rows}

\* The updates' rows are free.
WritersDone(s) == saving[s] = NoKey

\* pg_advisory_xact_lock is taken by a deletion that has keys, and is free if no
\* other such deletion is under way; here it is left out.
MutantLockFree(s) == TRUE
LockFree(s) ==
    KeysOf(s) # {} =>
        \A t \in Stacks \ {s} : deletion[t] = "queued" => KeysOf(t) = {}

\* The keys that no other stack's rows name; here every key of the stack.
MutantOrphans(s) == KeysOf(s)
Orphans(s) == {k \in KeysOf(s) : \A t \in Stacks \ {s} : <<t, k>> \notin rows}

QueueKeys(s) ==
    /\ deletion[s] = "locked"
    /\ WritersDone(s)
    /\ LockFree(s)
    /\ deletion' = [deletion EXCEPT ![s] = "queued"]
    /\ pending' = [pending EXCEPT ![s] = Orphans(s)]
    /\ UNCHANGED <<stack, head, rows, saving, blobs, columns, work, failures, used, strays>>

\* The rows go by ON DELETE CASCADE; a key that is queued already stays as it is.
CommitDelete(s) ==
    LET new == pending[s] \ queue IN
    /\ deletion[s] = "queued"
    /\ stack' = [stack EXCEPT ![s] = "deleted"]
    /\ rows' = {r \in rows : r[1] # s}
    /\ deletion' = [deletion EXCEPT ![s] = "none"]
    /\ pending' = [pending EXCEPT ![s] = {}]
    /\ queue' = queue \cup new
    /\ claimedBy' = [k \in Keys |-> IF k \in new THEN NoWorker ELSE claimedBy[k]]
    /\ over' = [k \in Keys |-> IF k \in new THEN FALSE ELSE over[k]]
    /\ ready' = [k \in Keys |-> IF k \in new THEN TRUE ELSE ready[k]]
    /\ age' = [k \in Keys |-> IF k \in new THEN Cardinality({t \in Stacks : stack[t] = "deleted"})
                              ELSE age[k]]
    /\ UNCHANGED <<head, saving, blobs, work, failures, used, strays>>

\* A connection or a replica is lost; the transaction leaves nothing.
RollbackDelete(s) ==
    /\ deletion[s] # "none" /\ failures < MaxFailures
    /\ failures' = failures + 1
    /\ deletion' = [deletion EXCEPT ![s] = "none"]
    /\ pending' = [pending EXCEPT ![s] = {}]
    /\ UNCHANGED <<stack, head, rows, saving, blobs, columns, work, used, strays>>

-----------------------------------------------------------------------------
(* The workers. *)

\* Here a claim that is over is never taken from its worker.
MutantClaimable(k) == k \in queue /\ ready[k] /\ claimedBy[k] = NoWorker
Claimable(k) == k \in queue /\ ready[k] /\ (claimedBy[k] = NoWorker \/ over[k])

\* ORDER BY created_at
ClaimNext(w, k) ==
    /\ work[w] = Idle
    /\ Claimable(k) /\ \A j \in Keys : Claimable(j) => age[k] <= age[j]
    /\ claimedBy' = [claimedBy EXCEPT ![k] = w]
    /\ over' = [over EXCEPT ![k] = FALSE]
    /\ work' = [work EXCEPT ![w] = [step |-> "claimed", key |-> k]]
    /\ UNCHANGED <<tables, blobs, queue, ready, age, failures, used, strays>>

DeleteBlob(w) ==
    /\ work[w].step = "claimed"
    /\ blobs' = blobs \ {work[w].key}
    /\ work' = [work EXCEPT ![w].step = "deleted"]
    /\ UNCHANGED <<tables, columns, failures, used, strays>>

FailToDelete(w) ==
    /\ work[w].step = "claimed" /\ failures < MaxFailures
    /\ failures' = failures + 1
    /\ work' = [work EXCEPT ![w].step = "failed"]
    /\ UNCHANGED <<tables, blobs, columns, used, strays>>

\* WHERE id = claim.id AND claimed_by = workerId
Mine(w) == work[w].key \in queue /\ claimedBy[work[w].key] = w

Ack(w) ==
    /\ work[w].step = "deleted"
    /\ queue' = IF Mine(w) THEN queue \ {work[w].key} ELSE queue
    /\ work' = [work EXCEPT ![w] = Idle]
    /\ UNCHANGED <<tables, blobs, claimedBy, over, ready, age, failures, used, strays>>

Retry(w) ==
    LET k == work[w].key IN
    /\ work[w].step = "failed"
    /\ claimedBy' = IF Mine(w) THEN [claimedBy EXCEPT ![k] = NoWorker] ELSE claimedBy
    /\ ready' = IF Mine(w) THEN [ready EXCEPT ![k] = FALSE] ELSE ready
    /\ work' = [work EXCEPT ![w] = Idle]
    /\ UNCHANGED <<tables, blobs, queue, over, age, failures, used, strays>>

\* The process stops; another one has a new workerId, so the claim is nobody's.
Crash(w) ==
    /\ work[w] # Idle /\ failures < MaxFailures
    /\ failures' = failures + 1
    /\ work' = [work EXCEPT ![w] = Idle]
    /\ UNCHANGED <<tables, blobs, columns, used, strays>>

\* CLAIM_SECONDS have passed since the claim; while its worker is at it, only
\* if the worker is slower than its claim.
Held(k) == work[claimedBy[k]].key = k

ClaimEnds(k) ==
    /\ k \in queue /\ claimedBy[k] # NoWorker /\ ~over[k]
    /\ Held(k) => failures < MaxFailures
    /\ failures' = IF Held(k) THEN failures + 1 ELSE failures
    /\ over' = [over EXCEPT ![k] = TRUE]
    /\ UNCHANGED <<tables, blobs, queue, claimedBy, ready, age, work, used, strays>>

\* available_at has come.
BackoffEnds(k) ==
    /\ k \in queue /\ ~ready[k]
    /\ ready' = [ready EXCEPT ![k] = TRUE]
    /\ UNCHANGED <<tables, blobs, queue, claimedBy, over, age, work, failures, used, strays>>

Work(w) == DeleteBlob(w) \/ FailToDelete(w)

Next ==
    \/ \E s \in Stacks : CreateStack(s)
    \/ \E s \in Stacks : ToggleUpdate(s)
    \/ \E s \in Stacks, r \in {"empty", "resources"} : SaveInline(s, r)
    \/ \E s \in Stacks, k \in Keys : PutBlob(s, k)
    \/ \E s \in Stacks : CommitBlob(s)
    \/ \E s \in Stacks : RollbackBlob(s)
    \/ \E s \in Stacks, force \in BOOLEAN : LockStack(s, force)
    \/ \E s \in Stacks : QueueKeys(s)
    \/ \E s \in Stacks : CommitDelete(s)
    \/ \E s \in Stacks : RollbackDelete(s)
    \/ \E w \in Workers, k \in Keys : ClaimNext(w, k)
    \/ \E w \in Workers : Work(w)
    \/ \E w \in Workers : Ack(w)
    \/ \E w \in Workers : Retry(w)
    \/ \E w \in Workers : Crash(w)
    \/ \E k \in Keys : ClaimEnds(k)
    \/ \E k \in Keys : BackoffEnds(k)

Spec == Init /\ [][Next]_vars

\* Some worker polls again and again, a worker goes on with its claim, and
\* time passes.
FairSpec ==
    /\ Spec
    /\ WF_vars(\E w \in Workers, k \in Keys : ClaimNext(w, k))
    /\ \A w \in Workers : WF_vars(Work(w)) /\ WF_vars(Ack(w)) /\ WF_vars(Retry(w))
    /\ \A k \in Keys : WF_vars(ClaimEnds(k)) /\ WF_vars(BackoffEnds(k))

-----------------------------------------------------------------------------
(* Properties. *)

Named(k) == \E s \in Stacks : <<s, k>> \in rows \/ saving[s] = k

\* A blob is deleted only when no checkpoint names it any more: deletions of
\* stacks that share it, saves in flight and workers whose claim was taken over
\* leave every named blob in the store.
NamedBlobsKept == \A k \in Keys : Named(k) => k \in blobs

\* A blob that was stored and that nobody names any more is queued, whichever
\* stacks that shared it are deleted at the same time, and whatever their
\* updates were writing.
NoBlobForgotten ==
    \A k \in blobs : Named(k) \/ k \in queue \/ \E s \in Stacks : <<s, k>> \in strays

\* A queued blob is deleted in the end, after failures and crashes.
EventuallyDeleted == \A k \in Keys : k \in queue ~> k \notin queue /\ k \notin blobs

=============================================================================
