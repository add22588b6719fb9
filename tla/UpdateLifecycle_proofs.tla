----------------------- MODULE UpdateLifecycle_proofs ------------------------
(***************************************************************************)
(* Proofs about UpdateLifecycle, for every number of stacks, replicas and  *)
(* updates and every value of the durations.  First what holds of the      *)
(* tables; then how an update moves in time: it ends once, its webhook     *)
(* events tell that life, garbage collection respects the lease that was   *)
(* granted, as long as the replicas' clocks differ by no more than the     *)
(* grace period, and the updates of a stack implement StackLock.           *)
(***************************************************************************)
EXTENDS UpdateLifecycle, TLAPS, SequenceTheorems

-----------------------------------------------------------------------------
(* Type correctness. *)

\* Inserting an update's row keeps the columns of table updates well typed.
LEMMA InsertType ==
  ASSUME TypeOK, NEW s \in Stacks, NEW k \in CreateKinds \cup {"import"},
         NEW v \in Nat, NEW st \in Active \cup Terminal,
         nextId \in UpdateIds, InsertUpdate(s, k, v, st)
  PROVE  /\ stackOf' \in [UpdateIds -> Stacks \cup {NoStack}]
         /\ kind' \in [UpdateIds -> CreateKinds \cup {"import", "none"}]
         /\ version' \in [UpdateIds -> Nat]
         /\ createdAt' \in [UpdateIds -> Int]
         /\ status' \in [UpdateIds -> Active \cup Terminal \cup {"absent"}]
         /\ nextId' \in Nat \ {0}
BY SkewAssumption DEF TypeOK, InsertUpdate, DbClock

\* Ending an update keeps the columns it writes well typed.
LEMMA EndType ==
  ASSUME TypeOK, NEW u \in UpdateIds, NEW result \in Terminal, EndUpdate(u, result)
  PROVE  /\ status' \in [UpdateIds -> Active \cup Terminal \cup {"absent"}]
         /\ lease' \in [UpdateIds -> Int \cup {NoLease}]
         /\ activeUpdateId' \in [Stacks -> UpdateIds \cup {NoUpdate}]
         /\ webhooks' \in [UpdateIds -> Seq({"started"} \cup Terminal)]
<1>1. status' \in [UpdateIds -> Active \cup Terminal \cup {"absent"}]
  BY DEF TypeOK, EndUpdate
<1>2. /\ lease' \in [UpdateIds -> Int \cup {NoLease}]
      /\ activeUpdateId' \in [Stacks -> UpdateIds \cup {NoUpdate}]
  BY DEF TypeOK, EndUpdate
<1>3. webhooks' \in [UpdateIds -> Seq({"started"} \cup Terminal)]
  BY DEF TypeOK, EndUpdate
<1> QED
  BY <1>1, <1>2, <1>3

\* Appending a checkpoint to a stack keeps log well typed.
LEMMA AppendType ==
  ASSUME TypeOK, NEW s, NEW c \in Checkpoints,
         log' = [log EXCEPT ![s] = Append(@, c)]
  PROVE  log' \in [Stacks -> Seq(Checkpoints)]
<1>1. log \in [Stacks -> Seq(Checkpoints)]
  BY DEF TypeOK
<1>2. \A x \in Stacks : Append(log[x], c) \in Seq(Checkpoints)
  BY <1>1
<1> QED
  BY <1>1, <1>2

\* Every reachable state of the update service is well typed: the rows of
\* updates, the checkpoints and the requests between two steps.
THEOREM TypeCorrect == Spec => []TypeOK
<1>1. Init => TypeOK
  BY BoundsAssumption, NullAssumption DEF Init, TypeOK, IdleGc, UpdateIds
<1>2. TypeOK /\ [Next]_vars => TypeOK'
  <2> SUFFICES ASSUME TypeOK, [Next]_vars PROVE TypeOK'
    OBVIOUS
  <2> USE BoundsAssumption, NullAssumption, SkewAssumption
      DEF TypeOK, inFlight, history, fixed, tables
  <2>1. ASSUME NEW s \in Stacks, NEW k \in CreateKinds, CreateUpdate(s, k)
        PROVE  TypeOK'
    <3>0. PICK v \in 0..MaxUpdates :
            InsertUpdate(s, k, IF k = "preview" THEN v ELSE v + 1, "not_started")
      BY <2>1 DEF CreateUpdate
    <3>1. PICK w \in Nat : InsertUpdate(s, k, w, "not_started")
      <4>1. (IF k = "preview" THEN v ELSE v + 1) \in Nat
        OBVIOUS
      <4> QED
        BY <3>0, <4>1
    <3>2. activeUpdateId' \in [Stacks -> UpdateIds \cup {NoUpdate}]
      BY <2>1 DEF CreateUpdate
    <3>3. UNCHANGED <<live, lease, log, now, inFlight, gc, history>> /\ nextId \in UpdateIds
      BY <2>1 DEF CreateUpdate
    <3> QED
      BY <3>1, <3>2, <3>3, InsertType DEF Active, CreateKinds
  <2>2. ASSUME NEW u \in UpdateIds, NEW r \in Replicas, StartUpdate(u, r)
        PROVE  TypeOK'
    <3>1. /\ status' \in [UpdateIds -> Active \cup Terminal \cup {"absent"}]
          /\ lease' \in [UpdateIds -> Int \cup {NoLease}]
          /\ promised' \in [UpdateIds -> Int]
      BY <2>2 DEF StartUpdate, Active, Clock
    <3>2. activeUpdateId' \in [Stacks -> UpdateIds \cup {NoUpdate}]
      BY <2>2 DEF StartUpdate
    <3>3. webhooks' \in [UpdateIds -> Seq({"started"} \cup Terminal)]
      BY <2>2 DEF StartUpdate
    <3>4. UNCHANGED <<live, fixed, log, nextId, now, inFlight, gc>>
      BY <2>2 DEF StartUpdate
    <3> QED
      BY <3>1, <3>2, <3>3, <3>4
  <2>3. ASSUME NEW u \in UpdateIds, CancelUpdate(u)
        PROVE  TypeOK'
    BY <2>3, EndType DEF CancelUpdate, Terminal
  <2>4. ASSUME NEW u \in UpdateIds, NEW r \in Replicas,
               NEW op \in {"complete", "checkpoint"}, Authorise(u, r, op)
        PROVE  TypeOK'
    BY <2>4 DEF Authorise, Requests
  <2>5. ASSUME NEW q \in authed, NEW result \in Terminal, CompleteUpdate(q, result)
        PROVE  TypeOK'
    <3>1. q.update \in UpdateIds
      BY DEF Requests
    <3> QED
      BY <2>5, <3>1, EndType DEF CompleteUpdate
  <2>6. ASSUME NEW q \in authed, WriteCheckpoint(q)
        PROVE  TypeOK'
    <3>1. q.update \in UpdateIds
      BY DEF Requests
    <3>2. ASSUME NEW n \in Nat
          PROVE  [update |-> q.update, version |-> n + 1, repairs |-> NoCheckpoint] \in Checkpoints
      BY <3>1 DEF Checkpoints, CheckpointIds
    <3>3. log' \in [Stacks -> Seq(Checkpoints)]
      <4>1. PICK n \in 0..MaxLog : log' = [log EXCEPT ![stackOf[q.update]] =
              Append(@, [update |-> q.update, version |-> n + 1, repairs |-> NoCheckpoint])]
        BY <2>6 DEF WriteCheckpoint
      <4>2. [update |-> q.update, version |-> n + 1, repairs |-> NoCheckpoint] \in Checkpoints
        BY <3>2
      <4> QED
        BY <4>1, <4>2, AppendType
    <3>4. UNCHANGED <<live, activeUpdateId, status, lease, fixed, nextId, now,
                      renewals, repairs, gc, history>> /\ authed' \subseteq authed
      BY <2>6 DEF WriteCheckpoint
    <3> QED
      BY <3>3, <3>4
  <2>7. ASSUME NEW u \in UpdateIds, NEW r \in Replicas, NEW d \in 1..LeaseDuration,
               RenewRead(u, r, d)
        PROVE  TypeOK'
    BY <2>7 DEF RenewRead, Renewals, Clock
  <2>8. ASSUME NEW q \in renewals, RenewWrite(q)
        PROVE  TypeOK'
    <3>1. /\ lease' \in [UpdateIds -> Int \cup {NoLease}]
          /\ promised' \in [UpdateIds -> Int]
      BY <2>8 DEF RenewWrite, Renewals
    <3> QED
      BY <2>8, <3>1 DEF RenewWrite
  <2>9. ASSUME NEW s \in Stacks, NEW c \in CheckpointIds \cup {NoCheckpoint},
               ImportStackVersion(s, c), repairs' \in SUBSET Repairs
        PROVE  TypeOK'
    <3>1. PICK v \in Nat : InsertUpdate(s, "import", v + 1, "succeeded")
      BY <2>9 DEF ImportStackVersion
    <3>2. [update |-> nextId, version |-> 1, repairs |-> c] \in Checkpoints
      BY <2>9 DEF Checkpoints, CheckpointIds, ImportStackVersion
    <3>3. log' \in [Stacks -> Seq(Checkpoints)]
      BY <2>9, <3>2 DEF ImportStackVersion
    <3>4. UNCHANGED <<live, activeUpdateId, lease, now, authed, renewals, gc, history>>
          /\ nextId \in UpdateIds
      BY <2>9 DEF ImportStackVersion
    <3>5. /\ stackOf' \in [UpdateIds -> Stacks \cup {NoStack}]
          /\ kind' \in [UpdateIds -> CreateKinds \cup {"import", "none"}]
          /\ version' \in [UpdateIds -> Nat]
          /\ createdAt' \in [UpdateIds -> Int]
          /\ status' \in [UpdateIds -> Active \cup Terminal \cup {"absent"}]
          /\ nextId' \in Nat \ {0}
      <4>1. "succeeded" \in Active \cup Terminal /\ v + 1 \in Nat
        BY DEF Terminal
      <4> HIDE DEF TypeOK
      <4> QED
        BY <3>1, <3>4, <4>1, InsertType
    <3> QED
      BY <2>9, <3>3, <3>4, <3>5
  <2>10. ASSUME NEW s \in Stacks, ImportStack(s)
         PROVE  TypeOK'
    BY <2>10, <2>9 DEF ImportStack
  <2>11. ASSUME NEW s \in Stacks, RepairRead(s)
         PROVE  TypeOK'
    <3>1. HeadOf(s) \in CheckpointIds
      <4>1. log[s] \in Seq(Checkpoints) /\ log[s] # <<>>
        BY <2>11 DEF RepairRead
      <4>2. log[s][Len(log[s])] \in Checkpoints
        BY <4>1
      <4> QED
        BY <4>2 DEF HeadOf, IdOf, Checkpoints, CheckpointIds
    <3> QED
      BY <2>11, <3>1 DEF RepairRead, Repairs
  <2>12. ASSUME NEW q \in repairs, RepairWrite(q)
         PROVE  TypeOK'
    <3>1. q.stack \in Stacks /\ q.head \in CheckpointIds
      BY DEF Repairs
    <3> QED
      BY <2>12, <2>9, <3>1 DEF RepairWrite
  <2>13. ASSUME NEW s \in Stacks, NEW force \in BOOLEAN, DeleteStack(s, force)
         PROVE  TypeOK'
    <3>1. /\ status' \in [UpdateIds -> Active \cup Terminal \cup {"absent"}]
          /\ lease' \in [UpdateIds -> Int \cup {NoLease}]
          /\ version' \in [UpdateIds -> Nat]
          /\ createdAt' \in [UpdateIds -> Int]
      BY <2>13 DEF DeleteStack
    <3>2. /\ stackOf' \in [UpdateIds -> Stacks \cup {NoStack}]
          /\ kind' \in [UpdateIds -> CreateKinds \cup {"import", "none"}]
      BY <2>13 DEF DeleteStack
    <3>3. /\ live' \in SUBSET Stacks
          /\ activeUpdateId' \in [Stacks -> UpdateIds \cup {NoUpdate}]
          /\ log' \in [Stacks -> Seq(Checkpoints)]
      BY <2>13 DEF DeleteStack
    <3>4. UNCHANGED <<nextId, now, inFlight, gc, history>>
      BY <2>13 DEF DeleteStack
    <3> QED
      BY <3>1, <3>2, <3>3, <3>4
  <2>14. ASSUME NEW r \in Replicas, GcScan(r)
         PROVE  TypeOK'
    <3>1. gc' \in [stacks : SUBSET (Stacks \cup {NoStack}), grace : Int, stale : Int]
      BY <2>14 DEF GcScan, GraceThreshold, Clock, Expired, Stale
    <3> QED
      BY <2>14, <3>1 DEF GcScan
  <2>15. ASSUME GcFinish
         PROVE  TypeOK'
    <3>1. /\ status' \in [UpdateIds -> Active \cup Terminal \cup {"absent"}]
          /\ lease' \in [UpdateIds -> Int \cup {NoLease}]
          /\ activeUpdateId' \in [Stacks -> UpdateIds \cup {NoUpdate}]
      BY <2>15 DEF GcFinish, Terminal
    <3>2. webhooks' \in [UpdateIds -> Seq({"started"} \cup Terminal)]
      BY <2>15 DEF GcFinish, Terminal
    <3>3. gc' \in [stacks : SUBSET (Stacks \cup {NoStack}), grace : Int, stale : Int]
      BY <2>15 DEF GcFinish, IdleGc
    <3>4. UNCHANGED <<live, fixed, log, nextId, now, inFlight, promised>>
      BY <2>15 DEF GcFinish
    <3> QED
      BY <3>1, <3>2, <3>3, <3>4
  <2>16. ASSUME NEW q, DropAuthed(q) \/ DropRenewal(q) \/ DropRepair(q)
         PROVE  TypeOK'
    BY <2>16 DEF DropAuthed, DropRenewal, DropRepair
  <2>17. ASSUME GcCrash \/ Tick
         PROVE  TypeOK'
    BY <2>17 DEF GcCrash, Tick, IdleGc
  <2>18. CASE UNCHANGED vars
    BY <2>18 DEF vars
  <2> HIDE DEF TypeOK
  <2> QED
    BY <2>1, <2>2, <2>3, <2>4, <2>5, <2>6, <2>7, <2>8, <2>10, <2>11, <2>12, <2>13,
       <2>14, <2>15, <2>16, <2>17, <2>18 DEF Next
<1> QED
  BY <1>1, <1>2, PTL DEF Spec

-----------------------------------------------------------------------------
(* The inductive invariant. *)

\* The requests between two steps and the clock are not part of IInv.
LEMMA TablesOnly ==
  ASSUME IInv, UNCHANGED tables
  PROVE  IInv'
BY DEF IInv, tables, fixed, RowsSound, OlderHaveEnded, LogOwned, ActiveMatches,
       VersionsIncrease, CheckpointOrder, RepairsBuildOnHead, NonPreviews,
       UpdatesOf, IdOf

\* A free stack has only ended updates.
LEMMA FreeStackEnded ==
  ASSUME TypeOK, IInv, NEW s \in Stacks, activeUpdateId[s] = NoUpdate
  PROVE  \A u \in UpdateIds : stackOf[u] = s => status[u] \in Terminal
<1> SUFFICES ASSUME NEW u \in UpdateIds, stackOf[u] = s
             PROVE  status[u] \in Terminal
  OBVIOUS
<1>1. activeUpdateId[s] # u /\ s # NoStack
  BY NullAssumption DEF UpdateIds
<1>2. status[u] \notin Active
  BY <1>1 DEF IInv, ActiveMatches
<1>3. status[u] # "absent"
  BY <1>1 DEF IInv, RowsSound
<1> QED
  BY <1>2, <1>3 DEF TypeOK

\* A new row in a free stack: the row is the stack's newest.
LEMMA InsertRows ==
  ASSUME TypeOK, IInv, NEW s \in live, activeUpdateId[s] = NoUpdate,
         NEW k \in CreateKinds \cup {"import"}, NEW v \in Nat,
         NEW st \in Active \cup Terminal, st # "running",
         nextId \in UpdateIds, InsertUpdate(s, k, v, st), UNCHANGED <<live, lease>>,
         k # "preview" => \A u \in NonPreviews(s) : version[u] < v
  PROVE  RowsSound' /\ OlderHaveEnded' /\ VersionsIncrease'
<1>1. s \in Stacks /\ s # NoStack /\ UpdateIds \subseteq Nat
  BY NullAssumption DEF TypeOK, UpdateIds
<1>2. \A u \in UpdateIds : stackOf[u] = s => status[u] \in Terminal /\ u < nextId
  <2>1. \A u \in UpdateIds : stackOf[u] = s => status[u] \in Terminal
    BY <1>1, FreeStackEnded
  <2>2. \A u \in UpdateIds : u >= nextId => stackOf[u] = NoStack
    BY DEF IInv, RowsSound
  <2>3. \A u \in UpdateIds : u \in Nat /\ nextId \in Nat
    BY <1>1 DEF TypeOK
  <2> QED
    BY <1>1, <2>1, <2>2, <2>3
<1>3. RowsSound'
  <2> SUFFICES ASSUME NEW u \in UpdateIds
               PROVE  /\ u >= nextId' => status'[u] = "absent"
                      /\ status'[u] = "absent" <=> stackOf'[u] = NoStack
                      /\ status'[u] = "running" <=> lease'[u] # NoLease
                      /\ stackOf'[u] \in live' \cup {NoStack}
    BY DEF RowsSound
  <2>1. nextId' = nextId + 1 /\ nextId \in Nat /\ u \in Nat
    BY <1>1 DEF InsertUpdate, TypeOK
  <2>2. CASE u = nextId
    <3>1. status'[u] = st /\ stackOf'[u] = s /\ lease'[u] = lease[u]
      BY <2>2 DEF InsertUpdate, TypeOK
    <3>2. status[u] = "absent" /\ lease[u] = NoLease
      BY <2>1, <2>2 DEF IInv, RowsSound
    <3> QED
      BY <1>1, <2>1, <2>2, <3>1, <3>2 DEF Active, Terminal
  <2>3. CASE u # nextId
    <3>1. status'[u] = status[u] /\ stackOf'[u] = stackOf[u] /\ lease'[u] = lease[u]
      BY <2>3 DEF InsertUpdate, TypeOK
    <3> QED
      BY <2>1, <3>1 DEF IInv, RowsSound
  <2> QED
    BY <2>2, <2>3
<1>4. OlderHaveEnded'
  <2>1. \A u \in UpdateIds : u # nextId => stackOf'[u] = stackOf[u] /\ status'[u] = status[u]
    BY DEF TypeOK, InsertUpdate
  <2>2. stackOf'[nextId] = s
    BY DEF TypeOK, InsertUpdate
  <2>3. \A u \in UpdateIds : u >= nextId => stackOf[u] = NoStack
    BY DEF IInv, RowsSound
  <2> SUFFICES ASSUME NEW u \in UpdateIds, NEW w \in UpdateIds, u < w,
                      stackOf'[u] = stackOf'[w], stackOf'[u] # NoStack
               PROVE  status'[u] \in Terminal
    BY DEF OlderHaveEnded
  <2>4. u # nextId
    <3> SUFFICES ASSUME u = nextId PROVE FALSE
      OBVIOUS
    <3>1. stackOf'[w] = NoStack
      BY <1>1, <2>1, <2>3
    <3> QED
      BY <1>1, <2>2, <3>1
  <2>5. CASE w = nextId
    BY <1>2, <2>1, <2>2, <2>4, <2>5
  <2>6. CASE w # nextId
    BY <2>1, <2>4, <2>6 DEF IInv, OlderHaveEnded
  <2> QED
    BY <2>5, <2>6
<1>5. VersionsIncrease'
  <2>1. \A u \in UpdateIds : u # nextId =>
          stackOf'[u] = stackOf[u] /\ kind'[u] = kind[u] /\ version'[u] = version[u]
    BY DEF TypeOK, InsertUpdate
  <2>2. stackOf'[nextId] = s /\ kind'[nextId] = k /\ version'[nextId] = v
    BY DEF TypeOK, InsertUpdate
  <2>3. \A u \in UpdateIds : u >= nextId => stackOf[u] = NoStack
    BY DEF IInv, RowsSound
  <2> SUFFICES ASSUME NEW x \in Stacks, NEW u \in NonPreviews(x)', NEW w \in NonPreviews(x)',
                      u < w
               PROVE  version'[u] < version'[w]
    BY DEF VersionsIncrease
  <2>4. /\ u \in UpdateIds /\ stackOf'[u] = x /\ kind'[u] # "preview"
        /\ w \in UpdateIds /\ stackOf'[w] = x /\ kind'[w] # "preview"
    BY DEF NonPreviews, UpdatesOf
  <2>5. u # nextId
    <3> SUFFICES ASSUME u = nextId PROVE FALSE
      OBVIOUS
    <3>1. stackOf'[w] = NoStack
      BY <1>1, <2>1, <2>3, <2>4
    <3> QED
      BY <2>4, <3>1, NullAssumption
  <2>6. u \in NonPreviews(x)
    BY <2>1, <2>4, <2>5 DEF NonPreviews, UpdatesOf
  <2>7. CASE w = nextId
    BY <2>1, <2>2, <2>4, <2>5, <2>6, <2>7
  <2>8. CASE w # nextId
    <3>1. w \in NonPreviews(x)
      BY <2>1, <2>4, <2>8 DEF NonPreviews, UpdatesOf
    <3> QED
      BY <2>1, <2>4, <2>5, <2>6, <2>8, <3>1 DEF IInv, VersionsIncrease
  <2> QED
    BY <2>7, <2>8
<1> QED
  BY <1>3, <1>4, <1>5

\* The rows a new one is inserted beside keep their place in the log.
LEMMA InsertKeepsLogOwned ==
  ASSUME TypeOK, IInv, NEW s \in live, NEW k, NEW v, NEW st,
         nextId \in UpdateIds, InsertUpdate(s, k, v, st)
  PROVE  \A x \in Stacks : \A i \in 1..Len(log[x]) :
            log[x][i].update # nextId /\ stackOf'[log[x][i].update] = x
<1> SUFFICES ASSUME NEW x \in Stacks, NEW i \in 1..Len(log[x])
             PROVE  log[x][i].update # nextId /\ stackOf'[log[x][i].update] = x
  OBVIOUS
<1>1. log[x][i] \in Checkpoints
  BY DEF TypeOK
<1>2. log[x][i].update \in UpdateIds /\ stackOf[log[x][i].update] = x
  BY <1>1 DEF Checkpoints, IInv, LogOwned
<1>3. stackOf[nextId] = NoStack
  BY DEF IInv, RowsSound, TypeOK
<1> QED
  BY <1>2, <1>3, NullAssumption DEF TypeOK, InsertUpdate

\* The maximum a SELECT max(...) finds bounds every row it looked at.
LEMMA MaximumBounds ==
  ASSUME NEW m, NEW S, IsMaximum(m, S)
  PROVE  \A x \in S : x <= m
BY DEF IsMaximum

\* An update that ends leaves its stack free.
LEMMA EndPreserves ==
  ASSUME TypeOK, IInv, NEW u \in UpdateIds, status[u] \in Active,
         NEW result \in Terminal, EndUpdate(u, result),
         UNCHANGED <<live, fixed, log, nextId>>
  PROVE  IInv'
<1>1. stackOf[u] \in Stacks /\ u < nextId /\ result \notin Active \cup {"absent"}
  BY DEF TypeOK, IInv, RowsSound, Active, Terminal, UpdateIds
<1>2. \A w \in UpdateIds : w # u => status'[w] = status[w] /\ lease'[w] = lease[w]
  BY DEF TypeOK, EndUpdate
<1>3. status'[u] = result /\ lease'[u] = NoLease
  BY DEF TypeOK, EndUpdate
<1>4. RowsSound'
  BY <1>1, <1>2, <1>3 DEF IInv, RowsSound, fixed, Active, UpdateIds, TypeOK
<1>5. OlderHaveEnded'
  BY <1>2, <1>3 DEF IInv, OlderHaveEnded, fixed
<1>6. ActiveMatches'
  BY <1>1, <1>2, <1>3, NullAssumption
  DEF IInv, ActiveMatches, EndUpdate, fixed, TypeOK, UpdateIds
<1>7. LogOwned' /\ VersionsIncrease' /\ CheckpointOrder' /\ RepairsBuildOnHead'
  BY DEF IInv, LogOwned, VersionsIncrease, CheckpointOrder, RepairsBuildOnHead,
         NonPreviews, UpdatesOf, IdOf, fixed
<1> QED
  BY <1>4, <1>5, <1>6, <1>7 DEF IInv

\* A checkpoint that the stack's newest update appends, or a new update whose
\* row was just inserted, comes last in the order of the log.
LEMMA AppendOrders ==
  ASSUME TypeOK, IInv, NEW s \in Stacks, NEW c \in Checkpoints,
         log' = [log EXCEPT ![s] = Append(@, c)],
         \A i \in 1..Len(log[s]) :
            \/ log[s][i].update < c.update
            \/ log[s][i].update = c.update /\ log[s][i].version < c.version,
         c.repairs # NoCheckpoint => log[s] # <<>> /\ HeadOf(s) = c.repairs
  PROVE  CheckpointOrder' /\ RepairsBuildOnHead'
<1>1. log \in [Stacks -> Seq(Checkpoints)]
  BY DEF TypeOK
<1>2. \A x \in Stacks : x # s => log'[x] = log[x]
  BY <1>1
<1>3. /\ log'[s] = Append(log[s], c)
      /\ Len(log'[s]) = Len(log[s]) + 1
      /\ log'[s][Len(log[s]) + 1] = c
      /\ \A i \in 1..Len(log[s]) : log'[s][i] = log[s][i]
  BY <1>1
<1>4. Len(log[s]) \in Nat
  BY <1>1
<1>5. CheckpointOrder'
  <2> SUFFICES ASSUME NEW x \in Stacks, NEW i \in 1..Len(log'[x]),
                      NEW j \in 1..Len(log'[x]), i < j
               PROVE  \/ log'[x][i].update < log'[x][j].update
                      \/ /\ log'[x][i].update = log'[x][j].update
                         /\ log'[x][i].version < log'[x][j].version
    BY DEF CheckpointOrder
  <2>1. CASE x # s
    BY <1>2, <2>1 DEF IInv, CheckpointOrder
  <2>2. CASE x = s /\ j = Len(log[s]) + 1
    BY <1>3, <1>4, <2>2
  <2>3. CASE x = s /\ j # Len(log[s]) + 1
    <3>1. i \in 1..Len(log[s]) /\ j \in 1..Len(log[s])
      BY <1>3, <1>4, <2>3
    <3> QED
      BY <1>3, <2>3, <3>1 DEF IInv, CheckpointOrder
  <2> QED
    BY <2>1, <2>2, <2>3
<1>6. RepairsBuildOnHead'
  <2> SUFFICES ASSUME NEW x \in Stacks, NEW i \in 1..Len(log'[x]),
                      log'[x][i].repairs # NoCheckpoint
               PROVE  i > 1 /\ IdOf(log'[x][i - 1]) = log'[x][i].repairs
    BY DEF RepairsBuildOnHead, IdOf
  <2>1. CASE x # s
    BY <1>2, <2>1 DEF IInv, RepairsBuildOnHead
  <2>2. CASE x = s /\ i = Len(log[s]) + 1
    <3>1. c.repairs # NoCheckpoint
      BY <1>3, <2>2
    <3>2. log[s] # <<>> /\ IdOf(log[s][Len(log[s])]) = c.repairs
      BY <3>1 DEF HeadOf
    <3>3. Len(log[s]) > 0
      BY <1>1, <3>2
    <3>4. i > 1 /\ i - 1 = Len(log[s])
      BY <1>4, <2>2, <3>3
    <3>5. log'[s][i - 1] = log[s][Len(log[s])]
      BY <1>3, <1>4, <3>3, <3>4
    <3>6. log'[x][i].repairs = c.repairs
      BY <1>3, <2>2
    <3> QED
      BY <2>2, <3>2, <3>4, <3>5, <3>6
  <2>3. CASE x = s /\ i # Len(log[s]) + 1
    <3>1. i \in 1..Len(log[s])
      BY <1>3, <1>4, <2>3
    <3>2. i > 1 /\ IdOf(log[s][i - 1]) = log[s][i].repairs
      BY <1>3, <2>3, <3>1 DEF IInv, RepairsBuildOnHead
    <3>3. i - 1 \in 1..Len(log[s])
      BY <1>4, <3>1, <3>2
    <3> QED
      BY <1>3, <2>3, <3>1, <3>2, <3>3
  <2> QED
    BY <2>1, <2>2, <2>3
<1> QED
  BY <1>5, <1>6

-----------------------------------------------------------------------------
(* Each action preserves IInv. *)

\* createUpdate: the new update takes the free stack.
LEMMA CreatePreserves ==
  ASSUME TypeOK, IInv, NEW s \in Stacks, NEW k \in CreateKinds, CreateUpdate(s, k)
  PROVE  IInv'
<1>1. /\ s \in live /\ activeUpdateId[s] = NoUpdate /\ nextId \in UpdateIds
      /\ activeUpdateId' = [activeUpdateId EXCEPT ![s] = nextId]
      /\ UNCHANGED <<live, lease, log>>
  BY DEF CreateUpdate, StackFree
<1>2. PICK v \in Nat : /\ InsertUpdate(s, k, v, "not_started")
                       /\ k # "preview" => \A u \in NonPreviews(s) : version[u] < v
  <2>1. PICK m \in 0..MaxUpdates :
          /\ IsMaximum(m, VersionsOf(VersionRows(s, k)))
          /\ InsertUpdate(s, k, IF k = "preview" THEN m ELSE m + 1, "not_started")
    BY DEF CreateUpdate
  <2>2. m \in Nat /\ m + 1 \in Nat
    BY BoundsAssumption
  <2>3. CASE k = "preview"
    BY <2>1, <2>2, <2>3
  <2>4. CASE k # "preview"
    <3>1. \A u \in NonPreviews(s) : version[u] <= m
      BY <2>1, <2>4, MaximumBounds DEF VersionsOf, VersionRows
    <3>2. \A u \in NonPreviews(s) : version[u] \in Nat
      BY DEF TypeOK, NonPreviews, UpdatesOf
    <3>3. \A u \in NonPreviews(s) : version[u] < m + 1
      BY <2>2, <3>1, <3>2
    <3> QED
      BY <2>1, <2>2, <2>4, <3>3
  <2> QED
    BY <2>3, <2>4
<1>3. "not_started" \in Active /\ k \in CreateKinds \cup {"import"}
  BY DEF Active
<1>4. RowsSound' /\ OlderHaveEnded' /\ VersionsIncrease'
  BY <1>1, <1>2, <1>3, InsertRows
<1>5. LogOwned'
  BY <1>1, <1>2, InsertKeepsLogOwned DEF LogOwned
<1>6. CheckpointOrder' /\ RepairsBuildOnHead'
  BY <1>1 DEF IInv, CheckpointOrder, RepairsBuildOnHead, IdOf
<1>7. ActiveMatches'
  <2> SUFFICES ASSUME NEW x \in Stacks, NEW u \in UpdateIds
               PROVE  activeUpdateId'[x] = u <=> stackOf'[u] = x /\ status'[u] \in Active
    BY DEF ActiveMatches
  <2>1. u # nextId => stackOf'[u] = stackOf[u] /\ status'[u] = status[u]
    BY <1>2 DEF InsertUpdate, TypeOK
  <2>2. stackOf'[nextId] = s /\ status'[nextId] = "not_started"
    BY <1>1, <1>2 DEF InsertUpdate, TypeOK
  <2>3. stackOf[nextId] = NoStack
    BY <1>1 DEF IInv, RowsSound, TypeOK
  <2>4. x # NoStack /\ u # NoUpdate
    BY NullAssumption DEF UpdateIds
  <2>5. /\ x = s => activeUpdateId'[x] = nextId
        /\ x # s => activeUpdateId'[x] = activeUpdateId[x]
    BY <1>1 DEF TypeOK
  <2>6. \A y \in Stacks, w \in UpdateIds :
          activeUpdateId[y] = w <=> stackOf[w] = y /\ status[w] \in Active
    BY DEF IInv, ActiveMatches
  <2>7. CASE u = nextId
    BY <1>1, <1>3, <2>2, <2>3, <2>4, <2>5, <2>6, <2>7
  <2>8. CASE u # nextId
    BY <1>1, <2>1, <2>4, <2>5, <2>6, <2>8
  <2> QED
    BY <2>7, <2>8
<1> QED
  BY <1>4, <1>5, <1>6, <1>7 DEF IInv

\* startUpdate: a created update gets its lease; the pointer is already its own.
LEMMA StartPreserves ==
  ASSUME TypeOK, IInv, NEW u \in UpdateIds, NEW r \in Replicas, StartUpdate(u, r)
  PROVE  IInv'
<1>1. /\ status[u] = "not_started"
      /\ status' = [status EXCEPT ![u] = "running"]
      /\ lease' = [lease EXCEPT ![u] = Clock(r) + LeaseDuration]
      /\ activeUpdateId' = [activeUpdateId EXCEPT ![stackOf[u]] = u]
      /\ UNCHANGED <<live, fixed, log, nextId>>
  BY DEF StartUpdate
<1>2. Clock(r) + LeaseDuration # NoLease
  BY BoundsAssumption, SkewAssumption, NullAssumption DEF Clock, TypeOK
<1>3. stackOf[u] \in Stacks /\ activeUpdateId[stackOf[u]] = u
  BY <1>1, NullAssumption DEF IInv, RowsSound, ActiveMatches, Active, TypeOK
<1>4. activeUpdateId' = activeUpdateId
  BY <1>1, <1>3 DEF TypeOK
<1>5. RowsSound'
  BY <1>1, <1>2 DEF IInv, RowsSound, fixed, TypeOK
<1>6. OlderHaveEnded'
  BY <1>1 DEF IInv, OlderHaveEnded, fixed, TypeOK, Terminal
<1>7. ActiveMatches'
  BY <1>1, <1>4 DEF IInv, ActiveMatches, fixed, TypeOK, Active
<1>8. LogOwned' /\ VersionsIncrease' /\ CheckpointOrder' /\ RepairsBuildOnHead'
  BY <1>1 DEF IInv, LogOwned, VersionsIncrease, CheckpointOrder, RepairsBuildOnHead,
         NonPreviews, UpdatesOf, IdOf, fixed
<1> QED
  BY <1>5, <1>6, <1>7, <1>8 DEF IInv

\* A checkpoint write: its update is running, so it is its stack's newest.
LEMMA WritePreserves ==
  ASSUME TypeOK, IInv, NEW q \in authed, WriteCheckpoint(q)
  PROVE  IInv'
<1> DEFINE u == q.update
           s == stackOf[u]
<1>1. u \in UpdateIds /\ status[u] = "running" /\ s \in Stacks
  BY NullAssumption DEF TypeOK, Requests, WriteCheckpoint, MayWrite, IInv, RowsSound
<1>2. PICK n \in 0..MaxLog :
        /\ IsMaximum(n, CheckpointVersions(s, u))
        /\ log' = [log EXCEPT ![s] =
             Append(@, [update |-> u, version |-> n + 1, repairs |-> NoCheckpoint])]
  BY DEF WriteCheckpoint
<1> DEFINE c == [update |-> u, version |-> n + 1, repairs |-> NoCheckpoint]
<1>3. c \in Checkpoints /\ n \in Nat
  BY <1>1, BoundsAssumption DEF Checkpoints
<1>4. \A i \in 1..Len(log[s]) :
         \/ log[s][i].update < c.update
         \/ log[s][i].update = c.update /\ log[s][i].version < c.version
  <2> SUFFICES ASSUME NEW i \in 1..Len(log[s])
               PROVE  \/ log[s][i].update < u
                      \/ log[s][i].update = u /\ log[s][i].version < n + 1
    OBVIOUS
  <2>1. log[s][i] \in Checkpoints
    BY <1>1 DEF TypeOK
  <2>2. /\ log[s][i].update \in UpdateIds /\ log[s][i].version \in Nat
        /\ stackOf[log[s][i].update] = s
    BY <1>1, <2>1 DEF Checkpoints, IInv, LogOwned
  <2>3. ~(u < log[s][i].update)
    BY <1>1, <2>2, NullAssumption DEF IInv, OlderHaveEnded, Terminal
  <2>4. log[s][i].update = u => log[s][i].version <= n
    BY <1>2, MaximumBounds DEF CheckpointVersions
  <2> QED
    BY <1>1, <1>3, <2>2, <2>3, <2>4 DEF UpdateIds
<1>5. CheckpointOrder' /\ RepairsBuildOnHead'
  <2> HIDE DEF u, s
  <2>1. c.repairs = NoCheckpoint
    OBVIOUS
  <2> HIDE DEF c
  <2>2. log' = [log EXCEPT ![s] = Append(@, c)]
    BY <1>2 DEF c
  <2> QED
    BY <1>1, <1>3, <1>4, <2>1, <2>2, AppendOrders
<1>6. LogOwned'
  <2> SUFFICES ASSUME NEW x \in Stacks, NEW i \in 1..Len(log'[x])
               PROVE  stackOf'[log'[x][i].update] = x
    BY DEF LogOwned
  <2>1. log \in [Stacks -> Seq(Checkpoints)] /\ stackOf' = stackOf
    BY DEF TypeOK, WriteCheckpoint, fixed
  <2>2. CASE x # s
    BY <1>2, <2>1, <2>2 DEF IInv, LogOwned
  <2>3. CASE x = s
    <3>1. log'[s] = Append(log[s], c)
      BY <1>1, <1>2, <2>1
    <3>2. CASE i \in 1..Len(log[s])
      BY <1>1, <2>1, <2>3, <3>1, <3>2 DEF IInv, LogOwned
    <3>3. CASE i = Len(log[s]) + 1
      BY <1>1, <2>1, <2>3, <3>1, <3>3
    <3> QED
      BY <1>1, <1>3, <2>1, <2>3, <3>1, <3>2, <3>3
  <2> QED
    BY <2>2, <2>3
<1>7. RowsSound' /\ OlderHaveEnded' /\ ActiveMatches' /\ VersionsIncrease'
  BY DEF WriteCheckpoint, IInv, RowsSound, OlderHaveEnded, ActiveMatches,
         VersionsIncrease, NonPreviews, UpdatesOf, fixed
<1> QED
  BY <1>5, <1>6, <1>7 DEF IInv

\* importStack and repairStack: the import is its stack's newest update and
\* ends with the transaction that inserts it.
LEMMA ImportPreserves ==
  ASSUME TypeOK, IInv, NEW s \in Stacks, NEW p \in CheckpointIds \cup {NoCheckpoint},
         ImportStackVersion(s, p),
         p # NoCheckpoint => log[s] # <<>> /\ HeadOf(s) = p
  PROVE  IInv'
<1> DEFINE c == [update |-> nextId, version |-> 1, repairs |-> p]
<1>1. /\ s \in live /\ activeUpdateId[s] = NoUpdate /\ nextId \in UpdateIds
      /\ log' = [log EXCEPT ![s] = Append(@, c)]
      /\ UNCHANGED <<live, lease, activeUpdateId>>
  BY DEF ImportStackVersion, StackFree
<1>2. PICK m \in 0..MaxUpdates :
        /\ IsMaximum(m, VersionsOf(VersionRows(s, "import")))
        /\ InsertUpdate(s, "import", m + 1, "succeeded")
  BY DEF ImportStackVersion
<1>3. m + 1 \in Nat /\ \A u \in NonPreviews(s) : version[u] < m + 1
  <2>1. \A u \in NonPreviews(s) : version[u] <= m
    BY <1>2, MaximumBounds DEF VersionsOf, VersionRows
  <2>2. \A u \in NonPreviews(s) : version[u] \in Nat
    BY DEF TypeOK, NonPreviews, UpdatesOf
  <2> QED
    BY <2>1, <2>2, BoundsAssumption
<1>4. /\ "succeeded" \in Active \cup Terminal /\ "succeeded" \notin Active
      /\ c \in Checkpoints
  BY <1>1 DEF Active, Terminal, Checkpoints
<1>5. RowsSound' /\ OlderHaveEnded' /\ VersionsIncrease'
  <2>1. "import" \in CreateKinds \cup {"import"}
    OBVIOUS
  <2> QED
    BY <1>1, <1>2, <1>3, <1>4, <2>1, InsertRows
<1>6. \A x \in Stacks : \A i \in 1..Len(log[x]) :
         log[x][i].update # nextId /\ stackOf'[log[x][i].update] = x
  BY <1>1, <1>2, InsertKeepsLogOwned
<1>7. LogOwned'
  <2> SUFFICES ASSUME NEW x \in Stacks, NEW i \in 1..Len(log'[x])
               PROVE  stackOf'[log'[x][i].update] = x
    BY DEF LogOwned
  <2>1. log \in [Stacks -> Seq(Checkpoints)] /\ stackOf'[nextId] = s
    BY <1>1, <1>2 DEF TypeOK, InsertUpdate
  <2>2. CASE x # s
    BY <1>1, <1>6, <2>1, <2>2
  <2>3. CASE x = s
    <3>1. log'[s] = Append(log[s], c)
      BY <1>1, <2>1
    <3>2. CASE i \in 1..Len(log[s])
      BY <1>6, <2>1, <2>3, <3>1, <3>2
    <3>3. CASE i = Len(log[s]) + 1
      BY <2>1, <2>3, <3>1, <3>3
    <3> QED
      BY <1>4, <2>1, <2>3, <3>1, <3>2, <3>3
  <2> QED
    BY <2>2, <2>3
<1>8. CheckpointOrder' /\ RepairsBuildOnHead'
  <2>1. \A i \in 1..Len(log[s]) : log[s][i].update < c.update
    <3> SUFFICES ASSUME NEW i \in 1..Len(log[s])
                 PROVE  log[s][i].update < nextId
      OBVIOUS
    <3>1. log[s][i] \in Checkpoints
      BY DEF TypeOK
    <3>2. log[s][i].update \in UpdateIds /\ stackOf[log[s][i].update] = s
      BY <3>1 DEF Checkpoints, IInv, LogOwned
    <3>3. stackOf[log[s][i].update] # NoStack
      BY <3>2, NullAssumption
    <3>4. \A u \in UpdateIds : u >= nextId => stackOf[u] = NoStack
      BY DEF IInv, RowsSound
    <3>5. nextId \in Nat /\ log[s][i].update \in Nat
      BY <3>2 DEF TypeOK, UpdateIds
    <3> QED
      BY <3>2, <3>3, <3>4, <3>5
  <2>2. c.repairs = p
    OBVIOUS
  <2> HIDE DEF c
  <2> QED
    BY <1>1, <1>4, <2>1, <2>2, AppendOrders
<1>9. ActiveMatches'
  <2> SUFFICES ASSUME NEW x \in Stacks, NEW u \in UpdateIds
               PROVE  activeUpdateId'[x] = u <=> stackOf'[u] = x /\ status'[u] \in Active
    BY DEF ActiveMatches
  <2>1. activeUpdateId[x] = u <=> stackOf[u] = x /\ status[u] \in Active
    BY DEF IInv, ActiveMatches
  <2>2. CASE u = nextId
    <3>1. status'[u] = "succeeded" /\ stackOf[u] = NoStack /\ x # NoStack
      BY <1>1, <1>2, <2>2, NullAssumption DEF InsertUpdate, TypeOK, IInv, RowsSound
    <3> QED
      BY <1>1, <1>4, <2>1, <3>1
  <2>3. CASE u # nextId
    <3>1. status'[u] = status[u] /\ stackOf'[u] = stackOf[u]
      BY <1>2, <2>3 DEF InsertUpdate, TypeOK
    <3> QED
      BY <1>1, <2>1, <3>1
  <2> QED
    BY <2>2, <2>3
<1> QED
  BY <1>5, <1>7, <1>8, <1>9 DEF IInv

\* deleteStack: the stack's rows and checkpoints go, the others stay.
LEMMA DeletePreserves ==
  ASSUME TypeOK, IInv, NEW s \in Stacks, NEW force \in BOOLEAN, DeleteStack(s, force)
  PROVE  IInv'
<1>1. \A u \in UpdateIds :
         IF stackOf[u] = s
         THEN status'[u] = "absent" /\ lease'[u] = NoLease /\ stackOf'[u] = NoStack
         ELSE /\ status'[u] = status[u] /\ lease'[u] = lease[u]
              /\ stackOf'[u] = stackOf[u] /\ kind'[u] = kind[u]
              /\ version'[u] = version[u]
  BY DEF DeleteStack
<1>2. /\ live' = live \ {s} /\ nextId' = nextId
      /\ activeUpdateId' = [activeUpdateId EXCEPT ![s] = NoUpdate]
      /\ log' = [log EXCEPT ![s] = <<>>]
  BY DEF DeleteStack
<1>3. RowsSound'
  BY <1>1, <1>2 DEF IInv, RowsSound
<1>4. OlderHaveEnded'
  BY <1>1 DEF IInv, OlderHaveEnded
<1>5. ActiveMatches'
  BY <1>1, <1>2, NullAssumption DEF IInv, ActiveMatches, TypeOK, UpdateIds, Active
<1>6. VersionsIncrease'
  BY <1>1, NullAssumption DEF IInv, VersionsIncrease, NonPreviews, UpdatesOf
<1>7. \A x \in Stacks : log'[x] = IF x = s THEN <<>> ELSE log[x]
  BY <1>2 DEF TypeOK
<1>8. LogOwned'
  <2> SUFFICES ASSUME NEW x \in Stacks, NEW i \in 1..Len(log'[x])
               PROVE  stackOf'[log'[x][i].update] = x
    BY DEF LogOwned
  <2>1. x # s /\ log'[x] = log[x]
    BY <1>7
  <2>2. log[x][i] \in Checkpoints
    BY <2>1 DEF TypeOK
  <2>3. log[x][i].update \in UpdateIds /\ stackOf[log[x][i].update] = x
    BY <2>1, <2>2 DEF Checkpoints, IInv, LogOwned
  <2> QED
    BY <1>1, <2>1, <2>3
<1>9. CheckpointOrder' /\ RepairsBuildOnHead'
  BY <1>7 DEF IInv, CheckpointOrder, RepairsBuildOnHead, IdOf
<1> QED
  BY <1>3, <1>4, <1>5, <1>6, <1>8, <1>9 DEF IInv

\* A GC cycle: the pointers it clears are those of the updates it cancels.
LEMMA GcPreserves ==
  ASSUME TypeOK, IInv, GcFinish
  PROVE  IInv'
<1>1. PICK orphans \in SUBSET UpdateIds :
        /\ \A u \in orphans : status[u] \in Active
        /\ status' = [u \in UpdateIds |-> IF u \in orphans THEN "cancelled" ELSE status[u]]
        /\ lease' = [u \in UpdateIds |-> IF u \in orphans THEN NoLease ELSE lease[u]]
        /\ activeUpdateId' = [x \in Stacks |->
             IF activeUpdateId[x] \in orphans THEN NoUpdate ELSE activeUpdateId[x]]
  BY DEF GcFinish, Expired, Stale, Active
<1>2. UNCHANGED <<live, fixed, log, nextId>>
  BY DEF GcFinish
<1>3. "cancelled" \in Terminal /\ "cancelled" \notin Active
  BY DEF Active, Terminal
<1>4. RowsSound'
  <2>1. \A u \in orphans : u < nextId /\ stackOf[u] # NoStack
    <3> SUFFICES ASSUME NEW u \in orphans
                 PROVE  u < nextId /\ stackOf[u] # NoStack
      OBVIOUS
    <3>1. status[u] # "absent" /\ u \in UpdateIds
      BY <1>1 DEF Active
    <3>2. ~(u >= nextId) /\ stackOf[u] # NoStack
      BY <3>1 DEF IInv, RowsSound
    <3> QED
      BY <3>1, <3>2 DEF UpdateIds, TypeOK
  <2> QED
    BY <1>1, <1>2, <2>1 DEF IInv, RowsSound, fixed, UpdateIds, TypeOK
<1>5. OlderHaveEnded'
  BY <1>1, <1>2, <1>3 DEF IInv, OlderHaveEnded, fixed
<1>6. ActiveMatches'
  BY <1>1, <1>2, <1>3, NullAssumption DEF IInv, ActiveMatches, fixed, TypeOK, UpdateIds
<1>7. LogOwned' /\ VersionsIncrease' /\ CheckpointOrder' /\ RepairsBuildOnHead'
  BY <1>2 DEF IInv, LogOwned, VersionsIncrease, CheckpointOrder, RepairsBuildOnHead,
              NonPreviews, UpdatesOf, IdOf, fixed
<1> QED
  BY <1>4, <1>5, <1>6, <1>7 DEF IInv

\* renewLease: the lease of a running update moves, and stays a lease.
LEMMA RenewPreserves ==
  ASSUME TypeOK, IInv, NEW q \in renewals, RenewWrite(q)
  PROVE  IInv'
<1>1. /\ q.update \in UpdateIds /\ q.expiry # NoLease
      /\ lease[q.update] # NoLease
      /\ lease' = [lease EXCEPT ![q.update] = q.expiry]
      /\ UNCHANGED <<live, activeUpdateId, status, fixed, log, nextId>>
  BY NullAssumption DEF TypeOK, Renewals, RenewWrite
<1>2. RowsSound'
  BY <1>1 DEF IInv, RowsSound, fixed, TypeOK
<1> QED
  BY <1>1, <1>2
  DEF IInv, OlderHaveEnded, ActiveMatches, LogOwned, VersionsIncrease, CheckpointOrder,
      RepairsBuildOnHead, NonPreviews, UpdatesOf, IdOf, fixed

\* The inductive invariant holds in every reachable state.
THEOREM Invariance == Spec => []IInv
<1>1. Init => IInv
  BY NullAssumption
  DEF Init, IInv, RowsSound, OlderHaveEnded, LogOwned, ActiveMatches, VersionsIncrease,
      CheckpointOrder, RepairsBuildOnHead, NonPreviews, UpdatesOf, UpdateIds, Active
<1>2. TypeOK /\ IInv /\ [Next]_vars => IInv'
  <2> SUFFICES ASSUME TypeOK, IInv, [Next]_vars PROVE IInv'
    OBVIOUS
  <2>1. ASSUME NEW s \in Stacks, NEW k \in CreateKinds, CreateUpdate(s, k)
        PROVE  IInv'
    BY <2>1, CreatePreserves
  <2>2. ASSUME NEW u \in UpdateIds, NEW r \in Replicas, StartUpdate(u, r)
        PROVE  IInv'
    BY <2>2, StartPreserves
  <2>3. ASSUME NEW u \in UpdateIds, CancelUpdate(u)
        PROVE  IInv'
    BY <2>3, EndPreserves DEF CancelUpdate, MayCancel, Terminal
  <2>4. ASSUME NEW q \in authed, NEW result \in Terminal, CompleteUpdate(q, result)
        PROVE  IInv'
    <3>1. q.update \in UpdateIds /\ "running" \in Active
      BY DEF TypeOK, Requests, Active
    <3> QED
      BY <2>4, <3>1, EndPreserves DEF CompleteUpdate
  <2>5. ASSUME NEW q \in authed, WriteCheckpoint(q)
        PROVE  IInv'
    BY <2>5, WritePreserves
  <2>6. ASSUME NEW q \in renewals, RenewWrite(q)
        PROVE  IInv'
    BY <2>6, RenewPreserves
  <2>7. ASSUME NEW s \in Stacks, ImportStack(s)
        PROVE  IInv'
    <3>1. NoCheckpoint \in CheckpointIds \cup {NoCheckpoint}
      OBVIOUS
    <3> QED
      BY <2>7, <3>1, ImportPreserves DEF ImportStack
  <2>8. ASSUME NEW q \in repairs, RepairWrite(q)
        PROVE  IInv'
    <3>1. q.stack \in Stacks /\ q.head \in CheckpointIds
      BY DEF TypeOK, Repairs
    <3> QED
      BY <2>8, <3>1, ImportPreserves DEF RepairWrite, HeadUnchanged
  <2>9. ASSUME NEW s \in Stacks, NEW force \in BOOLEAN, DeleteStack(s, force)
        PROVE  IInv'
    BY <2>9, DeletePreserves
  <2>10. ASSUME GcFinish
         PROVE  IInv'
    BY <2>10, GcPreserves
  <2>11. ASSUME UNCHANGED tables
         PROVE  IInv'
    BY <2>11, TablesOnly
  <2>12. ASSUME NEW u, NEW r, NEW op, Authorise(u, r, op) \/ RenewRead(u, r, op)
         PROVE  IInv'
    BY <2>11, <2>12 DEF Authorise, RenewRead
  <2>13. ASSUME NEW x, RepairRead(x) \/ GcScan(x) \/ DropAuthed(x) \/ DropRenewal(x)
                       \/ DropRepair(x) \/ GcCrash \/ Tick
         PROVE  IInv'
    BY <2>11, <2>13 DEF RepairRead, GcScan, DropAuthed, DropRenewal, DropRepair,
                        GcCrash, Tick
  <2>14. CASE UNCHANGED vars
    BY <2>11, <2>14 DEF vars, tables
  <2> QED
    BY <2>1, <2>2, <2>3, <2>4, <2>5, <2>6, <2>7, <2>8, <2>9, <2>10, <2>12, <2>13, <2>14
    DEF Next
<1> QED
  BY <1>1, <1>2, TypeCorrect, PTL DEF Spec

\* Whatever requests are in flight and whenever GC runs, the pointer that
\* guards a stack agrees with the rows of its updates.
THEOREM PointerAgrees == Spec => []ActiveMatches
<1>1. IInv => ActiveMatches
  BY DEF IInv
<1> QED
  BY <1>1, Invariance, PTL

\* export/{version} names one update: versions grow with creation.
THEOREM VersionsUnique == Spec => []VersionsIncrease
<1>1. IInv => VersionsIncrease
  BY DEF IInv
<1> QED
  BY <1>1, Invariance, PTL

\* No late request overwrites the state a newer update has written.
THEOREM NoLateCheckpoint == Spec => []CheckpointOrder
<1>1. IInv => CheckpointOrder
  BY DEF IInv
<1> QED
  BY <1>1, Invariance, PTL

\* A repair never discards a checkpoint it has not seen.
THEOREM RepairSafe == Spec => []RepairsBuildOnHead
<1>1. IInv => RepairsBuildOnHead
  BY DEF IInv
<1> QED
  BY <1>1, Invariance, PTL

-----------------------------------------------------------------------------
(* Terminal rows. *)

\* An insertion writes the row numbered nextId and no other.
LEMMA InsertElsewhere ==
  ASSUME TypeOK, NEW s, NEW k, NEW v, NEW st, InsertUpdate(s, k, v, st)
  PROVE  \A u \in UpdateIds : u # nextId => status'[u] = status[u] /\ kind'[u] = kind[u]
BY DEF TypeOK, InsertUpdate

\* Every step leaves a terminal row as it is or deletes it with its stack, and
\* none brings back the row of a deleted one.
LEMMA TerminalStep ==
  ASSUME TypeOK, IInv, [Next]_vars, NEW u \in UpdateIds
  PROVE  /\ status[u] \in Terminal => status'[u] \in {status[u], "absent"}
         /\ u < nextId /\ status[u] = "absent" => status'[u] = "absent"
<1> DEFINE Kept == /\ status[u] \in Terminal => status'[u] \in {status[u], "absent"}
                   /\ u < nextId /\ status[u] = "absent" => status'[u] = "absent"
<1> SUFFICES Kept
  OBVIOUS
<1>1. u \in Nat /\ nextId \in Nat
  BY DEF UpdateIds, TypeOK
<1>2. ASSUME NEW s, NEW k, NEW v, NEW st, InsertUpdate(s, k, v, st)
      PROVE  Kept
  <2>1. CASE u = nextId
    BY <1>1, <2>1 DEF IInv, RowsSound, Terminal
  <2>2. CASE u # nextId
    BY <1>2, <2>2, InsertElsewhere
  <2> QED
    BY <2>1, <2>2
<1>3. ASSUME NEW w \in UpdateIds, status[w] \in Active, NEW x,
             status' = [status EXCEPT ![w] = x]
      PROVE  Kept
  BY <1>3 DEF TypeOK, Active, Terminal
<1>4. ASSUME NEW s \in Stacks, NEW k \in CreateKinds, CreateUpdate(s, k)
      PROVE  Kept
  BY <1>2, <1>4 DEF CreateUpdate
<1>5. ASSUME NEW w \in UpdateIds, NEW r \in Replicas, StartUpdate(w, r)
      PROVE  Kept
  BY <1>3, <1>5 DEF StartUpdate, Active
<1>6. ASSUME NEW w \in UpdateIds, CancelUpdate(w)
      PROVE  Kept
  BY <1>3, <1>6 DEF CancelUpdate, MayCancel, EndUpdate
<1>7. ASSUME NEW q \in authed, NEW result \in Terminal, CompleteUpdate(q, result)
      PROVE  Kept
  <2>1. q.update \in UpdateIds /\ "running" \in Active
    BY DEF TypeOK, Requests, Active
  <2> QED
    BY <1>3, <1>7, <2>1 DEF CompleteUpdate, EndUpdate
<1>8. ASSUME NEW s, NEW c, ImportStackVersion(s, c)
      PROVE  Kept
  BY <1>2, <1>8 DEF ImportStackVersion
<1>9. ASSUME NEW s \in Stacks, NEW force \in BOOLEAN, DeleteStack(s, force)
      PROVE  Kept
  BY <1>9 DEF DeleteStack
<1>10. ASSUME GcFinish
       PROVE  Kept
  <2>1. status'[u] \in {status[u], "cancelled"}
    BY <1>10 DEF GcFinish
  <2>2. status'[u] # status[u] => status[u] \in Active
    BY <1>10 DEF GcFinish, Expired, Stale, Active
  <2> QED
    BY <2>1, <2>2 DEF Active, Terminal
<1>11. ASSUME status' = status
       PROVE  Kept
  BY <1>11
<1>12. ASSUME NEW x, NEW r, NEW op,
              Authorise(x, r, op) \/ RenewRead(x, r, op) \/ WriteCheckpoint(x)
              \/ RenewWrite(x) \/ RepairRead(x) \/ GcScan(x) \/ DropAuthed(x)
              \/ DropRenewal(x) \/ DropRepair(x) \/ GcCrash \/ Tick
       PROVE  Kept
  BY <1>11, <1>12 DEF Authorise, RenewRead, WriteCheckpoint, RenewWrite, RepairRead,
       GcScan, DropAuthed, DropRenewal, DropRepair, GcCrash, Tick, tables
<1>13. CASE UNCHANGED vars
  BY <1>11, <1>13 DEF vars
<1> HIDE DEF Kept
<1> QED
  BY <1>4, <1>5, <1>6, <1>7, <1>8, <1>9, <1>10, <1>12, <1>13
  DEF Next, ImportStack, RepairWrite

\* An update ends once: whatever is still in flight, a row that reached a
\* terminal status keeps it until its stack is deleted, and stays deleted.
THEOREM EndsOnce == Spec => TerminalForever
<1>1. TypeOK /\ IInv /\ [Next]_vars =>
        [\A u \in UpdateIds :
           /\ status[u] \in Terminal => status'[u] \in {status[u], "absent"}
           /\ u < nextId /\ status[u] = "absent" => status'[u] = "absent"]_vars
  BY TerminalStep
<1> QED
  BY <1>1, TypeCorrect, Invariance, PTL DEF Spec, TerminalForever

-----------------------------------------------------------------------------
(* Leases and garbage collection. *)

\* The clocks of two replicas differ by no more than the grace period.
SkewBounded == \A r, q \in Replicas : Skew[r] - Skew[q] <= Grace

\* A stored or computed expiry is the promised time on some replica's clock,
\* and a cycle's threshold lies the grace period before some replica's clock.
LeaseInv ==
    /\ \A u \in UpdateIds : status[u] = "running" =>
         \E r \in Replicas : lease[u] = promised[u] + Skew[r]
    /\ \A q \in renewals : \E r \in Replicas : q.expiry = q.until + Skew[r]
    /\ gc # IdleGc => \E r \in Replicas : gc.grace <= now + Skew[r] - Grace

\* Time only grows.
LEMMA LeaseStutter ==
  ASSUME TypeOK, LeaseInv, UNCHANGED <<lease, promised, now>>,
         renewals' \subseteq renewals, gc' \in {gc, IdleGc},
         \A u \in UpdateIds : status'[u] = "running" => status[u] = "running"
  PROVE  LeaseInv'
BY DEF LeaseInv, IdleGc

\* The invariant behind the lease: each step keeps every promise stored with
\* the expiry that was computed for it.
LEMMA LeaseStep ==
  ASSUME SkewBounded, TypeOK, IInv, LeaseInv, [Next]_vars
  PROVE  LeaseInv'
<1>1. ASSUME NEW s, NEW k, NEW v, NEW st, nextId \in UpdateIds, st # "running",
             InsertUpdate(s, k, v, st), UNCHANGED <<lease, promised, now, renewals, gc>>
      PROVE  LeaseInv'
  <2>1. \A u \in UpdateIds : status'[u] = "running" => status[u] = "running"
    BY <1>1 DEF TypeOK, InsertUpdate
  <2> QED
    BY <1>1, <2>1, LeaseStutter
<1>2. ASSUME NEW s \in Stacks, NEW k \in CreateKinds, CreateUpdate(s, k)
      PROVE  LeaseInv'
  BY <1>1, <1>2 DEF CreateUpdate, history, inFlight
<1>3. ASSUME NEW w \in UpdateIds, NEW r \in Replicas, StartUpdate(w, r)
      PROVE  LeaseInv'
  <2>1. /\ UNCHANGED <<now, renewals, gc>>
        /\ lease' = [lease EXCEPT ![w] = now + Skew[r] + LeaseDuration]
        /\ promised' = [promised EXCEPT ![w] = now + LeaseDuration]
        /\ status' = [status EXCEPT ![w] = "running"]
    BY <1>3 DEF StartUpdate, Clock, inFlight
  <2>2. now + Skew[r] + LeaseDuration = now + LeaseDuration + Skew[r]
    BY SkewAssumption, BoundsAssumption DEF TypeOK
  <2>3. ASSUME NEW u \in UpdateIds, status'[u] = "running"
        PROVE  \E q \in Replicas : lease'[u] = promised'[u] + Skew[q]
    <3>1. CASE u = w
      BY <2>1, <2>2, <3>1 DEF TypeOK
    <3>2. CASE u # w
      BY <2>1, <2>3, <3>2 DEF TypeOK, LeaseInv
    <3> QED
      BY <3>1, <3>2
  <2> QED
    BY <2>1, <2>3 DEF LeaseInv, IdleGc
<1>4. ASSUME NEW w \in UpdateIds, NEW result \in Terminal, EndUpdate(w, result),
             UNCHANGED <<promised, now, renewals, gc>>
      PROVE  LeaseInv'
  <2>1. \A u \in UpdateIds : status'[u] = "running" =>
          u # w /\ status[u] = "running" /\ lease'[u] = lease[u]
    BY <1>4 DEF TypeOK, EndUpdate, Terminal
  <2> QED
    BY <1>4, <2>1 DEF LeaseInv, IdleGc
<1>5. ASSUME NEW w \in UpdateIds, CancelUpdate(w)
      PROVE  LeaseInv'
  BY <1>4, <1>5 DEF CancelUpdate, Terminal, inFlight
<1>6. ASSUME NEW q \in authed, NEW result \in Terminal, CompleteUpdate(q, result)
      PROVE  LeaseInv'
  <2>1. q.update \in UpdateIds
    BY DEF TypeOK, Requests
  <2> QED
    BY <1>4, <1>6, <2>1 DEF CompleteUpdate
<1>7. ASSUME NEW w \in UpdateIds, NEW r \in Replicas, NEW d \in 1..LeaseDuration,
             RenewRead(w, r, d)
      PROVE  LeaseInv'
  <2>1. now + Skew[r] + d = now + d + Skew[r]
    BY SkewAssumption, BoundsAssumption DEF TypeOK
  <2>2. /\ UNCHANGED <<status, lease, promised, now, gc>>
        /\ renewals' = renewals \cup
             {[update |-> w, expiry |-> now + Skew[r] + d, until |-> now + d]}
    BY <1>7 DEF RenewRead, Clock, tables, history
  <2> QED
    BY <2>1, <2>2 DEF LeaseInv, IdleGc
<1>8. ASSUME NEW q \in renewals, RenewWrite(q)
      PROVE  LeaseInv'
  <2>1. /\ UNCHANGED <<status, now, gc>> /\ renewals' \subseteq renewals
        /\ lease' = [lease EXCEPT ![q.update] = q.expiry]
        /\ promised' = [promised EXCEPT ![q.update] = q.until]
    BY <1>8 DEF RenewWrite
  <2>2. ASSUME NEW u \in UpdateIds, status'[u] = "running"
        PROVE  \E r \in Replicas : lease'[u] = promised'[u] + Skew[r]
    <3>1. CASE u = q.update
      BY <2>1, <3>1 DEF TypeOK, LeaseInv
    <3>2. CASE u # q.update
      BY <2>1, <2>2, <3>2 DEF TypeOK, LeaseInv
    <3> QED
      BY <3>1, <3>2
  <2> QED
    BY <2>1, <2>2 DEF LeaseInv, IdleGc
<1>9. ASSUME NEW s \in Stacks, ImportStack(s)
      PROVE  LeaseInv'
  BY <1>1, <1>9 DEF ImportStack, ImportStackVersion, history
<1>10. ASSUME NEW q \in repairs, RepairWrite(q)
       PROVE  LeaseInv'
  BY <1>1, <1>10 DEF RepairWrite, ImportStackVersion, history
<1>11. ASSUME NEW s \in Stacks, NEW force \in BOOLEAN, DeleteStack(s, force)
       PROVE  LeaseInv'
  <2>1. \A u \in UpdateIds : status'[u] = "running" =>
          status[u] = "running" /\ lease'[u] = lease[u]
    BY <1>11 DEF DeleteStack
  <2>2. UNCHANGED <<promised, now, renewals, gc>>
    BY <1>11 DEF DeleteStack, history, inFlight
  <2> QED
    BY <2>1, <2>2 DEF LeaseInv, IdleGc
<1>12. ASSUME NEW r \in Replicas, GcScan(r)
       PROVE  LeaseInv'
  <2>1. gc'.grace = (now + Skew[r]) - Grace
    BY <1>12 DEF GcScan, GraceThreshold, Clock
  <2>2. UNCHANGED <<status, lease, promised, now, renewals>>
    BY <1>12 DEF GcScan, tables, history, inFlight
  <2>3. gc'.grace <= now + Skew[r] - Grace
    BY <2>1, SkewAssumption, BoundsAssumption DEF TypeOK
  <2> QED
    BY <2>2, <2>3 DEF LeaseInv
<1>13. ASSUME GcFinish
       PROVE  LeaseInv'
  <2>1. \A u \in UpdateIds : status'[u] = "running" =>
          status[u] = "running" /\ lease'[u] = lease[u]
    BY <1>13 DEF GcFinish
  <2>2. UNCHANGED <<promised, now, renewals>> /\ gc' = IdleGc
    BY <1>13 DEF GcFinish, inFlight
  <2> QED
    BY <2>1, <2>2 DEF LeaseInv, IdleGc
<1>14. ASSUME Tick
       PROVE  LeaseInv'
  <2>1. now' = now + 1 /\ UNCHANGED <<status, lease, promised, renewals, gc>>
    BY <1>14 DEF Tick, tables, inFlight, history
  <2>2. ASSUME gc' # IdleGc
        PROVE  \E r \in Replicas : gc'.grace <= now' + Skew[r] - Grace
    <3>1. PICK r \in Replicas : gc.grace <= now + Skew[r] - Grace
      BY <2>1, <2>2 DEF LeaseInv, IdleGc
    <3>2. gc.grace \in Int /\ now \in Int /\ Skew[r] \in Int /\ Grace \in Int
      BY SkewAssumption, BoundsAssumption DEF TypeOK
    <3>3. gc'.grace <= now' + Skew[r] - Grace
      BY <2>1, <3>1, <3>2
    <3> QED
      BY <3>3
  <2> QED
    BY <2>1, <2>2 DEF LeaseInv
<1>15. ASSUME NEW x, NEW r, NEW op,
              Authorise(x, r, op) \/ WriteCheckpoint(x) \/ RepairRead(x)
              \/ DropAuthed(x) \/ DropRepair(x) \/ DropRenewal(x) \/ GcCrash
       PROVE  LeaseInv'
  <2>1. /\ UNCHANGED <<status, lease, promised, now>> /\ renewals' \subseteq renewals
        /\ gc' \in {gc, IdleGc}
    BY <1>15 DEF Authorise, WriteCheckpoint, RepairRead, DropAuthed, DropRepair,
         DropRenewal, GcCrash, tables, history, inFlight
  <2> QED
    BY <2>1, LeaseStutter
<1>16. CASE UNCHANGED vars
  BY <1>16, LeaseStutter DEF vars, history, inFlight
<1> QED
  BY <1>2, <1>3, <1>5, <1>6, <1>7, <1>8, <1>9, <1>10, <1>11, <1>12, <1>13, <1>14,
     <1>15, <1>16 DEF Next

\* A step that ends a cycle cancels a running update only if its threshold
\* passed the stored expiry, hence only after the promise.
LEMMA CollectedLate ==
  ASSUME SkewBounded, TypeOK, IInv, LeaseInv, [Next]_vars,
         gc # IdleGc, gc' = IdleGc, NEW u \in UpdateIds,
         status[u] = "running", status'[u] = "cancelled"
  PROVE  promised[u] < now
<1>1. GcFinish
  <2>1. ~UNCHANGED gc
    OBVIOUS
  <2>2. ~GcCrash
    BY DEF GcCrash, tables
  <2>3. ~\E r \in Replicas : GcScan(r)
    BY DEF GcScan
  <2> QED
    BY <2>1, <2>2, <2>3 DEF Next, CreateUpdate, StartUpdate, CancelUpdate, Authorise,
      CompleteUpdate, WriteCheckpoint, RenewRead, RenewWrite, ImportStack, RepairRead,
      RepairWrite, ImportStackVersion, DeleteStack, DropAuthed, DropRenewal,
      DropRepair, Tick, vars
<1>2. lease[u] # NoLease /\ lease[u] < gc.grace
  BY <1>1 DEF GcFinish, Expired, Stale
<1>3. PICK r \in Replicas : lease[u] = promised[u] + Skew[r]
  BY DEF LeaseInv
<1>4. PICK q \in Replicas : gc.grace <= now + Skew[q] - Grace
  BY DEF LeaseInv
<1>5. /\ promised[u] \in Int /\ now \in Int /\ Grace \in Int /\ gc.grace \in Int
      /\ Skew[r] \in Int /\ Skew[q] \in Int
  BY SkewAssumption, BoundsAssumption DEF TypeOK
<1>6. Skew[q] - Skew[r] <= Grace
  BY DEF SkewBounded
<1> QED
  BY <1>2, <1>3, <1>4, <1>5, <1>6

\* GC cancels no running update before the lease it was last granted has run
\* out in real time, whichever replicas granted and collect, if their clocks
\* differ by no more than the grace period.
THEOREM GraceCoversSkew == SkewBounded => (Spec => LeaseRespected)
<1> SUFFICES ASSUME SkewBounded PROVE Spec => LeaseRespected
  OBVIOUS
<1>1. Init => LeaseInv
  BY DEF Init, LeaseInv
<1>2. TypeOK /\ IInv /\ LeaseInv /\ [Next]_vars => LeaseInv'
  BY LeaseStep
<1>3. TypeOK /\ IInv /\ LeaseInv /\ [Next]_vars =>
        [gc # IdleGc /\ gc' = IdleGc =>
           \A u \in UpdateIds :
              status[u] = "running" /\ status'[u] = "cancelled" =>
                  promised[u] < now]_vars
  BY CollectedLate
<1> QED
  BY <1>1, <1>2, <1>3, TypeCorrect, Invariance, PTL DEF Spec, LeaseRespected

-----------------------------------------------------------------------------
(* Webhook events. *)


\* One update's part of WebhooksTellLife.
Told(st, k, told) ==
    /\ st = "not_started" => told = <<>>
    /\ st = "running" => told = <<"started">>
    /\ st \in {"succeeded", "failed"} /\ k # "import" => told = <<"started", st>>
    /\ st = "cancelled" => told \in {<<>>, <<"cancelled">>, <<"started", "cancelled">>}

\* What the story of the webhooks rests on: a row not yet inserted has told
\* nothing, and no handler writes the status "requested".
ToldInv ==
    /\ \A u \in UpdateIds : Told(status[u], kind[u], webhooks[u])
    /\ \A u \in UpdateIds : u >= nextId => webhooks[u] = <<>>
    /\ \A u \in UpdateIds : status[u] # "requested"

\* Appending to a sequence of one element gives the pair.
LEMMA AppendPair ==
  ASSUME NEW a, NEW b
  PROVE  Append(<<a>>, b) = <<a, b>>
<1> DEFINE S == {a, b}
<1>1. <<a>> \in Seq(S) /\ <<a, b>> \in Seq(S) /\ Append(<<a>>, b) \in Seq(S)
  OBVIOUS
<1>2. Len(<<a>>) = 1 /\ Len(<<a, b>>) = 2
  OBVIOUS
<1>3. Len(Append(<<a>>, b)) = 2
  BY <1>1, <1>2
<1>4. Append(<<a>>, b)[1] = a /\ Append(<<a>>, b)[2] = b
  BY <1>1, <1>2
<1>5. \A i \in 1..Len(Append(<<a>>, b)) : Append(<<a>>, b)[i] = <<a, b>>[i]
  BY <1>2, <1>3, <1>4
<1> HIDE DEF S
<1> QED
  BY <1>1, <1>2, <1>3, <1>5, SeqEqual

\* A step that forgets rows, or leaves statuses and kinds alone.
LEMMA ToldStutter ==
  ASSUME ToldInv, UNCHANGED <<webhooks, nextId>>,
         \A u \in UpdateIds : \/ status'[u] = "absent"
                              \/ status'[u] = status[u] /\ kind'[u] = kind[u]
  PROVE  ToldInv'
<1>1. ASSUME NEW u \in UpdateIds PROVE Told(status'[u], kind'[u], webhooks'[u])
  BY DEF ToldInv, Told
<1>2. \A u \in UpdateIds : status'[u] # "requested"
  BY DEF ToldInv
<1> QED
  BY <1>1, <1>2 DEF ToldInv

\* A row is inserted with nothing told.
LEMMA ToldInsert ==
  ASSUME TypeOK, ToldInv, NEW s \in Stacks, NEW k, NEW v, NEW st,
         st = "not_started" \/ (st = "succeeded" /\ k = "import"),
         nextId \in UpdateIds, InsertUpdate(s, k, v, st), UNCHANGED webhooks
  PROVE  ToldInv'
<1>1. \A u \in UpdateIds : u \in Nat /\ nextId \in Nat
  BY DEF TypeOK, UpdateIds
<1>2. /\ status'[nextId] = st /\ kind'[nextId] = k /\ webhooks'[nextId] = <<>>
      /\ nextId' = nextId + 1
  BY <1>1 DEF TypeOK, InsertUpdate, ToldInv
<1>3. ASSUME NEW u \in UpdateIds PROVE Told(status'[u], kind'[u], webhooks'[u])
  <2>1. CASE u = nextId
    BY <1>2, <2>1 DEF Told
  <2>2. CASE u # nextId
    BY <2>2, InsertElsewhere DEF ToldInv
  <2> QED
    BY <2>1, <2>2
<1>4. \A u \in UpdateIds : status'[u] # "requested"
  BY <1>2, InsertElsewhere DEF ToldInv
<1>5. \A u \in UpdateIds : u >= nextId' => webhooks'[u] = <<>>
  BY <1>1, <1>2 DEF ToldInv
<1> QED
  BY <1>3, <1>4, <1>5 DEF ToldInv

\* Starting or ending an update tells its new status, once.
LEMMA ToldOne ==
  ASSUME TypeOK, IInv, ToldInv, NEW u \in UpdateIds, NEW result, NEW event,
         \/ status[u] = "not_started" /\ result = "running" /\ event = "started"
         \/ status[u] = "running" /\ result \in Terminal /\ event = result
         \/ status[u] = "not_started" /\ result = "cancelled" /\ event = result,
         status' = [status EXCEPT ![u] = result],
         webhooks' = [webhooks EXCEPT ![u] = Append(@, event)],
         UNCHANGED <<kind, nextId>>
  PROVE  ToldInv'
<1>1. u < nextId /\ u \in Nat /\ nextId \in Nat
  BY DEF IInv, RowsSound, TypeOK, UpdateIds
<1>2. /\ status'[u] = result
      /\ webhooks'[u] = Append(webhooks[u], event)
      /\ \A w \in UpdateIds : w # u => status'[w] = status[w] /\ webhooks'[w] = webhooks[w]
  BY DEF TypeOK
<1>3. Told(status'[u], kind'[u], webhooks'[u])
  <2>1. Told(status[u], kind[u], webhooks[u])
    BY DEF ToldInv
  <2>2. CASE status[u] = "not_started"
    <3>0. webhooks[u] = <<>>
      BY <2>1, <2>2 DEF Told
    <3>1. webhooks'[u] = <<event>>
      BY <1>2, <3>0
    <3> QED
      BY <1>2, <2>2, <3>1 DEF Told
  <2>3. CASE status[u] = "running"
    <3>0. webhooks[u] = <<"started">> /\ event = result
      BY <2>1, <2>3 DEF Told
    <3>1. webhooks'[u] = <<"started", result>>
      BY <1>2, <3>0, AppendPair
    <3> QED
      BY <1>2, <2>3, <3>1 DEF Told, Terminal
  <2> QED
    BY <2>2, <2>3
<1>4. \A w \in UpdateIds : Told(status'[w], kind'[w], webhooks'[w])
  BY <1>2, <1>3 DEF ToldInv
<1>5. \A w \in UpdateIds : status'[w] # "requested"
  BY <1>2 DEF ToldInv, Terminal
<1>6. \A w \in UpdateIds : w >= nextId' => webhooks'[w] = <<>>
  BY <1>1, <1>2 DEF ToldInv
<1> QED
  BY <1>4, <1>5, <1>6 DEF ToldInv

\* GC tells of the running updates it cancels and stays silent on the others.
LEMMA ToldGc ==
  ASSUME TypeOK, IInv, ToldInv, GcFinish
  PROVE  ToldInv'
<1>1. UNCHANGED <<kind, nextId>>
  BY DEF GcFinish, fixed
<1>2. ASSUME NEW u \in UpdateIds
      PROVE  /\ Told(status'[u], kind'[u], webhooks'[u])
             /\ status'[u] # "requested"
             /\ u >= nextId' => webhooks'[u] = <<>>
  <2>1. \/ status'[u] = status[u] /\ webhooks'[u] = webhooks[u]
        \/ /\ status[u] = "running" /\ status'[u] = "cancelled"
           /\ webhooks'[u] = Append(webhooks[u], "cancelled")
        \/ /\ status[u] \in {"not_started", "requested"} /\ status'[u] = "cancelled"
           /\ webhooks'[u] = webhooks[u]
    BY DEF GcFinish, Expired, Stale
  <2>2. status[u] # "absent" => ~(u >= nextId)
    BY DEF IInv, RowsSound
  <2>3. Told(status[u], kind[u], webhooks[u]) /\ status[u] # "requested"
    BY DEF ToldInv
  <2>4. CASE status'[u] = status[u] /\ webhooks'[u] = webhooks[u]
    BY <1>1, <2>3, <2>4 DEF ToldInv
  <2>5. CASE /\ status[u] = "running" /\ status'[u] = "cancelled"
             /\ webhooks'[u] = Append(webhooks[u], "cancelled")
    <3>0. webhooks[u] = <<"started">>
      BY <2>3, <2>5 DEF Told
    <3>1. webhooks'[u] = <<"started", "cancelled">>
      BY <2>5, <3>0, AppendPair
    <3> QED
      BY <1>1, <2>2, <2>5, <3>1 DEF Told
  <2>6. CASE /\ status[u] \in {"not_started", "requested"} /\ status'[u] = "cancelled"
             /\ webhooks'[u] = webhooks[u]
    BY <1>1, <2>2, <2>3, <2>6 DEF Told
  <2> QED
    BY <2>1, <2>4, <2>5, <2>6
<1> QED
  BY <1>2 DEF ToldInv

\* Each update's webhook events tell its life once, and end as its row does.
THEOREM WebhooksFaithful == Spec => []WebhooksTellLife
<1>1. Init => ToldInv
  BY DEF Init, ToldInv, Told
<1>2. TypeOK /\ IInv /\ ToldInv /\ [Next]_vars => ToldInv'
  <2> SUFFICES ASSUME TypeOK, IInv, ToldInv, [Next]_vars PROVE ToldInv'
    OBVIOUS
  <2>1. ASSUME NEW s \in Stacks, NEW k \in CreateKinds, CreateUpdate(s, k)
        PROVE  ToldInv'
    <3>1. PICK v : InsertUpdate(s, k, v, "not_started")
      BY <2>1 DEF CreateUpdate
    <3>2. nextId \in UpdateIds /\ UNCHANGED webhooks
      BY <2>1 DEF CreateUpdate, history
    <3> QED
      BY <3>1, <3>2, ToldInsert
  <2>2. ASSUME NEW u \in UpdateIds, NEW r \in Replicas, StartUpdate(u, r)
        PROVE  ToldInv'
    BY <2>2, ToldOne DEF StartUpdate, fixed
  <2>3. ASSUME NEW u \in UpdateIds, CancelUpdate(u)
        PROVE  ToldInv'
    BY <2>3, ToldOne DEF CancelUpdate, MayCancel, EndUpdate, fixed, Active, Terminal,
                         ToldInv
  <2>4. ASSUME NEW q \in authed, NEW result \in Terminal, CompleteUpdate(q, result)
        PROVE  ToldInv'
    <3>1. q.update \in UpdateIds
      BY DEF TypeOK, Requests
    <3> QED
      BY <2>4, <3>1, ToldOne DEF CompleteUpdate, EndUpdate, fixed
  <2>5. ASSUME NEW s \in Stacks, NEW c, ImportStackVersion(s, c)
        PROVE  ToldInv'
    BY <2>5, ToldInsert DEF ImportStackVersion, history
  <2>6. ASSUME NEW s \in Stacks, ImportStack(s)
        PROVE  ToldInv'
    BY <2>5, <2>6 DEF ImportStack
  <2>7. ASSUME NEW q \in repairs, RepairWrite(q)
        PROVE  ToldInv'
    <3>1. q.stack \in Stacks
      BY DEF TypeOK, Repairs
    <3> QED
      BY <2>5, <2>7, <3>1 DEF RepairWrite
  <2>8. ASSUME NEW s \in Stacks, NEW force \in BOOLEAN, DeleteStack(s, force)
        PROVE  ToldInv'
    BY <2>8, ToldStutter DEF DeleteStack, history
  <2>9. ASSUME GcFinish
        PROVE  ToldInv'
    BY <2>9, ToldGc
  <2>10. ASSUME UNCHANGED <<status, kind, webhooks, nextId>>
         PROVE  ToldInv'
    BY <2>10, ToldStutter
  <2>11. ASSUME NEW x, NEW r, NEW op,
                Authorise(x, r, op) \/ RenewRead(x, r, op) \/ WriteCheckpoint(x)
                \/ RenewWrite(x) \/ RepairRead(x) \/ GcScan(x) \/ DropAuthed(x)
                \/ DropRenewal(x) \/ DropRepair(x) \/ GcCrash \/ Tick
         PROVE  ToldInv'
    BY <2>10, <2>11 DEF Authorise, RenewRead, WriteCheckpoint, RenewWrite, RepairRead,
       GcScan, DropAuthed, DropRenewal, DropRepair, GcCrash, Tick, tables, history, fixed
  <2>12. CASE UNCHANGED vars
    BY <2>10, <2>12 DEF vars, history, fixed
  <2> QED
    BY <2>1, <2>2, <2>3, <2>4, <2>6, <2>7, <2>8, <2>9, <2>11, <2>12 DEF Next
<1>3. ToldInv => WebhooksTellLife
  BY DEF ToldInv, Told, WebhooksTellLife
<1> QED
  BY <1>1, <1>2, <1>3, TypeCorrect, Invariance, PTL DEF Spec

-----------------------------------------------------------------------------
(* The refinement of StackLock: the initial states map to a free lock, and  *)
(* every step to a step of the lock or to a stutter.  The mapping is the     *)
(* substitution of Lock in UpdateLifecycle: the pointers are the holders,    *)
(* the updates of a stack's checkpoints its writers.                         *)

\* The two mapped functions, named so that a leaf need not open them.
WritersOf(l) == [i \in 1..Len(l) |-> l[i].update]
Holder == [s \in Stacks |-> activeUpdateId[s]]
Writers == [s \in Stacks |-> WritersOf(log[s])]

\* The writers of a longer list of checkpoints are the writers of the shorter
\* one and the last checkpoint's.
LEMMA AppendWriter ==
  ASSUME NEW l \in Seq(Checkpoints), NEW c \in Checkpoints
  PROVE  WritersOf(Append(l, c)) = Append(WritersOf(l), c.update)
<1>1. /\ Len(Append(l, c)) = Len(l) + 1
      /\ \A i \in 1..Len(l) : Append(l, c)[i] = l[i]
      /\ Append(l, c)[Len(l) + 1] = c
      /\ Len(l) \in Nat
  OBVIOUS
<1>2. WritersOf(l) \in Seq(UpdateIds) /\ Len(WritersOf(l)) = Len(l)
  <2>1. \A i \in 1..Len(l) : l[i].update \in UpdateIds
    <3>1. \A i \in 1..Len(l) : l[i] \in Checkpoints
      OBVIOUS
    <3> QED
      BY <3>1 DEF Checkpoints
  <2>2. WritersOf(l) \in [1..Len(l) -> UpdateIds]
    BY <2>1 DEF WritersOf
  <2> QED
    BY <1>1, <2>2, LenProperties DEF WritersOf
<1>3. c.update \in UpdateIds
  BY DEF Checkpoints
<1>4. /\ Len(Append(WritersOf(l), c.update)) = Len(l) + 1
      /\ \A i \in 1..Len(l) : Append(WritersOf(l), c.update)[i] = l[i].update
      /\ Append(WritersOf(l), c.update)[Len(l) + 1] = c.update
      /\ Append(WritersOf(l), c.update) \in Seq(UpdateIds)
  BY <1>1, <1>2, <1>3 DEF WritersOf
<1>5. DOMAIN Append(WritersOf(l), c.update) = 1..(Len(l) + 1)
  BY <1>4
<1>6. Append(WritersOf(l), c.update)
        = [i \in 1..(Len(l) + 1) |-> Append(WritersOf(l), c.update)[i]]
  BY <1>4, <1>5
<1>7. \A i \in 1..(Len(l) + 1) :
        Append(l, c)[i].update = Append(WritersOf(l), c.update)[i]
  BY <1>1, <1>4
<1> QED
  BY <1>1, <1>6, <1>7 DEF WritersOf

\* A step that leaves pointers, checkpoints and numbering alone is no step of
\* the lock.
LEMMA StutterMaps ==
  ASSUME UNCHANGED <<activeUpdateId, log, nextId>>
  PROVE  UNCHANGED Lock!vars
BY DEF Lock!vars

\* Storing a checkpoint appends one writer to its stack.
LEMMA AppendMaps ==
  ASSUME TypeOK, NEW s \in Stacks, NEW c \in Checkpoints,
         log' = [log EXCEPT ![s] = Append(@, c)]
  PROVE  Writers' = [Writers EXCEPT ![s] = Append(@, c.update)]
<1>1. log \in [Stacks -> Seq(Checkpoints)]
  BY DEF TypeOK
<1>2. \A x \in Stacks : x # s => WritersOf(log'[x]) = WritersOf(log[x])
  BY <1>1
<1>3. WritersOf(log'[s]) = Append(WritersOf(log[s]), c.update)
  BY <1>1, AppendWriter
<1> HIDE DEF WritersOf
<1>4. Writers' = [x \in Stacks |-> WritersOf(log'[x])]
  BY DEF Writers
<1> QED
  BY <1>2, <1>3, <1>4 DEF Writers

\* createUpdate takes the lock.
LEMMA AcquireMaps ==
  ASSUME TypeOK, NEW s \in Stacks, NEW k \in CreateKinds, CreateUpdate(s, k)
  PROVE  Lock!Acquire(s)
<1>1. activeUpdateId[s] = NoUpdate /\ nextId' = nextId + 1
  BY DEF CreateUpdate, StackFree, InsertUpdate
<1>2. activeUpdateId' = [activeUpdateId EXCEPT ![s] = nextId] /\ log' = log
  BY DEF CreateUpdate
<1>3. Holder[s] = NoUpdate /\ Holder' = [Holder EXCEPT ![s] = nextId]
  BY <1>1, <1>2 DEF Holder, TypeOK
<1> QED
  BY <1>1, <1>2, <1>3 DEF Lock!Acquire, Holder

\* A checkpoint that lockUpdateForWrite lets through is the holder's: its update
\* is running, and the pointer agrees with the row (ActiveMatches).
LEMMA WriteMaps ==
  ASSUME TypeOK, IInv, NEW q \in authed, WriteCheckpoint(q),
         NEW s \in Stacks, s = stackOf[q.update]
  PROVE  Lock!Write(s)
<1> DEFINE u == q.update
<1>1. u \in UpdateIds /\ status[u] = "running"
  BY DEF TypeOK, Requests, WriteCheckpoint, MayWrite
<1>2. s \in Stacks /\ activeUpdateId[s] = u
  BY <1>1 DEF IInv, RowsSound, ActiveMatches, TypeOK, Active
<1>3. PICK n \in 0..MaxLog : log' = [log EXCEPT ![s] =
        Append(@, [update |-> u, version |-> n + 1, repairs |-> NoCheckpoint])]
  BY DEF WriteCheckpoint
<1>4. [update |-> u, version |-> n + 1, repairs |-> NoCheckpoint] \in Checkpoints
  BY <1>1, BoundsAssumption DEF Checkpoints
<1>5. Writers' = [Writers EXCEPT ![s] = Append(@, u)]
  BY <1>2, <1>3, <1>4, AppendMaps
<1>6. activeUpdateId' = activeUpdateId /\ nextId' = nextId
  BY DEF WriteCheckpoint
<1>7. Holder[s] = u /\ Holder' = Holder /\ Holder[s] # NoUpdate
  BY <1>1, <1>2, <1>6, NullAssumption DEF Holder, UpdateIds
<1> HIDE DEF u
<1> QED
  BY <1>5, <1>6, <1>7 DEF Lock!Write, Holder, Writers, WritersOf

\* An import or a repair finds the stack free and leaves it free.
LEMMA ImportMaps ==
  ASSUME TypeOK, NEW s \in Stacks, NEW c \in CheckpointIds \cup {NoCheckpoint},
         ImportStackVersion(s, c)
  PROVE  Lock!WriteOnce(s)
<1>1. /\ activeUpdateId[s] = NoUpdate /\ nextId' = nextId + 1
      /\ activeUpdateId' = activeUpdateId /\ nextId \in UpdateIds
  BY DEF ImportStackVersion, StackFree, InsertUpdate
<1>2. [update |-> nextId, version |-> 1, repairs |-> c] \in Checkpoints
  BY <1>1 DEF Checkpoints
<1>3. Writers' = [Writers EXCEPT ![s] = Append(@, nextId)]
  BY <1>2, AppendMaps DEF ImportStackVersion
<1>4. Holder[s] = NoUpdate /\ Holder' = Holder
  BY <1>1 DEF Holder
<1> QED
  BY <1>1, <1>3, <1>4 DEF Lock!WriteOnce, Holder, Writers, WritersOf

\* Completing or cancelling an update frees its stack.
LEMMA EndMaps ==
  ASSUME TypeOK, NEW u \in UpdateIds, NEW result, EndUpdate(u, result),
         UNCHANGED <<log, nextId>>, NEW s \in Stacks, s = stackOf[u]
  PROVE  Lock!Release({s})
<1>1. activeUpdateId' = [activeUpdateId EXCEPT ![stackOf[u]] = NoUpdate]
  BY DEF EndUpdate
<1>2. Holder' = [x \in Stacks |-> IF x \in {s} THEN NoUpdate ELSE Holder[x]]
  BY <1>1 DEF Holder, TypeOK
<1> QED
  BY <1>2 DEF Lock!Release, Holder

\* A GC cycle frees the stacks whose holders it cancelled, together.
LEMMA GcMaps ==
  ASSUME TypeOK, GcFinish
  PROVE  \E S \in SUBSET Stacks : Lock!Release(S)
<1>1. PICK orphans : activeUpdateId' = [s \in Stacks |->
         IF activeUpdateId[s] \in orphans THEN NoUpdate ELSE activeUpdateId[s]]
  BY DEF GcFinish
<1>0. PICK S \in SUBSET Stacks : S = {s \in Stacks : activeUpdateId[s] \in orphans}
  OBVIOUS
<1>2. Holder' = [s \in Stacks |-> IF s \in S THEN NoUpdate ELSE Holder[s]]
  BY <1>0, <1>1 DEF Holder
<1>3. log' = log /\ nextId' = nextId
  BY DEF GcFinish
<1>4. Lock!Release(S)
  BY <1>2, <1>3 DEF Lock!Release, Holder
<1> QED
  BY <1>4

\* Deleting a stack drops its holder and its checkpoints.
LEMMA DeleteMaps ==
  ASSUME TypeOK, NEW s \in Stacks, NEW force \in BOOLEAN, DeleteStack(s, force)
  PROVE  Lock!Delete(s)
<1>1. /\ activeUpdateId' = [activeUpdateId EXCEPT ![s] = NoUpdate]
      /\ log' = [log EXCEPT ![s] = <<>>]
      /\ nextId' = nextId
  BY DEF DeleteStack
<1>2. Holder' = [Holder EXCEPT ![s] = NoUpdate]
  BY <1>1 DEF Holder, TypeOK
<1>3. WritersOf(<<>>) = <<>>
  BY DEF WritersOf
<1>4. Writers' = [Writers EXCEPT ![s] = <<>>]
  BY <1>1, <1>3 DEF Writers, TypeOK
<1> QED
  BY <1>1, <1>2, <1>4 DEF Lock!Delete, Holder, Writers, WritersOf

\* startUpdate sets the pointer it finds: its stack is already held.
LEMMA StartMaps ==
  ASSUME TypeOK, IInv, NEW u \in UpdateIds, NEW r, StartUpdate(u, r)
  PROVE  UNCHANGED Lock!vars
<1>1. stackOf[u] \in Stacks /\ activeUpdateId[stackOf[u]] = u
  BY DEF StartUpdate, IInv, RowsSound, ActiveMatches, TypeOK, Active
<1>2. activeUpdateId' = activeUpdateId
  BY <1>1 DEF StartUpdate, TypeOK
<1> QED
  BY <1>2, StutterMaps DEF StartUpdate

\* Under every interleaving of requests, collections and crashes, the updates
\* of a stack behave as a lock: one holder at a time, taken once, and no
\* checkpoint of anyone else.
THEOREM Refinement == Spec => ImplementsLock
<1>1. Init => Lock!Init
  <2> SUFFICES ASSUME Init PROVE Lock!Init
    OBVIOUS
  <2>1. WritersOf(<<>>) = <<>>
    BY DEF WritersOf
  <2>2. Writers = [s \in Stacks |-> <<>>] /\ Holder = [s \in Stacks |-> NoUpdate]
    BY <2>1 DEF Init, Writers, Holder
  <2> QED
    BY <2>2 DEF Init, Lock!Init, Writers, WritersOf, Holder
<1>2. TypeOK /\ IInv /\ [Next]_vars => [Lock!Next]_(Lock!vars)
  <2> SUFFICES ASSUME TypeOK, IInv, [Next]_vars
               PROVE  Lock!Next \/ UNCHANGED Lock!vars
    OBVIOUS
  <2>1. ASSUME NEW s \in Stacks, NEW k \in CreateKinds, CreateUpdate(s, k)
        PROVE  Lock!Next
    BY <2>1, AcquireMaps DEF Lock!Next
  <2>2. ASSUME NEW u \in UpdateIds, NEW r \in Replicas, StartUpdate(u, r)
        PROVE  UNCHANGED Lock!vars
    BY <2>2, StartMaps
  <2>3. ASSUME NEW u \in UpdateIds, NEW result, EndUpdate(u, result),
               status[u] \in Active, UNCHANGED <<log, nextId>>
        PROVE  Lock!Next
    <3>1. PICK s \in Stacks : s = stackOf[u]
      BY <2>3 DEF IInv, RowsSound, TypeOK, Active
    <3>2. Lock!Release({s}) /\ {s} \in SUBSET Stacks
      BY <2>3, <3>1, EndMaps
    <3> QED
      BY <3>2 DEF Lock!Next
  <2>4. ASSUME NEW u \in UpdateIds, CancelUpdate(u)
        PROVE  Lock!Next
    BY <2>3, <2>4 DEF CancelUpdate, MayCancel
  <2>5. ASSUME NEW q \in authed, NEW result \in Terminal, CompleteUpdate(q, result)
        PROVE  Lock!Next
    <3>1. q.update \in UpdateIds /\ "running" \in Active
      BY DEF TypeOK, Requests, Active
    <3> QED
      BY <2>3, <2>5, <3>1 DEF CompleteUpdate
  <2>6. ASSUME NEW q \in authed, WriteCheckpoint(q)
        PROVE  Lock!Next
    <3>1. PICK s \in Stacks : s = stackOf[q.update]
      BY <2>6 DEF WriteCheckpoint, MayWrite, TypeOK, Requests, IInv, RowsSound
    <3>2. Lock!Write(s)
      BY <2>6, <3>1, WriteMaps
    <3> QED
      BY <3>1, <3>2 DEF Lock!Next
  <2>7. ASSUME NEW s \in Stacks, NEW c \in CheckpointIds \cup {NoCheckpoint},
               ImportStackVersion(s, c)
        PROVE  Lock!Next
    BY <2>7, ImportMaps DEF Lock!Next
  <2>8. ASSUME NEW s \in Stacks, ImportStack(s)
        PROVE  Lock!Next
    BY <2>7, <2>8 DEF ImportStack
  <2>9. ASSUME NEW q \in repairs, RepairWrite(q)
        PROVE  Lock!Next
    <3>1. q.stack \in Stacks /\ q.head \in CheckpointIds
      BY DEF TypeOK, Repairs
    <3> QED
      BY <2>7, <2>9, <3>1 DEF RepairWrite
  <2>10. ASSUME NEW s \in Stacks, NEW force \in BOOLEAN, DeleteStack(s, force)
         PROVE  Lock!Next
    BY <2>10, DeleteMaps DEF Lock!Next
  <2>11. ASSUME GcFinish
         PROVE  Lock!Next
    BY <2>11, GcMaps DEF Lock!Next
  <2>12. ASSUME UNCHANGED <<activeUpdateId, log, nextId>>
         PROVE  UNCHANGED Lock!vars
    BY <2>12, StutterMaps
  <2>13. ASSUME NEW u, NEW r, NEW op, Authorise(u, r, op) \/ RenewRead(u, r, op)
         PROVE  UNCHANGED Lock!vars
    BY <2>12, <2>13 DEF Authorise, RenewRead, tables
  <2>14. ASSUME NEW x, RenewWrite(x) \/ RepairRead(x) \/ GcScan(x) \/ DropAuthed(x)
                       \/ DropRenewal(x) \/ DropRepair(x) \/ GcCrash \/ Tick
         PROVE  UNCHANGED Lock!vars
    BY <2>12, <2>14 DEF RenewWrite, RepairRead, GcScan, DropAuthed, DropRenewal,
                        DropRepair, GcCrash, Tick, tables
  <2>15. CASE UNCHANGED vars
    BY <2>12, <2>15 DEF vars
  <2> QED
    BY <2>1, <2>2, <2>4, <2>5, <2>6, <2>8, <2>9, <2>10, <2>11, <2>13, <2>14, <2>15
    DEF Next
<1> QED
  BY <1>1, <1>2, TypeCorrect, Invariance, PTL DEF Spec, ImplementsLock, Lock!Spec

=============================================================================
