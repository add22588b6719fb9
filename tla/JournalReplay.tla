---------------------------- MODULE JournalReplay ----------------------------
(***************************************************************************)
(* The journal of an update.  The CLI's engine tells of every step it      *)
(* begins and ends by a numbered entry; batches of entries are sent,       *)
(* repeated and perhaps overtake each other; appendJournalEntries stores   *)
(* the new ones and replays all stored entries on the checkpoint the       *)
(* update started from.  The replay edits that snapshot by index and by    *)
(* operation; the properties compare it with what the engine has done.     *)
(*                                                                         *)
(* The engine is external: its actions emit the entries this code expects. *)
(* A resource is reduced to what the replay reads or marks, a generation   *)
(* stands for the rest of its state.                                       *)
(***************************************************************************)
EXTENDS Naturals, Sequences, FiniteSets, Subsequences

CONSTANTS
    Urns, None,
    BaseUrns,         \* the snapshot the update starts from: a sequence of URNs,
    BasePending,      \* the operations an earlier update left pending in it,
    OldDeps, NewDeps, \* what each of them depended on and depends on now,
    Program,          \* the resources the program still asks for
    MaxEntries,       \* bound: entries of the journal
    MaxInFlight       \* bound: batches sent and not yet answered

OperationTypes == {"creating", "updating", "deleting"}

\* The generations of a resource: as the update found it, as a refresh found it,
\* as its step has left it, and with its outputs.
Original == 0
Refreshed == 1
Planned == 2
Registered == 3

Resources ==
    [urn : Urns, gen : Original..Registered, deps : SUBSET Urns, delete : BOOLEAN,
     pendingReplacement : BOOLEAN]

Operations == [op : Nat, type : OperationTypes]
Snapshots == [resources : Seq(Resources), pending : Seq(Operations)]

ASSUME JournalAssumption ==
    /\ BaseUrns \in Seq(Urns) /\ Program \subseteq Urns
    /\ OldDeps \in [Urns -> SUBSET Urns] /\ NewDeps \in [Urns -> SUBSET Urns]
    /\ BasePending \in Seq(Operations)
    /\ None \notin Nat \cup OperationTypes \cup Resources \cup Snapshots
    /\ MaxEntries \in Nat /\ MaxInFlight \in Nat

\* The snapshot that an update starts from is one the CLI can read: each resource
\* once, after what it depends on.
ASSUME BaseAssumption ==
    /\ \A i, j \in DOMAIN BaseUrns : BaseUrns[i] = BaseUrns[j] => i = j
    /\ \A i \in DOMAIN BaseUrns :
          \A d \in OldDeps[BaseUrns[i]] : \E j \in 1..(i - 1) : BaseUrns[j] = d

VARIABLES
    mode,        \* what the engine does: "refresh" or, after it or at once, "update"
    plan,        \* the resources its indexes refer to
    ops,         \* the operations it has numbered
    step,        \* per URN: the engine's step for it, its operation and its progress
    outcome,     \* history: the resources there really are, after each entry,
    underway,    \* and the operations that were begun and not ended
    journal,     \* the entries emitted
    batches,     \* the batches sent and not answered, as intervals of the journal
    sent,        \* how many entries were sent
    stored,      \* table journal_entries: the sequence numbers it holds
    checkpoint   \* the update's newest checkpoint, or None

engine == <<mode, plan, ops, step, outcome, underway, journal>>
vars == <<engine, batches, sent, stored, checkpoint>>

Resource(u, gen, deps) == [urn |-> u, gen |-> gen, deps |-> deps, delete |-> FALSE,
                           pendingReplacement |-> FALSE]

Base == [resources |-> [i \in 1..Len(BaseUrns) |-> Resource(BaseUrns[i], Original, OldDeps[BaseUrns[i]])],
         pending |-> BasePending]

-----------------------------------------------------------------------------
(* applyJournalEntries. *)

\* JournalReplayState: resources of this plan with the operation that made
\* each, and what is to happen to those of the base, by index.
Fresh(base) ==
    [base |-> base, new |-> <<>>, incomplete |-> <<>>, remove |-> {},
     replace |-> [i \in {} |-> None], markDelete |-> {}, markPending |-> {}, refresh |-> FALSE]

IndexOld(i) == IF i = None THEN {} ELSE {i}

\* The newest resource of an operation, if it is still there.
OfOperation(new, op) ==
    {i \in 1..Len(new) :
        new[i].op = op /\ new[i].res # None /\ \A j \in (i + 1)..Len(new) : new[j].op # op}

UpdateNew(new, op, res) ==
    [i \in 1..Len(new) |-> IF i \in OfOperation(new, op) THEN [new[i] EXCEPT !.res = res] ELSE new[i]]

DeleteNew(new, op) ==
    [i \in 1..Len(new) |->
        IF i \in OfOperation(new, op) THEN [new[i] EXCEPT !.res.delete = TRUE] ELSE new[i]]

Completed(s, op) == SelectAt(s.incomplete, {i \in DOMAIN s.incomplete : s.incomplete[i].op # op})

Replacing(s, i, res) == [j \in (DOMAIN s.replace) \cup {i} |-> IF j = i THEN res ELSE s.replace[j]]

ApplyBegin(s, e) ==
    IF e.operation = None THEN s
    ELSE [s EXCEPT !.incomplete = Append(Completed(s, e.op), [op |-> e.op, type |-> e.operation])]

ApplySuccess(s, e) ==
    LET made == IF e.state = None THEN s.new ELSE Append(s.new, [op |-> e.op, res |-> e.state])
        kept == UpdateNew(made, e.removeNew, None) IN
    [s EXCEPT
        !.incomplete = Completed(s, e.op),
        !.new = DeleteNew(kept, e.deleteNew),
        !.remove = @ \cup IndexOld(e.removeOld),
        !.markDelete = @ \cup IndexOld(e.deleteOld),
        !.markPending = @ \cup IndexOld(e.pendingOld)]

ApplyFailure(s, e) == [s EXCEPT !.incomplete = Completed(s, e.op)]

ApplyRefresh(s, e) ==
    [s EXCEPT
        !.incomplete = Completed(s, e.op),
        !.refresh = TRUE,
        !.replace = IF e.removeOld # None /\ e.state # None THEN Replacing(s, e.removeOld, e.state)
                    ELSE @,
        !.remove = IF e.state = None THEN @ \cup IndexOld(e.removeOld) ELSE @,
        !.new = UpdateNew(@, e.removeNew, e.state)]

ApplyOutputs(s, e) ==
    IF e.removeOld # None THEN [s EXCEPT !.replace = Replacing(s, e.removeOld, e.state)]
    ELSE [s EXCEPT !.new = UpdateNew(@, e.removeNew, e.state)]

\* What is left of the base, replaced and marked.
Marked(s, i) ==
    LET r == IF i \in DOMAIN s.replace THEN s.replace[i] ELSE s.base.resources[i] IN
    [r EXCEPT !.pendingReplacement = @ \/ i \in s.markPending, !.delete = @ \/ i \in s.markDelete]

Survivors(s) ==
    LET kept == Positions(Len(s.base.resources), Nat \ s.remove) IN
    [k \in DOMAIN kept |-> Marked(s, kept[k])]

OfPlan(s) ==
    LET made == SelectAt(s.new, {i \in DOMAIN s.new : s.new[i].res # None}) IN
    [k \in DOMAIN made |-> made[k].res]

\* rebuildDependencies: a dependency stays if an earlier resource has its URN.
Pruned(resources) ==
    [k \in 1..Len(resources) |->
        [resources[k] EXCEPT !.deps = @ \cap {resources[j].urn : j \in 1..(k - 1)}]]

\* The plan's resources come first; here last.
MutantOrdered(s) == Survivors(s) \o OfPlan(s)
Ordered(s) == OfPlan(s) \o Survivors(s)

Creating(pending) == SelectAt(pending, {i \in DOMAIN pending : pending[i].type = "creating"})

RebuildFromJournal(s) ==
    [resources |-> IF s.refresh THEN Pruned(Ordered(s)) ELSE Ordered(s),
     pending |-> s.incomplete \o Creating(s.base.pending)]

\* From here on the indexes of the entries refer to what the replay has made so
\* far; here they still refer to the first base.
MutantRebuiltBase(s) == [s EXCEPT !.new = <<>>]
RebuiltBaseState(s) == [Fresh(RebuildFromJournal(s)) EXCEPT !.refresh = s.refresh]

ApplyEntry(s, e) ==
    CASE e.kind = "begin"   -> ApplyBegin(s, e)
      [] e.kind = "success" -> ApplySuccess(s, e)
      [] e.kind = "failure" -> ApplyFailure(s, e)
      [] e.kind = "refresh" -> ApplyRefresh(s, e)
      [] e.kind = "outputs" -> ApplyOutputs(s, e)
      [] e.kind = "rebuilt" -> RebuiltBaseState(s)

ApplyJournalEntries(base, entries) ==
    LET replayed[n \in 0..Len(entries)] ==
            IF n = 0 THEN Fresh(base) ELSE ApplyEntry(replayed[n - 1], entries[n]) IN
    RebuildFromJournal(replayed[Len(entries)])

-----------------------------------------------------------------------------
(* The server. *)

StoredEntries(ids) == SelectAt(journal, ids)

\* Whether a batch makes a checkpoint: some entry of it is not elided.
HasNonElided(b) == \E i \in b[1]..b[2] : ~journal[i].elide

\* The rows there are keep their values.
Inserted(b) == stored \cup (b[1]..b[2])

\* A request for a batch is executed; a copy of it may still be on its way.
AppendJournalEntries(b, again) ==
    /\ b \in batches
    /\ stored' = Inserted(b)
    /\ checkpoint' = IF HasNonElided(b) THEN ApplyJournalEntries(Base, StoredEntries(stored'))
                     ELSE checkpoint
    /\ batches' = IF again THEN batches ELSE batches \ {b}
    /\ UNCHANGED <<engine, sent>>

\* The CLI sends the next batch when the one before it was answered.
SendBatch ==
    /\ sent < Len(journal) /\ 1..sent \subseteq stored
    /\ Cardinality(batches) < MaxInFlight
    /\ batches' = batches \cup {<<sent + 1, Len(journal)>>}
    /\ sent' = Len(journal)
    /\ UNCHANGED <<engine, stored, checkpoint>>

-----------------------------------------------------------------------------
(* The engine. *)

NoEntry == [kind |-> "begin", op |-> 0, operation |-> None, state |-> None, removeOld |-> None,
            removeNew |-> None, deleteOld |-> None, deleteNew |-> None, pendingOld |-> None,
            elide |-> FALSE]

World == outcome[Len(journal)]
Running == underway[Len(journal)]

Emit(entry, world, running) ==
    /\ Len(journal) < MaxEntries
    /\ journal' = Append(journal, entry)
    /\ outcome' = [n \in 0..(Len(journal) + 1) |-> IF n > Len(journal) THEN world ELSE outcome[n]]
    /\ underway' = [n \in 0..(Len(journal) + 1) |-> IF n > Len(journal) THEN running ELSE underway[n]]
    /\ UNCHANGED <<batches, sent, stored, checkpoint>>

InBase(u) == \E i \in 1..Len(plan) : plan[i].urn = u
IndexOf(u) == CHOOSE i \in 1..Len(plan) : plan[i].urn = u
OldOf(u) == {r \in World : r.urn = u /\ r.gen \in {Original, Refreshed}}
NewOf(u) == Resource(u, Planned, NewDeps[u])
NextOp == ops + 1

Idle == [kind |-> "none", op |-> 0, at |-> "todo", again |-> FALSE]
Stopped == \E u \in Urns : step[u].at = "failed"
Ready(u) == \A d \in NewDeps[u] : step[d].at \in {"done", "told"}

\* The steps the engine may choose for a resource of the program.
StepsFor(u) ==
    IF ~InBase(u) THEN {"creating"}
    ELSE {"updating", "replacing", "recreating"} \cup
         (IF plan[IndexOf(u)].deps = NewDeps[u] THEN {"same"} ELSE {})

\* "recreating" deletes first: this step marks, the next one creates.
OperationOf(k) ==
    CASE k = "same" -> None
      [] k = "recreating" -> "deleting"
      [] k = "replacing" -> "creating"
      [] OTHER -> k

BeginStep(u, k) ==
    /\ mode = "update" /\ ~Stopped
    /\ u \in Program /\ step[u].at = "todo" /\ Ready(u) /\ k \in StepsFor(u)
    /\ step' = [step EXCEPT ![u] = [kind |-> k, op |-> NextOp, at |-> "running", again |-> FALSE]]
    /\ ops' = NextOp /\ UNCHANGED <<mode, plan>>
    /\ Emit([NoEntry EXCEPT !.op = NextOp, !.operation = OperationOf(k), !.elide = k = "same"],
            World, IF k = "same" THEN Running ELSE Running \cup {NextOp})

Succeed(u) ==
    LET k == step[u].kind
        i == IndexOf(u)
        success == [NoEntry EXCEPT !.kind = "success", !.op = step[u].op, !.elide = k = "same"]
        rest == World \ OldOf(u)
        marked == {[r EXCEPT !.delete = TRUE] : r \in OldOf(u)}
        gone == {[r EXCEPT !.pendingReplacement = TRUE] : r \in OldOf(u)} IN
    /\ step[u].at = "running" /\ u \in Program
    /\ step' = [step EXCEPT ![u] =
         IF k = "recreating" THEN [@ EXCEPT !.at = "gone"] ELSE [@ EXCEPT !.at = "done"]]
    /\ UNCHANGED <<mode, plan, ops>>
    /\ LET told == Running \ {step[u].op} IN
       CASE k = "same" ->
              Emit([success EXCEPT !.state = plan[i], !.removeOld = i], World, told)
         [] k = "updating" ->
              Emit([success EXCEPT !.state = NewOf(u), !.removeOld = i], rest \cup {NewOf(u)}, told)
         [] k = "replacing" ->
              Emit([success EXCEPT !.state = NewOf(u), !.deleteOld = i],
                   rest \cup marked \cup {NewOf(u)}, told)
         [] k = "recreating" ->
              Emit([success EXCEPT !.pendingOld = i], rest \cup gone, told)
         [] k = "creating" /\ step[u].again ->
              Emit([success EXCEPT !.state = NewOf(u), !.removeOld = i], rest \cup {NewOf(u)}, told)
         [] OTHER ->
              Emit([success EXCEPT !.state = NewOf(u)], World \cup {NewOf(u)}, told)

\* The second half of "recreating".
Recreate(u) ==
    /\ step[u].at = "gone" /\ ~Stopped
    /\ step' = [step EXCEPT ![u] = [kind |-> "creating", op |-> NextOp, at |-> "running",
                                    again |-> TRUE]]
    /\ ops' = NextOp /\ UNCHANGED <<mode, plan>>
    /\ Emit([NoEntry EXCEPT !.op = NextOp, !.operation = "creating"], World, Running \cup {NextOp})

Fail(u) ==
    /\ step[u].at = "running" /\ step[u].kind # "same"
    /\ step' = [step EXCEPT ![u].at = "failed"]
    /\ UNCHANGED <<mode, plan, ops>>
    /\ Emit([NoEntry EXCEPT !.kind = "failure", !.op = step[u].op], World, Running \ {step[u].op})

\* RegisterResourceOutputs of a resource this plan has made.
RegisterOutputs(u) ==
    LET res == [NewOf(u) EXCEPT !.gen = Registered] IN
    /\ mode = "update" /\ step[u].at = "done" /\ u \in Program /\ step[u].kind # "same"
    /\ step' = [step EXCEPT ![u].at = "told"]
    /\ UNCHANGED <<mode, plan, ops>>
    /\ Emit([NoEntry EXCEPT !.kind = "outputs", !.state = res, !.removeNew = step[u].op],
            (World \ {NewOf(u)}) \cup {res}, Running)

\* When the program is through, what it does not ask for any more and what was
\* replaced is deleted, dependents first.
Doomed == {r \in World : r.gen \in {Original, Refreshed} /\ (r.delete \/ r.urn \notin Program)}

BeginDelete(u) ==
    /\ mode = "update" /\ ~Stopped
    /\ \A p \in Program : step[p].at \in {"done", "told", "deleting", "deleted"}
    /\ \E r \in Doomed : r.urn = u
    /\ \A r \in Doomed : u \notin r.deps
    /\ step[u].kind # "deleting"
    /\ step' = [step EXCEPT ![u] = [kind |-> "deleting", op |-> NextOp, at |-> "deleting",
                                    again |-> FALSE]]
    /\ ops' = NextOp /\ UNCHANGED <<mode, plan>>
    /\ Emit([NoEntry EXCEPT !.op = NextOp, !.operation = "deleting"], World, Running \cup {NextOp})

EndDelete(u) ==
    /\ step[u].at = "deleting"
    /\ step' = [step EXCEPT ![u].at = "deleted"]
    /\ UNCHANGED <<mode, plan, ops>>
    /\ Emit([NoEntry EXCEPT !.kind = "success", !.op = step[u].op, !.removeOld = IndexOf(u)],
            World \ OldOf(u), Running \ {step[u].op})

\* A refresh finds a resource changed, or gone; then nothing depends on it.
Refresh(u, exists) ==
    LET res == Resource(u, Refreshed, OldDeps[u])
        others == World \ OldOf(u)
        known == {r.urn : r \in World} \ (IF exists THEN {} ELSE {u})
        prune(r) == [r EXCEPT !.deps = @ \cap known] IN
    /\ mode = "refresh" /\ InBase(u) /\ step[u].at = "todo"
    /\ step' = [step EXCEPT ![u] = [kind |-> "refreshing", op |-> NextOp, at |-> "done",
                                    again |-> FALSE]]
    /\ ops' = NextOp /\ UNCHANGED <<mode, plan>>
    /\ Emit([NoEntry EXCEPT !.kind = "refresh", !.op = NextOp, !.removeOld = IndexOf(u),
                            !.state = IF exists THEN res ELSE None],
            {prune(r) : r \in others \cup (IF exists THEN {res} ELSE {})}, Running)

\* After the refresh the engine plans on what it has found, in the old order.
RebuildBase ==
    LET found(i) == {r \in World : r.urn = BaseUrns[i]}
        still == Positions(Len(BaseUrns), {i \in DOMAIN BaseUrns : found(i) # {}}) IN
    /\ mode = "refresh" /\ ops > 0
    /\ mode' = "update" /\ ops' = ops
    /\ plan' = [k \in DOMAIN still |-> CHOOSE r \in found(still[k]) : TRUE]
    /\ step' = [u \in Urns |-> Idle]
    /\ Emit([NoEntry EXCEPT !.kind = "rebuilt"], World, Running)

-----------------------------------------------------------------------------
Init ==
    /\ mode \in {"update", "refresh"}
    /\ step = [u \in Urns |-> Idle]
    /\ plan = Base.resources /\ ops = 0
    /\ journal = <<>>
    /\ outcome = [n \in {0} |-> {Base.resources[i] : i \in 1..Len(BaseUrns)}]
    /\ underway = [n \in {0} |-> {}]
    /\ batches = {} /\ sent = 0
    /\ stored = {} /\ checkpoint = None

Next ==
    \/ \E u \in Urns : \E k \in StepsFor(u) : BeginStep(u, k)
    \/ \E u \in Urns : Succeed(u)
    \/ \E u \in Urns : Recreate(u)
    \/ \E u \in Urns : Fail(u)
    \/ \E u \in Urns : RegisterOutputs(u)
    \/ \E u \in Urns : BeginDelete(u)
    \/ \E u \in Urns : EndDelete(u)
    \/ \E u \in Urns, exists \in BOOLEAN : Refresh(u, exists)
    \/ RebuildBase
    \/ SendBatch
    \/ \E b \in batches, again \in BOOLEAN : AppendJournalEntries(b, again)

Spec == Init /\ [][Next]_vars

-----------------------------------------------------------------------------
(* Properties. *)

HeadSnapshot == IF checkpoint = None THEN Base ELSE checkpoint
Inherited == {BasePending[i].op : i \in {j \in 1..Len(BasePending) : BasePending[j].type = "creating"}}

\* The head checkpoint holds exactly the resources there really were after the
\* last stored entry, each with its marks; its pending operations are those that
\* were under way and the creations an earlier update has left: whatever was sent
\* twice, came late or made no checkpoint because it was elided.
HeadIsWorld ==
    LET n == Cardinality(stored)
        rs == HeadSnapshot.resources IN
    /\ {rs[k] : k \in 1..Len(rs)} = outcome[n] /\ Len(rs) = Cardinality(outcome[n])
    /\ checkpoint # None =>
         {HeadSnapshot.pending[k].op : k \in 1..Len(HeadSnapshot.pending)} = underway[n] \cup Inherited

\* A snapshot the CLI can read: what a resource depends on comes before it.
\* (A dependent of a replaced resource refers to its successor by the same URN.)
SnapshotOrdered ==
    \A k \in 1..Len(HeadSnapshot.resources) : \A d \in HeadSnapshot.resources[k].deps :
        \E j \in 1..(k - 1) : HeadSnapshot.resources[j].urn = d

=============================================================================
