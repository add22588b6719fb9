----------------------------- MODULE StackLock -----------------------------
(***************************************************************************)
(* What the update service promises about concurrent updates, without its  *)
(* tables, leases and clocks: a stack is a lock.  At most one update holds *)
(* it, an update takes it at most once in its life, and only the holder    *)
(* writes checkpoints.  Updates are numbered in the order they take a      *)
(* stack.  UpdateLifecycle is checked, and proved, to implement this.      *)
(***************************************************************************)
EXTENDS Naturals, Sequences

CONSTANTS Stacks, NoHolder

VARIABLES
    holder,   \* holder[s]: the update in progress on stack s, or NoHolder
    writers,  \* writers[s]: who wrote each checkpoint of s, oldest first
    next      \* the number the next update gets

vars == <<holder, writers, next>>

Init ==
    /\ holder = [s \in Stacks |-> NoHolder]
    /\ writers = [s \in Stacks |-> <<>>]
    /\ next = 1

\* A fresh update takes a free stack.
Acquire(s) ==
    /\ holder[s] = NoHolder
    /\ holder' = [holder EXCEPT ![s] = next]
    /\ next' = next + 1
    /\ UNCHANGED writers

\* The holder writes a checkpoint.
Write(s) ==
    /\ holder[s] # NoHolder
    /\ writers' = [writers EXCEPT ![s] = Append(@, holder[s])]
    /\ UNCHANGED <<holder, next>>

\* An import takes a free stack, writes and leaves it in one step.
WriteOnce(s) ==
    /\ holder[s] = NoHolder
    /\ writers' = [writers EXCEPT ![s] = Append(@, next)]
    /\ next' = next + 1
    /\ UNCHANGED holder

\* The holders of some stacks let go together (garbage collection frees
\* several stacks in one transaction).
Release(S) ==
    /\ holder' = [s \in Stacks |-> IF s \in S THEN NoHolder ELSE holder[s]]
    /\ UNCHANGED <<writers, next>>

\* A deleted stack loses its holder and its checkpoints.
Delete(s) ==
    /\ holder' = [holder EXCEPT ![s] = NoHolder]
    /\ writers' = [writers EXCEPT ![s] = <<>>]
    /\ UNCHANGED next

Next ==
    \/ \E s \in Stacks : Acquire(s) \/ Write(s) \/ WriteOnce(s) \/ Delete(s)
    \/ \E S \in SUBSET Stacks : Release(S)

Spec == Init /\ [][Next]_vars

=============================================================================
