--------------------------- MODULE CheckpointRepair ---------------------------
(***************************************************************************)
(* repairStack on the contents of a checkpoint: what an import or a client *)
(* left with parents that are not there, or with parents that lead in a    *)
(* circle, is cut loose or removed.  UpdateLifecycle has the transaction   *)
(* around it.                                                              *)
(*                                                                         *)
(* A resource is its URN and its parent's; one that is about to be deleted *)
(* shares its URN with its successor.                                      *)
(***************************************************************************)
EXTENDS Naturals, Sequences, FiniteSets, SequencesExt, Subsequences

CONSTANTS
    ResourceUrns, NoParent,
    MaxResources     \* bound: the resources of a checkpoint

ASSUME RepairAssumption == NoParent \notin ResourceUrns /\ MaxResources \in Nat

VARIABLES
    headResources,    \* deployment.resources of the head checkpoint
    broken            \* history: what the last repair began with

repairVars == <<headResources, broken>>

Resource == [urn : ResourceUrns, parent : ResourceUrns \cup {NoParent}]

UrnsIn(rs) == {rs[i].urn : i \in DOMAIN rs}
Roots(rs) == {rs[i].urn : i \in {j \in DOMAIN rs : rs[j].parent = NoParent}}

\* URNs of a resource whose parent is not there.
Dangling(rs) ==
    {rs[i].urn : i \in {j \in DOMAIN rs : rs[j].parent \notin UrnsIn(rs) \cup {NoParent}}}

\* Whether any parent is there; here the question is not asked.
MutantHasValidEdges(rs) == TRUE
HasValidEdges(rs) == \E i \in DOMAIN rs : rs[i].parent \in UrnsIn(rs)

\* Every resource with the URN of a dangling one loses its parent.
Patched(rs) ==
    [i \in DOMAIN rs |->
        IF rs[i].urn \in Dangling(rs) THEN [rs[i] EXCEPT !.parent = NoParent] ELSE rs[i]]

Children(rs, urns) == {rs[i].urn : i \in {j \in DOMAIN rs : rs[j].parent \in urns}}

\* reachableFrom: as many rounds as there are resources are enough.
ReachableFrom(rs, roots) ==
    LET after[n \in 0..Len(rs)] ==
            IF n = 0 THEN roots ELSE after[n - 1] \cup Children(rs, after[n - 1]) IN
    after[Len(rs)]

\* What is kept: everything, if no parent is there; else what the resources that
\* had no parent to begin with lead to.  (The rounds after the first remove
\* nothing, since a parent that is reached is kept.)
Kept(rs) ==
    IF HasValidEdges(rs) THEN ReachableFrom(Patched(rs), Roots(rs)) ELSE UrnsIn(rs)

Among(rs, urns) == SelectAt(rs, {i \in DOMAIN rs : rs[i].urn \in urns})

Repaired(rs) == Among(Patched(rs), Kept(rs))

\* The mutations it reports.
Mutations(rs) ==
    ({"fix-dangling-parent"} \X Dangling(rs)) \cup ({"remove-orphan"} \X (UrnsIn(rs) \ Kept(rs)))

RepairInit == headResources = <<>> /\ broken = <<>>

\* An import stores any resources.
StoreHead ==
    /\ headResources = <<>> /\ broken = <<>>
    /\ headResources' \in BoundedSeq(Resource, MaxResources)
    /\ UNCHANGED broken

\* A checkpoint that needs nothing is not stored again.
RepairHead ==
    /\ broken = <<>> /\ Mutations(headResources) # {}
    /\ headResources' = Repaired(headResources)
    /\ broken' = headResources

RepairNext == StoreHead \/ RepairHead

RepairSpec == RepairInit /\ [][RepairNext]_repairVars

-----------------------------------------------------------------------------
(* Properties. *)

\* The URNs with a way over parents to a resource that has none, none of those on
\* the way being missing: the reference that the repair is compared with.
Sound(rs) ==
    LET ways == {w \in BoundedSeq(UrnsIn(rs), Cardinality(UrnsIn(rs))) :
                    /\ w # <<>> /\ w[Len(w)] \in Roots(rs)
                    /\ \A k \in 1..(Len(w) - 1) :
                          w[k] \notin Dangling(rs)
                          /\ \E i \in DOMAIN rs : rs[i].urn = w[k] /\ rs[i].parent = w[k + 1]} IN
    {w[1] : w \in ways}

Unique(rs) == Cardinality(UrnsIn(rs)) = Len(rs)

\* A repair costs no more than it must: what has a sound way to a root stays, with
\* its parent and in its place, and where no parent is there at all nothing is
\* removed.  If no two resources share their URN it leaves a forest, in which a
\* second repair finds nothing.
RepairSound ==
    broken # <<>> =>
        /\ LET unharmed == Sound(broken) \ Dangling(broken) IN
           Among(headResources, unharmed) = Among(broken, unharmed)
        /\ (\A i \in DOMAIN broken : broken[i].parent \notin UrnsIn(broken)) =>
              Len(headResources) = Len(broken)
        /\ Unique(broken) =>
              Mutations(headResources) = {} /\ Sound(headResources) = UrnsIn(headResources)

=============================================================================
