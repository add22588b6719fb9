------------------------ MODULE JournalReplay_proofs -------------------------
(***************************************************************************)
(* Proofs about JournalReplay, for any base, program, dependencies, number *)
(* of entries and of batches in flight.  The replay state after each entry *)
(* simulates the state of the engine that emitted it, through a refresh,   *)
(* the plan that follows it and an update in which steps run side by side, *)
(* fail and replace; so the checkpoint made from the stored entries tells  *)
(* of the world, however the batches are repeated and delayed.             *)
(***************************************************************************)
EXTENDS JournalReplay, Induction_proofs

-----------------------------------------------------------------------------
(* The invariant. *)

\* The elements of a sequence.
Elements(t) == {t[k] : k \in DOMAIN t}

\* The operations in a sequence of them.
Ops(t) == {t[k].op : k \in DOMAIN t}

\* The resources that replaced those of the base, by index,
Replacements == UNION {[I -> Resources] : I \in SUBSET Nat}

\* the states of a replay
ReplayStates ==
    [base : Snapshots, new : Seq([op : Nat, res : Resources]), incomplete : Seq(Operations),
     remove : SUBSET Nat, replace : Replacements, markDelete : SUBSET Nat,
     markPending : SUBSET Nat, refresh : BOOLEAN]

\* and the states of a step.
StepRecords ==
    [kind : {"none", "same", "updating", "replacing", "recreating", "creating", "deleting",
             "refreshing"},
     op : Nat, again : BOOLEAN,
     at : {"todo", "running", "gone", "failed", "done", "told", "deleting", "deleted"}]

\* The resources of the base that are left, by index, and the URNs made so far.
Kept(s) == {i \in DOMAIN plan : i \notin s.remove}
NewUrns(s) == {s.new[k].res.urn : k \in DOMAIN s.new}

\* A step that is over, unless it failed.
Over == {"done", "told", "deleting", "deleted"}

\* The plan: each resource once, after what it depends on, with no mark.
PlanSound ==
    /\ plan \in Seq(Resources)
    /\ \A i, j \in DOMAIN plan : plan[i].urn = plan[j].urn => i = j
    /\ \A i \in DOMAIN plan :
          /\ plan[i].gen \in {Original, Refreshed} /\ ~plan[i].delete /\ ~plan[i].pendingReplacement
          /\ \A d \in plan[i].deps : \E j \in 1..(i - 1) : plan[j].urn = d

\* Each step has an operation of its own, once it was begun.
StepsSound ==
    /\ mode \in {"refresh", "update"} /\ ops \in Nat /\ step \in [Urns -> StepRecords]
    /\ \A u \in Urns : step[u].op \in 0..ops
    /\ \A u \in Urns : step[u].at = "todo" <=> step[u].op = 0
    /\ \A u, v \in Urns : u # v /\ step[u].op = step[v].op => step[u].op = 0

\* The replay works on the engine's plan and knows the operations under way.
ReplayForm(s) ==
    /\ s \in ReplayStates
    /\ s.base.resources = plan
    /\ Ops(Creating(s.base.pending)) = Inherited
    /\ Ops(s.incomplete) = Running /\ Running \subseteq 1..ops
    /\ \A k \in DOMAIN s.new : s.new[k].op \in 1..ops

\* What a refresh leaves of a resource.
Pruning(s, i) == [Marked(s, i) EXCEPT !.deps = @ \cap {plan[j].urn : j \in Kept(s)}]

\* During a refresh the replay replaces or removes what was found changed or
\* gone.
Refreshing(s) ==
    /\ s.new = <<>> /\ s.incomplete = <<>> /\ s.markDelete = {} /\ s.markPending = {}
    /\ plan = Base.resources
    /\ s.refresh <=> ops > 0
    /\ DOMAIN s.replace \subseteq Kept(s)
    /\ \A i \in DOMAIN s.replace : s.replace[i] = [plan[i] EXCEPT !.gen = Refreshed]
    /\ \A i \in DOMAIN plan : step[plan[i].urn].at = "todo" => i \in Kept(s) \ DOMAIN s.replace
    /\ \A u \in Urns : step[u].at \in {"todo", "done"}
    /\ World = {Pruning(s, i) : i \in Kept(s)}

\* What this plan has made: once each, dependencies first.
NewSound(s) ==
    /\ \A k, l \in DOMAIN s.new : k # l => s.new[k].op # s.new[l].op /\ s.new[k].res.urn # s.new[l].res.urn
    /\ \A k \in DOMAIN s.new :
        LET r == s.new[k].res
            now == step[r.urn] IN
        /\ r.urn \in Program /\ now.at \in Over
        /\ now.at \in {"done", "told"} => s.new[k].op = now.op
        /\ now.at = "done" /\ now.kind # "same" => r = NewOf(r.urn)
        /\ ~r.delete
        /\ r.gen \in {Original, Refreshed} => \A i \in Kept(s) : plan[i].urn # r.urn
        /\ \A d \in r.deps : \E j \in 1..(k - 1) : s.new[j].res.urn = d

\* What the progress of a step says of the replay.
StepSound(s, u) ==
    LET now == step[u] IN
    /\ now.again => now.kind = "creating"
    /\ now.at \notin {"todo", "deleting", "deleted"} => u \in Program
    /\ now.at \in {"done", "told"} => u \in NewUrns(s)
    /\ now.at \in {"running", "gone"} => NewDeps[u] \subseteq NewUrns(s)
    /\ now.at = "gone" => InBase(u)
    /\ now.at = "running" =>
        /\ \A k \in DOMAIN s.new : s.new[k].op # now.op
        /\ now.kind \in {"same", "updating", "replacing", "recreating", "creating"}
        /\ InBase(u) <=> now.kind # "creating" \/ now.again
        /\ now.kind = "same" => now.op \notin Running /\ plan[IndexOf(u)].deps = NewDeps[u]
    /\ now.at = "deleting" => InBase(u) /\ IndexOf(u) \in Kept(s) /\ \A i \in Kept(s) : u \notin plan[i].deps
    /\ now.at \in {"deleting", "deleted"} => Program \subseteq NewUrns(s)

\* What becomes of a resource of the base.
OldSound(s, i) ==
    LET now == step[plan[i].urn] IN
    /\ now.at \in {"todo", "running", "gone", "failed"} => i \in Kept(s) /\ i \notin s.markDelete
    /\ now.at = "todo" \/ (now.at = "running" /\ ~now.again) => i \notin s.markPending
    /\ i \in Kept(s) =>
        /\ plan[i].urn \in NewUrns(s) => i \in s.markDelete
        /\ plan[i].deps \subseteq NewUrns(s) \cup {plan[j].urn : j \in Kept(s) \cap 1..(i - 1)}

\* During an update the world is what is left, with its marks, and what was
\* made.
Updating(s) ==
    /\ DOMAIN s.replace = {}
    /\ NewSound(s)
    /\ \A u \in Urns : StepSound(s, u)
    /\ \A i \in DOMAIN plan : OldSound(s, i)
    /\ World = {Marked(s, i) : i \in Kept(s)} \cup {s.new[k].res : k \in DOMAIN s.new}

\* The simulation: the replay state tells of the engine's state.
Sim(s) == PlanSound /\ StepsSound /\ ReplayForm(s)
          /\ (mode = "refresh" => Refreshing(s)) /\ (mode = "update" => Updating(s))

\* Each resource comes after what it depends on.
Readable(rs) == \A k \in DOMAIN rs : \A d \in rs[k].deps : \E j \in 1..(k - 1) : rs[j].urn = d

\* What the snapshot after an entry tells is how the world was then.
Told(s, n) ==
    LET snapshot == RebuildFromJournal(s) IN
    /\ snapshot \in Snapshots
    /\ Elements(snapshot.resources) = outcome[n] /\ Len(snapshot.resources) = Cardinality(outcome[n])
    /\ Readable(snapshot.resources)
    /\ Ops(snapshot.pending) = underway[n] \cup Inherited

\* R are the states of the replay of the journal.
Replays(R) ==
    /\ R[0] = Fresh(Base)
    /\ \A n \in 1..Len(journal) : R[n] = ApplyEntry(R[n - 1], journal[n])

\* The rows are the first h entries; the newest checkpoint tells of the first m,
\* and what was stored after them was elided.
Delivered(R) ==
    \E h \in 0..sent, m \in 0..sent :
        /\ stored = 1..h /\ m <= h
        /\ \A b \in batches : b[1] \in 1..(h + 1) /\ b[2] \in Nat /\ b[2] <= sent
        /\ \A n \in (m + 1)..h : journal[n].elide
        /\ checkpoint = IF m = 0 THEN None ELSE RebuildFromJournal(R[m])

\* An elided entry changes nothing.
Recorded ==
    /\ outcome[0] = Elements(Base.resources)
    /\ \A n \in 1..Len(journal) :
          journal[n].elide => outcome[n] = outcome[n - 1] /\ underway[n] = underway[n - 1]

-----------------------------------------------------------------------------
(* Sequences. *)

\* The positions selected are those asked for, in increasing order.
LEMMA PositionsOrder ==
  ASSUME NEW n \in Nat, NEW I
  PROVE  /\ Positions(n, I) \in Seq(1..n)
         /\ {Positions(n, I)[k] : k \in DOMAIN Positions(n, I)} = I \cap 1..n
         /\ \A k, l \in DOMAIN Positions(n, I) : k < l => Positions(n, I)[k] < Positions(n, I)[l]
<1> DEFINE s == [i \in 1..n |-> i]
<1>1. s \in Seq(1..n) /\ Len(s) = n /\ DOMAIN s = 1..n
  OBVIOUS
<1>2. Positions(n, I) = SelectAt(s, I)
  BY DEF Positions
<1>3. \A i \in 1..n : s[i] = i
  OBVIOUS
<1> HIDE DEF s
<1>4. {SelectAt(s, I)[k] : k \in DOMAIN SelectAt(s, I)} = I \cap 1..n
  <2>1. {s[i] : i \in I \cap DOMAIN s} = I \cap 1..n
    BY <1>1, <1>3
  <2>2. {SelectAt(s, I)[k] : k \in DOMAIN SelectAt(s, I)} = {s[i] : i \in I \cap DOMAIN s}
    BY <1>1, SelectAtElements
  <2> QED
    BY <2>1, <2>2
<1>5. PICK p : Picks(p, s, I, 1..n) /\ p[Len(s)] = SelectAt(s, I)
  BY <1>1, SelectAtPicks
<1> DEFINE Upward(t, m) == /\ \A k \in DOMAIN t : t[k] <= m
                           /\ \A k, l \in DOMAIN t : k < l => t[k] < t[l]
           P == {m \in Nat : m <= n => Upward(p[m], m)}
<1>6. 0 \in P
  <2>1. p[0] = <<>>
    BY <1>5 DEF Picks
  <2> QED
    BY <2>1
<1>7. ASSUME NEW m \in Nat, m \in P
      PROVE  m + 1 \in P
  <2>1. SUFFICES ASSUME m + 1 <= n PROVE Upward(p[m + 1], m + 1)
    OBVIOUS
  <2> DEFINE t == p[m]
  <2>2. Upward(t, m)
    BY <1>7, <2>1
  <2>3. m \in 0..n /\ m + 1 \in 1..n /\ (m + 1) - 1 = m
    BY <2>1
  <2>4. t \in Seq(1..n)
    BY <1>1, <1>5, <2>3 DEF Picks
  <2>5. p[m + 1] = IF m + 1 \in I THEN Append(t, m + 1) ELSE t
    BY <1>1, <1>3, <1>5, <2>3 DEF Picks
  <2> HIDE DEF t
  <2>6. DOMAIN t = 1..Len(t) /\ Len(t) \in Nat /\ \A k \in DOMAIN t : t[k] \in Nat
    BY <2>4, LenProperties, ElementOfSeq
  <2>7. CASE m + 1 \in I
    <3>1. /\ DOMAIN Append(t, m + 1) = 1..(Len(t) + 1) /\ Append(t, m + 1)[Len(t) + 1] = m + 1
          /\ \A k \in 1..Len(t) : Append(t, m + 1)[k] = t[k]
      BY <2>3, <2>4, AppendProperties, LenProperties
    <3> DEFINE a == Append(t, m + 1)
    <3>2. DOMAIN a = 1..(Len(t) + 1) /\ a[Len(t) + 1] = m + 1 /\ \A k \in 1..Len(t) : a[k] = t[k]
      BY <3>1
    <3> HIDE DEF a
    <3>3. \A k \in 1..Len(t) : a[k] \in Nat /\ a[k] <= m
      BY <2>2, <2>6, <3>2
    <3>4. \A k, l \in 1..Len(t) : k < l => a[k] < a[l]
      BY <2>2, <2>6, <3>2
    <3>5. Upward(a, m + 1)
      BY <2>6, <3>2, <3>3, <3>4
    <3> QED
      BY <2>5, <2>7, <3>5 DEF a
  <2>8. CASE m + 1 \notin I
    <3>1. Upward(t, m + 1)
      BY <2>2, <2>6
    <3> QED
      BY <2>5, <2>8, <3>1
  <2> QED
    BY <2>7, <2>8
<1>8. Upward(p[n], n)
  <2> HIDE DEF P
  <2>1. n \in P
    BY <1>6, <1>7, InductiveSet
  <2> QED
    BY <2>1 DEF P
<1> QED
  BY <1>1, <1>2, <1>4, <1>5, <1>8, SelectAtType

\* Selecting the first elements.
LEMMA SelectAtPrefix ==
  ASSUME NEW S, NEW s \in Seq(S), NEW m \in 0..Len(s)
  PROVE  SelectAt(s, 1..m) = [i \in 1..m |-> s[i]]
<1>1. Len(s) \in Nat /\ \A i \in 1..Len(s) : s[i] \in S
  BY LenProperties, ElementOfSeq
<1>2. PICK p : Picks(p, s, 1..m, S) /\ p[Len(s)] = SelectAt(s, 1..m)
  BY SelectAtPicks
<1>3. p[Len(s)] = p[m]
  <2>1. m \in Nat /\ m <= Len(s) /\ Len(s) \in Nat /\ Len(s) <= Len(s) /\ \A i \in (m + 1)..Len(s) : i \notin 1..m
    BY <1>1
  <2> QED
    BY <1>2, <2>1, PicksStop
<1> DEFINE First(n) == [i \in 1..n |-> s[i]]
           P == {n \in Nat : n <= m => p[n] = First(n)}
<1>4. 0 \in P
  <2>1. p[0] = <<>>
    BY <1>2 DEF Picks
  <2> QED
    BY <2>1
<1>5. ASSUME NEW n \in Nat, n \in P
      PROVE  n + 1 \in P
  <2>1. SUFFICES ASSUME n + 1 <= m PROVE p[n + 1] = First(n + 1)
    OBVIOUS
  <2>2. n + 1 \in 1..m /\ n + 1 \in 1..Len(s) /\ (n + 1) - 1 = n /\ p[n] = First(n)
    BY <1>1, <1>5, <2>1
  <2>3. p[n + 1] = Append(First(n), s[n + 1])
    BY <1>2, <2>2 DEF Picks
  <2>4. First(n) \in Seq(S) /\ Len(First(n)) = n
    BY <1>1, <2>2
  <2>5. Append(First(n), s[n + 1]) = First(n + 1)
    <3>1. s[n + 1] \in S
      BY <1>1, <2>2
    <3> DEFINE f == First(n)
               e == s[n + 1]
               a == Append(f, e)
               g == First(n + 1)
    <3>2. /\ a \in Seq(S) /\ Len(a) = n + 1 /\ a[n + 1] = e /\ \A i \in 1..n : a[i] = f[i]
      <4> HIDE DEF f, e
      <4> QED
        BY <2>4, <3>1, AppendProperties DEF f, e
    <3>3. g \in Seq(S) /\ Len(g) = n + 1
      BY <1>1, <2>2
    <3>4. \A i \in 1..(n + 1) : a[i] = g[i]
      <4>1. \A i \in 1..n : f[i] = s[i] /\ g[i] = s[i]
        OBVIOUS
      <4>2. g[n + 1] = s[n + 1]
        BY <2>2
      <4> HIDE DEF a, f, g
      <4> QED
        BY <3>2, <4>1, <4>2 DEF e
    <3> HIDE DEF a, g
    <3>5. a = g
      BY <3>2, <3>3, <3>4, SeqEqual
    <3> QED
      BY <3>5 DEF a, g
  <2> QED
    BY <2>3, <2>5
<1>6. m \in P
  <2> HIDE DEF P
  <2> QED
    BY <1>4, <1>5, InductiveSet
<1> QED
  BY <1>2, <1>3, <1>6

\* A sequence without repetitions has as many elements as it is long.
LEMMA DistinctCount ==
  ASSUME NEW S, NEW s \in Seq(S), \A k, l \in DOMAIN s : s[k] = s[l] => k = l
  PROVE  Cardinality({s[k] : k \in DOMAIN s}) = Len(s)
<1> DEFINE T == {s[k] : k \in DOMAIN s}
<1>1. Len(s) \in Nat /\ DOMAIN s = 1..Len(s)
  BY LenProperties
<1>2. [k \in 1..Len(s) |-> s[k]] \in Bijection(1..Len(s), T)
  BY <1>1 DEF Bijection, Injection, Surjection, IsInjective
<1>3. ExistsBijection(1..Len(s), T)
  BY <1>2 DEF ExistsBijection
<1> QED
  BY <1>1, <1>3, FS_CountingElements

-----------------------------------------------------------------------------
(* The replay's operators. *)

\* Two sequences, one after the other.
LEMMA Joined ==
  ASSUME NEW S, NEW u \in Seq(S), NEW v \in Seq(S)
  PROVE  /\ u \o v \in Seq(S) /\ Len(u \o v) = Len(u) + Len(v)
         /\ Len(u) \in Nat /\ Len(v) \in Nat /\ DOMAIN u = 1..Len(u) /\ DOMAIN v = 1..Len(v)
         /\ DOMAIN (u \o v) = 1..(Len(u) + Len(v))
         /\ \A k \in 1..Len(u) : (u \o v)[k] = u[k]
         /\ \A k \in 1..Len(v) : (u \o v)[Len(u) + k] = v[k]
         /\ \A k \in DOMAIN (u \o v) : k \in 1..Len(u) \/ \E l \in 1..Len(v) : k = Len(u) + l
<1>1. Len(u) \in Nat /\ Len(v) \in Nat /\ DOMAIN u = 1..Len(u) /\ DOMAIN v = 1..Len(v)
  BY LenProperties
<1>2. u \o v \in Seq(S) /\ Len(u \o v) = Len(u) + Len(v)
  BY ConcatProperties
<1>3. DOMAIN (u \o v) = 1..(Len(u) + Len(v))
  BY <1>2, LenProperties
<1>4. \A k \in 1..Len(u) : (u \o v)[k] = u[k]
  BY <1>1, ConcatProperties
<1>5. \A k \in 1..Len(v) : (u \o v)[Len(u) + k] = v[k]
  <2>1. \A i \in 1..(Len(u) + Len(v)) : (u \o v)[i] = IF i <= Len(u) THEN u[i] ELSE v[i - Len(u)]
    BY ConcatProperties
  <2> DEFINE w == u \o v
  <2> HIDE DEF w
  <2>2. ASSUME NEW k \in 1..Len(v)
        PROVE  /\ Len(u) + k \in 1..(Len(u) + Len(v)) /\ ~(Len(u) + k <= Len(u))
               /\ (Len(u) + k) - Len(u) = k
    BY <1>1
  <2> QED
    BY <2>1, <2>2
<1>6. ASSUME NEW k \in 1..(Len(u) + Len(v))
      PROVE  k \in 1..Len(u) \/ \E l \in 1..Len(v) : k = Len(u) + l
  <2>1. CASE k <= Len(u)
    BY <1>1, <2>1
  <2>2. CASE ~(k <= Len(u))
    <3>1. k - Len(u) \in 1..Len(v) /\ k = Len(u) + (k - Len(u))
      BY <1>1, <2>2
    <3> QED
      BY <3>1
  <2> QED
    BY <2>1, <2>2
<1> QED
  BY <1>1, <1>2, <1>3, <1>4, <1>5, <1>6

\* What is left in a list of operations.
LEMMA CompletedOps ==
  ASSUME NEW s, s.incomplete \in Seq(Operations), NEW op
  PROVE  Completed(s, op) \in Seq(Operations) /\ Ops(Completed(s, op)) = Ops(s.incomplete) \ {op}
<1> DEFINE t == s.incomplete
           I == {i \in DOMAIN t : t[i].op # op}
           c == SelectAt(t, I)
<1>1. c \in Seq(Operations)
  BY SelectAtType
<1>2. {c[k] : k \in DOMAIN c} = {t[i] : i \in I \cap DOMAIN t}
  BY SelectAtElements
<1>3. Completed(s, op) = c
  BY DEF Completed
<1> HIDE DEF c
<1>4. Ops(c) = {t[i].op : i \in I \cap DOMAIN t}
  <2>1. Ops(c) = {x.op : x \in {c[k] : k \in DOMAIN c}}
    BY DEF Ops
  <2>2. {t[i].op : i \in I \cap DOMAIN t} = {x.op : x \in {t[i] : i \in I \cap DOMAIN t}}
    OBVIOUS
  <2> QED
    BY <1>2, <2>1, <2>2
<1>5. {t[i].op : i \in I \cap DOMAIN t} = Ops(t) \ {op}
  BY DEF Ops
<1> QED
  BY <1>1, <1>3, <1>4, <1>5

\* The creations in a list of operations.
LEMMA CreatingElements ==
  ASSUME NEW t \in Seq(Operations)
  PROVE  /\ Creating(t) \in Seq(Operations)
         /\ Elements(Creating(t)) = {x \in Elements(t) : x.type = "creating"}
         /\ Ops(Creating(t)) = {x.op : x \in {y \in Elements(t) : y.type = "creating"}}
<1> DEFINE I == {i \in DOMAIN t : t[i].type = "creating"}
           c == SelectAt(t, I)
<1>1. c \in Seq(Operations)
  BY SelectAtType
<1>2. {c[k] : k \in DOMAIN c} = {t[i] : i \in I \cap DOMAIN t}
  BY SelectAtElements
<1>3. Creating(t) = c
  BY DEF Creating
<1> HIDE DEF c
<1>4. Elements(c) = {x \in Elements(t) : x.type = "creating"}
  <2>1. {t[i] : i \in I \cap DOMAIN t} = {x \in Elements(t) : x.type = "creating"}
    BY DEF Elements
  <2> QED
    BY <1>2, <2>1 DEF Elements
<1>5. Ops(c) = {x.op : x \in Elements(c)}
  BY DEF Ops, Elements
<1> QED
  BY <1>1, <1>3, <1>4, <1>5

\* The operations an earlier update has left to be created.
LEMMA InheritedOps ==
  /\ BasePending \in Seq(Operations)
  /\ Inherited = Ops(Creating(BasePending))
<1>1. BasePending \in Seq(Operations)
  BY JournalAssumption
<1>2. Ops(Creating(BasePending)) = {x.op : x \in {y \in Elements(BasePending) : y.type = "creating"}}
  BY <1>1, CreatingElements
<1>3. DOMAIN BasePending = 1..Len(BasePending)
  BY <1>1, LenProperties
<1> QED
  BY <1>1, <1>2, <1>3 DEF Inherited, Elements

\* The resources of the base that are left.
LEMMA SurvivorsAt ==
  ASSUME NEW s, s.base.resources \in Seq(Resources), NEW L, L = Len(s.base.resources)
  PROVE  /\ Positions(L, Nat \ s.remove) \in Seq(1..L)
         /\ Survivors(s) = [k \in DOMAIN Positions(L, Nat \ s.remove) |->
                               Marked(s, Positions(L, Nat \ s.remove)[k])]
         /\ {Positions(L, Nat \ s.remove)[k] : k \in DOMAIN Positions(L, Nat \ s.remove)} =
              {i \in 1..L : i \notin s.remove}
         /\ \A k, l \in DOMAIN Positions(L, Nat \ s.remove) :
               k < l => Positions(L, Nat \ s.remove)[k] < Positions(L, Nat \ s.remove)[l]
<1> DEFINE q == Positions(L, Nat \ s.remove)
<1>1. L \in Nat
  BY LenProperties
<1>2. /\ q \in Seq(1..L)
      /\ {q[k] : k \in DOMAIN q} = (Nat \ s.remove) \cap 1..L
      /\ \A k, l \in DOMAIN q : k < l => q[k] < q[l]
  BY <1>1, PositionsOrder
<1>3. Survivors(s) = [k \in DOMAIN q |-> Marked(s, q[k])]
  BY DEF Survivors
<1>4. (Nat \ s.remove) \cap 1..L = {i \in 1..L : i \notin s.remove}
  BY <1>1
<1>5. {q[k] : k \in DOMAIN q} = {i \in 1..L : i \notin s.remove}
  BY <1>2, <1>4, Zenon
<1> QED
  BY <1>2, <1>3, <1>5, Zenon

\* The same, without naming the indexes.
LEMMA SurvivorsAre ==
  ASSUME NEW s, s.base.resources \in Seq(Resources), NEW L, L = Len(s.base.resources)
  PROVE  \E q : /\ q \in Seq(1..L) /\ Survivors(s) = [k \in DOMAIN q |-> Marked(s, q[k])]
                /\ {q[k] : k \in DOMAIN q} = {i \in 1..L : i \notin s.remove}
                /\ \A k, l \in DOMAIN q : k < l => q[k] < q[l]
BY SurvivorsAt, Zenon

\* The resources of the plan, if none of them was dropped.
LEMMA OfPlanIs ==
  ASSUME NEW s, s.new \in Seq([op : Nat, res : Resources])
  PROVE  OfPlan(s) = [k \in DOMAIN s.new |-> s.new[k].res]
<1> DEFINE I == {i \in DOMAIN s.new : s.new[i].res # None}
<1>1. 1..Len(s.new) \subseteq I
  <2>1. \A i \in 1..Len(s.new) : i \in DOMAIN s.new /\ s.new[i] \in [op : Nat, res : Resources]
    BY LenProperties, ElementOfSeq
  <2> QED
    BY <2>1, JournalAssumption
<1>2. SelectAt(s.new, I) = s.new
  BY <1>1, SelectAtAll
<1> QED
  BY <1>2 DEF OfPlan

\* Pruning a snapshot that can be read.
LEMMA PrunedReadable ==
  ASSUME NEW rs \in Seq(Resources), Readable(rs)
  PROVE  Pruned(rs) = rs
<1>1. Len(rs) \in Nat /\ DOMAIN rs = 1..Len(rs) /\ \A k \in 1..Len(rs) : rs[k] \in Resources
  BY LenProperties, ElementOfSeq
<1>2. ASSUME NEW k \in 1..Len(rs)
      PROVE  [rs[k] EXCEPT !.deps = @ \cap {rs[j].urn : j \in 1..(k - 1)}] = rs[k]
  <2>1. rs[k].deps \cap {rs[j].urn : j \in 1..(k - 1)} = rs[k].deps
    BY <1>1 DEF Readable
  <2>2. rs[k] \in Resources
    BY <1>1
  <2> QED
    BY <2>1, <2>2 DEF Resources
<1>3. Pruned(rs) = [k \in 1..Len(rs) |-> rs[k]]
  BY <1>2 DEF Pruned
<1> QED
  BY <1>1, <1>3

\* A replay state with some of its parts changed.
Edited(s, new, incomplete, remove, markDelete, markPending) ==
    [s EXCEPT !.new = new, !.incomplete = incomplete, !.remove = remove,
              !.markDelete = markDelete, !.markPending = markPending]

\* What an entry makes of a replay state, kind by kind: the beginning of an
\* operation,
LEMMA BeginEffect ==
  ASSUME NEW s \in ReplayStates, NEW e, e.kind = "begin", e.operation # None
  PROVE  ApplyEntry(s, e) =
           Edited(s, s.new, Append(Completed(s, e.op), [op |-> e.op, type |-> e.operation]),
                  s.remove, s.markDelete, s.markPending)
<1> DEFINE c == Append(Completed(s, e.op), [op |-> e.op, type |-> e.operation])
<1>1. ApplyEntry(s, e) = ApplyBegin(s, e)
  BY DEF ApplyEntry
<1>2. ApplyBegin(s, e) = [s EXCEPT !.incomplete = c]
  BY DEF ApplyBegin
<1> HIDE DEF c
<1>3. [s EXCEPT !.incomplete = c] = Edited(s, s.new, c, s.remove, s.markDelete, s.markPending)
  BY DEF ReplayStates, Edited
<1> QED
  BY <1>1, <1>2, <1>3 DEF c

\* an elided beginning,
LEMMA ElidedBeginEffect ==
  ASSUME NEW s, NEW e, e.kind = "begin", e.operation = None
  PROVE  ApplyEntry(s, e) = s
BY DEF ApplyEntry, ApplyBegin

\* a failure,
LEMMA FailureEffect ==
  ASSUME NEW s \in ReplayStates, NEW e, e.kind = "failure"
  PROVE  ApplyEntry(s, e) =
           Edited(s, s.new, Completed(s, e.op), s.remove, s.markDelete, s.markPending)
<1> DEFINE c == Completed(s, e.op)
<1>1. ApplyEntry(s, e) = ApplyFailure(s, e)
  BY DEF ApplyEntry
<1>2. ApplyFailure(s, e) = [s EXCEPT !.incomplete = c]
  BY DEF ApplyFailure
<1> HIDE DEF c
<1>3. [s EXCEPT !.incomplete = c] = Edited(s, s.new, c, s.remove, s.markDelete, s.markPending)
  BY DEF ReplayStates, Edited
<1> QED
  BY <1>1, <1>2, <1>3 DEF c

\* The operation None is no one's.
LEMMA NoOperation ==
  ASSUME NEW new \in Seq([op : Nat, res : Resources]), NEW res
  PROVE  UpdateNew(new, None, res) = new /\ DeleteNew(new, None) = new
<1>1. Len(new) \in Nat /\ \A i \in 1..Len(new) : new[i] \in [op : Nat, res : Resources]
  BY LenProperties, ElementOfSeq
<1>2. OfOperation(new, None) = {}
  BY <1>1, JournalAssumption DEF OfOperation
<1>3. [i \in 1..Len(new) |-> new[i]] = new
  BY <1>1
<1>4. UpdateNew(new, None, res) = [i \in 1..Len(new) |-> new[i]]
  BY <1>2 DEF UpdateNew
<1>5. DeleteNew(new, None) = [i \in 1..Len(new) |-> new[i]]
  BY <1>2 DEF DeleteNew
<1> QED
  BY <1>3, <1>4, <1>5

\* a success that takes nothing made by this plan away,
LEMMA SuccessEffect ==
  ASSUME NEW s \in ReplayStates, NEW e, e.kind = "success", e.op \in Nat,
         e.removeNew = None, e.deleteNew = None,
         NEW made, made = IF e.state = None THEN s.new ELSE Append(s.new, [op |-> e.op, res |-> e.state]),
         e.state = None \/ e.state \in Resources
  PROVE  ApplyEntry(s, e) =
           Edited(s, made, Completed(s, e.op), s.remove \cup IndexOld(e.removeOld),
                  s.markDelete \cup IndexOld(e.deleteOld), s.markPending \cup IndexOld(e.pendingOld))
<1>1. ApplyEntry(s, e) = ApplySuccess(s, e)
  BY DEF ApplyEntry
<1>2. s.new \in Seq([op : Nat, res : Resources])
  BY DEF ReplayStates
<1>3. made \in Seq([op : Nat, res : Resources])
  <2>1. CASE e.state = None
    BY <1>2, <2>1
  <2>2. CASE e.state # None
    <3>1. [op |-> e.op, res |-> e.state] \in [op : Nat, res : Resources]
      BY <2>2
    <3> QED
      BY <1>2, <2>2, <3>1, AppendProperties
  <2> QED
    BY <2>1, <2>2
<1>4. UpdateNew(made, None, None) = made /\ DeleteNew(made, None) = made
  BY <1>3, NoOperation
<1>5. ApplySuccess(s, e) =
        [s EXCEPT !.incomplete = Completed(s, e.op),
                  !.new = DeleteNew(UpdateNew(made, e.removeNew, None), e.deleteNew),
                  !.remove = @ \cup IndexOld(e.removeOld),
                  !.markDelete = @ \cup IndexOld(e.deleteOld),
                  !.markPending = @ \cup IndexOld(e.pendingOld)]
  BY DEF ApplySuccess
<1> DEFINE c == Completed(s, e.op)
           x == s.remove \cup IndexOld(e.removeOld)
           y == s.markDelete \cup IndexOld(e.deleteOld)
           z == s.markPending \cup IndexOld(e.pendingOld)
<1>6. ApplySuccess(s, e) = [s EXCEPT !.incomplete = c, !.new = made, !.remove = x,
                                     !.markDelete = y, !.markPending = z]
  BY <1>4, <1>5
<1> HIDE DEF c, x, y, z
<1>7. [s EXCEPT !.incomplete = c, !.new = made, !.remove = x, !.markDelete = y, !.markPending = z]
        = Edited(s, made, c, x, y, z)
  BY DEF ReplayStates, Edited
<1> QED
  BY <1>1, <1>6, <1>7 DEF c, x, y, z

\* the outputs of a resource of this plan.
LEMMA OutputsEffect ==
  ASSUME NEW s \in ReplayStates, NEW e, e.kind = "outputs", e.removeOld = None
  PROVE  ApplyEntry(s, e) =
           Edited(s, UpdateNew(s.new, e.removeNew, e.state), s.incomplete, s.remove,
                  s.markDelete, s.markPending)
<1> DEFINE n == UpdateNew(s.new, e.removeNew, e.state)
<1>1. ApplyEntry(s, e) = ApplyOutputs(s, e)
  BY DEF ApplyEntry
<1>2. ApplyOutputs(s, e) = [s EXCEPT !.new = n]
  BY DEF ApplyOutputs
<1> HIDE DEF n
<1>3. [s EXCEPT !.new = n] = Edited(s, n, s.incomplete, s.remove, s.markDelete, s.markPending)
  BY DEF ReplayStates, Edited
<1> QED
  BY <1>1, <1>2, <1>3 DEF n

\* The newest, and here only, resource of an operation.
LEMMA OnlyOfOperation ==
  ASSUME NEW new \in Seq([op : Nat, res : Resources]), NEW k \in DOMAIN new,
         \A i, j \in DOMAIN new : i # j => new[i].op # new[j].op
  PROVE  OfOperation(new, new[k].op) = {k}
<1>1. /\ Len(new) \in Nat /\ DOMAIN new = 1..Len(new)
      /\ \A i \in 1..Len(new) : new[i] \in [op : Nat, res : Resources]
  BY LenProperties, ElementOfSeq
<1>2. \A i \in 1..Len(new) : new[i].res # None
  BY <1>1, JournalAssumption
<1>3. \A j \in (k + 1)..Len(new) : j \in DOMAIN new /\ j # k
  BY <1>1
<1>4. k \in OfOperation(new, new[k].op)
  BY <1>1, <1>2, <1>3 DEF OfOperation
<1>5. \A i \in OfOperation(new, new[k].op) : i \in DOMAIN new /\ new[i].op = new[k].op
  BY <1>1 DEF OfOperation
<1> QED
  BY <1>4, <1>5

\* What is appended to a sequence.
LEMMA Appended ==
  ASSUME NEW S, NEW u \in Seq(S), NEW e \in S, NEW v, v = Append(u, e)
  PROVE  /\ v \in Seq(S) /\ Len(u) \in Nat /\ DOMAIN u = 1..Len(u) /\ DOMAIN v = 1..(Len(u) + 1)
         /\ \A k \in 1..Len(u) : v[k] = u[k]
         /\ v[Len(u) + 1] = e
BY AppendProperties, LenProperties

\* The operations of a sequence with one more,
LEMMA AppendedOps ==
  ASSUME NEW u \in Seq(Operations), NEW e \in Operations
  PROVE  Ops(Append(u, e)) = Ops(u) \cup {e.op}
<1> DEFINE v == Append(u, e)
<1>1. /\ Len(u) \in Nat /\ DOMAIN u = 1..Len(u) /\ DOMAIN v = 1..(Len(u) + 1)
      /\ (\A k \in 1..Len(u) : v[k] = u[k]) /\ v[Len(u) + 1] = e
  BY Appended
<1> HIDE DEF v
<1>2. 1..(Len(u) + 1) = (1..Len(u)) \cup {Len(u) + 1}
  BY <1>1
<1>3. Ops(v) = Ops(u) \cup {e.op}
  BY <1>1, <1>2 DEF Ops
<1> QED
  BY <1>3 DEF v

\* and of two sequences, one after the other.
LEMMA JoinedOps ==
  ASSUME NEW u \in Seq(Operations), NEW v \in Seq(Operations)
  PROVE  Ops(u \o v) = Ops(u) \cup Ops(v)
<1> DEFINE w == u \o v
<1>1. /\ Len(u) \in Nat /\ Len(v) \in Nat /\ DOMAIN u = 1..Len(u) /\ DOMAIN v = 1..Len(v)
      /\ DOMAIN w = 1..(Len(u) + Len(v))
      /\ (\A k \in 1..Len(u) : w[k] = u[k]) /\ (\A k \in 1..Len(v) : w[Len(u) + k] = v[k])
      /\ \A k \in DOMAIN w : k \in 1..Len(u) \/ \E l \in 1..Len(v) : k = Len(u) + l
  BY Joined
<1> HIDE DEF w
<1>2. Ops(w) \subseteq Ops(u) \cup Ops(v)
  BY <1>1 DEF Ops
<1>3. Ops(u) \subseteq Ops(w)
  BY <1>1 DEF Ops
<1>4. ASSUME NEW k \in 1..Len(v)
      PROVE  v[k].op \in Ops(w)
  <2>1. Len(u) + k \in DOMAIN w /\ w[Len(u) + k] = v[k]
    BY <1>1
  <2> QED
    BY <2>1 DEF Ops
<1>5. Ops(v) \subseteq Ops(w)
  BY <1>1, <1>4 DEF Ops
<1> QED
  BY <1>2, <1>3, <1>5 DEF w

-----------------------------------------------------------------------------
(* The snapshot that a replay state gives. *)

\* Where the parts of the plan and of the replay state are.
LEMMA SimFacts ==
  ASSUME NEW s, PlanSound, ReplayForm(s)
  PROVE  /\ Len(plan) \in Nat /\ DOMAIN plan = 1..Len(plan) /\ \A i \in DOMAIN plan : plan[i] \in Resources
         /\ s \in ReplayStates
         /\ s.base.resources = plan /\ s.base.pending \in Seq(Operations)
         /\ s.new \in Seq([op : Nat, res : Resources]) /\ s.incomplete \in Seq(Operations)
         /\ Len(s.new) \in Nat /\ DOMAIN s.new = 1..Len(s.new)
         /\ \A k \in DOMAIN s.new : s.new[k].op \in Nat /\ s.new[k].res \in Resources
         /\ Kept(s) \subseteq Nat
<1>1. Len(plan) \in Nat /\ DOMAIN plan = 1..Len(plan) /\ \A i \in DOMAIN plan : plan[i] \in Resources
  BY LenProperties, ElementOfSeq DEF PlanSound
<1>2. s \in ReplayStates /\ s.base.resources = plan
  BY DEF ReplayForm
<1>3. s.base.pending \in Seq(Operations)
  BY <1>2 DEF ReplayStates, Snapshots
<1>4. s.new \in Seq([op : Nat, res : Resources]) /\ s.incomplete \in Seq(Operations)
  BY <1>2 DEF ReplayStates
<1>5. /\ Len(s.new) \in Nat /\ DOMAIN s.new = 1..Len(s.new)
      /\ \A k \in DOMAIN s.new : s.new[k] \in [op : Nat, res : Resources]
  BY <1>4, LenProperties, ElementOfSeq
<1>6. Kept(s) \subseteq Nat
  BY <1>1 DEF Kept
<1> QED
  BY <1>1, <1>2, <1>3, <1>4, <1>5, <1>6

\* A resource is its fields.
LEMMA SameResource ==
  ASSUME NEW q \in Resources, NEW r \in Resources, q.urn = r.urn, q.gen = r.gen, q.deps = r.deps,
         q.delete <=> r.delete, q.pendingReplacement <=> r.pendingReplacement
  PROVE  q = r
BY DEF Resources

\* A resource of the base that no refresh replaced, with its marks.
LEMMA MarkedAs ==
  ASSUME PlanSound, NEW s, s.base.resources = plan, NEW i \in DOMAIN plan, i \notin DOMAIN s.replace
  PROVE  /\ Marked(s, i) \in Resources
         /\ Marked(s, i).urn = plan[i].urn /\ Marked(s, i).gen = plan[i].gen
         /\ Marked(s, i).deps = plan[i].deps
         /\ Marked(s, i).delete <=> i \in s.markDelete
         /\ Marked(s, i).pendingReplacement <=> i \in s.markPending
<1>1. plan[i] \in Resources /\ ~plan[i].delete /\ ~plan[i].pendingReplacement
  BY LenProperties, ElementOfSeq DEF PlanSound
<1>2. Marked(s, i) = [plan[i] EXCEPT !.pendingReplacement = @ \/ i \in s.markPending,
                                     !.delete = @ \/ i \in s.markDelete]
  BY <1>1 DEF Marked
<1> QED
  BY <1>1, <1>2 DEF Resources

\* The same, of a replay state that has the form of one.
LEMMA MarkedIs ==
  ASSUME NEW s, PlanSound, ReplayForm(s), NEW i \in DOMAIN plan, i \notin DOMAIN s.replace
  PROVE  /\ Marked(s, i) \in Resources
         /\ Marked(s, i).urn = plan[i].urn /\ Marked(s, i).gen = plan[i].gen
         /\ Marked(s, i).deps = plan[i].deps
         /\ Marked(s, i).delete <=> i \in s.markDelete
         /\ Marked(s, i).pendingReplacement <=> i \in s.markPending
<1>1. s.base.resources = plan
  BY DEF ReplayForm
<1> QED
  BY <1>1, MarkedAs

\* In an update the snapshot is the resources made and, after them, those left.
LEMMA UpdateSnapshot ==
  ASSUME NEW s, PlanSound, ReplayForm(s), Updating(s)
  PROVE  Told(s, Len(journal))
<1> DEFINE L == Len(plan)
           made == [k \in DOMAIN s.new |-> s.new[k].res]
           N == Len(s.new)
<1>1. /\ L \in Nat /\ DOMAIN plan = 1..L /\ N \in Nat /\ DOMAIN s.new = 1..N
      /\ \A i \in DOMAIN plan : plan[i] \in Resources
      /\ \A k \in DOMAIN s.new : s.new[k].op \in Nat /\ s.new[k].res \in Resources
  BY SimFacts
<1>2. OfPlan(s) = made
  BY SimFacts, OfPlanIs
<1>3. PICK q : /\ q \in Seq(1..L)
               /\ Survivors(s) = [k \in DOMAIN q |-> Marked(s, q[k])]
               /\ {q[k] : k \in DOMAIN q} = {i \in 1..L : i \notin s.remove}
               /\ \A k, l \in DOMAIN q : k < l => q[k] < q[l]
  <2>1. s.base.resources \in Seq(Resources) /\ L = Len(s.base.resources)
    BY SimFacts DEF PlanSound
  <2> QED
    BY <2>1, SurvivorsAre
<1> DEFINE Q == Len(q)
           left == [k \in DOMAIN q |-> Marked(s, q[k])]
           rs == made \o left
<1>4. /\ Q \in Nat /\ DOMAIN q = 1..Q
      /\ \A k \in DOMAIN q : q[k] \in Kept(s) /\ q[k] \in 1..L
      /\ \A i \in Kept(s) : \E k \in DOMAIN q : q[k] = i
      /\ \A k, l \in DOMAIN q : q[k] < q[l] => k < l
      /\ \A k, l \in DOMAIN q : q[k] = q[l] => k = l
  <2>1. Q \in Nat /\ DOMAIN q = 1..Q /\ \A k \in DOMAIN q : q[k] \in 1..L
    BY <1>3, LenProperties, ElementOfSeq
  <2>2. {q[k] : k \in DOMAIN q} = Kept(s)
    BY <1>1, <1>3 DEF Kept
  <2>3. \A k, l \in DOMAIN q : k \in Nat /\ l \in Nat /\ q[k] \in Nat /\ q[l] \in Nat
    BY <2>1
  <2>4. \A k, l \in DOMAIN q : q[k] < q[l] => k < l
    BY <1>3, <2>3
  <2>5. \A k, l \in DOMAIN q : q[k] = q[l] => k = l
    BY <1>3, <2>3
  <2> QED
    BY <2>1, <2>2, <2>4, <2>5
<1>5. \A k \in 1..Q : /\ Marked(s, q[k]) \in Resources
                      /\ Marked(s, q[k]).urn = plan[q[k]].urn
                      /\ Marked(s, q[k]).deps = plan[q[k]].deps
                      /\ Marked(s, q[k]).delete <=> q[k] \in s.markDelete
  BY <1>1, <1>4, MarkedIs DEF Updating
<1>6. made \in Seq(Resources) /\ left \in Seq(Resources) /\ Len(made) = N /\ Len(left) = Q
      /\ (\A k \in 1..N : made[k] = s.new[k].res) /\ (\A k \in 1..Q : left[k] = Marked(s, q[k]))
  <2>1. \A k \in 1..N : s.new[k].res \in Resources
    BY <1>1
  <2> QED
    BY <1>1, <1>4, <1>5, <2>1
<1>7. Ordered(s) = rs
  BY <1>2, <1>3 DEF Ordered
<1> HIDE DEF made, left
<1>8. /\ rs \in Seq(Resources) /\ Len(rs) = N + Q /\ DOMAIN rs = 1..(N + Q)
      /\ \A k \in 1..N : rs[k] = s.new[k].res
      /\ \A k \in 1..Q : rs[N + k] = Marked(s, q[k])
      /\ \A k \in DOMAIN rs : k \in 1..N \/ \E l \in 1..Q : k = N + l
  <2>1. /\ rs \in Seq(Resources) /\ Len(rs) = Len(made) + Len(left)
        /\ DOMAIN rs = 1..(Len(made) + Len(left))
        /\ \A k \in 1..Len(made) : rs[k] = made[k]
        /\ \A k \in 1..Len(left) : rs[Len(made) + k] = left[k]
        /\ \A k \in DOMAIN rs : k \in 1..Len(made) \/ \E l \in 1..Len(left) : k = Len(made) + l
    <3>1. made \in Seq(Resources) /\ left \in Seq(Resources)
      BY <1>6
    <3> QED
      BY <3>1, Joined
  <2> HIDE DEF rs
  <2> QED
    BY <1>6, <2>1
<1> HIDE DEF rs
<1>9. Elements(rs) = World
  <2>1. \A k \in DOMAIN rs : rs[k] \in World
    <3> SUFFICES ASSUME NEW k \in DOMAIN rs PROVE rs[k] \in World
      OBVIOUS
    <3>1. CASE k \in 1..N
      BY <1>1, <1>8, <3>1 DEF Updating
    <3>2. CASE \E l \in 1..Q : k = N + l
      BY <1>4, <1>8, <3>2 DEF Updating
    <3> QED
      BY <1>8, <3>1, <3>2
  <2>2. \A r \in World : \E k \in DOMAIN rs : rs[k] = r
    <3> SUFFICES ASSUME NEW r \in World PROVE \E k \in DOMAIN rs : rs[k] = r
      OBVIOUS
    <3>1. CASE \E k \in DOMAIN s.new : s.new[k].res = r
      <4>1. PICK k \in DOMAIN s.new : s.new[k].res = r
        BY <3>1
      <4>2. k \in 1..(N + Q) /\ k \in 1..N
        BY <1>1, <1>4, <4>1
      <4> QED
        BY <1>8, <4>1, <4>2
    <3>2. CASE \E i \in Kept(s) : r = Marked(s, i)
      <4>1. PICK l \in DOMAIN q : r = Marked(s, q[l])
        BY <1>4, <3>2
      <4>2. N + l \in 1..(N + Q) /\ l \in 1..Q
        BY <1>1, <1>4, <4>1
      <4> QED
        BY <1>8, <4>1, <4>2
    <3> QED
      BY <3>1, <3>2 DEF Updating
  <2> QED
    BY <2>1, <2>2 DEF Elements
<1>10. \A k, l \in DOMAIN rs : rs[k] = rs[l] => k = l
  <2>1. \A k, l \in 1..N : rs[k] = rs[l] => k = l
    <3>1. \A k, l \in DOMAIN s.new : k # l => s.new[k].res.urn # s.new[l].res.urn
      BY DEF Updating, NewSound
    <3>2. \A k \in 1..N : rs[k].urn = s.new[k].res.urn
      BY <1>8
    <3>3. DOMAIN s.new = 1..N
      BY <1>1
    <3> QED
      BY <3>1, <3>2, <3>3
  <2>2. \A k, l \in 1..Q : rs[N + k] = rs[N + l] => k = l
    <3> SUFFICES ASSUME NEW k \in 1..Q, NEW l \in 1..Q, rs[N + k] = rs[N + l] PROVE k = l
      OBVIOUS
    <3>1. plan[q[k]].urn = plan[q[l]].urn
      <4>1. rs[N + k] = Marked(s, q[k]) /\ rs[N + l] = Marked(s, q[l])
        BY <1>8
      <4>2. Marked(s, q[k]).urn = plan[q[k]].urn /\ Marked(s, q[l]).urn = plan[q[l]].urn
        BY <1>5
      <4> QED
        BY <4>1, <4>2
    <3>2. q[k] = q[l]
      BY <1>1, <1>4, <3>1 DEF PlanSound
    <3> QED
      BY <1>4, <3>2
  <2>3. \A k \in 1..N, l \in 1..Q : rs[k] # rs[N + l]
    <3> SUFFICES ASSUME NEW k \in 1..N, NEW l \in 1..Q, rs[k] = rs[N + l] PROVE FALSE
      OBVIOUS
    <3>1. rs[k] = s.new[k].res /\ rs[k] = Marked(s, q[l]) /\ k \in DOMAIN s.new /\ q[l] \in Kept(s)
      BY <1>1, <1>4, <1>8
    <3>2. ~s.new[k].res.delete
      BY <3>1 DEF Updating, NewSound
    <3>3. plan[q[l]].urn \in NewUrns(s)
      BY <1>5, <3>1 DEF NewUrns
    <3>4. q[l] \in s.markDelete
      BY <1>1, <1>4, <3>1, <3>3 DEF Updating, OldSound
    <3> QED
      BY <1>5, <3>1, <3>2, <3>4
  <2> QED
    BY <1>8, <2>1, <2>2, <2>3
<1>11. Readable(rs)
  <2> SUFFICES ASSUME NEW k \in DOMAIN rs, NEW d \in rs[k].deps
               PROVE  \E j \in 1..(k - 1) : rs[j].urn = d
    BY DEF Readable
  <2>1. CASE k \in 1..N
    <3>1. PICK j \in 1..(k - 1) : s.new[j].res.urn = d
      BY <1>1, <1>8, <2>1 DEF Updating, NewSound
    <3>2. j \in 1..N
      BY <1>1, <2>1, <3>1
    <3> QED
      BY <1>8, <3>1, <3>2
  <2>2. CASE \E l \in 1..Q : k = N + l
    <3>1. PICK l \in 1..Q : k = N + l
      BY <2>2
    <3> DEFINE i == q[l]
    <3>2. i \in Kept(s) /\ i \in DOMAIN plan /\ i \in Nat /\ d \in plan[i].deps
      BY <1>1, <1>4, <1>5, <1>8, <3>1
    <3>3. plan[i].deps \subseteq NewUrns(s) \cup {plan[j].urn : j \in Kept(s) \cap 1..(i - 1)}
      BY <3>2 DEF Updating, OldSound
    <3>4. CASE d \in NewUrns(s)
      <4>1. PICK j \in 1..N : s.new[j].res.urn = d
        BY <1>1, <3>4 DEF NewUrns
      <4>2. j \in 1..(k - 1)
        BY <1>1, <3>1, <4>1
      <4> QED
        BY <1>8, <4>1, <4>2
    <3>5. CASE d \in {plan[j].urn : j \in Kept(s) \cap 1..(i - 1)}
      <4>1. PICK j \in Kept(s) : j \in 1..(i - 1) /\ plan[j].urn = d
        BY <3>5
      <4>2. PICK m \in DOMAIN q : q[m] = j
        BY <1>4, <4>1
      <4>3. q[m] < q[l]
        BY <3>2, <4>1, <4>2
      <4>4. m < l /\ m \in 1..Q
        BY <1>4, <4>2, <4>3
      <4>5. N + m \in 1..(k - 1)
        BY <1>1, <1>4, <3>1, <4>4
      <4>6. rs[N + m].urn = d
        BY <1>5, <1>8, <4>1, <4>2, <4>4
      <4> QED
        BY <4>5, <4>6
    <3> QED
      BY <3>2, <3>3, <3>4, <3>5
  <2> QED
    BY <1>8, <2>1, <2>2
<1>12. Pruned(rs) = rs
  BY <1>8, <1>11, PrunedReadable
<1> DEFINE pending == s.incomplete \o Creating(s.base.pending)
<1>13. pending \in Seq(Operations) /\ Ops(pending) = Running \cup Inherited
  <2>1. s.incomplete \in Seq(Operations) /\ Creating(s.base.pending) \in Seq(Operations)
    BY SimFacts, CreatingElements
  <2>2. Ops(pending) = Ops(s.incomplete) \cup Ops(Creating(s.base.pending))
    BY <2>1, JoinedOps
  <2> QED
    BY <2>1, <2>2, ConcatProperties DEF ReplayForm
<1> HIDE DEF pending
<1>14. RebuildFromJournal(s) = [resources |-> rs, pending |-> pending]
  BY <1>7, <1>12 DEF RebuildFromJournal, pending
<1>15. Len(rs) = Cardinality(World)
  BY <1>8, <1>9, <1>10, DistinctCount DEF Elements
<1> DEFINE snapshot == [resources |-> rs, pending |-> pending]
<1>16. snapshot \in Snapshots /\ snapshot.resources = rs /\ snapshot.pending = pending
  BY <1>8, <1>13 DEF Snapshots
<1> QED
  BY <1>9, <1>11, <1>13, <1>14, <1>15, <1>16 DEF Told, World, Running

\* A resource of the base during a refresh has no marks.
LEMMA RefreshedIs ==
  ASSUME NEW s, PlanSound, ReplayForm(s), Refreshing(s), NEW i \in DOMAIN plan
  PROVE  /\ Marked(s, i) \in Resources
         /\ Marked(s, i).urn = plan[i].urn /\ Marked(s, i).deps = plan[i].deps
         /\ Marked(s, i).gen \in {Original, Refreshed}
         /\ ~Marked(s, i).delete /\ ~Marked(s, i).pendingReplacement
<1>1. plan[i] \in Resources /\ ~plan[i].delete /\ ~plan[i].pendingReplacement
      /\ plan[i].gen \in {Original, Refreshed}
  BY SimFacts DEF PlanSound
<1>2. s.markDelete = {} /\ s.markPending = {}
  BY DEF Refreshing
<1>3. CASE i \notin DOMAIN s.replace
  BY <1>1, <1>2, <1>3, MarkedIs
<1>4. CASE i \in DOMAIN s.replace
  <2>1. s.replace[i] = [plan[i] EXCEPT !.gen = Refreshed]
    BY <1>4 DEF Refreshing
  <2> DEFINE r == [plan[i] EXCEPT !.gen = Refreshed]
  <2>2. /\ r \in Resources /\ r.urn = plan[i].urn /\ r.deps = plan[i].deps /\ r.gen = Refreshed
        /\ ~r.delete /\ ~r.pendingReplacement
    BY <1>1 DEF Resources, Original, Refreshed, Registered
  <2>3. Marked(s, i) = [r EXCEPT !.pendingReplacement = @ \/ i \in s.markPending,
                                 !.delete = @ \/ i \in s.markDelete]
    BY <1>4, <2>1 DEF Marked
  <2> HIDE DEF r
  <2> QED
    BY <1>2, <2>2, <2>3 DEF Resources
<1> QED
  BY <1>3, <1>4

\* What a refresh makes of it depends only on what is left.
LEMMA PruningIs ==
  ASSUME NEW s, PlanSound, ReplayForm(s), Refreshing(s), NEW i \in DOMAIN plan
  PROVE  /\ Pruning(s, i) \in Resources
         /\ Pruning(s, i).urn = plan[i].urn
         /\ Pruning(s, i).deps = plan[i].deps \cap {plan[j].urn : j \in Kept(s)}
         /\ Pruning(s, i).gen \in {Original, Refreshed} /\ Pruning(s, i).gen = Marked(s, i).gen
         /\ ~Pruning(s, i).delete /\ ~Pruning(s, i).pendingReplacement
<1> DEFINE r == Marked(s, i)
           K == {plan[j].urn : j \in Kept(s)}
<1>1. /\ r \in Resources /\ r.urn = plan[i].urn /\ r.deps = plan[i].deps
      /\ r.gen \in {Original, Refreshed} /\ ~r.delete /\ ~r.pendingReplacement
  BY RefreshedIs
<1>2. Pruning(s, i) = [r EXCEPT !.deps = @ \cap K]
  BY DEF Pruning
<1> HIDE DEF r
<1>3. K \cap plan[i].deps \in SUBSET Urns
  BY <1>1 DEF Resources
<1> HIDE DEF K
<1>4. Pruning(s, i) = [r EXCEPT !.deps = plan[i].deps \cap K]
  BY <1>1, <1>2 
<1>5. Pruning(s, i) \in Resources
  BY <1>1, <1>3, <1>4 DEF Resources
<1>6. Pruning(s, i).deps = plan[i].deps \cap K
  BY <1>1, <1>4 DEF Resources
<1>7. /\ Pruning(s, i).urn = r.urn /\ Pruning(s, i).gen = r.gen
      /\ (Pruning(s, i).delete <=> r.delete)
      /\ (Pruning(s, i).pendingReplacement <=> r.pendingReplacement)
  BY <1>1, <1>4 DEF Resources
<1> QED
  BY <1>1, <1>5, <1>6, <1>7 DEF K, r

\* What is left of its dependencies is earlier.
LEMMA AllAreEarlier ==
  ASSUME NEW s, PlanSound, ReplayForm(s), NEW i \in DOMAIN plan, NEW E,
         \A j \in DOMAIN plan : j \in Kept(s) /\ j < i => plan[j].urn \in E,
         E \subseteq {plan[j].urn : j \in Kept(s)}
  PROVE  plan[i].deps \cap {plan[j].urn : j \in Kept(s)} = plan[i].deps \cap E
<1> SUFFICES ASSUME NEW d \in plan[i].deps, NEW j \in Kept(s), plan[j].urn = d
             PROVE  d \in E
  OBVIOUS
<1>1. PICK m \in 1..(i - 1) : plan[m].urn = d
  BY DEF PlanSound
<1>2. Len(plan) \in Nat /\ DOMAIN plan = 1..Len(plan) /\ j \in DOMAIN plan
  BY SimFacts DEF Kept
<1>3. m \in DOMAIN plan /\ m < i
  BY <1>1, <1>2
<1>4. m = j
  BY <1>1, <1>2, <1>3 DEF PlanSound
<1> QED
  BY <1>2, <1>3, <1>4

\* What a refresh leaves.
\* The indexes left, in their order.
Left(s) == Positions(Len(plan), Nat \ s.remove)

\* The snapshot of a refresh holds what is left, in the order of the base.
LEMMA RefreshResources ==
  ASSUME NEW s, PlanSound, StepsSound, ReplayForm(s), Refreshing(s)
  PROVE  /\ Left(s) \in Seq(1..Len(plan))
         /\ {Left(s)[k] : k \in DOMAIN Left(s)} = Kept(s)
         /\ \A k, l \in DOMAIN Left(s) : k < l => Left(s)[k] < Left(s)[l]
         /\ RebuildFromJournal(s) = [resources |-> [k \in DOMAIN Left(s) |-> Pruning(s, Left(s)[k])],
                                     pending |-> Creating(s.base.pending)]
<1> DEFINE L == Len(plan)
<1>1. L \in Nat /\ DOMAIN plan = 1..L /\ s.base.resources = plan
  BY SimFacts
<1> DEFINE q == Left(s)
<1>2. /\ q \in Seq(1..L)
      /\ Survivors(s) = [k \in DOMAIN q |-> Marked(s, q[k])]
      /\ {q[k] : k \in DOMAIN q} = {i \in 1..L : i \notin s.remove}
      /\ \A k, l \in DOMAIN q : k < l => q[k] < q[l]
  <2>1. s.base.resources \in Seq(Resources) /\ L = Len(s.base.resources)
    BY <1>1 DEF PlanSound
  <2> QED
    BY <2>1, SurvivorsAt DEF Left
<1>3. {q[k] : k \in DOMAIN q} = Kept(s)
  BY <1>1, <1>2 DEF Kept
<1> HIDE DEF q
<1> DEFINE left == [k \in DOMAIN q |-> Marked(s, q[k])]
           pruned == [k \in DOMAIN q |-> Pruning(s, q[k])]
           Q == Len(q)
<1>4. Q \in Nat /\ DOMAIN q = 1..Q /\ \A k \in 1..Q : q[k] \in Kept(s) /\ q[k] \in 1..L /\ q[k] \in DOMAIN plan
  <2>1. Q \in Nat /\ DOMAIN q = 1..Q /\ \A k \in 1..Q : q[k] \in 1..L
    BY <1>2, LenProperties, ElementOfSeq
  <2> QED
    BY <1>1, <1>3, <2>1
<1>5. left \in Seq(Resources) /\ Len(left) = Q /\ \A k \in 1..Q : left[k] = Marked(s, q[k])
  <2>1. \A k \in 1..Q : Marked(s, q[k]) \in Resources
    BY <1>4, RefreshedIs
  <2> QED
    BY <1>4, <2>1
<1>6. Ordered(s) = left
  <2>1. s.new = <<>> /\ s.new \in Seq([op : Nat, res : Resources])
    BY SimFacts DEF Refreshing
  <2>2. OfPlan(s) = [k \in DOMAIN s.new |-> s.new[k].res]
    BY <2>1, OfPlanIs
  <2>3. OfPlan(s) = <<>>
    BY <2>1, <2>2
  <2> HIDE DEF left
  <2>4. <<>> \o left = left
    BY <1>5, ConcatEmptySeq
  <2> QED
    BY <1>2, <2>3, <2>4 DEF Ordered, left
<1>7. Pruned(left) = pruned
  <2>1. ASSUME NEW k \in 1..Q
        PROVE  [left[k] EXCEPT !.deps = @ \cap {left[j].urn : j \in 1..(k - 1)}] = Pruning(s, q[k])
    <3> DEFINE E == {left[j].urn : j \in 1..(k - 1)}
               i == q[k]
    <3>1. \A j \in 1..Q : left[j].urn = plan[q[j]].urn
      BY <1>4, <1>5, RefreshedIs
    <3>2. i \in DOMAIN plan /\ i \in Nat
      BY <1>1, <1>4
    <3>3. ASSUME NEW j \in DOMAIN plan, j \in Kept(s), j < i
          PROVE  plan[j].urn \in E
      <4>1. PICK m \in 1..Q : q[m] = j
        BY <1>3, <1>4, <3>3
      <4>2. q[m] \in Nat /\ q[k] \in Nat /\ q[m] < q[k]
        BY <1>4, <3>3, <4>1
      <4>3. m < k
        <5>1. k \in DOMAIN q /\ m \in DOMAIN q /\ k \in Nat /\ m \in Nat
          BY <1>4, <4>1
        <5>2. k < m => q[k] < q[m]
          BY <1>2, <5>1
        <5> QED
          BY <4>2, <5>1, <5>2
      <4>4. m \in 1..(k - 1)
        BY <1>4, <4>3
      <4> QED
        BY <3>1, <4>1, <4>4
    <3>4. E \subseteq {plan[j].urn : j \in Kept(s)}
      <4> SUFFICES ASSUME NEW j \in 1..(k - 1) PROVE left[j].urn \in {plan[m].urn : m \in Kept(s)}
        OBVIOUS
      <4>1. j \in 1..Q
        BY <1>4
      <4> QED
        BY <1>4, <3>1, <4>1
    <3> HIDE DEF E
    <3>5. plan[i].deps \cap {plan[j].urn : j \in Kept(s)} = plan[i].deps \cap E
      BY <3>2, <3>3, <3>4, AllAreEarlier
    <3>6. left[k] = Marked(s, i) /\ Marked(s, i) \in Resources /\ Marked(s, i).deps = plan[i].deps
      BY <1>5, <3>2, RefreshedIs
    <3>7. Pruning(s, i) = [Marked(s, i) EXCEPT !.deps = @ \cap {plan[j].urn : j \in Kept(s)}]
      BY DEF Pruning
    <3>8. [left[k] EXCEPT !.deps = @ \cap E] = [Marked(s, i) EXCEPT !.deps = plan[i].deps \cap E]
      BY <3>6
    <3>9. Pruning(s, i) = [Marked(s, i) EXCEPT !.deps = plan[i].deps \cap {plan[j].urn : j \in Kept(s)}]
      BY <3>6, <3>7
    <3> QED
      BY <3>5, <3>8, <3>9 DEF E
  <2>2. Pruned(left) = [k \in 1..Q |-> Pruning(s, q[k])]
    <3> HIDE DEF left
    <3> QED
      BY <1>5, <2>1 DEF Pruned
  <2> QED
    BY <1>4, <2>2
<1>8. ASSUME ~s.refresh
      PROVE  left = pruned
  <2>1. ops = 0
    BY <1>8 DEF Refreshing, StepsSound
  <2>2. \A u \in Urns : step[u].at = "todo"
    BY <2>1 DEF StepsSound
  <2>3. \A i \in DOMAIN plan : plan[i].urn \in Urns
    BY SimFacts DEF Resources
  <2>4. Kept(s) = DOMAIN plan
    BY <2>2, <2>3 DEF Refreshing, Kept
  <2>5. ASSUME NEW k \in 1..Q
        PROVE  Marked(s, q[k]) = Pruning(s, q[k])
    <3> DEFINE i == q[k]
    <3>1. i \in DOMAIN plan
      BY <1>4
    <3>2. \A d \in plan[i].deps : \E j \in DOMAIN plan : plan[j].urn = d
      <4>1. \A j \in 1..(i - 1) : j \in DOMAIN plan
        BY <1>1, <3>1
      <4> QED
        BY <3>1, <4>1 DEF PlanSound
    <3>3. plan[i].deps \cap {plan[j].urn : j \in Kept(s)} = plan[i].deps
      BY <2>4, <3>2
    <3>4. Marked(s, i) \in Resources /\ Marked(s, i).deps = plan[i].deps
      BY <3>1, RefreshedIs
    <3> QED
      BY <3>3, <3>4 DEF Pruning, Resources
  <2> QED
    BY <1>4, <2>5
<1> HIDE DEF left, pruned
<1>9. (IF s.refresh THEN Pruned(Ordered(s)) ELSE Ordered(s)) = pruned
  BY <1>6, <1>7, <1>8
<1>10. s.incomplete \o Creating(s.base.pending) = Creating(s.base.pending)
  <2>1. Creating(s.base.pending) \in Seq(Operations)
    BY SimFacts, CreatingElements
  <2> QED
    BY <2>1, ConcatEmptySeq DEF Refreshing
<1>11. RebuildFromJournal(s) = [resources |-> pruned, pending |-> Creating(s.base.pending)]
  BY <1>9, <1>10 DEF RebuildFromJournal
<1> QED
  BY <1>2, <1>3, <1>11 DEF pruned, q

\* q are the indexes left, in their order, and what a refresh makes of them.
Indexing(s, q) ==
    /\ q \in Seq(1..Len(plan)) /\ Len(q) \in Nat /\ DOMAIN q = 1..Len(q)
    /\ \A k \in DOMAIN q : q[k] \in Kept(s) /\ q[k] \in DOMAIN plan /\ q[k] \in Nat
    /\ \A i \in Kept(s) : \E k \in DOMAIN q : q[k] = i
    /\ \A k, l \in DOMAIN q : q[k] < q[l] => k < l
    /\ \A k, l \in DOMAIN q : q[k] = q[l] => k = l
    /\ RebuildFromJournal(s) = [resources |-> [k \in DOMAIN q |-> Pruning(s, q[k])],
                                pending |-> Creating(s.base.pending)]

\* What the sequence of the indexes left is like.
LEMMA LeftIs ==
  ASSUME NEW s, PlanSound, StepsSound, ReplayForm(s), Refreshing(s)
  PROVE  Indexing(s, Left(s))
<1> DEFINE q == Left(s)
<1>1. /\ q \in Seq(1..Len(plan))
      /\ {q[k] : k \in DOMAIN q} = Kept(s)
      /\ \A k, l \in DOMAIN q : k < l => q[k] < q[l]
      /\ RebuildFromJournal(s) = [resources |-> [k \in DOMAIN q |-> Pruning(s, q[k])],
                                  pending |-> Creating(s.base.pending)]
  BY RefreshResources
<1> HIDE DEF q
<1>2. Len(q) \in Nat /\ DOMAIN q = 1..Len(q) /\ \A k \in DOMAIN q : q[k] \in 1..Len(plan)
  BY <1>1, LenProperties, ElementOfSeq
<1>3. Len(plan) \in Nat /\ DOMAIN plan = 1..Len(plan)
  BY SimFacts
<1>4. \A k, l \in DOMAIN q : k \in Nat /\ l \in Nat /\ q[k] \in Nat /\ q[l] \in Nat
  BY <1>2
<1>5. \A k, l \in DOMAIN q : q[k] < q[l] => k < l
  BY <1>1, <1>4
<1>6. \A k, l \in DOMAIN q : q[k] = q[l] => k = l
  BY <1>1, <1>4
<1>7. \A k \in DOMAIN q : q[k] \in Kept(s) /\ q[k] \in DOMAIN plan /\ q[k] \in Nat
  BY <1>1, <1>2, <1>3
<1>8. \A i \in Kept(s) : \E k \in DOMAIN q : q[k] = i
  BY <1>1
<1>9. Indexing(s, q)
  BY <1>1, <1>2, <1>5, <1>6, <1>7, <1>8 DEF Indexing
<1> QED
  BY <1>9 DEF q

\* In a refresh the snapshot is the base with what was found.
LEMMA RefreshSnapshot ==
  ASSUME NEW s, PlanSound, StepsSound, ReplayForm(s), Refreshing(s)
  PROVE  /\ Told(s, Len(journal))
         /\ RebuildFromJournal(s).pending = Creating(s.base.pending)
<1>0. PICK q : Indexing(s, q)
  BY LeftIs
<1>1. /\ q \in Seq(1..Len(plan)) /\ Len(q) \in Nat /\ DOMAIN q = 1..Len(q)
      /\ \A k \in DOMAIN q : q[k] \in Kept(s) /\ q[k] \in DOMAIN plan /\ q[k] \in Nat
      /\ \A i \in Kept(s) : \E k \in DOMAIN q : q[k] = i
      /\ \A k, l \in DOMAIN q : q[k] < q[l] => k < l
      /\ \A k, l \in DOMAIN q : q[k] = q[l] => k = l
      /\ RebuildFromJournal(s) = [resources |-> [k \in DOMAIN q |-> Pruning(s, q[k])],
                                  pending |-> Creating(s.base.pending)]
  BY <1>0 DEF Indexing
<1> DEFINE Q == Len(q)
           rs == [k \in DOMAIN q |-> Pruning(s, q[k])]
           pending == Creating(s.base.pending)
<1>2. \A k \in 1..Q : /\ Pruning(s, q[k]) \in Resources
                      /\ Pruning(s, q[k]).urn = plan[q[k]].urn
                      /\ Pruning(s, q[k]).deps = plan[q[k]].deps \cap {plan[j].urn : j \in Kept(s)}
  BY <1>1, PruningIs
<1>3. rs \in Seq(Resources) /\ Len(rs) = Q /\ DOMAIN rs = 1..Q /\ \A k \in 1..Q : rs[k] = Pruning(s, q[k])
  <2>1. DOMAIN q = 1..Q /\ Q \in Nat
    BY <1>1
  <2> QED
    BY <1>2, <2>1
<1> HIDE DEF rs
<1>4. Elements(rs) = World
  <2>1. \A k \in 1..Q : rs[k] \in World
    BY <1>1, <1>3 DEF Refreshing
  <2>2. \A r \in World : \E k \in 1..Q : rs[k] = r
    <3> SUFFICES ASSUME NEW r \in World PROVE \E k \in 1..Q : rs[k] = r
      OBVIOUS
    <3>1. PICK i \in Kept(s) : r = Pruning(s, i)
      BY DEF Refreshing
    <3>2. PICK k \in 1..Q : q[k] = i
      BY <1>1, <3>1
    <3> QED
      BY <1>3, <3>1, <3>2
  <2> QED
    BY <1>3, <2>1, <2>2 DEF Elements
<1>5. \A k, l \in DOMAIN rs : rs[k] = rs[l] => k = l
  <2> SUFFICES ASSUME NEW k \in 1..Q, NEW l \in 1..Q, rs[k] = rs[l] PROVE k = l
    BY <1>3
  <2>1. plan[q[k]].urn = plan[q[l]].urn
    <3>1. rs[k] = Pruning(s, q[k]) /\ rs[l] = Pruning(s, q[l])
      BY <1>3
    <3>2. Pruning(s, q[k]).urn = plan[q[k]].urn /\ Pruning(s, q[l]).urn = plan[q[l]].urn
      BY <1>2
    <3> QED
      BY <3>1, <3>2
  <2>2. q[k] = q[l]
    BY <1>1, <2>1 DEF PlanSound
  <2> QED
    BY <1>1, <2>2
<1>6. Readable(rs)
  <2> SUFFICES ASSUME NEW k \in 1..Q, NEW d \in rs[k].deps
               PROVE  \E j \in 1..(k - 1) : rs[j].urn = d
    BY <1>3 DEF Readable
  <2> DEFINE i == q[k]
             E == {plan[j].urn : j \in {m \in Kept(s) : m < i}}
  <2>1. i \in DOMAIN plan /\ rs[k].deps = plan[i].deps \cap {plan[j].urn : j \in Kept(s)}
    BY <1>1, <1>2, <1>3
  <2>2. \A j \in DOMAIN plan : j \in Kept(s) /\ j < i => plan[j].urn \in E
    OBVIOUS
  <2>3. E \subseteq {plan[j].urn : j \in Kept(s)}
    OBVIOUS
  <2>4. plan[i].deps \cap {plan[j].urn : j \in Kept(s)} = plan[i].deps \cap E
    <3> HIDE DEF E, i
    <3> QED
      BY <2>1, <2>2, <2>3, AllAreEarlier
  <2>5. PICK j \in Kept(s) : j < i /\ plan[j].urn = d
    BY <2>1, <2>4
  <2>6. PICK m \in DOMAIN q : q[m] = j
    BY <1>1, <2>5
  <2>7. m < k /\ m \in 1..Q
    <3>1. k \in DOMAIN q /\ q[m] < q[k]
      BY <1>1, <2>5, <2>6
    <3> QED
      BY <1>1, <3>1
  <2>8. m \in 1..(k - 1)
    BY <2>7
  <2>9. rs[m].urn = d
    BY <1>2, <1>3, <2>5, <2>6, <2>7
  <2> QED
    BY <2>8, <2>9
<1>7. pending \in Seq(Operations) /\ Ops(pending) = Running \cup Inherited
  <2>1. pending \in Seq(Operations) /\ Ops(pending) = Inherited
    BY SimFacts, CreatingElements DEF ReplayForm
  <2>2. Running = {}
    <3>1. s.incomplete = <<>> /\ Ops(s.incomplete) = Running
      BY DEF ReplayForm, Refreshing
    <3> QED
      BY <3>1 DEF Ops
  <2> QED
    BY <2>1, <2>2
<1> HIDE DEF pending
<1> DEFINE snapshot == [resources |-> rs, pending |-> pending]
<1>8. snapshot \in Snapshots /\ snapshot.resources = rs /\ snapshot.pending = pending
  BY <1>3, <1>7 DEF Snapshots
<1>9. RebuildFromJournal(s) = snapshot
  BY <1>1 DEF rs, pending
<1>10. Len(rs) = Cardinality(World)
  BY <1>3, <1>4, <1>5, DistinctCount DEF Elements
<1>11. RebuildFromJournal(s).pending = Creating(s.base.pending)
  BY <1>8, <1>9 DEF pending
<1> HIDE DEF snapshot
<1>12. Told(s, Len(journal))
  BY <1>4, <1>6, <1>7, <1>8, <1>9, <1>10 DEF Told, World, Running
<1> QED
  BY <1>11, <1>12

\* A replay in step with the engine tells what there is.
LEMMA SimTold ==
  ASSUME NEW s, Sim(s)
  PROVE  Told(s, Len(journal))
<1>1. mode \in {"refresh", "update"}
  BY DEF Sim, StepsSound
<1>2. CASE mode = "refresh"
  BY <1>2, RefreshSnapshot DEF Sim
<1>3. CASE mode = "update"
  BY <1>3, UpdateSnapshot DEF Sim
<1> QED
  BY <1>1, <1>2, <1>3

-----------------------------------------------------------------------------
(* The entries of the journal. *)

\* The entries of a journal.
Entries ==
    [kind : {"begin", "success", "failure", "refresh", "outputs", "rebuilt"}, op : Nat,
     operation : OperationTypes \cup {None}, state : Resources \cup {None},
     removeOld : Nat \cup {None}, removeNew : Nat \cup {None}, deleteOld : Nat \cup {None},
     deleteNew : Nat \cup {None}, pendingOld : Nat \cup {None}, elide : BOOLEAN]

\* An entry was written: what was before it stays.
Emission(e) ==
    /\ e \in Entries /\ journal' = Append(journal, e)
    /\ \A n \in 0..Len(journal) : outcome'[n] = outcome[n] /\ underway'[n] = underway[n]
    /\ e.elide => World' = World /\ Running' = Running
    /\ UNCHANGED <<batches, sent, stored, checkpoint>>

\* An entry that the engine emits, with the world and the operations after it.
LEMMA Emitted ==
  ASSUME journal \in Seq(Entries), NEW e \in Entries, NEW w, NEW r, Emit(e, w, r),
         e.elide => w = World /\ r = Running
  PROVE  Emission(e) /\ World' = w /\ Running' = r
<1>1. journal' = Append(journal, e) /\ Len(journal) \in Nat /\ Len(journal') = Len(journal) + 1
  <2>1. journal' = Append(journal, e)
    BY DEF Emit
  <2>2. Len(Append(journal, e)) = Len(journal) + 1 /\ Len(journal) \in Nat
    BY AppendProperties, LenProperties
  <2> QED
    BY <2>1, <2>2
<1> DEFINE L == Len(journal)
<1>2. /\ outcome' = [n \in 0..(L + 1) |-> IF n > L THEN w ELSE outcome[n]]
      /\ underway' = [n \in 0..(L + 1) |-> IF n > L THEN r ELSE underway[n]]
  BY DEF Emit
<1>3. L + 1 \in 0..(L + 1) /\ L + 1 > L /\ \A n \in 0..L : n \in 0..(L + 1) /\ ~(n > L)
  BY <1>1
<1>4. outcome'[L + 1] = w /\ underway'[L + 1] = r
  BY <1>2, <1>3
<1>5. \A n \in 0..L : outcome'[n] = outcome[n] /\ underway'[n] = underway[n]
  BY <1>2, <1>3
<1>6. World' = w /\ Running' = r
  BY <1>1, <1>4 DEF World, Running
<1> QED
  BY <1>1, <1>5, <1>6 DEF Emission, Emit

\* The fields of the entry that says nothing.
LEMMA NoEntryIs ==
  /\ NoEntry \in Entries
  /\ NoEntry.kind = "begin" /\ NoEntry.op = 0 /\ NoEntry.operation = None /\ NoEntry.state = None
  /\ NoEntry.removeOld = None /\ NoEntry.removeNew = None /\ NoEntry.deleteOld = None
  /\ NoEntry.deleteNew = None /\ NoEntry.pendingOld = None /\ ~NoEntry.elide
BY DEF NoEntry, Entries

-----------------------------------------------------------------------------
(* The steps of the engine. *)

\* The step of u becomes now.
Steps(u, now) ==
    /\ step' = [step EXCEPT ![u] = now] /\ now \in StepRecords /\ now.at # "todo"
    /\ mode' = mode /\ plan' = plan
    /\ \/ ops' = ops /\ now.op = step[u].op /\ step[u].at # "todo"
       \/ ops' = ops + 1 /\ now.op = ops + 1

\* What a step does to the steps.
LEMMA StepsStep ==
  ASSUME StepsSound, NEW u \in Urns, NEW now, Steps(u, now)
  PROVE  /\ StepsSound' /\ ops' \in Nat /\ ops <= ops' /\ now.op \in 1..ops'
         /\ step'[u] = now
         /\ \A v \in Urns : v # u => step'[v] = step[v]
         /\ \A v \in Urns : v # u => (step[v].op # now.op \/ step[v].op = 0)
<1>1. /\ ops \in Nat /\ step \in [Urns -> StepRecords]
      /\ \A v \in Urns : step[v] \in StepRecords /\ step[v].op \in 0..ops /\ step[v].op \in Nat
      /\ \A v \in Urns : step[v].at = "todo" <=> step[v].op = 0
      /\ \A v, w \in Urns : v # w /\ step[v].op = step[w].op => step[v].op = 0
  BY DEF StepsSound, StepRecords
<1>2. step' \in [Urns -> StepRecords] /\ step'[u] = now /\ \A v \in Urns : v # u => step'[v] = step[v]
  BY <1>1 DEF Steps
<1>3. ops' \in Nat /\ ops <= ops' /\ now.op \in 1..ops' /\ now.op # 0
  BY <1>1 DEF Steps
<1>4. \A v \in Urns : v # u => step[v].op # now.op \/ step[v].op = 0
  BY <1>1 DEF Steps
<1>5. \A v \in Urns : step'[v].op \in 0..ops'
  BY <1>1, <1>2, <1>3
<1>6. \A v \in Urns : step'[v].at = "todo" <=> step'[v].op = 0
  BY <1>1, <1>2, <1>3 DEF Steps
<1>7. \A v, w \in Urns : v # w /\ step'[v].op = step'[w].op => step'[v].op = 0
  <2> SUFFICES ASSUME NEW v \in Urns, NEW w \in Urns, v # w, step'[v].op = step'[w].op
               PROVE  step'[v].op = 0
    OBVIOUS
  <2>1. CASE v = u
    BY <1>2, <1>3, <1>4, <2>1
  <2>2. CASE w = u
    BY <1>2, <1>3, <1>4, <2>2
  <2>3. CASE v # u /\ w # u
    BY <1>1, <1>2, <2>3
  <2> QED
    BY <2>1, <2>2, <2>3
<1>8. StepsSound'
  BY <1>2, <1>3, <1>5, <1>6, <1>7 DEF StepsSound, Steps
<1> QED
  BY <1>2, <1>3, <1>4, <1>8

\* The step of another resource stays sound.
LEMMA OtherStep ==
  ASSUME NEW s, NEW t, NEW v \in Urns, StepSound(s, v), step'[v] = step[v], plan' = plan,
         Kept(t) \subseteq Kept(s), NewUrns(s) \subseteq NewUrns(t),
         step[v].at = "running" => \A k \in DOMAIN t.new : t.new[k].op # step[v].op,
         step[v].at = "running" => (step[v].op \in Running' => step[v].op \in Running),
         step[v].at = "deleting" => IndexOf(v) \in Kept(t)
  PROVE  StepSound(t, v)'
<1>1. Kept(t)' = Kept(t) /\ NewUrns(t)' = NewUrns(t)
  BY DEF Kept, NewUrns
<1>2. InBase(v)' = InBase(v) /\ IndexOf(v)' = IndexOf(v)
  BY DEF InBase, IndexOf
<1> QED
  BY <1>1, <1>2 DEF StepSound

-----------------------------------------------------------------------------
(* What the steps of an update have in common. *)

\* The made resources stay sound when none of them has the URN of the step,
\* or the step deletes an older one of its URN.
LEMMA NewStays ==
  ASSUME NEW s, NEW t, PlanSound, StepsSound, ReplayForm(s), NewSound(s), t.new = s.new,
         Kept(t) \subseteq Kept(s),
         NEW u \in Urns, NEW now, Steps(u, now),
         u \in NewUrns(s) => now.at \in {"deleting", "deleted"}
  PROVE  NewSound(t)'
<1>1. step'[u] = now /\ \A v \in Urns : v # u => step'[v] = step[v]
  BY StepsStep
<1>2. \A k \in DOMAIN s.new : s.new[k].res.urn \in Urns /\ s.new[k].res.urn \in NewUrns(s)
  BY SimFacts DEF Resources, NewUrns
<1>3. plan' = plan /\ Kept(t)' = Kept(t)
  BY DEF Kept, Steps
<1>4. ASSUME NEW k \in DOMAIN s.new
      PROVE  /\ step'[s.new[k].res.urn].at \in Over
             /\ step'[s.new[k].res.urn].at \in {"done", "told"} => s.new[k].op = step'[s.new[k].res.urn].op
             /\ step'[s.new[k].res.urn].at = "done" /\ step'[s.new[k].res.urn].kind # "same" =>
                  s.new[k].res = NewOf(s.new[k].res.urn)
  <2> DEFINE w == s.new[k].res.urn
  <2>1. w \in Urns /\ w \in NewUrns(s)
    BY <1>2
  <2>2. CASE w = u
    BY <1>1, <2>1, <2>2 DEF Over
  <2>3. CASE w # u
    BY <1>1, <2>1, <2>3 DEF NewSound
  <2> QED
    BY <2>2, <2>3
<1>5. \A k, l \in DOMAIN t.new :
         k # l => t.new[k].op # t.new[l].op /\ t.new[k].res.urn # t.new[l].res.urn
  BY DEF NewSound
<1>6. ASSUME NEW k \in DOMAIN s.new
      PROVE  /\ s.new[k].res.urn \in Program /\ ~s.new[k].res.delete
             /\ s.new[k].res.gen \in {Original, Refreshed} =>
                  \A i \in Kept(t) : plan[i].urn # s.new[k].res.urn
             /\ \A d \in s.new[k].res.deps : \E j \in 1..(k - 1) : s.new[j].res.urn = d
  BY DEF NewSound
<1>7. \A w : NewOf(w)' = NewOf(w)
  BY DEF NewOf
<1> QED
  BY <1>3, <1>4, <1>5, <1>6 DEF NewSound, NewOf

\* What a step leaves sound makes the simulation of the next state.
LEMMA Assembled ==
  ASSUME NEW s, NEW t, Sim(s), mode = "update",
         t \in ReplayStates, t.base = s.base, t.replace = s.replace, Ops(t.incomplete) = Running',
         NEW u \in Urns, NEW now, Steps(u, now), Running' \subseteq Running \cup {now.op},
         \A k \in DOMAIN t.new : t.new[k].op \in 1..ops',
         NewSound(t)', \A v \in Urns : StepSound(t, v)', \A i \in DOMAIN plan : OldSound(t, i)',
         World' = {Marked(t, i) : i \in Kept(t)} \cup {t.new[k].res : k \in DOMAIN t.new}
  PROVE  Sim(t)'
<1>1. PlanSound /\ StepsSound /\ ReplayForm(s) /\ Updating(s)
  BY DEF Sim
<1>2. StepsSound' /\ ops \in Nat /\ ops' \in Nat /\ ops <= ops' /\ now.op \in 1..ops'
  BY <1>1, StepsStep DEF StepsSound
<1>3. plan' = plan /\ mode' = mode /\ PlanSound'
  BY <1>1 DEF Steps, PlanSound
<1>4. ReplayForm(t)'
  <2>1. Running' \subseteq 1..ops'
    BY <1>1, <1>2 DEF ReplayForm
  <2>2. t \in ReplayStates /\ t.base.resources = plan' /\ Ops(Creating(t.base.pending)) = Inherited
    BY <1>1, <1>3 DEF ReplayForm
  <2> QED
    BY <2>1, <2>2 DEF ReplayForm
<1>5. Updating(t)'
  <2>1. DOMAIN t.replace = {}
    BY <1>1 DEF Updating
  <2>2. Kept(t)' = Kept(t)
    BY <1>3 DEF Kept
  <2>3. \A i : Marked(t, i)' = Marked(t, i)
    BY DEF Marked
  <2>4. \A i \in DOMAIN plan' : OldSound(t, i)'
    BY <1>3
  <2> QED
    BY <2>1, <2>2, <2>3, <2>4 DEF Updating
<1> QED
  BY <1>2, <1>3, <1>4, <1>5 DEF Sim

\* A step that neither makes, marks nor removes anything.
LEMMA Unmoved ==
  ASSUME NEW s, NEW t, Sim(s), mode = "update", World' = World,
         t \in ReplayStates, t.base = s.base, t.new = s.new, t.remove = s.remove,
         t.replace = s.replace, t.markDelete = s.markDelete, t.markPending = s.markPending,
         Ops(t.incomplete) = Running',
         NEW u \in Urns, NEW now, Steps(u, now),
         Running' \subseteq Running \cup {now.op},
         u \in NewUrns(s) => now.at \in {"deleting", "deleted"},
         StepSound(t, u)',
         \A i \in DOMAIN plan : plan[i].urn = u => OldSound(t, i)'
  PROVE  Sim(t)'
<1>1. PlanSound /\ StepsSound /\ ReplayForm(s) /\ Updating(s)
  BY DEF Sim
<1>2. /\ StepsSound' /\ ops \in Nat /\ ops' \in Nat /\ ops <= ops' /\ now.op \in 1..ops'
      /\ step'[u] = now
      /\ \A v \in Urns : v # u => step'[v] = step[v] /\ (step[v].op # now.op \/ step[v].op = 0)
  BY <1>1, StepsStep DEF StepsSound
<1>3. plan' = plan /\ mode' = mode /\ PlanSound'
  BY <1>1 DEF Steps, PlanSound
<1>4. Kept(t) = Kept(s) /\ Kept(t)' = Kept(s) /\ NewUrns(t)' = NewUrns(s) /\ NewUrns(t) = NewUrns(s)
  BY <1>3 DEF Kept, NewUrns
<1>5. \A k \in DOMAIN t.new : t.new[k].op \in 1..ops'
  <2> SUFFICES ASSUME NEW k \in DOMAIN s.new PROVE s.new[k].op \in 1..ops'
    OBVIOUS
  <2>1. s.new[k].op \in 1..ops
    BY <1>1 DEF ReplayForm
  <2> QED
    BY <1>2, <2>1
<1>6. NewSound(t)'
  BY <1>1, <1>4, NewStays DEF Updating
<1>7. \A v \in Urns : StepSound(t, v)'
  <2> SUFFICES ASSUME NEW v \in Urns, v # u PROVE StepSound(t, v)'
    OBVIOUS
  <2>1. StepSound(s, v)
    BY <1>1 DEF Updating
  <2>2. step[v].at = "running" => \A k \in DOMAIN t.new : t.new[k].op # step[v].op
    BY <2>1 DEF StepSound
  <2>3. step[v].at = "deleting" => IndexOf(v) \in Kept(t)
    BY <1>4, <2>1 DEF StepSound
  <2>4. step[v].at = "running" => (step[v].op \in Running' => step[v].op \in Running)
    <3>1. step[v].at = "running" => step[v].op # 0
      BY <1>1 DEF StepsSound
    <3> QED
      BY <1>2, <3>1
  <2> QED
    BY <1>2, <1>3, <1>4, <2>1, <2>2, <2>3, <2>4, OtherStep
<1>8. \A i \in DOMAIN plan : OldSound(t, i)'
  <2> SUFFICES ASSUME NEW i \in DOMAIN plan, plan[i].urn # u PROVE OldSound(t, i)'
    OBVIOUS
  <2>1. step'[plan[i].urn] = step[plan[i].urn]
    BY <1>1, <1>2, SimFacts DEF Resources
  <2>2. OldSound(s, i)
    BY <1>1 DEF Updating
  <2> QED
    BY <1>3, <1>4, <2>1, <2>2 DEF OldSound
<1>9. World' = {Marked(t, i) : i \in Kept(t)} \cup {t.new[k].res : k \in DOMAIN t.new}
  <2>1. \A i : Marked(t, i) = Marked(s, i)
    BY DEF Marked
  <2> QED
    BY <1>1, <1>4, <2>1 DEF Updating
<1> QED
  BY <1>5, <1>6, <1>7, <1>8, <1>9, Assembled

-----------------------------------------------------------------------------
(* The steps of an update. *)

\* All but the operations that are under way stays.
Alike(s, t) ==
    /\ t \in ReplayStates /\ t.base = s.base /\ t.new = s.new /\ t.remove = s.remove
    /\ t.replace = s.replace /\ t.markDelete = s.markDelete /\ t.markPending = s.markPending

\* Changing only the operations makes nothing else different.
LEMMA EditedAlike ==
  ASSUME NEW s \in ReplayStates, NEW c \in Seq(Operations), NEW t,
         t = Edited(s, s.new, c, s.remove, s.markDelete, s.markPending)
  PROVE  Alike(s, t) /\ t.incomplete = c
BY DEF ReplayStates, Edited, Alike

\* The replay state after the beginning of an operation,
LEMMA BegunState ==
  ASSUME NEW s \in ReplayStates, NEW e \in Entries, e.kind = "begin", e.operation # None,
         NEW t, t = ApplyEntry(s, e)
  PROVE  Alike(s, t) /\ Ops(t.incomplete) = Ops(s.incomplete) \cup {e.op}
<1> DEFINE o == [op |-> e.op, type |-> e.operation]
           c == Append(Completed(s, e.op), o)
<1>1. o \in Operations /\ o.op = e.op
  BY DEF Entries, Operations
<1>2. s.incomplete \in Seq(Operations)
  BY DEF ReplayStates
<1>3. Completed(s, e.op) \in Seq(Operations) /\ Ops(Completed(s, e.op)) = Ops(s.incomplete) \ {e.op}
  BY <1>2, CompletedOps
<1> HIDE DEF o
<1>4. c \in Seq(Operations) /\ Ops(c) = Ops(Completed(s, e.op)) \cup {o.op}
  BY <1>1, <1>3, AppendProperties, AppendedOps
<1>5. t = Edited(s, s.new, c, s.remove, s.markDelete, s.markPending)
  BY BeginEffect DEF o
<1> HIDE DEF c
<1>6. Alike(s, t) /\ t.incomplete = c
  BY <1>4, <1>5, EditedAlike
<1> QED
  BY <1>1, <1>3, <1>4, <1>6

\* and after its failure.
LEMMA FailedState ==
  ASSUME NEW s \in ReplayStates, NEW e \in Entries, e.kind = "failure",
         NEW t, t = ApplyEntry(s, e)
  PROVE  Alike(s, t) /\ Ops(t.incomplete) = Ops(s.incomplete) \ {e.op}
<1> DEFINE c == Completed(s, e.op)
<1>1. s.incomplete \in Seq(Operations)
  BY DEF ReplayStates
<1>2. c \in Seq(Operations) /\ Ops(c) = Ops(s.incomplete) \ {e.op}
  BY <1>1, CompletedOps
<1>3. t = Edited(s, s.new, c, s.remove, s.markDelete, s.markPending)
  BY FailureEffect
<1> HIDE DEF c
<1>4. Alike(s, t) /\ t.incomplete = c
  BY <1>2, <1>3, EditedAlike
<1> QED
  BY <1>2, <1>4

\* Begun or failed, the replay of the next entry is in step with the engine.
Follows(s, e) == Emission(e) /\ \A t : t = ApplyEntry(s, e) => Sim(t)'

\* What the simulation says in any mode.
LEMMA SimIs ==
  ASSUME NEW s, Sim(s)
  PROVE  /\ PlanSound /\ StepsSound /\ ReplayForm(s) /\ s \in ReplayStates
         /\ ops \in Nat /\ NextOp = ops + 1 /\ NextOp \in Nat
         /\ mode = "update" => Updating(s)
         /\ \A u \in Urns : step[u] \in StepRecords
         /\ \A k \in DOMAIN s.new : s.new[k].op \in 1..ops /\ s.new[k].op # NextOp
         /\ Ops(s.incomplete) = Running /\ Running \subseteq 1..ops /\ NextOp \notin Running
         /\ \A u \in Urns : step[u].at \notin {"todo", "done"} => mode = "update"
<1>1. ops \in Nat /\ NextOp = ops + 1 /\ NextOp \in Nat /\ NextOp \notin 1..ops
  BY DEF Sim, StepsSound, NextOp
<1>2. \A k \in DOMAIN s.new : s.new[k].op \in 1..ops
  BY DEF Sim, ReplayForm
<1>3. \A u \in Urns : step[u].at \notin {"todo", "done"} => mode = "update"
  BY DEF Sim, StepsSound, Refreshing
<1> QED
  BY <1>1, <1>2, <1>3 DEF Sim, StepsSound, ReplayForm

\* The beginning of a step: the replay follows.
LEMMA BeginStepSim ==
  ASSUME NEW s, Sim(s), journal \in Seq(Entries), NEW u \in Urns, NEW k \in StepsFor(u),
         BeginStep(u, k)
  PROVE  \E e : Follows(s, e)
<1> DEFINE now == [kind |-> k, op |-> NextOp, at |-> "running", again |-> FALSE]
           o == OperationOf(k)
           e == [NoEntry EXCEPT !.op = NextOp, !.operation = o, !.elide = k = "same"]
           r == IF k = "same" THEN Running ELSE Running \cup {NextOp}
<1>1. /\ PlanSound /\ StepsSound /\ ReplayForm(s) /\ s \in ReplayStates /\ Updating(s)
      /\ ops \in Nat /\ NextOp = ops + 1 /\ NextOp \in Nat /\ mode = "update"
  BY SimIs DEF BeginStep
<1>2. /\ k \in {"same", "updating", "replacing", "recreating", "creating"}
      /\ InBase(u) <=> k # "creating"
      /\ k = "same" => plan[IndexOf(u)].deps = NewDeps[u]
  BY DEF StepsFor
<1>3. /\ k = "same" => o = None
      /\ k # "same" => o \in OperationTypes /\ o # None
  BY <1>2, JournalAssumption DEF OperationOf, OperationTypes
<1>4. /\ e \in Entries /\ e.kind = "begin" /\ e.op = NextOp /\ e.operation = o
      /\ e.elide <=> k = "same"
  BY <1>1, <1>3, NoEntryIs DEF Entries
<1>5. Steps(u, now)
  BY <1>1, <1>2 DEF BeginStep, Steps, StepRecords
<1> HIDE DEF o
<1>6. Emission(e) /\ World' = World /\ Running' = r
  <2>1. Emit(e, World, r)
    BY DEF BeginStep, o
  <2> HIDE DEF e
  <2>2. e.elide => World = World /\ r = Running
    BY <1>4
  <2> HIDE DEF r
  <2> QED
    BY <1>4, <2>1, <2>2, Emitted
<1> HIDE DEF e
<1> SUFFICES ASSUME NEW t, t = ApplyEntry(s, e) PROVE Sim(t)'
  BY <1>6 DEF Follows
<1>7. Alike(s, t) /\ Ops(t.incomplete) = Running'
  <2>1. CASE k = "same"
    <3>1. t = s
      BY <1>3, <1>4, <2>1, ElidedBeginEffect
    <3> QED
      BY <1>1, <1>6, <2>1, <3>1 DEF Alike, ReplayForm
  <2>2. CASE k # "same"
    BY <1>1, <1>3, <1>4, <1>6, <2>2, BegunState DEF ReplayForm
  <2> QED
    BY <2>1, <2>2
<1>8. step[u].at = "todo" /\ u \in Program /\ Ready(u)
  BY DEF BeginStep
<1>9. u \notin NewUrns(s)
  BY <1>1, <1>8 DEF NewUrns, Updating, NewSound, Over
<1>10. /\ step'[u] = now /\ plan' = plan /\ Running' \subseteq Running \cup {NextOp}
  BY <1>1, <1>5, <1>6, StepsStep DEF Steps
<1>11. Kept(t)' = Kept(s) /\ NewUrns(t)' = NewUrns(s)
  BY <1>7, <1>10 DEF Kept, NewUrns, Alike
<1>12. StepSound(t, u)'
  <2>1. NewDeps[u] \subseteq NewUrns(s)
    <3>1. \A d \in NewDeps[u] : d \in Urns
      BY JournalAssumption
    <3> QED
      BY <1>1, <1>8, <3>1 DEF Ready, Updating, StepSound
  <2>2. \A i \in DOMAIN t.new : t.new[i].op # NextOp
    BY <1>7, SimIs DEF Alike
  <2>3. InBase(u)' = InBase(u) /\ IndexOf(u)' = IndexOf(u)
    BY <1>10 DEF InBase, IndexOf
  <2>4. k = "same" => NextOp \notin Running'
    BY <1>6, SimIs
  <2> QED
    BY <1>2, <1>8, <1>10, <1>11, <2>1, <2>2, <2>3, <2>4 DEF StepSound
<1>13. ASSUME NEW i \in DOMAIN plan, plan[i].urn = u
       PROVE  OldSound(t, i)'
  <2>1. OldSound(s, i)
    BY <1>1 DEF Updating
  <2> QED
    BY <1>7, <1>8, <1>10, <1>11, <1>13, <2>1 DEF OldSound, Alike
<1>14. now.op = NextOp
  OBVIOUS
<1> HIDE DEF now
<1> QED
  BY <1>1, <1>5, <1>6, <1>7, <1>9, <1>10, <1>12, <1>13, <1>14, Unmoved DEF Alike

\* The second half of a recreation begins: the replay follows.
LEMMA RecreateSim ==
  ASSUME NEW s, Sim(s), journal \in Seq(Entries), NEW u \in Urns, Recreate(u)
  PROVE  \E e : Follows(s, e)
<1> DEFINE now == [kind |-> "creating", op |-> NextOp, at |-> "running", again |-> TRUE]
           e == [NoEntry EXCEPT !.op = NextOp, !.operation = "creating"]
           r == Running \cup {NextOp}
<1>1. /\ PlanSound /\ StepsSound /\ ReplayForm(s) /\ s \in ReplayStates /\ Updating(s)
      /\ ops \in Nat /\ NextOp = ops + 1 /\ NextOp \in Nat /\ mode = "update"
  BY SimIs DEF Recreate
<1>2. "creating" \in OperationTypes /\ "creating" # None
  BY JournalAssumption DEF OperationTypes
<1>3. e \in Entries /\ e.kind = "begin" /\ e.op = NextOp /\ e.operation = "creating" /\ ~e.elide
  BY <1>1, <1>2, NoEntryIs DEF Entries
<1>4. Steps(u, now)
  BY <1>1 DEF Recreate, Steps, StepRecords
<1>5. Emission(e) /\ World' = World /\ Running' = r
  <2>1. Emit(e, World, r)
    BY DEF Recreate
  <2> HIDE DEF e, r
  <2> QED
    BY <1>3, <2>1, Emitted
<1> HIDE DEF e
<1> SUFFICES ASSUME NEW t, t = ApplyEntry(s, e) PROVE Sim(t)'
  BY <1>5 DEF Follows
<1>6. Alike(s, t) /\ Ops(t.incomplete) = Running'
  BY <1>1, <1>2, <1>3, <1>5, BegunState DEF ReplayForm
<1>7. step[u].at = "gone" /\ StepSound(s, u)
  BY <1>1 DEF Recreate, Updating
<1>8. u \notin NewUrns(s)
  BY <1>1, <1>7 DEF NewUrns, Updating, NewSound, Over
<1>9. /\ step'[u] = now /\ plan' = plan /\ Running' \subseteq Running \cup {NextOp}
  BY <1>1, <1>4, <1>5, StepsStep DEF Steps
<1>10. Kept(t)' = Kept(s) /\ NewUrns(t)' = NewUrns(s)
  BY <1>6, <1>9 DEF Kept, NewUrns, Alike
<1>11. StepSound(t, u)'
  <2>1. \A i \in DOMAIN t.new : t.new[i].op # NextOp
    BY <1>6, SimIs DEF Alike
  <2>2. InBase(u)' = InBase(u)
    BY <1>9 DEF InBase
  <2> QED
    BY <1>7, <1>9, <1>10, <2>1, <2>2 DEF StepSound
<1>12. ASSUME NEW i \in DOMAIN plan, plan[i].urn = u
       PROVE  OldSound(t, i)'
  <2>1. OldSound(s, i)
    BY <1>1 DEF Updating
  <2> QED
    BY <1>6, <1>7, <1>9, <1>10, <1>12, <2>1 DEF OldSound, Alike
<1>13. now.op = NextOp
  OBVIOUS
<1> HIDE DEF now
<1> QED
  BY <1>1, <1>4, <1>5, <1>6, <1>8, <1>9, <1>11, <1>12, <1>13, Unmoved DEF Alike

\* A step fails: the replay follows.
LEMMA FailSim ==
  ASSUME NEW s, Sim(s), journal \in Seq(Entries), NEW u \in Urns, Fail(u)
  PROVE  \E e : Follows(s, e)
<1> DEFINE now == [step[u] EXCEPT !.at = "failed"]
           o == step[u].op
           e == [NoEntry EXCEPT !.kind = "failure", !.op = o]
           r == Running \ {o}
<1>1. /\ PlanSound /\ StepsSound /\ ReplayForm(s) /\ s \in ReplayStates /\ Updating(s)
      /\ step[u] \in StepRecords /\ mode = "update" /\ step[u].at = "running"
  BY SimIs DEF Fail
<1>2. now \in StepRecords /\ now.op = o /\ now.at = "failed" /\ now.again = step[u].again
      /\ now.kind = step[u].kind /\ o \in Nat
  BY <1>1 DEF StepRecords
<1>3. e \in Entries /\ e.kind = "failure" /\ e.op = o /\ ~e.elide
  BY <1>2, NoEntryIs DEF Entries
<1>4. Steps(u, now)
  <2>1. step' = [step EXCEPT ![u] = now]
    BY <1>1 DEF Fail, StepsSound
  <2> HIDE DEF now
  <2> QED
    BY <1>1, <1>2, <2>1 DEF Fail, Steps
<1>5. Emission(e) /\ World' = World /\ Running' = r
  <2>1. Emit(e, World, r)
    BY DEF Fail
  <2> HIDE DEF e, r
  <2> QED
    BY <1>3, <2>1, Emitted
<1> HIDE DEF e
<1> SUFFICES ASSUME NEW t, t = ApplyEntry(s, e) PROVE Sim(t)'
  BY <1>5 DEF Follows
<1>6. Alike(s, t) /\ Ops(t.incomplete) = Running'
  BY <1>1, <1>3, <1>5, FailedState DEF ReplayForm
<1>7. StepSound(s, u)
  BY <1>1 DEF Updating
<1>8. u \notin NewUrns(s)
  BY <1>1 DEF NewUrns, Updating, NewSound, Over
<1>9. /\ step'[u] = now /\ plan' = plan /\ Running' \subseteq Running \cup {o}
  BY <1>1, <1>4, <1>5, StepsStep DEF Steps
<1> HIDE DEF now
<1>10. Kept(t)' = Kept(s) /\ NewUrns(t)' = NewUrns(s)
  BY <1>6, <1>9 DEF Kept, NewUrns, Alike
<1>11. StepSound(t, u)'
  BY <1>1, <1>2, <1>7, <1>9, <1>10 DEF StepSound
<1>12. ASSUME NEW i \in DOMAIN plan, plan[i].urn = u
       PROVE  OldSound(t, i)'
  <2>1. OldSound(s, i)
    BY <1>1 DEF Updating
  <2> QED
    BY <1>1, <1>2, <1>6, <1>9, <1>10, <1>12, <2>1 DEF OldSound, Alike
<1> QED
  BY <1>1, <1>2, <1>4, <1>5, <1>6, <1>8, <1>9, <1>11, <1>12, Unmoved DEF Alike

\* The index of a resource in the plan.
LEMMA IndexIs ==
  ASSUME PlanSound, NEW u
  PROVE  /\ InBase(u) => IndexOf(u) \in DOMAIN plan /\ plan[IndexOf(u)].urn = u
         /\ \A i \in DOMAIN plan : plan[i].urn = u => InBase(u) /\ IndexOf(u) = i
<1>1. DOMAIN plan = 1..Len(plan)
  BY LenProperties DEF PlanSound
<1>2. InBase(u) => IndexOf(u) \in DOMAIN plan /\ plan[IndexOf(u)].urn = u
  BY <1>1 DEF InBase, IndexOf
<1>3. \A i \in DOMAIN plan : plan[i].urn = u => InBase(u)
  BY <1>1 DEF InBase
<1> QED
  BY <1>2, <1>3 DEF PlanSound

\* What there is of a resource that is left in the base, and what there is besides.
LEMMA OldIs ==
  ASSUME NEW s, PlanSound, ReplayForm(s), Updating(s), NEW i \in Kept(s), NEW u, plan[i].urn = u
  PROVE  /\ OldOf(u) = {Marked(s, i)}
         /\ World \ OldOf(u) =
              {Marked(s, j) : j \in Kept(s) \ {i}} \cup {s.new[k].res : k \in DOMAIN s.new}
<1>1. /\ i \in DOMAIN plan /\ \A j \in Kept(s) : j \in DOMAIN plan
  BY DEF Kept
<1>2. ASSUME NEW j \in Kept(s)
      PROVE  Marked(s, j).urn = plan[j].urn /\ Marked(s, j).gen \in {Original, Refreshed}
  <2>1. j \in DOMAIN plan /\ j \notin DOMAIN s.replace
    BY <1>1 DEF Updating
  <2> QED
    BY <2>1, MarkedIs DEF PlanSound
<1>3. \A j \in Kept(s) : j # i => plan[j].urn # u
  BY <1>1 DEF PlanSound
<1>4. \A k \in DOMAIN s.new : s.new[k].res.gen \in {Original, Refreshed} => s.new[k].res.urn # u
  BY DEF Updating, NewSound
<1>5. OldOf(u) = {Marked(s, i)}
  <2>1. Marked(s, i) \in OldOf(u)
    BY <1>2 DEF OldOf, Updating
  <2>2. ASSUME NEW r \in OldOf(u)
        PROVE  r = Marked(s, i)
    <3>1. r \in World /\ r.urn = u /\ r.gen \in {Original, Refreshed}
      BY DEF OldOf
    <3>2. PICK j \in Kept(s) : r = Marked(s, j)
      BY <1>4, <3>1 DEF Updating
    <3> QED
      BY <1>2, <1>3, <3>1, <3>2
  <2> QED
    BY <2>1, <2>2
<1>6. \A j \in Kept(s) : j # i => Marked(s, j) # Marked(s, i)
  BY <1>2, <1>3
<1>7. \A k \in DOMAIN s.new : s.new[k].res # Marked(s, i)
  BY <1>2, <1>4
<1> QED
  BY <1>5, <1>6, <1>7 DEF Updating

\* A deletion begins: the replay follows.
LEMMA BeginDeleteSim ==
  ASSUME NEW s, Sim(s), journal \in Seq(Entries), NEW u \in Urns, BeginDelete(u)
  PROVE  \E e : Follows(s, e)
<1> DEFINE now == [kind |-> "deleting", op |-> NextOp, at |-> "deleting", again |-> FALSE]
           e == [NoEntry EXCEPT !.op = NextOp, !.operation = "deleting"]
           r == Running \cup {NextOp}
<1>1. /\ PlanSound /\ StepsSound /\ ReplayForm(s) /\ s \in ReplayStates /\ Updating(s)
      /\ ops \in Nat /\ NextOp = ops + 1 /\ NextOp \in Nat /\ mode = "update"
  BY SimIs DEF BeginDelete
<1>2. "deleting" \in OperationTypes /\ "deleting" # None
  BY JournalAssumption DEF OperationTypes
<1>3. e \in Entries /\ e.kind = "begin" /\ e.op = NextOp /\ e.operation = "deleting" /\ ~e.elide
  BY <1>1, <1>2, NoEntryIs DEF Entries
<1>4. Steps(u, now)
  BY <1>1 DEF BeginDelete, Steps, StepRecords
<1>5. Emission(e) /\ World' = World /\ Running' = r
  <2>1. Emit(e, World, r)
    BY DEF BeginDelete
  <2> HIDE DEF e, r
  <2> QED
    BY <1>3, <2>1, Emitted
<1> HIDE DEF e
<1> SUFFICES ASSUME NEW t, t = ApplyEntry(s, e) PROVE Sim(t)'
  BY <1>5 DEF Follows
<1>6. Alike(s, t) /\ Ops(t.incomplete) = Running'
  BY <1>1, <1>2, <1>3, <1>5, BegunState DEF ReplayForm
<1>7. /\ step'[u] = now /\ plan' = plan /\ Running' \subseteq Running \cup {NextOp}
  BY <1>1, <1>4, <1>5, StepsStep DEF Steps
<1>8. Kept(t)' = Kept(s) /\ NewUrns(t)' = NewUrns(s)
  BY <1>6, <1>7 DEF Kept, NewUrns, Alike
<1>9. Program \subseteq NewUrns(s)
  <2> SUFFICES ASSUME NEW p \in Program PROVE p \in NewUrns(s)
    OBVIOUS
  <2>1. p \in Urns /\ step[p].at \in {"done", "told", "deleting", "deleted"}
    BY JournalAssumption DEF BeginDelete
  <2>2. StepSound(s, p)
    BY <1>1, <2>1 DEF Updating
  <2> QED
    BY <2>1, <2>2 DEF StepSound
<1>10. ASSUME NEW i \in Kept(s)
       PROVE  /\ Marked(s, i) \in Doomed
              /\ Marked(s, i).urn = plan[i].urn /\ Marked(s, i).deps = plan[i].deps
  <2>1. i \in DOMAIN plan /\ i \notin DOMAIN s.replace
    BY <1>1 DEF Kept, Updating
  <2>2. /\ Marked(s, i).urn = plan[i].urn /\ Marked(s, i).deps = plan[i].deps
        /\ Marked(s, i).gen \in {Original, Refreshed}
        /\ Marked(s, i).delete <=> i \in s.markDelete
    BY <1>1, <2>1, MarkedIs DEF PlanSound
  <2>3. Marked(s, i) \in World
    BY <1>1 DEF Updating
  <2>4. plan[i].urn \in Program => i \in s.markDelete
    BY <1>1, <1>9, <2>1 DEF Updating, OldSound
  <2> QED
    BY <2>2, <2>3, <2>4 DEF Doomed
<1>11. PICK i \in Kept(s) : plan[i].urn = u
  <2>1. PICK d \in Doomed : d.urn = u
    BY DEF BeginDelete
  <2>2. d \in World /\ (d.delete \/ d.urn \notin Program)
    BY <2>1 DEF Doomed
  <2>3. \A k \in DOMAIN s.new : ~s.new[k].res.delete /\ s.new[k].res.urn \in Program
    BY <1>1 DEF Updating, NewSound
  <2>4. PICK i \in Kept(s) : d = Marked(s, i)
    BY <1>1, <2>2, <2>3 DEF Updating
  <2> QED
    BY <1>10, <2>1, <2>4
<1>12. \A j \in Kept(s) : u \notin plan[j].deps
  BY <1>10 DEF BeginDelete
<1>13. InBase(u) /\ IndexOf(u) = i
  BY <1>1, <1>11, IndexIs DEF Kept
<1>14. StepSound(t, u)'
  <2>1. InBase(u)' = InBase(u) /\ IndexOf(u)' = IndexOf(u)
    BY <1>7 DEF InBase, IndexOf
  <2> QED
    BY <1>7, <1>8, <1>9, <1>11, <1>12, <1>13, <2>1 DEF StepSound
<1>15. ASSUME NEW j \in DOMAIN plan, plan[j].urn = u
       PROVE  OldSound(t, j)'
  <2>1. OldSound(s, j)
    BY <1>1 DEF Updating
  <2> QED
    BY <1>6, <1>7, <1>8, <1>15, <2>1 DEF OldSound, Alike
<1>16. now.op = NextOp /\ now.at = "deleting"
  OBVIOUS
<1> HIDE DEF now
<1> QED
  BY <1>1, <1>4, <1>5, <1>6, <1>7, <1>14, <1>15, <1>16, Unmoved DEF Alike

\* What the success of an operation leaves of the state of a replay.
Succeeded(s, e, t) ==
    /\ t \in ReplayStates /\ t.base = s.base /\ t.replace = s.replace
    /\ t.new = IF e.state = None THEN s.new ELSE Append(s.new, [op |-> e.op, res |-> e.state])
    /\ Ops(t.incomplete) = Ops(s.incomplete) \ {e.op}
    /\ t.remove = s.remove \cup IndexOld(e.removeOld)
    /\ t.markDelete = s.markDelete \cup IndexOld(e.deleteOld)
    /\ t.markPending = s.markPending \cup IndexOld(e.pendingOld)

\* The replay state after it.
LEMMA SucceededState ==
  ASSUME NEW s \in ReplayStates, NEW e \in Entries, e.kind = "success",
         e.removeNew = None, e.deleteNew = None, NEW t, t = ApplyEntry(s, e)
  PROVE  Succeeded(s, e, t)
<1> DEFINE made == IF e.state = None THEN s.new ELSE Append(s.new, [op |-> e.op, res |-> e.state])
           c == Completed(s, e.op)
           x == s.remove \cup IndexOld(e.removeOld)
           y == s.markDelete \cup IndexOld(e.deleteOld)
           z == s.markPending \cup IndexOld(e.pendingOld)
<1>1. /\ e.op \in Nat /\ (e.state = None \/ e.state \in Resources)
      /\ IndexOld(e.removeOld) \subseteq Nat /\ IndexOld(e.deleteOld) \subseteq Nat
      /\ IndexOld(e.pendingOld) \subseteq Nat
  BY DEF Entries, IndexOld
<1>2. /\ s.new \in Seq([op : Nat, res : Resources]) /\ s.incomplete \in Seq(Operations)
      /\ s.remove \in SUBSET Nat /\ s.markDelete \in SUBSET Nat /\ s.markPending \in SUBSET Nat
  BY DEF ReplayStates
<1>3. c \in Seq(Operations) /\ Ops(c) = Ops(s.incomplete) \ {e.op}
  BY <1>2, CompletedOps
<1>4. x \in SUBSET Nat /\ y \in SUBSET Nat /\ z \in SUBSET Nat
  BY <1>1, <1>2
<1>5. made \in Seq([op : Nat, res : Resources])
  <2>1. CASE e.state = None
    BY <1>2, <2>1
  <2>2. CASE e.state # None
    <3>1. [op |-> e.op, res |-> e.state] \in [op : Nat, res : Resources]
      BY <1>1, <2>2
    <3> QED
      BY <1>2, <2>2, <3>1, AppendProperties
  <2> QED
    BY <2>1, <2>2
<1>6. t = Edited(s, made, c, x, y, z)
  BY <1>1, SuccessEffect
<1> HIDE DEF made, c, x, y, z
<1>7. /\ t \in ReplayStates /\ t.base = s.base /\ t.replace = s.replace
      /\ t.new = made /\ t.incomplete = c /\ t.remove = x /\ t.markDelete = y /\ t.markPending = z
  BY <1>3, <1>4, <1>5, <1>6 DEF ReplayStates, Edited
<1> QED
  BY <1>3, <1>7 DEF made, x, y, z, Succeeded

\* A deletion ends: the replay follows.
LEMMA EndDeleteSim ==
  ASSUME NEW s, Sim(s), journal \in Seq(Entries), NEW u \in Urns, EndDelete(u)
  PROVE  \E e : Follows(s, e)
<1> DEFINE now == [step[u] EXCEPT !.at = "deleted"]
           o == step[u].op
           i == IndexOf(u)
           e == [NoEntry EXCEPT !.kind = "success", !.op = o, !.removeOld = i]
           w == World \ OldOf(u)
           r == Running \ {o}
<1>1. /\ PlanSound /\ StepsSound /\ ReplayForm(s) /\ s \in ReplayStates /\ Updating(s)
      /\ step[u] \in StepRecords /\ mode = "update" /\ step[u].at = "deleting"
  BY SimIs DEF EndDelete
<1>2. now \in StepRecords /\ now.op = o /\ now.at = "deleted" /\ now.again = step[u].again
      /\ now.kind = step[u].kind /\ o \in Nat
  BY <1>1 DEF StepRecords
<1>3. StepSound(s, u) /\ i \in Kept(s) /\ i \in DOMAIN plan /\ plan[i].urn = u /\ i \in Nat
  <2>1. StepSound(s, u)
    BY <1>1 DEF Updating
  <2>2. InBase(u) /\ i \in Kept(s)
    BY <1>1, <2>1 DEF StepSound
  <2> QED
    BY <1>1, <2>1, <2>2, IndexIs, SimFacts
<1>4. /\ e \in Entries /\ e.kind = "success" /\ e.op = o /\ ~e.elide
      /\ e.removeNew = None /\ e.deleteNew = None /\ e.state = None
      /\ e.removeOld = i /\ e.deleteOld = None /\ e.pendingOld = None
  BY <1>2, <1>3, NoEntryIs DEF Entries
<1>5. Steps(u, now)
  <2>1. step' = [step EXCEPT ![u] = now]
    BY <1>1 DEF EndDelete, StepsSound
  <2> HIDE DEF now
  <2> QED
    BY <1>1, <1>2, <2>1 DEF EndDelete, Steps
<1>6. Emission(e) /\ World' = w /\ Running' = r
  <2>1. Emit(e, w, r)
    BY DEF EndDelete
  <2> HIDE DEF e, r, w
  <2> QED
    BY <1>4, <2>1, Emitted
<1> HIDE DEF e
<1> SUFFICES ASSUME NEW t, t = ApplyEntry(s, e) PROVE Sim(t)'
  BY <1>6 DEF Follows
<1>7. i # None /\ IndexOld(i) = {i} /\ IndexOld(None) = {}
  BY <1>3, JournalAssumption DEF IndexOld
<1>8. /\ t \in ReplayStates /\ t.base = s.base /\ t.replace = s.replace /\ t.new = s.new
      /\ Ops(t.incomplete) = Ops(s.incomplete) \ {o} /\ t.remove = s.remove \cup {i}
      /\ t.markDelete = s.markDelete /\ t.markPending = s.markPending
  <2>1. Succeeded(s, e, t)
    BY <1>1, <1>4, SucceededState
  <2> HIDE DEF i
  <2> QED
    BY <1>4, <1>7, <2>1 DEF Succeeded
<1>9. /\ step'[u] = now /\ \A v \in Urns : v # u => step'[v] = step[v]
  BY <1>1, <1>5, StepsStep
<1>10. plan' = plan /\ ops' = ops
  BY DEF EndDelete
<1> HIDE DEF now
<1>11. /\ Kept(t) = Kept(s) \ {i} /\ Kept(t)' = Kept(t)
       /\ NewUrns(t)' = NewUrns(s) /\ NewUrns(t) = NewUrns(s)
  BY <1>8, <1>10 DEF Kept, NewUrns
<1>12. NewSound(t)'
  BY <1>1, <1>2, <1>5, <1>8, <1>11, NewStays DEF Updating
<1>13. StepSound(t, u)'
  BY <1>1, <1>2, <1>3, <1>9, <1>11 DEF StepSound
<1>14. ASSUME NEW v \in Urns, v # u
       PROVE  StepSound(t, v)'
  <2>1. StepSound(s, v)
    BY <1>1 DEF Updating
  <2>2. step[v].at = "running" => \A k \in DOMAIN t.new : t.new[k].op # step[v].op
    BY <1>8, <2>1 DEF StepSound
  <2>3. step[v].at = "deleting" => IndexOf(v) \in Kept(t)
    <3>1. step[v].at = "deleting" => InBase(v) /\ IndexOf(v) \in Kept(s)
      BY <2>1 DEF StepSound
    <3>2. InBase(v) => plan[IndexOf(v)].urn = v
      BY <1>1, IndexIs
    <3> QED
      BY <1>3, <1>11, <1>14, <3>1, <3>2
  <2>4. step[v].at = "running" => (step[v].op \in Running' => step[v].op \in Running)
    BY <1>6
  <2> QED
    BY <1>9, <1>10, <1>11, <1>14, <2>1, <2>2, <2>3, <2>4, OtherStep
<1>15. ASSUME NEW j \in DOMAIN plan
       PROVE  OldSound(t, j)'
  <2>1. OldSound(s, j)
    BY <1>1 DEF Updating
  <2>2. plan[j].urn \in Urns
    BY <1>1, SimFacts DEF Resources
  <2>3. CASE j = i
    BY <1>2, <1>3, <1>9, <1>10, <1>11, <2>3 DEF OldSound
  <2>4. CASE j # i
    <3>1. plan[j].urn # u
      BY <1>1, <1>3, <2>4 DEF PlanSound
    <3>2. step'[plan[j].urn] = step[plan[j].urn]
      BY <1>9, <2>2, <3>1
    <3>3. ASSUME j \in Kept(t)
          PROVE  plan[j].deps \subseteq NewUrns(s) \cup {plan[m].urn : m \in Kept(t) \cap 1..(j - 1)}
      <4>1. plan[j].deps \subseteq NewUrns(s) \cup {plan[m].urn : m \in Kept(s) \cap 1..(j - 1)}
        BY <1>11, <2>1, <3>3 DEF OldSound
      <4>2. u \notin plan[j].deps
        BY <1>1, <1>3, <1>11, <3>3 DEF StepSound
      <4> QED
        BY <1>3, <1>11, <4>1, <4>2
    <3> QED
      BY <1>8, <1>10, <1>11, <2>1, <2>4, <3>2, <3>3 DEF OldSound
  <2> QED
    BY <2>3, <2>4
<1>16. World' = {Marked(t, j) : j \in Kept(t)} \cup {t.new[k].res : k \in DOMAIN t.new}
  <2>1. \A j : Marked(t, j) = Marked(s, j)
    BY <1>8 DEF Marked
  <2>2. w = {Marked(s, j) : j \in Kept(s) \ {i}} \cup {s.new[k].res : k \in DOMAIN s.new}
    <3> HIDE DEF i
    <3> QED
      BY <1>1, <1>3, OldIs
  <2> HIDE DEF w
  <2> QED
    BY <1>6, <1>8, <1>11, <2>1, <2>2
<1>17. \A k \in DOMAIN t.new : t.new[k].op \in 1..ops'
  BY <1>8, <1>10, SimIs
<1>18. Ops(t.incomplete) = Running' /\ Running' \subseteq Running \cup {now.op}
  BY <1>1, <1>6, <1>8 DEF ReplayForm
<1>19. \A v \in Urns : StepSound(t, v)'
  BY <1>13, <1>14
<1> QED
  BY <1>1, <1>5, <1>8, <1>12, <1>15, <1>16, <1>17, <1>18, <1>19, Assembled

\* The step now of u has made res; of what the update found of it, X is removed and
\* Y marked to be deleted.
Makes(s, t, u, now, res, X, Y) ==
    /\ mode = "update" /\ u \in Urns /\ u \in Program /\ step[u].at = "running"
    /\ Steps(u, now) /\ ops' = ops /\ now.at = "done" /\ now.op = step[u].op
    /\ now.kind = step[u].kind /\ now.again = step[u].again
    /\ res \in Resources /\ res.urn = u /\ ~res.delete /\ res.deps = NewDeps[u]
    /\ res = NewOf(u) \/ (now.kind = "same" /\ Y = {})
    /\ \A j \in X : j \in DOMAIN plan /\ plan[j].urn = u
    /\ \A j \in Y : j \in DOMAIN plan /\ plan[j].urn = u
    /\ \A j \in DOMAIN plan : plan[j].urn = u => j \in X \/ j \in Y
    /\ t \in ReplayStates /\ t.base = s.base /\ t.replace = s.replace
    /\ t.new = Append(s.new, [op |-> now.op, res |-> res])
    /\ Ops(t.incomplete) = Running' /\ Running' = Running \ {now.op}
    /\ t.remove = s.remove \cup X /\ t.markDelete = s.markDelete \cup Y
    /\ t.markPending = s.markPending
    /\ World' = {Marked(t, j) : j \in Kept(t)} \cup {s.new[k].res : k \in DOMAIN s.new} \cup {res}

\* A step that has made a resource; what the update found of it goes, or is marked.
LEMMA MadeSim ==
  ASSUME NEW s, Sim(s), NEW t, NEW u, NEW now, NEW res, NEW X, NEW Y,
         Makes(s, t, u, now, res, X, Y)
  PROVE  Sim(t)'
<1>0.
  /\ mode = "update" /\ u \in Urns /\ u \in Program /\ step[u].at = "running"
  /\ Steps(u, now) /\ ops' = ops /\ now.at = "done" /\ now.op = step[u].op
  /\ now.kind = step[u].kind /\ now.again = step[u].again
  /\ res \in Resources /\ res.urn = u /\ ~res.delete /\ res.deps = NewDeps[u]
  /\ res = NewOf(u) \/ (now.kind = "same" /\ Y = {})
  /\ \A j \in X : j \in DOMAIN plan /\ plan[j].urn = u
  /\ \A j \in Y : j \in DOMAIN plan /\ plan[j].urn = u
  /\ \A j \in DOMAIN plan : plan[j].urn = u => j \in X \/ j \in Y
  /\ t \in ReplayStates /\ t.base = s.base /\ t.replace = s.replace
  /\ t.new = Append(s.new, [op |-> now.op, res |-> res])
  /\ Ops(t.incomplete) = Running' /\ Running' = Running \ {now.op}
  /\ t.remove = s.remove \cup X /\ t.markDelete = s.markDelete \cup Y
  /\ t.markPending = s.markPending
  /\ World' = {Marked(t, j) : j \in Kept(t)} \cup {s.new[k].res : k \in DOMAIN s.new} \cup {res}
  BY DEF Makes
<1> USE <1>0
<1> DEFINE N == Len(s.new)
           o == [op |-> now.op, res |-> res]
<1>1. /\ PlanSound /\ StepsSound /\ ReplayForm(s) /\ s \in ReplayStates /\ Updating(s)
      /\ \A v \in Urns : StepSound(s, v)
  BY SimIs DEF Updating
<1>2. /\ StepsSound' /\ ops' \in Nat /\ now.op \in 1..ops' /\ now.op \in Nat /\ step'[u] = now
      /\ \A v \in Urns : v # u => step'[v] = step[v]
      /\ \A v \in Urns : v # u => (step[v].op # now.op \/ step[v].op = 0)
  BY <1>1, StepsStep
<1>3. /\ N \in Nat /\ DOMAIN s.new = 1..N /\ DOMAIN t.new = 1..(N + 1)
      /\ (\A k \in 1..N : t.new[k] = s.new[k])
      /\ t.new[N + 1].op = now.op /\ t.new[N + 1].res = res
  <2>1. o \in [op : Nat, res : Resources] /\ o.op = now.op /\ o.res = res
    BY <1>2
  <2>2. s.new \in Seq([op : Nat, res : Resources])
    BY <1>1, SimFacts
  <2> HIDE DEF o
  <2> DEFINE a == Append(s.new, o)
  <2>3. /\ Len(s.new) \in Nat /\ DOMAIN s.new = 1..Len(s.new) /\ DOMAIN a = 1..(Len(s.new) + 1)
        /\ (\A k \in 1..Len(s.new) : a[k] = s.new[k]) /\ a[Len(s.new) + 1] = o
    BY <2>1, <2>2, Appended
  <2>4. t.new = a
    BY DEF o
  <2> HIDE DEF a
  <2> QED
    BY <2>1, <2>3, <2>4
<1> HIDE DEF N
<1>4. \A k \in DOMAIN t.new : k \in 1..N \/ k = N + 1
  BY <1>3
<1>5. u \notin NewUrns(s)
  BY <1>1 DEF NewUrns, Updating, NewSound, Over
<1>6. NewUrns(t) = NewUrns(s) \cup {u}
  <2>1. N + 1 \in DOMAIN t.new /\ \A k \in 1..N : k \in DOMAIN t.new
    BY <1>3
  <2> QED
    BY <1>3, <1>4, <2>1 DEF NewUrns
<1>7. plan' = plan /\ Kept(t)' = Kept(t) /\ NewUrns(t)' = NewUrns(t)
      /\ Kept(t) = Kept(s) \ X
  BY DEF Kept, NewUrns, Steps
<1>8. \A k \in 1..N : /\ s.new[k].op # now.op /\ s.new[k].res.urn # u /\ s.new[k].res.urn \in Urns
                      /\ step'[s.new[k].res.urn] = step[s.new[k].res.urn]
  <2> SUFFICES ASSUME NEW k \in 1..N
               PROVE  /\ s.new[k].op # now.op /\ s.new[k].res.urn # u /\ s.new[k].res.urn \in Urns
                      /\ step'[s.new[k].res.urn] = step[s.new[k].res.urn]
    OBVIOUS
  <2>1. k \in DOMAIN s.new
    BY <1>3
  <2>2. s.new[k].op # now.op
    BY <1>1, <2>1 DEF StepSound
  <2>3. s.new[k].res.urn # u
    BY <1>5, <2>1 DEF NewUrns
  <2>4. s.new[k].res.urn \in Urns
    BY <1>1, <2>1, SimFacts DEF Resources
  <2> QED
    BY <1>2, <2>2, <2>3, <2>4
<1>9. StepSound(s, u) /\ NewDeps[u] \subseteq NewUrns(s)
  BY <1>1 DEF StepSound
<1>10. NewSound(t)'
  <2>1. ASSUME NEW k \in DOMAIN t.new, NEW l \in DOMAIN t.new, k # l
        PROVE  t.new[k].op # t.new[l].op /\ t.new[k].res.urn # t.new[l].res.urn
    <3>1. CASE k \in 1..N /\ l \in 1..N
      BY <1>1, <1>3, <2>1, <3>1 DEF Updating, NewSound
    <3>2. CASE k = N + 1 /\ l \in 1..N
      BY <1>3, <1>8, <3>2
    <3>3. CASE k \in 1..N /\ l = N + 1
      BY <1>3, <1>8, <3>3
    <3> QED
      BY <1>4, <2>1, <3>1, <3>2, <3>3
  <2>2. ASSUME NEW k \in 1..N
        PROVE  LET r == s.new[k].res
                   x == step[r.urn] IN
               /\ r.urn \in Program /\ x.at \in Over
               /\ x.at \in {"done", "told"} => s.new[k].op = x.op
               /\ x.at = "done" /\ x.kind # "same" => r = NewOf(r.urn)
               /\ ~r.delete
               /\ r.gen \in {Original, Refreshed} => \A i \in Kept(t) : plan[i].urn # r.urn
               /\ \A d \in r.deps : \E j \in 1..(k - 1) : t.new[j].res.urn = d
    <3>1. k \in DOMAIN s.new /\ \A j \in 1..(k - 1) : j \in 1..N
      BY <1>3
    <3>2. \A d \in s.new[k].res.deps : \E j \in 1..(k - 1) : t.new[j].res.urn = d
      BY <1>1, <1>3, <3>1 DEF Updating, NewSound
    <3> QED
      BY <1>1, <1>7, <3>1, <3>2 DEF Updating, NewSound
  <2>3. \A d \in res.deps : \E j \in 1..((N + 1) - 1) : t.new[j].res.urn = d
    <3>1. (N + 1) - 1 = N
      BY <1>3
    <3>2. \A d \in NewUrns(s) : \E j \in 1..N : t.new[j].res.urn = d
      BY <1>3 DEF NewUrns
    <3> QED
      BY <1>9, <3>1, <3>2
  <2>4. now.kind # "same" => res = NewOf(u)
    OBVIOUS
  <2>5. res.gen \in {Original, Refreshed} => \A i \in Kept(t) : plan[i].urn # u
    <3>1. NewOf(u).gen = Planned
      BY DEF NewOf, Resource
    <3>2. CASE res = NewOf(u)
      BY <3>1, <3>2 DEF Planned, Original, Refreshed
    <3>3. CASE Y = {}
      <4>1. \A j \in Kept(t) : j \in DOMAIN plan
        BY DEF Kept
      <4> QED
        BY <1>7, <3>3, <4>1
    <3> QED
      BY <3>2, <3>3
  <2>6. ASSUME NEW k \in DOMAIN t.new
        PROVE  LET r == t.new[k].res
                   x == step'[r.urn] IN
               /\ r.urn \in Program /\ x.at \in Over
               /\ x.at \in {"done", "told"} => t.new[k].op = x.op
               /\ x.at = "done" /\ x.kind # "same" => r = NewOf(r.urn)
               /\ ~r.delete
               /\ r.gen \in {Original, Refreshed} => \A i \in Kept(t) : plan[i].urn # r.urn
               /\ \A d \in r.deps : \E j \in 1..(k - 1) : t.new[j].res.urn = d
    <3>1. CASE k \in 1..N
      <4>1. t.new[k] = s.new[k] /\ step'[s.new[k].res.urn] = step[s.new[k].res.urn]
        BY <1>3, <1>8, <3>1
      <4>2. step'[t.new[k].res.urn] = step[s.new[k].res.urn]
        BY <4>1
      <4>3. LET r == s.new[k].res
                x == step[r.urn] IN
            /\ r.urn \in Program /\ x.at \in Over
            /\ x.at \in {"done", "told"} => s.new[k].op = x.op
            /\ x.at = "done" /\ x.kind # "same" => r = NewOf(r.urn)
            /\ ~r.delete
            /\ r.gen \in {Original, Refreshed} => \A i \in Kept(t) : plan[i].urn # r.urn
            /\ \A d \in r.deps : \E j \in 1..(k - 1) : t.new[j].res.urn = d
        BY <2>2, <3>1
      <4> QED
        BY <4>1, <4>2, <4>3
    <3>2. CASE k = N + 1
      BY <1>2, <1>3, <2>3, <2>4, <2>5, <3>2 DEF Over
    <3> QED
      BY <1>4, <3>1, <3>2
  <2>7. \A k, l \in DOMAIN t.new :
           k # l => t.new[k].op # t.new[l].op /\ t.new[k].res.urn # t.new[l].res.urn
    BY <2>1
  <2>8. \A k \in DOMAIN t.new :
           LET r == t.new[k].res
               x == step'[r.urn] IN
           /\ r.urn \in Program /\ x.at \in Over
           /\ x.at \in {"done", "told"} => t.new[k].op = x.op
           /\ x.at = "done" /\ x.kind # "same" => r = NewOf(r.urn)
           /\ ~r.delete
           /\ r.gen \in {Original, Refreshed} => \A i \in Kept(t)' : plan'[i].urn # r.urn
           /\ \A d \in r.deps : \E j \in 1..(k - 1) : t.new[j].res.urn = d
    <3>1. plan' = plan /\ Kept(t)' = Kept(t)
      BY <1>7
    <3> SUFFICES ASSUME NEW k \in DOMAIN t.new
                 PROVE  LET r == t.new[k].res
                            x == step'[r.urn] IN
                        /\ r.urn \in Program /\ x.at \in Over
                        /\ x.at \in {"done", "told"} => t.new[k].op = x.op
                        /\ x.at = "done" /\ x.kind # "same" => r = NewOf(r.urn)
                        /\ ~r.delete
                        /\ r.gen \in {Original, Refreshed} => \A i \in Kept(t) : plan[i].urn # r.urn
                        /\ \A d \in r.deps : \E j \in 1..(k - 1) : t.new[j].res.urn = d
      BY <3>1
    <3> QED
      BY <2>6
  <2> QED
    BY <2>7, <2>8 DEF NewSound, NewOf
<1>11. StepSound(t, u)'
  BY <1>2, <1>6, <1>7, <1>9 DEF StepSound
<1>12. ASSUME NEW v \in Urns, v # u
       PROVE  StepSound(t, v)'
  <2>1. StepSound(s, v)
    BY <1>1
  <2>2. step[v].at = "running" => step[v].op # 0
    BY <1>1 DEF StepsSound
  <2>3. step[v].at = "running" => \A k \in DOMAIN t.new : t.new[k].op # step[v].op
    <3>1. step[v].at = "running" => \A k \in DOMAIN s.new : s.new[k].op # step[v].op
      BY <2>1 DEF StepSound
    <3> QED
      BY <1>2, <1>3, <1>4, <1>12, <2>2, <3>1
  <2>4. step[v].at = "deleting" => IndexOf(v) \in Kept(t)
    <3>1. step[v].at = "deleting" => InBase(v) /\ IndexOf(v) \in Kept(s)
      BY <2>1 DEF StepSound
    <3>2. InBase(v) => plan[IndexOf(v)].urn = v
      BY <1>1, IndexIs
    <3> QED
      BY <1>7, <1>12, <3>1, <3>2
  <2>5. NewUrns(s) \subseteq NewUrns(t) /\ Kept(t) \subseteq Kept(s)
    BY <1>6, <1>7
  <2> QED
    BY <1>2, <1>7, <1>12, <2>1, <2>3, <2>4, <2>5, OtherStep
<1>13. ASSUME NEW j \in DOMAIN plan
       PROVE  OldSound(t, j)'
  <2>1. OldSound(s, j)
    BY <1>1 DEF Updating
  <2>2. plan[j].urn \in Urns
    BY <1>1, SimFacts DEF Resources
  <2>3. j \in Kept(t) => plan[j].deps \subseteq NewUrns(t) \cup {plan[m].urn : m \in Kept(t) \cap 1..(j - 1)}
    <3>1. j \in Kept(t) => plan[j].deps \subseteq NewUrns(s) \cup {plan[m].urn : m \in Kept(s) \cap 1..(j - 1)}
      BY <1>7, <2>1 DEF OldSound
    <3> QED
      BY <1>6, <1>7, <3>1
  <2>4. CASE plan[j].urn = u
    <3>1. j \in Kept(t) => j \in t.markDelete
      BY <1>7, <2>4
    <3> QED
      BY <1>2, <1>7, <2>3, <2>4, <3>1 DEF OldSound
  <2>5. CASE plan[j].urn # u
    <3>1. step'[plan[j].urn] = step[plan[j].urn] /\ j \notin X /\ j \notin Y
      BY <1>2, <2>2, <2>5
    <3> QED
      BY <1>6, <1>7, <2>1, <2>3, <2>5, <3>1 DEF OldSound
  <2> QED
    BY <2>4, <2>5
<1>14. World' = {Marked(t, i) : i \in Kept(t)} \cup {t.new[k].res : k \in DOMAIN t.new}
  <2>1. {t.new[k].res : k \in DOMAIN t.new} = {s.new[k].res : k \in DOMAIN s.new} \cup {res}
    <3>1. N + 1 \in DOMAIN t.new /\ \A k \in 1..N : k \in DOMAIN t.new
      BY <1>3
    <3> QED
      BY <1>3, <1>4, <3>1
  <2> QED
    BY <2>1
<1>15. \A k \in DOMAIN t.new : t.new[k].op \in 1..ops'
  <2>1. \A k \in 1..N : s.new[k].op \in 1..ops'
    BY <1>3, SimIs
  <2> QED
    BY <1>2, <1>3, <1>4, <2>1
<1>16. Running' \subseteq Running \cup {now.op}
  OBVIOUS
<1>17. \A v \in Urns : StepSound(t, v)'
  BY <1>11, <1>12
<1> QED
  BY <1>10, <1>13, <1>14, <1>15, <1>16, <1>17, Assembled

\* The resource a step makes.
LEMMA NewOfIs ==
  ASSUME NEW u \in Urns
  PROVE  /\ NewOf(u) \in Resources /\ NewOf(u).urn = u /\ NewOf(u).gen = Planned
         /\ NewOf(u).deps = NewDeps[u] /\ ~NewOf(u).delete /\ ~NewOf(u).pendingReplacement
<1>1. NewDeps[u] \in SUBSET Urns /\ Planned \in Original..Registered
  BY JournalAssumption DEF Planned, Original, Registered
<1> QED
  BY <1>1 DEF NewOf, Resource, Resources

\* The entry e tells that u's step has made res, and what of the older ones, X, it
\* removes and, Y, marks to be deleted.
Tells(s, e, u, res, X, Y) ==
    /\ mode = "update" /\ u \in Urns /\ u \in Program /\ step[u].at = "running"
    /\ step' = [step EXCEPT ![u] = [@ EXCEPT !.at = "done"]] /\ UNCHANGED <<mode, plan, ops>>
    /\ res \in Resources /\ res.urn = u /\ ~res.delete /\ res.deps = NewDeps[u]
    /\ res = NewOf(u) \/ (step[u].kind = "same" /\ Y = {})
    /\ \A j \in X : j \in DOMAIN plan /\ plan[j].urn = u
    /\ \A j \in Y : j \in Kept(s) /\ plan[j].urn = u
    /\ \A j \in DOMAIN plan : plan[j].urn = u => j \in X \/ j \in Y
    /\ X \cap Y = {}
    /\ e \in Entries /\ e.kind = "success" /\ e.op = step[u].op /\ e.removeNew = None
    /\ e.deleteNew = None /\ e.pendingOld = None /\ e.state = res
    /\ IndexOld(e.removeOld) = X /\ IndexOld(e.deleteOld) = Y
    /\ Emission(e) /\ Running' = Running \ {step[u].op}
    /\ World' = {Marked(s, j) : j \in Kept(s) \ (X \cup Y)}
                  \cup {[Marked(s, j) EXCEPT !.delete = TRUE] : j \in Y}
                  \cup {s.new[k].res : k \in DOMAIN s.new} \cup {res}

\* The success of a step that makes a resource, by what it says of the older one.
LEMMA MadeFollows ==
  ASSUME NEW s, Sim(s), NEW e, NEW u, NEW res, NEW X, NEW Y, Tells(s, e, u, res, X, Y)
  PROVE  Follows(s, e)
<1>0.
  /\ mode = "update" /\ u \in Urns /\ u \in Program /\ step[u].at = "running"
  /\ step' = [step EXCEPT ![u] = [@ EXCEPT !.at = "done"]] /\ UNCHANGED <<mode, plan, ops>>
  /\ res \in Resources /\ res.urn = u /\ ~res.delete /\ res.deps = NewDeps[u]
  /\ res = NewOf(u) \/ (step[u].kind = "same" /\ Y = {})
  /\ \A j \in X : j \in DOMAIN plan /\ plan[j].urn = u
  /\ \A j \in Y : j \in Kept(s) /\ plan[j].urn = u
  /\ \A j \in DOMAIN plan : plan[j].urn = u => j \in X \/ j \in Y
  /\ X \cap Y = {}
  /\ e \in Entries /\ e.kind = "success" /\ e.op = step[u].op /\ e.removeNew = None
  /\ e.deleteNew = None /\ e.pendingOld = None /\ e.state = res
  /\ IndexOld(e.removeOld) = X /\ IndexOld(e.deleteOld) = Y
  /\ Emission(e) /\ Running' = Running \ {step[u].op}
  /\ World' = {Marked(s, j) : j \in Kept(s) \ (X \cup Y)}
                  \cup {[Marked(s, j) EXCEPT !.delete = TRUE] : j \in Y}
                  \cup {s.new[k].res : k \in DOMAIN s.new} \cup {res}
  BY DEF Tells
<1> USE <1>0
<1> DEFINE now == [step[u] EXCEPT !.at = "done"]
<1>1. /\ PlanSound /\ StepsSound /\ ReplayForm(s) /\ s \in ReplayStates /\ Updating(s)
      /\ step[u] \in StepRecords
  BY SimIs
<1>2. now \in StepRecords /\ now.op = step[u].op /\ now.at = "done" /\ now.again = step[u].again
      /\ now.kind = step[u].kind /\ step[u].op \in Nat
  BY <1>1 DEF StepRecords
<1>3. step' = [step EXCEPT ![u] = now]
  BY <1>1 DEF StepsSound
<1> HIDE DEF now
<1>4. Steps(u, now) /\ ops' = ops
  BY <1>2, <1>3 DEF Steps
<1> SUFFICES ASSUME NEW t, t = ApplyEntry(s, e) PROVE Sim(t)'
  BY DEF Follows
<1>6. Succeeded(s, e, t)
  BY <1>1, SucceededState
<1>7. e.state # None
  BY JournalAssumption
<1>8. IndexOld(e.pendingOld) = {}
  BY DEF IndexOld
<1>9. /\ t \in ReplayStates /\ t.base = s.base /\ t.replace = s.replace
      /\ t.new = Append(s.new, [op |-> now.op, res |-> res])
      /\ Ops(t.incomplete) = Running'
      /\ t.remove = s.remove \cup X /\ t.markDelete = s.markDelete \cup Y
      /\ t.markPending = s.markPending
  BY <1>1, <1>2, <1>6, <1>7, <1>8 DEF Succeeded, ReplayForm
<1>10. Kept(t) = Kept(s) \ X /\ \A j \in Kept(s) : j \in DOMAIN plan
  BY <1>9 DEF Kept
<1>11. \A j \in Kept(s) \ (X \cup Y) : Marked(t, j) = Marked(s, j)
  BY <1>9 DEF Marked
<1>12. ASSUME NEW j \in Y
       PROVE  Marked(t, j) = [Marked(s, j) EXCEPT !.delete = TRUE]
  <2>1. j \in DOMAIN plan /\ j \notin DOMAIN s.replace /\ j \notin DOMAIN t.replace
    BY <1>1, <1>9, <1>10 DEF Updating
  <2>2. s.base.resources = plan /\ t.base.resources = plan
    BY <1>1, <1>9 DEF ReplayForm
  <2>3. /\ Marked(s, j) \in Resources /\ Marked(s, j).urn = plan[j].urn
        /\ Marked(s, j).gen = plan[j].gen /\ Marked(s, j).deps = plan[j].deps
        /\ Marked(s, j).pendingReplacement <=> j \in s.markPending
    BY <1>1, <2>1, <2>2, MarkedAs
  <2>4. /\ Marked(t, j) \in Resources /\ Marked(t, j).urn = plan[j].urn
        /\ Marked(t, j).gen = plan[j].gen /\ Marked(t, j).deps = plan[j].deps
        /\ Marked(t, j).pendingReplacement <=> j \in t.markPending
        /\ Marked(t, j).delete <=> j \in t.markDelete
    BY <1>1, <2>1, <2>2, MarkedAs
  <2> DEFINE q == [Marked(s, j) EXCEPT !.delete = TRUE]
  <2>5. /\ q \in Resources /\ q.urn = plan[j].urn /\ q.gen = plan[j].gen /\ q.deps = plan[j].deps
        /\ q.pendingReplacement <=> j \in s.markPending
        /\ q.delete
    BY <2>3 DEF Resources
  <2> HIDE DEF q
  <2>6. Marked(t, j) = q
    BY <1>9, <2>4, <2>5, SameResource
  <2> QED
    BY <2>6 DEF q
<1>13. World' = {Marked(t, j) : j \in Kept(t)} \cup {s.new[k].res : k \in DOMAIN s.new} \cup {res}
  <2>1. Kept(t) = (Kept(s) \ (X \cup Y)) \cup Y
    BY <1>10
  <2>2. {Marked(t, j) : j \in Kept(t)} =
          {Marked(s, j) : j \in Kept(s) \ (X \cup Y)}
            \cup {[Marked(s, j) EXCEPT !.delete = TRUE] : j \in Y}
    <3>1. \A j \in Y : j \in Kept(t)
      BY <2>1
    <3>2. \A j \in Kept(t) : j \in Y \/ j \in Kept(s) \ (X \cup Y)
      BY <2>1
    <3>3. \A j \in Kept(s) \ (X \cup Y) : j \in Kept(t)
      BY <2>1
    <3> DEFINE A == {Marked(t, j) : j \in Kept(t)}
               B == {Marked(s, j) : j \in Kept(s) \ (X \cup Y)}
               C == {[Marked(s, j) EXCEPT !.delete = TRUE] : j \in Y}
    <3>4. A \subseteq B \cup C
      <4> SUFFICES ASSUME NEW j \in Kept(t) PROVE Marked(t, j) \in B \cup C
        OBVIOUS
      <4>1. CASE j \in Y
        BY <1>12, <4>1
      <4>2. CASE j \in Kept(s) \ (X \cup Y)
        BY <1>11, <4>2
      <4> QED
        BY <3>2, <4>1, <4>2
    <3>5. B \subseteq A
      BY <1>11, <3>3
    <3>6. C \subseteq A
      <4> SUFFICES ASSUME NEW j \in Y PROVE [Marked(s, j) EXCEPT !.delete = TRUE] \in A
        OBVIOUS
      <4>1. j \in Kept(t) /\ Marked(t, j) = [Marked(s, j) EXCEPT !.delete = TRUE]
        BY <1>12, <3>1
      <4> QED
        BY <4>1
    <3> QED
      BY <3>4, <3>5, <3>6
  <2> QED
    BY <2>2
<1>14. /\ \A j \in Y : j \in DOMAIN plan /\ plan[j].urn = u
       /\ res = NewOf(u) \/ (now.kind = "same" /\ Y = {})
       /\ Running' = Running \ {now.op}
  BY <1>2, <1>10
<1>15. Makes(s, t, u, now, res, X, Y)
  BY <1>2, <1>4, <1>9, <1>13, <1>14 DEF Makes
<1> QED
  BY <1>15, MadeSim

\* What the success of u's step says of itself.
SuccessOf(u) == [NoEntry EXCEPT !.kind = "success", !.op = step[u].op, !.elide = step[u].kind = "same"]

\* Its fields.
LEMMA SuccessOfIs ==
  ASSUME NEW u, step[u] \in StepRecords
  PROVE  /\ SuccessOf(u) \in Entries /\ SuccessOf(u).kind = "success" /\ SuccessOf(u).op = step[u].op
         /\ SuccessOf(u).removeNew = None /\ SuccessOf(u).deleteNew = None
         /\ SuccessOf(u).state = None /\ SuccessOf(u).removeOld = None
         /\ SuccessOf(u).deleteOld = None /\ SuccessOf(u).pendingOld = None
         /\ SuccessOf(u).elide <=> step[u].kind = "same"
BY NoEntryIs DEF SuccessOf, Entries, StepRecords

\* What holds when a step succeeds, whatever its kind.
LEMMA Succeeding ==
  ASSUME NEW s, Sim(s), NEW u \in Urns, Succeed(u)
  PROVE  /\ PlanSound /\ StepsSound /\ ReplayForm(s) /\ s \in ReplayStates /\ Updating(s)
         /\ mode = "update" /\ u \in Program /\ step[u].at = "running" /\ step[u] \in StepRecords
         /\ UNCHANGED <<mode, plan, ops>>
         /\ StepSound(s, u)
         /\ InBase(u) => /\ IndexOf(u) \in Kept(s) /\ IndexOf(u) \in DOMAIN plan /\ IndexOf(u) \in Nat
                         /\ plan[IndexOf(u)].urn = u /\ IndexOf(u) \notin s.markDelete
                         /\ ~step[u].again => IndexOf(u) \notin s.markPending
<1>1. /\ PlanSound /\ StepsSound /\ ReplayForm(s) /\ s \in ReplayStates /\ Updating(s)
      /\ mode = "update" /\ u \in Program /\ step[u].at = "running" /\ step[u] \in StepRecords
  BY SimIs, JournalAssumption DEF Succeed
<1>2. UNCHANGED <<mode, plan, ops>>
  BY DEF Succeed
<1>3. StepSound(s, u)
  BY <1>1 DEF Updating
<1>4. ASSUME InBase(u)
      PROVE  /\ IndexOf(u) \in Kept(s) /\ IndexOf(u) \in DOMAIN plan /\ IndexOf(u) \in Nat
             /\ plan[IndexOf(u)].urn = u /\ IndexOf(u) \notin s.markDelete
             /\ ~step[u].again => IndexOf(u) \notin s.markPending
  <2>1. IndexOf(u) \in DOMAIN plan /\ plan[IndexOf(u)].urn = u /\ IndexOf(u) \in Nat
    BY <1>1, <1>4, IndexIs, SimFacts
  <2>2. OldSound(s, IndexOf(u))
    BY <1>1, <2>1 DEF Updating
  <2> QED
    BY <1>1, <2>1, <2>2 DEF OldSound
<1> QED
  BY <1>1, <1>2, <1>3, <1>4

\* A step that changes nothing has succeeded: the replay follows.
LEMMA SameSim ==
  ASSUME NEW s, Sim(s), journal \in Seq(Entries), NEW u \in Urns, Succeed(u), step[u].kind = "same"
  PROVE  \E e : Follows(s, e)
<1> DEFINE i == IndexOf(u)
           e == [SuccessOf(u) EXCEPT !.state = plan[i], !.removeOld = i]
           o == step[u].op
<1>1. /\ PlanSound /\ StepsSound /\ ReplayForm(s) /\ s \in ReplayStates /\ Updating(s)
      /\ mode = "update" /\ u \in Program /\ step[u].at = "running" /\ step[u] \in StepRecords
      /\ UNCHANGED <<mode, plan, ops>> /\ StepSound(s, u)
  BY Succeeding
<1>2. InBase(u) /\ o \notin Running /\ plan[i].deps = NewDeps[u] /\ ~step[u].again
  BY <1>1 DEF StepSound
<1>3. /\ i \in Kept(s) /\ i \in DOMAIN plan /\ i \in Nat /\ plan[i].urn = u /\ i \notin s.markDelete
      /\ i \notin s.markPending
  BY <1>2, Succeeding
<1>4. plan[i] \in Resources /\ ~plan[i].delete /\ ~plan[i].pendingReplacement
  BY <1>1, <1>3, SimFacts DEF PlanSound
<1>5. /\ e \in Entries /\ e.kind = "success" /\ e.op = o /\ e.elide
      /\ e.removeNew = None /\ e.deleteNew = None /\ e.state = plan[i]
      /\ e.removeOld = i /\ e.deleteOld = None /\ e.pendingOld = None
  BY <1>1, <1>3, <1>4, SuccessOfIs DEF Entries
<1>6. step' = [step EXCEPT ![u] = [@ EXCEPT !.at = "done"]]
  BY DEF Succeed
<1>7. Emit(e, World, Running \ {o})
  BY DEF Succeed, SuccessOf
<1> HIDE DEF e
<1>8. Emission(e) /\ World' = World /\ Running' = Running \ {o}
  <2> DEFINE r == Running \ {o}
  <2>1. r = Running /\ Emit(e, World, r)
    BY <1>2, <1>7
  <2> HIDE DEF r
  <2>2. Emission(e) /\ World' = World /\ Running' = r
    BY <1>5, <2>1, Emitted
  <2> QED
    BY <2>2 DEF r
<1>9. Marked(s, i) = plan[i]
  <2>1. i \notin DOMAIN s.replace
    BY <1>1 DEF Updating
  <2>2. /\ Marked(s, i) \in Resources /\ Marked(s, i).urn = plan[i].urn
        /\ Marked(s, i).gen = plan[i].gen /\ Marked(s, i).deps = plan[i].deps
        /\ Marked(s, i).delete <=> i \in s.markDelete
        /\ Marked(s, i).pendingReplacement <=> i \in s.markPending
    BY <1>1, <1>3, <2>1, MarkedIs
  <2> QED
    BY <1>3, <1>4, <2>2, SameResource
<1>10. IndexOld(e.removeOld) = {i} /\ IndexOld(e.deleteOld) = {}
  BY <1>3, <1>5, JournalAssumption DEF IndexOld
<1> DEFINE X == {i}
           Y == {}
           res == plan[i]
<1>11. World' = {Marked(s, j) : j \in Kept(s) \ (X \cup Y)}
                  \cup {[Marked(s, j) EXCEPT !.delete = TRUE] : j \in Y}
                  \cup {s.new[k].res : k \in DOMAIN s.new} \cup {res}
  <2>1. World = {Marked(s, j) : j \in Kept(s)} \cup {s.new[k].res : k \in DOMAIN s.new}
    BY <1>1 DEF Updating
  <2> HIDE DEF i
  <2> QED
    BY <1>3, <1>8, <1>9, <2>1
<1>12. /\ \A j \in X : j \in DOMAIN plan /\ plan[j].urn = u
       /\ \A j \in Y : j \in Kept(s) /\ plan[j].urn = u
       /\ \A j \in DOMAIN plan : plan[j].urn = u => j \in X \/ j \in Y
       /\ X \cap Y = {}
  BY <1>1, <1>3 DEF PlanSound
<1>13. res \in Resources /\ res.urn = u /\ ~res.delete /\ res.deps = NewDeps[u] /\ e.state = res
  BY <1>2, <1>3, <1>4, <1>5
<1>14. Tells(s, e, u, res, X, Y)
  <2>1. Y = {} /\ IndexOld(e.removeOld) = X /\ IndexOld(e.deleteOld) = Y
    BY <1>10
  <2> HIDE DEF X, Y, res, i
  <2> QED
    BY <1>1, <1>5, <1>6, <1>8, <1>11, <1>12, <1>13, <2>1 DEF Tells
<1> QED
  BY <1>14, MadeFollows

\* An update, or the second half of a recreation, has succeeded: the replay
\* follows.
LEMMA UpdatedSim ==
  ASSUME NEW s, Sim(s), journal \in Seq(Entries), NEW u \in Urns, Succeed(u),
         step[u].kind = "updating" \/ (step[u].kind = "creating" /\ step[u].again)
  PROVE  \E e : Follows(s, e)
<1> DEFINE i == IndexOf(u)
           e == [SuccessOf(u) EXCEPT !.state = NewOf(u), !.removeOld = i]
           o == step[u].op
           w == (World \ OldOf(u)) \cup {NewOf(u)}
           r == Running \ {o}
<1>1. /\ PlanSound /\ StepsSound /\ ReplayForm(s) /\ s \in ReplayStates /\ Updating(s)
      /\ mode = "update" /\ u \in Program /\ step[u].at = "running" /\ step[u] \in StepRecords
      /\ UNCHANGED <<mode, plan, ops>> /\ StepSound(s, u)
  BY Succeeding
<1>2. InBase(u)
  BY <1>1 DEF StepSound
<1>3. /\ i \in Kept(s) /\ i \in DOMAIN plan /\ i \in Nat /\ plan[i].urn = u
  BY <1>2, Succeeding
<1>4. /\ NewOf(u) \in Resources /\ NewOf(u).urn = u /\ ~NewOf(u).delete /\ NewOf(u).deps = NewDeps[u]
  BY NewOfIs
<1>5. /\ e \in Entries /\ e.kind = "success" /\ e.op = o /\ ~e.elide
      /\ e.removeNew = None /\ e.deleteNew = None /\ e.state = NewOf(u)
      /\ e.removeOld = i /\ e.deleteOld = None /\ e.pendingOld = None
  BY <1>1, <1>3, <1>4, SuccessOfIs DEF Entries
<1>6. step' = [step EXCEPT ![u] = [@ EXCEPT !.at = "done"]]
  BY DEF Succeed
<1>7. Emit(e, w, r)
  BY DEF Succeed, SuccessOf
<1> HIDE DEF e
<1>8. Emission(e) /\ World' = w /\ Running' = r
  <2> HIDE DEF w, r
  <2> QED
    BY <1>5, <1>7, Emitted
<1>9. IndexOld(e.removeOld) = {i} /\ IndexOld(e.deleteOld) = {}
  BY <1>3, <1>5, JournalAssumption DEF IndexOld
<1> DEFINE X == {i}
           Y == {}
           res == NewOf(u)
<1>10. World' = {Marked(s, j) : j \in Kept(s) \ (X \cup Y)}
                  \cup {[Marked(s, j) EXCEPT !.delete = TRUE] : j \in Y}
                  \cup {s.new[k].res : k \in DOMAIN s.new} \cup {res}
  <2> HIDE DEF i
  <2>1. World \ OldOf(u) =
          {Marked(s, j) : j \in Kept(s) \ {i}} \cup {s.new[k].res : k \in DOMAIN s.new}
    <3>1. PlanSound /\ ReplayForm(s) /\ Updating(s) /\ i \in Kept(s) /\ plan[i].urn = u
      BY <1>1, <1>3
    <3> HIDE DEF w, r, X, Y, res
    <3> QED
      BY <3>1, OldIs
  <2> QED
    BY <1>8, <2>1
<1>11. /\ \A j \in X : j \in DOMAIN plan /\ plan[j].urn = u
       /\ \A j \in Y : j \in Kept(s) /\ plan[j].urn = u
       /\ \A j \in DOMAIN plan : plan[j].urn = u => j \in X \/ j \in Y
       /\ X \cap Y = {}
  BY <1>1, <1>3 DEF PlanSound
<1>12. Tells(s, e, u, res, X, Y)
  <2>1. IndexOld(e.removeOld) = X /\ IndexOld(e.deleteOld) = Y /\ res = NewOf(u)
    BY <1>9
  <2>2. res \in Resources /\ res.urn = u /\ ~res.delete /\ res.deps = NewDeps[u] /\ e.state = res
    BY <1>4, <1>5
  <2>3. Running' = Running \ {step[u].op} /\ Emission(e)
    BY <1>8
  <2> HIDE DEF X, Y, res, i, w, r
  <2> QED
    BY <1>1, <1>5, <1>6, <1>10, <1>11, <2>1, <2>2, <2>3 DEF Tells
<1> QED
  BY <1>12, MadeFollows

\* A replacement was created: the replay follows.
LEMMA ReplacedSim ==
  ASSUME NEW s, Sim(s), journal \in Seq(Entries), NEW u \in Urns, Succeed(u),
         step[u].kind = "replacing"
  PROVE  \E e : Follows(s, e)
<1> DEFINE i == IndexOf(u)
           e == [SuccessOf(u) EXCEPT !.state = NewOf(u), !.deleteOld = i]
           o == step[u].op
           w == (World \ OldOf(u)) \cup {[q EXCEPT !.delete = TRUE] : q \in OldOf(u)} \cup {NewOf(u)}
           r == Running \ {o}
<1>1. /\ PlanSound /\ StepsSound /\ ReplayForm(s) /\ s \in ReplayStates /\ Updating(s)
      /\ mode = "update" /\ u \in Program /\ step[u].at = "running" /\ step[u] \in StepRecords
      /\ UNCHANGED <<mode, plan, ops>> /\ StepSound(s, u)
  BY Succeeding
<1>2. InBase(u)
  BY <1>1 DEF StepSound
<1>3. /\ i \in Kept(s) /\ i \in DOMAIN plan /\ i \in Nat /\ plan[i].urn = u
  BY <1>2, Succeeding
<1>4. /\ NewOf(u) \in Resources /\ NewOf(u).urn = u /\ ~NewOf(u).delete /\ NewOf(u).deps = NewDeps[u]
  BY NewOfIs
<1>5. /\ e \in Entries /\ e.kind = "success" /\ e.op = o /\ ~e.elide
      /\ e.removeNew = None /\ e.deleteNew = None /\ e.state = NewOf(u)
      /\ e.removeOld = None /\ e.deleteOld = i /\ e.pendingOld = None
  BY <1>1, <1>3, <1>4, SuccessOfIs DEF Entries
<1>6. step' = [step EXCEPT ![u] = [@ EXCEPT !.at = "done"]]
  BY DEF Succeed
<1>7. Emit(e, w, r)
  BY DEF Succeed, SuccessOf
<1> HIDE DEF e
<1>8. Emission(e) /\ World' = w /\ Running' = r
  <2> HIDE DEF w, r
  <2> QED
    BY <1>5, <1>7, Emitted
<1>9. IndexOld(e.removeOld) = {} /\ IndexOld(e.deleteOld) = {i}
  BY <1>3, <1>5, JournalAssumption DEF IndexOld
<1> DEFINE X == {}
           Y == {i}
           res == NewOf(u)
<1>10. World' = {Marked(s, j) : j \in Kept(s) \ (X \cup Y)}
                  \cup {[Marked(s, j) EXCEPT !.delete = TRUE] : j \in Y}
                  \cup {s.new[k].res : k \in DOMAIN s.new} \cup {res}
  <2> HIDE DEF i
  <2>1. /\ OldOf(u) = {Marked(s, i)}
        /\ World \ OldOf(u) =
             {Marked(s, j) : j \in Kept(s) \ {i}} \cup {s.new[k].res : k \in DOMAIN s.new}
    <3>1. PlanSound /\ ReplayForm(s) /\ Updating(s) /\ i \in Kept(s) /\ plan[i].urn = u
      BY <1>1, <1>3
    <3> HIDE DEF w, r, X, Y, res
    <3>2. OldOf(u) = {Marked(s, i)}
      BY <3>1, OldIs
    <3>3. World \ OldOf(u) =
            {Marked(s, j) : j \in Kept(s) \ {i}} \cup {s.new[k].res : k \in DOMAIN s.new}
      BY <3>1, OldIs
    <3> QED
      BY <3>2, <3>3, Zenon
  <2>2. {[q EXCEPT !.delete = TRUE] : q \in OldOf(u)} = {[Marked(s, j) EXCEPT !.delete = TRUE] : j \in Y}
    BY <2>1
  <2> QED
    BY <1>8, <2>1, <2>2
<1>11. /\ \A j \in X : j \in DOMAIN plan /\ plan[j].urn = u
       /\ \A j \in Y : j \in Kept(s) /\ plan[j].urn = u
       /\ \A j \in DOMAIN plan : plan[j].urn = u => j \in X \/ j \in Y
       /\ X \cap Y = {}
  BY <1>1, <1>3 DEF PlanSound
<1>12. Tells(s, e, u, res, X, Y)
  <2>1. IndexOld(e.removeOld) = X /\ IndexOld(e.deleteOld) = Y /\ res = NewOf(u)
    BY <1>9
  <2>2. res \in Resources /\ res.urn = u /\ ~res.delete /\ res.deps = NewDeps[u] /\ e.state = res
    BY <1>4, <1>5
  <2>3. Running' = Running \ {step[u].op} /\ Emission(e)
    BY <1>8
  <2> HIDE DEF X, Y, res, i, w, r
  <2> QED
    BY <1>1, <1>5, <1>6, <1>10, <1>11, <2>1, <2>2, <2>3 DEF Tells
<1> QED
  BY <1>12, MadeFollows

\* Something new was created: the replay follows.
LEMMA CreatedSim ==
  ASSUME NEW s, Sim(s), journal \in Seq(Entries), NEW u \in Urns, Succeed(u),
         step[u].kind = "creating", ~step[u].again
  PROVE  \E e : Follows(s, e)
<1> DEFINE e == [SuccessOf(u) EXCEPT !.state = NewOf(u)]
           o == step[u].op
           w == World \cup {NewOf(u)}
           r == Running \ {o}
<1>1. /\ PlanSound /\ StepsSound /\ ReplayForm(s) /\ s \in ReplayStates /\ Updating(s)
      /\ mode = "update" /\ u \in Program /\ step[u].at = "running" /\ step[u] \in StepRecords
      /\ UNCHANGED <<mode, plan, ops>> /\ StepSound(s, u)
  BY Succeeding
<1>2. ~InBase(u)
  BY <1>1 DEF StepSound
<1>3. \A j \in DOMAIN plan : plan[j].urn # u
  BY <1>1, <1>2, IndexIs
<1>4. /\ NewOf(u) \in Resources /\ NewOf(u).urn = u /\ ~NewOf(u).delete /\ NewOf(u).deps = NewDeps[u]
  BY NewOfIs
<1>5. /\ e \in Entries /\ e.kind = "success" /\ e.op = o /\ ~e.elide
      /\ e.removeNew = None /\ e.deleteNew = None /\ e.state = NewOf(u)
      /\ e.removeOld = None /\ e.deleteOld = None /\ e.pendingOld = None
  BY <1>1, <1>4, SuccessOfIs DEF Entries
<1>6. step' = [step EXCEPT ![u] = [@ EXCEPT !.at = "done"]]
  BY DEF Succeed
<1>7. Emit(e, w, r)
  BY DEF Succeed, SuccessOf
<1> HIDE DEF e
<1>8. Emission(e) /\ World' = w /\ Running' = r
  <2> HIDE DEF w, r
  <2> QED
    BY <1>5, <1>7, Emitted
<1>9. IndexOld(e.removeOld) = {} /\ IndexOld(e.deleteOld) = {}
  BY <1>5 DEF IndexOld
<1> DEFINE X == {}
           Y == {}
           res == NewOf(u)
<1>10. World' = {Marked(s, j) : j \in Kept(s) \ (X \cup Y)}
                  \cup {[Marked(s, j) EXCEPT !.delete = TRUE] : j \in Y}
                  \cup {s.new[k].res : k \in DOMAIN s.new} \cup {res}
  <2>1. World = {Marked(s, j) : j \in Kept(s)} \cup {s.new[k].res : k \in DOMAIN s.new}
    BY <1>1 DEF Updating
  <2> QED
    BY <1>8, <2>1
<1>11. Tells(s, e, u, res, X, Y)
  <2>1. IndexOld(e.removeOld) = X /\ IndexOld(e.deleteOld) = Y /\ res = NewOf(u) /\ X = {} /\ Y = {}
    BY <1>9
  <2>2. res \in Resources /\ res.urn = u /\ ~res.delete /\ res.deps = NewDeps[u] /\ e.state = res
    BY <1>4, <1>5
  <2>3. Running' = Running \ {step[u].op} /\ Emission(e)
    BY <1>8
  <2> HIDE DEF X, Y, res, w, r
  <2> QED
    BY <1>1, <1>3, <1>5, <1>6, <1>10, <2>1, <2>2, <2>3 DEF Tells
<1> QED
  BY <1>11, MadeFollows

\* A recreation has deleted the old resource: the replay follows.
LEMMA DeferredSim ==
  ASSUME NEW s, Sim(s), journal \in Seq(Entries), NEW u \in Urns, Succeed(u),
         step[u].kind = "recreating"
  PROVE  \E e : Follows(s, e)
<1> DEFINE i == IndexOf(u)
           now == [step[u] EXCEPT !.at = "gone"]
           e == [SuccessOf(u) EXCEPT !.pendingOld = i]
           o == step[u].op
           w == (World \ OldOf(u)) \cup {[q EXCEPT !.pendingReplacement = TRUE] : q \in OldOf(u)}
           r == Running \ {o}
<1>1. /\ PlanSound /\ StepsSound /\ ReplayForm(s) /\ s \in ReplayStates /\ Updating(s)
      /\ mode = "update" /\ u \in Program /\ step[u].at = "running" /\ step[u] \in StepRecords
      /\ UNCHANGED <<mode, plan, ops>> /\ StepSound(s, u)
  BY Succeeding
<1>2. InBase(u)
  BY <1>1 DEF StepSound
<1>3. /\ i \in Kept(s) /\ i \in DOMAIN plan /\ i \in Nat /\ plan[i].urn = u /\ i \notin s.markDelete
  BY <1>2, Succeeding
<1>4. now \in StepRecords /\ now.op = o /\ now.at = "gone" /\ now.again = step[u].again
      /\ now.kind = step[u].kind /\ o \in Nat
  BY <1>1 DEF StepRecords
<1>5. /\ e \in Entries /\ e.kind = "success" /\ e.op = o /\ ~e.elide
      /\ e.removeNew = None /\ e.deleteNew = None /\ e.state = None
      /\ e.removeOld = None /\ e.deleteOld = None /\ e.pendingOld = i
  BY <1>1, <1>3, SuccessOfIs DEF Entries
<1>6. Steps(u, now)
  <2>1. step' = [step EXCEPT ![u] = now]
    BY <1>1 DEF Succeed, StepsSound
  <2> HIDE DEF now
  <2> QED
    BY <1>1, <1>4, <2>1 DEF Steps
<1>7. Emit(e, w, r)
  BY DEF Succeed, SuccessOf
<1> HIDE DEF e
<1>8. Emission(e) /\ World' = w /\ Running' = r
  <2> HIDE DEF w, r
  <2> QED
    BY <1>5, <1>7, Emitted
<1> SUFFICES ASSUME NEW t, t = ApplyEntry(s, e) PROVE Sim(t)'
  BY <1>8 DEF Follows
<1>9. i # None /\ IndexOld(i) = {i} /\ IndexOld(None) = {}
  BY <1>3, JournalAssumption DEF IndexOld
<1>10. /\ t \in ReplayStates /\ t.base = s.base /\ t.replace = s.replace /\ t.new = s.new
       /\ Ops(t.incomplete) = Ops(s.incomplete) \ {o} /\ t.remove = s.remove
       /\ t.markDelete = s.markDelete /\ t.markPending = s.markPending \cup {i}
  <2>1. Succeeded(s, e, t)
    BY <1>1, <1>5, SucceededState
  <2> HIDE DEF i
  <2> QED
    BY <1>5, <1>9, <2>1 DEF Succeeded
<1>11. /\ step'[u] = now /\ \A v \in Urns : v # u => step'[v] = step[v]
  BY <1>1, <1>6, StepsStep
<1> HIDE DEF now
<1>12. /\ Kept(t) = Kept(s) /\ Kept(t)' = Kept(t)
       /\ NewUrns(t)' = NewUrns(s) /\ NewUrns(t) = NewUrns(s)
  BY <1>1, <1>10 DEF Kept, NewUrns
<1>13. NewSound(t)'
  <2>1. u \notin NewUrns(s)
    BY <1>1 DEF NewUrns, Updating, NewSound, Over
  <2> QED
    BY <1>1, <1>6, <1>10, <1>12, <2>1, NewStays DEF Updating
<1>14. StepSound(t, u)'
  <2>1. InBase(u)'
    BY <1>1, <1>2 DEF InBase
  <2> QED
    BY <1>1, <1>4, <1>11, <1>12, <2>1 DEF StepSound
<1>15. ASSUME NEW v \in Urns, v # u
       PROVE  StepSound(t, v)'
  <2>1. StepSound(s, v)
    BY <1>1 DEF Updating
  <2>2. step[v].at = "running" => \A k \in DOMAIN t.new : t.new[k].op # step[v].op
    BY <1>10, <2>1 DEF StepSound
  <2>3. step[v].at = "deleting" => IndexOf(v) \in Kept(t)
    BY <1>12, <2>1 DEF StepSound
  <2>4. step[v].at = "running" => (step[v].op \in Running' => step[v].op \in Running)
    BY <1>8
  <2> QED
    BY <1>1, <1>11, <1>12, <1>15, <2>1, <2>2, <2>3, <2>4, OtherStep
<1>16. ASSUME NEW j \in DOMAIN plan
       PROVE  OldSound(t, j)'
  <2>1. OldSound(s, j)
    BY <1>1 DEF Updating
  <2>2. plan[j].urn \in Urns
    BY <1>1, SimFacts DEF Resources
  <2>3. CASE j = i
    BY <1>1, <1>3, <1>4, <1>10, <1>11, <1>12, <2>1, <2>3 DEF OldSound
  <2>4. CASE j # i
    <3>1. plan[j].urn # u
      BY <1>1, <1>3, <2>4 DEF PlanSound
    <3>2. step'[plan[j].urn] = step[plan[j].urn]
      BY <1>11, <2>2, <3>1
    <3> QED
      BY <1>1, <1>10, <1>12, <2>1, <2>4, <3>2 DEF OldSound
  <2> QED
    BY <2>3, <2>4
<1>17. World' = {Marked(t, j) : j \in Kept(t)} \cup {t.new[k].res : k \in DOMAIN t.new}
  <2>1. \A j \in Kept(s) : j # i => Marked(t, j) = Marked(s, j)
    BY <1>10 DEF Marked
  <2>2. Marked(t, i) = [Marked(s, i) EXCEPT !.pendingReplacement = TRUE]
    <3> HIDE DEF i
    <3>1. i \notin DOMAIN s.replace /\ i \notin DOMAIN t.replace
      BY <1>1, <1>10 DEF Updating
    <3>2. s.base.resources = plan /\ t.base.resources = plan
      BY <1>1, <1>10 DEF ReplayForm
    <3>3. /\ Marked(s, i) \in Resources /\ Marked(s, i).urn = plan[i].urn
          /\ Marked(s, i).gen = plan[i].gen /\ Marked(s, i).deps = plan[i].deps
          /\ Marked(s, i).delete <=> i \in s.markDelete
      BY <1>1, <1>3, <3>1, <3>2, MarkedAs
    <3>4. /\ Marked(t, i) \in Resources /\ Marked(t, i).urn = plan[i].urn
          /\ Marked(t, i).gen = plan[i].gen /\ Marked(t, i).deps = plan[i].deps
          /\ Marked(t, i).pendingReplacement <=> i \in t.markPending
          /\ Marked(t, i).delete <=> i \in t.markDelete
      BY <1>1, <1>3, <3>1, <3>2, MarkedAs
    <3> DEFINE q == [Marked(s, i) EXCEPT !.pendingReplacement = TRUE]
    <3>5. /\ q \in Resources /\ q.urn = plan[i].urn /\ q.gen = plan[i].gen /\ q.deps = plan[i].deps
          /\ q.delete <=> i \in s.markDelete
          /\ q.pendingReplacement
      BY <3>3 DEF Resources
    <3> HIDE DEF q
    <3>6. Marked(t, i) = q
      BY <1>10, <3>4, <3>5, SameResource
    <3> QED
      BY <3>6 DEF q
  <2> HIDE DEF i
  <2>3. PlanSound /\ ReplayForm(s) /\ Updating(s) /\ i \in Kept(s) /\ plan[i].urn = u
    BY <1>1, <1>3
  <2>4. OldOf(u) = {Marked(s, i)}
    BY <2>3, OldIs
  <2>5. World \ OldOf(u) =
          {Marked(s, j) : j \in Kept(s) \ {i}} \cup {s.new[k].res : k \in DOMAIN s.new}
    <3> HIDE DEF w, r
    <3> QED
      BY <2>3, OldIs
  <2>6. {[q EXCEPT !.pendingReplacement = TRUE] : q \in OldOf(u)} = {Marked(t, i)}
    BY <2>2, <2>4
  <2>7. {Marked(t, j) : j \in Kept(t)} = {Marked(s, j) : j \in Kept(s) \ {i}} \cup {Marked(t, i)}
    BY <1>12, <2>1, <2>3
  <2> QED
    BY <1>8, <1>10, <2>5, <2>6, <2>7
<1>18. \A k \in DOMAIN t.new : t.new[k].op \in 1..ops'
  BY <1>1, <1>10, SimIs
<1>19. Ops(t.incomplete) = Running' /\ Running' \subseteq Running \cup {now.op}
  BY <1>1, <1>8, <1>10 DEF ReplayForm
<1>20. \A v \in Urns : StepSound(t, v)'
  BY <1>14, <1>15
<1> QED
  BY <1>1, <1>6, <1>10, <1>13, <1>16, <1>17, <1>18, <1>19, <1>20, Assembled

\* A step has succeeded: the replay follows.
LEMMA SucceedSim ==
  ASSUME NEW s, Sim(s), journal \in Seq(Entries), NEW u \in Urns, Succeed(u)
  PROVE  \E e : Follows(s, e)
<1>1. step[u].kind \in {"same", "updating", "replacing", "recreating", "creating"}
  BY Succeeding DEF StepSound
<1>2. step[u].again \in BOOLEAN
  BY Succeeding DEF StepRecords
<1>3. CASE step[u].kind = "same"
  BY <1>3, SameSim
<1>4. CASE step[u].kind = "updating" \/ (step[u].kind = "creating" /\ step[u].again)
  BY <1>4, UpdatedSim
<1>5. CASE step[u].kind = "replacing"
  BY <1>5, ReplacedSim
<1>6. CASE step[u].kind = "recreating"
  BY <1>6, DeferredSim
<1>7. CASE step[u].kind = "creating" /\ ~step[u].again
  BY <1>7, CreatedSim
<1> QED
  BY <1>1, <1>2, <1>3, <1>4, <1>5, <1>6, <1>7

\* The outputs of a resource are registered: the replay follows.
LEMMA OutputsSim ==
  ASSUME NEW s, Sim(s), journal \in Seq(Entries), NEW u \in Urns, RegisterOutputs(u)
  PROVE  \E e : Follows(s, e)
<1> DEFINE now == [step[u] EXCEPT !.at = "told"]
           o == step[u].op
           res == [NewOf(u) EXCEPT !.gen = Registered]
           e == [NoEntry EXCEPT !.kind = "outputs", !.state = res, !.removeNew = o]
           w == (World \ {NewOf(u)}) \cup {res}
<1>1. /\ PlanSound /\ StepsSound /\ ReplayForm(s) /\ s \in ReplayStates /\ Updating(s)
      /\ step[u] \in StepRecords /\ mode = "update" /\ step[u].at = "done" /\ u \in Program
      /\ step[u].kind # "same" /\ UNCHANGED <<mode, plan, ops>>
      /\ step' = [step EXCEPT ![u].at = "told"]
  BY SimIs DEF RegisterOutputs
<1>2. now \in StepRecords /\ now.op = o /\ now.at = "told" /\ now.again = step[u].again
      /\ now.kind = step[u].kind /\ o \in Nat
  BY <1>1 DEF StepRecords
<1>3. /\ NewOf(u) \in Resources /\ NewOf(u).urn = u /\ NewOf(u).gen = Planned /\ ~NewOf(u).delete
  BY NewOfIs
<1>4. /\ res \in Resources /\ res.urn = u /\ res.gen = Registered /\ res.deps = NewOf(u).deps
      /\ ~res.delete
  BY <1>3 DEF Resources, Original, Registered
<1>5. /\ e \in Entries /\ e.kind = "outputs" /\ ~e.elide
      /\ e.removeOld = None /\ e.removeNew = o /\ e.state = res
  BY <1>2, <1>4, NoEntryIs DEF Entries
<1>6. Steps(u, now)
  <2>1. step' = [step EXCEPT ![u] = now]
    BY <1>1 DEF StepsSound
  <2> HIDE DEF now
  <2> QED
    BY <1>1, <1>2, <2>1 DEF Steps
<1>7. Emit(e, w, Running)
  BY DEF RegisterOutputs
<1> HIDE DEF e
<1>8. Emission(e) /\ World' = w /\ Running' = Running
  <2> HIDE DEF w, res
  <2> QED
    BY <1>5, <1>7, Emitted
<1> SUFFICES ASSUME NEW t, t = ApplyEntry(s, e) PROVE Sim(t)'
  BY <1>8 DEF Follows
<1> HIDE DEF res
<1>9. PICK k \in DOMAIN s.new : s.new[k].res.urn = u
  <2>1. StepSound(s, u)
    BY <1>1 DEF Updating
  <2> QED
    BY <1>1, <2>1 DEF StepSound, NewUrns
<1>10. s.new[k].op = o /\ s.new[k].res = NewOf(u)
  BY <1>1, <1>9 DEF Updating, NewSound
<1>11. /\ s.new \in Seq([op : Nat, res : Resources]) /\ s.incomplete \in Seq(Operations)
       /\ \A i, j \in DOMAIN s.new : i # j => s.new[i].op # s.new[j].op
  BY <1>1, SimFacts DEF Updating, NewSound
<1> DEFINE new == UpdateNew(s.new, o, res)
<1>12. /\ new \in Seq([op : Nat, res : Resources]) /\ DOMAIN new = DOMAIN s.new
       /\ \A i \in DOMAIN s.new : i # k => new[i] = s.new[i]
       /\ new[k].op = o /\ new[k].res = res
  <2>1. OfOperation(s.new, s.new[k].op) = {k}
    BY <1>11, OnlyOfOperation
  <2>2. new = [i \in 1..Len(s.new) |-> IF i \in {k} THEN [s.new[i] EXCEPT !.res = res] ELSE s.new[i]]
    BY <1>10, <2>1 DEF UpdateNew
  <2> HIDE DEF new
  <2>3. /\ Len(s.new) \in Nat /\ DOMAIN s.new = 1..Len(s.new)
        /\ \A i \in 1..Len(s.new) : s.new[i] \in [op : Nat, res : Resources]
    BY <1>11, LenProperties, ElementOfSeq
  <2>4. \A i \in 1..Len(s.new) : new[i] \in [op : Nat, res : Resources]
    BY <1>4, <2>2, <2>3
  <2>5. DOMAIN new = 1..Len(s.new) /\ new = [i \in 1..Len(s.new) |-> new[i]]
    BY <2>2
  <2>6. new \in Seq([op : Nat, res : Resources])
    <3> DEFINE S == [op : Nat, res : Resources]
               n == Len(s.new)
    <3>1. n \in Nat /\ \A i \in 1..n : new[i] \in S
      BY <2>3, <2>4
    <3>2. new = [i \in 1..n |-> new[i]]
      BY <2>5
    <3> HIDE DEF S, n
    <3>3. new \in [1..n -> S]
      BY <3>1, <3>2
    <3>4. new \in Seq(S)
      BY <3>1, <3>3
    <3> QED
      BY <3>4 DEF S
  <2> QED
    BY <1>9, <1>10, <2>2, <2>3, <2>5, <2>6
<1>13. t = Edited(s, new, s.incomplete, s.remove, s.markDelete, s.markPending)
  BY <1>1, <1>5, OutputsEffect
<1> HIDE DEF new
<1>14. /\ t \in ReplayStates /\ t.base = s.base /\ t.replace = s.replace /\ t.new = new
       /\ t.incomplete = s.incomplete /\ t.remove = s.remove
       /\ t.markDelete = s.markDelete /\ t.markPending = s.markPending
  BY <1>1, <1>12, <1>13 DEF Edited, ReplayStates
<1>15. /\ step'[u] = now /\ \A v \in Urns : v # u => step'[v] = step[v]
  BY <1>1, <1>6, StepsStep
<1> HIDE DEF now
<1>16. \A j \in DOMAIN s.new : t.new[j].op = s.new[j].op /\ t.new[j].res.urn = s.new[j].res.urn
                               /\ t.new[j].res.deps = s.new[j].res.deps
                               /\ ~t.new[j].res.delete
  <2> SUFFICES ASSUME NEW j \in DOMAIN s.new
               PROVE  /\ t.new[j].op = s.new[j].op /\ t.new[j].res.urn = s.new[j].res.urn
                      /\ t.new[j].res.deps = s.new[j].res.deps /\ ~t.new[j].res.delete
    OBVIOUS
  <2>1. CASE j = k
    BY <1>3, <1>4, <1>10, <1>12, <1>14, <2>1
  <2>2. CASE j # k
    <3>1. ~s.new[j].res.delete
      BY <1>1 DEF Updating, NewSound
    <3> QED
      BY <1>12, <1>14, <2>2, <3>1
  <2> QED
    BY <2>1, <2>2
<1>17. NewUrns(t) = NewUrns(s)
  <2>1. DOMAIN t.new = DOMAIN s.new
    BY <1>12, <1>14
  <2> QED
    BY <1>16, <2>1 DEF NewUrns
<1>18. Kept(t) = Kept(s) /\ Kept(t)' = Kept(t) /\ NewUrns(t)' = NewUrns(s) /\ DOMAIN t.new = DOMAIN s.new
  BY <1>1, <1>12, <1>14, <1>17 DEF Kept, NewUrns
<1>19. NewSound(t)'
  <2>1. \A i, j \in DOMAIN t.new :
           i # j => t.new[i].op # t.new[j].op /\ t.new[i].res.urn # t.new[j].res.urn
    <3>1. \A i, j \in DOMAIN s.new :
             i # j => s.new[i].op # s.new[j].op /\ s.new[i].res.urn # s.new[j].res.urn
      BY <1>1 DEF Updating, NewSound
    <3> QED
      BY <1>16, <1>18, <3>1
  <2>2. ASSUME NEW j \in DOMAIN t.new
        PROVE  LET r == t.new[j].res
                   x == step'[r.urn] IN
               /\ r.urn \in Program /\ x.at \in Over
               /\ x.at \in {"done", "told"} => t.new[j].op = x.op
               /\ x.at = "done" /\ x.kind # "same" => r = NewOf(r.urn)
               /\ ~r.delete
               /\ r.gen \in {Original, Refreshed} => \A i \in Kept(s) : plan[i].urn # r.urn
               /\ \A d \in r.deps : \E m \in 1..(j - 1) : t.new[m].res.urn = d
    <3>1. j \in DOMAIN s.new /\ \A m \in 1..(j - 1) : m \in DOMAIN s.new
      BY <1>1, <1>18, SimFacts
    <3>2. \A d \in t.new[j].res.deps : \E m \in 1..(j - 1) : t.new[m].res.urn = d
      BY <1>1, <1>16, <3>1 DEF Updating, NewSound
    <3>3. CASE j = k
      <4>1. t.new[j].res = res /\ t.new[j].op = o
        BY <1>12, <1>14, <3>3
      <4>2. step'[t.new[j].res.urn] = now
        BY <1>4, <1>15, <4>1
      <4> QED
        BY <1>1, <1>2, <1>4, <3>2, <4>1, <4>2 DEF Over, Original, Refreshed, Registered
    <3>4. CASE j # k
      <4>1. t.new[j] = s.new[j]
        BY <1>12, <1>14, <3>1, <3>4
      <4>2. s.new[j].res.urn # u /\ s.new[j].res.urn \in Urns
        BY <1>1, <1>9, <3>1, <3>4, SimFacts DEF Updating, NewSound, Resources
      <4>3. step'[t.new[j].res.urn] = step[s.new[j].res.urn]
        BY <1>15, <4>1, <4>2
      <4>4. LET r == s.new[j].res
                x == step[r.urn] IN
            /\ r.urn \in Program /\ x.at \in Over
            /\ x.at \in {"done", "told"} => s.new[j].op = x.op
            /\ x.at = "done" /\ x.kind # "same" => r = NewOf(r.urn)
            /\ ~r.delete
            /\ r.gen \in {Original, Refreshed} => \A i \in Kept(s) : plan[i].urn # r.urn
        BY <1>1, <3>1 DEF Updating, NewSound
      <4> QED
        BY <3>2, <4>1, <4>3, <4>4
    <3> QED
      BY <3>3, <3>4
  <2>3. \A j \in DOMAIN t.new :
           LET r == t.new[j].res
               x == step'[r.urn] IN
           /\ r.urn \in Program /\ x.at \in Over
           /\ x.at \in {"done", "told"} => t.new[j].op = x.op
           /\ x.at = "done" /\ x.kind # "same" => r = NewOf(r.urn)
           /\ ~r.delete
           /\ r.gen \in {Original, Refreshed} => \A i \in Kept(t)' : plan'[i].urn # r.urn
           /\ \A d \in r.deps : \E m \in 1..(j - 1) : t.new[m].res.urn = d
    <3>1. plan' = plan /\ Kept(t)' = Kept(s)
      BY <1>1, <1>18
    <3> SUFFICES ASSUME NEW j \in DOMAIN t.new
                 PROVE  LET r == t.new[j].res
                            x == step'[r.urn] IN
                        /\ r.urn \in Program /\ x.at \in Over
                        /\ x.at \in {"done", "told"} => t.new[j].op = x.op
                        /\ x.at = "done" /\ x.kind # "same" => r = NewOf(r.urn)
                        /\ ~r.delete
                        /\ r.gen \in {Original, Refreshed} => \A i \in Kept(s) : plan[i].urn # r.urn
                        /\ \A d \in r.deps : \E m \in 1..(j - 1) : t.new[m].res.urn = d
      BY <3>1
    <3> QED
      BY <2>2
  <2> QED
    BY <2>1, <2>3 DEF NewSound, NewOf
<1>20. StepSound(t, u)'
  <2>1. StepSound(s, u)
    BY <1>1 DEF Updating
  <2> QED
    BY <1>1, <1>2, <1>15, <1>18, <2>1 DEF StepSound
<1>21. ASSUME NEW v \in Urns, v # u
       PROVE  StepSound(t, v)'
  <2>1. StepSound(s, v)
    BY <1>1 DEF Updating
  <2>2. step[v].at = "running" => \A j \in DOMAIN t.new : t.new[j].op # step[v].op
    BY <1>16, <1>18, <2>1 DEF StepSound
  <2>3. step[v].at = "deleting" => IndexOf(v) \in Kept(t)
    BY <1>18, <2>1 DEF StepSound
  <2> QED
    BY <1>1, <1>8, <1>15, <1>17, <1>18, <1>21, <2>1, <2>2, <2>3, OtherStep
<1>22. ASSUME NEW j \in DOMAIN plan
       PROVE  OldSound(t, j)'
  <2>1. OldSound(s, j)
    BY <1>1 DEF Updating
  <2>2. plan[j].urn \in Urns
    BY <1>1, SimFacts DEF Resources
  <2>3. CASE plan[j].urn = u
    BY <1>1, <1>2, <1>14, <1>15, <1>18, <2>1, <2>3 DEF OldSound
  <2>4. CASE plan[j].urn # u
    <3>1. step'[plan[j].urn] = step[plan[j].urn]
      BY <1>15, <2>2, <2>4
    <3> QED
      BY <1>1, <1>14, <1>18, <2>1, <3>1 DEF OldSound
  <2> QED
    BY <2>3, <2>4
<1>23. World' = {Marked(t, i) : i \in Kept(t)} \cup {t.new[j].res : j \in DOMAIN t.new}
  <2>1. \A i : Marked(t, i) = Marked(s, i)
    BY <1>14 DEF Marked
  <2>2. \A i \in Kept(s) : Marked(s, i) # NewOf(u)
    <3> SUFFICES ASSUME NEW i \in Kept(s) PROVE Marked(s, i) # NewOf(u)
      OBVIOUS
    <3>1. i \in DOMAIN plan /\ i \notin DOMAIN s.replace
      BY <1>1 DEF Kept, Updating
    <3>2. Marked(s, i).gen \in {Original, Refreshed}
      BY <1>1, <3>1, MarkedIs DEF PlanSound
    <3> QED
      BY <1>3, <3>2 DEF Original, Refreshed, Planned
  <2>3. \A j \in DOMAIN s.new : j # k => s.new[j].res # NewOf(u)
    BY <1>1, <1>3, <1>9 DEF Updating, NewSound
  <2>4. World = {Marked(s, i) : i \in Kept(s)} \cup {s.new[j].res : j \in DOMAIN s.new}
    BY <1>1 DEF Updating
  <2>5. World \ {NewOf(u)} = {Marked(s, i) : i \in Kept(s)} \cup {s.new[j].res : j \in DOMAIN s.new \ {k}}
    BY <1>10, <2>2, <2>3, <2>4
  <2>6. {t.new[j].res : j \in DOMAIN t.new} = {s.new[j].res : j \in DOMAIN s.new \ {k}} \cup {res}
    BY <1>12, <1>14
  <2>7. {Marked(t, i) : i \in Kept(t)} = {Marked(s, i) : i \in Kept(s)}
    BY <1>18, <2>1
  <2> QED
    BY <1>8, <2>5, <2>6, <2>7
<1>24. \A j \in DOMAIN t.new : t.new[j].op \in 1..ops'
  BY <1>1, <1>16, <1>18, SimIs
<1>25. Ops(t.incomplete) = Running' /\ Running' \subseteq Running \cup {now.op}
  BY <1>1, <1>8, <1>14 DEF ReplayForm
<1>26. \A v \in Urns : StepSound(t, v)'
  BY <1>20, <1>21
<1> QED
  BY <1>1, <1>6, <1>14, <1>19, <1>22, <1>23, <1>24, <1>25, <1>26, Assembled

-----------------------------------------------------------------------------
(* A refresh. *)

\* What the entry of a refresh changes.
Found(s, e, t) ==
    /\ t \in ReplayStates /\ t.base = s.base /\ t.new = <<>> /\ t.incomplete = <<>> /\ t.refresh
    /\ t.markDelete = s.markDelete /\ t.markPending = s.markPending
    /\ e.state = None => t.replace = s.replace /\ t.remove = s.remove \cup {e.removeOld}
    /\ e.state # None =>
         /\ t.remove = s.remove /\ DOMAIN t.replace = DOMAIN s.replace \cup {e.removeOld}
         /\ \A j \in DOMAIN t.replace :
               t.replace[j] = IF j = e.removeOld THEN e.state ELSE s.replace[j]

\* The replay state after it.
LEMMA RefreshEffect ==
  ASSUME NEW s \in ReplayStates, s.new = <<>>, s.incomplete = <<>>,
         NEW e \in Entries, e.kind = "refresh", e.removeNew = None, e.removeOld # None
  PROVE  Found(s, e, ApplyEntry(s, e))
<1> DEFINE t == ApplyEntry(s, e)
           c == Completed(s, e.op)
           n == UpdateNew(s.new, e.removeNew, e.state)
           p == IF e.removeOld # None /\ e.state # None THEN Replacing(s, e.removeOld, e.state)
                ELSE s.replace
           d == IF e.state = None THEN s.remove \cup IndexOld(e.removeOld) ELSE s.remove
<1>1. t = [s EXCEPT !.incomplete = c, !.refresh = TRUE, !.replace = p, !.remove = d, !.new = n]
  BY DEF ApplyEntry, ApplyRefresh
<1>2. c = <<>>
  <2>1. c \in Seq(Operations) /\ Ops(c) = {}
    <3>1. Ops(s.incomplete) = {}
      BY DEF Ops
    <3> QED
      BY <3>1, CompletedOps DEF ReplayStates
  <2> HIDE DEF c
  <2>2. Len(c) \in Nat /\ DOMAIN c = 1..Len(c)
    BY <2>1, LenProperties
  <2>3. DOMAIN c = {}
    BY <2>1 DEF Ops
  <2>4. Len(c) = 0
    BY <2>2, <2>3
  <2> QED
    BY <2>1, <2>4, EmptySeq
<1>3. n = <<>>
  <2>1. n = s.new
    BY NoOperation DEF ReplayStates
  <2> QED
    BY <2>1
<1>4. e.removeOld \in Nat /\ e.state \in Resources \cup {None} /\ IndexOld(e.removeOld) = {e.removeOld}
  BY DEF Entries, IndexOld
<1>5. PICK I \in SUBSET Nat : s.replace \in [I -> Resources]
  BY DEF ReplayStates, Replacements
<1>6. d \in SUBSET Nat
  BY <1>4 DEF ReplayStates
<1>7. p \in Replacements
  <2>1. CASE e.state = None
    BY <2>1, <1>5 DEF Replacements
  <2>2. CASE e.state # None
    <3>1. p = [j \in I \cup {e.removeOld} |-> IF j = e.removeOld THEN e.state ELSE s.replace[j]]
      BY <1>5, <2>2 DEF Replacing
    <3>2. p \in [I \cup {e.removeOld} -> Resources]
      BY <1>4, <1>5, <2>2, <3>1
    <3>3. I \cup {e.removeOld} \in SUBSET Nat
      BY <1>4
    <3> QED
      BY <3>2, <3>3 DEF Replacements
  <2> QED
    BY <2>1, <2>2
<1>8. e.state = None => p = s.replace /\ d = s.remove \cup {e.removeOld}
  BY <1>4
<1>9. e.state # None =>
         /\ d = s.remove /\ DOMAIN p = DOMAIN s.replace \cup {e.removeOld}
         /\ \A j \in DOMAIN p : p[j] = IF j = e.removeOld THEN e.state ELSE s.replace[j]
  <2> SUFFICES ASSUME e.state # None
               PROVE  /\ d = s.remove /\ DOMAIN p = DOMAIN s.replace \cup {e.removeOld}
                      /\ \A j \in DOMAIN p : p[j] = IF j = e.removeOld THEN e.state ELSE s.replace[j]
    OBVIOUS
  <2>1. p = [j \in (DOMAIN s.replace) \cup {e.removeOld} |->
               IF j = e.removeOld THEN e.state ELSE s.replace[j]]
    BY DEF Replacing
  <2> HIDE DEF p
  <2> QED
    BY <2>1
<1> HIDE DEF c, n, p, d, t
<1>10. t = [s EXCEPT !.incomplete = <<>>, !.refresh = TRUE, !.replace = p, !.remove = d, !.new = <<>>]
  BY <1>1, <1>2, <1>3
<1>11. t \in ReplayStates
  <2>1. <<>> \in Seq([op : Nat, res : Resources]) /\ <<>> \in Seq(Operations)
    BY EmptySeq
  <2> QED
    BY <1>6, <1>7, <1>10, <2>1 DEF ReplayStates
<1>12. /\ t.base = s.base /\ t.new = <<>> /\ t.incomplete = <<>> /\ t.refresh
       /\ t.markDelete = s.markDelete /\ t.markPending = s.markPending
       /\ t.replace = p /\ t.remove = d
  BY <1>10 DEF ReplayStates
<1>13. Found(s, e, t)
  BY <1>8, <1>9, <1>11, <1>12 DEF Found
<1> QED
  BY <1>13 DEF t

\* What is known of a resource of the base and what a refresh finds of it.
Finding(s, u) == Sim(s) /\ mode = "refresh" /\ InBase(u) /\ step[u].at = "todo"

\* It is at i in the plan, and what a refresh finds of it is res.
FoundAs(s, u, i, res) ==
    /\ i \in Kept(s) /\ i \notin DOMAIN s.replace /\ i \in DOMAIN plan /\ plan[i].urn = u
    /\ res = [plan[i] EXCEPT !.gen = Refreshed] /\ res \in Resources
    /\ \A j \in Kept(s) : j # i => plan[j].urn # u
    /\ World \ OldOf(u) = {Pruning(s, j) : j \in Kept(s) \ {i}}
    /\ {r.urn : r \in World} = {plan[j].urn : j \in Kept(s)}

\* What there is of it and of the others, then.
LEMMA FoundIs ==
  ASSUME NEW s, NEW u \in Urns, Finding(s, u)
  PROVE  FoundAs(s, u, IndexOf(u), Resource(u, Refreshed, OldDeps[u]))
<1>1. /\ PlanSound /\ StepsSound /\ ReplayForm(s) /\ Refreshing(s)
      /\ InBase(u) /\ step[u].at = "todo"
  BY DEF Sim, Finding
<1> DEFINE i == IndexOf(u)
<1>2. i \in DOMAIN plan /\ plan[i].urn = u
  BY <1>1, IndexIs
<1> HIDE DEF i
<1>3. i \in Kept(s) /\ i \notin DOMAIN s.replace
  BY <1>1, <1>2 DEF Refreshing
<1>4. \A j \in Kept(s) : j \in DOMAIN plan
  BY DEF Kept
<1>5. \A j \in Kept(s) : j # i => plan[j].urn # u
  BY <1>1, <1>2, <1>4 DEF PlanSound
<1>6. \A j \in Kept(s) : Pruning(s, j).urn = plan[j].urn /\ Pruning(s, j).gen \in {Original, Refreshed}
  BY <1>1, <1>4, PruningIs
<1>7. World = {Pruning(s, j) : j \in Kept(s)}
  BY <1>1 DEF Refreshing
<1>8. {r.urn : r \in World} = {plan[j].urn : j \in Kept(s)}
  BY <1>6, <1>7
<1>9. OldOf(u) = {Pruning(s, i)}
  BY <1>2, <1>3, <1>5, <1>6, <1>7 DEF OldOf
<1>10. World \ OldOf(u) = {Pruning(s, j) : j \in Kept(s) \ {i}}
  <2>1. \A j \in Kept(s) : j # i => Pruning(s, j) # Pruning(s, i)
    BY <1>2, <1>3, <1>5, <1>6
  <2> QED
    BY <1>7, <1>9, <2>1
<1>11. plan[i] = Resource(u, Original, OldDeps[u])
  <2>1. plan = [j \in 1..Len(BaseUrns) |-> Resource(BaseUrns[j], Original, OldDeps[BaseUrns[j]])]
    BY <1>1 DEF Refreshing, Base
  <2>2. plan[i] = Resource(BaseUrns[i], Original, OldDeps[BaseUrns[i]])
    BY <1>2, <2>1
  <2>3. BaseUrns[i] = u
    BY <1>2, <2>2 DEF Resource
  <2> QED
    BY <2>2, <2>3
<1>12. plan[i] \in Resources
  BY <1>1, <1>2, SimFacts
<1> DEFINE q == [plan[i] EXCEPT !.gen = Refreshed]
           r == Resource(u, Refreshed, OldDeps[u])
<1>13. /\ q \in Resources /\ q.urn = plan[i].urn /\ q.deps = plan[i].deps /\ q.gen = Refreshed
       /\ (q.delete <=> plan[i].delete) /\ (q.pendingReplacement <=> plan[i].pendingReplacement)
  BY <1>12 DEF Resources, Original, Refreshed, Registered
<1>14. /\ plan[i].urn = u /\ plan[i].deps = OldDeps[u] /\ ~plan[i].delete
       /\ ~plan[i].pendingReplacement
  BY <1>11 DEF Resource
<1>15. /\ r.urn = u /\ r.deps = OldDeps[u] /\ r.gen = Refreshed /\ ~r.delete
       /\ ~r.pendingReplacement
  BY DEF Resource
<1>16. r \in Resources
  BY <1>12, <1>14 DEF Resource, Resources, Original, Refreshed, Registered
<1> HIDE DEF q, r
<1>17. r = q
  BY <1>13, <1>14, <1>15, <1>16, SameResource
<1> QED
  <2>1. FoundAs(s, u, i, r)
    BY <1>2, <1>3, <1>5, <1>8, <1>10, <1>16, <1>17 DEF q, FoundAs
  <2> QED
    BY <2>1 DEF i, r

\* What a refresh leaves of the world, when K are the indexes left.
Cut(r, K) == [r EXCEPT !.deps = @ \cap K]

\* A second refresh leaves less of the dependencies, and nothing else.
LEMMA PruneAgain ==
  ASSUME NEW s, PlanSound, ReplayForm(s), Refreshing(s), NEW j \in Kept(s),
         NEW K, K \subseteq {plan[k].urn : k \in Kept(s)}
  PROVE  Cut(Pruning(s, j), K) = Cut(Marked(s, j), K)
<1> DEFINE r == Marked(s, j)
           p == Pruning(s, j)
           A == {plan[k].urn : k \in Kept(s)}
<1>1. j \in DOMAIN plan
  BY DEF Kept
<1>2. r \in Resources
  BY <1>1, RefreshedIs
<1>3. p = [r EXCEPT !.deps = @ \cap A]
  BY DEF Pruning
<1> HIDE DEF r, p, A
<1>4. (r.deps \cap A) \cap K = r.deps \cap K
  BY DEF A
<1>5. [p EXCEPT !.deps = @ \cap K] = [r EXCEPT !.deps = (r.deps \cap A) \cap K]
  BY <1>2, <1>3 DEF Resources
<1>6. [r EXCEPT !.deps = @ \cap K] = [r EXCEPT !.deps = r.deps \cap K]
  BY <1>2 DEF Resources
<1> QED
  BY <1>4, <1>5, <1>6 DEF r, p, Cut

\* A refresh finds a resource, or that it is gone: the replay follows.
LEMMA RefreshSim ==
  ASSUME NEW s, Sim(s), journal \in Seq(Entries), NEW u \in Urns, NEW exists \in BOOLEAN,
         Refresh(u, exists)
  PROVE  \E e : Follows(s, e)
<1> DEFINE now == [kind |-> "refreshing", op |-> NextOp, at |-> "done", again |-> FALSE]
           i == IndexOf(u)
           res == Resource(u, Refreshed, OldDeps[u])
           known == {r.urn : r \in World} \ (IF exists THEN {} ELSE {u})
           e == [NoEntry EXCEPT !.kind = "refresh", !.op = NextOp, !.removeOld = i,
                                !.state = IF exists THEN res ELSE None]
           w == {[r EXCEPT !.deps = @ \cap known] :
                   r \in (World \ OldOf(u)) \cup (IF exists THEN {res} ELSE {})}
<1>1. /\ PlanSound /\ StepsSound /\ ReplayForm(s) /\ s \in ReplayStates
      /\ ops \in Nat /\ NextOp = ops + 1 /\ NextOp \in Nat /\ mode = "refresh"
      /\ InBase(u) /\ step[u].at = "todo" /\ Refreshing(s)
      /\ step' = [step EXCEPT ![u] = now] /\ ops' = NextOp /\ UNCHANGED <<mode, plan>>
  BY SimIs DEF Refresh, Sim
<1>2. now \in StepRecords /\ now.op = NextOp /\ now.at = "done"
  BY <1>1 DEF StepRecords
<1>3. Emit(e, w, Running)
  BY DEF Refresh
<1>4. Steps(u, now)
  <2> HIDE DEF now
  <2> QED
    BY <1>1, <1>2 DEF Steps
<1>5. /\ i \in Kept(s) /\ i \notin DOMAIN s.replace /\ i \in DOMAIN plan /\ plan[i].urn = u
      /\ res = [plan[i] EXCEPT !.gen = Refreshed] /\ res \in Resources
      /\ \A j \in Kept(s) : j # i => plan[j].urn # u
      /\ World \ OldOf(u) = {Pruning(s, j) : j \in Kept(s) \ {i}}
      /\ {r.urn : r \in World} = {plan[j].urn : j \in Kept(s)}
  <2>1. Finding(s, u)
    BY <1>1 DEF Finding
  <2> QED
    BY <2>1, FoundIs DEF FoundAs
<1> HIDE DEF i, res
<1>6. i \in Nat /\ i # None /\ res # None
  BY <1>1, <1>5, SimFacts, JournalAssumption
<1>7. /\ e \in Entries /\ e.kind = "refresh" /\ ~e.elide /\ e.removeOld = i /\ e.removeNew = None
      /\ e.state = IF exists THEN res ELSE None
  BY <1>1, <1>5, <1>6, NoEntryIs DEF Entries
<1> HIDE DEF e, w
<1>8. Emission(e) /\ World' = w /\ Running' = Running
  BY <1>3, <1>7, Emitted
<1>9. s.new = <<>> /\ s.incomplete = <<>> /\ s.markDelete = {} /\ s.markPending = {}
  BY <1>1 DEF Refreshing
<1> SUFFICES ASSUME NEW t, t = ApplyEntry(s, e) PROVE Sim(t)'
  BY <1>8 DEF Follows
<1>10. Found(s, e, t)
  <2>1. Found(s, e, ApplyEntry(s, e))
    BY <1>1, <1>6, <1>7, <1>9, RefreshEffect
  <2> QED
    BY <2>1
<1> HIDE DEF known, now
<1>11. /\ t \in ReplayStates /\ t.base = s.base /\ t.new = <<>> /\ t.incomplete = <<>> /\ t.refresh
       /\ t.markDelete = {} /\ t.markPending = {}
  BY <1>9, <1>10 DEF Found
<1>12. ~exists => t.replace = s.replace /\ t.remove = s.remove \cup {i}
  BY <1>7, <1>10 DEF Found
<1>13. exists => /\ t.remove = s.remove /\ DOMAIN t.replace = DOMAIN s.replace \cup {i}
                 /\ \A j \in DOMAIN t.replace : t.replace[j] = IF j = i THEN res ELSE s.replace[j]
  BY <1>6, <1>7, <1>10 DEF Found
<1>14. Kept(t) = IF exists THEN Kept(s) ELSE Kept(s) \ {i}
  BY <1>12, <1>13 DEF Kept
<1>15. DOMAIN t.replace \subseteq Kept(t)
  BY <1>1, <1>5, <1>12, <1>13, <1>14 DEF Refreshing
<1>16. \A j \in DOMAIN t.replace : t.replace[j] = [plan[j] EXCEPT !.gen = Refreshed]
  <2>1. \A j \in DOMAIN s.replace : s.replace[j] = [plan[j] EXCEPT !.gen = Refreshed]
    BY <1>1 DEF Refreshing
  <2>2. CASE exists
    BY <1>5, <1>13, <2>1, <2>2
  <2>3. CASE ~exists
    BY <1>12, <2>1, <2>3
  <2> QED
    BY <2>2, <2>3
<1>17. /\ StepsSound' /\ step'[u] = now /\ \A v \in Urns : v # u => step'[v] = step[v]
  BY <1>1, <1>4, StepsStep
<1>18. \A j \in DOMAIN plan : step'[plan[j].urn].at = "todo" => j \in Kept(t) \ DOMAIN t.replace
  <2> SUFFICES ASSUME NEW j \in DOMAIN plan, step'[plan[j].urn].at = "todo"
               PROVE  j \in Kept(t) \ DOMAIN t.replace
    OBVIOUS
  <2>1. plan[j].urn \in Urns /\ plan[j].urn # u
    BY <1>1, <1>2, <1>17, SimFacts DEF Resources
  <2>2. j \in Kept(s) \ DOMAIN s.replace /\ j # i
    BY <1>1, <1>5, <1>17, <2>1 DEF Refreshing
  <2> QED
    BY <1>12, <1>13, <1>14, <2>2
<1>19. \A v \in Urns : step'[v].at \in {"todo", "done"}
  BY <1>1, <1>2, <1>17 DEF Refreshing
<1>20. known = {plan[j].urn : j \in Kept(t)}
  <2>1. CASE exists
    BY <1>5, <1>14, <2>1 DEF known
  <2>2. CASE ~exists
    <3>1. known = {plan[j].urn : j \in Kept(s)} \ {u}
      BY <1>5, <2>2 DEF known
    <3> QED
      BY <1>5, <1>14, <2>2, <3>1
  <2> QED
    BY <2>1, <2>2
<1>21. World' = {[Marked(t, j) EXCEPT !.deps = @ \cap known] : j \in Kept(t)}
  <2> DEFINE cut(r) == [r EXCEPT !.deps = @ \cap known]
  <2>1. ASSUME NEW j \in Kept(s), j # i
        PROVE  cut(Pruning(s, j)) = cut(Marked(t, j))
    <3>1. known \subseteq {plan[k].urn : k \in Kept(s)}
      BY <1>14, <1>20
    <3>2. cut(Pruning(s, j)) = cut(Marked(s, j))
      <4>1. Cut(Pruning(s, j), known) = Cut(Marked(s, j), known)
        BY <1>1, <3>1, PruneAgain
      <4> QED
        BY <4>1 DEF Cut
    <3>3. j \in DOMAIN t.replace <=> j \in DOMAIN s.replace
      BY <1>12, <1>13, <2>1
    <3>4. j \in DOMAIN t.replace => t.replace[j] = s.replace[j]
      BY <1>12, <1>13, <2>1
    <3>5. Marked(t, j) = Marked(s, j)
      BY <1>9, <1>11, <3>3, <3>4 DEF Marked
    <3> QED
      BY <3>2, <3>5
  <2>2. exists => Marked(t, i) = res
    <3> SUFFICES ASSUME exists PROVE Marked(t, i) = res
      OBVIOUS
    <3>1. i \in DOMAIN t.replace /\ t.replace[i] = res
      BY <1>13
    <3>2. Marked(t, i) = [res EXCEPT !.pendingReplacement = @ \/ i \in {}, !.delete = @ \/ i \in {}]
      BY <1>11, <3>1 DEF Marked
    <3> DEFINE r == [res EXCEPT !.pendingReplacement = @ \/ i \in {}, !.delete = @ \/ i \in {}]
    <3>3. /\ r \in Resources /\ r.urn = res.urn /\ r.deps = res.deps /\ r.gen = res.gen
          /\ (r.delete <=> res.delete) /\ (r.pendingReplacement <=> res.pendingReplacement)
      BY <1>5 DEF Resources
    <3> HIDE DEF r
    <3>4. r = res
      BY <1>5, <3>3, SameResource
    <3> QED
      BY <3>2, <3>4 DEF r
  <2>3. w = {cut(r) : r \in {Pruning(s, j) : j \in Kept(s) \ {i}} \cup (IF exists THEN {res} ELSE {})}
    BY <1>5 DEF w
  <2> HIDE DEF cut
  <2>4. w = {cut(Marked(t, j)) : j \in Kept(s) \ {i}} \cup (IF exists THEN {cut(res)} ELSE {})
    <3>1. w = {cut(Pruning(s, j)) : j \in Kept(s) \ {i}} \cup (IF exists THEN {cut(res)} ELSE {})
      BY <2>3
    <3> QED
      BY <2>1, <3>1
  <2>5. w = {cut(Marked(t, j)) : j \in Kept(t)}
    <3>1. CASE exists
      <4>1. {cut(Marked(t, j)) : j \in Kept(t)} =
              {cut(Marked(t, j)) : j \in Kept(s) \ {i}} \cup {cut(Marked(t, i))}
        BY <1>5, <1>14, <3>1
      <4> QED
        BY <2>2, <2>4, <3>1, <4>1
    <3>2. CASE ~exists
      BY <1>14, <2>4, <3>2
    <3> QED
      BY <3>1, <3>2
  <2> QED
    BY <1>8, <2>5 DEF cut
<1>22. Kept(t)' = Kept(t) /\ PlanSound'
  BY <1>1 DEF Kept, PlanSound
<1>23. World' = {Pruning(t, j)' : j \in Kept(t)'}
  <2>1. \A j : Pruning(t, j)' = [Marked(t, j) EXCEPT !.deps = @ \cap known]
    BY <1>1, <1>20, <1>22 DEF Pruning, Marked
  <2> QED
    BY <1>21, <1>22, <2>1
<1>24. ReplayForm(t)'
  <2>1. Ops(t.incomplete) = {} /\ Ops(s.incomplete) = {}
    BY <1>9, <1>11 DEF Ops
  <2>2. Running' = {}
    BY <1>1, <1>8, <2>1 DEF ReplayForm
  <2>3. t.base.resources = plan' /\ Ops(Creating(t.base.pending)) = Inherited
    BY <1>1, <1>11 DEF ReplayForm
  <2> QED
    BY <1>11, <2>1, <2>2, <2>3 DEF ReplayForm
<1>25. Refreshing(t)'
  <2>1. t.refresh <=> ops' > 0
    BY <1>1, <1>11
  <2>2. plan' = plan /\ plan' = Base.resources
    BY <1>1 DEF Refreshing
  <2>3. \A j \in DOMAIN plan' : step'[plan'[j].urn].at = "todo" => j \in Kept(t)' \ DOMAIN t.replace
    BY <1>18, <1>22, <2>2
  <2>4. \A j \in DOMAIN t.replace : t.replace[j] = [plan'[j] EXCEPT !.gen = Refreshed]
    BY <1>16, <2>2
  <2>5. DOMAIN t.replace \subseteq Kept(t)'
    BY <1>15, <1>22
  <2>6. World' = {Pruning(t, j)' : j \in Kept(t)'}
    BY <1>23
  <2> QED
    BY <1>11, <1>19, <2>1, <2>2, <2>3, <2>4, <2>5, <2>6 DEF Refreshing
<1> QED
  BY <1>1, <1>17, <1>22, <1>24, <1>25 DEF Sim

-----------------------------------------------------------------------------
(* A replay that begins. *)

\* Positions depend on nothing but those that exist.
LEMMA PositionsSame ==
  ASSUME NEW n \in Nat, NEW I, NEW J, \A i \in 1..n : i \in I <=> i \in J
  PROVE  Positions(n, I) = Positions(n, J)
<1> DEFINE s == [i \in 1..n |-> i]
<1>1. s \in Seq(1..n) /\ Len(s) = n
  OBVIOUS
<1> HIDE DEF s
<1>2. SelectAt(s, I) = SelectAt(s, J)
  BY <1>1, SelectAtSame
<1> QED
  BY <1>2 DEF Positions, s

\* A replay has just begun on b, when no step of an update has.
Unsteps == step = [u \in Urns |-> Idle]

\* A replay is fresh on b, and the engine about to update it.
FreshAt(t, b) ==
    /\ mode = "update" /\ ops \in Nat /\ Unsteps
    /\ PlanSound
    /\ b \in Snapshots /\ b.resources = plan /\ Ops(Creating(b.pending)) = Inherited
    /\ t \in ReplayStates /\ t.base = b /\ t.new = <<>> /\ t.incomplete = <<>> /\ t.remove = {}
    /\ DOMAIN t.replace = {} /\ t.markDelete = {} /\ t.markPending = {}
    /\ World = Elements(plan) /\ Running = {}

\* Steps that were not begun are sound.
LEMMA IdleSound ==
  ASSUME ops \in Nat, Unsteps, mode \in {"refresh", "update"}
  PROVE  /\ StepsSound
         /\ \A u \in Urns : step[u].at = "todo" /\ step[u].op = 0 /\ ~step[u].again
<1>1. Idle \in StepRecords /\ Idle.op = 0 /\ Idle.at = "todo" /\ ~Idle.again
  BY DEF Idle, StepRecords
<1>2. \A u \in Urns : step[u] = Idle
  BY DEF Unsteps
<1>3. step \in [Urns -> StepRecords]
  BY <1>1 DEF Unsteps
<1> QED
  BY <1>1, <1>2, <1>3 DEF StepsSound

\* A fresh replay tells of the engine that is about to begin,
LEMMA FreshSim ==
  ASSUME NEW CONSTANT t, NEW CONSTANT b
  PROVE  FreshAt(t, b) => Sim(t)
<1> SUFFICES ASSUME FreshAt(t, b) PROVE Sim(t)
  OBVIOUS
<1>1. /\ mode = "update" /\ ops \in Nat /\ Unsteps /\ PlanSound
      /\ b \in Snapshots /\ b.resources = plan /\ Ops(Creating(b.pending)) = Inherited
      /\ t \in ReplayStates /\ t.base = b /\ t.new = <<>> /\ t.incomplete = <<>> /\ t.remove = {}
      /\ DOMAIN t.replace = {} /\ t.markDelete = {} /\ t.markPending = {}
      /\ World = Elements(plan) /\ Running = {}
  BY DEF FreshAt
<1>2. /\ StepsSound
      /\ \A u \in Urns : step[u].at = "todo" /\ step[u].op = 0 /\ ~step[u].again
  BY <1>1, IdleSound
<1>3. ReplayForm(t)
  <2>1. Ops(t.incomplete) = {} /\ DOMAIN t.new = {}
    BY <1>1 DEF Ops
  <2> QED
    BY <1>1, <2>1 DEF ReplayForm
<1>4. Kept(t) = DOMAIN plan
  BY <1>1 DEF Kept
<1>5. DOMAIN t.new = {}
  BY <1>1
<1>6. Updating(t)
  <2>1. NewSound(t)
    BY <1>5 DEF NewSound
  <2>2. \A u \in Urns : StepSound(t, u)
    BY <1>2, <1>5 DEF StepSound
  <2>3. ASSUME NEW i \in DOMAIN plan PROVE OldSound(t, i)
    <3>1. plan[i].urn \in Urns
      BY <1>1, <1>3, SimFacts DEF Resources
    <3>2. NewUrns(t) = {}
      BY <1>5 DEF NewUrns
    <3>3. DOMAIN plan = 1..Len(plan) /\ Len(plan) \in Nat
      BY <1>1, <1>3, SimFacts
    <3>4. \A j \in 1..(i - 1) : j \in DOMAIN plan
      BY <3>3
    <3>5. plan[i].deps \subseteq {plan[j].urn : j \in Kept(t) \cap 1..(i - 1)}
      BY <1>1, <1>4, <3>4 DEF PlanSound
    <3> QED
      BY <1>1, <1>2, <1>4, <3>1, <3>2, <3>5 DEF OldSound
  <2>4. \A i \in DOMAIN plan : Marked(t, i) = plan[i]
    <3> SUFFICES ASSUME NEW i \in DOMAIN plan PROVE Marked(t, i) = plan[i]
      OBVIOUS
    <3>1. /\ Marked(t, i) \in Resources
          /\ Marked(t, i).urn = plan[i].urn /\ Marked(t, i).gen = plan[i].gen
          /\ Marked(t, i).deps = plan[i].deps
          /\ Marked(t, i).delete <=> i \in t.markDelete
          /\ Marked(t, i).pendingReplacement <=> i \in t.markPending
      BY <1>1, <1>3, MarkedIs
    <3>2. plan[i] \in Resources /\ ~plan[i].delete /\ ~plan[i].pendingReplacement
      BY <1>1, <1>3, SimFacts DEF PlanSound
    <3> QED
      BY <1>1, <3>1, <3>2, SameResource
  <2>5. World = {Marked(t, i) : i \in Kept(t)} \cup {t.new[k].res : k \in DOMAIN t.new}
    BY <1>1, <1>4, <1>5, <2>4 DEF Elements
  <2> QED
    BY <1>1, <2>1, <2>2, <2>3, <2>5 DEF Updating
<1> QED
  BY <1>1, <1>2, <1>3, <1>6 DEF Sim

\* and so it does after a step.
LEMMA FreshSimNext ==
  ASSUME NEW CONSTANT t, NEW CONSTANT b
  PROVE  FreshAt(t, b)' => Sim(t)'
<1>1. FreshAt(t, b) => Sim(t)
  BY FreshSim
<1> QED
  BY <1>1, PTL

\* Only its creations are inherited, however often they are selected.
LEMMA CreatingTwice ==
  ASSUME NEW p \in Seq(Operations)
  PROVE  Ops(Creating(Creating(p))) = Ops(Creating(p))
<1>1. /\ Creating(p) \in Seq(Operations)
      /\ Elements(Creating(p)) = {x \in Elements(p) : x.type = "creating"}
      /\ Ops(Creating(p)) = {x.op : x \in {y \in Elements(p) : y.type = "creating"}}
  BY CreatingElements
<1> DEFINE c == Creating(p)
<1> HIDE DEF c
<1>2. c \in Seq(Operations)
  BY <1>1 DEF c
<1>3. Ops(Creating(c)) = {x.op : x \in {y \in Elements(c) : y.type = "creating"}}
  BY <1>2, CreatingElements
<1>4. {y \in Elements(c) : y.type = "creating"} = Elements(c)
  BY <1>1 DEF c
<1> QED
  BY <1>1, <1>3, <1>4 DEF c

\* What the engine plans on after a refresh is what the replay has made of it.
LEMMA PlanRebuilt ==
  ASSUME NEW s, Sim(s), RebuildBase
  PROVE  plan' = RebuildFromJournal(s).resources
<1> DEFINE found(i) == {r \in World : r.urn = BaseUrns[i]}
           still == Positions(Len(BaseUrns), {i \in DOMAIN BaseUrns : found(i) # {}})
<1>1. /\ PlanSound /\ StepsSound /\ ReplayForm(s) /\ Refreshing(s) /\ mode = "refresh"
      /\ plan' = [k \in DOMAIN still |-> CHOOSE r \in found(still[k]) : TRUE]
  BY DEF Sim, RebuildBase
<1>2. plan = [j \in 1..Len(BaseUrns) |-> Resource(BaseUrns[j], Original, OldDeps[BaseUrns[j]])]
  BY <1>1 DEF Refreshing, Base
<1>3. Len(BaseUrns) \in Nat /\ DOMAIN BaseUrns = 1..Len(BaseUrns)
  BY JournalAssumption, LenProperties
<1>4. DOMAIN plan = 1..Len(BaseUrns) /\ \A i \in DOMAIN plan : plan[i].urn = BaseUrns[i]
  BY <1>2 DEF Resource
<1>5. Len(plan) \in Nat /\ DOMAIN plan = 1..Len(plan)
  BY <1>1, SimFacts
<1>6. Len(plan) = Len(BaseUrns)
  <2> DEFINE m == Len(plan)
             n == Len(BaseUrns)
  <2>1. m \in Nat /\ n \in Nat /\ 1..m = 1..n
    BY <1>3, <1>4, <1>5
  <2> HIDE DEF m, n
  <2>2. m = n
    BY <2>1
  <2> QED
    BY <2>2 DEF m, n
<1>7. \A i \in Kept(s) : i \in DOMAIN plan
  BY DEF Kept
<1>8. \A i \in Kept(s) : Pruning(s, i).urn = plan[i].urn
  BY <1>1, <1>7, PruningIs
<1>9. World = {Pruning(s, i) : i \in Kept(s)}
  BY <1>1 DEF Refreshing
<1>10. \A i \in DOMAIN plan : i \in Kept(s) => found(i) = {Pruning(s, i)}
  <2> SUFFICES ASSUME NEW i \in DOMAIN plan, i \in Kept(s) PROVE found(i) = {Pruning(s, i)}
    OBVIOUS
  <2>1. Pruning(s, i) \in found(i)
    BY <1>4, <1>8, <1>9
  <2>2. ASSUME NEW r \in found(i) PROVE r = Pruning(s, i)
    <3>1. r \in World /\ r.urn = plan[i].urn
      BY <1>4
    <3>2. PICK j \in Kept(s) : r = Pruning(s, j)
      BY <1>9, <3>1
    <3>3. j \in DOMAIN plan /\ plan[j].urn = plan[i].urn
      BY <1>7, <1>8, <3>1, <3>2
    <3>4. j = i
      BY <1>1, <3>3 DEF PlanSound
    <3> QED
      BY <3>2, <3>4
  <2> QED
    BY <2>1, <2>2
<1>11. \A i \in DOMAIN plan : i \notin Kept(s) => found(i) = {}
  <2> SUFFICES ASSUME NEW i \in DOMAIN plan, i \notin Kept(s), NEW r \in found(i) PROVE FALSE
    OBVIOUS
  <2>1. r \in World /\ r.urn = plan[i].urn
    BY <1>4
  <2>2. PICK j \in Kept(s) : r = Pruning(s, j)
    BY <1>9, <2>1
  <2>3. j \in DOMAIN plan /\ plan[j].urn = plan[i].urn
    BY <1>7, <1>8, <2>1, <2>2
  <2>4. j = i
    BY <1>1, <2>3 DEF PlanSound
  <2> QED
    BY <2>4
<1>12. still = Left(s)
  <2> DEFINE I == {i \in DOMAIN BaseUrns : found(i) # {}}
             J == Nat \ s.remove
             n == Len(BaseUrns)
  <2>1. \A i \in 1..n : i \in I <=> i \in J
    BY <1>3, <1>4, <1>10, <1>11 DEF Kept
  <2> HIDE DEF I, J, n, found
  <2>2. n \in Nat
    BY <1>3 DEF n
  <2>3. Positions(n, I) = Positions(n, J)
    BY <2>1, <2>2, PositionsSame
  <2> QED
    BY <1>6, <2>3 DEF Left, I, J, n
<1> HIDE DEF still, found
<1> DEFINE q == Left(s)
<1>13. Indexing(s, q)
  BY <1>1, LeftIs
<1> HIDE DEF q
<1>14. /\ \A k \in DOMAIN q : q[k] \in Kept(s) /\ q[k] \in DOMAIN plan
       /\ RebuildFromJournal(s).resources = [k \in DOMAIN q |-> Pruning(s, q[k])]
  BY <1>13 DEF Indexing
<1>15. plan' = [k \in DOMAIN q |-> CHOOSE r \in found(q[k]) : TRUE]
  BY <1>1, <1>12 DEF q
<1>16. \A k \in DOMAIN q : (CHOOSE r \in found(q[k]) : TRUE) = Pruning(s, q[k])
  BY <1>10, <1>14
<1> QED
  BY <1>14, <1>15, <1>16

\* A replay that begins on b.
FreshOn(t, b, refresh) ==
    /\ t \in ReplayStates /\ t.base = b /\ t.new = <<>> /\ t.incomplete = <<>> /\ t.remove = {}
    /\ DOMAIN t.replace = {} /\ t.markDelete = {} /\ t.markPending = {} /\ t.refresh = refresh

\* It is a replay state, whether or not a refresh came before.
LEMMA FreshState ==
  ASSUME NEW b \in Snapshots, NEW refresh \in BOOLEAN
  PROVE  FreshOn(Fresh(b), b, FALSE) /\ FreshOn([Fresh(b) EXCEPT !.refresh = refresh], b, refresh)
<1> DEFINE t == [Fresh(b) EXCEPT !.refresh = refresh]
<1>1. <<>> \in Seq([op : Nat, res : Resources]) /\ <<>> \in Seq(Operations)
  BY EmptySeq
<1> DEFINE none == [i \in {} |-> None]
<1>2. none \in Replacements /\ DOMAIN none = {}
  <2>1. none \in [{} -> Resources] /\ {} \in SUBSET Nat
    OBVIOUS
  <2> QED
    BY <2>1 DEF Replacements
<1> DEFINE f == Fresh(b)
<1>3. f = [base |-> b, new |-> <<>>, incomplete |-> <<>>, remove |-> {},
           replace |-> none, markDelete |-> {}, markPending |-> {}, refresh |-> FALSE]
  BY DEF Fresh
<1> HIDE DEF none, f
<1>4. /\ f \in ReplayStates /\ f.base = b /\ f.new = <<>> /\ f.incomplete = <<>> /\ f.remove = {}
      /\ f.replace = none /\ f.markDelete = {} /\ f.markPending = {} /\ f.refresh = FALSE
  BY <1>1, <1>2, <1>3 DEF ReplayStates
<1>5. t = [f EXCEPT !.refresh = refresh]
  BY DEF f
<1> HIDE DEF t
<1>6. t \in ReplayStates
  BY <1>4, <1>5 DEF ReplayStates
<1>7. /\ t.base = f.base /\ t.new = f.new /\ t.incomplete = f.incomplete /\ t.remove = f.remove
      /\ t.replace = f.replace /\ t.markDelete = f.markDelete /\ t.markPending = f.markPending
      /\ t.refresh = refresh
  BY <1>4, <1>5 DEF ReplayStates
<1>8. FreshOn(t, b, refresh)
  BY <1>2, <1>4, <1>6, <1>7 DEF FreshOn
<1>9. FreshOn(f, b, FALSE)
  BY <1>2, <1>4 DEF FreshOn
<1> QED
  BY <1>8, <1>9 DEF t, f

\* The engine goes on from what the refresh has found: the replay follows.
LEMMA RebuildBaseSim ==
  ASSUME NEW s, Sim(s), journal \in Seq(Entries), RebuildBase
  PROVE  \E e : Follows(s, e)
<1> DEFINE e == [NoEntry EXCEPT !.kind = "rebuilt"]
           b == RebuildFromJournal(s)
<1>1. /\ PlanSound /\ StepsSound /\ ReplayForm(s) /\ Refreshing(s) /\ mode = "refresh"
      /\ mode' = "update" /\ ops' = ops /\ ops \in Nat
      /\ step' = [u \in Urns |-> Idle] /\ s \in ReplayStates
  BY SimIs DEF Sim, RebuildBase
<1>2. Emit(e, World, Running)
  BY DEF RebuildBase
<1>3. e \in Entries /\ e.kind = "rebuilt" /\ ~e.elide
  BY NoEntryIs DEF Entries
<1> HIDE DEF e
<1>4. Emission(e) /\ World' = World /\ Running' = Running
  BY <1>2, <1>3, Emitted
<1>5. plan' = b.resources
  BY PlanRebuilt
<1>6. Told(s, Len(journal))
  BY SimTold
<1>7. b.pending = Creating(s.base.pending)
  BY <1>1, RefreshSnapshot
<1>8. PICK q : Indexing(s, q)
  BY <1>1, LeftIs
<1>9. /\ Len(q) \in Nat /\ DOMAIN q = 1..Len(q)
      /\ \A k \in DOMAIN q : q[k] \in Kept(s) /\ q[k] \in DOMAIN plan
      /\ \A k, l \in DOMAIN q : q[k] = q[l] => k = l
      /\ b = [resources |-> [k \in DOMAIN q |-> Pruning(s, q[k])], pending |-> Creating(s.base.pending)]
  BY <1>8 DEF Indexing
<1>10. plan' = [k \in DOMAIN q |-> Pruning(s, q[k])]
  BY <1>5, <1>9
<1>11. /\ b \in Snapshots /\ Elements(b.resources) = World /\ Readable(b.resources)
  BY <1>6 DEF Told, World
<1> HIDE DEF b
<1>12. \A k \in DOMAIN q : /\ Pruning(s, q[k]).urn = plan[q[k]].urn
                           /\ Pruning(s, q[k]).gen \in {Original, Refreshed}
                           /\ ~Pruning(s, q[k]).delete /\ ~Pruning(s, q[k]).pendingReplacement
  BY <1>1, <1>9, PruningIs
<1>13. PlanSound'
  <2>1. plan' \in Seq(Resources)
    BY <1>5, <1>11 DEF Snapshots
  <2>2. DOMAIN plan' = DOMAIN q
    BY <1>10
  <2>3. \A k, l \in DOMAIN plan' : plan'[k].urn = plan'[l].urn => k = l
    <3> SUFFICES ASSUME NEW k \in DOMAIN q, NEW l \in DOMAIN q, plan'[k].urn = plan'[l].urn
                 PROVE  k = l
      BY <2>2
    <3>1. plan[q[k]].urn = plan[q[l]].urn
      BY <1>10, <1>12
    <3>2. q[k] = q[l]
      BY <1>1, <1>9, <3>1 DEF PlanSound
    <3> QED
      BY <1>9, <3>2
  <2>4. \A k \in DOMAIN plan' : \A d \in plan'[k].deps : \E j \in 1..(k - 1) : plan'[j].urn = d
    BY <1>5, <1>11 DEF Readable
  <2>5. \A k \in DOMAIN plan' : /\ plan'[k].gen \in {Original, Refreshed}
                                /\ ~plan'[k].delete /\ ~plan'[k].pendingReplacement
    BY <1>10, <1>12
  <2> QED
    BY <2>1, <2>3, <2>4, <2>5 DEF PlanSound
<1> SUFFICES ASSUME NEW t, t = ApplyEntry(s, e) PROVE Sim(t)'
  BY <1>4 DEF Follows
<1>14. t = [Fresh(b) EXCEPT !.refresh = s.refresh]
  BY <1>3 DEF ApplyEntry, RebuiltBaseState, b
<1>15. s.refresh \in BOOLEAN /\ s.base.pending \in Seq(Operations)
  BY <1>1, SimFacts DEF ReplayStates
<1>16. /\ t \in ReplayStates /\ t.base = b /\ t.new = <<>> /\ t.incomplete = <<>> /\ t.remove = {}
       /\ DOMAIN t.replace = {} /\ t.markDelete = {} /\ t.markPending = {}
  <2> DEFINE refresh == s.refresh
  <2>1. refresh \in BOOLEAN /\ t = [Fresh(b) EXCEPT !.refresh = refresh]
    BY <1>14, <1>15
  <2> HIDE DEF refresh
  <2> DEFINE f == [Fresh(b) EXCEPT !.refresh = refresh]
  <2>2. FreshOn(f, b, refresh)
    BY <1>11, <2>1, FreshState
  <2> HIDE DEF f
  <2>3. t = f
    BY <2>1 DEF f
  <2> QED
    BY <2>2, <2>3 DEF FreshOn
<1>17. Ops(Creating(b.pending)) = Inherited
  BY <1>1, <1>7, <1>15, CreatingTwice DEF ReplayForm
<1>18. Running = {}
  BY <1>1 DEF ReplayForm, Refreshing, Ops
<1>19. FreshAt(t, b)'
  BY <1>1, <1>4, <1>5, <1>11, <1>13, <1>16, <1>17, <1>18 DEF FreshAt, Unsteps
<1> QED
  BY <1>19, FreshSimNext

-----------------------------------------------------------------------------
(* The initial states. *)

\* The snapshot an update starts from.
LEMMA BaseIs ==
  /\ Base \in Snapshots
  /\ \A i, j \in DOMAIN Base.resources : Base.resources[i].urn = Base.resources[j].urn => i = j
  /\ \A i \in DOMAIN Base.resources :
        /\ Base.resources[i].gen = Original
        /\ ~Base.resources[i].delete /\ ~Base.resources[i].pendingReplacement
  /\ Readable(Base.resources)
  /\ Base.pending = BasePending
<1> DEFINE n == Len(BaseUrns)
           r == [i \in 1..n |-> Resource(BaseUrns[i], Original, OldDeps[BaseUrns[i]])]
<1>1. n \in Nat /\ DOMAIN BaseUrns = 1..n /\ \A i \in 1..n : BaseUrns[i] \in Urns
  BY JournalAssumption, LenProperties, ElementOfSeq
<1>2. Base.resources = r /\ Base.pending = BasePending /\ Base = [resources |-> r, pending |-> BasePending]
  BY DEF Base
<1>3. \A i \in 1..n : Resource(BaseUrns[i], Original, OldDeps[BaseUrns[i]]) \in Resources
  BY <1>1, JournalAssumption DEF Resource, Resources, Original, Registered
<1>4. DOMAIN r = 1..n /\ \A i \in 1..n : r[i] = Resource(BaseUrns[i], Original, OldDeps[BaseUrns[i]])
  OBVIOUS
<1> HIDE DEF n
<1>5. r \in Seq(Resources)
  BY <1>1, <1>3
<1> HIDE DEF r
<1>6. \A i \in 1..n : /\ r[i].urn = BaseUrns[i] /\ r[i].deps = OldDeps[BaseUrns[i]]
                      /\ r[i].gen = Original /\ ~r[i].delete /\ ~r[i].pendingReplacement
  BY <1>4 DEF Resource
<1>7. \A i, j \in DOMAIN r : r[i].urn = r[j].urn => i = j
  BY <1>1, <1>4, <1>6, BaseAssumption
<1>8. Readable(r)
  <2> SUFFICES ASSUME NEW k \in DOMAIN r, NEW d \in r[k].deps
               PROVE  \E j \in 1..(k - 1) : r[j].urn = d
    BY DEF Readable
  <2>1. PICK j \in 1..(k - 1) : BaseUrns[j] = d
    BY <1>1, <1>4, <1>6, BaseAssumption
  <2>2. j \in 1..n
    BY <1>1, <1>4
  <2> QED
    BY <1>6, <2>1, <2>2
<1>9. Base \in Snapshots
  BY <1>2, <1>5, JournalAssumption DEF Snapshots
<1> QED
  BY <1>2, <1>4, <1>6, <1>7, <1>8, <1>9

\* At first the replay of no entry tells of the base.
LEMMA InitSim ==
  ASSUME Init
  PROVE  /\ Sim(Fresh(Base)) /\ World = Elements(Base.resources)
         /\ outcome[0] = Elements(Base.resources) /\ Len(journal) = 0
<1> DEFINE t == Fresh(Base)
<1>1. /\ mode \in {"refresh", "update"} /\ ops = 0 /\ ops \in Nat /\ plan = Base.resources /\ Unsteps
      /\ journal = <<>> /\ Len(journal) = 0
      /\ outcome = [n \in {0} |-> {Base.resources[i] : i \in 1..Len(BaseUrns)}]
      /\ underway = [n \in {0} |-> {}]
  BY DEF Init, Unsteps
<1>2. /\ Base \in Snapshots
      /\ \A i, j \in DOMAIN Base.resources : Base.resources[i].urn = Base.resources[j].urn => i = j
      /\ \A i \in DOMAIN Base.resources :
            /\ Base.resources[i].gen = Original
            /\ ~Base.resources[i].delete /\ ~Base.resources[i].pendingReplacement
      /\ Readable(Base.resources)
      /\ Base.pending = BasePending
  BY BaseIs
<1>3. outcome[0] = Elements(plan) /\ World = Elements(plan) /\ Running = {}
  <2>1. DOMAIN plan = 1..Len(BaseUrns)
    BY <1>1 DEF Base
  <2> QED
    BY <1>1, <2>1 DEF World, Running, Elements
<1>4. PlanSound
  BY <1>1, <1>2 DEF PlanSound, Readable, Snapshots
<1>5. Ops(Creating(Base.pending)) = Inherited
  BY <1>2, InheritedOps
<1>6. FreshOn(t, Base, FALSE)
  BY <1>2, FreshState
<1> HIDE DEF t
<1>7. /\ t \in ReplayStates /\ t.base = Base /\ t.new = <<>> /\ t.incomplete = <<>> /\ t.remove = {}
      /\ DOMAIN t.replace = {} /\ t.markDelete = {} /\ t.markPending = {} /\ t.refresh = FALSE
  BY <1>6 DEF FreshOn
<1>8. CASE mode = "update"
  <2>1. FreshAt(t, Base)
    BY <1>1, <1>2, <1>3, <1>4, <1>5, <1>7, <1>8 DEF FreshAt
  <2>2. Sim(t)
    BY <2>1, FreshSim
  <2> QED
    BY <1>1, <1>3, <2>2 DEF t
<1>9. CASE mode = "refresh"
  <2>1. StepsSound /\ \A u \in Urns : step[u].at = "todo"
    BY <1>1, IdleSound
  <2>2. ReplayForm(t)
    <3>1. Ops(t.incomplete) = {} /\ DOMAIN t.new = {}
      BY <1>7 DEF Ops
    <3> QED
      BY <1>1, <1>3, <1>5, <1>7, <3>1 DEF ReplayForm
  <2>3. Kept(t) = DOMAIN plan
    BY <1>7 DEF Kept
  <2>4. ASSUME NEW i \in DOMAIN plan
        PROVE  Pruning(t, i) = plan[i]
    <3>1. plan[i] \in Resources /\ ~plan[i].delete /\ ~plan[i].pendingReplacement
      BY <1>4, <2>2, SimFacts DEF PlanSound
    <3>2. Marked(t, i) = plan[i]
      <4>1. /\ Marked(t, i) \in Resources
            /\ Marked(t, i).urn = plan[i].urn /\ Marked(t, i).gen = plan[i].gen
            /\ Marked(t, i).deps = plan[i].deps
            /\ Marked(t, i).delete <=> i \in t.markDelete
            /\ Marked(t, i).pendingReplacement <=> i \in t.markPending
        BY <1>4, <1>7, <2>2, MarkedIs
      <4> QED
        BY <1>7, <3>1, <4>1, SameResource
    <3>3. Len(plan) \in Nat /\ DOMAIN plan = 1..Len(plan)
      BY <1>4, <2>2, SimFacts
    <3>4. \A d \in plan[i].deps : \E j \in DOMAIN plan : plan[j].urn = d
      <4>1. \A j \in 1..(i - 1) : j \in DOMAIN plan
        BY <3>3
      <4> QED
        BY <1>4, <4>1 DEF PlanSound
    <3> DEFINE K == {plan[j].urn : j \in Kept(t)}
               r == plan[i]
    <3>5. r.deps \cap K = r.deps
      BY <2>3, <3>4
    <3>6. Pruning(t, i) = [r EXCEPT !.deps = @ \cap K]
      BY <3>2 DEF Pruning
    <3> HIDE DEF r, K
    <3>7. [r EXCEPT !.deps = @ \cap K] = r
      BY <3>1, <3>5 DEF Resources, r
    <3> QED
      BY <3>6, <3>7 DEF r
  <2>5. World = {Pruning(t, i) : i \in Kept(t)}
    BY <1>3, <2>3, <2>4 DEF Elements
  <2>6. Refreshing(t)
    BY <1>1, <1>7, <2>1, <2>3, <2>5 DEF Refreshing
  <2>7. Sim(t)
    BY <1>4, <1>9, <2>1, <2>2, <2>6 DEF Sim
  <2> QED
    BY <1>1, <1>3, <2>7 DEF t
<1> QED
  BY <1>1, <1>8, <1>9

-----------------------------------------------------------------------------
(* The replay of the stored entries. *)

\* R are the states of the replay of the first h entries.
LEMMA ReplayedIs ==
  ASSUME journal \in Seq(Entries), NEW h \in 0..Len(journal), NEW R, Replays(R)
  PROVE  ApplyJournalEntries(Base, StoredEntries(1..h)) = RebuildFromJournal(R[h])
<1>1. Len(journal) \in Nat /\ h \in Nat /\ h <= Len(journal)
  BY LenProperties
<1> DEFINE E == [i \in 1..h |-> journal[i]]
           F(f) == [n \in 0..h |-> IF n = 0 THEN Fresh(Base) ELSE ApplyEntry(f[n - 1], E[n])]
           p == CHOOSE f : f = F(f)
           g == [n \in 0..h |-> R[n]]
<1>2. StoredEntries(1..h) = E
  BY SelectAtPrefix DEF StoredEntries
<1>3. Len(E) = h
  BY <1>1
<1>4. ApplyJournalEntries(Base, StoredEntries(1..h)) = RebuildFromJournal(p[h])
  <2> DEFINE a(x) == ApplyJournalEntries(Base, x)
  <2>1. a(E) = RebuildFromJournal(p[h])
    BY <1>3 DEF ApplyJournalEntries
  <2> QED
    BY <1>2, <2>1
<1>5. g = F(g)
  <2> SUFFICES ASSUME NEW n \in 0..h
               PROVE  R[n] = IF n = 0 THEN Fresh(Base) ELSE ApplyEntry(g[n - 1], E[n])
    OBVIOUS
  <2>1. CASE n = 0
    BY <2>1 DEF Replays
  <2>2. CASE n # 0
    <3>1. n \in 1..h /\ n - 1 \in 0..h /\ n \in 1..Len(journal)
      BY <1>1, <2>2
    <3>2. R[n] = ApplyEntry(R[n - 1], journal[n])
      BY <3>1 DEF Replays
    <3>3. g[n - 1] = R[n - 1] /\ E[n] = journal[n]
      BY <3>1
    <3> QED
      BY <2>2, <3>2, <3>3
  <2> QED
    BY <2>1, <2>2
<1>6. p = F(p)
  <2> HIDE DEF F
  <2> QED
    BY <1>5
<1>7. p[0] = Fresh(Base) /\ \A n \in 1..h : p[n] = ApplyEntry(p[n - 1], journal[n])
  <2> HIDE DEF p
  <2>1. 0 \in 0..h /\ \A n \in 1..h : n \in 0..h /\ n # 0
    BY <1>1
  <2>2. \A n \in 0..h : p[n] = F(p)[n]
    BY <1>6
  <2>3. \A n \in 1..h : E[n] = journal[n]
    OBVIOUS
  <2> HIDE DEF E
  <2> QED
    BY <2>1, <2>2, <2>3
<1> HIDE DEF p, g, E, F
<1> DEFINE P == {n \in Nat : n <= h => p[n] = R[n]}
<1>8. 0 \in P
  BY <1>7 DEF Replays
<1>9. ASSUME NEW n \in Nat, n \in P
      PROVE  n + 1 \in P
  <2> SUFFICES ASSUME n + 1 <= h PROVE p[n + 1] = R[n + 1]
    OBVIOUS
  <2>1. n + 1 \in 1..h /\ n + 1 \in 1..Len(journal) /\ (n + 1) - 1 = n /\ n <= h
    BY <1>1
  <2>2. p[n] = R[n]
    BY <1>9, <2>1
  <2>3. R[n + 1] = ApplyEntry(R[n], journal[n + 1])
    BY <2>1 DEF Replays
  <2> QED
    BY <1>7, <2>1, <2>2, <2>3
<1> HIDE DEF P
<1>10. Nat \subseteq P
  BY <1>8, <1>9, InductiveSet
<1>11. p[h] = R[h]
  BY <1>1, <1>10 DEF P
<1> QED
  BY <1>4, <1>11

-----------------------------------------------------------------------------
(* The journal, its storage and the checkpoint. *)

\* R are the replay states after each entry: they tell of the world after it, the
\* last one is the engine's, and the stored rows and checkpoint are from it.
Replayed(R) ==
    /\ Replays(R) /\ \A n \in 0..Len(journal) : Told(R[n], n)
    /\ Sim(R[Len(journal)]) /\ Delivered(R)

\* The inductive invariant of the journal.
JournalInv ==
    /\ journal \in Seq(Entries) /\ sent \in 0..Len(journal) /\ Recorded
    /\ \E R : Replayed(R)

\* The rows are the first h entries and the checkpoint is the m-th.
DeliveredAs(R, h, m) ==
    /\ h \in 0..sent /\ m \in 0..sent
    /\ stored = 1..h /\ m <= h
    /\ \A b \in batches : b[1] \in 1..(h + 1) /\ b[2] \in Nat /\ b[2] <= sent
    /\ \A n \in (m + 1)..h : journal[n].elide
    /\ checkpoint = IF m = 0 THEN None ELSE RebuildFromJournal(R[m])

\* There are such rows and such a checkpoint.
LEMMA DeliveredIs ==
  ASSUME NEW R
  PROVE  Delivered(R) <=> \E h, m : DeliveredAs(R, h, m)
BY DEF Delivered, DeliveredAs

\* The simulation tells of the world, after a step as well.
LEMMA SimToldNext ==
  ASSUME NEW CONSTANT s
  PROVE  Sim(s)' => Told(s, Len(journal))'
<1>1. Sim(s) => Told(s, Len(journal))
  BY SimTold
<1> QED
  BY <1>1, PTL

\* The invariant holds at first.
LEMMA InitJournalInv ==
  ASSUME Init
  PROVE  JournalInv
<1>1. /\ Sim(Fresh(Base)) /\ World = Elements(Base.resources)
      /\ outcome[0] = Elements(Base.resources) /\ Len(journal) = 0
  BY InitSim
<1>2. journal \in Seq(Entries) /\ sent = 0 /\ stored = {} /\ batches = {} /\ checkpoint = None
  BY EmptySeq DEF Init
<1>3. Recorded
  BY <1>1 DEF Recorded
<1> DEFINE R == [n \in {0} |-> Fresh(Base)]
<1>4. R[0] = Fresh(Base)
  OBVIOUS
<1> HIDE DEF R
<1>5. Replays(R)
  BY <1>1, <1>4 DEF Replays
<1>6. Told(R[0], 0)
  <2>1. Told(Fresh(Base), Len(journal))
    BY <1>1, SimTold
  <2> QED
    BY <1>1, <1>4, <2>1
<1>7. DeliveredAs(R, 0, 0)
  BY <1>2 DEF DeliveredAs
<1>8. Sim(R[Len(journal)])
  BY <1>1, <1>4
<1>9. Replayed(R)
  BY <1>1, <1>5, <1>6, <1>7, <1>8, DeliveredIs DEF Replayed
<1> QED
  BY <1>1, <1>2, <1>3, <1>9 DEF JournalInv

\* An entry of the engine.
LEMMA EngineJournalInv ==
  ASSUME JournalInv, NEW R, Replayed(R), NEW e, Follows(R[Len(journal)], e)
  PROVE  JournalInv'
<1>0. PICK L : L = Len(journal)
  OBVIOUS
<1>s. PICK t : t = ApplyEntry(R[L], e)
  OBVIOUS
<1>q. PICK Q : Q = [n \in 0..(L + 1) |-> IF n > L THEN t ELSE R[n]]
  OBVIOUS
<1>1. /\ journal \in Seq(Entries) /\ sent \in 0..L /\ Recorded /\ L \in Nat
      /\ Replays(R) /\ (\A n \in 0..L : Told(R[n], n)) /\ Delivered(R)
  BY <1>0, LenProperties DEF JournalInv, Replayed
<1>2. /\ e \in Entries /\ journal' = Append(journal, e)
      /\ \A n \in 0..L : outcome'[n] = outcome[n] /\ underway'[n] = underway[n]
      /\ e.elide => World' = World /\ Running' = Running
      /\ UNCHANGED <<batches, sent, stored, checkpoint>>
      /\ Sim(t)'
  BY <1>0, <1>s DEF Follows, Emission
<1>3. /\ journal' \in Seq(Entries) /\ Len(journal') = L + 1
      /\ \A n \in 1..L : journal'[n] = journal[n]
      /\ journal'[L + 1] = e
  <2>1. /\ Append(journal, e) \in Seq(Entries) /\ Len(Append(journal, e)) = L + 1
        /\ \A n \in 1..L : Append(journal, e)[n] = journal[n]
        /\ Append(journal, e)[L + 1] = e
    BY <1>0, <1>1, <1>2, AppendProperties
  <2> QED
    BY <1>2, <2>1
<1>4. (\A n \in 0..L : Q[n] = R[n]) /\ Q[L + 1] = t
  BY <1>1, <1>q
<1>5. Recorded'
  <2>1. outcome'[0] = Elements(Base.resources)
    BY <1>1, <1>2 DEF Recorded
  <2>2. ASSUME NEW n \in 1..(L + 1), journal'[n].elide
        PROVE  outcome'[n] = outcome'[n - 1] /\ underway'[n] = underway'[n - 1]
    <3>1. CASE n = L + 1
      <4>1. World' = World /\ Running' = Running
        BY <1>2, <1>3, <2>2, <3>1
      <4>2. outcome'[L + 1] = outcome[L] /\ underway'[L + 1] = underway[L]
        BY <1>0, <1>3, <4>1 DEF World, Running
      <4>3. L \in 0..L /\ (L + 1) - 1 = L
        BY <1>1
      <4> QED
        BY <1>2, <3>1, <4>2, <4>3
    <3>2. CASE n # L + 1
      <4>1. n \in 1..L /\ n \in 0..L /\ n - 1 \in 0..L
        BY <1>1, <3>2
      <4>2. journal[n].elide
        BY <1>3, <2>2, <4>1
      <4> QED
        BY <1>0, <1>1, <1>2, <4>1, <4>2 DEF Recorded
    <3> QED
      BY <3>1, <3>2
  <2> QED
    BY <1>3, <2>1, <2>2 DEF Recorded
<1>6. Replays(Q)'
  <2>1. Q[0] = Fresh(Base)
    BY <1>1, <1>4 DEF Replays
  <2>2. ASSUME NEW n \in 1..(L + 1)
        PROVE  Q[n] = ApplyEntry(Q[n - 1], journal'[n])
    <3>1. CASE n = L + 1
      <4>1. (L + 1) - 1 = L /\ L \in 0..L
        BY <1>1
      <4> QED
        BY <1>3, <1>4, <1>s, <3>1, <4>1
    <3>2. CASE n # L + 1
      <4>1. n \in 1..L /\ n \in 0..L /\ n - 1 \in 0..L
        BY <1>1, <3>2
      <4>2. R[n] = ApplyEntry(R[n - 1], journal[n])
        BY <1>0, <1>1, <4>1 DEF Replays
      <4> QED
        BY <1>3, <1>4, <4>1, <4>2
    <3> QED
      BY <3>1, <3>2
  <2> QED
    BY <1>3, <2>1, <2>2 DEF Replays
<1>7. ASSUME NEW n \in 0..(L + 1) PROVE Told(Q[n], n)'
  <2>1. CASE n = L + 1
    <3>1. Told(t, Len(journal))'
      BY <1>2, SimToldNext
    <3> QED
      BY <1>3, <1>4, <2>1, <3>1
  <2>2. CASE n # L + 1
    <3>1. n \in 0..L
      BY <1>1, <2>2
    <3>2. Told(R[n], n)
      BY <1>1, <3>1
    <3> QED
      BY <1>2, <1>4, <3>1, <3>2 DEF Told
  <2> QED
    BY <2>1, <2>2
<1>8. Sim(Q[Len(journal)])'
  BY <1>2, <1>3, <1>4
<1>9. PICK h, m : DeliveredAs(R, h, m)
  BY <1>1, DeliveredIs
<1>10. DeliveredAs(Q, h, m)'
  <2>1. /\ h \in 0..sent /\ m \in 0..sent
        /\ stored = 1..h /\ m <= h
        /\ \A b \in batches : b[1] \in 1..(h + 1) /\ b[2] \in Nat /\ b[2] <= sent
        /\ \A n \in (m + 1)..h : journal[n].elide
        /\ checkpoint = IF m = 0 THEN None ELSE RebuildFromJournal(R[m])
    BY <1>9 DEF DeliveredAs
  <2>2. m \in 0..L /\ \A n \in (m + 1)..h : n \in 1..L
    BY <1>1, <2>1
  <2>3. \A n \in (m + 1)..h : journal'[n].elide
    BY <1>3, <2>1, <2>2
  <2>4. Q[m] = R[m]
    BY <1>4, <2>2
  <2> QED
    BY <1>2, <2>1, <2>3, <2>4 DEF DeliveredAs
<1>11. Delivered(Q)'
  BY <1>10 DEF Delivered, DeliveredAs
<1>12. sent' \in 0..Len(journal')
  BY <1>1, <1>2, <1>3
<1>13. Replayed(Q)'
  BY <1>3, <1>6, <1>7, <1>8, <1>11 DEF Replayed
<1> QED
  BY <1>3, <1>5, <1>12, <1>13 DEF JournalInv

\* What is neither the engine's nor the journal's does not matter to the replay.
LEMMA SimStays ==
  ASSUME NEW s, Sim(s), UNCHANGED <<mode, plan, ops, step, outcome, underway, journal>>
  PROVE  Sim(s)'
<1>1. World' = World /\ Running' = Running
  BY DEF World, Running
<1>2. /\ Kept(s)' = Kept(s) /\ NewUrns(s)' = NewUrns(s)
      /\ \A u : InBase(u)' = InBase(u) /\ IndexOf(u)' = IndexOf(u)
      /\ \A i : Marked(s, i)' = Marked(s, i)
  BY DEF Kept, NewUrns, InBase, IndexOf, Marked
<1>3. \A i : Pruning(s, i)' = Pruning(s, i)
  BY <1>2 DEF Pruning
<1>4. PlanSound' /\ StepsSound'
  BY DEF Sim, PlanSound, StepsSound
<1>5. ReplayForm(s)'
  BY <1>1 DEF Sim, ReplayForm
<1>6. mode = "refresh" => Refreshing(s)'
  BY <1>1, <1>2, <1>3 DEF Sim, Refreshing
<1>7. ASSUME mode = "update"
      PROVE  Updating(s)'
  <2>1. Updating(s)
    BY <1>7 DEF Sim
  <2>2. NewSound(s)'
    BY <1>2, <2>1 DEF Updating, NewSound, NewOf
  <2>3. \A u \in Urns : StepSound(s, u)'
    BY <1>1, <1>2, <2>1 DEF Updating, StepSound
  <2>4. \A i \in DOMAIN plan : OldSound(s, i)'
    BY <1>2, <2>1 DEF Updating, OldSound
  <2>5. World' = {Marked(s, i)' : i \in Kept(s)'} \cup {s.new[k].res : k \in DOMAIN s.new}
    BY <1>1, <1>2, <2>1 DEF Updating
  <2> QED
    BY <2>1, <2>2, <2>3, <2>4, <2>5 DEF Updating
<1> QED
  BY <1>4, <1>5, <1>6, <1>7 DEF Sim

\* The next batch is sent.
LEMMA SendJournalInv ==
  ASSUME JournalInv, SendBatch
  PROVE  JournalInv'
<1>0. PICK R : Replayed(R)
  BY DEF JournalInv
<1>1. /\ journal \in Seq(Entries) /\ Len(journal) \in Nat /\ sent \in 0..Len(journal) /\ Recorded
      /\ Replays(R) /\ (\A n \in 0..Len(journal) : Told(R[n], n)) /\ Sim(R[Len(journal)])
      /\ Delivered(R)
  BY <1>0, LenProperties DEF JournalInv, Replayed
<1>2. /\ sent < Len(journal) /\ 1..sent \subseteq stored
      /\ batches' = batches \cup {<<sent + 1, Len(journal)>>}
      /\ sent' = Len(journal)
      /\ UNCHANGED <<mode, plan, ops, step, outcome, underway, journal, stored, checkpoint>>
  BY DEF SendBatch, engine
<1>3. PICK h, m : DeliveredAs(R, h, m)
  BY <1>1, DeliveredIs
<1>4. /\ h \in 0..sent /\ m \in 0..sent
      /\ stored = 1..h /\ m <= h
      /\ \A b \in batches : b[1] \in 1..(h + 1) /\ b[2] \in Nat /\ b[2] <= sent
      /\ \A n \in (m + 1)..h : journal[n].elide
      /\ checkpoint = IF m = 0 THEN None ELSE RebuildFromJournal(R[m])
  BY <1>3 DEF DeliveredAs
<1>5. h = sent
  BY <1>1, <1>2, <1>4
<1>6. DeliveredAs(R, h, m)'
  <2>1. h \in 0..sent' /\ m \in 0..sent'
    BY <1>1, <1>2, <1>4
  <2>2. \A b \in batches' : b[1] \in 1..(h + 1) /\ b[2] \in Nat /\ b[2] <= sent'
    BY <1>1, <1>2, <1>4, <1>5
  <2> QED
    BY <1>2, <1>4, <2>1, <2>2 DEF DeliveredAs
<1>7. Replays(R)' /\ Recorded' /\ Delivered(R)'
  BY <1>1, <1>2, <1>6 DEF Replays, Recorded, Delivered, DeliveredAs
<1>8. \A n \in 0..Len(journal)' : Told(R[n], n)'
  BY <1>1, <1>2 DEF Told
<1>9. Sim(R[Len(journal)])'
  <2>1. PICK s : s = R[Len(journal)]
    OBVIOUS
  <2>2. Sim(s)'
    BY <1>1, <1>2, <2>1, SimStays
  <2> QED
    BY <1>2, <2>1, <2>2
<1>10. Replayed(R)'
  BY <1>7, <1>8, <1>9 DEF Replayed
<1> QED
  BY <1>1, <1>2, <1>7, <1>10 DEF JournalInv

\* A batch is stored, again or for the first time, and perhaps replayed.
LEMMA AppendJournalInv ==
  ASSUME JournalInv, NEW b \in batches, NEW again \in BOOLEAN, AppendJournalEntries(b, again)
  PROVE  JournalInv'
<1>0. PICK R : Replayed(R)
  BY DEF JournalInv
<1>1. /\ journal \in Seq(Entries) /\ Len(journal) \in Nat /\ sent \in 0..Len(journal) /\ Recorded
      /\ Replays(R) /\ (\A n \in 0..Len(journal) : Told(R[n], n)) /\ Sim(R[Len(journal)])
      /\ Delivered(R)
  BY <1>0, LenProperties DEF JournalInv, Replayed
<1>2. /\ stored' = stored \cup (b[1]..b[2])
      /\ checkpoint' = IF HasNonElided(b) THEN ApplyJournalEntries(Base, StoredEntries(stored'))
                       ELSE checkpoint
      /\ batches' \subseteq batches
      /\ UNCHANGED <<mode, plan, ops, step, outcome, underway, journal, sent>>
  BY DEF AppendJournalEntries, Inserted, engine
<1>3. PICK h, m : DeliveredAs(R, h, m)
  BY <1>1, DeliveredIs
<1>4. /\ h \in 0..sent /\ m \in 0..sent /\ h \in Nat /\ sent \in Nat
      /\ stored = 1..h /\ m <= h
      /\ \A c \in batches : c[1] \in 1..(h + 1) /\ c[2] \in Nat /\ c[2] <= sent
      /\ \A n \in (m + 1)..h : journal[n].elide
      /\ checkpoint = IF m = 0 THEN None ELSE RebuildFromJournal(R[m])
  BY <1>1, <1>3 DEF DeliveredAs
<1>5. PICK k \in Nat : (b[2] > h => k = b[2]) /\ (b[2] <= h => k = h)
  BY <1>4
<1>6. k \in 0..sent /\ k \in 0..Len(journal) /\ h <= k /\ m <= k
  BY <1>1, <1>4, <1>5
<1>7. stored' = 1..k
  <2>1. \A n : n \in stored' <=> n \in 1..k
    BY <1>2, <1>4, <1>5
  <2> QED
    BY <2>1
<1>8. \A c \in batches' : c[1] \in 1..(k + 1) /\ c[2] \in Nat /\ c[2] <= sent'
  BY <1>2, <1>4, <1>6
<1>9. \E l : DeliveredAs(R, k, l)'
  <2>1. CASE HasNonElided(b)
    <3>1. k # 0
      BY <1>4, <1>5, <2>1 DEF HasNonElided
    <3>2. checkpoint' = ApplyJournalEntries(Base, StoredEntries(1..k))
      BY <1>2, <1>7, <2>1
    <3>3. ApplyJournalEntries(Base, StoredEntries(1..k)) = RebuildFromJournal(R[k])
      BY <1>1, <1>6, ReplayedIs
    <3>4. checkpoint' = IF k = 0 THEN None ELSE RebuildFromJournal(R[k])
      BY <3>1, <3>2, <3>3
    <3>5. \A n \in (k + 1)..k : journal'[n].elide
      BY <1>6
    <3>6. DeliveredAs(R, k, k)'
      BY <1>2, <1>6, <1>7, <1>8, <3>4, <3>5 DEF DeliveredAs
    <3> QED
      BY <3>6
  <2>2. CASE ~HasNonElided(b)
    <3>1. \A n \in (m + 1)..k : journal[n].elide
      <4> SUFFICES ASSUME NEW n \in (m + 1)..k PROVE journal[n].elide
        OBVIOUS
      <4>1. CASE n <= h
        BY <1>4, <4>1
      <4>2. CASE ~(n <= h)
        <5>1. n \in b[1]..b[2]
          BY <1>4, <1>5, <4>2
        <5> QED
          BY <2>2, <5>1 DEF HasNonElided
      <4> QED
        BY <4>1, <4>2
    <3>2. checkpoint' = IF m = 0 THEN None ELSE RebuildFromJournal(R[m])
      BY <1>2, <1>4, <2>2
    <3>3. DeliveredAs(R, k, m)'
      BY <1>2, <1>4, <1>6, <1>7, <1>8, <3>1, <3>2 DEF DeliveredAs
    <3> QED
      BY <3>3
  <2> QED
    BY <2>1, <2>2
<1>10. Replays(R)' /\ Recorded' /\ Delivered(R)'
  <2>1. Replays(R)' /\ Recorded'
    BY <1>1, <1>2 DEF Replays, Recorded
  <2> QED
    BY <1>9, <2>1 DEF Delivered, DeliveredAs
<1>11. \A n \in 0..Len(journal)' : Told(R[n], n)'
  BY <1>1, <1>2 DEF Told
<1>12. Sim(R[Len(journal)])'
  <2>1. PICK s : s = R[Len(journal)]
    OBVIOUS
  <2>2. Sim(s)'
    BY <1>1, <1>2, <2>1, SimStays
  <2> QED
    BY <1>2, <2>1, <2>2
<1>13. Replayed(R)'
  BY <1>10, <1>11, <1>12 DEF Replayed
<1> QED
  BY <1>1, <1>2, <1>10, <1>13 DEF JournalInv

\* Nothing happens.
LEMMA StutterJournalInv ==
  ASSUME JournalInv, UNCHANGED vars
  PROVE  JournalInv'
<1>0. PICK R : Replayed(R)
  BY DEF JournalInv
<1>1. UNCHANGED <<mode, plan, ops, step, outcome, underway, journal, batches, sent, stored, checkpoint>>
  BY DEF vars, engine
<1>2. PICK s : s = R[Len(journal)]
  OBVIOUS
<1>3. Sim(s)'
  BY <1>0, <1>1, <1>2, SimStays DEF Replayed
<1>4. Sim(R[Len(journal)])'
  BY <1>1, <1>2, <1>3
<1>5. Replays(R)' /\ Recorded' /\ Delivered(R)'
  BY <1>0, <1>1 DEF Replayed, JournalInv, Replays, Recorded, Delivered
<1>6. \A n \in 0..Len(journal)' : Told(R[n], n)'
  BY <1>0, <1>1 DEF Replayed, Told
<1>7. Replayed(R)'
  BY <1>4, <1>5, <1>6 DEF Replayed
<1> QED
  BY <1>1, <1>5, <1>7 DEF JournalInv

\* Every step keeps the invariant.
LEMMA NextJournalInv ==
  ASSUME JournalInv, [Next]_vars
  PROVE  JournalInv'
<1>0. PICK R : Replayed(R)
  BY DEF JournalInv
<1>1. Sim(R[Len(journal)]) /\ journal \in Seq(Entries)
  BY <1>0 DEF JournalInv, Replayed
<1>2. PICK s : s = R[Len(journal)]
  OBVIOUS
<1>3. Sim(s)
  BY <1>1, <1>2
<1>4. ASSUME NEW e, Follows(s, e)
      PROVE  JournalInv'
  <2>1. Follows(R[Len(journal)], e)
    BY <1>2, <1>4 DEF Follows
  <2> QED
    BY <1>0, <2>1, EngineJournalInv
<1>5. ASSUME NEW u \in Urns, NEW k \in StepsFor(u), BeginStep(u, k)
      PROVE  JournalInv'
  BY <1>1, <1>3, <1>4, <1>5, BeginStepSim
<1>6. ASSUME NEW u \in Urns, Succeed(u)
      PROVE  JournalInv'
  BY <1>1, <1>3, <1>4, <1>6, SucceedSim
<1>7. ASSUME NEW u \in Urns, Recreate(u)
      PROVE  JournalInv'
  BY <1>1, <1>3, <1>4, <1>7, RecreateSim
<1>8. ASSUME NEW u \in Urns, Fail(u)
      PROVE  JournalInv'
  BY <1>1, <1>3, <1>4, <1>8, FailSim
<1>9. ASSUME NEW u \in Urns, RegisterOutputs(u)
      PROVE  JournalInv'
  BY <1>1, <1>3, <1>4, <1>9, OutputsSim
<1>10. ASSUME NEW u \in Urns, BeginDelete(u)
       PROVE  JournalInv'
  BY <1>1, <1>3, <1>4, <1>10, BeginDeleteSim
<1>11. ASSUME NEW u \in Urns, EndDelete(u)
       PROVE  JournalInv'
  BY <1>1, <1>3, <1>4, <1>11, EndDeleteSim
<1>12. ASSUME NEW u \in Urns, NEW exists \in BOOLEAN, Refresh(u, exists)
       PROVE  JournalInv'
  BY <1>1, <1>3, <1>4, <1>12, RefreshSim
<1>13. ASSUME RebuildBase
       PROVE  JournalInv'
  BY <1>1, <1>3, <1>4, <1>13, RebuildBaseSim
<1>14. ASSUME SendBatch
       PROVE  JournalInv'
  BY <1>14, SendJournalInv
<1>15. ASSUME NEW b \in batches, NEW again \in BOOLEAN, AppendJournalEntries(b, again)
       PROVE  JournalInv'
  BY <1>15, AppendJournalInv
<1>16. CASE UNCHANGED vars
  BY <1>16, StutterJournalInv
<1> QED
  BY <1>5, <1>6, <1>7, <1>8, <1>9, <1>10, <1>11, <1>12, <1>13, <1>14, <1>15, <1>16 DEF Next

-----------------------------------------------------------------------------
(* What it says of the head checkpoint. *)

\* The invariant says what the head checkpoint is, and in which order.
LEMMA HeadTold ==
  ASSUME JournalInv
  PROVE  HeadIsWorld /\ SnapshotOrdered
<1>0. PICK R : Replayed(R)
  BY DEF JournalInv
<1>1. /\ journal \in Seq(Entries) /\ Len(journal) \in Nat /\ sent \in 0..Len(journal) /\ Recorded
      /\ Replays(R) /\ (\A n \in 0..Len(journal) : Told(R[n], n)) /\ Delivered(R)
  BY <1>0, LenProperties DEF JournalInv, Replayed
<1>2. PICK h, m : DeliveredAs(R, h, m)
  BY <1>1, DeliveredIs
<1>3. /\ h \in Nat /\ m \in Nat /\ h <= Len(journal) /\ m <= h /\ stored = 1..h
      /\ \A n \in (m + 1)..h : journal[n].elide
      /\ checkpoint = IF m = 0 THEN None ELSE RebuildFromJournal(R[m])
  BY <1>1, <1>2 DEF DeliveredAs
<1>4. Cardinality(stored) = h
  <2>1. Cardinality(1..h) = IF 1 > h THEN 0 ELSE h - 1 + 1
    BY <1>3, FS_Interval
  <2> QED
    BY <1>3, <2>1
<1>5. outcome[h] = outcome[m] /\ underway[h] = underway[m]
  <2> DEFINE P == {n \in Nat : m + n <= h => outcome[m + n] = outcome[m] /\ underway[m + n] = underway[m]}
  <2>1. 0 \in P
    BY <1>3
  <2>2. ASSUME NEW n \in Nat, n \in P
        PROVE  n + 1 \in P
    <3> SUFFICES ASSUME m + (n + 1) <= h
                 PROVE  /\ outcome[m + (n + 1)] = outcome[m]
                        /\ underway[m + (n + 1)] = underway[m]
      OBVIOUS
    <3> DEFINE k == m + (n + 1)
    <3>1. k \in (m + 1)..h /\ k \in 1..Len(journal) /\ k - 1 = m + n /\ m + n <= h
      BY <1>1, <1>3
    <3> HIDE DEF k
    <3>2. outcome[k] = outcome[k - 1] /\ underway[k] = underway[k - 1]
      BY <1>1, <1>3, <3>1 DEF Recorded
    <3>3. outcome[m + n] = outcome[m] /\ underway[m + n] = underway[m]
      BY <2>2, <3>1
    <3> QED
      BY <3>1, <3>2, <3>3 DEF k
  <2> HIDE DEF P
  <2>3. Nat \subseteq P
    BY <2>1, <2>2, InductiveSet
  <2>4. h - m \in P /\ m + (h - m) = h
    BY <1>3, <2>3
  <2> QED
    BY <1>3, <2>4 DEF P
<1>6. CASE m = 0
  <2>1. checkpoint = None /\ HeadSnapshot = Base
    BY <1>3, <1>6 DEF HeadSnapshot
  <2>2. outcome[h] = Elements(Base.resources)
    BY <1>1, <1>5, <1>6 DEF Recorded
  <2> DEFINE rs == Base.resources
  <2>3. /\ rs \in Seq(Resources) /\ Readable(rs)
        /\ \A i, j \in DOMAIN rs : rs[i] = rs[j] => i = j
    BY BaseIs DEF Snapshots
  <2> HIDE DEF rs
  <2>4. Cardinality({rs[k] : k \in DOMAIN rs}) = Len(rs) /\ DOMAIN rs = 1..Len(rs)
    BY <2>3, DistinctCount, LenProperties
  <2>5. HeadIsWorld
    BY <1>4, <2>1, <2>2, <2>4 DEF HeadIsWorld, Elements, rs
  <2>6. SnapshotOrdered
    BY <2>1, <2>3, <2>4 DEF SnapshotOrdered, Readable, rs
  <2> QED
    BY <2>5, <2>6
<1>7. CASE m # 0
  <2> DEFINE b == RebuildFromJournal(R[m])
  <2>1. /\ b \in Snapshots
        /\ Elements(b.resources) = outcome[m] /\ Len(b.resources) = Cardinality(outcome[m])
        /\ Readable(b.resources)
        /\ Ops(b.pending) = underway[m] \cup Inherited
    BY <1>1, <1>3 DEF Told
  <2>2. checkpoint = b
    BY <1>3, <1>7
  <2> HIDE DEF b
  <2>3. HeadSnapshot = b
    BY <2>1, <2>2, JournalAssumption DEF HeadSnapshot
  <2> DEFINE rs == b.resources
             p == b.pending
  <2>4. DOMAIN rs = 1..Len(rs) /\ DOMAIN p = 1..Len(p)
    BY <2>1, LenProperties DEF Snapshots
  <2> HIDE DEF rs, p
  <2>5. HeadIsWorld
    BY <1>4, <1>5, <2>1, <2>3, <2>4 DEF HeadIsWorld, Elements, Ops, rs, p
  <2>6. SnapshotOrdered
    BY <2>1, <2>3, <2>4 DEF SnapshotOrdered, Readable, rs
  <2> QED
    BY <2>5, <2>6
<1> QED
  BY <1>6, <1>7

\* The replay of the stored entries always tells of what the engine has done: it
\* follows every entry, for any base, program, dependencies and number of entries.
THEOREM JournalInvariant == Spec => []JournalInv
<1>1. Init => JournalInv
  BY InitJournalInv
<1>2. JournalInv /\ [Next]_vars => JournalInv'
  BY NextJournalInv
<1> QED
  BY <1>1, <1>2, PTL DEF Spec

\* appendJournalEntries leaves a head checkpoint with exactly the resources that
\* there were after the last stored entry, and the operations that were under way.
THEOREM HeadAlwaysWorld == Spec => []HeadIsWorld
<1>1. JournalInv => HeadIsWorld
  BY HeadTold
<1> QED
  BY <1>1, JournalInvariant, PTL

\* The head checkpoint lists each resource after what it depends on: the CLI can
\* read what flushJournalToCheckpoint has written.
THEOREM SnapshotAlwaysOrdered == Spec => []SnapshotOrdered
<1>1. JournalInv => SnapshotOrdered
  BY HeadTold
<1> QED
  BY <1>1, JournalInvariant, PTL

=============================================================================
