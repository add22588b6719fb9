-------------------------- MODULE Induction_proofs ---------------------------
(***************************************************************************)
(* What the proofs about sequences and recursive definitions rest on.  A   *)
(* least natural number is found by the library's theorem on well-founded  *)
(* relations; from it come induction over the naturals and over sequences, *)
(* stated for the set of those with a property, and the solutions of       *)
(* recursive definitions: SelectAt and FlattenSeq.                         *)
(***************************************************************************)
EXTENDS Integers, Subsequences, SequencesExt, SequenceTheorems, FiniteSetTheorems, TLAPS

\* Every set of naturals that is not empty has a least element.
LEMMA LeastNatural ==
  ASSUME NEW T \in SUBSET Nat, T # {}
  PROVE  \E x \in T : \A y \in T : x <= y
<1> DEFINE R == {ss \in Nat \X Nat : ss[1] < ss[2]}
<1>1. IsWellFoundedOn(R, Nat)
  BY NatLessThanWellFounded DEF OpToRel
<1> HIDE DEF R
<1>2. PICK x \in T : \A y \in T : ~(<<y, x>> \in R)
  BY <1>1, WFMin
<1>3. ASSUME NEW y \in T, ~(x <= y)
      PROVE  FALSE
  <2>1. x \in Nat /\ y \in Nat /\ y < x
    BY <1>3
  <2>2. <<y, x>> \in R
    BY <2>1 DEF R
  <2> QED
    BY <1>2, <2>2
<1> QED
  BY <1>3

\* Induction over the naturals, for the set of those with a property.
LEMMA InductiveSet ==
  ASSUME NEW P, 0 \in P, \A n \in Nat : n \in P => n + 1 \in P
  PROVE  Nat \subseteq P
<1> DEFINE T == {n \in Nat : n \notin P}
<1>1. SUFFICES ASSUME T # {} PROVE FALSE
  OBVIOUS
<1>2. PICK x \in T : \A y \in T : x <= y
  BY <1>1, LeastNatural
<1>3. x # 0 /\ x - 1 \in Nat /\ x - 1 \notin T
  BY <1>2
<1> QED
  BY <1>2, <1>3

\* A finite set has a last element in every order: here as a relation R that is
\* irreflexive, transitive and total on S.
LEMMA LastExists ==
  ASSUME NEW S, IsFiniteSet(S), S # {}, NEW R,
         \A a \in S : <<a, a>> \notin R,
         \A a, b, c \in S : <<a, b>> \in R /\ <<b, c>> \in R => <<a, c>> \in R,
         \A a, b \in S : a # b => <<a, b>> \in R \/ <<b, a>> \in R
  PROVE  \E a \in S : \A b \in S \ {a} : <<b, a>> \in R
<1> DEFINE Above(a) == {b \in S : <<a, b>> \in R}
           C == {Cardinality(Above(a)) : a \in S}
<1>1. \A a \in S : IsFiniteSet(Above(a)) /\ Cardinality(Above(a)) \in Nat
  BY FS_Subset, FS_CardinalityType
<1>2. C \in SUBSET Nat /\ C # {}
  <2> HIDE DEF Above
  <2> QED
    BY <1>1
<1>3. PICK a \in S : \A b \in S : Cardinality(Above(a)) <= Cardinality(Above(b))
  <2> HIDE DEF Above
  <2>1. PICK n \in C : \A m \in C : n <= m
    BY <1>2, LeastNatural
  <2> QED
    BY <2>1
<1>4. ASSUME NEW b \in S, <<a, b>> \in R
      PROVE  FALSE
  <2>1. Above(b) \subseteq Above(a) /\ b \in Above(a) /\ b \notin Above(b)
    BY <1>4
  <2>2. Above(b) # Above(a)
    BY <2>1
  <2> HIDE DEF Above, C
  <2>3. Cardinality(Above(b)) <= Cardinality(Above(a)) /\ Cardinality(Above(b)) # Cardinality(Above(a))
    BY <1>1, <2>1, <2>2, FS_Subset
  <2>4. Cardinality(Above(b)) \in Nat /\ Cardinality(Above(a)) \in Nat
    BY <1>1
  <2> QED
    BY <1>3, <2>3, <2>4
<1> QED
  BY <1>4

\* g solves the recursion that begins with b and goes on with the functions G.
Solves(g, L, D, b, G) == g \in [0..L -> D] /\ g[0] = b /\ \A n \in 1..L : g[n] = G[n][g[n - 1]]
Recursion(L, D, b, G) == L \in Nat /\ b \in D /\ G \in [1..L -> [D -> D]]

\* Recursion over the first naturals has a solution.
LEMMA RecursionExists ==
  ASSUME NEW L, NEW D, NEW b, NEW G, Recursion(L, D, b, G)
  PROVE  \E g : Solves(g, L, D, b, G)
<1> USE DEF Recursion
<1> DEFINE P == {n \in Nat : n <= L => \E g : Solves(g, n, D, b, G)}
<1>1. 0 \in P
  <2>1. Solves([k \in 0..0 |-> b], 0, D, b, G)
    BY DEF Solves
  <2> QED
    BY <2>1
<1>2. ASSUME NEW n \in Nat, n \in P
      PROVE  n + 1 \in P
  <2>1. SUFFICES ASSUME n + 1 <= L PROVE \E g : Solves(g, n + 1, D, b, G)
    OBVIOUS
  <2>2. PICK g : Solves(g, n, D, b, G)
    BY <1>2, <2>1
  <2> DEFINE h == [k \in 0..(n + 1) |-> IF k <= n THEN g[k] ELSE G[n + 1][g[n]]]
  <2>3. h \in [0..(n + 1) -> D]
    BY <2>1, <2>2 DEF Solves
  <2>4. h[0] = b /\ \A k \in 1..(n + 1) : h[k] = G[k][h[k - 1]]
    BY <2>2 DEF Solves
  <2> QED
    BY <2>3, <2>4 DEF Solves
<1>3. L \in P
  <2> HIDE DEF P
  <2> QED
    BY <1>1, <1>2, InductiveSet
<1> QED
  BY <1>3

\* Induction over sequences, for the set of those with a property.
LEMMA InductiveSequences ==
  ASSUME NEW S, NEW P, <<>> \in P, \A s \in Seq(S), e \in S : s \in P => Append(s, e) \in P
  PROVE  Seq(S) \subseteq P
<1> DEFINE Q == {n \in Nat : \A s \in Seq(S) : Len(s) = n => s \in P}
<1>1. 0 \in Q
  BY EmptySeq
<1>2. ASSUME NEW n \in Nat, n \in Q
      PROVE  n + 1 \in Q
  <2>1. SUFFICES ASSUME NEW s \in Seq(S), Len(s) = n + 1 PROVE s \in P
    OBVIOUS
  <2>2. s # <<>>
    BY <2>1, EmptySeq
  <2>3. PICK t \in Seq(S), e \in S : s = Append(t, e)
    BY <2>2, SequenceEmptyOrAppend
  <2>4. Len(t) = n
    BY <2>1, <2>3, AppendProperties, LenProperties
  <2> QED
    BY <1>2, <2>3, <2>4
<1>3. Nat \subseteq Q
  <2> HIDE DEF Q
  <2> QED
    BY <1>1, <1>2, InductiveSet
<1> QED
  BY <1>3, LenProperties

-----------------------------------------------------------------------------
(* Selections. *)

\* p[n] is what the selection of s at I has picked from its first n elements.
Picks(p, s, I, S) ==
    /\ p \in [0..Len(s) -> Seq(S)] /\ p[0] = <<>>
    /\ \A n \in 1..Len(s) : p[n] = IF n \in I THEN Append(p[n - 1], s[n]) ELSE p[n - 1]

\* A selection is what its recursive definition has picked in the end.
LEMMA SelectAtPicks ==
  ASSUME NEW S, NEW s \in Seq(S), NEW I
  PROVE  \E p : Picks(p, s, I, S) /\ p[Len(s)] = SelectAt(s, I)
<1> DEFINE D == Seq(S)
           L == Len(s)
           G == [n \in 1..L |-> [d \in D |-> IF n \in I THEN Append(d, s[n]) ELSE d]]
           F(f) == [n \in 0..L |-> IF n = 0 THEN <<>>
                        ELSE IF n \in I THEN Append(f[n - 1], s[n]) ELSE f[n - 1]]
           p == CHOOSE f : f = F(f)
<1>1. SelectAt(s, I) = p[L]
  BY DEF SelectAt
<1>2. G \in [1..L -> [D -> D]]
  BY AppendProperties, ElementOfSeq
<1>3. <<>> \in D /\ L \in Nat
  BY EmptySeq
<1>4. PICK g : Solves(g, L, D, <<>>, G)
  <2> HIDE DEF D, G, L
  <2>1. Recursion(L, D, <<>>, G)
    BY <1>2, <1>3 DEF Recursion
  <2> QED
    BY <2>1, RecursionExists
<1>5. \A n \in 1..L : g[n] = IF n \in I THEN Append(g[n - 1], s[n]) ELSE g[n - 1]
  <2>1. SUFFICES ASSUME NEW n \in 1..L
                 PROVE  g[n] = IF n \in I THEN Append(g[n - 1], s[n]) ELSE g[n - 1]
    OBVIOUS
  <2>2. n - 1 \in 0..L
    BY <1>3
  <2>3. g[n - 1] \in D
    BY <1>4, <2>2 DEF Solves
  <2> QED
    BY <1>4, <2>3 DEF Solves
<1>6. g = F(g)
  <2>1. g \in [0..L -> D] /\ g[0] = <<>>
    BY <1>4 DEF Solves
  <2>2. ASSUME NEW n \in 0..L
        PROVE  g[n] = F(g)[n]
    <3>1. CASE n = 0
      BY <2>1, <3>1
    <3>2. CASE n # 0
      <4>1. n \in 1..L
        BY <1>3, <3>2
      <4> HIDE DEF L
      <4> QED
        BY <1>5, <3>2, <4>1
    <3> QED
      BY <3>1, <3>2
  <2> QED
    BY <2>1, <2>2
<1>7. p = F(p)
  <2> HIDE DEF F
  <2> QED
    BY <1>6
<1>8. p[0] = <<>> /\ \A n \in 1..L : p[n] = IF n \in I THEN Append(p[n - 1], s[n]) ELSE p[n - 1]
  <2> HIDE DEF p
  <2>1. 0 \in 0..L /\ \A n \in 1..L : n \in 0..L /\ n # 0
    BY <1>3
  <2>2. \A n \in 0..L : p[n] = F(p)[n]
    BY <1>7
  <2> HIDE DEF L, D
  <2> QED
    BY <2>1, <2>2
<1> HIDE DEF p
<1>9. p \in [0..L -> D]
  <2> DEFINE P == {n \in Nat : n <= L => p[n] \in D}
  <2>1. 0 \in P
    BY <1>3, <1>8
  <2>2. ASSUME NEW n \in Nat, n \in P
        PROVE  n + 1 \in P
    <3>1. SUFFICES ASSUME n + 1 <= L PROVE p[n + 1] \in D
      OBVIOUS
    <3>2. p[n] \in D /\ n + 1 \in 1..L /\ (n + 1) - 1 = n
      BY <1>3, <2>2, <3>1
    <3>3. s[n + 1] \in S
      BY <3>2, ElementOfSeq
    <3>4. Append(p[n], s[n + 1]) \in D
      BY <3>2, <3>3, AppendProperties
    <3> QED
      BY <1>8, <3>2, <3>4
  <2>3. \A n \in 0..L : p[n] \in D
    <3> HIDE DEF P
    <3>1. Nat \subseteq P
      BY <2>1, <2>2, InductiveSet
    <3> QED
      BY <1>3, <3>1 DEF P
  <2> QED
    BY <1>7, <2>3
<1> QED
  BY <1>1, <1>8, <1>9 DEF Picks

\* What is picked depends on nothing but the elements picked.
LEMMA PicksAgree ==
  ASSUME NEW S, NEW s \in Seq(S), NEW t \in Seq(S), NEW I, NEW J, NEW p, NEW q,
         Picks(p, s, I, S), Picks(q, t, J, S), NEW m \in Nat, m <= Len(s), m <= Len(t),
         \A i \in 1..m : (i \in I <=> i \in J) /\ (i \in I => s[i] = t[i])
  PROVE  p[m] = q[m]
<1> DEFINE P == {n \in Nat : n <= m => p[n] = q[n]}
<1>1. 0 \in P
  BY DEF Picks
<1>2. ASSUME NEW n \in Nat, n \in P
      PROVE  n + 1 \in P
  <2>1. SUFFICES ASSUME n + 1 <= m PROVE p[n + 1] = q[n + 1]
    OBVIOUS
  <2>2. Len(s) \in Nat /\ Len(t) \in Nat
    BY LenProperties
  <2>3. n + 1 \in 1..m /\ n + 1 \in 1..Len(s) /\ n + 1 \in 1..Len(t) /\ (n + 1) - 1 = n /\ p[n] = q[n]
    BY <1>2, <2>1, <2>2
  <2>4. /\ p[n + 1] = IF n + 1 \in I THEN Append(p[n], s[n + 1]) ELSE p[n]
        /\ q[n + 1] = IF n + 1 \in J THEN Append(q[n], t[n + 1]) ELSE q[n]
    BY <2>3 DEF Picks
  <2> QED
    BY <2>3, <2>4
<1>3. Nat \subseteq P
  <2> HIDE DEF P
  <2> QED
    BY <1>1, <1>2, InductiveSet
<1> QED
  BY <1>3

\* A selection is a sequence over the same set.
LEMMA SelectAtType ==
  ASSUME NEW S, NEW s \in Seq(S), NEW I
  PROVE  SelectAt(s, I) \in Seq(S)
BY SelectAtPicks, LenProperties DEF Picks

\* Two selections that pick the same elements at the same places.
LEMMA SelectAtSame ==
  ASSUME NEW S, NEW s \in Seq(S), NEW t \in Seq(S), Len(s) = Len(t), NEW I, NEW J,
         \A i \in 1..Len(s) : (i \in I <=> i \in J) /\ (i \in I => s[i] = t[i])
  PROVE  SelectAt(s, I) = SelectAt(t, J)
<1>1. PICK p : Picks(p, s, I, S) /\ p[Len(s)] = SelectAt(s, I)
  BY SelectAtPicks
<1>2. PICK q : Picks(q, t, J, S) /\ q[Len(t)] = SelectAt(t, J)
  BY SelectAtPicks
<1> QED
  BY <1>1, <1>2, PicksAgree, LenProperties

\* Nothing is selected from the empty sequence.
LEMMA SelectAtEmpty ==
  ASSUME NEW I
  PROVE  SelectAt(<<>>, I) = <<>>
<1>1. <<>> \in Seq({}) /\ Len(<<>>) = 0
  BY EmptySeq
<1>2. PICK p : Picks(p, <<>>, I, {}) /\ p[Len(<<>>)] = SelectAt(<<>>, I)
  BY <1>1, SelectAtPicks
<1> QED
  BY <1>1, <1>2 DEF Picks

\* The last element is selected last, if it is.
LEMMA SelectAtAppend ==
  ASSUME NEW S, NEW s \in Seq(S), NEW e \in S, NEW I
  PROVE  SelectAt(Append(s, e), I) =
           IF Len(s) + 1 \in I THEN Append(SelectAt(s, I), e) ELSE SelectAt(s, I)
<1> DEFINE t == Append(s, e)
<1>1. /\ t \in Seq(S) /\ Len(t) = Len(s) + 1 /\ t[Len(s) + 1] = e
      /\ \A i \in 1..Len(s) : t[i] = s[i]
  BY AppendProperties
<1>2. Len(s) \in Nat
  BY LenProperties
<1> HIDE DEF t
<1>3. PICK p : Picks(p, s, I, S) /\ p[Len(s)] = SelectAt(s, I)
  BY SelectAtPicks
<1>4. PICK q : Picks(q, t, I, S) /\ q[Len(t)] = SelectAt(t, I)
  BY <1>1, SelectAtPicks
<1>5. Len(s) <= Len(t) /\ Len(s) <= Len(s)
  BY <1>1, <1>2
<1>6. p[Len(s)] = q[Len(s)]
  BY <1>1, <1>2, <1>3, <1>4, <1>5, PicksAgree
<1>7. Len(t) \in 1..Len(t) /\ Len(t) - 1 = Len(s)
  BY <1>1, <1>2
<1>8. q[Len(t)] = IF Len(t) \in I THEN Append(q[Len(s)], t[Len(t)]) ELSE q[Len(s)]
  BY <1>4, <1>7 DEF Picks
<1> QED
  BY <1>1, <1>3, <1>4, <1>6, <1>8 DEF t

\* The elements of a selection.
LEMMA SelectAtElements ==
  ASSUME NEW S, NEW s \in Seq(S), NEW I
  PROVE  {SelectAt(s, I)[k] : k \in DOMAIN SelectAt(s, I)} = {s[i] : i \in I \cap DOMAIN s}
<1> DEFINE Elements(x) == {x[k] : k \in DOMAIN x}
           Chosen(x) == {x[i] : i \in I \cap DOMAIN x}
           P == {x \in Seq(S) : Elements(SelectAt(x, I)) = Chosen(x)}
<1>1. <<>> \in P
  <2>1. DOMAIN <<>> = {} /\ <<>> \in Seq(S)
    BY EmptySeq
  <2> QED
    BY <2>1, SelectAtEmpty
<1>2. ASSUME NEW x \in Seq(S), NEW e \in S, x \in P
      PROVE  Append(x, e) \in P
  <2> DEFINE y == Append(x, e)
             u == SelectAt(x, I)
  <2>1. /\ y \in Seq(S) /\ y[Len(x) + 1] = e /\ \A i \in 1..Len(x) : y[i] = x[i]
        /\ DOMAIN y = 1..(Len(x) + 1) /\ DOMAIN x = 1..Len(x) /\ Len(x) \in Nat
    BY AppendProperties, LenProperties
  <2>2. u \in Seq(S)
    BY SelectAtType
  <2>3. /\ Append(u, e)[Len(u) + 1] = e /\ \A i \in 1..Len(u) : Append(u, e)[i] = u[i]
        /\ DOMAIN Append(u, e) = 1..(Len(u) + 1) /\ DOMAIN u = 1..Len(u) /\ Len(u) \in Nat
    BY <2>2, AppendProperties, LenProperties
  <2>4. Elements(u) = Chosen(x)
    BY <1>2
  <2>5. SelectAt(y, I) = IF Len(x) + 1 \in I THEN Append(u, e) ELSE u
    BY SelectAtAppend
  <2> HIDE DEF y, u
  <2>6. CASE Len(x) + 1 \in I
    <3>1. Elements(Append(u, e)) = Elements(u) \cup {e}
      BY <2>3
    <3>2. Chosen(y) = Chosen(x) \cup {e}
      BY <2>1, <2>6
    <3> HIDE DEF Elements, Chosen
    <3> QED
      BY <2>1, <2>4, <2>5, <2>6, <3>1, <3>2 DEF y
  <2>7. CASE Len(x) + 1 \notin I
    <3>1. Chosen(y) = Chosen(x)
      BY <2>1, <2>7
    <3> HIDE DEF Elements, Chosen
    <3> QED
      BY <2>1, <2>4, <2>5, <2>7, <3>1 DEF y
  <2> QED
    BY <2>6, <2>7
<1>3. Seq(S) \subseteq P
  <2> HIDE DEF P
  <2> QED
    BY <1>1, <1>2, InductiveSequences
<1> QED
  BY <1>3

\* Selecting everything.
LEMMA SelectAtAll ==
  ASSUME NEW S, NEW s \in Seq(S), NEW I, 1..Len(s) \subseteq I
  PROVE  SelectAt(s, I) = s
<1> DEFINE P == {x \in Seq(S) : 1..Len(x) \subseteq I => SelectAt(x, I) = x}
<1>1. <<>> \in P
  BY EmptySeq, SelectAtEmpty
<1>2. ASSUME NEW x \in Seq(S), NEW e \in S, x \in P
      PROVE  Append(x, e) \in P
  <2>1. Append(x, e) \in Seq(S) /\ Len(Append(x, e)) = Len(x) + 1 /\ Len(x) \in Nat
    BY AppendProperties, LenProperties
  <2>2. SUFFICES ASSUME 1..(Len(x) + 1) \subseteq I PROVE SelectAt(Append(x, e), I) = Append(x, e)
    BY <2>1
  <2>3. 1..Len(x) \subseteq I /\ Len(x) + 1 \in I
    BY <2>1, <2>2
  <2> QED
    BY <1>2, <2>3, SelectAtAppend
<1>3. Seq(S) \subseteq P
  <2> HIDE DEF P
  <2> QED
    BY <1>1, <1>2, InductiveSequences
<1> QED
  BY <1>3

\* The positions of a sequence whose elements are in K.
Hits(s, K) == {i \in DOMAIN s : s[i] \in K}

\* Selecting by value from a selection.
LEMMA SelectAtTwice ==
  ASSUME NEW S, NEW s \in Seq(S), NEW I, NEW K
  PROVE  SelectAt(SelectAt(s, I), Hits(SelectAt(s, I), K)) = SelectAt(s, I \cap Hits(s, K))
<1> DEFINE P == {x \in Seq(S) :
              SelectAt(SelectAt(x, I), Hits(SelectAt(x, I), K)) = SelectAt(x, I \cap Hits(x, K))}
<1>1. <<>> \in P
  BY EmptySeq, SelectAtEmpty
<1>2. ASSUME NEW x \in Seq(S), NEW e \in S, x \in P
      PROVE  Append(x, e) \in P
  <2> DEFINE y == Append(x, e)
             u == SelectAt(x, I)
             v == Append(u, e)
  <2>1. /\ y \in Seq(S) /\ y[Len(x) + 1] = e /\ \A i \in 1..Len(x) : y[i] = x[i]
        /\ DOMAIN y = 1..(Len(x) + 1) /\ DOMAIN x = 1..Len(x) /\ Len(x) \in Nat
    BY AppendProperties, LenProperties
  <2>2. u \in Seq(S)
    BY SelectAtType
  <2>3. /\ v \in Seq(S) /\ v[Len(u) + 1] = e /\ \A i \in 1..Len(u) : v[i] = u[i]
        /\ DOMAIN v = 1..(Len(u) + 1) /\ DOMAIN u = 1..Len(u) /\ Len(u) \in Nat
    BY <2>2, AppendProperties, LenProperties
  <2>4. SelectAt(u, Hits(u, K)) = SelectAt(x, I \cap Hits(x, K))
    BY <1>2
  <2>5. SelectAt(y, I) = IF Len(x) + 1 \in I THEN v ELSE u
    BY SelectAtAppend
  <2>6. SelectAt(y, I \cap Hits(y, K)) =
          IF Len(x) + 1 \in I \cap Hits(y, K)
          THEN Append(SelectAt(x, I \cap Hits(y, K)), e) ELSE SelectAt(x, I \cap Hits(y, K))
    BY SelectAtAppend
  <2>7. SelectAt(v, Hits(v, K)) =
          IF Len(u) + 1 \in Hits(v, K)
          THEN Append(SelectAt(u, Hits(v, K)), e) ELSE SelectAt(u, Hits(v, K))
    BY <2>2, SelectAtAppend
  <2> HIDE DEF y, u, v
  <2>8. SelectAt(x, I \cap Hits(y, K)) = SelectAt(x, I \cap Hits(x, K))
    <3>1. \A i \in 1..Len(x) : i \in I \cap Hits(y, K) <=> i \in I \cap Hits(x, K)
      BY <2>1 DEF Hits
    <3> QED
      BY <3>1, SelectAtSame
  <2>9. SelectAt(u, Hits(v, K)) = SelectAt(u, Hits(u, K))
    <3>1. \A i \in 1..Len(u) : i \in Hits(v, K) <=> i \in Hits(u, K)
      BY <2>3 DEF Hits
    <3> QED
      BY <2>2, <3>1, SelectAtSame
  <2>10. /\ Len(x) + 1 \in Hits(y, K) <=> e \in K
         /\ Len(u) + 1 \in Hits(v, K) <=> e \in K
    BY <2>1, <2>3 DEF Hits
  <2>11. SelectAt(SelectAt(y, I), Hits(SelectAt(y, I), K)) = SelectAt(y, I \cap Hits(y, K))
    <3>1. CASE Len(x) + 1 \in I
      BY <2>4, <2>5, <2>6, <2>7, <2>8, <2>9, <2>10, <3>1
    <3>2. CASE Len(x) + 1 \notin I
      BY <2>4, <2>5, <2>6, <2>8, <3>2
    <3> QED
      BY <3>1, <3>2
  <2> QED
    BY <2>1, <2>11 DEF y
<1>3. Seq(S) \subseteq P
  <2> HIDE DEF P
  <2> QED
    BY <1>1, <1>2, InductiveSequences
<1> QED
  BY <1>3

\* Once nothing more is picked, what is picked stays.
LEMMA PicksStop ==
  ASSUME NEW S, NEW s \in Seq(S), NEW I, NEW p, Picks(p, s, I, S),
         NEW k \in Nat, NEW m \in Nat, k <= m, m <= Len(s), \A i \in (k + 1)..m : i \notin I
  PROVE  p[m] = p[k]
<1> DEFINE P == {n \in Nat : k <= n /\ n <= m => p[n] = p[k]}
<1>1. 0 \in P
  OBVIOUS
<1>2. ASSUME NEW n \in Nat, n \in P
      PROVE  n + 1 \in P
  <2>1. SUFFICES ASSUME k <= n + 1, n + 1 <= m PROVE p[n + 1] = p[k]
    OBVIOUS
  <2>2. CASE k = n + 1
    BY <2>2
  <2>3. CASE k # n + 1
    <3>1. Len(s) \in Nat
      BY LenProperties
    <3>2. k <= n /\ n + 1 \in 1..Len(s) /\ n + 1 \in (k + 1)..m /\ (n + 1) - 1 = n
      BY <2>1, <2>3, <3>1
    <3>3. p[n + 1] = p[n]
      BY <3>2 DEF Picks
    <3> QED
      BY <1>2, <2>1, <3>2, <3>3
  <2> QED
    BY <2>2, <2>3
<1>3. Nat \subseteq P
  <2> HIDE DEF P
  <2> QED
    BY <1>1, <1>2, InductiveSet
<1> QED
  BY <1>3

\* Selecting one position more, after all the others.
LEMMA SelectAtNext ==
  ASSUME NEW S, NEW s \in Seq(S), NEW I, NEW k \in Nat, NEW m \in 1..Len(s), m = k + 1
  PROVE  \E d : /\ d = SelectAt(s, I \cap 1..k)
               /\ SelectAt(s, I \cap 1..m) = IF m \in I THEN Append(d, s[m]) ELSE d
<1>1. PICK p : Picks(p, s, I \cap 1..k, S) /\ p[Len(s)] = SelectAt(s, I \cap 1..k)
  BY SelectAtPicks
<1>2. PICK q : Picks(q, s, I \cap 1..(k + 1), S) /\ q[Len(s)] = SelectAt(s, I \cap 1..(k + 1))
  BY SelectAtPicks
<1>3. Len(s) \in Nat
  BY LenProperties
<1>4. /\ k <= Len(s) /\ k + 1 \in 1..Len(s) /\ (k + 1) - 1 = k /\ k + 1 \in Nat /\ k + 1 \in 1..(k + 1)
      /\ \A i \in (k + 1)..Len(s) : i \notin I \cap 1..k
      /\ \A i \in ((k + 1) + 1)..Len(s) : i \notin I \cap 1..(k + 1)
      /\ \A i \in 1..k : i \in I \cap 1..(k + 1) <=> i \in I \cap 1..k
  BY <1>3
<1>5. p[Len(s)] = p[k]
  BY <1>1, <1>3, <1>4, PicksStop
<1>6. q[Len(s)] = q[k + 1]
  BY <1>2, <1>3, <1>4, PicksStop
<1>7. p[k] = q[k]
  BY <1>1, <1>2, <1>4, PicksAgree
<1>8. q[k + 1] = IF k + 1 \in I \cap 1..(k + 1) THEN Append(q[k], s[k + 1]) ELSE q[k]
  BY <1>2, <1>4 DEF Picks
<1>9. /\ p[k] = SelectAt(s, I \cap 1..k)
      /\ SelectAt(s, I \cap 1..m) = IF m \in I THEN Append(p[k], s[m]) ELSE p[k]
  BY <1>1, <1>2, <1>4, <1>5, <1>6, <1>7, <1>8
<1> QED
  BY <1>9

\* The same, of a position that is selected.
LEMMA SelectAtTaken ==
  ASSUME NEW S, NEW s \in Seq(S), NEW I, NEW k \in Nat, NEW m \in 1..Len(s), m = k + 1, m \in I
  PROVE  SelectAt(s, I \cap 1..m) = Append(SelectAt(s, I \cap 1..k), s[m])
<1>1. PICK d : /\ d = SelectAt(s, I \cap 1..k)
               /\ SelectAt(s, I \cap 1..m) = IF m \in I THEN Append(d, s[m]) ELSE d
  BY SelectAtNext
<1> QED
  BY <1>1

\* The same, of a position that is not selected.
LEMMA SelectAtSkipped ==
  ASSUME NEW S, NEW s \in Seq(S), NEW I, NEW k \in Nat, NEW m \in 1..Len(s), m = k + 1, m \notin I
  PROVE  SelectAt(s, I \cap 1..m) = SelectAt(s, I \cap 1..k)
<1>1. PICK d : /\ d = SelectAt(s, I \cap 1..k)
               /\ SelectAt(s, I \cap 1..m) = IF m \in I THEN Append(d, s[m]) ELSE d
  BY SelectAtNext
<1> QED
  BY <1>1

\* Selecting the same elements in the same order, from places of their own.
LEMMA SelectAtMoved ==
  ASSUME NEW S, NEW s \in Seq(S), NEW t \in Seq(S),
         NEW I \in SUBSET (1..Len(s)), NEW J \in SUBSET (1..Len(t)), NEW h \in [I -> J],
         \A j \in J : \E i \in I : h[i] = j,
         \A i, k \in I : i < k => h[i] < h[k],
         \A i \in I : t[h[i]] = s[i]
  PROVE  SelectAt(s, I) = SelectAt(t, J)
<1>1. PICK p : Picks(p, s, I, S) /\ p[Len(s)] = SelectAt(s, I)
  BY SelectAtPicks
<1>2. PICK q : Picks(q, t, J, S) /\ q[Len(t)] = SelectAt(t, J)
  BY SelectAtPicks
<1>3. Len(s) \in Nat /\ Len(t) \in Nat
  BY LenProperties
<1> DEFINE Cut(n, m) == \A i \in I : i <= n <=> h[i] <= m
           P == {n \in Nat : \A m \in 0..Len(t) : n <= Len(s) /\ Cut(n, m) => p[n] = q[m]}
<1>4. 0 \in P
  <2>1. SUFFICES ASSUME NEW m \in 0..Len(t), Cut(0, m) PROVE p[0] = q[m]
    OBVIOUS
  <2>2. \A j \in (0 + 1)..m : j \notin J
    BY <1>3, <2>1
  <2>3. m \in Nat /\ 0 \in Nat /\ 0 <= m /\ m <= Len(t)
    BY <1>3
  <2>4. q[m] = q[0]
    BY <1>2, <2>2, <2>3, PicksStop
  <2> QED
    BY <1>1, <1>2, <2>4 DEF Picks
<1>5. ASSUME NEW n \in Nat, n \in P
      PROVE  n + 1 \in P
  <2>1. SUFFICES ASSUME NEW m \in 0..Len(t), n + 1 <= Len(s), Cut(n + 1, m) PROVE p[n + 1] = q[m]
    OBVIOUS
  <2>2. n + 1 \in 1..Len(s) /\ (n + 1) - 1 = n /\ n <= Len(s)
    BY <1>3, <2>1
  <2>3. p[n + 1] = IF n + 1 \in I THEN Append(p[n], s[n + 1]) ELSE p[n]
    BY <1>1, <2>2 DEF Picks
  <2>4. CASE n + 1 \notin I
    <3>1. Cut(n, m)
      BY <2>1, <2>4
    <3> QED
      BY <1>5, <2>2, <2>3, <2>4, <3>1
  <2>5. CASE n + 1 \in I
    <3> DEFINE j == h[n + 1]
    <3>1. j \in J /\ j \in 1..Len(t) /\ j <= m /\ t[j] = s[n + 1]
      <4>1. j \in J /\ t[j] = s[n + 1]
        BY <2>5
      <4>2. n + 1 <= n + 1
        BY <1>3
      <4>3. j <= m
        BY <2>1, <2>5, <4>2
      <4> QED
        BY <4>1, <4>3
    <3>2. \A k \in (j + 1)..m : k \notin J
      <4>1. SUFFICES ASSUME NEW k \in (j + 1)..m, k \in J PROVE FALSE
        OBVIOUS
      <4>2. PICK i \in I : h[i] = k
        BY <4>1
      <4>3. i <= n + 1
        BY <2>1, <4>1, <4>2
      <4>4. i < n + 1 \/ i = n + 1
        BY <1>3, <4>3
      <4> QED
        BY <1>3, <2>5, <3>1, <4>1, <4>2, <4>4
    <3>3. Cut(n, j - 1)
      <4>1. SUFFICES ASSUME NEW i \in I PROVE i <= n <=> h[i] <= j - 1
        OBVIOUS
      <4>2. i \in Nat /\ h[i] \in Nat /\ j \in Nat
        <5>1. i \in 1..Len(s) /\ h[i] \in J
          OBVIOUS
        <5>2. h[i] \in 1..Len(t)
          BY <5>1
        <5> HIDE DEF j
        <5> QED
          BY <1>3, <3>1, <5>1, <5>2
      <4>3. CASE i <= n
        <5>1. h[i] < h[n + 1]
          BY <2>5, <4>2, <4>3
        <5> QED
          BY <4>2, <4>3, <5>1
      <4>4. CASE i = n + 1
        BY <4>2, <4>4
      <4>5. CASE i > n + 1
        <5>1. h[n + 1] < h[i]
          BY <2>5, <4>5
        <5> QED
          BY <4>2, <4>5, <5>1
      <4> QED
        BY <4>2, <4>3, <4>4, <4>5
    <3> HIDE DEF Cut
    <3>4. j - 1 \in 0..Len(t) /\ j \in Nat /\ m \in Nat /\ m <= Len(t)
      BY <1>3, <3>1
    <3>5. p[n] = q[j - 1]
      BY <1>5, <2>2, <3>3, <3>4
    <3>6. q[j] = Append(q[j - 1], t[j])
      BY <1>2, <3>1 DEF Picks
    <3>7. q[m] = q[j]
      BY <1>2, <3>1, <3>2, <3>4, PicksStop
    <3> QED
      BY <2>3, <2>5, <3>1, <3>5, <3>6, <3>7
  <2> QED
    BY <2>4, <2>5
<1>6. Nat \subseteq P
  <2> HIDE DEF P
  <2> QED
    BY <1>4, <1>5, InductiveSet
<1>7. Cut(Len(s), Len(t))
  <2>1. SUFFICES ASSUME NEW i \in I PROVE i <= Len(s) /\ h[i] <= Len(t)
    OBVIOUS
  <2>2. h[i] \in 1..Len(t) /\ i \in 1..Len(s)
    OBVIOUS
  <2> QED
    BY <1>3, <2>2
<1> HIDE DEF Cut
<1> QED
  BY <1>1, <1>2, <1>3, <1>6, <1>7

-----------------------------------------------------------------------------
(* Concatenations. *)

\* g[n] is the concatenation of the first n sequences of seqs.
Joins(g, seqs, S) ==
    /\ g \in [0..Len(seqs) -> Seq(S)] /\ g[0] = <<>>
    /\ \A n \in 1..Len(seqs) : g[n] = g[n - 1] \o seqs[n]

\* FlattenSeq is what its recursive definition has joined in the end.
LEMMA FlattenJoins ==
  ASSUME NEW S, NEW seqs \in Seq(Seq(S))
  PROVE  \E g : Joins(g, seqs, S) /\ g[Len(seqs)] = FlattenSeq(seqs)
<1> DEFINE D == Seq(S)
           L == Len(seqs)
           G == [n \in 1..L |-> [d \in D |-> d \o seqs[n]]]
           F(f) == [i \in 1..L |-> IF i = 1 THEN seqs[i] ELSE f[i - 1] \o seqs[i]]
           p == CHOOSE f : f = F(f)
<1>1. L \in Nat /\ <<>> \in D /\ \A n \in 1..L : seqs[n] \in D
  BY EmptySeq, LenProperties, ElementOfSeq
<1>2. G \in [1..L -> [D -> D]]
  BY <1>1, ConcatProperties
<1>3. PICK g : Solves(g, L, D, <<>>, G)
  <2> HIDE DEF D, G, L
  <2>1. Recursion(L, D, <<>>, G)
    BY <1>1, <1>2 DEF Recursion
  <2> QED
    BY <2>1, RecursionExists
<1>4. Joins(g, seqs, S)
  <2>1. ASSUME NEW n \in 1..L
        PROVE  g[n] = g[n - 1] \o seqs[n]
    <3>1. n - 1 \in 0..L
      BY <1>1
    <3>2. g[n - 1] \in D
      BY <1>3, <3>1 DEF Solves
    <3> QED
      BY <1>3, <3>2 DEF Solves
  <2> QED
    BY <1>3, <2>1 DEF Solves, Joins
<1>5. CASE L = 0
  <2>1. seqs = <<>>
    BY <1>5, EmptySeq
  <2>2. FlattenSeq(seqs) = <<>>
    BY <1>5, <2>1 DEF FlattenSeq
  <2> QED
    BY <1>3, <1>4, <1>5, <2>2 DEF Solves
<1>6. CASE L # 0
  <2>1. FlattenSeq(seqs) = p[L]
    BY <1>6 DEF FlattenSeq
  <2> DEFINE r == [i \in 1..L |-> g[i]]
  <2>2. r = F(r)
    <3>1. ASSUME NEW i \in 1..L
          PROVE  r[i] = F(r)[i]
      <4>1. CASE i = 1
        <5>0. 1 \in 1..L /\ 1 - 1 = 0
          BY <1>1, <1>6
        <5>1. g[1] = <<>> \o seqs[1]
          BY <1>4, <5>0 DEF Joins
        <5> QED
          BY <1>1, <4>1, <5>1, ConcatEmptySeq
      <4>2. CASE i # 1
        <5>1. i - 1 \in 1..L
          BY <1>1, <4>2
        <5> HIDE DEF L
        <5>2. r[i] = g[i - 1] \o seqs[i]
          BY <1>4 DEF Joins, L
        <5> QED
          BY <4>2, <5>1, <5>2
      <4> QED
        BY <4>1, <4>2
    <3> QED
      BY <3>1
  <2>3. p = F(p)
    <3> HIDE DEF F, r
    <3> QED
      BY <2>2
  <2> HIDE DEF p
  <2>4. \A i \in 1..L : p[i] = IF i = 1 THEN seqs[i] ELSE p[i - 1] \o seqs[i]
    BY <2>3
  <2> DEFINE P == {n \in Nat : n \in 1..L => p[n] = g[n]}
  <2>5. 0 \in P
    BY <1>1
  <2>6. ASSUME NEW n \in Nat, n \in P
        PROVE  n + 1 \in P
    <3>1. SUFFICES ASSUME n + 1 \in 1..L PROVE p[n + 1] = g[n + 1]
      OBVIOUS
    <3>2. p[n + 1] = IF n + 1 = 1 THEN seqs[n + 1] ELSE p[n] \o seqs[n + 1]
      BY <2>4, <3>1
    <3>3. g[n + 1] = g[n] \o seqs[n + 1]
      <4>1. (n + 1) - 1 = n
        OBVIOUS
      <4> HIDE DEF p
      <4> QED
        BY <1>4, <3>1, <4>1 DEF Joins
    <3>4. CASE n = 0
      <4>1. seqs[n + 1] \in Seq(S)
        BY <1>1, <3>1
      <4> QED
        <5>1. g[0] = <<>>
          BY <1>4 DEF Joins
        <5>2. p[n + 1] = seqs[n + 1]
          BY <3>2, <3>4
        <5>3. g[n + 1] = <<>> \o seqs[n + 1]
          BY <3>3, <3>4, <5>1
        <5> QED
          BY <4>1, <5>2, <5>3, ConcatEmptySeq
    <3>5. CASE n # 0
      <4>1. n \in 1..L
        BY <1>1, <3>1, <3>5
      <4> QED
        <5>1. p[n] = g[n]
          BY <2>6, <4>1
        <5>0. n + 1 # 1
          BY <3>5
        <5>2. p[n + 1] = p[n] \o seqs[n + 1]
          BY <3>2, <5>0
        <5> QED
          BY <3>3, <5>1, <5>2
    <3> QED
      BY <3>4, <3>5
  <2>7. Nat \subseteq P
    <3> HIDE DEF P
    <3> QED
      BY <2>5, <2>6, InductiveSet
  <2>8. p[L] = g[L]
    BY <1>1, <1>6, <2>7
  <2> QED
    BY <1>4, <2>1, <2>8
<1> QED
  BY <1>5, <1>6

\* What is joined depends on nothing but the sequences joined.
LEMMA JoinsAgree ==
  ASSUME NEW S, NEW seqs \in Seq(Seq(S)), NEW seqt \in Seq(Seq(S)), NEW g, NEW h,
         Joins(g, seqs, S), Joins(h, seqt, S), NEW m \in Nat, m <= Len(seqs), m <= Len(seqt),
         \A i \in 1..m : seqs[i] = seqt[i]
  PROVE  g[m] = h[m]
<1> DEFINE P == {n \in Nat : n <= m => g[n] = h[n]}
<1>1. 0 \in P
  BY DEF Joins
<1>2. ASSUME NEW n \in Nat, n \in P
      PROVE  n + 1 \in P
  <2>1. SUFFICES ASSUME n + 1 <= m PROVE g[n + 1] = h[n + 1]
    OBVIOUS
  <2>2. Len(seqs) \in Nat /\ Len(seqt) \in Nat
    BY LenProperties
  <2>3. /\ n + 1 \in 1..m /\ n + 1 \in 1..Len(seqs) /\ n + 1 \in 1..Len(seqt) /\ (n + 1) - 1 = n
        /\ g[n] = h[n]
    BY <1>2, <2>1, <2>2
  <2>4. g[n + 1] = g[n] \o seqs[n + 1] /\ h[n + 1] = h[n] \o seqt[n + 1]
    BY <2>3 DEF Joins
  <2> QED
    BY <2>3, <2>4
<1>3. Nat \subseteq P
  <2> HIDE DEF P
  <2> QED
    BY <1>1, <1>2, InductiveSet
<1> QED
  BY <1>3

\* A concatenation is a sequence over the same set.
LEMMA FlattenType ==
  ASSUME NEW S, NEW seqs \in Seq(Seq(S))
  PROVE  FlattenSeq(seqs) \in Seq(S)
<1>1. PICK g : Joins(g, seqs, S) /\ g[Len(seqs)] = FlattenSeq(seqs)
  BY FlattenJoins
<1>2. Len(seqs) \in 0..Len(seqs)
  BY LenProperties
<1> QED
  BY <1>1, <1>2 DEF Joins

\* There is nothing in the concatenation of nothing.
LEMMA FlattenEmpty == FlattenSeq(<<>>) = <<>>
BY EmptySeq DEF FlattenSeq

\* The last sequence comes last in a concatenation.
LEMMA FlattenAppend ==
  ASSUME NEW S, NEW seqs \in Seq(Seq(S)), NEW e \in Seq(S)
  PROVE  FlattenSeq(Append(seqs, e)) = FlattenSeq(seqs) \o e
<1> DEFINE seqt == Append(seqs, e)
<1>1. /\ seqt \in Seq(Seq(S)) /\ Len(seqt) = Len(seqs) + 1 /\ seqt[Len(seqs) + 1] = e
      /\ \A i \in 1..Len(seqs) : seqt[i] = seqs[i]
  BY AppendProperties
<1>2. Len(seqs) \in Nat
  BY LenProperties
<1> HIDE DEF seqt
<1>3. PICK g : Joins(g, seqs, S) /\ g[Len(seqs)] = FlattenSeq(seqs)
  BY FlattenJoins
<1>4. PICK h : Joins(h, seqt, S) /\ h[Len(seqt)] = FlattenSeq(seqt)
  BY <1>1, FlattenJoins
<1>5. Len(seqs) <= Len(seqt) /\ Len(seqs) <= Len(seqs)
  BY <1>1, <1>2
<1>6. g[Len(seqs)] = h[Len(seqs)]
  <2>1. \A i \in 1..Len(seqs) : seqs[i] = seqt[i]
    BY <1>1
  <2> QED
    <3> DEFINE m == Len(seqs)
    <3>1. /\ Joins(g, seqs, S) /\ Joins(h, seqt, S) /\ m \in Nat /\ m <= Len(seqs) /\ m <= Len(seqt)
          /\ \A i \in 1..m : seqs[i] = seqt[i]
      BY <1>1, <1>2, <1>3, <1>4, <1>5, <2>1
    <3>2. seqt \in Seq(Seq(S))
      BY <1>1
    <3> HIDE DEF m
    <3>3. g[m] = h[m]
      BY <3>1, <3>2, JoinsAgree
    <3> QED
      BY <3>3 DEF m
<1>7. Len(seqt) \in 1..Len(seqt) /\ Len(seqt) - 1 = Len(seqs)
  BY <1>1, <1>2
<1>8. h[Len(seqt)] = h[Len(seqs)] \o seqt[Len(seqt)]
  BY <1>4, <1>7 DEF Joins
<1> QED
  BY <1>1, <1>3, <1>4, <1>6, <1>8 DEF seqt

=============================================================================
