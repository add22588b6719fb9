------------------------------ MODULE StackSearch ------------------------------
(***************************************************************************)
(* A client pages through searchStacks while stacks are created, renamed,  *)
(* tagged and deleted.  A page is one query: the rows after the cursor, in *)
(* the order of the sort column and then of the id.  The cursor is the last*)
(* row of the page, but a timestamp goes through a JavaScript Date, which  *)
(* holds milliseconds where the column holds microseconds.                 *)
(*                                                                         *)
(* A name is its rank in the database's collation, an id its rank among    *)
(* the random uuids.  Left out: the filters by project, tag and text, which*)
(* only make the table smaller.                                            *)
(***************************************************************************)
EXTENDS Integers, FiniteSets

CONSTANTS
    Ids, Names, Projects,
    Sorts,          \* the values of sortBy that the client may ask for
    PageSizes,
    MicrosPerMilli, \* microseconds in a millisecond (1000)
    MaxMicros       \* bound: the last microsecond

ASSUME SearchAssumption ==
    /\ Ids \subseteq Nat /\ IsFiniteSet(Ids) /\ Names \subseteq Nat
    /\ Sorts \subseteq {"name", "created", "lastUpdated"}
    /\ PageSizes \subseteq Nat \ {0} /\ MicrosPerMilli \in Nat \ {0} /\ MaxMicros \in Nat

VARIABLES
    listed,   \* table stacks: the rows, by id
    micros,   \* now() of the database
    walk,     \* the client's walk: its parameters, its cursor and what it was shown
    steady    \* history: the stacks that have kept their place since the walk began

searchVars == <<listed, micros, walk, steady>>

NoRow == [project |-> "none"]
NoWalk == [at |-> "none"]
Present == {id \in Ids : listed[id] # NoRow}

SearchInit ==
    /\ listed = [id \in Ids |-> NoRow]
    /\ micros = 0
    /\ walk = NoWalk
    /\ steady = {}

-----------------------------------------------------------------------------
(* The stacks. *)

\* The column a walk sorts by.
SortValue(row, sortBy) ==
    CASE sortBy = "name" -> row.name
      [] sortBy = "created" -> row.created
      [] sortBy = "lastUpdated" -> row.updated

\* The clock moves on by any amount between two writes.
Now == micros' \in micros..MaxMicros

\* A change of the table, and the stacks that it moves in the walk's order.
Store(id, row) ==
    /\ listed' = [listed EXCEPT ![id] = row]
    /\ steady' = IF id \in steady /\ row # NoRow
                    /\ SortValue(row, walk.sortBy) = SortValue(listed[id], walk.sortBy)
                 THEN steady ELSE steady \ {id}
    /\ UNCHANGED walk

\* idx_stacks_project_name
NameFree(p, n) == \A id \in Present : ~(listed[id].project = p /\ listed[id].name = n)

CreateListed(id, p, n) ==
    /\ listed[id] = NoRow /\ NameFree(p, n)
    /\ Now
    /\ Store(id, [project |-> p, name |-> n, created |-> micros', updated |-> micros'])

DeleteListed(id) ==
    /\ id \in Present
    /\ Store(id, NoRow)
    /\ UNCHANGED micros

\* A rename, like an update of tags, finds the row by its name and writes it by
\* its id, whatever has happened to it in between.
RenameListed(id, n) ==
    /\ id \in Present /\ NameFree(listed[id].project, n)
    /\ Now
    /\ Store(id, [listed[id] EXCEPT !.name = n, !.updated = micros'])

TagListed(id) ==
    /\ id \in Present
    /\ Now
    /\ Store(id, [listed[id] EXCEPT !.updated = micros'])

-----------------------------------------------------------------------------
(* The walk. *)

BeginWalk(sortBy, order, size) ==
    /\ walk = NoWalk
    /\ walk' = [at |-> "start", sortBy |-> sortBy, order |-> order, size |-> size,
                shown |-> {}, again |-> {}]
    /\ steady' = Present
    /\ UNCHANGED <<listed, micros>>

After(v, id, u, jd) == v > u \/ (v = u /\ id > jd)

\* The order of a walk, on pairs of a sort value and an id.
Follows(v, id, u, jd) ==
    IF walk.order = "asc" THEN After(v, id, u, jd) ELSE After(-v, -id, -u, -jd)

Value(id) == SortValue(listed[id], walk.sortBy)

\* The sort value as the token carries it: toISOString keeps milliseconds.
TokenValue(id) ==
    IF walk.sortBy = "name" THEN Value(id)
    ELSE (Value(id) \div MicrosPerMilli) * MicrosPerMilli

\* The rows after the cursor; here those that tie with it are not told apart by
\* their ids.
MutantBeyond(id) ==
    IF walk.order = "asc" THEN Value(id) > walk.value ELSE Value(id) < walk.value
Beyond(id) == Follows(Value(id), id, walk.value, walk.id)

Remaining == {id \in Present : walk.at = "token" => Beyond(id)}

\* LIMIT pageSize + 1 tells whether there is a next page.
Page(rows) ==
    /\ rows \subseteq Remaining
    /\ \A id \in rows, jd \in Remaining \ rows : Follows(Value(jd), jd, Value(id), id)
    /\ rows = Remaining \/ Cardinality(rows) = walk.size
    /\ Cardinality(rows) <= walk.size

Shown(rows) == [walk EXCEPT !.shown = @ \cup rows, !.again = @ \cup (walk.shown \cap rows)]

LastOf(rows) == CHOOSE id \in rows : \A jd \in rows \ {id} : Follows(Value(id), id, Value(jd), jd)

SearchStacks(rows) ==
    LET last == LastOf(rows) IN
    /\ walk.at \in {"start", "token"} /\ Page(rows)
    /\ walk' = IF rows = Remaining
               THEN [Shown(rows) EXCEPT !.at = "finished"]
               ELSE [at |-> "token", value |-> TokenValue(last), id |-> last,
                     sortBy |-> walk.sortBy, order |-> walk.order, size |-> walk.size,
                     shown |-> Shown(rows).shown, again |-> Shown(rows).again]
    /\ UNCHANGED <<listed, micros, steady>>

NextPage == \E rows \in SUBSET Present : SearchStacks(rows)

SearchNext ==
    \/ \E id \in Ids, p \in Projects, n \in Names : CreateListed(id, p, n)
    \/ \E id \in Ids : DeleteListed(id)
    \/ \E id \in Ids, n \in Names : RenameListed(id, n)
    \/ \E id \in Ids : TagListed(id)
    \/ \E sortBy \in Sorts, order \in {"asc", "desc"}, size \in PageSizes :
         BeginWalk(sortBy, order, size)
    \/ NextPage

SearchSpec == SearchInit /\ [][SearchNext]_searchVars

-----------------------------------------------------------------------------
(* Properties. *)

\* The token encodes the position of the last seen row: a walk shows each stack
\* that matched and kept its place all along exactly once, whatever is created,
\* renamed, tagged or deleted around it.
WalkComplete ==
    walk # NoWalk =>
        /\ walk.again \cap steady = {}
        /\ walk.at = "finished" => steady \subseteq walk.shown

=============================================================================
