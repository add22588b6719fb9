--------------------------- MODULE EscEnvironments ---------------------------
(***************************************************************************)
(* The ESC service: environments with numbered revisions, drafts that are  *)
(* reviewed and applied, and sessions that a sweep closes.                 *)
(*                                                                         *)
(* A request is a few statements. updateEnvironment and applyDraft lock    *)
(* the environment's row first, the draft operations the draft's row;      *)
(* other operations find the environment by its name in one statement and  *)
(* write by its id in a later one. A row lock is held from the step that   *)
(* takes it to the end of the request; a statement that needs the row      *)
(* waits, and tests its conditions on the row it then finds. A client may  *)
(* keep the ETag of what it read and send it with its write.               *)
(***************************************************************************)
EXTENDS Integers, FiniteSets

CONSTANTS
    Names, Texts, NoText, Clients,
    Coarse,          \* may two writes of a draft fall into one millisecond?
    SweepLimit,      \* sessions that one sweep closes at most
    MaxEnvironments, MaxRevisions, MaxDrafts, MaxStamp, MaxSessions,  \* bounds
    MaxRows          \* bound: revisions, drafts and sessions together

ASSUME EscAssumption ==
    /\ NoText \notin Texts /\ Coarse \in BOOLEAN
    /\ {SweepLimit, MaxRevisions} \subseteq Nat \ {0}
    /\ {MaxEnvironments, MaxDrafts, MaxStamp, MaxSessions, MaxRows} \subseteq Nat

Envs == 1..MaxEnvironments
Revisions == 1..MaxRevisions
Drafts == 1..MaxDrafts
Sessions == 1..MaxSessions

VARIABLES
    env,        \* table esc_environments, by row: the columns, or NoEnv
    revisions,  \* table esc_environment_revisions: text by row and number
    draft,      \* table esc_drafts, by row, or NoDraft
    session,    \* table esc_sessions, by row, or NoSession
    request     \* what each client's request, or its user, remembers

vars == <<env, revisions, draft, session, request>>

NoEnv == [deleted |-> TRUE]
NoDraft == [status |-> "none"]
NoSession == [status |-> "none"]
Idle == [op |-> "idle"]

Environments == [name : Names, text : Texts, current : Revisions, deleted : BOOLEAN]
DraftRows ==
    [env : Envs, text : Texts, status : {"open", "applied", "discarded"},
     revision : {0} \cup Revisions, stamp : 0..MaxStamp]
SessionRows ==
    [env : Envs, revision : Revisions, text : Texts, status : {"open", "expired", "closed"}]
Requests ==
    {Idle}
    \cup [op : {"read"}, env : Envs, tag : Revisions, seen : Texts]
    \cup [op : {"update"}, env : Envs, current : Revisions, expected : Revisions,
          from : {0} \cup Envs, seen : Texts \cup {NoText}]
    \cup [op : {"apply"}, env : Envs, current : Revisions, draft : Drafts,
          text : Texts \cup {NoText}]
    \cup [op : {"readDraft"}, draft : Drafts, tag : 0..MaxStamp, seen : Texts]
    \cup [op : {"revise", "discard"}, draft : Drafts, tag : {-1} \cup 0..MaxStamp,
          seen : Texts \cup {NoText}, locked : BOOLEAN]
    \cup [op : {"createDraft", "delete"}, env : Envs]
    \cup [op : {"open"}, env : Envs, current : Revisions, text : Texts]

TypeOK ==
    /\ env \in [Envs -> {NoEnv} \cup Environments]
    /\ revisions \in [Envs -> [Revisions -> Texts \cup {NoText}]]
    /\ draft \in [Drafts -> {NoDraft} \cup DraftRows]
    /\ session \in [Sessions -> {NoSession} \cup SessionRows]
    /\ request \in [Clients -> Requests]

Init ==
    /\ env = [e \in Envs |-> NoEnv]
    /\ revisions = [e \in Envs |-> [n \in Revisions |-> NoText]]
    /\ draft = [d \in Drafts |-> NoDraft]
    /\ session = [s \in Sessions |-> NoSession]
    /\ request = [c \in Clients |-> Idle]

\* The rows that a name can stand for; here without the test of deleted_at.
MutantFound(e) == env[e] # NoEnv
Found(e) == ~env[e].deleted
\* Ids are taken in order: rows are interchangeable.
NextRow(table, none) == {i \in DOMAIN table : table[i] = none /\ \A j \in 1..(i - 1) : table[j] # none}

RowFree(e) == \A c \in Clients : request[c].op \in {"update", "apply"} => request[c].env # e
LocksDraft(q) ==
    \/ q.op = "apply" /\ q.text # NoText
    \/ q.op \in {"revise", "discard"} /\ q.locked
\* FOR UPDATE of the draft's row; here a plain read.
MutantDraftFree(d) == TRUE
DraftFree(d) == \A c \in Clients : LocksDraft(request[c]) => request[c].draft # d

\* The bound on rows.
Room ==
    Cardinality({r \in Envs \X Revisions : revisions[r[1]][r[2]] # NoText})
    + Cardinality({d \in Drafts : draft[d] # NoDraft})
    + Cardinality({s \in Sessions : session[s] # NoSession}) < MaxRows

Remember(c, q) == request' = [request EXCEPT ![c] = q]
Answer(c) == Remember(c, Idle)

-----------------------------------------------------------------------------
(* Environments *)

\* createEnvironment, also with the text that cloneEnvironment has read. The
\* partial unique index admits one live row of a name.
CreateEnvironment(n, t) ==
    /\ Room /\ \A e \in Envs : Found(e) => env[e].name # n
    /\ \E e \in NextRow(env, NoEnv) :
          /\ env' = [env EXCEPT ![e] =
                       [name |-> n, text |-> t, current |-> 1, deleted |-> FALSE]]
          /\ revisions' = [revisions EXCEPT ![e][1] = t]
    /\ UNCHANGED <<draft, session, request>>

\* getEnvironment: its ETag is the revision number.
GetEnvironment(c, e) ==
    /\ request[c] = Idle /\ Found(e)
    /\ Remember(c, [op |-> "read", env |-> e, tag |-> env[e].current, seen |-> env[e].text])
    /\ UNCHANGED <<env, revisions, draft, session>>

\* updateEnvironment up to the locked row, without an ETag ...
LockRow(c, e) ==
    /\ request[c] = Idle /\ Found(e) /\ RowFree(e)
    /\ Remember(c, [op |-> "update", env |-> e, current |-> env[e].current,
                    expected |-> env[e].current, from |-> 0, seen |-> NoText])
    /\ UNCHANGED <<env, revisions, draft, session>>
\* ... and with the ETag of an earlier read of the name.
LockRowIfMatch(c, e) ==
    /\ request[c].op = "read" /\ Found(e) /\ RowFree(e)
    /\ env[request[c].env].name = env[e].name
    /\ Remember(c, [op |-> "update", env |-> e, current |-> env[e].current,
                    expected |-> request[c].tag, from |-> request[c].env,
                    seen |-> request[c].seen])
    /\ UNCHANGED <<env, revisions, draft, session>>

\* The UPDATE's comparison with the expected revision.
Matches(q) == env[q.env].current = q.expected
NextRevision(q) == q.current + 1

\* The row's text and number and a new revision. The unique index on number
\* and environment turns a second insert of a number into a rollback.
\* First a mutant: the row keeps its old text.
MutantAddRevision(q, t) ==
    /\ Room /\ NextRevision(q) \in Revisions
    /\ revisions[q.env][NextRevision(q)] = NoText
    /\ env' = [env EXCEPT ![q.env].current = NextRevision(q)]
    /\ revisions' = [revisions EXCEPT ![q.env][NextRevision(q)] = t]
AddRevision(q, t) ==
    /\ Room /\ NextRevision(q) \in Revisions
    /\ revisions[q.env][NextRevision(q)] = NoText
    /\ env' = [env EXCEPT ![q.env].text = t, ![q.env].current = NextRevision(q)]
    /\ revisions' = [revisions EXCEPT ![q.env][NextRevision(q)] = t]

UpdateEnvironment(c, t) ==
    LET q == request[c] IN
    /\ q.op = "update" /\ Matches(q)
    /\ AddRevision(q, t)
    /\ Answer(c)
    /\ UNCHANGED <<draft, session>>

FindForDelete(c, e) ==
    /\ request[c] = Idle /\ Found(e)
    /\ Remember(c, [op |-> "delete", env |-> e])
    /\ UNCHANGED <<env, revisions, draft, session>>
DeleteEnvironment(c) ==
    LET e == request[c].env IN
    /\ request[c].op = "delete" /\ ~env[e].deleted /\ RowFree(e)
    /\ env' = [env EXCEPT ![e].deleted = TRUE]
    /\ Answer(c)
    /\ UNCHANGED <<revisions, draft, session>>

-----------------------------------------------------------------------------
(* Drafts *)

FindForDraft(c, e) ==
    /\ request[c] = Idle /\ Found(e)
    /\ Remember(c, [op |-> "createDraft", env |-> e])
    /\ UNCHANGED <<env, revisions, draft, session>>
CreateDraft(c, t) ==
    /\ request[c].op = "createDraft" /\ Room
    /\ \E d \in NextRow(draft, NoDraft) :
          draft' = [draft EXCEPT ![d] = [env |-> request[c].env, text |-> t, status |-> "open",
                                         revision |-> 0, stamp |-> 0]]
    /\ Answer(c)
    /\ UNCHANGED <<env, revisions, session>>

\* getDraft: its ETag is updated_at in milliseconds.
GetDraft(c, d) ==
    /\ request[c] = Idle
    /\ draft[d] # NoDraft /\ Found(draft[d].env)
    /\ Remember(c, [op |-> "readDraft", draft |-> d, tag |-> draft[d].stamp,
                    seen |-> draft[d].text])
    /\ UNCHANGED <<env, revisions, draft, session>>

\* updateDraft and discardDraft find the environment, with or without an ETag ...
FindEnvironment(c, d, op) ==
    LET q == request[c] IN
    /\ draft[d] # NoDraft /\ Found(draft[d].env)
    /\ \/ /\ q = Idle
          /\ Remember(c, [op |-> op, draft |-> d, tag |-> -1, seen |-> NoText, locked |-> FALSE])
       \/ /\ q.op = "readDraft" /\ q.draft = d /\ op = "revise"
          /\ Remember(c, [op |-> op, draft |-> d, tag |-> q.tag, seen |-> q.seen,
                          locked |-> FALSE])
    /\ UNCHANGED <<env, revisions, draft, session>>
\* updateDraft's comparison of the ETag with updated_at; here left out.
MutantTagMatches(q) == TRUE
TagMatches(q) == q.tag = -1 \/ q.tag = draft[q.draft].stamp
\* ... then lock and test the draft's row ...
LockDraft(c) ==
    LET q == request[c] IN
    /\ q.op \in {"revise", "discard"} /\ ~q.locked
    /\ DraftFree(q.draft) /\ draft[q.draft].status = "open" /\ TagMatches(q)
    /\ Remember(c, [q EXCEPT !.locked = TRUE])
    /\ UNCHANGED <<env, revisions, draft, session>>
\* ... and write it.
UpdateDraft(c, t) ==
    LET q == request[c]  old == draft[q.draft].stamp IN
    /\ q.op = "revise" /\ q.locked /\ draft[q.draft].status = "open"
    /\ \E at \in {old + 1} \cup (IF Coarse THEN {old} ELSE {}) :
          /\ at <= MaxStamp
          /\ draft' = [draft EXCEPT ![q.draft].text = t, ![q.draft].stamp = at]
    /\ Answer(c)
    /\ UNCHANGED <<env, revisions, session>>
DiscardDraft(c) ==
    LET q == request[c] IN
    /\ q.op = "discard" /\ q.locked /\ draft[q.draft].status = "open"
    /\ draft' = [draft EXCEPT ![q.draft].status = "discarded"]
    /\ Answer(c)
    /\ UNCHANGED <<env, revisions, session>>

\* applyDraft locks the environment, then the draft, and then writes both.
LockRowToApply(c, e, d) ==
    /\ request[c] = Idle /\ Found(e) /\ RowFree(e)
    /\ Remember(c, [op |-> "apply", env |-> e, current |-> env[e].current, draft |-> d,
                    text |-> NoText])
    /\ UNCHANGED <<env, revisions, draft, session>>
\* The draft's status under its lock.
Open(d) == draft[d].status = "open"
LockDraftToApply(c) ==
    LET q == request[c] IN
    /\ q.op = "apply" /\ q.text = NoText
    /\ DraftFree(q.draft) /\ Open(q.draft) /\ draft[q.draft].env = q.env
    /\ Remember(c, [q EXCEPT !.text = draft[q.draft].text])
    /\ UNCHANGED <<env, revisions, draft, session>>
ApplyDraft(c) ==
    LET q == request[c] IN
    /\ q.op = "apply" /\ q.text # NoText
    /\ AddRevision(q, q.text)
    /\ Open(q.draft)
    /\ draft' = [draft EXCEPT ![q.draft].status = "applied",
                              ![q.draft].revision = NextRevision(q)]
    /\ Answer(c)
    /\ UNCHANGED session

-----------------------------------------------------------------------------
(* Sessions *)

FindForSession(c, e) ==
    /\ request[c] = Idle /\ Found(e)
    /\ Remember(c, [op |-> "open", env |-> e, current |-> env[e].current, text |-> env[e].text])
    /\ UNCHANGED <<env, revisions, draft, session>>
\* The revision a session refers to; here the number that is current when the
\* session is stored.
MutantEvaluated(q) == env[q.env].current
Evaluated(q) == q.current
\* The evaluation of the text takes its time between the two.
OpenSession(c) ==
    LET q == request[c] IN
    /\ q.op = "open" /\ Room
    /\ \E s \in NextRow(session, NoSession) :
          session' = [session EXCEPT ![s] = [env |-> q.env, revision |-> Evaluated(q),
                                             text |-> q.text, status |-> "open"]]
    /\ Answer(c)
    /\ UNCHANGED <<env, revisions, draft>>

Expire(s) ==
    /\ session[s].status = "open"
    /\ session' = [session EXCEPT ![s].status = "expired"]
    /\ UNCHANGED <<env, revisions, draft, request>>

\* Sessions that a sweep selects; here with the comparison the wrong way round.
MutantExpired == {s \in Sessions : session[s].status = "open"}
Expired == {s \in Sessions : session[s].status = "expired"}
\* One sweep in the cluster at a time; the LIMIT takes any rows.
GcSweep ==
    /\ \E batch \in SUBSET Expired \ {{}} :
          /\ \/ Cardinality(batch) = SweepLimit
             \/ batch = Expired /\ Cardinality(batch) < SweepLimit
          /\ session' = [s \in Sessions |-> IF s \in batch
                                            THEN [session[s] EXCEPT !.status = "closed"]
                                            ELSE session[s]]
    /\ UNCHANGED <<env, revisions, draft, request>>

-----------------------------------------------------------------------------
\* An error answer, a rollback or a replica that stops: nothing is written.
Fail(c) ==
    /\ request[c] # Idle /\ Answer(c)
    /\ UNCHANGED <<env, revisions, draft, session>>

Next ==
    \/ \E n \in Names, t \in Texts : CreateEnvironment(n, t)
    \/ \E c \in Clients :
        \/ \E e \in Envs :
            \/ GetEnvironment(c, e) \/ FindForDelete(c, e)
            \/ FindForDraft(c, e) \/ FindForSession(c, e)
            \/ LockRow(c, e) \/ LockRowIfMatch(c, e)
            \/ \E d \in Drafts : LockRowToApply(c, e, d)
        \/ DeleteEnvironment(c)
        \/ \E t \in Texts : UpdateEnvironment(c, t) \/ CreateDraft(c, t) \/ UpdateDraft(c, t)
        \/ \E d \in Drafts : GetDraft(c, d)
        \/ \E d \in Drafts, op \in {"revise", "discard"} : FindEnvironment(c, d, op)
        \/ LockDraft(c) \/ DiscardDraft(c) \/ LockDraftToApply(c) \/ ApplyDraft(c)
        \/ OpenSession(c) \/ Fail(c)
    \/ \E s \in Sessions : Expire(s)
    \/ GcSweep

Spec == Init /\ [][Next]_vars
FairSpec == Spec /\ WF_vars(GcSweep)

-----------------------------------------------------------------------------
(* Properties *)

\* The schema's comment: the body of a row always equals the text of its
\* latest revision, and revisions are numbered without a gap, whatever
\* updates and applied drafts race for the next number.
BodyIsLatest ==
    \A e \in Envs : env[e] # NoEnv =>
        /\ env[e].text = revisions[e][env[e].current]
        /\ \A n \in Revisions : revisions[e][n] # NoText <=> n <= env[e].current

\* A write with an ETag replaces the text its author has read: an update or
\* an applied draft in between, also one under way, has made the ETag stale.
\* (For drafts as long as no two writes fall into one millisecond; for
\* environments as long as the name still stands for the row that was read.)
EditsReplaceWhatWasRead ==
    [][\A c \in Clients : LET q == request[c] IN
        /\ (\E t \in Texts : UpdateEnvironment(c, t)) /\ q.from = q.env => env[q.env].text = q.seen
        /\ (\E t \in Texts : UpdateDraft(c, t)) /\ q.tag # -1 /\ ~Coarse =>
              draft[q.draft].text = q.seen]_vars

\* An applied draft's revision has the draft's last text: no edit is accepted
\* after applyDraft has read the draft.
AppliedAsEdited ==
    \A d \in Drafts : draft[d].status = "applied" =>
        revisions[draft[d].env][draft[d].revision] = draft[d].text

\* A deleted environment keeps its text and its history: requests that found
\* it by name before the deletion do not write to it, and a new environment
\* of the same name is another row.
DeletedFrozen ==
    [][\A e \in Envs : env[e] # NoEnv /\ env[e].deleted =>
          env'[e] = env[e] /\ revisions'[e] = revisions[e]]_vars

\* A session shows the values of the revision it names, whatever was written
\* while the text was evaluated.
SessionShowsRevision ==
    \A s \in Sessions : session[s] # NoSession =>
        session[s].text = revisions[session[s].env][session[s].revision]

\* Every expired session is closed by a sweep, although a sweep takes a
\* limited number of rows in no particular order.
EventuallyClosed ==
    \A s \in Sessions : session[s].status = "expired" ~> session[s].status = "closed"
=============================================================================
