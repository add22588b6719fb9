------------------------ MODULE EscEnvironments_proofs ------------------------
(***************************************************************************)
(* Proofs about EscEnvironments, for any number of clients, names, texts,  *)
(* rows and revisions.                                                     *)
(***************************************************************************)
EXTENDS EscEnvironments, TLAPS

RowLocker(q) == q.op \in {"update", "apply"}

\* Two requests never hold the lock of one row.
Exclusive ==
    \A c, p \in Clients : c # p =>
        /\ RowLocker(request[c]) /\ RowLocker(request[p]) => request[c].env # request[p].env
        /\ LocksDraft(request[c]) /\ LocksDraft(request[p]) => request[c].draft # request[p].draft

\* A draft that was read is at least as new now, and if it has the same ETag, the same.
StillSeen(q) ==
    /\ draft[q.draft] # NoDraft
    /\ ~Coarse => /\ q.tag <= draft[q.draft].stamp
                  /\ q.tag = draft[q.draft].stamp => q.seen = draft[q.draft].text

\* What a request remembers is still so: of a locked row all of it, of another
\* row what never changes.
RequestTrue(q) ==
    /\ RowLocker(q) => ~env[q.env].deleted /\ env[q.env].current = q.current
    /\ q.op = "read" => revisions[q.env][q.tag] = q.seen
    /\ q.op = "update" /\ q.from = q.env =>
          q.seen \in Texts /\ revisions[q.env][q.expected] = q.seen
    /\ q.op = "apply" /\ q.text # NoText =>
          /\ draft[q.draft].status = "open"
          /\ draft[q.draft].env = q.env /\ draft[q.draft].text = q.text
    /\ q.op = "open" => revisions[q.env][q.current] = q.text
    /\ q.op = "createDraft" => env[q.env] # NoEnv
    /\ q.op = "readDraft" => StillSeen(q)
    /\ q.op \in {"revise", "discard"} /\ q.tag # -1 => StillSeen(q)
    /\ q.op \in {"revise", "discard"} /\ q.locked =>
          draft[q.draft].status = "open" /\ q.tag \in {-1, draft[q.draft].stamp}

RequestsTrue == \A c \in Clients : RequestTrue(request[c])

\* A row that is not there has no revisions; a draft belongs to a row, and once
\* applied to a revision.
RowsTrue ==
    /\ \A e \in Envs, n \in Revisions : env[e] = NoEnv => revisions[e][n] = NoText
    /\ \A d \in Drafts : draft[d] # NoDraft =>
          env[draft[d].env] # NoEnv /\ (draft[d].status = "applied" => draft[d].revision \in Revisions)

EscInv ==
    /\ TypeOK /\ Exclusive /\ RequestsTrue /\ RowsTrue
    /\ BodyIsLatest /\ AppliedAsEdited /\ SessionShowsRevision

-----------------------------------------------------------------------------
(* Lemmas about requests. *)

\* The fields that each kind of request has.
LEMMA RequestFields ==
  ASSUME TypeOK, NEW c \in Clients
  PROVE  LET q == request[c] IN
         /\ q.op \in {"read", "update", "apply", "createDraft", "delete", "open"} => q.env \in Envs
         /\ q.op \in {"update", "apply", "open"} => q.current \in Revisions
         /\ q.op = "read" => q.tag \in Revisions /\ q.seen \in Texts
         /\ q.op = "update" => q.expected \in Revisions /\ q.from \in {0} \cup Envs
                               /\ q.seen \in Texts \cup {NoText}
         /\ q.op \in {"apply", "readDraft", "revise", "discard"} => q.draft \in Drafts
         /\ q.op = "apply" => q.text \in Texts \cup {NoText}
         /\ q.op = "readDraft" => q.tag \in 0..MaxStamp /\ q.seen \in Texts
         /\ q.op \in {"revise", "discard"} =>
               q.tag \in {-1} \cup 0..MaxStamp /\ q.seen \in Texts \cup {NoText} /\ q.locked \in BOOLEAN
         /\ q.op = "open" => q.text \in Texts
<1>1. request[c] \in Requests
  BY DEF TypeOK
<1> QED
  BY <1>1 DEF Requests, Idle

\* A row that can be found is there, with the columns of one.
LEMMA FoundRow ==
  ASSUME TypeOK, NEW e \in Envs, Found(e)
  PROVE  env[e] \in Environments /\ env[e] # NoEnv
BY DEF TypeOK, Found, NoEnv

LEMMA RowColumns ==
  ASSUME TypeOK
  PROVE  /\ \A e \in Envs : env[e] # NoEnv => env[e] \in Environments
         /\ \A e \in Envs, n \in Revisions : revisions[e][n] \in Texts \cup {NoText}
         /\ \A d \in Drafts : draft[d] # NoDraft => draft[d] \in DraftRows
         /\ \A d \in Drafts : draft[d].status # "none" => draft[d] # NoDraft
         /\ \A s \in Sessions : session[s] # NoSession => session[s] \in SessionRows
BY DEF TypeOK, NoDraft

\* Only the client's own request changes.
LEMMA Remembered ==
  ASSUME TypeOK, NEW c \in Clients, NEW q \in Requests, Remember(c, q)
  PROVE  /\ request' \in [Clients -> Requests]
         /\ request'[c] = q /\ \A p \in Clients : p # c => request'[p] = request[p]
BY DEF TypeOK, Remember

\* What a step may do to rows that are there: never undo a revision or a draft.
Advances ==
    /\ \A e \in Envs : env[e] # NoEnv => env'[e] # NoEnv
    /\ \A e \in Envs, n \in Revisions :
          revisions[e][n] # NoText => revisions'[e][n] = revisions[e][n]
    /\ \A d \in Drafts : draft[d] # NoDraft =>
          /\ draft'[d] # NoDraft /\ draft[d].stamp <= draft'[d].stamp
          /\ ~Coarse /\ draft'[d].stamp = draft[d].stamp => draft'[d].text = draft[d].text

\* Of a request that goes on, its locked rows untouched.
LEMMA OtherRequest ==
  ASSUME EscInv, TypeOK', Advances, NEW p \in Clients, request'[p] = request[p],
         RowLocker(request[p]) => env'[request[p].env] = env[request[p].env],
         LocksDraft(request[p]) => draft'[request[p].draft] = draft[request[p].draft]
  PROVE  RequestTrue(request[p])'
<1> DEFINE q == request[p]
<1>1. RequestTrue(q) /\ TypeOK
  BY DEF EscInv, RequestsTrue
<1>2. RowLocker(q) => ~env'[q.env].deleted /\ env'[q.env].current = q.current
  BY <1>1 DEF RequestTrue
<1>3. /\ q.op = "read" => revisions'[q.env][q.tag] = q.seen
      /\ q.op = "open" => revisions'[q.env][q.current] = q.text
  BY <1>1, RequestFields, EscAssumption DEF RequestTrue, Advances
<1>4. q.op = "update" /\ q.from = q.env => q.seen \in Texts /\ revisions'[q.env][q.expected] = q.seen
  BY <1>1, RequestFields, EscAssumption DEF RequestTrue, Advances
<1>5. q.op = "apply" /\ q.text # NoText =>
        /\ draft'[q.draft].status = "open"
        /\ draft'[q.draft].env = q.env /\ draft'[q.draft].text = q.text
  BY <1>1 DEF RequestTrue, LocksDraft
<1>6. q.op = "createDraft" => env'[q.env] # NoEnv
  BY <1>1, RequestFields DEF RequestTrue, Advances
<1>7. ASSUME q.op = "readDraft" \/ (q.op \in {"revise", "discard"} /\ q.tag # -1)
      PROVE  StillSeen(q)'
  <2>1. q.draft \in Drafts /\ q.tag \in Nat /\ StillSeen(q)
    BY <1>1, <1>7, RequestFields, EscAssumption DEF RequestTrue
  <2>2. draft[q.draft].stamp \in Nat /\ draft'[q.draft].stamp \in Nat
    <3>1. draft[q.draft] \in DraftRows
      BY <1>1, <2>1, RowColumns DEF StillSeen
    <3>2. draft'[q.draft] # NoDraft /\ draft' \in [Drafts -> {NoDraft} \cup DraftRows]
      BY <2>1 DEF StillSeen, Advances, TypeOK
    <3> QED
      BY <2>1, <3>1, <3>2, EscAssumption DEF DraftRows
  <2> QED
    BY <2>1, <2>2 DEF StillSeen, Advances
<1>8. q.op \in {"revise", "discard"} /\ q.locked =>
        draft'[q.draft].status = "open" /\ q.tag \in {-1, draft'[q.draft].stamp}
  BY <1>1 DEF RequestTrue, LocksDraft
<1> QED
  BY <1>2, <1>3, <1>4, <1>5, <1>6, <1>7, <1>8 DEF RequestTrue

\* A step that only gives a client something to remember: nothing false, and no
\* lock that another request holds.
LEMMA RememberKeeps ==
  ASSUME EscInv, NEW c \in Clients, NEW q \in Requests, Remember(c, q), RequestTrue(q),
         UNCHANGED <<env, revisions, draft, session>>,
         RowLocker(q) => RowFree(q.env) \/ (RowLocker(request[c]) /\ request[c].env = q.env),
         LocksDraft(q) => DraftFree(q.draft)
  PROVE  EscInv'
<1>1. /\ request' \in [Clients -> Requests]
      /\ request'[c] = q /\ \A p \in Clients : p # c => request'[p] = request[p]
  BY Remembered DEF EscInv
<1>2. TypeOK'
  BY <1>1 DEF EscInv, TypeOK
<1>3. Exclusive'
  <2>1. ASSUME NEW p \in Clients, p # c
        PROVE  /\ RowLocker(q) /\ RowLocker(request[p]) => q.env # request[p].env
               /\ LocksDraft(q) /\ LocksDraft(request[p]) => q.draft # request[p].draft
    BY <2>1 DEF EscInv, Exclusive, RowFree, RowLocker, DraftFree
  <2> QED
    BY <1>1, <2>1 DEF EscInv, Exclusive, RowLocker, LocksDraft
<1>4. RequestsTrue'
  <2> SUFFICES ASSUME NEW p \in Clients PROVE RequestTrue(request[p])'
    BY DEF RequestsTrue
  <2>1. CASE p = c
    BY <1>1, <2>1 DEF RequestTrue, StillSeen, RowLocker
  <2>2. CASE p # c
    <3>1. Advances
      BY <1>2, RowColumns, EscAssumption DEF Advances, EscInv, DraftRows
    <3> QED
      BY <1>1, <1>2, <2>2, <3>1, OtherRequest
  <2> QED
    BY <2>1, <2>2
<1>5. RowsTrue' /\ BodyIsLatest' /\ AppliedAsEdited' /\ SessionShowsRevision'
  BY DEF EscInv, RowsTrue, BodyIsLatest, AppliedAsEdited, SessionShowsRevision
<1> QED
  BY <1>2, <1>3, <1>4, <1>5 DEF EscInv

\* A step that writes and ends a request; no other request has a lock on what it writes.
LEMMA AnswerKeeps ==
  ASSUME EscInv, TypeOK', Advances, NEW c \in Clients, Answer(c),
         \A p \in Clients : p # c =>
            /\ RowLocker(request[p]) => env'[request[p].env] = env[request[p].env]
            /\ LocksDraft(request[p]) => draft'[request[p].draft] = draft[request[p].draft]
  PROVE  Exclusive' /\ RequestsTrue'
<1>1. Idle \in Requests
  BY DEF Requests
<1>2. request'[c] = Idle /\ \A p \in Clients : p # c => request'[p] = request[p]
  BY <1>1, Remembered DEF EscInv, Answer
<1>3. Exclusive'
  BY <1>2 DEF EscInv, Exclusive, RowLocker, LocksDraft, Idle
<1>4. RequestTrue(Idle)'
  BY DEF RequestTrue, RowLocker, Idle
<1>5. ASSUME NEW p \in Clients, p # c PROVE RequestTrue(request[p])'
  BY <1>2, <1>5, OtherRequest
<1>6. RequestTrue(request[c])'
  BY <1>2, <1>4 DEF RequestTrue, RowLocker, StillSeen
<1> QED
  BY <1>3, <1>5, <1>6 DEF RequestsTrue

\* What is read of a session or an applied draft was written before.
LEMMA SessionsKeep ==
  ASSUME EscInv, Advances, UNCHANGED session
  PROVE  SessionShowsRevision'
<1> SUFFICES ASSUME NEW s \in Sessions, session[s] # NoSession
             PROVE  session[s].text = revisions'[session[s].env][session[s].revision]
  BY DEF SessionShowsRevision
<1>1. session[s] \in SessionRows /\ session[s].text = revisions[session[s].env][session[s].revision]
  BY RowColumns DEF EscInv, SessionShowsRevision
<1> QED
  BY <1>1, EscAssumption DEF SessionRows, Advances

LEMMA DraftsKeep ==
  ASSUME EscInv, Advances, UNCHANGED draft
  PROVE  AppliedAsEdited' /\ \A d \in Drafts : draft'[d] # NoDraft =>
          env'[draft'[d].env] # NoEnv /\ (draft'[d].status = "applied" => draft'[d].revision \in Revisions)
<1>1. ASSUME NEW d \in Drafts, draft[d] # NoDraft
      PROVE  /\ env'[draft[d].env] # NoEnv /\ (draft[d].status = "applied" => draft[d].revision \in Revisions)
             /\ draft[d].status = "applied" =>
                   revisions'[draft[d].env][draft[d].revision] = draft[d].text
  <2>1. draft[d] \in DraftRows /\ env[draft[d].env] # NoEnv
        /\ (draft[d].status = "applied" => draft[d].revision \in Revisions)
    BY <1>1, RowColumns DEF EscInv, RowsTrue
  <2> QED
    BY <2>1, EscAssumption DEF EscInv, AppliedAsEdited, DraftRows, Advances
<1> QED
  BY <1>1, RowColumns DEF EscInv, AppliedAsEdited

-----------------------------------------------------------------------------
(* The steps of requests that only read or lock. *)

\* What a request finds by a name, it has read of a row that is there.
LEMMA FindKeeps ==
  ASSUME EscInv, NEW c \in Clients, NEW e \in Envs,
         \/ GetEnvironment(c, e) \/ FindForDelete(c, e)
         \/ FindForDraft(c, e) \/ FindForSession(c, e)
  PROVE  EscInv'
<1>1. /\ env[e] \in Environments /\ env[e] # NoEnv
      /\ revisions[e][env[e].current] = env[e].text
  BY FoundRow DEF EscInv, BodyIsLatest, GetEnvironment, FindForDelete, FindForDraft, FindForSession
<1>2. env[e].text \in Texts /\ env[e].current \in Revisions
  BY <1>1 DEF Environments
<1>3. ASSUME NEW q \in Requests, Remember(c, q), RequestTrue(q), ~RowLocker(q), ~LocksDraft(q),
             UNCHANGED <<env, revisions, draft, session>>
      PROVE  EscInv'
  BY <1>3, RememberKeeps
<1>4. CASE GetEnvironment(c, e)
  <2> DEFINE q == [op |-> "read", env |-> e, tag |-> env[e].current, seen |-> env[e].text]
  <2>1. q \in Requests
    BY <1>2 DEF Requests
  <2>2. RequestTrue(q) /\ ~RowLocker(q) /\ ~LocksDraft(q)
    BY <1>1 DEF RequestTrue, RowLocker, LocksDraft
  <2> QED
    BY <1>3, <1>4, <2>1, <2>2 DEF GetEnvironment
<1>5. CASE FindForDelete(c, e)
  <2> DEFINE q == [op |-> "delete", env |-> e]
  <2>1. q \in Requests
    BY DEF Requests
  <2>2. RequestTrue(q) /\ ~RowLocker(q) /\ ~LocksDraft(q)
    BY DEF RequestTrue, RowLocker, LocksDraft
  <2> QED
    BY <1>3, <1>5, <2>1, <2>2 DEF FindForDelete
<1>6. CASE FindForDraft(c, e)
  <2> DEFINE q == [op |-> "createDraft", env |-> e]
  <2>1. q \in Requests
    BY DEF Requests
  <2>2. RequestTrue(q) /\ ~RowLocker(q) /\ ~LocksDraft(q)
    BY <1>1 DEF RequestTrue, RowLocker, LocksDraft
  <2> QED
    BY <1>3, <1>6, <2>1, <2>2 DEF FindForDraft
<1>7. CASE FindForSession(c, e)
  <2> DEFINE q == [op |-> "open", env |-> e, current |-> env[e].current, text |-> env[e].text]
  <2>1. q \in Requests
    BY <1>2 DEF Requests
  <2>2. RequestTrue(q) /\ ~RowLocker(q) /\ ~LocksDraft(q)
    BY <1>1 DEF RequestTrue, RowLocker, LocksDraft
  <2> QED
    BY <1>3, <1>7, <2>1, <2>2 DEF FindForSession
<1> QED
  BY <1>4, <1>5, <1>6, <1>7

\* A locked row is there, and has the number that the request has read.
LEMMA LockRowKeeps ==
  ASSUME EscInv, NEW c \in Clients, NEW e \in Envs,
         \/ LockRow(c, e) \/ LockRowIfMatch(c, e) \/ \E d \in Drafts : LockRowToApply(c, e, d)
  PROVE  EscInv'
<1>1. ~env[e].deleted /\ env[e].current \in Revisions /\ RowFree(e)
  BY FoundRow DEF EscInv, Environments, LockRow, LockRowIfMatch, LockRowToApply, Found
<1>2. ASSUME NEW q \in Requests, Remember(c, q), RequestTrue(q), q.env = e, ~LocksDraft(q),
             UNCHANGED <<env, revisions, draft, session>>
      PROVE  EscInv'
  BY <1>1, <1>2, RememberKeeps
<1>3. CASE LockRow(c, e)
  <2> DEFINE q == [op |-> "update", env |-> e, current |-> env[e].current,
                   expected |-> env[e].current, from |-> 0, seen |-> NoText]
  <2>1. q \in Requests
    BY <1>1 DEF Requests
  <2>2. RequestTrue(q) /\ ~LocksDraft(q)
    BY <1>1 DEF RequestTrue, RowLocker, LocksDraft, Envs
  <2> QED
    BY <1>2, <1>3, <2>1, <2>2 DEF LockRow
<1>4. CASE LockRowIfMatch(c, e)
  <2> DEFINE q == [op |-> "update", env |-> e, current |-> env[e].current,
                   expected |-> request[c].tag, from |-> request[c].env, seen |-> request[c].seen]
  <2>1. /\ request[c].op = "read" /\ request[c].tag \in Revisions /\ request[c].env \in Envs
        /\ request[c].seen \in Texts
        /\ revisions[request[c].env][request[c].tag] = request[c].seen
    BY <1>4, RequestFields DEF EscInv, RequestsTrue, RequestTrue, LockRowIfMatch
  <2>2. q \in Requests
    BY <1>1, <2>1 DEF Requests
  <2>3. RequestTrue(q) /\ ~LocksDraft(q)
    BY <1>1, <2>1 DEF RequestTrue, RowLocker, LocksDraft
  <2> QED
    BY <1>2, <1>4, <2>2, <2>3 DEF LockRowIfMatch
<1>5. ASSUME NEW d \in Drafts, LockRowToApply(c, e, d) PROVE EscInv'
  <2> DEFINE q == [op |-> "apply", env |-> e, current |-> env[e].current, draft |-> d, text |-> NoText]
  <2>1. q \in Requests
    BY <1>1 DEF Requests
  <2>2. RequestTrue(q) /\ ~LocksDraft(q)
    BY <1>1 DEF RequestTrue, RowLocker, LocksDraft
  <2> QED
    BY <1>2, <1>5, <2>1, <2>2 DEF LockRowToApply
<1> QED
  BY <1>3, <1>4, <1>5

\* A draft that is read, with the stamp that is its ETag, and a request on it.
LEMMA DraftReadKeeps ==
  ASSUME EscInv, NEW c \in Clients, NEW d \in Drafts,
         GetDraft(c, d) \/ \E op \in {"revise", "discard"} : FindEnvironment(c, d, op)
  PROVE  EscInv'
<1>1. ASSUME NEW q \in Requests, Remember(c, q), RequestTrue(q), ~RowLocker(q), ~LocksDraft(q),
             UNCHANGED <<env, revisions, draft, session>>
      PROVE  EscInv'
  BY <1>1, RememberKeeps
<1>2. draft[d] # NoDraft /\ draft[d] \in DraftRows
  BY RowColumns DEF EscInv, GetDraft, FindEnvironment
<1>3. CASE GetDraft(c, d)
  <2> DEFINE q == [op |-> "readDraft", draft |-> d, tag |-> draft[d].stamp, seen |-> draft[d].text]
  <2>1. q \in Requests /\ draft[d].stamp \in Nat
    BY <1>2, EscAssumption DEF Requests, DraftRows
  <2>2. RequestTrue(q) /\ ~RowLocker(q) /\ ~LocksDraft(q)
    BY <1>2, <2>1 DEF RequestTrue, RowLocker, LocksDraft, StillSeen
  <2> QED
    BY <1>1, <1>3, <2>1, <2>2 DEF GetDraft
<1>4. ASSUME NEW op \in {"revise", "discard"}, request[c] = Idle, FindEnvironment(c, d, op)
      PROVE  EscInv'
  <2> DEFINE q == [op |-> op, draft |-> d, tag |-> -1, seen |-> NoText, locked |-> FALSE]
  <2>1. q \in Requests
    BY DEF Requests
  <2>2. RequestTrue(q) /\ ~RowLocker(q) /\ ~LocksDraft(q)
    BY DEF RequestTrue, RowLocker, LocksDraft
  <2> QED
    BY <1>1, <1>4, <2>1, <2>2 DEF FindEnvironment, Idle
<1>5. ASSUME NEW op \in {"revise", "discard"}, request[c].op = "readDraft", FindEnvironment(c, d, op)
      PROVE  EscInv'
  <2> DEFINE q == [op |-> op, draft |-> d, tag |-> request[c].tag, seen |-> request[c].seen,
                   locked |-> FALSE]
  <2>1. /\ request[c].tag \in 0..MaxStamp /\ request[c].seen \in Texts
        /\ StillSeen(request[c]) /\ request[c].draft = d
    BY <1>5, RequestFields DEF EscInv, RequestsTrue, RequestTrue, FindEnvironment, Idle
  <2>2. q \in Requests
    BY <2>1 DEF Requests
  <2>3. RequestTrue(q) /\ ~RowLocker(q) /\ ~LocksDraft(q)
    BY <2>1 DEF RequestTrue, RowLocker, LocksDraft, StillSeen
  <2> QED
    BY <1>1, <1>5, <2>2, <2>3 DEF FindEnvironment, Idle
<1> QED
  BY <1>3, <1>4, <1>5 DEF FindEnvironment

\* A locked draft is open, and carries the ETag that the request has brought.
LEMMA LockDraftKeeps ==
  ASSUME EscInv, NEW c \in Clients, LockDraft(c) \/ LockDraftToApply(c)
  PROVE  EscInv'
<1>1. RequestTrue(request[c]) /\ TypeOK /\ request[c] \in Requests
  BY DEF EscInv, RequestsTrue, TypeOK
<1>2. CASE LockDraft(c)
  <2> DEFINE q == [request[c] EXCEPT !.locked = TRUE]
  <2>1. request[c] \in [op : {"revise", "discard"}, draft : Drafts, tag : {-1} \cup 0..MaxStamp,
                        seen : Texts \cup {NoText}, locked : BOOLEAN]
    BY <1>1, <1>2 DEF Requests, LockDraft, Idle
  <2>2. q \in Requests
    BY <2>1 DEF Requests
  <2>3. RequestTrue(q) /\ ~RowLocker(q) /\ DraftFree(q.draft)
    BY <1>1, <1>2, <2>1 DEF LockDraft, RequestTrue, RowLocker, StillSeen, TagMatches
  <2> QED
    BY <1>2, <2>2, <2>3, RememberKeeps DEF LockDraft
<1>3. CASE LockDraftToApply(c)
  <2> DEFINE q == [request[c] EXCEPT !.text = draft[request[c].draft].text]
  <2>1. request[c] \in [op : {"apply"}, env : Envs, current : Revisions, draft : Drafts,
                        text : Texts \cup {NoText}]
    BY <1>1, <1>3 DEF Requests, LockDraftToApply, Idle
  <2>2. draft[request[c].draft] \in DraftRows
    BY <1>1, <1>3, <2>1, RowColumns DEF LockDraftToApply, Open
  <2>3. q \in Requests
    BY <2>1, <2>2 DEF Requests, DraftRows
  <2>4. RequestTrue(q) /\ DraftFree(q.draft) /\ q.env = request[c].env /\ RowLocker(request[c])
    BY <1>1, <1>3, <2>1 DEF LockDraftToApply, RequestTrue, RowLocker, Open
  <2> QED
    BY <1>3, <2>3, <2>4, RememberKeeps DEF LockDraftToApply
<1> QED
  BY <1>2, <1>3

\* A request that fails has written nothing.
LEMMA FailKeeps ==
  ASSUME EscInv, NEW c \in Clients, Fail(c)
  PROVE  EscInv'
<1>1. Idle \in Requests /\ RequestTrue(Idle) /\ ~RowLocker(Idle) /\ ~LocksDraft(Idle)
  BY DEF Requests, RequestTrue, RowLocker, LocksDraft, Idle
<1> QED
  BY <1>1, RememberKeeps DEF Fail, Answer

-----------------------------------------------------------------------------
(* The steps that write. *)

\* A new row takes a free place, its first revision with it.
LEMMA CreateEnvironmentKeeps ==
  ASSUME EscInv, NEW n \in Names, NEW t \in Texts, CreateEnvironment(n, t)
  PROVE  EscInv'
<1> DEFINE new == [name |-> n, text |-> t, current |-> 1, deleted |-> FALSE]
<1>1. PICK e \in Envs : /\ env[e] = NoEnv /\ env' = [env EXCEPT ![e] = new]
                        /\ revisions' = [revisions EXCEPT ![e][1] = t]
  BY DEF CreateEnvironment, NextRow, EscInv, TypeOK
<1>2. /\ env \in [Envs -> {NoEnv} \cup Environments]
      /\ revisions \in [Envs -> [Revisions -> Texts \cup {NoText}]]
      /\ 1 \in Revisions /\ UNCHANGED <<draft, session, request>>
  BY EscAssumption DEF EscInv, TypeOK, CreateEnvironment, Revisions
<1>3. new \in Environments /\ new # NoEnv
  BY <1>2 DEF Environments, NoEnv
<1>4. TypeOK'
  BY <1>1, <1>2, <1>3 DEF EscInv, TypeOK
<1>5. \A m \in Revisions : revisions[e][m] = NoText
  BY <1>1 DEF EscInv, RowsTrue
<1>6. \A f \in Envs : f # e => env'[f] = env[f] /\ revisions'[f] = revisions[f]
  BY <1>1, <1>2
<1>7. env'[e] = new /\ \A m \in Revisions : revisions'[e][m] = IF m = 1 THEN t ELSE NoText
  BY <1>1, <1>2, <1>5
<1>8. Advances
  BY <1>2, <1>3, <1>5, <1>6, <1>7, RowColumns, EscAssumption DEF Advances, EscInv, DraftRows
<1>9. Exclusive'
  BY <1>2 DEF EscInv, Exclusive
<1>10. RequestsTrue'
  <2> SUFFICES ASSUME NEW p \in Clients PROVE RequestTrue(request[p])'
    BY DEF RequestsTrue
  <2>1. RowLocker(request[p]) => request[p].env # e /\ request[p].env \in Envs
    BY <1>1, RequestFields DEF EscInv, RequestsTrue, RequestTrue, RowLocker, NoEnv
  <2> QED
    BY <1>2, <1>4, <1>6, <1>8, <2>1, OtherRequest
<1>11. RowsTrue' /\ AppliedAsEdited'
  BY <1>2, <1>3, <1>6, <1>7, <1>8, DraftsKeep DEF RowsTrue, EscInv
<1>12. BodyIsLatest'
  <2> SUFFICES ASSUME NEW f \in Envs, env'[f] # NoEnv
               PROVE  /\ env'[f].text = revisions'[f][env'[f].current]
                      /\ \A m \in Revisions : revisions'[f][m] # NoText <=> m <= env'[f].current
    BY DEF BodyIsLatest
  <2>1. CASE f = e
    BY <1>2, <1>7, <2>1, EscAssumption DEF Revisions
  <2>2. CASE f # e
    BY <1>6, <2>2 DEF EscInv, BodyIsLatest
  <2> QED
    BY <2>1, <2>2
<1>13. SessionShowsRevision'
  BY <1>2, <1>8, SessionsKeep
<1> QED
  BY <1>4, <1>9, <1>10, <1>11, <1>12, <1>13 DEF EscInv

\* A revision is added under the row's lock, with the number after the row's.
LEMMA AddRevisionEffect ==
  ASSUME EscInv, NEW c \in Clients, RowLocker(request[c]), NEW t \in Texts, AddRevision(request[c], t)
  PROVE  LET e == request[c].env  n == env[e].current + 1 IN
         /\ e \in Envs /\ n \in Revisions /\ n = NextRevision(request[c])
         /\ env[e] \in Environments /\ ~env[e].deleted /\ revisions[e][n] = NoText
         /\ env' \in [Envs -> {NoEnv} \cup Environments]
         /\ revisions' \in [Envs -> [Revisions -> Texts \cup {NoText}]]
         /\ env'[e] \in Environments /\ env'[e].text = t /\ env'[e].current = n
         /\ env'[e].deleted = env[e].deleted
         /\ \A m \in Revisions : revisions'[e][m] = IF m = n THEN t ELSE revisions[e][m]
         /\ \A f \in Envs : f # e => env'[f] = env[f] /\ revisions'[f] = revisions[f]
<1> DEFINE e == request[c].env
           n == env[e].current + 1
<1>1. e \in Envs /\ ~env[e].deleted /\ request[c].current = env[e].current
  BY RequestFields DEF EscInv, RequestsTrue, RequestTrue, RowLocker
<1>2. env[e] \in Environments
  BY <1>1, FoundRow DEF EscInv, Found
<1>3. n = NextRevision(request[c])
  BY <1>1 DEF NextRevision
<1>4. n \in Revisions /\ revisions[e][n] = NoText
  BY <1>3 DEF AddRevision
<1>5. /\ env \in [Envs -> {NoEnv} \cup Environments]
      /\ revisions \in [Envs -> [Revisions -> Texts \cup {NoText}]]
  BY DEF EscInv, TypeOK
<1>6. /\ env' = [env EXCEPT ![e].text = t, ![e].current = n]
      /\ revisions' = [revisions EXCEPT ![e][n] = t]
  BY <1>3 DEF AddRevision
<1>7. /\ env'[e] \in Environments /\ env'[e].text = t /\ env'[e].current = n
      /\ env'[e].deleted = env[e].deleted
      /\ env' \in [Envs -> {NoEnv} \cup Environments]
      /\ \A f \in Envs : f # e => env'[f] = env[f]
  BY <1>1, <1>2, <1>4, <1>5, <1>6 DEF Environments
<1>8. /\ \A m \in Revisions : revisions'[e][m] = IF m = n THEN t ELSE revisions[e][m]
      /\ revisions' \in [Envs -> [Revisions -> Texts \cup {NoText}]]
      /\ \A f \in Envs : f # e => revisions'[f] = revisions[f]
  BY <1>1, <1>4, <1>5, <1>6
<1> QED
  BY <1>1, <1>2, <1>3, <1>4, <1>7, <1>8

\* ... which leaves rows and revisions as they should be, and no other lock's row touched.
LEMMA AddRevisionKeeps ==
  ASSUME EscInv, NEW c \in Clients, RowLocker(request[c]), NEW t \in Texts, AddRevision(request[c], t)
  PROVE  /\ BodyIsLatest'
         /\ \A e \in Envs : env[e] # NoEnv => env'[e] # NoEnv
         /\ \A e \in Envs, n \in Revisions :
               revisions[e][n] # NoText => revisions'[e][n] = revisions[e][n]
         /\ \A e \in Envs, n \in Revisions : env'[e] = NoEnv => revisions'[e][n] = NoText
         /\ \A p \in Clients : p # c /\ RowLocker(request[p]) =>
               env'[request[p].env] = env[request[p].env]
<1> DEFINE e == request[c].env
           n == env[e].current + 1
<1>1. /\ e \in Envs /\ n \in Revisions
      /\ env[e] \in Environments /\ ~env[e].deleted /\ revisions[e][n] = NoText
      /\ env'[e] \in Environments /\ env'[e].text = t /\ env'[e].current = n
      /\ env'[e].deleted = env[e].deleted
      /\ \A m \in Revisions : revisions'[e][m] = IF m = n THEN t ELSE revisions[e][m]
      /\ \A f \in Envs : f # e => env'[f] = env[f] /\ revisions'[f] = revisions[f]
  BY AddRevisionEffect
<1>2. env[e] # NoEnv /\ env'[e] # NoEnv
  BY <1>1 DEF NoEnv
<1>3. BodyIsLatest'
  <2> SUFFICES ASSUME NEW f \in Envs, env'[f] # NoEnv
               PROVE  /\ env'[f].text = revisions'[f][env'[f].current]
                      /\ \A m \in Revisions : revisions'[f][m] # NoText <=> m <= env'[f].current
    BY DEF BodyIsLatest
  <2>1. CASE f = e
    <3>1. \A m \in Revisions : revisions[e][m] # NoText <=> m <= env[e].current
      BY <1>1, <1>2 DEF EscInv, BodyIsLatest
    <3>2. env[e].current \in Revisions
      BY <1>1 DEF Environments
    <3> QED
      BY <1>1, <2>1, <3>1, <3>2, EscAssumption DEF Revisions
  <2>2. CASE f # e
    BY <1>1, <2>2 DEF EscInv, BodyIsLatest
  <2> QED
    BY <2>1, <2>2
<1>4. ASSUME NEW p \in Clients, p # c, RowLocker(request[p])
      PROVE  env'[request[p].env] = env[request[p].env]
  <2>1. request[p].env # e /\ request[p].env \in Envs
    BY <1>4, RequestFields DEF EscInv, Exclusive, RowLocker
  <2> QED
    BY <1>1, <2>1
<1>5. \A f \in Envs, m \in Revisions : env'[f] = NoEnv => revisions'[f][m] = NoText
  BY <1>1, <1>2 DEF EscInv, RowsTrue
<1> QED
  BY <1>1, <1>2, <1>3, <1>4, <1>5

\* The end of a request keeps the types of all requests.
LEMMA AnswerTypes ==
  ASSUME TypeOK, NEW c \in Clients, Answer(c)
  PROVE  request' \in [Clients -> Requests]
BY Remembered DEF Answer, Requests

\* An update writes the row that it has locked.
LEMMA UpdateEnvironmentKeeps ==
  ASSUME EscInv, NEW c \in Clients, NEW t \in Texts, UpdateEnvironment(c, t)
  PROVE  EscInv'
<1>1. /\ RowLocker(request[c]) /\ AddRevision(request[c], t) /\ Answer(c)
      /\ UNCHANGED <<draft, session>>
  BY DEF UpdateEnvironment, RowLocker
<1>2. TypeOK'
  BY <1>1, AddRevisionEffect, AnswerTypes DEF EscInv, TypeOK
<1>3. Advances
  BY <1>1, AddRevisionKeeps, RowColumns, EscAssumption DEF Advances, EscInv, DraftRows
<1>4. Exclusive' /\ RequestsTrue'
  BY <1>1, <1>2, <1>3, AddRevisionKeeps, AnswerKeeps
<1>5. RowsTrue' /\ AppliedAsEdited' /\ BodyIsLatest'
  BY <1>1, <1>3, AddRevisionKeeps, DraftsKeep DEF RowsTrue
<1>6. SessionShowsRevision'
  BY <1>1, <1>3, SessionsKeep
<1> QED
  BY <1>2, <1>4, <1>5, <1>6 DEF EscInv

\* An applied draft is the one that was locked, with the text that was read of it.
LEMMA ApplyDraftKeeps ==
  ASSUME EscInv, NEW c \in Clients, ApplyDraft(c)
  PROVE  EscInv'
<1> DEFINE q == request[c]
           d == q.draft
           n == NextRevision(q)
<1>1. /\ q.op = "apply" /\ q.text \in Texts /\ d \in Drafts /\ q.env \in Envs
      /\ draft[d].env = q.env /\ draft[d].text = q.text /\ draft[d].status = "open"
  BY RequestFields DEF EscInv, RequestsTrue, RequestTrue, ApplyDraft
<1>2. /\ RowLocker(q) /\ LocksDraft(q) /\ AddRevision(q, q.text) /\ Answer(c) /\ UNCHANGED session
  BY <1>1 DEF ApplyDraft, RowLocker, LocksDraft
<1>3. n \in Revisions /\ revisions'[q.env][n] = q.text /\ env[q.env] # NoEnv
  BY <1>1, <1>2, AddRevisionEffect DEF Environments, NoEnv
<1>4. draft[d] \in DraftRows /\ draft \in [Drafts -> {NoDraft} \cup DraftRows]
  BY <1>1, RowColumns DEF EscInv, TypeOK
<1>5. draft' = [draft EXCEPT ![d].status = "applied", ![d].revision = n]
  BY DEF ApplyDraft
<1>6. /\ draft'[d] \in DraftRows /\ draft'[d].status = "applied" /\ draft'[d].revision = n
      /\ draft'[d].env = q.env /\ draft'[d].text = q.text /\ draft'[d].stamp = draft[d].stamp
      /\ draft' \in [Drafts -> {NoDraft} \cup DraftRows]
      /\ \A x \in Drafts : x # d => draft'[x] = draft[x]
  BY <1>1, <1>3, <1>4, <1>5 DEF DraftRows
<1>7. draft[d] # NoDraft /\ draft'[d] # NoDraft
  BY <1>4, <1>6 DEF DraftRows, NoDraft
<1>8. TypeOK'
  BY <1>1, <1>2, <1>6, AddRevisionEffect, AnswerTypes DEF EscInv, TypeOK
<1>9. Advances
  BY <1>1, <1>2, <1>6, <1>7, AddRevisionKeeps, RowColumns, EscAssumption DEF Advances, EscInv, DraftRows
<1>10. ASSUME NEW p \in Clients, p # c, LocksDraft(request[p])
       PROVE  draft'[request[p].draft] = draft[request[p].draft]
  <2>1. request[p].draft # d /\ request[p].draft \in Drafts
    BY <1>2, <1>10, RequestFields DEF EscInv, Exclusive, LocksDraft
  <2> QED
    BY <1>6, <2>1
<1>11. Exclusive' /\ RequestsTrue'
  BY <1>1, <1>2, <1>8, <1>9, <1>10, AddRevisionKeeps, AnswerKeeps
<1>12. ASSUME NEW x \in Drafts, draft'[x] # NoDraft
       PROVE  /\ env'[draft'[x].env] # NoEnv /\ (draft'[x].status = "applied" => draft'[x].revision \in Revisions)
              /\ draft'[x].status = "applied" =>
                    revisions'[draft'[x].env][draft'[x].revision] = draft'[x].text
  <2>1. CASE x = d
    BY <1>1, <1>3, <1>6, <1>9, <2>1 DEF Advances
  <2>2. CASE x # d
    <3>1. draft'[x] = draft[x] /\ draft[x] # NoDraft
      BY <1>6, <1>12, <2>2
    <3>2. draft[x] \in DraftRows /\ env[draft[x].env] # NoEnv
          /\ (draft[x].status = "applied" => draft[x].revision \in Revisions)
      BY <3>1, RowColumns DEF EscInv, RowsTrue
    <3> QED
      BY <1>9, <3>1, <3>2, EscAssumption DEF EscInv, AppliedAsEdited, DraftRows, Advances
  <2> QED
    BY <2>1, <2>2
<1>13. BodyIsLatest' /\ RowsTrue'
  BY <1>1, <1>2, <1>12, AddRevisionKeeps DEF RowsTrue
<1>14. AppliedAsEdited'
  BY <1>8, <1>12 DEF AppliedAsEdited, TypeOK, NoDraft
<1>15. SessionShowsRevision'
  BY <1>2, <1>9, SessionsKeep
<1> QED
  BY <1>8, <1>11, <1>13, <1>14, <1>15 DEF EscInv

\* A row that is deleted had no lock on it, and keeps its text.
LEMMA DeleteEnvironmentKeeps ==
  ASSUME EscInv, NEW c \in Clients, DeleteEnvironment(c)
  PROVE  EscInv'
<1> DEFINE e == request[c].env
<1>1. e \in Envs /\ ~env[e].deleted /\ RowFree(e) /\ Answer(c) /\ UNCHANGED <<revisions, draft, session>>
  BY RequestFields DEF EscInv, DeleteEnvironment
<1>2. env[e] \in Environments /\ env \in [Envs -> {NoEnv} \cup Environments]
  BY <1>1, FoundRow DEF EscInv, Found, TypeOK
<1>3. env' = [env EXCEPT ![e].deleted = TRUE]
  BY DEF DeleteEnvironment
<1>4. /\ env'[e] \in Environments /\ env'[e].text = env[e].text /\ env'[e].current = env[e].current
      /\ env' \in [Envs -> {NoEnv} \cup Environments]
      /\ \A f \in Envs : f # e => env'[f] = env[f]
  BY <1>1, <1>2, <1>3 DEF Environments
<1>5. env[e] # NoEnv /\ env'[e] # NoEnv
  BY <1>2, <1>4 DEF Environments, NoEnv
<1>6. TypeOK'
  BY <1>1, <1>4, AnswerTypes DEF EscInv, TypeOK
<1>7. Advances
  BY <1>1, <1>4, <1>5, RowColumns, EscAssumption DEF Advances, EscInv, DraftRows
<1>8. ASSUME NEW p \in Clients, RowLocker(request[p]) PROVE env'[request[p].env] = env[request[p].env]
  <2>1. request[p].env # e /\ request[p].env \in Envs
    BY <1>1, <1>8, RequestFields DEF EscInv, RowFree, RowLocker
  <2> QED
    BY <1>4, <2>1
<1>9. Exclusive' /\ RequestsTrue'
  BY <1>1, <1>6, <1>7, <1>8, AnswerKeeps
<1>10. RowsTrue' /\ AppliedAsEdited'
  BY <1>1, <1>4, <1>5, <1>7, DraftsKeep DEF RowsTrue, EscInv
<1>11. BodyIsLatest'
  BY <1>1, <1>4, <1>5 DEF EscInv, BodyIsLatest
<1>12. SessionShowsRevision'
  BY <1>1, <1>7, SessionsKeep
<1> QED
  BY <1>6, <1>9, <1>10, <1>11, <1>12 DEF EscInv

\* An edit has a later stamp, unless the two fall into one millisecond.
NotOlder(new, old) ==
    old # NoDraft => /\ old.stamp <= new.stamp
                     /\ ~Coarse /\ new.stamp = old.stamp => new.text = old.text

\* What only writes one draft, that no other request has locked, and applies none.
LEMMA DraftWriteKeeps ==
  ASSUME EscInv, NEW c \in Clients, Answer(c), UNCHANGED <<env, revisions, session>>,
         NEW d \in Drafts, NEW new \in DraftRows, draft' = [draft EXCEPT ![d] = new],
         new.status # "applied", env[new.env] # NoEnv,
         NotOlder(new, draft[d]),
         \A p \in Clients : p # c /\ LocksDraft(request[p]) => request[p].draft # d
  PROVE  EscInv'
<1>1. draft \in [Drafts -> {NoDraft} \cup DraftRows] /\ new # NoDraft
  BY DEF EscInv, TypeOK, DraftRows, NoDraft
<1>2. draft'[d] = new /\ \A x \in Drafts : x # d => draft'[x] = draft[x]
  BY <1>1
<1>3. TypeOK'
  BY <1>1, AnswerTypes DEF EscInv, TypeOK
<1>4. Advances
  BY <1>1, <1>2, RowColumns, EscAssumption DEF Advances, EscInv, DraftRows, NotOlder
<1>5. ASSUME NEW p \in Clients, p # c, LocksDraft(request[p])
      PROVE  draft'[request[p].draft] = draft[request[p].draft]
  BY <1>2, <1>5, RequestFields DEF EscInv, LocksDraft
<1>6. Exclusive' /\ RequestsTrue'
  BY <1>3, <1>4, <1>5, AnswerKeeps
<1>7. RowsTrue' /\ AppliedAsEdited'
  BY <1>1, <1>2 DEF EscInv, RowsTrue, AppliedAsEdited
<1>8. BodyIsLatest' /\ SessionShowsRevision'
  BY DEF EscInv, BodyIsLatest, SessionShowsRevision
<1> QED
  BY <1>3, <1>6, <1>7, <1>8 DEF EscInv

\* A draft that a request has locked is a row, open, and locked by no other.
LEMMA LockedDraft ==
  ASSUME EscInv, NEW c \in Clients, LocksDraft(request[c])
  PROVE  LET d == request[c].draft IN
         /\ d \in Drafts /\ draft[d] \in DraftRows /\ draft[d] # NoDraft /\ draft[d].status = "open"
         /\ env[draft[d].env] # NoEnv
         /\ \A p \in Clients : p # c /\ LocksDraft(request[p]) => request[p].draft # d
<1>1. request[c].draft \in Drafts /\ draft[request[c].draft].status = "open"
  BY RequestFields DEF EscInv, RequestsTrue, RequestTrue, LocksDraft
<1>2. draft[request[c].draft] \in DraftRows /\ draft[request[c].draft] # NoDraft
  BY <1>1, RowColumns DEF EscInv
<1> QED
  BY <1>1, <1>2 DEF EscInv, Exclusive, RowsTrue

\* A new draft takes a free place, which nobody has locked.
LEMMA CreateDraftKeeps ==
  ASSUME EscInv, NEW c \in Clients, NEW t \in Texts, CreateDraft(c, t)
  PROVE  EscInv'
<1> DEFINE new == [env |-> request[c].env, text |-> t, status |-> "open", revision |-> 0, stamp |-> 0]
<1>1. PICK d \in Drafts : draft[d] = NoDraft /\ draft' = [draft EXCEPT ![d] = new]
  BY DEF CreateDraft, NextRow, EscInv, TypeOK
<1>2. request[c].env \in Envs /\ env[request[c].env] # NoEnv
  BY RequestFields DEF EscInv, RequestsTrue, RequestTrue, CreateDraft
<1>3. new \in DraftRows
  BY <1>2, EscAssumption DEF DraftRows
<1>4. \A p \in Clients : LocksDraft(request[p]) => request[p].draft # d
  BY <1>1, LockedDraft
<1> QED
  BY <1>1, <1>2, <1>3, <1>4, DraftWriteKeeps DEF CreateDraft, NotOlder

\* What writes a draft has locked it.
LEMMA WriteDraftKeeps ==
  ASSUME EscInv, NEW c \in Clients, DiscardDraft(c) \/ \E t \in Texts : UpdateDraft(c, t)
  PROVE  EscInv'
<1>1. LocksDraft(request[c])
  BY DEF DiscardDraft, UpdateDraft, LocksDraft
<1>2. PICK d \in Drafts :
        /\ d = request[c].draft /\ draft[d] \in DraftRows /\ draft[d] # NoDraft
        /\ env[draft[d].env] # NoEnv
        /\ \A p \in Clients : p # c /\ LocksDraft(request[p]) => request[p].draft # d
  BY <1>1, LockedDraft
<1>3. draft[d].stamp \in Nat /\ draft \in [Drafts -> {NoDraft} \cup DraftRows]
  BY <1>2, EscAssumption DEF DraftRows, EscInv, TypeOK
<1>4. CASE DiscardDraft(c)
  <2>1. PICK new \in DraftRows :
          /\ draft' = [draft EXCEPT ![d] = new]
          /\ new.status # "applied" /\ new.env = draft[d].env
          /\ new.stamp = draft[d].stamp /\ new.text = draft[d].text
    <3> DEFINE new == [draft[d] EXCEPT !.status = "discarded"]
    <3>1. new \in DraftRows /\ draft' = [draft EXCEPT ![d] = new]
      BY <1>2, <1>3, <1>4 DEF DiscardDraft, DraftRows
    <3>2. /\ new.status # "applied" /\ new.env = draft[d].env
          /\ new.stamp = draft[d].stamp /\ new.text = draft[d].text
      BY <1>2 DEF DraftRows
    <3> QED
      BY <3>1, <3>2
  <2>2. Answer(c) /\ UNCHANGED <<env, revisions, session>>
    BY <1>4 DEF DiscardDraft
  <2>3. env[new.env] # NoEnv /\ NotOlder(new, draft[d])
    BY <1>2, <1>3, <2>1 DEF NotOlder
  <2> QED
    BY <1>2, <2>1, <2>2, <2>3, DraftWriteKeeps
<1>5. ASSUME NEW t \in Texts, UpdateDraft(c, t) PROVE EscInv'
  <2>1. PICK at \in {draft[d].stamp + 1} \cup (IF Coarse THEN {draft[d].stamp} ELSE {}) :
          at <= MaxStamp /\ draft' = [draft EXCEPT ![d].text = t, ![d].stamp = at]
    BY <1>2, <1>5 DEF UpdateDraft
  <2>2. at \in 0..MaxStamp /\ draft[d].stamp <= at /\ (~Coarse => at # draft[d].stamp)
    BY <1>3, <2>1, EscAssumption
  <2>3. PICK new \in DraftRows :
          /\ draft' = [draft EXCEPT ![d] = new]
          /\ new.status # "applied" /\ new.env = draft[d].env /\ new.stamp = at
    <3> DEFINE new == [draft[d] EXCEPT !.text = t, !.stamp = at]
    <3>1. new \in DraftRows /\ draft' = [draft EXCEPT ![d] = new]
      BY <1>2, <1>3, <2>1, <2>2 DEF DraftRows
    <3>2. new.status # "applied" /\ new.env = draft[d].env /\ new.stamp = at
      BY <1>2, <1>5 DEF DraftRows, UpdateDraft
    <3> QED
      BY <3>1, <3>2
  <2>4. Answer(c) /\ UNCHANGED <<env, revisions, session>>
    BY <1>5 DEF UpdateDraft
  <2>5. env[new.env] # NoEnv /\ NotOlder(new, draft[d])
    BY <1>2, <2>2, <2>3 DEF NotOlder
  <2> QED
    BY <1>2, <2>3, <2>4, <2>5, DraftWriteKeeps
<1> QED
  BY <1>4, <1>5

\* A session is stored with the text and the number that were read together.
LEMMA OpenSessionKeeps ==
  ASSUME EscInv, NEW c \in Clients, OpenSession(c)
  PROVE  EscInv'
<1> DEFINE q == request[c]
           new == [env |-> q.env, revision |-> q.current, text |-> q.text, status |-> "open"]
<1>1. PICK s \in Sessions : session' = [session EXCEPT ![s] = new]
  BY DEF OpenSession, NextRow, Evaluated, EscInv, TypeOK
<1>2. new \in SessionRows /\ revisions[new.env][new.revision] = new.text
  BY RequestFields DEF SessionRows, EscInv, RequestsTrue, RequestTrue, OpenSession
<1>3. session \in [Sessions -> {NoSession} \cup SessionRows] /\ UNCHANGED <<env, revisions, draft>> /\ Answer(c)
  BY DEF OpenSession, EscInv, TypeOK
<1>4. TypeOK'
  BY <1>1, <1>2, <1>3, AnswerTypes DEF EscInv, TypeOK
<1>5. Advances
  BY <1>3, RowColumns, EscAssumption DEF Advances, EscInv, DraftRows
<1>6. Exclusive' /\ RequestsTrue'
  BY <1>3, <1>4, <1>5, AnswerKeeps
<1>7. SessionShowsRevision'
  BY <1>1, <1>2, <1>3 DEF EscInv, SessionShowsRevision
<1> QED
  BY <1>3, <1>4, <1>6, <1>7 DEF EscInv, RowsTrue, BodyIsLatest, AppliedAsEdited

\* Expiry and sweeps write the status of sessions, and nothing else.
LEMMA SweepKeeps ==
  ASSUME EscInv, GcSweep \/ \E s \in Sessions : Expire(s)
  PROVE  EscInv'
<1>1. UNCHANGED <<env, revisions, draft, request>>
  BY DEF GcSweep, Expire
<1>2. \A s \in Sessions : session[s].status \in {"open", "expired"} => session[s] \in SessionRows
  BY DEF EscInv, TypeOK, NoSession
<1>3. /\ session' \in [Sessions -> {NoSession} \cup SessionRows]
      /\ \A s \in Sessions : session'[s] # NoSession =>
            /\ session[s] # NoSession
            /\ session'[s].env = session[s].env /\ session'[s].revision = session[s].revision
            /\ session'[s].text = session[s].text
  <2>1. session \in [Sessions -> {NoSession} \cup SessionRows]
    BY DEF EscInv, TypeOK
  <2>2. CASE \E s \in Sessions : Expire(s)
    BY <1>2, <2>1, <2>2 DEF Expire, SessionRows, NoSession
  <2>3. CASE GcSweep
    <3>1. PICK batch \in SUBSET Expired :
            session' = [s \in Sessions |-> IF s \in batch THEN [session[s] EXCEPT !.status = "closed"]
                                                          ELSE session[s]]
      BY <2>3 DEF GcSweep
    <3>2. \A s \in batch : session[s] \in SessionRows /\ session[s] # NoSession
      BY <1>2, <3>1 DEF Expired, SessionRows, NoSession
    <3> QED
      BY <2>1, <3>1, <3>2 DEF SessionRows
  <2> QED
    BY <2>2, <2>3
<1>4. TypeOK'
  BY <1>1, <1>3 DEF EscInv, TypeOK
<1>5. Advances
  BY <1>1, RowColumns, EscAssumption DEF Advances, EscInv, DraftRows
<1>6. Exclusive' /\ RequestsTrue'
  BY <1>1, <1>4, <1>5, OtherRequest DEF EscInv, Exclusive, RequestsTrue
<1>7. SessionShowsRevision'
  BY <1>1, <1>3 DEF EscInv, SessionShowsRevision
<1> QED
  BY <1>1, <1>4, <1>6, <1>7 DEF EscInv, RowsTrue, BodyIsLatest, AppliedAsEdited

-----------------------------------------------------------------------------
(* Theorems. *)

\* Every step keeps the invariant.
LEMMA EscStep == EscInv /\ [Next]_vars => EscInv'
<1> SUFFICES ASSUME EscInv, [Next]_vars PROVE EscInv'
  OBVIOUS
<1>1. ASSUME NEW n \in Names, NEW t \in Texts, CreateEnvironment(n, t) PROVE EscInv'
  BY <1>1, CreateEnvironmentKeeps
<1>2. ASSUME NEW c \in Clients, NEW e \in Envs,
             \/ GetEnvironment(c, e) \/ FindForDelete(c, e)
             \/ FindForDraft(c, e) \/ FindForSession(c, e)
      PROVE  EscInv'
  BY <1>2, FindKeeps
<1>3. ASSUME NEW c \in Clients, NEW e \in Envs,
             \/ LockRow(c, e) \/ LockRowIfMatch(c, e) \/ \E d \in Drafts : LockRowToApply(c, e, d)
      PROVE  EscInv'
  BY <1>3, LockRowKeeps
<1>4. ASSUME NEW c \in Clients, NEW d \in Drafts,
             GetDraft(c, d) \/ \E op \in {"revise", "discard"} : FindEnvironment(c, d, op)
      PROVE  EscInv'
  BY <1>4, DraftReadKeeps
<1>5. ASSUME NEW c \in Clients, LockDraft(c) \/ LockDraftToApply(c) PROVE EscInv'
  BY <1>5, LockDraftKeeps
<1>6. ASSUME NEW c \in Clients, Fail(c) PROVE EscInv'
  BY <1>6, FailKeeps
<1>7. ASSUME NEW c \in Clients, NEW t \in Texts, UpdateEnvironment(c, t) PROVE EscInv'
  BY <1>7, UpdateEnvironmentKeeps
<1>8. ASSUME NEW c \in Clients, NEW t \in Texts, CreateDraft(c, t) PROVE EscInv'
  BY <1>8, CreateDraftKeeps
<1>9. ASSUME NEW c \in Clients, DiscardDraft(c) \/ \E t \in Texts : UpdateDraft(c, t) PROVE EscInv'
  BY <1>9, WriteDraftKeeps
<1>10. ASSUME NEW c \in Clients, DeleteEnvironment(c) PROVE EscInv'
  BY <1>10, DeleteEnvironmentKeeps
<1>11. ASSUME NEW c \in Clients, ApplyDraft(c) PROVE EscInv'
  BY <1>11, ApplyDraftKeeps
<1>12. ASSUME NEW c \in Clients, OpenSession(c) PROVE EscInv'
  BY <1>12, OpenSessionKeeps
<1>13. CASE GcSweep \/ \E s \in Sessions : Expire(s)
  BY <1>13, SweepKeeps
<1>14. CASE UNCHANGED vars
  <2>1. UNCHANGED <<env, revisions, draft, session, request>>
    BY <1>14 DEF vars
  <2>2. TypeOK'
    BY <2>1 DEF EscInv, TypeOK
  <2>3. Advances
    BY <2>1, RowColumns, EscAssumption DEF Advances, EscInv, DraftRows
  <2>4. Exclusive' /\ RequestsTrue'
    BY <2>1, <2>2, <2>3, OtherRequest DEF EscInv, Exclusive, RequestsTrue
  <2> QED
    BY <2>1, <2>2, <2>4 DEF EscInv, RowsTrue, BodyIsLatest, AppliedAsEdited, SessionShowsRevision
<1> QED
  BY <1>1, <1>2, <1>3, <1>4, <1>5, <1>6, <1>7, <1>8, <1>9, <1>10, <1>11, <1>12, <1>13, <1>14 DEF Next

\* Rows, drafts, sessions and what the requests remember of them agree, whatever
\* requests race.
THEOREM EscInvariance == Spec => []EscInv
<1>1. Init => EscInv
  <2> SUFFICES ASSUME Init PROVE EscInv
    OBVIOUS
  <2>1. Idle \in Requests /\ RequestTrue(Idle) /\ ~RowLocker(Idle) /\ ~LocksDraft(Idle)
    BY DEF Requests, RequestTrue, RowLocker, LocksDraft, Idle
  <2>2. TypeOK
    BY <2>1 DEF Init, TypeOK
  <2>3. Exclusive /\ RequestsTrue
    BY <2>1 DEF Init, Exclusive, RequestsTrue
  <2>4. RowsTrue /\ BodyIsLatest /\ AppliedAsEdited /\ SessionShowsRevision
    BY DEF Init, RowsTrue, BodyIsLatest, AppliedAsEdited, SessionShowsRevision, NoDraft
  <2> QED
    BY <2>2, <2>3, <2>4 DEF EscInv
<1> QED
  BY <1>1, EscStep, PTL DEF Spec

\* The body of a row is its latest revision's text, and numbers have no gap.
THEOREM BodyAlwaysLatest == Spec => []BodyIsLatest
<1>1. EscInv => BodyIsLatest
  BY DEF EscInv
<1> QED
  BY <1>1, EscInvariance, PTL

\* A draft is applied with its last text.
THEOREM DraftsAppliedAsEdited == Spec => []AppliedAsEdited
<1>1. EscInv => AppliedAsEdited
  BY DEF EscInv
<1> QED
  BY <1>1, EscInvariance, PTL

\* A session shows the revision it names.
THEOREM SessionsShowRevision == Spec => []SessionShowsRevision
<1>1. EscInv => SessionShowsRevision
  BY DEF EscInv
<1> QED
  BY <1>1, EscInvariance, PTL

\* A write with an ETag replaces what its author has read.
THEOREM EditsAsRead == Spec => EditsReplaceWhatWasRead
<1> DEFINE Replaces(c) == LET q == request[c] IN
             /\ (\E t \in Texts : UpdateEnvironment(c, t)) /\ q.from = q.env =>
                   env[q.env].text = q.seen
             /\ (\E t \in Texts : UpdateDraft(c, t)) /\ q.tag # -1 /\ ~Coarse =>
                   draft[q.draft].text = q.seen
<1>1. ASSUME EscInv, NEW c \in Clients PROVE Replaces(c)
  <2> DEFINE q == request[c]
  <2>1. ASSUME NEW t \in Texts, UpdateEnvironment(c, t), q.from = q.env PROVE env[q.env].text = q.seen
    <3>1. q.env \in Envs /\ ~env[q.env].deleted /\ revisions[q.env][q.expected] = q.seen
      BY <1>1, <2>1, RequestFields DEF EscInv, RequestsTrue, RequestTrue, RowLocker, UpdateEnvironment
    <3>2. env[q.env] # NoEnv
      BY <1>1, <3>1, FoundRow DEF EscInv, Found
    <3> QED
      BY <1>1, <2>1, <3>1, <3>2 DEF EscInv, BodyIsLatest, UpdateEnvironment, Matches
  <2>2. ASSUME NEW t \in Texts, UpdateDraft(c, t), q.tag # -1, ~Coarse PROVE draft[q.draft].text = q.seen
    BY <1>1, <2>2 DEF EscInv, RequestsTrue, RequestTrue, StillSeen, UpdateDraft
  <2> QED
    BY <2>1, <2>2
<1>2. EscInv => [\A c \in Clients : Replaces(c)]_vars
  BY <1>1
<1> QED
  BY <1>2, EscInvariance, PTL DEF EditsReplaceWhatWasRead

\* Nothing writes to a row that is deleted, by whatever name it was found.
THEOREM DeletedStayFrozen == Spec => DeletedFrozen
<1>1. ASSUME EscInv, [Next]_vars, NEW e \in Envs, env[e] # NoEnv, env[e].deleted
      PROVE  env'[e] = env[e] /\ revisions'[e] = revisions[e]
  <2>1. /\ env \in [Envs -> {NoEnv} \cup Environments]
        /\ revisions \in [Envs -> [Revisions -> Texts \cup {NoText}]]
    BY <1>1 DEF EscInv, TypeOK
  <2>2. ASSUME NEW n \in Names, NEW t \in Texts, CreateEnvironment(n, t)
        PROVE  env'[e] = env[e] /\ revisions'[e] = revisions[e]
    <3>1. PICK f \in Envs : /\ env[f] = NoEnv
                            /\ env' = [env EXCEPT ![f] = [name |-> n, text |-> t, current |-> 1,
                                                          deleted |-> FALSE]]
                            /\ revisions' = [revisions EXCEPT ![f][1] = t]
      BY <2>1, <2>2 DEF CreateEnvironment, NextRow
    <3> QED
      BY <1>1, <2>1, <3>1
  <2>3. ASSUME NEW c \in Clients, ApplyDraft(c) \/ \E t \in Texts : UpdateEnvironment(c, t)
        PROVE  env'[e] = env[e] /\ revisions'[e] = revisions[e]
    <3>1. \E t \in Texts : AddRevision(request[c], t) /\ RowLocker(request[c])
      BY <1>1, <2>3, RequestFields DEF ApplyDraft, UpdateEnvironment, RowLocker, EscInv
    <3> QED
      BY <1>1, <3>1, AddRevisionEffect
  <2>4. ASSUME NEW c \in Clients, DeleteEnvironment(c)
        PROVE  env'[e] = env[e] /\ revisions'[e] = revisions[e]
    BY <1>1, <2>1, <2>4 DEF DeleteEnvironment
  <2>5. CASE UNCHANGED <<env, revisions>>
    BY <2>5
  <2> QED
    BY <1>1, <2>2, <2>3, <2>4, <2>5
       DEF Next, vars, GetEnvironment, FindForDelete, FindForDraft, FindForSession, LockRow,
           LockRowIfMatch, LockRowToApply, CreateDraft, UpdateDraft, GetDraft, FindEnvironment,
           LockDraft, DiscardDraft, LockDraftToApply, OpenSession, Fail, Expire, GcSweep
<1>2. EscInv /\ [Next]_vars =>
        [\A e \in Envs : env[e] # NoEnv /\ env[e].deleted =>
           env'[e] = env[e] /\ revisions'[e] = revisions[e]]_vars
  BY <1>1
<1> QED
  BY <1>2, EscInvariance, PTL DEF Spec, DeletedFrozen

=============================================================================
