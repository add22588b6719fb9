------------------------- MODULE Deployments_proofs --------------------------
(***************************************************************************)
(* Proofs about how a whole deployment is kept, changed and repaired, for  *)
(* any number of checkpoints, resources and edits: what is stored can be   *)
(* read and is what the client was told, as long as no world has both      *)
(* kinds of fault; a repair keeps what was sound and leaves nothing to     *)
(* repair; and a delta of text edits gives the text that its edits say.    *)
(***************************************************************************)
EXTENDS DeltaCheckpoint, CheckpointRepair, TextEdits, Induction_proofs

-----------------------------------------------------------------------------
(* Delta checkpoints. *)

\* The client is one number ahead of the checkpoints at most, and nobody is
\* ahead of the client.
InStep ==
    /\ client.seq <= Len(rows) + 1
    /\ client.accepted => client.seq <= Len(rows)
    /\ \A q \in sent : q.seq <= client.seq

RowsSent ==
    \A v \in 1..Len(rows) :
        /\ rows[v].seq = v
        /\ \E q \in sent : q.seq = v /\ q.text = rows[v].text

\* The baseline is the newest checkpoint, and there as long as the update runs.
HeadBase ==
    /\ base # NoBase => rows # <<>> /\ base = rows[Len(rows)]
    /\ updateStatus = "running" /\ rows # <<>> => base # NoBase

\* The transaction makes the checkpoint of the next number.
TxNext ==
    tx # NoTx =>
        /\ updateStatus = "running" /\ tx.request \in sent
        /\ tx.request.seq = Len(rows) + 1

AnswersStored == \A r \in replies : r.ok => r.seq <= Len(rows)

\* A client that waits for an answer has asked for something.
Asking == ~client.accepted => client.seq \in Seqs /\ client.text \in Texts

SaveInv == DeltaTypeOK /\ Asking /\ InStep /\ RowsSent /\ HeadBase /\ TxNext /\ AnswersStored

-----------------------------------------------------------------------------
(* Types. *)

\* The key of a put and those of superseded baselines are keys.
LEMMA KeysTyped ==
  ASSUME DeltaTypeOK
  PROVE  /\ \A n \in 1..MaxSeq : VersionKey(n) \in Keys /\ BaseKey(n) \in Keys
         /\ BaseBlob \subseteq Keys
         /\ \A q : Superseded(q) = BaseBlob
<1>1. \A n \in 1..MaxSeq : VersionKey(n) \in Keys /\ BaseKey(n) \in Keys
  BY DEF VersionKey, BaseKey, Keys, Versions, Seqs
<1>2. BaseBlob \subseteq Keys
  BY <1>1 DEF BaseBlob, DeltaTypeOK, Seqs
<1> QED
  BY <1>1, <1>2 DEF Superseded

\* The client's fields, as it saves, gives up and hears.
LEMMA ClientTyped ==
  ASSUME DeltaTypeOK
  PROVE  /\ client.seq \in 0..MaxSeq /\ client.text \in Texts \cup {NoText}
         /\ client.accepted \in BOOLEAN /\ client.base \in Texts \cup {NoText}
         /\ client = [seq |-> client.seq, text |-> client.text,
                      accepted |-> client.accepted, base |-> client.base]
BY DEF DeltaTypeOK

\* A request of the client is one.
LEMMA RequestTyped ==
  ASSUME DeltaTypeOK, NEW n \in Seqs, NEW t \in Texts
  PROVE  Verbatim(n, t) \in SaveRequests /\ Attempt(n, t) \in SaveRequests
BY ClientTyped DEF Attempt, Verbatim, Delta, SaveRequests

\* Every step keeps the rows, the store, the requests and the client well typed.
LEMMA DeltaTypes == SaveInv /\ [DeltaNext]_deltaVars => DeltaTypeOK' /\ Asking'
<1> SUFFICES ASSUME SaveInv, [DeltaNext]_deltaVars
             PROVE  DeltaTypeOK' /\ Asking'
  OBVIOUS
<1>0. DeltaTypeOK /\ Asking /\ MaxSeq \in Nat /\ Len(rows) \in Nat
  BY NullsAssumption DEF SaveInv, DeltaTypeOK
<1>1. ASSUME NEW t \in Texts, Save(t) PROVE DeltaTypeOK' /\ Asking'
  <2>1. client.seq + 1 \in Seqs
    <3>1. faults.saves \in 0..MaxSeq
      BY <1>0, NullsAssumption DEF DeltaTypeOK
    <3> QED
      BY <1>0, <1>1, <3>1, ClientTyped DEF Save, Seqs
  <2>2. client' = [seq |-> client.seq + 1, text |-> t, accepted |-> FALSE, base |-> client.base]
    BY <1>0, <1>1, ClientTyped DEF Save
  <2>3. Attempt(client.seq + 1, t) \in SaveRequests
    BY <1>0, <2>1, RequestTyped
  <2>4. client' \in [seq : 0..MaxSeq, text : Texts \cup {NoText}, accepted : BOOLEAN,
                     base : Texts \cup {NoText}]
    BY <1>0, <2>1, <2>2, ClientTyped DEF Seqs
  <2>5. Asking'
    BY <2>1, <2>2 DEF Asking, Seqs
  <2> QED
    BY <1>0, <1>1, <2>3, <2>4, <2>5 DEF Save, DeltaTypeOK, db
<1>2. ASSUME FallBack PROVE DeltaTypeOK' /\ Asking'
  <2>1. Verbatim(client.seq, client.text) \in SaveRequests
    BY <1>0, <1>2, RequestTyped DEF FallBack, Asking
  <2> QED
    BY <1>0, <1>2, <2>1 DEF FallBack, DeltaTypeOK, Asking, db
<1>3. ASSUME NEW t \in Texts, GiveUp(t) PROVE DeltaTypeOK' /\ Asking'
  <2>1. client.seq \in Seqs /\ Attempt(client.seq, t) \in SaveRequests
    BY <1>0, <1>3, RequestTyped DEF GiveUp, Asking
  <2>2. client' = [seq |-> client.seq, text |-> t, accepted |-> client.accepted, base |-> client.base]
    BY <1>0, <1>3, ClientTyped DEF GiveUp
  <2> QED
    BY <1>0, <1>3, <2>1, <2>2, ClientTyped DEF GiveUp, DeltaTypeOK, Asking, db
<1>4. ASSUME HearSuccess PROVE DeltaTypeOK' /\ Asking'
  <2>1. client' = [seq |-> client.seq, text |-> client.text, accepted |-> TRUE, base |-> client.text]
    BY <1>0, <1>4, ClientTyped DEF HearSuccess
  <2> QED
    BY <1>0, <1>4, <2>1, ClientTyped DEF HearSuccess, DeltaTypeOK, Asking, db
<1>5. ASSUME NEW q \in sent, NEW ok \in BOOLEAN, Answer(q, ok) PROVE DeltaTypeOK' /\ Asking'
  <2>1. q.seq \in Seqs /\ q.text \in Texts
    BY <1>0 DEF DeltaTypeOK, SaveRequests
  <2> QED
    BY <1>0, <1>5, <2>1 DEF Answer, DeltaTypeOK, Asking, db
<1>6. ASSUME NEW q \in sent, BeginSave(q) PROVE DeltaTypeOK' /\ Asking'
  <2>1. q \in SaveRequests
    BY <1>0 DEF DeltaTypeOK
  <2> QED
    BY <1>0, <1>6, <2>1 DEF BeginSave, DeltaTypeOK, Asking, db
<1>7. ASSUME Put PROVE DeltaTypeOK' /\ Asking'
  <2>1. /\ tx \in [request : SaveRequests, next : {"canonical", "base", "commit"}]
        /\ tx.request.text \in Texts
    BY <1>0, <1>7 DEF Put, DeltaTypeOK, SaveRequests
  <2>2. tx' \in [request : SaveRequests, next : {"canonical", "base", "commit"}]
    BY <1>7, <2>1 DEF Put
  <2>3. blobs' \in [Keys -> Texts \cup {NoText}]
    BY <1>0, <1>7, <2>1 DEF Put, DeltaTypeOK
  <2> QED
    BY <1>0, <1>7, <2>2, <2>3 DEF Put, DeltaTypeOK, Asking, db
<1>8. ASSUME Commit PROVE DeltaTypeOK' /\ Asking'
  <2>1. /\ tx.request.seq \in Seqs /\ tx.request.text \in Texts
        /\ tx.request.seq = Len(rows) + 1
    BY <1>0, <1>8 DEF Commit, DeltaTypeOK, SaveRequests, SaveInv, TxNext
  <2> DEFINE row == [seq |-> tx.request.seq, text |-> tx.request.text]
  <2>2. row \in [seq : Seqs, text : Texts]
    BY <2>1
  <2>3. rows' \in Seq([seq : Seqs, text : Texts]) /\ Len(rows') <= MaxSeq
    BY <1>0, <1>8, <2>1, <2>2, AppendProperties DEF Commit, DeltaTypeOK, Seqs
  <2>4. base' \in [seq : Seqs, text : Texts]
    BY <1>8, <2>2 DEF Commit, NewBase
  <2>5. cleanup' \in SUBSET Keys
    BY <1>0, <1>8, KeysTyped DEF Commit, DeltaTypeOK
  <2>6. replies' \in SUBSET [seq : Seqs, text : Texts, ok : BOOLEAN]
    <3>1. [seq |-> tx.request.seq, text |-> tx.request.text, ok |-> TRUE]
             \in [seq : Seqs, text : Texts, ok : BOOLEAN]
      BY <2>1
    <3> QED
      BY <1>0, <1>8, <3>1 DEF Commit, DeltaTypeOK
  <2> QED
    BY <1>0, <1>8, <2>3, <2>4, <2>5, <2>6 DEF Commit, DeltaTypeOK, Asking
<1>9. ASSUME Abort PROVE DeltaTypeOK' /\ Asking'
  <2>1. tx.next # "commit" => PutKey \in Keys /\ tx.request.text \in Texts
    <3>1. tx.request.seq \in Seqs /\ tx.request.text \in Texts /\ tx.request.seq = Len(rows) + 1
      BY <1>0, <1>9 DEF Abort, DeltaTypeOK, SaveRequests, SaveInv, TxNext
    <3> QED
      BY <1>0, <3>1, KeysTyped DEF PutKey, NextVersion, Seqs
  <2> QED
    BY <1>0, <1>9, <2>1 DEF Abort, DeltaTypeOK, Asking, db
<1>10. ASSUME NEW p \in late, LandLatePut(p) PROVE DeltaTypeOK' /\ Asking'
  BY <1>0, <1>10 DEF LandLatePut, DeltaTypeOK, Asking, db
<1>11. ASSUME NEW k \in cleanup, Delete(k) \/ LoseDelete(k) PROVE DeltaTypeOK' /\ Asking'
  BY <1>0, <1>11 DEF Delete, LoseDelete, DeltaTypeOK, Asking, db
<1>12. ASSUME Complete \/ Cancel PROVE DeltaTypeOK' /\ Asking'
  BY <1>0, <1>12, KeysTyped DEF Complete, Cancel, RemoveBase, DeltaTypeOK, Asking
<1>13. ASSUME Collect PROVE DeltaTypeOK' /\ Asking'
  BY <1>0, <1>13 DEF Collect, DeltaTypeOK, Asking
<1>14. CASE UNCHANGED deltaVars
  BY <1>0, <1>14 DEF deltaVars, DeltaTypeOK, Asking
<1> QED
  BY <1>1, <1>2, <1>3, <1>4, <1>5, <1>6, <1>7, <1>8, <1>9, <1>10, <1>11, <1>12, <1>13, <1>14
  DEF DeltaNext, Replay, Conflict
-----------------------------------------------------------------------------
(* One checkpoint for each number. *)

\* The fields of requests, rows and answers.
LEMMA FieldsTyped ==
  ASSUME DeltaTypeOK
  PROVE  /\ MaxSeq \in Nat /\ Len(rows) \in Nat
         /\ \A q \in sent : q \in SaveRequests /\ q.seq \in Seqs /\ q.text \in Texts
         /\ \A v \in 1..Len(rows) : rows[v].seq \in Seqs /\ rows[v].text \in Texts
         /\ \A r \in replies : r.seq \in Seqs /\ r.text \in Texts /\ r.ok \in BOOLEAN
         /\ rows # <<>> => Len(rows) \in 1..Len(rows)
<1>1. MaxSeq \in Nat /\ Len(rows) \in Nat
  BY NullsAssumption DEF DeltaTypeOK
<1>2. \A q \in sent : q \in SaveRequests /\ q.seq \in Seqs /\ q.text \in Texts
  BY DEF DeltaTypeOK, SaveRequests
<1>3. \A v \in 1..Len(rows) : rows[v].seq \in Seqs /\ rows[v].text \in Texts
  <2>1. \A v \in 1..Len(rows) : rows[v] \in [seq : Seqs, text : Texts]
    BY ElementOfSeq DEF DeltaTypeOK
  <2> QED
    BY <2>1
<1>4. \A r \in replies : r.seq \in Seqs /\ r.text \in Texts /\ r.ok \in BOOLEAN
  BY DEF DeltaTypeOK
<1>5. rows # <<>> => Len(rows) \in 1..Len(rows)
  BY <1>1, EmptySeq DEF DeltaTypeOK
<1> QED
  BY <1>1, <1>2, <1>3, <1>4, <1>5

\* A request that starts a transaction has the next number.
LEMMA NextNumber ==
  ASSUME SaveInv, NEW q \in sent, Locks(q), Decision(q) = "apply"
  PROVE  q.seq = Len(rows) + 1
<1>1. /\ DeltaTypeOK /\ q.seq \in Seqs /\ q.seq <= client.seq /\ client.seq \in Nat
      /\ client.seq <= Len(rows) + 1 /\ Len(rows) \in Nat
  BY FieldsTyped, ClientTyped DEF SaveInv, InStep
<1>2. CASE base = NoBase
  <2>1. rows = <<>>
    BY <1>2 DEF SaveInv, HeadBase, Locks
  <2>2. Len(rows) = 0
    BY <2>1
  <2> QED
    BY <1>1, <2>2 DEF Seqs
<1>3. CASE base # NoBase
  <2>1. base.seq = Len(rows)
    <3>1. rows # <<>> /\ base = rows[Len(rows)]
      BY <1>3 DEF SaveInv, HeadBase
    <3> QED
      BY <1>1, <3>1, FieldsTyped DEF SaveInv, RowsSent
  <2>2. q.seq # base.seq
    <3>1. q.seq = base.seq =>
            Decision(q) = IF StoredText = q.text THEN "replay" ELSE "conflict"
      BY <1>1, <1>3, <2>1, Z3 DEF Decision
    <3> QED
      BY <3>1
  <2>3. q.seq = base.seq + 1
    BY <1>1, <1>3, <2>1, <2>2 DEF Decision
  <2> QED
    BY <2>1, <2>3
<1> QED
  BY <1>2, <1>3

\* A step that leaves the rows and the client's numbers alone.
LEMMA SaveFrame ==
  ASSUME SaveInv, UNCHANGED <<rows, client, sent, replies>>, HeadBase', TxNext'
  PROVE  (InStep /\ RowsSent /\ HeadBase /\ TxNext /\ AnswersStored)'
BY DEF SaveInv, InStep, RowsSent, AnswersStored

\* Every step keeps the numbers in step.
LEMMA SaveStep == SaveInv /\ [DeltaNext]_deltaVars => SaveInv'
<1> SUFFICES ASSUME SaveInv, [DeltaNext]_deltaVars
             PROVE  (InStep /\ RowsSent /\ HeadBase /\ TxNext /\ AnswersStored)'
  BY DeltaTypes DEF SaveInv
<1> DEFINE Good == (InStep /\ RowsSent /\ HeadBase /\ TxNext /\ AnswersStored)'
<1>0. /\ DeltaTypeOK /\ InStep /\ RowsSent /\ HeadBase /\ TxNext /\ AnswersStored
      /\ client.seq \in Nat /\ Len(rows) \in Nat /\ Asking
  BY FieldsTyped, ClientTyped DEF SaveInv
<1>1. ASSUME NEW t \in Texts, Save(t) PROVE Good
  <2>1. /\ client'.seq = client.seq + 1 /\ ~client'.accepted
        /\ rows' = rows /\ UNCHANGED <<updateStatus, base, tx, replies>>
        /\ sent' = sent \cup {Attempt(client.seq + 1, t)} /\ client.accepted
    BY <1>0, <1>1, ClientTyped DEF Save, db
  <2>2. Attempt(client.seq + 1, t).seq = client.seq + 1
    BY DEF Attempt, Verbatim, Delta
  <2>3. InStep'
    BY <1>0, <2>1, <2>2, FieldsTyped DEF InStep, Seqs
  <2> QED
    BY <1>0, <2>1, <2>3 DEF RowsSent, HeadBase, TxNext, AnswersStored
<1>2. ASSUME FallBack PROVE Good
  <2>1. /\ UNCHANGED <<client, rows, updateStatus, base, tx, replies>>
        /\ sent' = sent \cup {Verbatim(client.seq, client.text)}
    BY <1>2 DEF FallBack, db
  <2> QED
    BY <1>0, <2>1 DEF InStep, RowsSent, HeadBase, TxNext, AnswersStored, Verbatim
<1>3. ASSUME NEW t \in Texts, GiveUp(t) PROVE Good
  <2>1. /\ client'.seq = client.seq /\ client'.accepted = client.accepted
        /\ UNCHANGED <<rows, updateStatus, base, tx, replies>>
        /\ sent' = sent \cup {Attempt(client.seq, t)}
    BY <1>0, <1>3, ClientTyped DEF GiveUp, db
  <2>2. Attempt(client.seq, t).seq = client.seq
    BY DEF Attempt, Verbatim, Delta
  <2> QED
    BY <1>0, <2>1, <2>2 DEF InStep, RowsSent, HeadBase, TxNext, AnswersStored
<1>4. ASSUME HearSuccess PROVE Good
  <2>1. /\ client'.seq = client.seq
        /\ UNCHANGED <<rows, updateStatus, base, tx, replies, sent>>
    BY <1>0, <1>4, ClientTyped DEF HearSuccess, db
  <2>2. client.seq <= Len(rows)
    BY <1>0, <1>4 DEF HearSuccess, AnswersStored
  <2> QED
    BY <1>0, <2>1, <2>2 DEF InStep, RowsSent, HeadBase, TxNext, AnswersStored
<1>5. ASSUME NEW q \in sent, Replay(q) \/ Conflict(q) PROVE Good
  <2>1. UNCHANGED <<client, rows, updateStatus, base, tx, sent>>
    BY <1>5 DEF Replay, Conflict, Answer, db
  <2>2. CASE Replay(q)
    <3>1. /\ replies' = replies \cup {[seq |-> q.seq, text |-> q.text, ok |-> TRUE]}
          /\ base # NoBase /\ base.seq = q.seq
      BY <2>2 DEF Replay, Decision, Answer
    <3>2. q.seq = Len(rows)
      BY <1>0, <3>1, FieldsTyped DEF HeadBase, RowsSent
    <3> QED
      BY <1>0, <2>1, <3>1, <3>2 DEF InStep, RowsSent, HeadBase, TxNext, AnswersStored
  <2>3. CASE Conflict(q)
    BY <1>0, <2>1, <2>3 DEF Conflict, Answer, InStep, RowsSent, HeadBase, TxNext, AnswersStored
  <2> QED
    BY <1>5, <2>2, <2>3
<1>6. ASSUME NEW q \in sent, BeginSave(q) PROVE Good
  <2>1. /\ tx'.request = q /\ UNCHANGED <<rows, client, sent, replies, updateStatus, base>>
        /\ updateStatus = "running"
    BY <1>6 DEF BeginSave, Locks, db
  <2>2. q.seq = Len(rows) + 1
    BY <1>6, NextNumber DEF BeginSave
  <2> QED
    BY <1>0, <2>1, <2>2, SaveFrame DEF HeadBase, TxNext
<1>7. ASSUME Put PROVE Good
  <2>1. /\ tx # NoTx /\ tx'.request = tx.request
        /\ UNCHANGED <<rows, client, sent, replies, updateStatus, base>>
    BY <1>0, <1>7 DEF Put, db, DeltaTypeOK
  <2> QED
    BY <1>0, <2>1, SaveFrame DEF HeadBase, TxNext
<1>8. ASSUME Commit PROVE Good
  <2> DEFINE q == tx.request
             row == [seq |-> q.seq, text |-> q.text]
  <2>1. /\ q \in sent /\ q.seq = Len(rows) + 1 /\ updateStatus = "running"
        /\ q.seq <= client.seq
    BY <1>0, <1>8 DEF Commit, TxNext, InStep
  <2>2. /\ rows' = Append(rows, row) /\ base' = row
        /\ replies' = replies \cup {[seq |-> q.seq, text |-> q.text, ok |-> TRUE]}
        /\ tx' = NoTx /\ UNCHANGED <<updateStatus, sent, client>>
    BY <1>8 DEF Commit, NewBase
  <2>3. /\ Len(rows') = Len(rows) + 1 /\ rows'[Len(rows) + 1] = row /\ rows' # <<>>
        /\ \A v \in 1..Len(rows) : rows'[v] = rows[v]
    BY <1>0, <2>2 DEF DeltaTypeOK
  <2>4. base' # NoBase
    BY <1>0, <2>1, <2>2, FieldsTyped, NullsAssumption DEF Seqs
  <2>5. InStep'
    BY <1>0, <2>1, <2>2, <2>3 DEF InStep
  <2>6. RowsSent'
    BY <1>0, <2>1, <2>2, <2>3 DEF RowsSent
  <2>7. HeadBase' /\ TxNext'
    BY <2>2, <2>3, <2>4 DEF HeadBase, TxNext
  <2>8. AnswersStored'
    BY <1>0, <2>1, <2>2, <2>3, FieldsTyped DEF AnswersStored, Seqs
  <2> QED
    BY <2>5, <2>6, <2>7, <2>8
<1>9. ASSUME Abort PROVE Good
  BY <1>0, <1>9, SaveFrame DEF Abort, HeadBase, TxNext, db
<1>10. ASSUME NEW p \in late, LandLatePut(p) PROVE Good
  BY <1>0, <1>10, SaveFrame DEF LandLatePut, HeadBase, TxNext, db
<1>11. ASSUME NEW k \in cleanup, Delete(k) \/ LoseDelete(k) PROVE Good
  BY <1>0, <1>11, SaveFrame DEF Delete, LoseDelete, HeadBase, TxNext, db
<1>12. ASSUME Complete \/ Cancel PROVE Good
  <2>1. /\ base' = NoBase /\ tx' = NoTx /\ updateStatus' # "running"
        /\ UNCHANGED <<rows, client, sent, replies>>
    BY <1>0, <1>12 DEF Complete, Cancel, RemoveBase
  <2> QED
    BY <1>0, <2>1, SaveFrame DEF HeadBase, TxNext
<1>13. ASSUME Collect PROVE Good
  BY <1>0, <1>13, SaveFrame DEF Collect, HeadBase, TxNext
<1>14. CASE UNCHANGED deltaVars
  BY <1>0, <1>14, SaveFrame DEF deltaVars, HeadBase, TxNext
<1> QED
  BY <1>1, <1>2, <1>3, <1>4, <1>5, <1>6, <1>7, <1>8, <1>9, <1>10, <1>11, <1>12, <1>13, <1>14
  DEF DeltaNext

\* At the start there is nothing.
LEMMA SaveStart == DeltaInit => SaveInv
<1> SUFFICES ASSUME DeltaInit PROVE SaveInv
  OBVIOUS
<1>1. Len(rows) = 0 /\ rows \in Seq([seq : Seqs, text : Texts])
  BY EmptySeq DEF DeltaInit
<1>2. DeltaTypeOK
  BY <1>1, NullsAssumption DEF DeltaInit, DeltaTypeOK
<1> QED
  BY <1>1, <1>2, NullsAssumption
  DEF SaveInv, DeltaInit, Asking, InStep, RowsSent, HeadBase, TxNext, AnswersStored

\* The numbers of checkpoints, requests and answers stay in step, whatever
\* transactions fail, puts come late and requests are repeated.
THEOREM SaveInvariance == DeltaSpec => []SaveInv
<1>1. SaveInv /\ [DeltaNext]_deltaVars => SaveInv'
  BY SaveStep
<1> QED
  BY <1>1, SaveStart, PTL DEF DeltaSpec

\* Each number makes one checkpoint, in order and without a gap.
THEOREM OneEach == DeltaSpec => []OneCheckpointPerSave
<1>1. SaveInv => OneCheckpointPerSave
  BY DEF SaveInv, RowsSent, OneCheckpointPerSave
<1> QED
  BY <1>1, SaveInvariance, PTL

-----------------------------------------------------------------------------
(* What is stored can be read, unless a world has both kinds of fault. *)

NoClash == ~(faults.lateput /\ faults.giveup)

\* Without reused numbers the requests of one number carry one text.
OneText ==
    ~faults.giveup =>
        /\ \A q, r \in sent : q.seq = r.seq => q.text = r.text
        /\ \A q \in sent : q.seq = client.seq => q.text = client.text

\* Keys under which the text of number n is written: a checkpoint's version is
\* its number.
KeysOf(n) == {VersionKey(n), BaseKey(n)}

\* A late put carries the text of a request, to the keys of its number.
LateSent ==
    \A p \in late :
        faults.lateput /\ \E q \in sent : p[1] \in KeysOf(q.seq) /\ p[2] = q.text

\* What waits to be deleted is older than the baseline.
CleanupOld ==
    \A k \in cleanup :
        \E n \in 1..Len(rows) : k = BaseKey(n) /\ (base # NoBase => n < base.seq)

\* The transaction's puts that are done are there.
PutsThere ==
    tx # NoTx /\ tx.request.text \in Big =>
        LET q == tx.request IN
        /\ tx.next \in {"base", "commit"} => blobs[VersionKey(q.seq)] = q.text
        /\ tx.next = "commit" => blobs[BaseKey(q.seq)] = q.text

\* A success names what is stored under its number.
AnswersTrue ==
    \A r \in replies : r.ok => r.seq \in 1..Len(rows) /\ rows[r.seq].text = r.text

TextInv ==
    /\ SaveInv /\ NoClash
    /\ OneText /\ LateSent /\ CleanupOld /\ PutsThere /\ AnswersTrue
    /\ BaseReadable /\ CheckpointsReadable /\ AcceptedIsHead

\* The keys of two numbers, and of a checkpoint and a baseline, differ.
LEMMA KeysApart ==
  ASSUME NEW m, NEW n
  PROVE  /\ VersionKey(m) = VersionKey(n) => m = n
         /\ BaseKey(m) = BaseKey(n) => m = n
         /\ VersionKey(m) # BaseKey(n)
BY DEF VersionKey, BaseKey

\* A transaction's request and the keys it writes to.
LEMMA TxKeys ==
  ASSUME SaveInv, tx # NoTx
  PROVE  /\ tx.request \in sent /\ tx.request \in SaveRequests
         /\ tx.request.seq \in Seqs /\ tx.request.text \in Texts
         /\ tx.request.seq = Len(rows) + 1 /\ Len(rows) \in Nat
         /\ tx.next \in {"canonical", "base", "commit"}
         /\ PutKey = IF tx.next = "canonical" THEN VersionKey(tx.request.seq)
                                            ELSE BaseKey(tx.request.seq)
         /\ tx = [request |-> tx.request, next |-> tx.next]
<1>1. tx \in [request : SaveRequests, next : {"canonical", "base", "commit"}]
  BY DEF SaveInv, DeltaTypeOK
<1>2. tx.request \in sent /\ tx.request.seq = Len(rows) + 1
  BY DEF SaveInv, TxNext
<1>3. tx.request.seq \in Seqs /\ tx.request.text \in Texts /\ Len(rows) \in Nat
  BY <1>2, FieldsTyped DEF SaveInv
<1> QED
  BY <1>1, <1>2, <1>3 DEF PutKey, NextVersion

\* A blob that holds the text of a request keeps it: what waits to be deleted
\* is another, the transaction's puts go elsewhere or write the same, and so
\* do late puts.
LEMMA KeptBlob ==
  ASSUME TextInv, [DeltaNext]_deltaVars,
         NEW q \in sent, NEW k \in KeysOf(q.seq), blobs[k] = q.text, k \notin cleanup,
         tx # NoTx /\ tx.request.seq = q.seq => tx.request.text = q.text
  PROVE  blobs'[k] = q.text
<1>1. SaveInv /\ blobs \in [Keys -> Texts \cup {NoText}] /\ k \in Keys
  <2>1. SaveInv /\ DeltaTypeOK
    BY DEF TextInv, SaveInv
  <2> QED
    BY <2>1, FieldsTyped, KeysTyped DEF KeysOf, DeltaTypeOK, Seqs
<1>2. ASSUME Put PROVE blobs'[k] = q.text
  <2>1. tx # NoTx /\ blobs' = [blobs EXCEPT ![PutKey] = tx.request.text]
    BY <1>2 DEF Put
  <2>2. PutKey = k => tx.request.seq = q.seq
    BY <1>1, <2>1, TxKeys, KeysApart DEF KeysOf
  <2> QED
    BY <1>1, <2>1, <2>2
<1>3. ASSUME NEW p \in late, LandLatePut(p) PROVE blobs'[k] = q.text
  <2>1. blobs' = [blobs EXCEPT ![p[1]] = p[2]]
    BY <1>3 DEF LandLatePut
  <2>2. PICK r \in sent : p[1] \in KeysOf(r.seq) /\ p[2] = r.text
    BY DEF TextInv, LateSent
  <2>3. ~faults.giveup
    BY DEF TextInv, LateSent, NoClash
  <2>4. p[1] = k => r.seq = q.seq
    BY <2>2, KeysApart DEF KeysOf
  <2>5. p[1] = k => p[2] = q.text
    BY <2>2, <2>3, <2>4 DEF TextInv, OneText
  <2> QED
    BY <1>1, <2>1, <2>5
<1>4. ASSUME NEW j \in cleanup, Delete(j) PROVE blobs'[k] = q.text
  BY <1>1, <1>4 DEF Delete
<1>5. CASE UNCHANGED blobs
  BY <1>5
<1> QED
  BY <1>2, <1>3, <1>4, <1>5
  DEF DeltaNext, deltaVars, Save, FallBack, GiveUp, HearSuccess, Replay, Conflict, Answer,
      BeginSave, Commit, Abort, LoseDelete, Complete, Cancel, RemoveBase, Collect

\* How a step changes the rows: not, or by the transaction's checkpoint.
LEMMA RowsStep ==
  ASSUME SaveInv, [DeltaNext]_deltaVars, ~Commit
  PROVE  rows' = rows /\ (base' = base \/ base' = NoBase)
BY DEF DeltaNext, deltaVars, db, Save, FallBack, GiveUp, HearSuccess, Replay, Conflict, Answer,
       BeginSave, Put, Abort, LandLatePut, Delete, LoseDelete, Complete, Cancel, RemoveBase, Collect

\* What a commit does.
LEMMA CommitStep ==
  ASSUME SaveInv, Commit
  PROVE  LET q == tx.request
             row == [seq |-> q.seq, text |-> q.text] IN
         /\ tx # NoTx /\ tx.next = "commit" /\ q.seq \in Seqs /\ q.text \in Texts
         /\ q \in sent /\ q.seq = Len(rows) + 1 /\ Len(rows) \in Nat
         /\ rows' = Append(rows, row) /\ base' = row /\ base' # NoBase
         /\ Len(rows') = Len(rows) + 1 /\ rows'[Len(rows) + 1] = row /\ rows' # <<>>
         /\ \A v \in 1..Len(rows) : rows'[v] = rows[v]
         /\ UNCHANGED <<faults, updateStatus, blobs, late, sent, client>>
<1> DEFINE q == tx.request
           row == [seq |-> q.seq, text |-> q.text]
<1>1. tx # NoTx /\ tx.next = "commit"
  BY DEF Commit
<1>2. /\ q \in sent /\ q.seq = Len(rows) + 1 /\ Len(rows) \in Nat
      /\ q.seq \in Seqs /\ q.text \in Texts
  BY <1>1, TxKeys
<1>3. /\ rows' = Append(rows, row) /\ base' = row
      /\ UNCHANGED <<faults, updateStatus, blobs, late, sent, client>>
  BY DEF Commit, NewBase
<1>4. /\ Len(rows') = Len(rows) + 1 /\ rows'[Len(rows) + 1] = row /\ rows' # <<>>
      /\ \A v \in 1..Len(rows) : rows'[v] = rows[v]
  BY <1>2, <1>3 DEF SaveInv, DeltaTypeOK
<1>5. base' # NoBase
  BY <1>2, <1>3, NullsAssumption DEF Seqs
<1> QED
  BY <1>1, <1>2, <1>3, <1>4, <1>5

\* Checkpoints stay readable, and become so when they are committed.
LEMMA CheckpointsStep ==
  ASSUME TextInv, [DeltaNext]_deltaVars
  PROVE  CheckpointsReadable'
<1>0. SaveInv /\ Len(rows) \in Nat
  BY FieldsTyped DEF TextInv, SaveInv
<1>1. ASSUME NEW v \in 1..Len(rows), rows[v].text \in Big
      PROVE  blobs'[VersionKey(v)] = rows[v].text
  <2>1. PICK q \in sent : q.seq = v /\ q.text = rows[v].text
    BY <1>0 DEF SaveInv, RowsSent
  <2>2. VersionKey(v) \in KeysOf(q.seq) /\ blobs[VersionKey(v)] = q.text
    BY <1>1, <2>1 DEF KeysOf, TextInv, CheckpointsReadable
  <2>3. VersionKey(v) \notin cleanup
    BY KeysApart DEF TextInv, CleanupOld
  <2>4. ~(tx # NoTx /\ tx.request.seq = q.seq)
    BY <1>0, <2>1, TxKeys
  <2> QED
    BY <2>1, <2>2, <2>3, <2>4, KeptBlob
<1>2. CASE Commit
  <2>1. tx.request.text \in Big => blobs'[VersionKey(Len(rows) + 1)] = tx.request.text
    BY <1>0, <1>2, CommitStep DEF TextInv, PutsThere
  <2>2. \A v \in 1..Len(rows') : v \in 1..Len(rows) \/ v = Len(rows) + 1
    BY <1>0, <1>2, CommitStep
  <2> QED
    BY <1>0, <1>1, <1>2, <2>1, <2>2, CommitStep DEF CheckpointsReadable
<1>3. CASE ~Commit
  BY <1>0, <1>1, <1>3, RowsStep DEF CheckpointsReadable
<1> QED
  BY <1>2, <1>3

\* So does the baseline.
LEMMA BaseStep ==
  ASSUME TextInv, [DeltaNext]_deltaVars
  PROVE  BaseReadable'
<1>0. SaveInv /\ SaveInv' /\ Len(rows) \in Nat
  BY SaveStep, FieldsTyped DEF TextInv, SaveInv
<1>1. SUFFICES ASSUME base' # NoBase, base'.text \in Big
               PROVE  blobs'[BaseKey(base'.seq)] = base'.text
  BY <1>0 DEF BaseReadable, StoredText, SaveInv, HeadBase
<1>2. CASE Commit
  BY <1>0, <1>1, <1>2, CommitStep DEF TextInv, PutsThere
<1>3. CASE ~Commit
  <2>1. base' = base /\ base # NoBase /\ base = rows[Len(rows)] /\ Len(rows) \in 1..Len(rows)
    BY <1>0, <1>1, <1>3, RowsStep, FieldsTyped DEF SaveInv, HeadBase
  <2>2. PICK q \in sent : q.seq = base.seq /\ q.text = base.text
    BY <1>0, <2>1 DEF SaveInv, RowsSent
  <2>3. base.seq = Len(rows)
    BY <1>0, <2>1 DEF SaveInv, RowsSent
  <2>4. BaseKey(base.seq) \in KeysOf(q.seq) /\ blobs[BaseKey(base.seq)] = q.text
    BY <1>1, <2>1, <2>2 DEF KeysOf, TextInv, BaseReadable, StoredText
  <2>5. BaseKey(base.seq) \notin cleanup
    BY <1>0, <2>1, <2>3, KeysApart DEF TextInv, CleanupOld
  <2>6. ~(tx # NoTx /\ tx.request.seq = q.seq)
    BY <1>0, <2>2, <2>3, TxKeys
  <2> QED
    BY <2>1, <2>2, <2>4, <2>5, <2>6, KeptBlob
<1> QED
  BY <1>2, <1>3

\* How a step changes the transaction: it begins, it puts, it ends, or nothing.
LEMMA TxStep ==
  ASSUME TextInv, [DeltaNext]_deltaVars, tx' # NoTx
  PROVE  \/ \E q \in sent : BeginSave(q)
         \/ Put
         \/ tx' = tx
BY DEF DeltaNext, deltaVars, Save, FallBack, GiveUp, HearSuccess, Replay, Conflict, Answer,
       Commit, Abort, LandLatePut, Delete, LoseDelete, Complete, Cancel, RemoveBase, Collect

\* The puts that are done stay there.
LEMMA PutsStep ==
  ASSUME TextInv, [DeltaNext]_deltaVars
  PROVE  PutsThere'
<1>0. SaveInv
  BY DEF TextInv
<1>1. SUFFICES ASSUME tx' # NoTx PROVE PutsThere'
  BY DEF PutsThere
<1> DEFINE q == tx.request
<1>2. ASSUME NEW k \in KeysOf(q.seq), tx # NoTx, blobs[k] = q.text
      PROVE  blobs'[k] = q.text
  <2>1. q \in sent
    BY <1>0, <1>2, TxKeys
  <2>2. k \notin cleanup
    BY <1>0, <1>2, TxKeys, KeysApart DEF TextInv, CleanupOld, KeysOf
  <2> QED
    BY <1>2, <2>1, <2>2, KeptBlob
<1>3. VersionKey(q.seq) \in KeysOf(q.seq) /\ BaseKey(q.seq) \in KeysOf(q.seq)
  BY DEF KeysOf
<1>4. ASSUME NEW r \in sent, BeginSave(r) PROVE PutsThere'
  BY <1>4 DEF BeginSave, PutsThere
<1>5. CASE Put
  <2>1. /\ tx # NoTx /\ tx'.request = q
        /\ tx'.next = IF tx.next = "canonical" THEN "base" ELSE "commit"
        /\ tx.next \in {"canonical", "base"}
        /\ blobs' = [blobs EXCEPT ![PutKey] = q.text]
    BY <1>0, <1>5, TxKeys DEF Put
  <2>2. PutKey \in Keys /\ blobs \in [Keys -> Texts \cup {NoText}]
    <3>1. DeltaTypeOK /\ q.seq \in 1..MaxSeq
      BY <1>0, <2>1, TxKeys DEF SaveInv, Seqs
    <3> QED
      BY <1>0, <2>1, <3>1, TxKeys, KeysTyped DEF DeltaTypeOK
  <2>3. blobs'[PutKey] = q.text
    BY <2>1, <2>2
  <2>4. CASE tx.next = "canonical"
    BY <1>0, <2>1, <2>3, <2>4, TxKeys DEF PutsThere
  <2>5. CASE tx.next = "base"
    <3>1. q.text \in Big => blobs'[VersionKey(q.seq)] = q.text
      BY <1>2, <1>3, <2>1, <2>5 DEF TextInv, PutsThere
    <3> QED
      BY <1>0, <2>1, <2>3, <2>5, <3>1, TxKeys DEF PutsThere
  <2> QED
    BY <2>1, <2>4, <2>5
<1>6. CASE tx' = tx
  BY <1>1, <1>2, <1>3, <1>6 DEF TextInv, PutsThere
<1> QED
  BY <1>1, <1>4, <1>5, <1>6, TxStep

\* The world stays, and the texts of the requests of one number.
LEMMA TextStep ==
  ASSUME TextInv, [DeltaNext]_deltaVars
  PROVE  NoClash' /\ OneText'
<1>0. /\ SaveInv /\ DeltaTypeOK /\ OneText /\ NoClash /\ Asking
      /\ \A q \in sent : q.seq <= client.seq
      /\ client.seq \in Nat
      /\ \A q \in sent : q.seq \in Seqs
      /\ MaxSeq \in Nat
  BY ClientTyped, FieldsTyped DEF TextInv, SaveInv, InStep
<1>1. faults' = faults
  BY DEF DeltaNext, deltaVars, Save, FallBack, GiveUp, HearSuccess, Replay, Conflict, Answer,
         BeginSave, Put, Commit, Abort, LandLatePut, Delete, LoseDelete, Complete, Cancel,
         RemoveBase, Collect
<1> SUFFICES OneText'
  BY <1>0, <1>1 DEF NoClash
<1>2. ASSUME NEW t \in Texts, Save(t) PROVE OneText'
  <2> DEFINE a == Attempt(client.seq + 1, t)
  <2>1. client'.seq = client.seq + 1 /\ client'.text = t /\ sent' = sent \cup {a}
    BY <1>0, <1>2, ClientTyped DEF Save
  <2>2. a.seq = client.seq + 1 /\ a.text = t
    BY DEF Attempt, Verbatim, Delta
  <2>3. \A q \in sent : q.seq # client.seq + 1
    BY <1>0 DEF Seqs
  <2> HIDE DEF a
  <2> QED
    BY <1>0, <1>1, <2>1, <2>2, <2>3 DEF OneText
<1>3. CASE FallBack
  BY <1>0, <1>1, <1>3 DEF FallBack, Verbatim, OneText
<1>4. ASSUME NEW t \in Texts, GiveUp(t) PROVE OneText'
  BY <1>1, <1>4 DEF GiveUp, OneText
<1>5. CASE HearSuccess
  <2>1. client'.seq = client.seq /\ client'.text = client.text /\ sent' = sent
    BY <1>0, <1>5, ClientTyped DEF HearSuccess
  <2> QED
    BY <1>0, <1>1, <2>1 DEF OneText
<1>6. CASE UNCHANGED <<client, sent>>
  BY <1>0, <1>1, <1>6 DEF OneText
<1> QED
  BY <1>2, <1>3, <1>4, <1>5, <1>6
  DEF DeltaNext, deltaVars, Replay, Conflict, Answer, BeginSave, Put, Commit, Abort,
      LandLatePut, Delete, LoseDelete, Complete, Cancel, RemoveBase, Collect

\* A put that is left behind carries its transaction's request.
LEMMA LateStep ==
  ASSUME TextInv, [DeltaNext]_deltaVars
  PROVE  LateSent'
<1>0. SaveInv /\ LateSent
  BY DEF TextInv
<1>1. faults' = faults /\ sent \subseteq sent'
  BY DEF DeltaNext, deltaVars, Save, FallBack, GiveUp, HearSuccess, Replay, Conflict, Answer,
         BeginSave, Put, Commit, Abort, LandLatePut, Delete, LoseDelete, Complete, Cancel,
         RemoveBase, Collect
<1>2. CASE Abort
  <2>1. tx # NoTx /\ late' = IF faults.lateput /\ tx.next # "commit"
                             THEN late \cup {<<PutKey, tx.request.text>>} ELSE late
    BY <1>2 DEF Abort
  <2>2. tx.request \in sent /\ PutKey \in KeysOf(tx.request.seq)
    BY <1>0, <2>1, TxKeys DEF KeysOf
  <2> QED
    BY <1>0, <1>1, <2>1, <2>2 DEF LateSent
<1>3. CASE late' \subseteq late
  BY <1>0, <1>1, <1>3 DEF LateSent
<1> QED
  BY <1>2, <1>3
  DEF DeltaNext, deltaVars, Save, FallBack, GiveUp, HearSuccess, Replay, Conflict, Answer,
      BeginSave, Put, Commit, LandLatePut, Delete, LoseDelete, Complete, Cancel,
      RemoveBase, Collect

\* Baselines are superseded by newer ones, and none follows the end.
LEMMA CleanupStep ==
  ASSUME TextInv, [DeltaNext]_deltaVars
  PROVE  CleanupOld'
<1>0. /\ SaveInv /\ CleanupOld /\ Len(rows) \in Nat
      /\ \A k \in BaseBlob : k = BaseKey(Len(rows)) /\ Len(rows) \in 1..Len(rows)
  BY FieldsTyped DEF TextInv, SaveInv, HeadBase, RowsSent, BaseBlob
<1>1. CASE Commit
  <2>1. cleanup' = cleanup \cup BaseBlob
    BY <1>1 DEF Commit, Superseded
  <2>2. base'.seq = Len(rows) + 1 /\ Len(rows') = Len(rows) + 1
    BY <1>0, <1>1, CommitStep
  <2>3. \A k \in cleanup' : \E n \in 1..Len(rows) : k = BaseKey(n)
    BY <1>0, <2>1 DEF CleanupOld
  <2> QED
    BY <1>0, <2>2, <2>3 DEF CleanupOld
<1>2. CASE Complete \/ Cancel
  <2>1. base' = NoBase /\ rows' = rows /\ cleanup' = cleanup \cup BaseBlob
    BY <1>2 DEF Complete, Cancel, RemoveBase
  <2> QED
    BY <1>0, <2>1 DEF CleanupOld
<1>3. CASE rows' = rows /\ base' = base /\ cleanup' \subseteq cleanup
  BY <1>0, <1>3 DEF CleanupOld
<1> QED
  BY <1>1, <1>2, <1>3
  DEF DeltaNext, deltaVars, db, Save, FallBack, GiveUp, HearSuccess, Replay, Conflict, Answer,
      BeginSave, Put, Abort, LandLatePut, Delete, LoseDelete, Collect

\* A replay names the newest checkpoint, a commit its own.
LEMMA AnswersStep ==
  ASSUME TextInv, [DeltaNext]_deltaVars
  PROVE  AnswersTrue'
<1>0. /\ SaveInv /\ AnswersTrue /\ BaseReadable /\ Len(rows) \in Nat
      /\ rows # <<>> => Len(rows) \in 1..Len(rows)
      /\ \A r \in replies : r.ok \in BOOLEAN
  BY FieldsTyped DEF TextInv, SaveInv
<1>1. ASSUME NEW q \in sent, Replay(q) PROVE AnswersTrue'
  <2>1. /\ replies' = replies \cup {[seq |-> q.seq, text |-> q.text, ok |-> TRUE]}
        /\ rows' = rows
    BY <1>1 DEF Replay, Answer, db
  <2>2. base # NoBase /\ base.seq = q.seq /\ StoredText = q.text
    BY <1>1 DEF Replay, Decision
  <2>3. base = rows[Len(rows)] /\ base.text = q.text /\ Len(rows) \in 1..Len(rows)
    BY <1>0, <2>2 DEF BaseReadable
  <2>4. q.seq = Len(rows)
    BY <1>0, <2>2, <2>3 DEF SaveInv, RowsSent
  <2> QED
    BY <1>0, <2>1, <2>3, <2>4 DEF AnswersTrue
<1>2. ASSUME NEW q \in sent, Conflict(q) PROVE AnswersTrue'
  BY <1>0, <1>2 DEF Conflict, Answer, AnswersTrue, db
<1>3. CASE Commit
  <2>1. replies' = replies \cup {[seq |-> tx.request.seq, text |-> tx.request.text, ok |-> TRUE]}
    BY <1>3 DEF Commit
  <2>2. \A v \in 1..Len(rows) : v \in 1..Len(rows') /\ rows'[v] = rows[v]
    BY <1>0, <1>3, CommitStep
  <2>3. /\ tx.request.seq \in 1..Len(rows')
        /\ rows'[tx.request.seq].text = tx.request.text
    BY <1>0, <1>3, CommitStep
  <2> QED
    BY <1>0, <2>1, <2>2, <2>3 DEF AnswersTrue
<1>4. CASE UNCHANGED <<rows, replies>>
  BY <1>0, <1>4 DEF AnswersTrue
<1> QED
  BY <1>1, <1>2, <1>3, <1>4
  DEF DeltaNext, deltaVars, db, Save, FallBack, GiveUp, HearSuccess,
      BeginSave, Put, Abort, LandLatePut, Delete, LoseDelete, Complete, Cancel,
      RemoveBase, Collect

\* The newest checkpoint stays the client's last accepted save or its current one.
LEMMA HeadStep ==
  ASSUME TextInv, [DeltaNext]_deltaVars
  PROVE  AcceptedIsHead'
<1>0. /\ SaveInv /\ DeltaTypeOK /\ AcceptedIsHead /\ AnswersTrue /\ InStep
      /\ Len(rows) \in Nat /\ client.seq \in Nat
  BY FieldsTyped, ClientTyped DEF TextInv, SaveInv
<1>1. ASSUME NEW t \in Texts, Save(t) PROVE AcceptedIsHead'
  <2>1. client.accepted /\ client'.base = client.base /\ rows' = rows
    BY <1>0, <1>1, ClientTyped DEF Save, db
  <2> QED
    BY <1>0, <2>1 DEF AcceptedIsHead
<1>2. ASSUME NEW t \in Texts, GiveUp(t) PROVE AcceptedIsHead'
  <2>1. /\ client'.base = client.base /\ client'.seq = client.seq
        /\ client'.accepted = client.accepted /\ rows' = rows
    BY <1>0, <1>2, ClientTyped DEF GiveUp, db
  <2> QED
    BY <1>0, <2>1 DEF AcceptedIsHead
<1>3. CASE HearSuccess
  <2>1. client'.base = client.text /\ rows' = rows
    BY <1>0, <1>3, ClientTyped DEF HearSuccess, db
  <2>2. client.seq \in 1..Len(rows) /\ rows[client.seq].text = client.text
    BY <1>0, <1>3 DEF HearSuccess, AnswersTrue
  <2>3. Len(rows) <= client.seq
    <3>1. PICK q \in sent : q.seq = Len(rows)
      BY <1>0, <2>2 DEF SaveInv, RowsSent
    <3> QED
      BY <1>0, <3>1 DEF InStep
  <2>4. client.seq = Len(rows) /\ rows # <<>>
    BY <1>0, <2>2, <2>3
  <2> QED
    BY <2>1, <2>2, <2>4 DEF AcceptedIsHead
<1>4. CASE Commit
  <2>1. tx.request.seq = client.seq /\ ~client.accepted
    BY <1>0, <1>4, CommitStep DEF InStep
  <2>2. rows' # <<>> /\ rows'[Len(rows')].seq = client.seq /\ client' = client
    BY <1>0, <1>4, <2>1, CommitStep
  <2> QED
    BY <2>1, <2>2 DEF AcceptedIsHead
<1>5. CASE UNCHANGED <<rows, client>>
  BY <1>0, <1>5 DEF AcceptedIsHead
<1> QED
  BY <1>1, <1>2, <1>3, <1>4, <1>5
  DEF DeltaNext, deltaVars, db, FallBack, Replay, Conflict, Answer, BeginSave, Put, Abort,
      LandLatePut, Delete, LoseDelete, Complete, Cancel, RemoveBase, Collect

\* At the start nothing is stored or said.
LEMMA TextStart == DeltaInit /\ NoClash => TextInv
<1> SUFFICES ASSUME DeltaInit, NoClash PROVE TextInv
  OBVIOUS
<1>1. Len(rows) = 0 /\ SaveInv
  BY SaveStart DEF DeltaInit
<1> QED
  BY <1>1
  DEF DeltaInit, TextInv, OneText, LateSent, CleanupOld, PutsThere, AnswersTrue,
      BaseReadable, CheckpointsReadable, AcceptedIsHead

\* Where no world has both kinds of fault, the stored texts, the answers and
\* the client agree at every step.
THEOREM TextInvariance ==
  ASSUME \A f \in Faults : ~(f.lateput /\ f.giveup)
  PROVE  DeltaSpec => []TextInv
<1>1. DeltaInit => TextInv
  <2>1. DeltaInit => NoClash
    BY DEF DeltaInit, NoClash
  <2> QED
    BY <2>1, TextStart
<1>2. TextInv /\ [DeltaNext]_deltaVars => TextInv'
  <2> SUFFICES ASSUME TextInv, [DeltaNext]_deltaVars PROVE TextInv'
    OBVIOUS
  <2>1. SaveInv'
    BY SaveStep DEF TextInv
  <2> QED
    BY <2>1, TextStep, LateStep, CleanupStep, PutsStep, AnswersStep, BaseStep,
       CheckpointsStep, HeadStep DEF TextInv
<1> QED
  BY <1>1, <1>2, PTL DEF DeltaSpec

\* The baseline of the next delta is the newest checkpoint, and its row leads
\* to the text it was committed with.
THEOREM BaselineReadable ==
  ASSUME \A f \in Faults : ~(f.lateput /\ f.giveup)
  PROVE  DeltaSpec => []BaseReadable
<1>1. TextInv => BaseReadable
  BY DEF TextInv
<1> QED
  BY <1>1, TextInvariance, PTL

\* Every checkpoint in the blob store has the text it was committed with.
THEOREM StoredReadable ==
  ASSUME \A f \in Faults : ~(f.lateput /\ f.giveup)
  PROVE  DeltaSpec => []CheckpointsReadable
<1>1. TextInv => CheckpointsReadable
  BY DEF TextInv
<1> QED
  BY <1>1, TextInvariance, PTL

\* What the client was told is stored is the newest checkpoint, or the one
\* before the save it is making.
THEOREM AcceptedStored ==
  ASSUME \A f \in Faults : ~(f.lateput /\ f.giveup)
  PROVE  DeltaSpec => []AcceptedIsHead
<1>1. TextInv => AcceptedIsHead
  BY DEF TextInv
<1> QED
  BY <1>1, TextInvariance, PTL

-----------------------------------------------------------------------------
(* Repair: the resources. *)

\* The resources of a checkpoint, however many.
Resources == Seq(Resource)

\* The elements of a checkpoint's resources and their fields.
LEMMA ResourceAt ==
  ASSUME NEW rs \in Resources
  PROVE  /\ Len(rs) \in Nat /\ DOMAIN rs = 1..Len(rs)
         /\ \A i \in DOMAIN rs : rs[i] \in Resource /\ rs[i].urn \in UrnsIn(rs)
                                 /\ rs[i].urn \in ResourceUrns /\ rs[i].parent \in ResourceUrns \cup {NoParent}
         /\ UrnsIn(rs) \subseteq ResourceUrns /\ NoParent \notin UrnsIn(rs)
<1>1. Len(rs) \in Nat /\ DOMAIN rs = 1..Len(rs) /\ rs \in [1..Len(rs) -> Resource]
  BY LenProperties DEF Resources
<1>2. \A i \in DOMAIN rs : rs[i] \in Resource /\ rs[i].urn \in UrnsIn(rs)
  BY <1>1 DEF UrnsIn
<1>3. \A i \in DOMAIN rs : rs[i].urn \in ResourceUrns /\ rs[i].parent \in ResourceUrns \cup {NoParent}
  BY <1>2 DEF Resource
<1> QED
  BY <1>1, <1>2, <1>3, RepairAssumption DEF UrnsIn

\* There are at most as many URNs as resources; if there are as many, no two
\* resources share one.
LEMMA UrnsCount ==
  ASSUME NEW rs \in Resources
  PROVE  /\ IsFiniteSet(UrnsIn(rs)) /\ Cardinality(UrnsIn(rs)) \in Nat
         /\ Cardinality(UrnsIn(rs)) <= Len(rs)
         /\ Unique(rs) <=> \A i, j \in DOMAIN rs : rs[i].urn = rs[j].urn => i = j
<1> DEFINE f == [i \in 1..Len(rs) |-> rs[i].urn]
<1>1. Len(rs) \in Nat /\ DOMAIN rs = 1..Len(rs)
  BY ResourceAt
<1>2. IsFiniteSet(1..Len(rs)) /\ Cardinality(1..Len(rs)) = Len(rs)
  <2>1. 1 \in Int /\ Len(rs) \in Int
    BY <1>1
  <2>2. /\ IsFiniteSet(1..Len(rs))
        /\ Cardinality(1..Len(rs)) = IF 1 > Len(rs) THEN 0 ELSE Len(rs) - 1 + 1
    BY <2>1, FS_Interval
  <2> QED
    BY <1>1, <2>2
<1>3. f \in Surjection(1..Len(rs), UrnsIn(rs))
  BY <1>1 DEF Surjection, UrnsIn
<1>4. f \in Injection(1..Len(rs), UrnsIn(rs)) <=> \A i, j \in DOMAIN rs : rs[i].urn = rs[j].urn => i = j
  BY <1>1, <1>3 DEF Injection, Surjection, IsInjective
<1> HIDE DEF f
<1>5. /\ IsFiniteSet(UrnsIn(rs))
      /\ Cardinality(UrnsIn(rs)) <= Len(rs)
      /\ Cardinality(UrnsIn(rs)) = Len(rs) <=> f \in Injection(1..Len(rs), UrnsIn(rs))
  BY <1>2, <1>3, FS_Surjection
<1> QED
  BY <1>4, <1>5, FS_CardinalityType DEF Unique

-----------------------------------------------------------------------------
(* What is reachable. *)

\* g[n] is what is reached after n rounds.
Rounds(g, rs, roots) ==
    /\ g \in [0..Len(rs) -> SUBSET UrnsIn(rs)] /\ g[0] = roots
    /\ \A n \in 1..Len(rs) : g[n] = g[n - 1] \cup Children(rs, g[n - 1])

\* ReachableFrom is what its rounds have reached in the end.
LEMMA ReachableRounds ==
  ASSUME NEW rs \in Resources, NEW roots \in SUBSET UrnsIn(rs)
  PROVE  \E g : Rounds(g, rs, roots) /\ g[Len(rs)] = ReachableFrom(rs, roots)
<1> DEFINE D == SUBSET UrnsIn(rs)
           L == Len(rs)
           G == [n \in 1..L |-> [d \in D |-> d \cup Children(rs, d)]]
           F(f) == [n \in 0..L |-> IF n = 0 THEN roots ELSE f[n - 1] \cup Children(rs, f[n - 1])]
           p == CHOOSE f : f = F(f)
<1>1. ReachableFrom(rs, roots) = p[L]
  BY DEF ReachableFrom
<1>2. \A d : Children(rs, d) \in D
  BY DEF Children, UrnsIn
<1>3. roots \in D /\ L \in Nat
  BY ResourceAt
<1>4. PICK g : Solves(g, L, D, roots, G)
  <2>1. G \in [1..L -> [D -> D]]
    BY <1>2
  <2> HIDE DEF D, G, L
  <2>2. Recursion(L, D, roots, G)
    BY <1>3, <2>1 DEF Recursion
  <2> QED
    BY <2>2, RecursionExists
<1> HIDE DEF L
<1>5. \A n \in 1..L : g[n] = g[n - 1] \cup Children(rs, g[n - 1])
  <2>1. SUFFICES ASSUME NEW n \in 1..L
                 PROVE  g[n] = g[n - 1] \cup Children(rs, g[n - 1])
    OBVIOUS
  <2>2. n - 1 \in 0..L
    BY <1>3
  <2> HIDE DEF D
  <2>3. g[n - 1] \in D
    BY <1>4, <2>2 DEF Solves
  <2> QED
    BY <1>4, <2>3 DEF Solves
<1>6. g \in [0..L -> D] /\ g[0] = roots
  BY <1>4 DEF Solves
<1> HIDE DEF D
<1>7. g = F(g)
  <2>1. ASSUME NEW n \in 0..L
        PROVE  g[n] = F(g)[n]
    <3>1. CASE n = 0
      BY <1>6, <3>1
    <3>2. CASE n # 0
      <4>1. n \in 1..L
        BY <1>3, <3>2
      <4> QED
        BY <1>5, <3>2, <4>1
    <3> QED
      BY <3>1, <3>2
  <2> QED
    BY <1>6, <2>1
<1>8. p = F(p)
  <2> HIDE DEF F
  <2> QED
    BY <1>7
<1>9. p[0] = roots /\ \A n \in 1..L : p[n] = p[n - 1] \cup Children(rs, p[n - 1])
  <2> HIDE DEF p
  <2>1. 0 \in 0..L /\ \A n \in 1..L : n \in 0..L /\ n # 0
    BY <1>3
  <2>2. \A n \in 0..L : p[n] = F(p)[n]
    BY <1>8
  <2> QED
    BY <2>1, <2>2
<1> HIDE DEF p
<1>10. p \in [0..L -> D]
  <2> DEFINE P == {n \in Nat : n <= L => p[n] \in D}
  <2>1. 0 \in P
    BY <1>3, <1>9
  <2>2. ASSUME NEW n \in Nat, n \in P
        PROVE  n + 1 \in P
    <3>1. SUFFICES ASSUME n + 1 <= L PROVE p[n + 1] \in D
      OBVIOUS
    <3>2. p[n] \in D /\ n + 1 \in 1..L /\ (n + 1) - 1 = n
      BY <1>3, <2>2, <3>1
    <3>3. p[n] \cup Children(rs, p[n]) \in D
      BY <1>2, <3>2 DEF D
    <3> QED
      BY <1>9, <3>2, <3>3
  <2>3. Nat \subseteq P
    <3> HIDE DEF P
    <3> QED
      BY <2>1, <2>2, InductiveSet
  <2>4. \A n \in 0..L : p[n] \in D
    BY <1>3, <2>3
  <2> QED
    BY <1>8, <2>4
<1> QED
  BY <1>1, <1>9, <1>10 DEF Rounds, D, L

\* The rounds come to an end before there are as many as URNs.
LEMMA RoundsStop ==
  ASSUME NEW rs \in Resources, NEW roots, roots # {}, NEW g, Rounds(g, rs, roots)
  PROVE  \E m \in 0..Len(rs) :
            /\ m + 1 <= Cardinality(UrnsIn(rs))
            /\ Children(rs, g[m]) \subseteq g[m]
            /\ g[Len(rs)] = g[m]
<1> DEFINE U == UrnsIn(rs)
           L == Len(rs)
           Open(n) == ~(Children(rs, g[n]) \subseteq g[n])
           P == {n \in Nat : n <= L /\ (\A k \in Nat : k < n => Open(k)) => n + 1 <= Cardinality(g[n])}
           T == {n \in Nat : n <= L /\ ~Open(n)}
<1>1. L \in Nat /\ IsFiniteSet(U) /\ Cardinality(U) \in Nat /\ Cardinality(U) <= L
  BY ResourceAt, UrnsCount
<1> HIDE DEF L, U
<1>2. \A n \in 0..L : g[n] \subseteq U /\ IsFiniteSet(g[n]) /\ Cardinality(g[n]) \in Nat
                      /\ Cardinality(g[n]) <= Cardinality(U)
  <2>1. \A n \in 0..L : g[n] \subseteq U
    BY DEF Rounds, L, U
  <2> QED
    BY <1>1, <2>1, FS_Subset, FS_CardinalityType
<1>3. \A n \in 1..L : g[n] = g[n - 1] \cup Children(rs, g[n - 1])
  BY DEF Rounds, L
<1>4. 0 \in P
  <2>1. g[0] # {} /\ 0 \in 0..L
    BY <1>1 DEF Rounds
  <2>2. Cardinality(g[0]) # 0
    BY <1>2, <2>1, FS_EmptySet
  <2> QED
    BY <1>2, <2>1, <2>2
<1>5. ASSUME NEW n \in Nat, n \in P
      PROVE  n + 1 \in P
  <2>1. SUFFICES ASSUME n + 1 <= L, \A k \in Nat : k < n + 1 => Open(k)
                 PROVE  (n + 1) + 1 <= Cardinality(g[n + 1])
    OBVIOUS
  <2>2. n + 1 <= Cardinality(g[n]) /\ Open(n)
    BY <1>1, <1>5, <2>1
  <2>3. n \in 0..L /\ n + 1 \in 0..L /\ n + 1 \in 1..L /\ (n + 1) - 1 = n
    BY <1>1, <2>1
  <2>4. g[n] \subseteq g[n + 1] /\ g[n] # g[n + 1]
    BY <1>3, <2>2, <2>3
  <2>5. Cardinality(g[n]) <= Cardinality(g[n + 1]) /\ Cardinality(g[n]) # Cardinality(g[n + 1])
    BY <1>2, <2>3, <2>4, FS_Subset
  <2>6. Cardinality(g[n]) \in Nat /\ Cardinality(g[n + 1]) \in Nat
    BY <1>2, <2>3
  <2> QED
    BY <2>2, <2>5, <2>6
<1>6. Nat \subseteq P
  <2> HIDE DEF P
  <2> QED
    BY <1>4, <1>5, InductiveSet
<1>7. T # {}
  <2>1. SUFFICES ASSUME \A n \in Nat : n <= L => Open(n) PROVE FALSE
    BY DEF T
  <2>2. L \in P /\ L \in 0..L
    BY <1>1, <1>6
  <2>3. L + 1 <= Cardinality(g[L])
    BY <1>1, <2>1, <2>2
  <2> QED
    BY <1>1, <1>2, <2>2, <2>3
<1>8. PICK m \in T : \A n \in T : m <= n
  BY <1>7, LeastNatural
<1>9. m \in Nat /\ m <= L /\ ~Open(m) /\ \A k \in Nat : k < m => Open(k)
  BY <1>1, <1>8
<1>10. m + 1 <= Cardinality(U)
  <2>1. m \in P /\ m \in 0..L
    BY <1>1, <1>6, <1>9
  <2>2. m + 1 <= Cardinality(g[m])
    BY <1>9, <2>1
  <2> QED
    BY <1>1, <1>2, <1>9, <2>1, <2>2
<1>11. g[L] = g[m]
  <2> DEFINE Q == {n \in Nat : m + n <= L => g[m + n] = g[m]}
  <2>1. 0 \in Q
    BY <1>9
  <2>2. ASSUME NEW n \in Nat, n \in Q
        PROVE  n + 1 \in Q
    <3>1. SUFFICES ASSUME m + (n + 1) <= L PROVE g[m + (n + 1)] = g[m]
      OBVIOUS
    <3>2. g[m + n] = g[m] /\ m + (n + 1) \in 1..L /\ (m + (n + 1)) - 1 = m + n
      BY <1>1, <1>9, <2>2, <3>1
    <3> QED
      BY <1>3, <1>9, <3>2
  <2>3. Nat \subseteq Q
    <3> HIDE DEF Q
    <3> QED
      BY <2>1, <2>2, InductiveSet
  <2>4. L - m \in Nat /\ m + (L - m) = L
    BY <1>1, <1>9
  <2>5. L - m \in Q
    BY <2>3, <2>4
  <2> QED
    BY <2>4, <2>5
<1> QED
  BY <1>1, <1>9, <1>10, <1>11 DEF L, U

\* What is reached from some roots: them, with everything that has a parent in it,
\* and nothing else.
LEMMA ReachableClosed ==
  ASSUME NEW rs \in Resources, NEW roots \in SUBSET UrnsIn(rs)
  PROVE  /\ roots \subseteq ReachableFrom(rs, roots)
         /\ ReachableFrom(rs, roots) \subseteq UrnsIn(rs)
         /\ Children(rs, ReachableFrom(rs, roots)) \subseteq ReachableFrom(rs, roots)
         /\ \A X : roots \subseteq X /\ Children(rs, X) \subseteq X
                      => ReachableFrom(rs, roots) \subseteq X
<1> DEFINE L == Len(rs)
           R == ReachableFrom(rs, roots)
<1>1. L \in Nat
  BY ResourceAt
<1>2. PICK g : Rounds(g, rs, roots) /\ g[L] = R
  BY ReachableRounds
<1>3. /\ g[0] = roots /\ \A n \in 1..L : g[n] = g[n - 1] \cup Children(rs, g[n - 1])
      /\ \A n \in 0..L : g[n] \subseteq UrnsIn(rs)
  BY <1>2 DEF Rounds
<1> HIDE DEF L, R
<1>4. ASSUME NEW X, roots \subseteq X, Children(rs, X) \subseteq X
      PROVE  R \subseteq X
  <2> DEFINE P == {n \in Nat : n <= L => g[n] \subseteq X}
  <2>1. 0 \in P
    BY <1>3, <1>4
  <2>2. ASSUME NEW n \in Nat, n \in P
        PROVE  n + 1 \in P
    <3>1. SUFFICES ASSUME n + 1 <= L PROVE g[n + 1] \subseteq X
      OBVIOUS
    <3>2. g[n] \subseteq X /\ n + 1 \in 1..L /\ (n + 1) - 1 = n
      BY <1>1, <2>2, <3>1
    <3>3. g[n + 1] = g[n] \cup Children(rs, g[n])
      BY <1>3, <3>2
    <3>4. Children(rs, g[n]) \subseteq Children(rs, X)
      BY <3>2 DEF Children
    <3> QED
      BY <1>4, <3>2, <3>3, <3>4
  <2>3. Nat \subseteq P
    <3> HIDE DEF P
    <3> QED
      BY <2>1, <2>2, InductiveSet
  <2> QED
    BY <1>1, <1>2, <2>3
<1>5. roots \subseteq R
  <2> DEFINE P == {n \in Nat : n <= L => roots \subseteq g[n]}
  <2>1. 0 \in P
    BY <1>3
  <2>2. ASSUME NEW n \in Nat, n \in P
        PROVE  n + 1 \in P
    <3>1. SUFFICES ASSUME n + 1 <= L PROVE roots \subseteq g[n + 1]
      OBVIOUS
    <3>2. roots \subseteq g[n] /\ n + 1 \in 1..L /\ (n + 1) - 1 = n
      BY <1>1, <2>2, <3>1
    <3> QED
      BY <1>3, <3>2
  <2>3. Nat \subseteq P
    <3> HIDE DEF P
    <3> QED
      BY <2>1, <2>2, InductiveSet
  <2> QED
    BY <1>1, <1>2, <2>3
<1>6. R \subseteq UrnsIn(rs)
  BY <1>1, <1>2, <1>3
<1>7. Children(rs, R) \subseteq R
  <2>1. CASE roots = {}
    <3>1. Children(rs, {}) = {}
      BY DEF Children
    <3>2. R \subseteq {}
      BY <1>4, <2>1, <3>1
    <3> QED
      BY <3>1, <3>2
  <2>2. CASE roots # {}
    <3>1. PICK m \in 0..L : Children(rs, g[m]) \subseteq g[m] /\ g[L] = g[m]
      BY <1>2, <2>2, RoundsStop DEF L
    <3> QED
      BY <1>2, <3>1
  <2> QED
    BY <2>1, <2>2
<1> QED
  BY <1>4, <1>5, <1>6, <1>7 DEF R

-----------------------------------------------------------------------------
(* Ways to a root. *)

\* w leads in m steps to a root, past no dangling parent.
IsWay(rs, w, m) ==
    /\ m \in Nat \ {0} /\ w \in [1..m -> UrnsIn(rs)] /\ w[m] \in Roots(rs)
    /\ \A k \in 1..(m - 1) :
          w[k] \notin Dangling(rs) /\ \E i \in DOMAIN rs : rs[i].urn = w[k] /\ rs[i].parent = w[k + 1]

\* A sound way, written as a function on the naturals.
LEMMA SoundWay ==
  ASSUME NEW rs \in Resources, NEW u
  PROVE  u \in Sound(rs) <=>
           \E m, w : IsWay(rs, w, m) /\ m <= Cardinality(UrnsIn(rs)) /\ w[1] = u
<1> DEFINE U == UrnsIn(rs)
           c == Cardinality(U)
<1>1. c \in Nat
  BY UrnsCount
<1>2. \A w, m : m \in Nat /\ w \in [1..m -> U] => Len(w) = m /\ (w # <<>> <=> m # 0)
  <2>1. ASSUME NEW m \in Nat, NEW w \in [1..m -> U]
        PROVE  Len(w) = m /\ (w # <<>> <=> m # 0)
    <3>1. w \in Seq(U) /\ Len(w) = m
      BY SeqDef
    <3> QED
      BY <3>1, EmptySeq
  <2> QED
    BY <2>1
<1> HIDE DEF c, U
<1>3. ASSUME NEW w
      PROVE  w \in BoundedSeq(U, c) <=> \E m \in 0..c : w \in [1..m -> U]
  BY DEF BoundedSeq, SeqOf
<1> DEFINE Leads(w) ==
             /\ w # <<>> /\ w[Len(w)] \in Roots(rs)
             /\ \A k \in 1..(Len(w) - 1) :
                   w[k] \notin Dangling(rs)
                   /\ \E i \in DOMAIN rs : rs[i].urn = w[k] /\ rs[i].parent = w[k + 1]
<1>4. ASSUME NEW w, w \in BoundedSeq(U, c), Leads(w)
      PROVE  \E m : IsWay(rs, w, m) /\ m <= c
  <2>1. PICK m \in 0..c : w \in [1..m -> U]
    BY <1>3, <1>4
  <2>2. Len(w) = m /\ m \in Nat /\ m # 0 /\ m <= c
    BY <1>1, <1>2, <1>4, <2>1
  <2> QED
    BY <1>4, <2>1, <2>2 DEF IsWay, U
<1>5. ASSUME NEW w, NEW m, IsWay(rs, w, m), m <= c
      PROVE  w \in BoundedSeq(U, c) /\ Leads(w)
  <2>1. m \in 0..c /\ m # 0 /\ m \in Nat /\ w \in [1..m -> U]
    BY <1>1, <1>5 DEF IsWay, U
  <2>2. Len(w) = m /\ w # <<>> /\ w \in BoundedSeq(U, c)
    BY <1>2, <1>3, <2>1
  <2> QED
    BY <1>5, <2>2 DEF IsWay
<1>6. Sound(rs) = {w[1] : w \in {x \in BoundedSeq(U, c) : Leads(x)}}
  BY DEF Sound, U, c
<1> HIDE DEF Leads
<1>7. u \in Sound(rs) <=> \E w \in BoundedSeq(U, c) : Leads(w) /\ w[1] = u
  BY <1>6
<1> QED
  BY <1>4, <1>5, <1>7 DEF U, c

\* In a tree without dangling parents what is reached from the roots has a way
\* back to one of them, shorter than there are URNs.
LEMMA ReachedIsSound ==
  ASSUME NEW rs \in Resources, Dangling(rs) = {}, NEW u \in ReachableFrom(rs, Roots(rs))
  PROVE  u \in Sound(rs)
<1> DEFINE U == UrnsIn(rs)
           L == Len(rs)
           R == ReachableFrom(rs, Roots(rs))
<1>1. L \in Nat /\ DOMAIN rs = 1..L /\ Cardinality(U) \in Nat
  BY ResourceAt, UrnsCount
<1>2. Roots(rs) \in SUBSET U
  BY DEF Roots, UrnsIn
<1>3. Roots(rs) # {}
  <2>1. SUFFICES ASSUME Roots(rs) = {} PROVE FALSE
    OBVIOUS
  <2>2. Children(rs, {}) = {}
    BY DEF Children
  <2>3. R \subseteq {}
    BY <1>2, <2>1, <2>2, ReachableClosed
  <2> QED
    BY <2>3
<1>4. PICK g : Rounds(g, rs, Roots(rs)) /\ g[L] = R
  BY <1>2, ReachableRounds
<1>5. PICK m \in 0..L : m + 1 <= Cardinality(U) /\ g[L] = g[m]
  BY <1>3, <1>4, RoundsStop
<1>6. /\ g[0] = Roots(rs) /\ \A n \in 1..L : g[n] = g[n - 1] \cup Children(rs, g[n - 1])
      /\ \A n \in 0..L : g[n] \subseteq U
  BY <1>4 DEF Rounds
<1> DEFINE Way(v, n) == \E k, w : IsWay(rs, w, k) /\ k <= n + 1 /\ w[1] = v
           P == {n \in Nat : n <= m => \A v \in g[n] : Way(v, n)}
<1>7. 0 \in P
  <2>1. SUFFICES ASSUME NEW v \in Roots(rs) PROVE Way(v, 0)
    BY <1>6
  <2>2. IsWay(rs, [k \in 1..1 |-> v], 1)
    BY <1>2, <2>1 DEF IsWay
  <2> QED
    BY <2>2
<1>8. ASSUME NEW n \in Nat, n \in P
      PROVE  n + 1 \in P
  <2>1. SUFFICES ASSUME n + 1 <= m, NEW v \in g[n + 1] PROVE Way(v, n + 1)
    OBVIOUS
  <2>2. n \in 0..L /\ n + 1 \in 1..L /\ (n + 1) - 1 = n /\ n <= m /\ n \in Nat
    BY <1>1, <1>5, <2>1
  <2>3. g[n + 1] = g[n] \cup Children(rs, g[n])
    BY <1>6, <2>2
  <2>4. CASE v \in g[n]
    <3>1. PICK k, w : IsWay(rs, w, k) /\ k <= n + 1 /\ w[1] = v
      BY <1>8, <2>2, <2>4
    <3>2. k <= (n + 1) + 1
      BY <2>2, <3>1 DEF IsWay
    <3> QED
      BY <3>1, <3>2
  <2>5. CASE v \in Children(rs, g[n])
    <3>1. PICK i \in DOMAIN rs : rs[i].urn = v /\ rs[i].parent \in g[n]
      BY <2>5 DEF Children
    <3>2. PICK k, w : IsWay(rs, w, k) /\ k <= n + 1 /\ w[1] = rs[i].parent
      BY <1>8, <2>2, <3>1
    <3>3. k \in Nat \ {0} /\ w \in [1..k -> U] /\ w[k] \in Roots(rs)
      BY <3>2 DEF IsWay
    <3>4. v \in U
      BY <3>1 DEF UrnsIn
    <3> DEFINE x == [j \in 1..(k + 1) |-> IF j = 1 THEN v ELSE w[j - 1]]
    <3>5. x \in [1..(k + 1) -> U] /\ x[k + 1] = w[k] /\ x[1] = v
      BY <3>3, <3>4
    <3>6. ASSUME NEW j \in 1..k
          PROVE  \E l \in DOMAIN rs : rs[l].urn = x[j] /\ rs[l].parent = x[j + 1]
      <4>1. CASE j = 1
        <5>1. x[j] = v /\ x[j + 1] = w[1]
          BY <3>3, <4>1
        <5> HIDE DEF x
        <5> QED
          BY <3>1, <3>2, <5>1
      <4>2. CASE j # 1
        <5>1. j - 1 \in 1..(k - 1) /\ x[j] = w[j - 1] /\ x[j + 1] = w[(j - 1) + 1]
          BY <3>3, <4>2
        <5> HIDE DEF x
        <5> QED
          BY <3>2, <5>1 DEF IsWay
      <4> QED
        BY <4>1, <4>2
    <3> HIDE DEF x
    <3>7. k + 1 \in Nat \ {0} /\ (k + 1) - 1 = k /\ k + 1 <= (n + 1) + 1
      BY <2>2, <3>2, <3>3
    <3>8. IsWay(rs, x, k + 1)
      BY <3>3, <3>5, <3>6, <3>7 DEF IsWay
    <3> QED
      BY <3>5, <3>7, <3>8
  <2> QED
    BY <2>3, <2>4, <2>5
<1>9. Nat \subseteq P
  <2> HIDE DEF P
  <2> QED
    BY <1>7, <1>8, InductiveSet
<1>10. u \in g[m] /\ m \in P /\ m \in Nat
  BY <1>4, <1>5, <1>9
<1>11. PICK k, w : IsWay(rs, w, k) /\ k <= m + 1 /\ w[1] = u
  BY <1>10
<1>12. k <= Cardinality(U)
  BY <1>1, <1>5, <1>10, <1>11 DEF IsWay
<1> QED
  BY <1>11, <1>12, SoundWay

-----------------------------------------------------------------------------
(* What a repair keeps. *)

\* A patched tree differs from the tree in the parents that dangle.
LEMMA PatchedAt ==
  ASSUME NEW rs \in Resources
  PROVE  /\ Patched(rs) \in Resources /\ Len(Patched(rs)) = Len(rs) /\ DOMAIN Patched(rs) = DOMAIN rs
         /\ \A i \in DOMAIN rs :
              /\ Patched(rs)[i].urn = rs[i].urn
              /\ Patched(rs)[i].parent = IF rs[i].urn \in Dangling(rs) THEN NoParent ELSE rs[i].parent
              /\ rs[i].urn \notin Dangling(rs) => Patched(rs)[i] = rs[i]
         /\ UrnsIn(Patched(rs)) = UrnsIn(rs)
<1> DEFINE ps == Patched(rs)
<1>1. Len(rs) \in Nat /\ DOMAIN rs = 1..Len(rs) /\ \A i \in DOMAIN rs : rs[i] \in Resource
  BY ResourceAt
<1>2. DOMAIN ps = DOMAIN rs
  BY DEF Patched
<1>3. ASSUME NEW i \in DOMAIN rs
      PROVE  /\ ps[i] \in Resource
             /\ ps[i].urn = rs[i].urn
             /\ ps[i].parent = IF rs[i].urn \in Dangling(rs) THEN NoParent ELSE rs[i].parent
             /\ rs[i].urn \notin Dangling(rs) => ps[i] = rs[i]
  BY <1>1 DEF Patched, Resource
<1>4. ps \in [1..Len(rs) -> Resource]
  BY <1>1, <1>2, <1>3 DEF Patched
<1>5. ps \in Resources /\ Len(ps) = Len(rs)
  BY <1>1, <1>4, SeqDef DEF Resources
<1>6. UrnsIn(ps) = UrnsIn(rs)
  BY <1>2, <1>3 DEF UrnsIn
<1> QED
  BY <1>2, <1>3, <1>5, <1>6

\* What is kept is there, and so are the roots.
LEMMA KeptUrns ==
  ASSUME NEW rs \in Resources
  PROVE  /\ Kept(rs) \subseteq UrnsIn(rs)
         /\ Roots(rs) \subseteq UrnsIn(rs)
<1>1. Roots(rs) \in SUBSET UrnsIn(Patched(rs)) /\ Patched(rs) \in Resources
  BY PatchedAt DEF Roots, UrnsIn
<1> QED
  BY <1>1, PatchedAt, ReachableClosed DEF Kept

\* What has a sound way to a root is kept.
LEMMA SoundKept ==
  ASSUME NEW rs \in Resources
  PROVE  Sound(rs) \subseteq Kept(rs)
<1>1. SUFFICES ASSUME NEW u \in Sound(rs) PROVE u \in Kept(rs)
  OBVIOUS
<1>2. PICK m, w : IsWay(rs, w, m) /\ w[1] = u
  BY SoundWay
<1>3. m \in Nat \ {0} /\ w \in [1..m -> UrnsIn(rs)] /\ w[m] \in Roots(rs)
  BY <1>2 DEF IsWay
<1>4. CASE ~HasValidEdges(rs)
  BY <1>2, <1>3, <1>4 DEF Kept
<1>5. CASE HasValidEdges(rs)
  <2> DEFINE ps == Patched(rs)
             R == ReachableFrom(ps, Roots(rs))
  <2>1. Roots(rs) \subseteq R /\ Children(ps, R) \subseteq R
    BY KeptUrns, PatchedAt, ReachableClosed
  <2> HIDE DEF R
  <2> DEFINE P == {n \in Nat : n < m => w[m - n] \in R}
  <2>2. 0 \in P
    BY <1>3, <2>1
  <2>3. ASSUME NEW n \in Nat, n \in P
        PROVE  n + 1 \in P
    <3>1. SUFFICES ASSUME n + 1 < m PROVE w[m - (n + 1)] \in R
      OBVIOUS
    <3>2. /\ m - (n + 1) \in 1..(m - 1) /\ (m - (n + 1)) + 1 = m - n
          /\ w[m - n] \in R
      BY <1>3, <2>3, <3>1
    <3>3. PICK i \in DOMAIN rs : rs[i].urn = w[m - (n + 1)] /\ rs[i].parent = w[m - n]
      BY <1>2, <3>2 DEF IsWay
    <3>4. w[m - (n + 1)] \notin Dangling(rs)
      BY <1>2, <3>2 DEF IsWay
    <3>5. ps[i].urn = w[m - (n + 1)] /\ ps[i].parent = w[m - n] /\ i \in DOMAIN ps
      BY <3>3, <3>4, PatchedAt
    <3>6. w[m - (n + 1)] \in Children(ps, R)
      BY <3>2, <3>5 DEF Children
    <3> QED
      BY <2>1, <3>6
  <2>4. Nat \subseteq P
    <3> HIDE DEF P
    <3> QED
      BY <2>2, <2>3, InductiveSet
  <2>5. m - 1 \in P /\ m - 1 < m /\ m - (m - 1) = 1
    BY <1>3, <2>4
  <2> QED
    BY <1>2, <1>5, <2>5 DEF Kept, R
<1> QED
  BY <1>4, <1>5

\* The elements of a repaired tree: the patched ones whose URN is kept.
LEMMA RepairedElements ==
  ASSUME NEW rs \in Resources
  PROVE  /\ Repaired(rs) \in Resources
         /\ \A k \in DOMAIN Repaired(rs) : \E i \in DOMAIN rs :
               Repaired(rs)[k] = Patched(rs)[i] /\ rs[i].urn \in Kept(rs)
         /\ \A i \in DOMAIN rs : rs[i].urn \in Kept(rs) =>
               \E k \in DOMAIN Repaired(rs) : Repaired(rs)[k] = Patched(rs)[i]
<1> DEFINE ps == Patched(rs)
           I == {i \in DOMAIN ps : ps[i].urn \in Kept(rs)}
           hs == SelectAt(ps, I)
<1>1. ps \in Seq(Resource) /\ DOMAIN ps = DOMAIN rs /\ \A i \in DOMAIN rs : ps[i].urn = rs[i].urn
  BY PatchedAt DEF Resources
<1>2. Repaired(rs) = hs
  BY DEF Repaired, Among
<1> HIDE DEF ps
<1>3. \A i \in DOMAIN ps : i \in I <=> i \in DOMAIN rs /\ rs[i].urn \in Kept(rs)
  BY <1>1
<1> HIDE DEF I
<1>4. {hs[k] : k \in DOMAIN hs} = {ps[i] : i \in I \cap DOMAIN ps}
  BY <1>1, SelectAtElements
<1>5. hs \in Resources
  BY <1>1, SelectAtType DEF Resources
<1> HIDE DEF hs
<1>6. ASSUME NEW k \in DOMAIN hs
      PROVE  \E i \in DOMAIN rs : hs[k] = ps[i] /\ rs[i].urn \in Kept(rs)
  <2>1. hs[k] \in {ps[i] : i \in I \cap DOMAIN ps}
    BY <1>4
  <2> QED
    BY <1>3, <2>1
<1>7. ASSUME NEW i \in DOMAIN rs, rs[i].urn \in Kept(rs)
      PROVE  \E k \in DOMAIN hs : hs[k] = ps[i]
  <2>1. ps[i] \in {hs[k] : k \in DOMAIN hs}
    BY <1>1, <1>3, <1>4, <1>7
  <2> QED
    BY <2>1
<1> QED
  BY <1>2, <1>5, <1>6, <1>7 DEF ps

\* In a tree that is whole a repair has nothing to do.
LEMMA WholeTree ==
  ASSUME NEW rs \in Resources, Dangling(rs) = {}, UrnsIn(rs) \subseteq ReachableFrom(rs, Roots(rs))
  PROVE  Mutations(rs) = {} /\ Sound(rs) = UrnsIn(rs)
<1>1. Patched(rs) = rs
  <2>1. \A i \in DOMAIN rs : Patched(rs)[i] = rs[i]
    BY PatchedAt
  <2>2. Patched(rs) \in Seq(Resource) /\ rs \in Seq(Resource) /\ Len(Patched(rs)) = Len(rs)
        /\ DOMAIN rs = 1..Len(rs)
    BY PatchedAt, ResourceAt DEF Resources
  <2> QED
    BY <2>1, <2>2, SeqEqual
<1>2. UrnsIn(rs) \subseteq Kept(rs)
  BY <1>1 DEF Kept
<1>3. Mutations(rs) = {}
  BY <1>2 DEF Mutations
<1>4. Sound(rs) \subseteq UrnsIn(rs)
  BY SoundKept, KeptUrns
<1> QED
  BY <1>3, <1>4, ReachedIsSound

\* What no two resources of one URN confuse: a kept resource is a root or has its
\* parent kept.
LEMMA KeptParent ==
  ASSUME NEW rs \in Resources, Unique(rs), HasValidEdges(rs),
         NEW i \in DOMAIN rs, rs[i].urn \in Kept(rs)
  PROVE  /\ Patched(rs)[i].parent \in Kept(rs) \cup {NoParent}
         /\ rs[i].parent \notin Kept(rs) => rs[i].urn \in Roots(rs)
<1> DEFINE ps == Patched(rs)
           R == Kept(rs)
           X == Roots(rs) \cup Children(ps, R)
<1>1. R = ReachableFrom(ps, Roots(rs))
  BY DEF Kept
<1>2. \A k, l \in DOMAIN rs : rs[k].urn = rs[l].urn => k = l
  BY UrnsCount
<1>3. /\ ps \in Resources /\ DOMAIN ps = DOMAIN rs /\ Roots(rs) \in SUBSET UrnsIn(ps)
      /\ \A k \in DOMAIN rs : ps[k].urn = rs[k].urn
      /\ \A k \in DOMAIN rs :
            ps[k].parent = IF rs[k].urn \in Dangling(rs) THEN NoParent ELSE rs[k].parent
  BY PatchedAt, KeptUrns
<1>4. R \subseteq UrnsIn(rs) /\ NoParent \notin R
  BY KeptUrns, ResourceAt
<1> HIDE DEF ps, R
<1>5. Roots(rs) \subseteq R /\ Children(ps, R) \subseteq R
  BY <1>1, <1>3, ReachableClosed
<1>6. R \subseteq X
  <2>1. Children(ps, X) \subseteq Children(ps, R)
    BY <1>5 DEF Children
  <2>2. Roots(rs) \subseteq X /\ Children(ps, X) \subseteq X
    BY <2>1
  <2> QED
    BY <1>1, <1>3, <2>2, ReachableClosed
<1>7. CASE rs[i].urn \in Roots(rs)
  <2>1. rs[i].parent = NoParent
    BY <1>2, <1>7 DEF Roots
  <2> QED
    BY <1>3, <1>7, <2>1 DEF ps, R
<1>8. CASE rs[i].urn \in Children(ps, R)
  <2>1. ps[i].parent \in R
    BY <1>2, <1>3, <1>8 DEF Children
  <2>2. rs[i].parent = ps[i].parent
    BY <1>3, <1>4, <2>1
  <2> QED
    BY <2>1, <2>2 DEF ps, R
<1> QED
  BY <1>6, <1>7, <1>8 DEF R

\* A repair of resources with different URNs leaves a forest.
LEMMA RepairedWhole ==
  ASSUME NEW rs \in Resources, Unique(rs)
  PROVE  /\ Dangling(Repaired(rs)) = {}
         /\ UrnsIn(Repaired(rs)) \subseteq ReachableFrom(Repaired(rs), Roots(Repaired(rs)))
<1> DEFINE ps == Patched(rs)
           hs == Repaired(rs)
           R == Kept(rs)
           C == ReachableFrom(hs, Roots(hs))
<1>1. /\ DOMAIN ps = DOMAIN rs /\ ps \in Resources
      /\ \A k \in DOMAIN rs : ps[k].urn = rs[k].urn
      /\ \A k \in DOMAIN rs :
            ps[k].parent = IF rs[k].urn \in Dangling(rs) THEN NoParent ELSE rs[k].parent
  BY PatchedAt
<1>2. /\ hs \in Resources
      /\ \A k \in DOMAIN hs : \E i \in DOMAIN rs : hs[k] = ps[i] /\ rs[i].urn \in R
      /\ \A i \in DOMAIN rs : rs[i].urn \in R => \E k \in DOMAIN hs : hs[k] = ps[i]
  BY RepairedElements
<1>3. R \subseteq UrnsIn(rs) /\ Roots(rs) \subseteq UrnsIn(rs)
  BY KeptUrns
<1>4. Roots(hs) \subseteq C /\ Children(hs, C) \subseteq C
  BY <1>2, KeptUrns, ReachableClosed
<1>5. CASE ~HasValidEdges(rs)
  <2>1. \A k \in DOMAIN rs : ps[k].parent = NoParent
    BY <1>1, <1>5 DEF HasValidEdges, Dangling
  <2> HIDE DEF ps, hs, R, C
  <2>2. \A k \in DOMAIN hs : hs[k].parent = NoParent
    BY <1>2, <2>1
  <2>3. Dangling(hs) = {}
    BY <2>2 DEF Dangling
  <2>4. UrnsIn(hs) \subseteq Roots(hs)
    BY <2>2 DEF UrnsIn, Roots
  <2> QED
    BY <1>4, <2>3, <2>4 DEF hs, C
<1>6. CASE HasValidEdges(rs)
  <2>1. R = ReachableFrom(ps, Roots(rs))
    BY <1>6 DEF Kept
  <2>2. \A i \in DOMAIN rs : rs[i].urn \in R => ps[i].parent \in R \cup {NoParent}
    BY <1>6, KeptParent
  <2>3. Roots(rs) \in SUBSET UrnsIn(ps)
    BY <1>3, PatchedAt
  <2> HIDE DEF ps, hs, R
  <2>4. Roots(rs) \subseteq R /\ Children(ps, R) \subseteq R
    BY <1>1, <2>1, <2>3, ReachableClosed
  <2> HIDE DEF C
  <2>5. R \subseteq UrnsIn(hs)
    <3>1. SUFFICES ASSUME NEW u \in R PROVE u \in UrnsIn(hs)
      OBVIOUS
    <3>2. PICK i \in DOMAIN rs : rs[i].urn = u
      BY <1>3, <3>1 DEF UrnsIn
    <3>3. PICK k \in DOMAIN hs : hs[k] = ps[i]
      BY <1>2, <3>1, <3>2
    <3> QED
      BY <1>1, <3>2, <3>3 DEF UrnsIn
  <2>6. Dangling(hs) = {}
    BY <1>2, <2>2, <2>5 DEF Dangling
  <2>7. UrnsIn(hs) \subseteq R
    BY <1>1, <1>2 DEF UrnsIn
  <2>8. Roots(rs) \subseteq R \cap C
    <3>1. SUFFICES ASSUME NEW u \in Roots(rs) PROVE u \in C
      BY <2>4
    <3>2. PICK i \in DOMAIN rs : rs[i].urn = u /\ rs[i].parent = NoParent
      BY <3>1 DEF Roots
    <3>3. PICK k \in DOMAIN hs : hs[k] = ps[i]
      BY <1>2, <2>4, <3>1, <3>2
    <3>4. hs[k].urn = u /\ hs[k].parent = NoParent
      BY <1>1, <3>2, <3>3
    <3> QED
      BY <1>4, <3>4 DEF Roots
  <2>9. Children(ps, R \cap C) \subseteq R \cap C
    <3>1. SUFFICES ASSUME NEW u \in Children(ps, R \cap C) PROVE u \in R \cap C
      OBVIOUS
    <3>2. PICK i \in DOMAIN rs : ps[i].urn = u /\ ps[i].parent \in R \cap C
      BY <1>1, <3>1 DEF Children
    <3>3. u \in R
      BY <1>1, <2>4, <3>2 DEF Children
    <3>4. PICK k \in DOMAIN hs : hs[k] = ps[i]
      BY <1>1, <1>2, <3>2, <3>3
    <3>5. u \in Children(hs, C)
      BY <3>2, <3>4 DEF Children
    <3> QED
      BY <1>4, <3>3, <3>5
  <2>10. R \subseteq R \cap C
    BY <1>1, <2>1, <2>3, <2>8, <2>9, ReachableClosed
  <2> QED
    BY <2>6, <2>7, <2>10 DEF hs, C
<1> QED
  BY <1>5, <1>6

\* A repair leaves what it need not touch as it was, in its place.
LEMMA RepairedUnharmed ==
  ASSUME NEW rs \in Resources, NEW V, V \subseteq Kept(rs), V \cap Dangling(rs) = {}
  PROVE  Among(Repaired(rs), V) = Among(rs, V)
<1> DEFINE ps == Patched(rs)
           hs == Repaired(rs)
           I == {i \in DOMAIN ps : ps[i].urn \in Kept(rs)}
           K == {r \in Resource : r.urn \in V}
<1>1. /\ ps \in Seq(Resource) /\ rs \in Seq(Resource)
      /\ DOMAIN ps = DOMAIN rs /\ Len(ps) = Len(rs) /\ DOMAIN rs = 1..Len(rs)
      /\ \A k \in DOMAIN rs :
            ps[k].urn = rs[k].urn /\ (rs[k].urn \notin Dangling(rs) => ps[k] = rs[k])
  BY PatchedAt, ResourceAt DEF Resources
<1>2. hs = SelectAt(ps, I)
  BY DEF Repaired, Among
<1>3. hs \in Resources
  BY RepairedElements
<1>4. Hits(hs, K) = {k \in DOMAIN hs : hs[k].urn \in V}
  <2> HIDE DEF hs
  <2> QED
    BY <1>3, ResourceAt DEF Hits
<1>5. Among(hs, V) = SelectAt(ps, I \cap Hits(ps, K))
  <2> HIDE DEF ps, hs, I, K
  <2>1. Among(hs, V) = SelectAt(hs, Hits(hs, K))
    BY <1>4 DEF Among
  <2> QED
    BY <1>1, <1>2, <2>1, SelectAtTwice
<1>6. \A i \in 1..Len(ps) :
        /\ i \in I \cap Hits(ps, K) <=> i \in {k \in DOMAIN rs : rs[k].urn \in V}
        /\ i \in I \cap Hits(ps, K) => ps[i] = rs[i]
  <2>1. SUFFICES ASSUME NEW i \in DOMAIN rs
                 PROVE  /\ i \in I \cap Hits(ps, K) <=> rs[i].urn \in V
                        /\ rs[i].urn \in V => ps[i] = rs[i]
    BY <1>1
  <2>2. i \in Hits(ps, K) <=> rs[i].urn \in V
    <3>1. ps \in Resources
      BY PatchedAt
    <3>2. i \in DOMAIN ps /\ ps[i] \in Resource
      BY <1>1, <3>1, ResourceAt
    <3> QED
      BY <1>1, <3>2 DEF Hits
  <2>3. rs[i].urn \in V => i \in I
    BY <1>1
  <2>4. rs[i].urn \in V => rs[i].urn \notin Dangling(rs)
    OBVIOUS
  <2> QED
    BY <1>1, <2>2, <2>3, <2>4
<1>7. SelectAt(ps, I \cap Hits(ps, K)) = SelectAt(rs, {k \in DOMAIN rs : rs[k].urn \in V})
  <2> HIDE DEF ps, I, K
  <2> QED
    BY <1>1, <1>6, SelectAtSame
<1> QED
  BY <1>5, <1>7 DEF Among

-----------------------------------------------------------------------------
(* The invariant. *)

\* What the row holds: some resources, or the repair of those that were there.
RepairInv ==
    IF broken = <<>> THEN headResources \in Resources
    ELSE broken \in Resources /\ headResources = Repaired(broken)

\* A repair as the invariant remembers it is sound.
LEMMA RepairedSound ==
  ASSUME RepairInv
  PROVE  RepairSound
<1>1. SUFFICES ASSUME broken # <<>> PROVE RepairSound
  BY DEF RepairSound
<1>2. broken \in Resources /\ headResources = Repaired(broken)
  BY <1>1 DEF RepairInv
<1>3. LET unharmed == Sound(broken) \ Dangling(broken) IN
      Among(headResources, unharmed) = Among(broken, unharmed)
  BY <1>2, SoundKept, RepairedUnharmed
<1>4. ASSUME \A i \in DOMAIN broken : broken[i].parent \notin UrnsIn(broken)
      PROVE  Len(headResources) = Len(broken)
  <2> DEFINE ps == Patched(broken)
  <2>1. /\ ps \in Seq(Resource) /\ Len(ps) = Len(broken) /\ DOMAIN ps = DOMAIN broken
        /\ DOMAIN broken = 1..Len(broken)
        /\ \A i \in DOMAIN broken : ps[i].urn = broken[i].urn /\ broken[i].urn \in UrnsIn(broken)
    BY <1>2, PatchedAt, ResourceAt DEF Resources
  <2>2. Kept(broken) = UrnsIn(broken)
    BY <1>4 DEF Kept, HasValidEdges
  <2>3. Repaired(broken) = SelectAt(ps, {i \in DOMAIN ps : ps[i].urn \in Kept(broken)})
    BY DEF Repaired, Among
  <2> HIDE DEF ps
  <2>4. 1..Len(ps) \subseteq {i \in DOMAIN ps : ps[i].urn \in Kept(broken)}
    BY <2>1, <2>2
  <2>5. Repaired(broken) = ps
    BY <2>1, <2>3, <2>4, SelectAtAll
  <2> QED
    BY <1>2, <2>1, <2>5
<1>5. ASSUME Unique(broken)
      PROVE  Mutations(headResources) = {} /\ Sound(headResources) = UrnsIn(headResources)
  BY <1>2, <1>5, RepairedElements, RepairedWhole, WholeTree
<1> QED
  BY <1>3, <1>4, <1>5 DEF RepairSound

\* A repair keeps what has a sound way to a root as it was, empties no tree
\* without valid edges, and leaves nothing for a second repair: for any number of
\* resources, any parents and any circles among them.
THEOREM RepairAlwaysSound == RepairSpec => []RepairSound
<1>1. RepairInit => RepairInv
  BY EmptySeq DEF RepairInit, RepairInv, Resources
<1>2. RepairInv /\ [RepairNext]_repairVars => RepairInv'
  <2> SUFFICES ASSUME RepairInv, [RepairNext]_repairVars PROVE RepairInv'
    OBVIOUS
  <2>1. CASE StoreHead
    <3>1. headResources' \in BoundedSeq(Resource, MaxResources) /\ broken' = <<>>
      BY <2>1 DEF StoreHead
    <3>2. PICK n \in 0..MaxResources : headResources' \in [1..n -> Resource]
      BY <3>1 DEF BoundedSeq, SeqOf
    <3>3. headResources' \in Resources
      BY <3>2, SeqDef, RepairAssumption DEF Resources
    <3> QED
      BY <3>1, <3>3 DEF RepairInv
  <2>2. CASE RepairHead
    <3>1. headResources \in Resources /\ headResources' = Repaired(headResources)
          /\ broken' = headResources
      BY <2>2 DEF RepairHead, RepairInv
    <3>2. Repaired(headResources) \in Resources
      BY <3>1, RepairedElements
    <3> QED
      BY <3>1, <3>2 DEF RepairInv
  <2>3. CASE UNCHANGED repairVars
    BY <2>3 DEF RepairInv, repairVars
  <2> QED
    BY <2>1, <2>2, <2>3 DEF RepairNext
<1>3. RepairInv => RepairSound
  BY RepairedSound
<1> QED
  BY <1>1, <1>2, <1>3, PTL DEF RepairSpec

-----------------------------------------------------------------------------
(* Text edits: texts. *)

\* An edit anywhere, with any text.
AnyEdits == [start : Nat, end : Nat, newText : Seq(Bytes)]

\* Concatenation and pieces of a text, as operators the provers leave alone.
Join(r, s) == r \o s
Piece(s, l, a) == SubSeq(s, l + 1, a)

\* Concatenation is associative, with the empty text as its neutral element.
LEMMA JoinFacts ==
  /\ <<>> \in Seq(Bytes)
  /\ \A r, s \in Seq(Bytes) : Join(r, s) \in Seq(Bytes)
  /\ \A r \in Seq(Bytes) : Join(r, <<>>) = r /\ Join(<<>>, r) = r
  /\ \A r, s, t \in Seq(Bytes) : Join(Join(r, s), t) = Join(r, Join(s, t))
<1>1. <<>> \in Seq(Bytes)
  BY EmptySeq
<1>2. \A r, s \in Seq(Bytes) : Join(r, s) \in Seq(Bytes)
  BY ConcatProperties DEF Join
<1>3. \A r \in Seq(Bytes) : Join(r, <<>>) = r /\ Join(<<>>, r) = r
  BY ConcatEmptySeq DEF Join
<1>4. \A r, s, t \in Seq(Bytes) : Join(Join(r, s), t) = Join(r, Join(s, t))
  BY ConcatAssociative DEF Join
<1> QED
  BY <1>1, <1>2, <1>3, <1>4

\* The last of these facts on its own.
LEMMA JoinAssoc == \A r, s, t \in Seq(Bytes) : Join(Join(r, s), t) = Join(r, Join(s, t))
BY JoinFacts

\* Selecting nothing.
LEMMA SelectAtNone ==
  ASSUME NEW S, NEW s \in Seq(S), NEW I, \A i \in 1..Len(s) : i \notin I
  PROVE  SelectAt(s, I) = <<>>
<1>1. PICK p : Picks(p, s, I, S) /\ p[Len(s)] = SelectAt(s, I)
  BY SelectAtPicks
<1>2. Len(s) \in Nat /\ 0 \in Nat /\ 0 <= Len(s) /\ \A i \in (0 + 1)..Len(s) : i \notin I
  BY LenProperties
<1>3. p[Len(s)] = p[0]
  BY <1>1, <1>2, PicksStop
<1> QED
  BY <1>1, <1>3 DEF Picks

-----------------------------------------------------------------------------
(* The texts of the edits at some positions. *)

\* The texts of some edits.
NewTexts(u) == [k \in DOMAIN u |-> u[k].newText]

\* The new texts of edits, one for each.
LEMMA NewTextsType ==
  ASSUME NEW u \in Seq(AnyEdits)
  PROVE  NewTexts(u) \in Seq(Seq(Bytes)) /\ Len(NewTexts(u)) = Len(u)
<1>1. Len(u) \in Nat /\ DOMAIN u = 1..Len(u) /\ \A k \in 1..Len(u) : u[k] \in AnyEdits
  BY LenProperties, ElementOfSeq
<1>2. \A k \in 1..Len(u) : u[k].newText \in Seq(Bytes)
  BY <1>1 DEF AnyEdits
<1>3. NewTexts(u) \in [1..Len(u) -> Seq(Bytes)]
  BY <1>1, <1>2 DEF NewTexts
<1> QED
  BY <1>1, <1>3

\* One edit more has one text more.
LEMMA NewTextsAppend ==
  ASSUME NEW u \in Seq(AnyEdits), NEW e \in AnyEdits
  PROVE  NewTexts(Append(u, e)) = Append(NewTexts(u), e.newText)
<1> DEFINE v == Append(u, e)
           w == Append(NewTexts(u), e.newText)
<1>1. /\ v \in Seq(AnyEdits) /\ Len(v) = Len(u) + 1 /\ v[Len(u) + 1] = e
      /\ \A i \in 1..Len(u) : v[i] = u[i]
  BY AppendProperties
<1>2. e.newText \in Seq(Bytes) /\ Len(u) \in Nat
  BY LenProperties DEF AnyEdits
<1>3. NewTexts(u) \in Seq(Seq(Bytes)) /\ Len(NewTexts(u)) = Len(u)
  BY NewTextsType
<1>4. /\ w \in Seq(Seq(Bytes)) /\ Len(w) = Len(u) + 1 /\ w[Len(u) + 1] = e.newText
      /\ \A i \in 1..Len(u) : w[i] = NewTexts(u)[i]
  BY <1>2, <1>3, AppendProperties
<1>5. NewTexts(v) \in Seq(Seq(Bytes)) /\ Len(NewTexts(v)) = Len(u) + 1
  BY <1>1, NewTextsType
<1>6. DOMAIN v = 1..(Len(u) + 1) /\ DOMAIN u = 1..Len(u)
  BY <1>1, LenProperties
<1> HIDE DEF v, w
<1>7. ASSUME NEW i \in 1..(Len(u) + 1)
      PROVE  NewTexts(v)[i] = w[i]
  <2>1. NewTexts(v)[i] = v[i].newText
    BY <1>6 DEF NewTexts
  <2>2. CASE i = Len(u) + 1
    BY <1>1, <1>4, <2>1, <2>2
  <2>3. CASE i # Len(u) + 1
    <3>1. i \in 1..Len(u)
      BY <1>2, <2>3
    <3>2. NewTexts(u)[i] = u[i].newText
      BY <1>6, <3>1 DEF NewTexts
    <3> QED
      BY <1>1, <1>4, <2>1, <3>1, <3>2
  <2> QED
    BY <2>2, <2>3
<1>8. NewTexts(v) = w
  BY <1>4, <1>5, <1>7, SeqEqual
<1> QED
  BY <1>8 DEF v, w

\* Texts in terms of the two recursive operators.
LEMMA TextsAre ==
  ASSUME NEW edits, NEW I
  PROVE  TextsOf(edits, I) = FlattenSeq(NewTexts(SelectAt(edits, I)))
BY DEF TextsOf, NewTexts

\* The texts of edits make a text.
LEMMA TextsType ==
  ASSUME NEW S \in Seq(AnyEdits), NEW I
  PROVE  TextsOf(S, I) \in Seq(Bytes)
<1>1. SelectAt(S, I) \in Seq(AnyEdits)
  BY SelectAtType
<1>2. NewTexts(SelectAt(S, I)) \in Seq(Seq(Bytes))
  BY <1>1, NewTextsType
<1> QED
  BY <1>2, FlattenType, TextsAre

\* They depend on nothing but the positions that exist.
LEMMA TextsSame ==
  ASSUME NEW S \in Seq(AnyEdits), NEW I, NEW J, \A i \in 1..Len(S) : i \in I <=> i \in J
  PROVE  TextsOf(S, I) = TextsOf(S, J)
<1>1. SelectAt(S, I) = SelectAt(S, J)
  BY SelectAtSame
<1> QED
  BY <1>1, TextsAre

\* No edits have no text.
LEMMA TextsNone ==
  ASSUME NEW S \in Seq(AnyEdits), NEW I, \A i \in 1..Len(S) : i \notin I
  PROVE  TextsOf(S, I) = <<>>
<1>1. SelectAt(S, I) = <<>>
  BY SelectAtNone
<1>2. NewTexts(<<>>) = <<>>
  <2>1. <<>> \in Seq(AnyEdits) /\ Len(<<>>) = 0
    BY EmptySeq
  <2>2. NewTexts(<<>>) \in Seq(Seq(Bytes)) /\ Len(NewTexts(<<>>)) = 0
    BY <2>1, NewTextsType
  <2> QED
    BY <2>2, EmptySeq
<1> QED
  BY <1>1, <1>2, TextsAre, FlattenEmpty

\* One edit more, after the others, adds its text at the end.
LEMMA TextsNext ==
  ASSUME NEW S \in Seq(AnyEdits), NEW I, NEW k \in Nat, k + 1 <= Len(S)
  PROVE  TextsOf(S, I \cap 1..(k + 1)) =
           IF k + 1 \in I THEN TextsOf(S, I \cap 1..k) \o S[k + 1].newText ELSE TextsOf(S, I \cap 1..k)
<1> DEFINE u == SelectAt(S, I \cap 1..k)
<1>2. u \in Seq(AnyEdits)
  BY SelectAtType
<1>3. S[k + 1] \in AnyEdits
  <2>1. k + 1 \in 1..Len(S)
    BY LenProperties
  <2> QED
    BY <2>1, ElementOfSeq
<1>1. SelectAt(S, I \cap 1..(k + 1)) = IF k + 1 \in I THEN Append(u, S[k + 1]) ELSE u
  <2> DEFINE m == k + 1
             e == S[k + 1]
  <2>1. m \in 1..Len(S) /\ m = k + 1 /\ e \in AnyEdits /\ e = S[m]
    BY <1>3, LenProperties
  <2> HIDE DEF m, e
  <2>2. m \in I => SelectAt(S, I \cap 1..m) = Append(SelectAt(S, I \cap 1..k), e)
    BY <2>1, SelectAtTaken
  <2>3. m \notin I => SelectAt(S, I \cap 1..m) = SelectAt(S, I \cap 1..k)
    BY <2>1, SelectAtSkipped
  <2> QED
    BY <2>1, <2>2, <2>3
<1>4. S[k + 1].newText \in Seq(Bytes)
  BY <1>3 DEF AnyEdits
<1> HIDE DEF u
<1>5. NewTexts(Append(u, S[k + 1])) = Append(NewTexts(u), S[k + 1].newText)
  BY <1>2, <1>3, NewTextsAppend
<1>6. NewTexts(u) \in Seq(Seq(Bytes))
  BY <1>2, NewTextsType
<1>7. FlattenSeq(Append(NewTexts(u), S[k + 1].newText)) = FlattenSeq(NewTexts(u)) \o S[k + 1].newText
  BY <1>4, <1>6, FlattenAppend
<1>8. TextsOf(S, I \cap 1..k) = FlattenSeq(NewTexts(u))
  BY TextsAre DEF u
<1>9. TextsOf(S, I \cap 1..(k + 1)) = FlattenSeq(NewTexts(SelectAt(S, I \cap 1..(k + 1))))
  BY TextsAre
<1> QED
  BY <1>1, <1>5, <1>7, <1>8, <1>9

\* The text of one edit.
LEMMA TextsOne ==
  ASSUME NEW S \in Seq(AnyEdits), NEW k \in 1..Len(S), NEW I, \A i \in 1..Len(S) : i \in I <=> i = k
  PROVE  TextsOf(S, I) = S[k].newText
<1>1. Len(S) \in Nat
  BY LenProperties
<1> DEFINE m == k - 1
<1>2. m \in Nat /\ k = m + 1 /\ m + 1 <= Len(S)
  BY <1>1
<1> HIDE DEF m
<1>3. TextsOf(S, I) = TextsOf(S, I \cap 1..(m + 1))
  <2>1. \A i \in 1..Len(S) : i \in I <=> i \in I \cap 1..(m + 1)
    BY <1>1, <1>2
  <2> QED
    BY <2>1, TextsSame
<1>4. TextsOf(S, I \cap 1..m) = <<>>
  <2>1. \A i \in 1..Len(S) : i \notin I \cap 1..m
    BY <1>1, <1>2
  <2> QED
    BY <2>1, TextsNone
<1>5. k \in I /\ S[k] \in AnyEdits
  BY ElementOfSeq
<1>6. TextsOf(S, I \cap 1..(m + 1)) = TextsOf(S, I \cap 1..m) \o S[m + 1].newText
  BY <1>2, <1>5, TextsNext
<1>7. S[k].newText \in Seq(Bytes)
  BY <1>5 DEF AnyEdits
<1> QED
  BY <1>2, <1>3, <1>4, <1>6, <1>7, ConcatEmptySeq

-----------------------------------------------------------------------------
(* What the bytes of the old text and the edits account for, byte by byte. *)

\* What stands at each byte in the new text.
Rows(before, S) == [p \in 1..(Len(before) + 1) |-> BytesAt(before, S, p)]

\* The edits follow one another, and stay inside the text.
Chained(S, L) ==
    /\ \A i \in 1..Len(S) : S[i].start <= S[i].end /\ S[i].end <= L
    /\ \A i, j \in 1..Len(S) : i < j => S[i].end <= S[j].start

\* g[a] is what the first a bytes of the old text account for.
Context(before, S, g) ==
    /\ before \in Seq(Bytes) /\ S \in Seq(AnyEdits) /\ Chained(S, Len(before))
    /\ Joins(g, Rows(before, S), Bytes)

\* What stands at one byte is a text.
LEMMA BytesAtType ==
  ASSUME NEW before \in Seq(Bytes), NEW S \in Seq(AnyEdits), NEW p \in 1..(Len(before) + 1)
  PROVE  BytesAt(before, S, p) \in Seq(Bytes)
<1> DEFINE last == IF p > Len(before) \/ Covered(S, p) THEN <<>> ELSE <<before[p]>>
<1>1. last \in Seq(Bytes)
  <2>1. CASE p > Len(before) \/ Covered(S, p)
    BY <2>1, EmptySeq
  <2>2. CASE ~(p > Len(before) \/ Covered(S, p))
    <3>1. p \in 1..Len(before)
      BY <2>2, LenProperties
    <3>2. before[p] \in Bytes
      BY <3>1, ElementOfSeq
    <3> QED
      BY <2>2, <3>2
  <2> QED
    BY <2>1, <2>2
<1>2. TextsOf(S, InsertedAt(S, p - 1)) \in Seq(Bytes) /\ TextsOf(S, ReplacedAt(S, p - 1)) \in Seq(Bytes)
  BY TextsType
<1>3. BytesAt(before, S, p) = TextsOf(S, InsertedAt(S, p - 1)) \o TextsOf(S, ReplacedAt(S, p - 1)) \o last
  BY DEF BytesAt
<1> HIDE DEF last
<1> QED
  BY <1>1, <1>2, <1>3, ConcatProperties

\* What stands at each byte, one text for each and one for the end.
LEMMA RowsType ==
  ASSUME NEW before \in Seq(Bytes), NEW S \in Seq(AnyEdits)
  PROVE  Rows(before, S) \in Seq(Seq(Bytes)) /\ Len(Rows(before, S)) = Len(before) + 1
<1>1. Len(before) + 1 \in Nat
  BY LenProperties
<1>2. Rows(before, S) \in [1..(Len(before) + 1) -> Seq(Bytes)]
  BY BytesAtType DEF Rows
<1> HIDE DEF Rows
<1> QED
  BY <1>1, <1>2

\* Going on by one byte adds what stands there.
LEMMA RowNext ==
  ASSUME NEW before, NEW S, NEW g, Context(before, S, g), NEW a \in 0..Len(before)
  PROVE  g[a] \in Seq(Bytes) /\ g[a + 1] = Join(g[a], BytesAt(before, S, a + 1))
<1>1. Len(Rows(before, S)) = Len(before) + 1 /\ Len(before) \in Nat
  BY RowsType, LenProperties DEF Context
<1>2. a + 1 \in 1..(Len(before) + 1) /\ a + 1 \in 0..(Len(before) + 1) /\ a \in 0..(Len(before) + 1)
      /\ (a + 1) - 1 = a
  BY <1>1
<1>3. Rows(before, S)[a + 1] = BytesAt(before, S, a + 1)
  BY <1>2 DEF Rows
<1> QED
  BY <1>1, <1>2, <1>3 DEF Context, Joins, Join

\* The edits that begin at a byte.
LEMMA PositionsAre ==
  ASSUME NEW S \in Seq(AnyEdits), NEW a, NEW i
  PROVE  /\ i \in InsertedAt(S, a) <=> i \in 1..Len(S) /\ S[i].start = S[i].end /\ S[i].start = a
         /\ i \in ReplacedAt(S, a) <=> i \in 1..Len(S) /\ S[i].start # S[i].end /\ S[i].start = a
BY LenProperties DEF InsertedAt, ReplacedAt, Inserts

\* An edit's numbers and text.
LEMMA EditType ==
  ASSUME NEW S \in Seq(AnyEdits), NEW i \in 1..Len(S)
  PROVE  S[i].start \in Nat /\ S[i].end \in Nat /\ S[i].newText \in Seq(Bytes)
<1>1. S[i] \in AnyEdits
  BY ElementOfSeq
<1> QED
  BY <1>1 DEF AnyEdits

\* The texts inserted at a by the first k edits.
InsertsUpTo(S, a, k) == TextsOf(S, InsertedAt(S, a) \cap 1..k)

\* What is inserted at a byte is a text.
LEMMA InsertsType ==
  ASSUME NEW S \in Seq(AnyEdits), NEW a, NEW k
  PROVE  InsertsUpTo(S, a, k) \in Seq(Bytes)
BY TextsType DEF InsertsUpTo

\* The edits up to k end at l or before, the others begin at a or after.
Between(S, k, l, a) ==
    /\ \A i \in 1..Len(S) : i <= k => S[i].end <= l
    /\ \A i \in 1..Len(S) : k < i => a <= S[i].start

\* The bytes between the end of one edit and the start of the next stay.
LEMMA GapBytes ==
  ASSUME NEW before, NEW S, NEW g, Context(before, S, g),
         NEW k \in Nat, NEW l \in 0..Len(before), NEW a \in l..Len(before), Between(S, k, l, a)
  PROVE  Join(Join(g[l], InsertsUpTo(S, l, k)), Piece(before, l, a)) = Join(g[a], InsertsUpTo(S, a, k))
<1> DEFINE b == Join(g[l], InsertsUpTo(S, l, k))
<1>1. before \in Seq(Bytes) /\ S \in Seq(AnyEdits) /\ Chained(S, Len(before)) /\ Len(before) \in Nat
      /\ Len(S) \in Nat /\ l \in Nat /\ a \in Nat
  BY LenProperties DEF Context
<1>2. g[l] \in Seq(Bytes) /\ InsertsUpTo(S, l, k) \in Seq(Bytes) /\ b \in Seq(Bytes)
  BY <1>1, RowNext, InsertsType, JoinFacts
<1>3. CASE a = l
  <2>1. Piece(before, l, a) = <<>>
    BY <1>1, <1>3, SubSeqEmpty DEF Piece
  <2> HIDE DEF b
  <2>2. Join(b, Piece(before, l, a)) = b
    BY <1>2, <2>1, JoinFacts
  <2> QED
    BY <1>3, <2>2 DEF b
<1>4. CASE a # l
  <2>1. l < a
    BY <1>1, <1>4
  <2>2. InsertsUpTo(S, l, k) = TextsOf(S, InsertedAt(S, l))
    <3>1. ASSUME NEW i \in 1..Len(S)
          PROVE  i \in InsertedAt(S, l) \cap 1..k <=> i \in InsertedAt(S, l)
      <4>1. i \in InsertedAt(S, l) => i <= k
        BY <1>1, <2>1, EditType, PositionsAre DEF Between
      <4> QED
        BY <1>1, <4>1
    <3> QED
      BY <1>1, <3>1, TextsSame DEF InsertsUpTo
  <2>3. ASSUME NEW p \in l..(a - 1)
        PROVE  /\ TextsOf(S, ReplacedAt(S, p)) = <<>>
               /\ p # l => TextsOf(S, InsertedAt(S, p)) = <<>>
    <3>1. ASSUME NEW i \in 1..Len(S)
          PROVE  i \notin ReplacedAt(S, p) /\ (p # l => i \notin InsertedAt(S, p))
      <4>1. /\ S[i].start \in Nat /\ S[i].end \in Nat /\ S[i].start <= S[i].end
            /\ i <= k => S[i].end <= l
            /\ k < i => a <= S[i].start
        BY <1>1, EditType DEF Between, Chained
      <4>2. S[i].start = p => S[i].start = S[i].end /\ p = l
        BY <1>1, <4>1
      <4> QED
        BY <1>1, <4>2, PositionsAre
    <3> QED
      BY <1>1, <3>1, TextsNone DEF InsertsUpTo
  <2>4. ASSUME NEW p \in l..(a - 1)
        PROVE  ~Covered(S, p + 1)
    BY <1>1, EditType, LenProperties DEF Covered, Between
  <2>5. ASSUME NEW p \in l..(a - 1)
        PROVE  BytesAt(before, S, p + 1) =
                 IF p = l THEN Join(TextsOf(S, InsertedAt(S, l)), <<before[l + 1]>>) ELSE <<before[p + 1]>>
    <3>1. p + 1 \in 1..Len(before) /\ (p + 1) - 1 = p /\ ~(p + 1 > Len(before))
      BY <1>1
    <3>2. BytesAt(before, S, p + 1) =
            Join(Join(TextsOf(S, InsertedAt(S, p)), TextsOf(S, ReplacedAt(S, p))), <<before[p + 1]>>)
      BY <2>4, <3>1 DEF BytesAt, Join
    <3>3. TextsOf(S, InsertedAt(S, p)) \in Seq(Bytes)
      BY <1>1, TextsType
    <3>4. BytesAt(before, S, p + 1) = Join(TextsOf(S, InsertedAt(S, p)), <<before[p + 1]>>)
      BY <2>3, <3>2, <3>3, JoinFacts
    <3>5. <<before[p + 1]>> \in Seq(Bytes)
      BY <1>1, <3>1, ElementOfSeq
    <3>6. CASE p = l
      BY <3>4, <3>6
    <3>7. CASE p # l
      BY <2>3, <3>4, <3>5, <3>7, JoinFacts
    <3> QED
      BY <3>6, <3>7
  <2> DEFINE part(p) == Piece(before, l, p)
             one(p) == <<before[p]>>
             ins == InsertsUpTo(S, l, k)
  <2>6. ASSUME NEW p \in l..(a - 1)
        PROVE  /\ part(p + 1) = Join(part(p), one(p + 1))
               /\ part(p) \in Seq(Bytes) /\ one(p + 1) \in Seq(Bytes)
               /\ p = l => part(p) = <<>>
               /\ g[p + 1] = Join(g[p], BytesAt(before, S, p + 1))
               /\ g[p] \in Seq(Bytes)
    <3>1. /\ p \in 0..Len(before) /\ p + 1 \in 1..Len(before) /\ (p + 1) - 1 = p
          /\ l + 1 \in 1..Len(before) /\ p + 1 \in (l + 1)..Len(before) /\ p \in Int /\ l + 1 \in Int
      BY <1>1
    <3>2. part(p + 1) = Join(part(p), one(p + 1))
      BY <1>1, <3>1, SubSeqRecursiveSecond DEF Join, Piece
    <3>3. one(p + 1) \in Seq(Bytes)
      BY <1>1, <3>1, ElementOfSeq
    <3>4. part(p) \in Seq(Bytes)
      <4>1. \A i \in (l + 1)..p : before[i] \in Bytes
        BY <1>1, <3>1, ElementOfSeq
      <4> QED
        BY <3>1, <4>1, SubSeqProperties DEF Piece
    <3>5. p = l => part(p) = <<>>
      BY <1>1, SubSeqEmpty DEF Piece
    <3>6. g[p + 1] = Join(g[p], BytesAt(before, S, p + 1)) /\ g[p] \in Seq(Bytes)
      BY <3>1, RowNext
    <3> QED
      BY <3>2, <3>3, <3>4, <3>5, <3>6
  <2>7. ASSUME NEW p \in l..(a - 1)
        PROVE  BytesAt(before, S, p + 1) = IF p = l THEN Join(ins, one(p + 1)) ELSE one(p + 1)
    BY <2>2, <2>5
  <2> DEFINE sum(p) == Join(b, part(p))
             P == {p \in Nat : l < p /\ p <= a => g[p] = sum(p)}
  <2>8. g[a] = sum(a)
    <3> HIDE DEF part, one, ins
    <3>1. b = Join(g[l], ins)
      BY DEF ins
    <3>2. ins \in Seq(Bytes)
      BY <1>2 DEF ins
    <3> HIDE DEF b
    <3>3. ASSUME NEW p \in l..(a - 1), p # l => g[p] = sum(p)
          PROVE  g[p + 1] = sum(p + 1)
      <4>1. /\ part(p + 1) = Join(part(p), one(p + 1))
            /\ part(p) \in Seq(Bytes) /\ one(p + 1) \in Seq(Bytes)
            /\ p = l => part(p) = <<>>
            /\ g[p + 1] = Join(g[p], BytesAt(before, S, p + 1))
        BY <2>6
      <4>2. CASE p = l
        <5>1. g[p + 1] = Join(g[l], Join(ins, one(p + 1)))
          BY <2>7, <4>1, <4>2
        <5>2. Join(g[l], Join(ins, one(p + 1))) = Join(b, one(p + 1))
          <6>1. Join(Join(g[l], ins), one(p + 1)) = Join(g[l], Join(ins, one(p + 1)))
            <7>1. g[l] \in Seq(Bytes) /\ one(p + 1) \in Seq(Bytes)
              BY <1>2, <4>1
            <7> QED
              BY <3>2, <7>1, JoinAssoc
          <6> QED
            BY <3>1, <6>1
        <5>3. part(p + 1) = one(p + 1)
          BY <4>1, <4>2, JoinFacts
        <5> QED
          BY <5>1, <5>2, <5>3
      <4>3. CASE p # l
        <5>1. g[p + 1] = Join(Join(b, part(p)), one(p + 1))
          BY <2>7, <3>3, <4>1, <4>3
        <5>2. Join(Join(b, part(p)), one(p + 1)) = Join(b, Join(part(p), one(p + 1)))
          BY <1>2, <4>1, JoinFacts
        <5> QED
          BY <4>1, <5>1, <5>2
      <4> QED
        BY <4>2, <4>3
    <3> HIDE DEF sum
    <3>4. 0 \in P
      BY <1>1
    <3>5. ASSUME NEW p \in Nat, p \in P
          PROVE  p + 1 \in P
      <4>1. SUFFICES ASSUME l < p + 1, p + 1 <= a PROVE g[p + 1] = sum(p + 1)
        OBVIOUS
      <4>2. p \in l..(a - 1) /\ (p # l => l < p) /\ p <= a
        BY <1>1, <4>1
      <4> QED
        BY <3>3, <3>5, <4>2
    <3>6. Nat \subseteq P
      <4> HIDE DEF P
      <4> QED
        BY <3>4, <3>5, InductiveSet
    <3> QED
      BY <1>1, <2>1, <3>6
  <2>9. InsertsUpTo(S, a, k) = <<>>
    <3>1. ASSUME NEW i \in 1..Len(S)
          PROVE  i \notin InsertedAt(S, a) \cap 1..k
      BY <1>1, <2>1, EditType, PositionsAre DEF Between
    <3> QED
      BY <1>1, <3>1, TextsNone DEF InsertsUpTo
  <2>10. g[a] \in Seq(Bytes)
    <3>1. a \in 0..Len(before)
      BY <1>1
    <3> QED
      BY <3>1, RowNext
  <2> QED
    BY <2>8, <2>9, <2>10, JoinFacts DEF b
<1> QED
  BY <1>3, <1>4

\* An edit that inserts, and one that replaces, account for its text.
LEMMA InsertedBytes ==
  ASSUME NEW before, NEW S, NEW g, Context(before, S, g),
         NEW k \in Nat, NEW m \in 1..Len(S), m = k + 1,
         NEW a, NEW e, a = S[m].start, e = S[m].end, Inserts(S[m]), NEW t, t = S[m].newText
  PROVE  Join(Join(g[a], InsertsUpTo(S, a, k)), t) = Join(g[e], InsertsUpTo(S, e, m))
<1>1. /\ before \in Seq(Bytes) /\ S \in Seq(AnyEdits) /\ Chained(S, Len(before)) /\ Len(before) \in Nat
      /\ a = e
  BY LenProperties DEF Context, Inserts
<1>2. a \in 0..Len(before) /\ t \in Seq(Bytes)
  BY <1>1, EditType DEF Chained
<1>3. m \in InsertedAt(S, a)
  BY <1>1, PositionsAre
<1>4. k + 1 <= Len(S)
  BY <1>1, LenProperties
<1>5. InsertsUpTo(S, a, m) = Join(InsertsUpTo(S, a, k), t)
  BY <1>1, <1>3, <1>4, TextsNext DEF InsertsUpTo, Join
<1>6. g[a] \in Seq(Bytes) /\ InsertsUpTo(S, a, k) \in Seq(Bytes)
  BY <1>1, <1>2, RowNext, InsertsType
<1>7. Join(Join(g[a], InsertsUpTo(S, a, k)), t) = Join(g[a], Join(InsertsUpTo(S, a, k), t))
  BY <1>2, <1>6, JoinAssoc
<1> QED
  BY <1>1, <1>5, <1>7

\* The same of an edit that replaces.
LEMMA ReplacedBytes ==
  ASSUME NEW before, NEW S, NEW g, Context(before, S, g),
         NEW k \in Nat, NEW m \in 1..Len(S), m = k + 1,
         NEW a, NEW e, a = S[m].start, e = S[m].end, a # e, NEW t, t = S[m].newText
  PROVE  Join(Join(g[a], InsertsUpTo(S, a, k)), t) = Join(g[e], InsertsUpTo(S, e, m))
<1>1. before \in Seq(Bytes) /\ S \in Seq(AnyEdits) /\ Chained(S, Len(before)) /\ Len(before) \in Nat
      /\ Len(S) \in Nat
  BY LenProperties DEF Context
<1>2. a \in 0..Len(before) /\ e \in 0..Len(before) /\ a < e /\ t \in Seq(Bytes)
  BY <1>1, EditType DEF Chained
<1>3. ASSUME NEW i \in 1..Len(S)
      PROVE  /\ S[i].start \in Nat /\ S[i].end \in Nat /\ S[i].start <= S[i].end
             /\ i < m => S[i].end <= a
             /\ m < i => e <= S[i].start
  BY <1>1, EditType DEF Chained
<1>4. InsertsUpTo(S, a, k) = TextsOf(S, InsertedAt(S, a))
  <2>1. ASSUME NEW i \in 1..Len(S)
        PROVE  i \in InsertedAt(S, a) \cap 1..k <=> i \in InsertedAt(S, a)
    <3>1. i \in InsertedAt(S, a) => i <= k
      BY <1>1, <1>2, <1>3, PositionsAre
    <3> QED
      BY <1>1, <3>1
  <2> QED
    BY <1>1, <2>1, TextsSame DEF InsertsUpTo
<1>5. TextsOf(S, ReplacedAt(S, a)) = t
  <2>1. ASSUME NEW i \in 1..Len(S)
        PROVE  i \in ReplacedAt(S, a) <=> i = m
    <3>1. CASE i < m
      <4>1. S[i].end <= a /\ S[i].start <= S[i].end /\ S[i].start \in Nat /\ S[i].end \in Nat
        BY <1>3, <3>1
      <4>2. S[i].start # a \/ S[i].start = S[i].end
        BY <1>1, <1>2, <4>1
      <4> QED
        BY <1>1, <1>2, <3>1, <4>2, PositionsAre
    <3>2. CASE m < i
      <4>1. e <= S[i].start /\ S[i].start \in Nat
        BY <1>3, <3>2
      <4>2. S[i].start # a
        BY <1>1, <1>2, <4>1
      <4> QED
        BY <1>1, <1>2, <3>2, <4>2, PositionsAre
    <3>3. CASE i = m
      BY <1>1, <1>2, <3>3, PositionsAre
    <3> QED
      BY <1>1, <3>1, <3>2, <3>3
  <2> QED
    BY <1>1, <2>1, TextsOne
<1>6. InsertsUpTo(S, e, m) = <<>>
  <2>1. ASSUME NEW i \in 1..Len(S)
        PROVE  i \notin InsertedAt(S, e) \cap 1..m
    <3>1. i \in 1..m => S[i].start # e
      BY <1>1, <1>2, <1>3
    <3> QED
      BY <1>1, <3>1, PositionsAre
  <2> QED
    BY <1>1, <2>1, TextsNone DEF InsertsUpTo
<1>7. ASSUME NEW p \in (a + 1)..e
      PROVE  Covered(S, p)
  <2>1. S[m].start < p /\ p <= S[m].end
    BY <1>2
  <2>2. m \in DOMAIN S
    BY <1>1, LenProperties
  <2> QED
    BY <2>1, <2>2 DEF Covered
<1>8. ASSUME NEW p \in (a + 1)..(e - 1)
      PROVE  TextsOf(S, ReplacedAt(S, p)) = <<>> /\ TextsOf(S, InsertedAt(S, p)) = <<>>
  <2>1. ASSUME NEW i \in 1..Len(S)
        PROVE  i \notin ReplacedAt(S, p) /\ i \notin InsertedAt(S, p)
    <3>1. S[i].start # p
      <4>1. /\ S[i].start \in Nat /\ S[i].end \in Nat /\ S[i].start <= S[i].end
            /\ i < m => S[i].end <= a
            /\ m < i => e <= S[i].start
        BY <1>3
      <4>2. i = m => S[i].start = a
        OBVIOUS
      <4> QED
        BY <1>1, <1>2, <4>1, <4>2
    <3> QED
      BY <1>1, <3>1, PositionsAre
  <2> QED
    BY <1>1, <2>1, TextsNone DEF InsertsUpTo
<1>9. BytesAt(before, S, a + 1) = Join(TextsOf(S, InsertedAt(S, a)), t)
  <2>1. Covered(S, a + 1) /\ (a + 1) - 1 = a
    BY <1>2, <1>7
  <2>2. BytesAt(before, S, a + 1) = Join(Join(TextsOf(S, InsertedAt(S, a)), TextsOf(S, ReplacedAt(S, a))), <<>>)
    BY <2>1 DEF BytesAt, Join
  <2>3. /\ TextsOf(S, InsertedAt(S, a)) \in Seq(Bytes)
        /\ Join(TextsOf(S, InsertedAt(S, a)), t) \in Seq(Bytes)
    BY <1>1, <1>2, TextsType, JoinFacts
  <2> QED
    BY <1>5, <2>2, <2>3, JoinFacts
<1>10. ASSUME NEW p \in (a + 1)..(e - 1)
       PROVE  BytesAt(before, S, p + 1) = <<>>
  <2>1. Covered(S, p + 1) /\ (p + 1) - 1 = p
    BY <1>2, <1>7
  <2>2. BytesAt(before, S, p + 1) = Join(Join(TextsOf(S, InsertedAt(S, p)), TextsOf(S, ReplacedAt(S, p))), <<>>)
    BY <2>1 DEF BytesAt, Join
  <2>3. <<>> \in Seq(Bytes)
    BY EmptySeq
  <2> QED
    BY <1>8, <2>2, <2>3, JoinFacts
<1> DEFINE P == {p \in Nat : a + 1 <= p /\ p <= e => g[p] = g[a + 1]}
<1>11. 0 \in P
  BY <1>2
<1>12. ASSUME NEW p \in Nat, p \in P
       PROVE  p + 1 \in P
  <2>1. SUFFICES ASSUME a + 1 <= p + 1, p + 1 <= e PROVE g[p + 1] = g[a + 1]
    OBVIOUS
  <2>2. CASE p = a
    BY <2>2
  <2>3. CASE p # a
    <3>1. p \in (a + 1)..(e - 1) /\ p \in 0..Len(before) /\ a + 1 <= p /\ p <= e
      BY <1>1, <1>2, <2>1, <2>3
    <3>2. g[p] = g[a + 1]
      BY <1>12, <3>1
    <3>3. g[p + 1] = Join(g[p], BytesAt(before, S, p + 1)) /\ g[p] \in Seq(Bytes)
      BY <3>1, RowNext
    <3>4. g[p + 1] = Join(g[p], <<>>)
      BY <1>10, <3>1, <3>3
    <3> QED
      BY <3>2, <3>3, <3>4, JoinFacts
  <2> QED
    BY <2>2, <2>3
<1>13. g[e] = g[a + 1]
  <2>1. Nat \subseteq P
    <3> HIDE DEF P
    <3> QED
      BY <1>11, <1>12, InductiveSet
  <2> QED
    BY <1>2, <2>1
<1>14. g[a + 1] = Join(g[a], BytesAt(before, S, a + 1)) /\ g[a] \in Seq(Bytes) /\ g[e] \in Seq(Bytes)
  <2>1. g[a + 1] = Join(g[a], BytesAt(before, S, a + 1)) /\ g[a] \in Seq(Bytes)
    BY <1>2, RowNext
  <2>2. g[e] \in Seq(Bytes)
    BY <1>2, RowNext
  <2> QED
    BY <2>1, <2>2
<1>15. g[e] = Join(g[a], Join(TextsOf(S, InsertedAt(S, a)), t))
  BY <1>9, <1>13, <1>14
<1>16. TextsOf(S, InsertedAt(S, a)) \in Seq(Bytes)
  BY <1>1, TextsType
<1>17. g[e] = Join(Join(g[a], TextsOf(S, InsertedAt(S, a))), t)
  <2>1. Join(Join(g[a], TextsOf(S, InsertedAt(S, a))), t) = Join(g[a], Join(TextsOf(S, InsertedAt(S, a)), t))
    <3>1. g[a] \in Seq(Bytes) /\ t \in Seq(Bytes)
      BY <1>2, <1>14
    <3> QED
      BY <1>16, <3>1, JoinAssoc
  <2> QED
    BY <1>15, <2>1
<1>18. Join(g[e], <<>>) = g[e]
  BY <1>14, JoinFacts
<1> QED
  BY <1>4, <1>6, <1>17, <1>18

\* What the loop has written when it has spliced k edits, the last to l.
Written(S, g, k, l, bytes) == bytes = Join(g[l], InsertsUpTo(S, l, k))

\* One round of the loop writes what the bytes up to the end of its edit account
\* for.
LEMMA EditBytes ==
  ASSUME NEW before, NEW S, NEW g, Context(before, S, g),
         NEW k \in Nat, NEW m \in 1..Len(S), m = k + 1,
         NEW a, NEW e, NEW t, a = S[m].start, e = S[m].end, t = S[m].newText,
         NEW l \in 0..Len(before), l <= a, Between(S, k, l, a),
         NEW bytes, Written(S, g, k, l, bytes)
  PROVE  Written(S, g, m, e, Join(Join(bytes, Piece(before, l, a)), t))
<1> DEFINE new == Join(bytes, Piece(before, l, a))
<1>1. before \in Seq(Bytes) /\ S \in Seq(AnyEdits) /\ Chained(S, Len(before)) /\ Len(before) \in Nat
  BY LenProperties DEF Context
<1>2. a \in 0..Len(before)
  BY <1>1, EditType DEF Chained
<1>3. a \in l..Len(before)
  BY <1>1, <1>2
<1>4. new = Join(g[a], InsertsUpTo(S, a, k))
  <2>1. bytes = Join(g[l], InsertsUpTo(S, l, k))
    BY DEF Written
  <2>2. Join(Join(g[l], InsertsUpTo(S, l, k)), Piece(before, l, a)) = Join(g[a], InsertsUpTo(S, a, k))
    BY <1>3, GapBytes
  <2> QED
    BY <2>1, <2>2
<1> HIDE DEF new
<1>5. CASE Inserts(S[m])
  <2>1. Join(Join(g[a], InsertsUpTo(S, a, k)), t) = Join(g[e], InsertsUpTo(S, e, m))
    BY <1>5, InsertedBytes
  <2> QED
    BY <1>4, <2>1 DEF Written, new
<1>6. CASE ~Inserts(S[m])
  <2>0. a # e
    BY <1>6 DEF Inserts
  <2>1. Join(Join(g[a], InsertsUpTo(S, a, k)), t) = Join(g[e], InsertsUpTo(S, e, m))
    BY <2>0, ReplacedBytes
  <2> QED
    BY <1>4, <2>1 DEF Written, new
<1> QED
  BY <1>5, <1>6

-----------------------------------------------------------------------------
(* The loop over the sorted edits. *)

\* What the loop can have when it has read L bytes at most.
Done(L) == [bytes : Seq(Bytes), last : 0..L] \cup {Refused}

\* d[k] is what the loop has after k edits.
Runs(d, before, S) ==
    /\ d \in [0..Len(S) -> Done(Len(before))] /\ d[0] = [bytes |-> <<>>, last |-> 0]
    /\ \A k \in 1..Len(S) : d[k] = Spliced(before, d[k - 1], S[k])

\* The loop refuses the edit.
Hit(before, done, e) == OutOfBounds(e, before) \/ Overlaps(e, done.last)

\* One round of the loop with an edit it accepts.
LEMMA SplicedResult ==
  ASSUME NEW before \in Seq(Bytes), NEW e \in AnyEdits, NEW done \in Done(Len(before)),
         done # Refused, ~Hit(before, done, e)
  PROVE  /\ Spliced(before, done, e) \in Done(Len(before)) /\ Spliced(before, done, e) # Refused
         /\ Spliced(before, done, e).last = e.end
         /\ Spliced(before, done, e).bytes = Join(Join(done.bytes, Piece(before, done.last, e.start)), e.newText)
         /\ done.last <= e.start /\ e.start <= e.end /\ e.end <= Len(before)
<1> DEFINE new == Join(Join(done.bytes, Piece(before, done.last, e.start)), e.newText)
<1>1. Len(before) \in Nat
  BY LenProperties
<1>2. done.bytes \in Seq(Bytes) /\ done.last \in 0..Len(before)
  BY DEF Done
<1>3. e.start \in Nat /\ e.end \in Nat /\ e.newText \in Seq(Bytes)
  BY DEF AnyEdits
<1>4. done.last <= e.start /\ e.start <= e.end /\ e.end <= Len(before)
  BY <1>1, <1>2, <1>3 DEF Hit, OutOfBounds, Overlaps
<1>5. Piece(before, done.last, e.start) \in Seq(Bytes)
  <2>1. \A i \in (done.last + 1)..e.start : before[i] \in Bytes
    BY <1>1, <1>2, <1>3, <1>4, ElementOfSeq
  <2>2. done.last + 1 \in Int /\ e.start \in Int
    BY <1>2, <1>3
  <2> QED
    BY <2>1, <2>2, SubSeqProperties DEF Piece
<1>6. new \in Seq(Bytes)
  BY <1>2, <1>3, <1>5, JoinFacts
<1>7. Spliced(before, done, e) = [bytes |-> new, last |-> e.end]
  BY DEF Spliced, Hit, Join, Piece
<1> HIDE DEF new
<1>8. e.end \in 0..Len(before)
  BY <1>3, <1>4
<1>9. [bytes |-> new, last |-> e.end] \in [bytes : Seq(Bytes), last : Nat]
  BY <1>3, <1>6
<1>10. [bytes |-> new, last |-> e.end] # Refused
  BY <1>9, EditsAssumption
<1>11. [bytes |-> new, last |-> e.end] \in Done(Len(before))
  BY <1>6, <1>8 DEF Done
<1> QED
  BY <1>4, <1>7, <1>10, <1>11 DEF new

\* One round of the loop.
LEMMA SplicedType ==
  ASSUME NEW before \in Seq(Bytes), NEW e \in AnyEdits, NEW done \in Done(Len(before))
  PROVE  Spliced(before, done, e) \in Done(Len(before))
<1>1. CASE done # Refused /\ ~Hit(before, done, e)
  BY <1>1, SplicedResult
<1>2. CASE ~(done # Refused /\ ~Hit(before, done, e))
  <2>1. Spliced(before, done, e) = Refused
    BY <1>2 DEF Spliced, Hit
  <2> QED
    BY <2>1 DEF Done
<1> QED
  BY <1>1, <1>2

\* What ApplyTextEdits computes, once its edits are sorted.
LEMMA ApplyRuns ==
  ASSUME NEW before \in Seq(Bytes), NEW edits, NEW S \in Seq(AnyEdits), S = Sorted(edits), Len(edits) = Len(S)
  PROVE  \E d : /\ Runs(d, before, S)
               /\ ApplyTextEdits(before, edits) =
                    IF d[Len(S)] = Refused THEN Refused
                    ELSE Join(d[Len(S)].bytes, Piece(before, d[Len(S)].last, Len(before)))
<1> DEFINE L == Len(S)
           D == Done(Len(before))
           b == [bytes |-> <<>>, last |-> 0]
           G == [n \in 1..L |-> [x \in D |-> Spliced(before, x, S[n])]]
           F(f) == [n \in 0..L |-> IF n = 0 THEN b ELSE Spliced(before, f[n - 1], S[n])]
           d == CHOOSE f : f = F(f)
<1>1. L \in Nat /\ Len(before) \in Nat
  BY LenProperties
<1>2. b \in D
  BY <1>1, EmptySeq DEF Done
<1>3. G \in [1..L -> [D -> D]]
  BY SplicedType, ElementOfSeq
<1>4. PICK g : Solves(g, L, D, b, G)
  <2> HIDE DEF L, D, b, G
  <2>1. Recursion(L, D, b, G)
    BY <1>1, <1>2, <1>3 DEF Recursion
  <2> QED
    BY <2>1, RecursionExists
<1>5. g = F(g)
  <2>1. g \in [0..L -> D] /\ g[0] = b
    BY <1>4 DEF Solves
  <2>2. ASSUME NEW n \in 0..L
        PROVE  g[n] = F(g)[n]
    <3>1. CASE n = 0
      BY <2>1, <3>1
    <3>2. CASE n # 0
      <4>1. n \in 1..L /\ n - 1 \in 0..L
        BY <1>1, <3>2
      <4>2. g[n - 1] \in D
        BY <2>1, <4>1
      <4>3. g[n] = G[n][g[n - 1]]
        BY <1>4, <4>1 DEF Solves
      <4> HIDE DEF D, b, L
      <4>4. g[n] = Spliced(before, g[n - 1], S[n])
        BY <4>1, <4>2, <4>3
      <4> QED
        BY <3>2, <4>4
    <3> QED
      BY <3>1, <3>2
  <2> QED
    BY <2>1, <2>2
<1>6. d = F(d)
  <2> HIDE DEF F
  <2> QED
    BY <1>5
<1>7. ApplyTextEdits(before, edits) =
        IF d[L] = Refused THEN Refused ELSE d[L].bytes \o SubSeq(before, d[L].last + 1, Len(before))
  BY DEF ApplyTextEdits
<1> HIDE DEF d
<1>8. d[0] = b /\ \A k \in 1..L : d[k] = Spliced(before, d[k - 1], S[k])
  <2>1. 0 \in 0..L /\ \A k \in 1..L : k \in 0..L /\ k # 0
    BY <1>1
  <2>2. \A n \in 0..L : d[n] = F(d)[n]
    BY <1>6
  <2> HIDE DEF L, b
  <2> QED
    BY <2>1, <2>2
<1>9. d \in [0..L -> D]
  <2> DEFINE P == {n \in Nat : n <= L => d[n] \in D}
  <2>1. 0 \in P
    BY <1>2, <1>8
  <2>2. ASSUME NEW n \in Nat, n \in P
        PROVE  n + 1 \in P
    <3>1. SUFFICES ASSUME n + 1 <= L PROVE d[n + 1] \in D
      OBVIOUS
    <3>2. d[n] \in D /\ n + 1 \in 1..L /\ (n + 1) - 1 = n
      BY <1>1, <2>2, <3>1
    <3>3. S[n + 1] \in AnyEdits
      BY <3>2, ElementOfSeq
    <3>4. d[n + 1] = Spliced(before, d[n], S[n + 1])
      BY <1>8, <3>2
    <3> QED
      BY <3>2, <3>3, <3>4, SplicedType
  <2>3. \A n \in 0..L : d[n] \in D
    <3> HIDE DEF P
    <3>1. Nat \subseteq P
      BY <2>1, <2>2, InductiveSet
    <3> QED
      BY <1>1, <3>1 DEF P
  <2> QED
    BY <1>6, <2>3
<1>10. Runs(d, before, S)
  BY <1>8, <1>9 DEF Runs
<1> QED
  BY <1>7, <1>10 DEF Join, Piece

\* One round of a run of the loop.
LEMMA RunStep ==
  ASSUME NEW before \in Seq(Bytes), NEW S \in Seq(AnyEdits), NEW d, Runs(d, before, S),
         NEW k \in Nat, NEW m \in 1..Len(S), m = k + 1
  PROVE  /\ d[k] \in Done(Len(before)) /\ S[m] \in AnyEdits
         /\ d[m] = Spliced(before, d[k], S[m])
<1>1. k \in 0..Len(S) /\ m - 1 = k
  BY LenProperties
<1> QED
  BY <1>1, ElementOfSeq DEF Runs

\* What is refused stays refused.
LEMMA RunRefused ==
  ASSUME NEW before \in Seq(Bytes), NEW S \in Seq(AnyEdits), NEW d, Runs(d, before, S),
         NEW k \in 0..Len(S), d[k] = Refused
  PROVE  d[Len(S)] = Refused
<1> DEFINE P == {n \in Nat : k <= n /\ n <= Len(S) => d[n] = Refused}
<1>1. Len(S) \in Nat /\ k \in Nat
  BY LenProperties
<1>2. 0 \in P
  BY <1>1
<1>3. ASSUME NEW n \in Nat, n \in P
      PROVE  n + 1 \in P
  <2>1. SUFFICES ASSUME k <= n + 1, n + 1 <= Len(S) PROVE d[n + 1] = Refused
    OBVIOUS
  <2>2. CASE k = n + 1
    BY <2>2
  <2>3. CASE k # n + 1
    <3>1. k <= n /\ n <= Len(S) /\ n + 1 \in 1..Len(S)
      BY <1>1, <2>1, <2>3
    <3>2. d[n] = Refused
      BY <1>3, <3>1
    <3>3. d[n + 1] = Spliced(before, d[n], S[n + 1])
      BY <3>1, RunStep
    <3> QED
      BY <3>2, <3>3 DEF Spliced
  <2> QED
    BY <2>2, <2>3
<1>4. Nat \subseteq P
  <2> HIDE DEF P
  <2> QED
    BY <1>2, <1>3, InductiveSet
<1>5. k <= Len(S)
  BY <1>1
<1> QED
  BY <1>1, <1>4, <1>5

\* A loop that reaches its end has met edits that follow one another.
LEMMA RunSteps ==
  ASSUME NEW before \in Seq(Bytes), NEW S \in Seq(AnyEdits), NEW d, Runs(d, before, S),
         d[Len(S)] # Refused, NEW k \in Nat, NEW m \in 1..Len(S), m = k + 1
  PROVE  /\ d[k].last \in 0..Len(before)
         /\ d[k].last <= S[m].start /\ S[m].start <= S[m].end /\ S[m].end <= Len(before)
         /\ d[m].last = S[m].end
         /\ d[m].bytes = Join(Join(d[k].bytes, Piece(before, d[k].last, S[m].start)), S[m].newText)
<1>1. d[k] \in Done(Len(before)) /\ S[m] \in AnyEdits /\ d[m] = Spliced(before, d[k], S[m])
  BY RunStep
<1>2. k \in 0..Len(S) /\ m \in 0..Len(S)
  BY LenProperties
<1>3. d[k] # Refused /\ d[m] # Refused
  BY <1>2, RunRefused
<1>4. ~Hit(before, d[k], S[m])
  BY <1>1, <1>3 DEF Spliced, Hit
<1>5. d[k].last \in 0..Len(before)
  BY <1>1, <1>3 DEF Done
<1> QED
  BY <1>1, <1>3, <1>4, <1>5, SplicedResult

\* What a loop that reaches its end has met follows one another, and its last
\* end is behind them.
LEMMA RunChained ==
  ASSUME NEW before \in Seq(Bytes), NEW S \in Seq(AnyEdits), NEW d, Runs(d, before, S),
         d[Len(S)] # Refused
  PROVE  /\ Chained(S, Len(before))
         /\ \A k \in 0..Len(S) : \A i \in 1..Len(S) : i <= k => S[i].end <= d[k].last
<1> DEFINE P == {k \in Nat : k <= Len(S) => \A i \in 1..Len(S) : i <= k => S[i].end <= d[k].last}
<1>1. Len(S) \in Nat /\ Len(before) \in Nat
  BY LenProperties
<1>2. ASSUME NEW i \in 1..Len(S)
      PROVE  /\ S[i].start \in Nat /\ S[i].end \in Nat /\ S[i].start <= S[i].end /\ S[i].end <= Len(before)
             /\ d[i].last = S[i].end
             /\ d[i - 1].last \in Nat /\ d[i - 1].last <= S[i].start
  <2> DEFINE k == i - 1
  <2>1. k \in Nat /\ i = k + 1
    BY <1>1
  <2> HIDE DEF k
  <2>2. /\ d[k].last \in 0..Len(before)
        /\ d[k].last <= S[i].start /\ S[i].start <= S[i].end /\ S[i].end <= Len(before)
        /\ d[i].last = S[i].end
    BY <2>1, RunSteps
  <2> QED
    BY <1>1, <2>2, EditType DEF k
<1>3. 0 \in P
  BY <1>1
<1>4. ASSUME NEW k \in Nat, k \in P
      PROVE  k + 1 \in P
  <2>1. SUFFICES ASSUME k + 1 <= Len(S), NEW i \in 1..Len(S), i <= k + 1
                 PROVE  S[i].end <= d[k + 1].last
    OBVIOUS
  <2>2. CASE i = k + 1
    BY <1>2, <2>2
  <2>3. CASE i # k + 1
    <3>1. i <= k /\ k <= Len(S) /\ k + 1 \in 1..Len(S) /\ (k + 1) - 1 = k
      BY <1>1, <2>1, <2>3
    <3>2. S[i].end <= d[k].last
      BY <1>4, <3>1
    <3>3. /\ d[k].last \in Nat /\ d[k].last <= S[k + 1].start /\ S[k + 1].start <= S[k + 1].end
          /\ d[k + 1].last = S[k + 1].end /\ S[k + 1].start \in Nat /\ S[k + 1].end \in Nat
      BY <1>2, <3>1
    <3>4. S[i].end \in Nat
      BY <1>2
    <3> QED
      BY <3>2, <3>3, <3>4
  <2> QED
    BY <2>2, <2>3
<1>5. Nat \subseteq P
  <2> HIDE DEF P
  <2> QED
    BY <1>3, <1>4, InductiveSet
<1>6. ASSUME NEW k \in 0..Len(S), NEW i \in 1..Len(S), i <= k
      PROVE  S[i].end <= d[k].last
  BY <1>1, <1>5, <1>6
<1>7. ASSUME NEW i \in 1..Len(S), NEW j \in 1..Len(S), i < j
      PROVE  S[i].end <= S[j].start
  <2>1. j - 1 \in 0..Len(S) /\ i <= j - 1
    BY <1>1, <1>7
  <2>2. S[i].end <= d[j - 1].last
    BY <1>6, <2>1
  <2>3. d[j - 1].last <= S[j].start /\ d[j - 1].last \in Nat /\ S[j].start \in Nat /\ S[i].end \in Nat
    BY <1>2
  <2> QED
    BY <2>2, <2>3
<1> QED
  BY <1>2, <1>6, <1>7 DEF Chained

\* After each round the loop has written what is accounted for so far.
LEMMA RunWritten ==
  ASSUME NEW before, NEW S, NEW g, Context(before, S, g), NEW d, Runs(d, before, S),
         d[Len(S)] # Refused
  PROVE  \A k \in 0..Len(S) : Written(S, g, k, d[k].last, d[k].bytes)
<1> DEFINE P == {k \in Nat : k <= Len(S) => Written(S, g, k, d[k].last, d[k].bytes)}
<1>1. /\ before \in Seq(Bytes) /\ S \in Seq(AnyEdits) /\ Len(S) \in Nat /\ Len(before) \in Nat
      /\ Chained(S, Len(before))
  BY LenProperties DEF Context
<1>2. 0 \in P
  <2>1. d[0].bytes = <<>> /\ d[0].last = 0
    BY DEF Runs
  <2>2. g[0] = <<>>
    BY DEF Context, Joins
  <2>3. InsertsUpTo(S, 0, 0) = <<>>
    <3>1. \A i \in 1..Len(S) : i \notin InsertedAt(S, 0) \cap 1..0
      BY <1>1
    <3> QED
      BY <1>1, <3>1, TextsNone DEF InsertsUpTo
  <2>4. Join(<<>>, <<>>) = <<>>
    BY JoinFacts
  <2> QED
    BY <2>1, <2>2, <2>3, <2>4 DEF Written
<1>3. ASSUME NEW k \in Nat, k \in P
      PROVE  k + 1 \in P
  <2>1. SUFFICES ASSUME k + 1 <= Len(S) PROVE Written(S, g, k + 1, d[k + 1].last, d[k + 1].bytes)
    OBVIOUS
  <2> DEFINE m == k + 1
             a == S[m].start
             e == S[m].end
             t == S[m].newText
             l == d[k].last
             bytes == d[k].bytes
  <2>2. m \in 1..Len(S) /\ m = k + 1 /\ k <= Len(S) /\ k \in 0..Len(S)
    BY <1>1, <2>1
  <2> HIDE DEF m
  <2>3. /\ l \in 0..Len(before) /\ l <= a /\ d[m].last = e
        /\ d[m].bytes = Join(Join(bytes, Piece(before, l, a)), t)
    BY <1>1, <2>2, RunSteps
  <2>4. Between(S, k, l, a)
    <3>1. \A i \in 1..Len(S) : i <= k => S[i].end <= l
      BY <1>1, <2>2, RunChained
    <3>2. ASSUME NEW i \in 1..Len(S), k < i
          PROVE  a <= S[i].start
      <4>1. i = m \/ m < i
        BY <1>1, <2>2, <3>2
      <4>2. S[m].start \in Nat /\ S[m].end \in Nat /\ S[i].start \in Nat /\ S[m].start <= S[m].end
        BY <1>1, <2>2, EditType DEF Chained
      <4>3. CASE m < i
        <5>1. S[m].end <= S[i].start
          BY <1>1, <2>2, <4>3 DEF Chained
        <5> QED
          BY <4>2, <5>1
      <4> QED
        BY <4>1, <4>2, <4>3
    <3> QED
      BY <3>1, <3>2 DEF Between
  <2>5. Written(S, g, k, l, bytes)
    BY <1>3, <2>2
  <2>6. a = S[m].start /\ e = S[m].end /\ t = S[m].newText
    OBVIOUS
  <2> HIDE DEF a, e, t, l, bytes
  <2>7. Written(S, g, m, e, Join(Join(bytes, Piece(before, l, a)), t))
    BY <2>2, <2>3, <2>4, <2>5, <2>6, EditBytes
  <2> QED
    BY <2>2, <2>3, <2>7
<1>4. Nat \subseteq P
  <2> HIDE DEF P
  <2> QED
    BY <1>2, <1>3, InductiveSet
<1> QED
  BY <1>1, <1>4

\* A loop that reaches its end has written what every byte and every edit account for.
LEMMA RunExact ==
  ASSUME NEW before \in Seq(Bytes), NEW S \in Seq(AnyEdits), NEW d, Runs(d, before, S),
         d[Len(S)] # Refused
  PROVE  Join(d[Len(S)].bytes, Piece(before, d[Len(S)].last, Len(before))) = Expected(before, S)
<1> DEFINE L == Len(before)
           n == Len(S)
           l == d[n].last
           bytes == d[n].bytes
<1>1. n \in Nat /\ L \in Nat /\ n \in 0..n /\ L \in 0..L
  BY LenProperties
<1>2. Rows(before, S) \in Seq(Seq(Bytes)) /\ Len(Rows(before, S)) = L + 1
  BY RowsType
<1>3. PICK g : Joins(g, Rows(before, S), Bytes) /\ g[L + 1] = FlattenSeq(Rows(before, S))
  <2>1. \E g : Joins(g, Rows(before, S), Bytes) /\ g[Len(Rows(before, S))] = FlattenSeq(Rows(before, S))
    BY <1>2, FlattenJoins
  <2> QED
    BY <1>2, <2>1
<1>4. Context(before, S, g)
  BY <1>3, RunChained DEF Context
<1>5. Written(S, g, n, l, bytes)
  BY <1>1, <1>4, RunWritten
<1>6. l \in 0..L
  <2>1. d[n] \in Done(L)
    BY <1>1 DEF Runs
  <2> QED
    BY <2>1 DEF Done
<1>7. Between(S, n, l, L)
  <2>1. \A i \in 1..Len(S) : S[i].end <= l
    BY <1>1, RunChained
  <2> QED
    BY <1>1, <2>1 DEF Between
<1> HIDE DEF l, bytes
<1>8. Join(bytes, Piece(before, l, L)) = Join(g[L], InsertsUpTo(S, L, n))
  <2>1. L \in l..Len(before)
    BY <1>1, <1>6
  <2> HIDE DEF n, L
  <2>2. bytes = Join(g[l], InsertsUpTo(S, l, n))
    BY <1>5 DEF Written
  <2>3. Join(Join(g[l], InsertsUpTo(S, l, n)), Piece(before, l, L)) = Join(g[L], InsertsUpTo(S, L, n))
    BY <1>1, <1>4, <1>6, <1>7, <2>1, GapBytes DEF L
  <2> QED
    BY <2>2, <2>3
<1>9. InsertsUpTo(S, L, n) = TextsOf(S, InsertedAt(S, L))
  <2>1. \A i \in 1..Len(S) : i \in InsertedAt(S, L) \cap 1..n <=> i \in InsertedAt(S, L)
    BY <1>1
  <2> QED
    BY <2>1, TextsSame DEF InsertsUpTo
<1>10. TextsOf(S, ReplacedAt(S, L)) = <<>>
  <2>1. ASSUME NEW i \in 1..Len(S)
        PROVE  i \notin ReplacedAt(S, L)
    <3>1. S[i].start \in Nat /\ S[i].end \in Nat /\ S[i].start <= S[i].end /\ S[i].end <= L
      BY <1>4, EditType DEF Context, Chained
    <3> QED
      BY <1>1, <3>1, PositionsAre
  <2> QED
    BY <2>1, TextsNone
<1>11. BytesAt(before, S, L + 1) = TextsOf(S, InsertedAt(S, L))
  <2>1. L + 1 > Len(before) /\ (L + 1) - 1 = L
    BY <1>1
  <2>2. BytesAt(before, S, L + 1) = Join(Join(TextsOf(S, InsertedAt(S, L)), TextsOf(S, ReplacedAt(S, L))), <<>>)
    BY <2>1 DEF BytesAt, Join
  <2>3. TextsOf(S, InsertedAt(S, L)) \in Seq(Bytes)
    BY TextsType
  <2> QED
    BY <1>10, <2>2, <2>3, JoinFacts
<1>12. g[L + 1] = Join(g[L], BytesAt(before, S, L + 1))
  BY <1>1, <1>4, RowNext
<1>13. Expected(before, S) = g[L + 1]
  BY <1>3 DEF Expected, Rows
<1> QED
  BY <1>8, <1>9, <1>11, <1>12, <1>13 DEF l, bytes

-----------------------------------------------------------------------------
(* Text edits: the order of the edits. *)

\* Where sorting puts each edit.
Places(edits) == [i \in 1..Len(edits) |-> Cardinality(Ahead(edits, i)) + 1]

\* The order of the edits is a strict total one.
LEMMA AheadOrder ==
  ASSUME NEW edits \in Seq(AnyEdits)
  PROVE  /\ \A i \in 1..Len(edits) : Ahead(edits, i) \subseteq 1..Len(edits) /\ i \notin Ahead(edits, i)
         /\ \A i, j \in 1..Len(edits) : i # j => i \in Ahead(edits, j) \/ j \in Ahead(edits, i)
         /\ \A i, j, k \in 1..Len(edits) :
              j \in Ahead(edits, i) /\ k \in Ahead(edits, j) => k \in Ahead(edits, i)
<1>1. Len(edits) \in Nat /\ DOMAIN edits = 1..Len(edits)
  BY LenProperties
<1>2. \A i \in 1..Len(edits) : edits[i].start \in Nat /\ edits[i].end \in Nat
  BY EditType
<1>3. ASSUME NEW i \in 1..Len(edits), NEW j \in 1..Len(edits)
      PROVE  j \in Ahead(edits, i) <=>
                \/ edits[j].start < edits[i].start
                \/ edits[j].start = edits[i].start /\ edits[j].end < edits[i].end
                \/ edits[j].start = edits[i].start /\ edits[j].end = edits[i].end /\ j < i
  <2>1. j \in Ahead(edits, i) <=> Earlier(edits[j], edits[i]) \/ (j < i /\ ~Earlier(edits[i], edits[j]))
    BY <1>1 DEF Ahead
  <2>2. /\ edits[i].start \in Nat /\ edits[i].end \in Nat /\ edits[j].start \in Nat /\ edits[j].end \in Nat
    BY <1>2
  <2> QED
    BY <2>1, <2>2 DEF Earlier
<1>4. \A i \in 1..Len(edits) : Ahead(edits, i) \subseteq 1..Len(edits) /\ i \notin Ahead(edits, i)
  <2>1. \A i \in 1..Len(edits) : Ahead(edits, i) \subseteq 1..Len(edits)
    BY <1>1 DEF Ahead
  <2>2. ASSUME NEW i \in 1..Len(edits), i \in Ahead(edits, i)
        PROVE  FALSE
    BY <1>1, <1>2, <1>3, <2>2
  <2> QED
    BY <2>1, <2>2
<1>5. ASSUME NEW i \in 1..Len(edits), NEW j \in 1..Len(edits), i # j
      PROVE  i \in Ahead(edits, j) \/ j \in Ahead(edits, i)
  BY <1>1, <1>2, <1>3, <1>5
<1>6. ASSUME NEW i \in 1..Len(edits), NEW j \in 1..Len(edits), NEW k \in 1..Len(edits),
             j \in Ahead(edits, i), k \in Ahead(edits, j)
      PROVE  k \in Ahead(edits, i)
  <2>1. i \in Nat /\ j \in Nat /\ k \in Nat
    BY <1>1
  <2> DEFINE before(x, y) == \/ edits[x].start < edits[y].start
                             \/ edits[x].start = edits[y].start /\ edits[x].end < edits[y].end
                             \/ edits[x].start = edits[y].start /\ edits[x].end = edits[y].end /\ x < y
  <2>2. before(j, i) /\ before(k, j)
    BY <1>3, <1>6
  <2>3. /\ edits[i].start \in Nat /\ edits[j].start \in Nat /\ edits[k].start \in Nat
        /\ edits[i].end \in Nat /\ edits[j].end \in Nat /\ edits[k].end \in Nat
    BY <1>2
  <2>4. before(k, i)
    BY <2>1, <2>2, <2>3
  <2> QED
    BY <1>3, <2>4
<1> QED
  BY <1>4, <1>5, <1>6

\* An edit has the place that the number of those ahead of it says.
LEMMA PlacesOrder ==
  ASSUME NEW edits \in Seq(AnyEdits), NEW i \in 1..Len(edits), NEW j \in 1..Len(edits)
  PROVE  /\ Places(edits)[i] \in 1..Len(edits)
         /\ j \in Ahead(edits, i) <=> Places(edits)[j] < Places(edits)[i]
<1>1. Len(edits) \in Nat
  BY LenProperties
<1>2. IsFiniteSet(1..Len(edits)) /\ Cardinality(1..Len(edits)) = Len(edits)
  <2>1. 1 \in Int /\ Len(edits) \in Int
    BY <1>1
  <2>2. /\ IsFiniteSet(1..Len(edits))
        /\ Cardinality(1..Len(edits)) = IF 1 > Len(edits) THEN 0 ELSE Len(edits) - 1 + 1
    BY <2>1, FS_Interval
  <2> QED
    BY <1>1, <2>2
<1>3. ASSUME NEW k \in 1..Len(edits)
      PROVE  /\ IsFiniteSet(Ahead(edits, k)) /\ Cardinality(Ahead(edits, k)) \in Nat
             /\ Cardinality(Ahead(edits, k)) < Len(edits)
             /\ Places(edits)[k] = Cardinality(Ahead(edits, k)) + 1
  <2>1. Ahead(edits, k) \subseteq 1..Len(edits) /\ k \notin Ahead(edits, k)
    BY AheadOrder
  <2>2. /\ IsFiniteSet(Ahead(edits, k)) /\ Cardinality(Ahead(edits, k)) <= Cardinality(1..Len(edits))
        /\ Cardinality(1..Len(edits)) = Cardinality(Ahead(edits, k)) => 1..Len(edits) = Ahead(edits, k)
    BY <1>2, <2>1, FS_Subset
  <2>3. Cardinality(Ahead(edits, k)) \in Nat
    BY <2>2, FS_CardinalityType
  <2> QED
    BY <1>1, <1>2, <2>1, <2>2, <2>3 DEF Places
<1>4. ASSUME NEW a \in 1..Len(edits), NEW b \in 1..Len(edits), a \in Ahead(edits, b)
      PROVE  Cardinality(Ahead(edits, a)) < Cardinality(Ahead(edits, b))
  <2>1. Ahead(edits, a) \subseteq Ahead(edits, b) /\ a \notin Ahead(edits, a)
    BY <1>4, AheadOrder
  <2>2. /\ Cardinality(Ahead(edits, a)) <= Cardinality(Ahead(edits, b))
        /\ Cardinality(Ahead(edits, b)) = Cardinality(Ahead(edits, a)) => Ahead(edits, b) = Ahead(edits, a)
    BY <1>3, <2>1, FS_Subset
  <2>3. Cardinality(Ahead(edits, a)) # Cardinality(Ahead(edits, b))
    BY <1>4, <2>1, <2>2
  <2> QED
    BY <1>3, <2>2, <2>3
<1>5. Places(edits)[i] \in 1..Len(edits)
  BY <1>1, <1>3
<1>6. j \in Ahead(edits, i) => Places(edits)[j] < Places(edits)[i]
  BY <1>3, <1>4
<1>7. ASSUME j \notin Ahead(edits, i)
      PROVE  ~(Places(edits)[j] < Places(edits)[i])
  <2>1. CASE i = j
    BY <1>1, <1>5, <2>1
  <2>2. CASE i # j
    <3>1. i \in Ahead(edits, j)
      BY <1>7, <2>2, AheadOrder
    <3>2. Cardinality(Ahead(edits, i)) < Cardinality(Ahead(edits, j))
      BY <1>4, <3>1
    <3> QED
      BY <1>3, <3>2
  <2> QED
    BY <2>1, <2>2
<1> QED
  BY <1>5, <1>6, <1>7

\* Every place is taken, by one edit.
LEMMA PlacesTaken ==
  ASSUME NEW edits \in Seq(AnyEdits)
  PROVE  /\ Places(edits) \in [1..Len(edits) -> 1..Len(edits)]
         /\ \A i, j \in 1..Len(edits) : Places(edits)[i] = Places(edits)[j] => i = j
         /\ \A k \in 1..Len(edits) : \E i \in 1..Len(edits) : Places(edits)[i] = k
<1> DEFINE D == 1..Len(edits)
           p == Places(edits)
<1>1. Len(edits) \in Nat
  BY LenProperties
<1>2. p \in [D -> D]
  <2>1. \A i \in D : p[i] \in D
    BY PlacesOrder
  <2>2. DOMAIN p = D /\ p = [i \in D |-> p[i]]
    BY DEF Places
  <2> HIDE DEF p, D
  <2> QED
    BY <2>1, <2>2
<1>3. ASSUME NEW i \in D, NEW j \in D, i # j
      PROVE  p[i] # p[j]
  <2>1. p[i] \in Nat /\ p[j] \in Nat
    BY <1>1, <1>2
  <2>2. i \in Ahead(edits, j) \/ j \in Ahead(edits, i)
    BY <1>3, AheadOrder
  <2>3. p[i] < p[j] \/ p[j] < p[i]
    BY <2>2, PlacesOrder
  <2> QED
    BY <2>1, <2>3
<1>4. IsFiniteSet(D)
  <2>1. 1 \in Int /\ Len(edits) \in Int
    BY <1>1
  <2> QED
    BY <2>1, FS_Interval
<1>5. p \in Injection(D, D)
  BY <1>2, <1>3 DEF Injection, IsInjective
<1>6. p \in Surjection(D, D)
  <2> HIDE DEF p, D
  <2> QED
    BY <1>4, <1>5, FS_Injection
<1>7. \A k \in D : \E i \in D : p[i] = k
  BY <1>6 DEF Surjection
<1> QED
  BY <1>2, <1>3, <1>7

\* Sorting puts each edit at its place.
LEMMA SortedPlaces ==
  ASSUME NEW edits \in Seq(AnyEdits)
  PROVE  /\ Sorted(edits) \in Seq(AnyEdits) /\ Len(Sorted(edits)) = Len(edits)
         /\ \A i \in 1..Len(edits) : Sorted(edits)[Places(edits)[i]] = edits[i]
<1> DEFINE D == 1..Len(edits)
           at(k) == CHOOSE i \in DOMAIN edits : Cardinality(Ahead(edits, i)) = k - 1
<1>1. Len(edits) \in Nat /\ DOMAIN edits = D
  BY LenProperties
<1>2. ASSUME NEW k \in D
      PROVE  at(k) \in D /\ Places(edits)[at(k)] = k
  <2>1. \A i \in D : Cardinality(Ahead(edits, i)) \in Int
    <3>1. ASSUME NEW i \in D
          PROVE  Cardinality(Ahead(edits, i)) \in Int
      <4>1. 1 \in Int /\ Len(edits) \in Int
        BY <1>1
      <4>2. IsFiniteSet(1..Len(edits))
        BY <4>1, FS_Interval
      <4>3. Ahead(edits, i) \subseteq 1..Len(edits)
        BY AheadOrder
      <4>4. IsFiniteSet(Ahead(edits, i))
        BY <4>2, <4>3, FS_Subset
      <4> QED
        BY <4>4, FS_CardinalityType
    <3> QED
      BY <3>1
  <2>2. PICK i \in D : Places(edits)[i] = k
    BY PlacesTaken
  <2>3. Cardinality(Ahead(edits, i)) = k - 1
    BY <2>1, <2>2 DEF Places
  <2>4. at(k) \in DOMAIN edits /\ Cardinality(Ahead(edits, at(k))) = k - 1
    BY <1>1, <2>3
  <2> HIDE DEF at
  <2> QED
    BY <1>1, <2>1, <2>4 DEF Places
<1>3. Sorted(edits) = [k \in D |-> edits[at(k)]]
  BY <1>1 DEF Sorted
<1> HIDE DEF at
<1>4. \A k \in D : edits[at(k)] \in AnyEdits
  BY <1>2, ElementOfSeq
<1>5. Sorted(edits) \in [D -> AnyEdits]
  BY <1>3, <1>4
<1>6. Sorted(edits) \in Seq(AnyEdits) /\ Len(Sorted(edits)) = Len(edits)
  BY <1>1, <1>5
<1>7. ASSUME NEW i \in D
      PROVE  Sorted(edits)[Places(edits)[i]] = edits[i]
  <2>1. Places(edits)[i] \in D
    BY PlacesTaken
  <2>2. at(Places(edits)[i]) = i
    BY <1>2, <2>1, PlacesTaken
  <2> QED
    BY <1>3, <2>1, <2>2
<1> QED
  BY <1>6, <1>7

\* Two sorted edits: the later is not before the earlier.
LEMMA SortedOrder ==
  ASSUME NEW edits \in Seq(AnyEdits), NEW i \in 1..Len(edits), NEW j \in 1..Len(edits),
         Places(edits)[i] < Places(edits)[j]
  PROVE  ~Earlier(edits[j], edits[i])
<1>1. i \in Ahead(edits, j)
  BY PlacesOrder
<1>2. edits[i].start \in Nat /\ edits[i].end \in Nat /\ edits[j].start \in Nat /\ edits[j].end \in Nat
  BY EditType
<1>3. Earlier(edits[i], edits[j]) \/ ~Earlier(edits[j], edits[i])
  BY <1>1 DEF Ahead
<1> QED
  BY <1>2, <1>3 DEF Earlier

\* The texts of edits that sorting moves, without one of them overtaking another.
LEMMA MovedTexts ==
  ASSUME NEW edits \in Seq(AnyEdits),
         NEW I \in SUBSET (1..Len(edits)), NEW J \in SUBSET (1..Len(edits)),
         \A i \in 1..Len(edits) : i \in I <=> Places(edits)[i] \in J,
         \A i, k \in I : i < k => i \in Ahead(edits, k)
  PROVE  TextsOf(edits, I) = TextsOf(Sorted(edits), J)
<1> DEFINE S == Sorted(edits)
           h == [i \in I |-> Places(edits)[i]]
<1>1. /\ S \in Seq(AnyEdits) /\ Len(S) = Len(edits)
      /\ \A i \in 1..Len(edits) : S[Places(edits)[i]] = edits[i]
  BY SortedPlaces
<1> HIDE DEF S
<1>2. h \in [I -> J]
  OBVIOUS
<1>3. \A j \in J : \E i \in I : h[i] = j
  BY PlacesTaken
<1>4. \A i, k \in I : i < k => h[i] < h[k]
  BY PlacesOrder
<1>5. \A i \in I : S[h[i]] = edits[i]
  BY <1>1
<1> HIDE DEF h
<1>6. SelectAt(edits, I) = SelectAt(S, J)
  <2>1. S \in Seq(AnyEdits) /\ J \in SUBSET (1..Len(S))
    BY <1>1
  <2> QED
    BY <1>2, <1>3, <1>4, <1>5, <2>1, SelectAtMoved, SMTT(60)
<1> QED
  BY <1>6, TextsAre DEF S

\* Without a clash, sorting changes nothing of what the edits account for.
LEMMA ExpectedSame ==
  ASSUME NEW before \in Seq(Bytes), NEW edits \in Seq(AnyEdits),
         \A i \in 1..Len(edits) : edits[i].start <= edits[i].end,
         \A i, j \in 1..Len(edits) : i # j => ~Clash(edits[i], edits[j])
  PROVE  Expected(before, edits) = Expected(before, Sorted(edits))
<1> DEFINE S == Sorted(edits)
<1>1. /\ S \in Seq(AnyEdits) /\ Len(S) = Len(edits) /\ Len(edits) \in Nat
      /\ \A i \in 1..Len(edits) : Places(edits)[i] \in 1..Len(edits) /\ S[Places(edits)[i]] = edits[i]
  BY SortedPlaces, PlacesOrder, LenProperties
<1>2. \A i \in 1..Len(edits) : edits[i].start \in Nat /\ edits[i].end \in Nat
  BY EditType
<1> HIDE DEF S
<1>3. ASSUME NEW p
      PROVE  /\ TextsOf(edits, InsertedAt(edits, p)) = TextsOf(S, InsertedAt(S, p))
             /\ TextsOf(edits, ReplacedAt(edits, p)) = TextsOf(S, ReplacedAt(S, p))
  <2>1. /\ InsertedAt(edits, p) \in SUBSET (1..Len(edits)) /\ InsertedAt(S, p) \in SUBSET (1..Len(edits))
        /\ ReplacedAt(edits, p) \in SUBSET (1..Len(edits)) /\ ReplacedAt(S, p) \in SUBSET (1..Len(edits))
    BY <1>1, PositionsAre
  <2>2. \A i \in 1..Len(edits) : /\ i \in InsertedAt(edits, p) <=> Places(edits)[i] \in InsertedAt(S, p)
                                 /\ i \in ReplacedAt(edits, p) <=> Places(edits)[i] \in ReplacedAt(S, p)
    <3>1. ASSUME NEW i \in 1..Len(edits)
          PROVE  /\ i \in InsertedAt(edits, p) <=> Places(edits)[i] \in InsertedAt(S, p)
                 /\ i \in ReplacedAt(edits, p) <=> Places(edits)[i] \in ReplacedAt(S, p)
      <4> DEFINE k == Places(edits)[i]
      <4>1. k \in 1..Len(S) /\ S[k] = edits[i]
        BY <1>1
      <4> HIDE DEF k
      <4>2. /\ k \in InsertedAt(S, p) <=> k \in 1..Len(S) /\ S[k].start = S[k].end /\ S[k].start = p
            /\ k \in ReplacedAt(S, p) <=> k \in 1..Len(S) /\ S[k].start # S[k].end /\ S[k].start = p
        BY <1>1, PositionsAre
      <4>3. /\ i \in InsertedAt(edits, p) <=> edits[i].start = edits[i].end /\ edits[i].start = p
            /\ i \in ReplacedAt(edits, p) <=> edits[i].start # edits[i].end /\ edits[i].start = p
        BY PositionsAre
      <4> QED
        BY <4>1, <4>2, <4>3 DEF k
    <3> QED
      BY <3>1
  <2>3. ASSUME NEW i \in InsertedAt(edits, p), NEW k \in InsertedAt(edits, p), i < k
        PROVE  i \in Ahead(edits, k)
    <3>1. /\ i \in 1..Len(edits) /\ k \in 1..Len(edits)
          /\ edits[i].start = p /\ edits[i].end = p /\ edits[k].start = p /\ edits[k].end = p
      BY PositionsAre
    <3>2. ~Earlier(edits[k], edits[i])
      BY <1>2, <3>1 DEF Earlier
    <3> QED
      BY <2>3, <3>1, <3>2, LenProperties DEF Ahead
  <2>4. ASSUME NEW i \in ReplacedAt(edits, p), NEW k \in ReplacedAt(edits, p), i < k
        PROVE  i \in Ahead(edits, k)
    <3>1. /\ i \in 1..Len(edits) /\ k \in 1..Len(edits) /\ i # k
          /\ edits[i].start = p /\ edits[i].end # p /\ edits[k].start = p /\ edits[k].end # p
      BY <1>1, <2>4, PositionsAre
    <3>2. ~Clash(edits[i], edits[k])
      BY <3>1
    <3>3. Clash(edits[i], edits[k])
      BY <1>2, <3>1 DEF Clash, Inserts
    <3> QED
      BY <3>2, <3>3
  <2>5. TextsOf(edits, InsertedAt(edits, p)) = TextsOf(S, InsertedAt(S, p))
    BY <2>1, <2>2, <2>3, MovedTexts DEF S
  <2>6. TextsOf(edits, ReplacedAt(edits, p)) = TextsOf(S, ReplacedAt(S, p))
    BY <2>1, <2>2, <2>4, MovedTexts DEF S
  <2> QED
    BY <2>5, <2>6
<1>4. ASSUME NEW p
      PROVE  Covered(edits, p) <=> Covered(S, p)
  <2>1. DOMAIN edits = 1..Len(edits) /\ DOMAIN S = 1..Len(edits)
    BY <1>1, LenProperties
  <2>2. Covered(edits, p) => Covered(S, p)
    BY <1>1, <2>1 DEF Covered
  <2>3. ASSUME Covered(S, p)
        PROVE  Covered(edits, p)
    <3>1. PICK k \in 1..Len(edits) : S[k].start < p /\ p <= S[k].end
      BY <2>1, <2>3 DEF Covered
    <3>2. PICK i \in 1..Len(edits) : Places(edits)[i] = k
      BY PlacesTaken
    <3> QED
      BY <1>1, <2>1, <3>1, <3>2 DEF Covered
  <2> QED
    BY <2>2, <2>3
<1>5. ASSUME NEW p \in 1..(Len(before) + 1)
      PROVE  BytesAt(before, edits, p) = BytesAt(before, S, p)
  BY <1>3, <1>4 DEF BytesAt
<1>6. [p \in 1..(Len(before) + 1) |-> BytesAt(before, edits, p)]
        = [p \in 1..(Len(before) + 1) |-> BytesAt(before, S, p)]
  BY <1>5
<1> QED
  BY <1>6 DEF Expected, S

\* Edits that follow one another once sorted do not clash.
LEMMA ChainedHarmless ==
  ASSUME NEW before \in Seq(Bytes), NEW edits \in Seq(AnyEdits), Chained(Sorted(edits), Len(before))
  PROVE  /\ \A i \in 1..Len(edits) : edits[i].start <= edits[i].end /\ ~OutOfBounds(edits[i], before)
         /\ \A i, j \in 1..Len(edits) : i # j => ~Clash(edits[i], edits[j])
<1> DEFINE S == Sorted(edits)
<1>1. /\ S \in Seq(AnyEdits) /\ Len(S) = Len(edits) /\ Len(edits) \in Nat /\ Len(before) \in Nat
      /\ \A i \in 1..Len(edits) : Places(edits)[i] \in 1..Len(edits) /\ S[Places(edits)[i]] = edits[i]
  BY SortedPlaces, PlacesOrder, LenProperties
<1>2. \A i \in 1..Len(edits) : edits[i].start \in Nat /\ edits[i].end \in Nat
  BY EditType
<1>3. Chained(S, Len(before))
  OBVIOUS
<1> HIDE DEF S
<1>4. ASSUME NEW i \in 1..Len(edits)
      PROVE  edits[i].start <= edits[i].end /\ edits[i].end <= Len(before)
  BY <1>1, <1>3 DEF Chained
<1>5. ASSUME NEW i \in 1..Len(edits), NEW j \in 1..Len(edits), Places(edits)[i] < Places(edits)[j]
      PROVE  edits[i].end <= edits[j].start
  BY <1>1, <1>3, <1>5 DEF Chained
<1>6. ASSUME NEW i \in 1..Len(edits), NEW j \in 1..Len(edits), i # j
      PROVE  ~Clash(edits[i], edits[j])
  <2>1. Places(edits)[i] # Places(edits)[j] /\ Places(edits)[i] \in Nat /\ Places(edits)[j] \in Nat
    <3>1. Places(edits)[i] \in 1..Len(edits) /\ Places(edits)[j] \in 1..Len(edits)
      BY <1>1
    <3>2. Places(edits)[i] # Places(edits)[j]
      BY <1>6, PlacesTaken
    <3> QED
      BY <1>1, <3>1, <3>2
  <2>2. /\ edits[i].start \in Nat /\ edits[i].end \in Nat /\ edits[i].start <= edits[i].end
        /\ edits[j].start \in Nat /\ edits[j].end \in Nat /\ edits[j].start <= edits[j].end
    BY <1>2, <1>4
  <2>3. CASE Places(edits)[i] < Places(edits)[j]
    BY <1>5, <2>2, <2>3 DEF Clash
  <2>4. CASE Places(edits)[j] < Places(edits)[i]
    <3>1. edits[j].end <= edits[i].start
      BY <1>5, <2>4
    <3> QED
      BY <2>2, <3>1 DEF Clash, Inserts
  <2> QED
    BY <2>1, <2>3, <2>4
<1>7. \A i \in 1..Len(edits) : ~OutOfBounds(edits[i], before)
  BY <1>1, <1>2, <1>4 DEF OutOfBounds
<1> QED
  BY <1>4, <1>6, <1>7

\* A loop that refuses has met an edit outside the text or two that clash.
LEMMA RefusedHarms ==
  ASSUME NEW before \in Seq(Bytes), NEW edits \in Seq(AnyEdits),
         NEW d, Runs(d, before, Sorted(edits)), d[Len(edits)] = Refused
  PROVE  \/ \E i \in 1..Len(edits) : OutOfBounds(edits[i], before)
         \/ \E i, j \in 1..Len(edits) : i # j /\ Clash(edits[i], edits[j])
<1> DEFINE S == Sorted(edits)
           T == {k \in 0..Len(edits) : d[k] = Refused}
<1>1. /\ S \in Seq(AnyEdits) /\ Len(S) = Len(edits) /\ Len(edits) \in Nat /\ Len(before) \in Nat
      /\ \A i \in 1..Len(edits) : Places(edits)[i] \in 1..Len(edits) /\ S[Places(edits)[i]] = edits[i]
  BY SortedPlaces, PlacesOrder, LenProperties
<1>2. \A i \in 1..Len(edits) : edits[i].start \in Nat /\ edits[i].end \in Nat
  BY EditType
<1>3. Runs(d, before, S)
  OBVIOUS
<1> HIDE DEF S
<1>4. PICK m \in T : \A k \in T : m <= k
  <2>1. Len(edits) \in T /\ T \subseteq Nat
    BY <1>1
  <2> HIDE DEF T
  <2> QED
    BY <2>1, LeastNatural
<1>5. d[0] # Refused
  <2>1. d[0] = [bytes |-> <<>>, last |-> 0]
    BY <1>3 DEF Runs
  <2>2. [bytes |-> <<>>, last |-> 0] \in [bytes : Seq(Bytes), last : Nat]
    BY EmptySeq
  <2> QED
    BY <2>1, <2>2, EditsAssumption
<1> DEFINE k == m - 1
<1>6. m \in 1..Len(S) /\ k \in Nat /\ m = k + 1 /\ k \in 0..Len(S) /\ d[m] = Refused
  BY <1>1, <1>4, <1>5
<1>7. d[k] # Refused
  BY <1>1, <1>4, <1>6
<1> HIDE DEF k, T
<1>8. d[k] \in Done(Len(before)) /\ S[m] \in AnyEdits /\ d[m] = Spliced(before, d[k], S[m])
  BY <1>1, <1>3, <1>6, RunStep
<1>9. Hit(before, d[k], S[m])
  BY <1>6, <1>7, <1>8, SplicedResult
<1>10. PICK j \in 1..Len(edits) : Places(edits)[j] = m
  BY <1>1, <1>6, PlacesTaken
<1>11. S[m] = edits[j]
  BY <1>1, <1>10
<1>12. CASE OutOfBounds(S[m], before)
  BY <1>11, <1>12
<1>13. CASE ~OutOfBounds(S[m], before)
  <2>1. S[m].start < d[k].last
    BY <1>9, <1>13 DEF Hit, Overlaps
  <2>2. k # 0
    <3>1. d[0].last = 0
      BY <1>3 DEF Runs
    <3> QED
      BY <1>2, <1>11, <2>1, <3>1
  <2> DEFINE l == k - 1
  <2>3. l \in Nat /\ k \in 1..Len(S) /\ k = l + 1
    BY <1>1, <1>6, <2>2
  <2> HIDE DEF l
  <2>4. d[l] \in Done(Len(before)) /\ S[k] \in AnyEdits /\ d[k] = Spliced(before, d[l], S[k])
    BY <1>1, <1>3, <2>3, RunStep
  <2>5. d[l] # Refused /\ ~Hit(before, d[l], S[k])
    BY <1>7, <2>4 DEF Spliced, Hit
  <2>6. d[k].last = S[k].end
    BY <2>4, <2>5, SplicedResult
  <2>7. PICK i \in 1..Len(edits) : Places(edits)[i] = k
    BY <1>1, <2>3, PlacesTaken
  <2>8. S[k] = edits[i] /\ i # j
    BY <1>1, <1>6, <1>10, <2>7
  <2>9. ~Earlier(edits[j], edits[i])
    BY <1>6, <1>10, <2>7, SortedOrder
  <2>10. edits[j].start < edits[i].end /\ edits[j].start <= edits[j].end
    BY <1>1, <1>2, <1>11, <1>13, <2>1, <2>6, <2>8 DEF OutOfBounds
  <2>11. Clash(edits[i], edits[j])
    BY <1>2, <2>9, <2>10 DEF Clash, Inserts, Earlier
  <2> QED
    BY <2>8, <2>11
<1> QED
  BY <1>12, <1>13

\* applyTextEdits gives the text the bytes and edits account for, or refuses
\* because an edit leaves the text or two clash.
THEOREM ApplyExact ==
  ASSUME NEW before \in Seq(Bytes), NEW edits \in Seq(AnyEdits)
  PROVE  ApplyTextEdits(before, edits) =
           IF \/ \E i \in DOMAIN edits : OutOfBounds(edits[i], before)
              \/ \E i, j \in DOMAIN edits : i # j /\ Clash(edits[i], edits[j])
           THEN Refused ELSE Expected(before, edits)
<1> DEFINE S == Sorted(edits)
           n == Len(edits)
<1>1. S \in Seq(AnyEdits) /\ Len(S) = n /\ DOMAIN edits = 1..n
  BY SortedPlaces, LenProperties
<1>2. PICK d : /\ Runs(d, before, S)
               /\ ApplyTextEdits(before, edits) =
                    IF d[n] = Refused THEN Refused
                    ELSE Join(d[n].bytes, Piece(before, d[n].last, Len(before)))
  <2> HIDE DEF S
  <2>1. S = Sorted(edits)
    BY DEF S
  <2> QED
    BY <1>1, <2>1, ApplyRuns
<1>3. CASE d[n] = Refused
  <2>1. \/ \E i \in 1..n : OutOfBounds(edits[i], before)
        \/ \E i, j \in 1..n : i # j /\ Clash(edits[i], edits[j])
    BY <1>2, <1>3, RefusedHarms
  <2> QED
    BY <1>1, <1>2, <1>3, <2>1
<1>4. CASE d[n] # Refused
  <2>1. Chained(S, Len(before))
    BY <1>1, <1>2, <1>4, RunChained
  <2>2. Join(d[n].bytes, Piece(before, d[n].last, Len(before))) = Expected(before, S)
    BY <1>1, <1>2, <1>4, RunExact
  <2>3. /\ \A i \in 1..n : edits[i].start <= edits[i].end /\ ~OutOfBounds(edits[i], before)
        /\ \A i, j \in 1..n : i # j => ~Clash(edits[i], edits[j])
    BY <2>1, ChainedHarmless
  <2>4. Expected(before, edits) = Expected(before, S)
    BY <2>3, ExpectedSame
  <2> HIDE DEF S, n
  <2> QED
    BY <1>1, <1>2, <1>4, <2>2, <2>3, <2>4
<1> QED
  BY <1>3, <1>4

-----------------------------------------------------------------------------
(* The state machine. *)

\* The answer is the one to the delta that was sent.
EditsInv ==
    /\ baseText \in Seq(Bytes) /\ delta \in Seq(AnyEdits)
    /\ delta # <<>> => answer = ApplyDeploymentDelta(baseText, delta)

\* The answer of applyTextEdits, decoded, is what EditsExact says.
LEMMA ExactFromInv == EditsInv => EditsExact
<1> SUFFICES ASSUME EditsInv, delta # <<>> PROVE EditsExact
  BY DEF EditsInv, EditsExact
<1> DEFINE bad == \/ \E i \in DOMAIN delta : OutOfBounds(delta[i], baseText)
                  \/ \E i, j \in DOMAIN delta : i # j /\ Clash(delta[i], delta[j])
           text == ApplyTextEdits(baseText, delta)
<1>1. text = IF bad THEN Refused ELSE Expected(baseText, delta)
  BY ApplyExact DEF EditsInv
<1>2. answer = IF text = Refused \/ ~Decodable(text) THEN Refused ELSE text
  BY DEF EditsInv, ApplyDeploymentDelta
<1>3. EditsExact <=> IF bad \/ ~Decodable(Expected(baseText, delta)) THEN answer = Refused
                     ELSE answer = Expected(baseText, delta)
  BY DEF EditsExact
<1> HIDE DEF bad, text
<1> QED
  BY <1>1, <1>2, <1>3

\* A character is a text.
LEMMA CharsAreBytes == Chars \subseteq Seq(Bytes) /\ <<>> \in Seq(Bytes)
BY EmptySeq DEF Chars, Bytes

\* The texts and the deltas of the model are among those the lemmas are about.
LEMMA EditsTyped ==
  /\ Encoded \subseteq Seq(Bytes)
  /\ BoundedSeq(Edits, MaxEdits) \subseteq Seq(AnyEdits)
<1>1. ASSUME NEW s \in BoundedSeq(Chars, MaxChars)
      PROVE  FlattenSeq(s) \in Seq(Bytes)
  <2>1. PICK n \in 0..MaxChars : s \in [1..n -> Chars]
    BY DEF BoundedSeq, SeqOf
  <2>2. n \in Nat
    BY EditsAssumption
  <2>3. s \in Seq(Seq(Bytes))
    BY <2>1, <2>2, CharsAreBytes
  <2> QED
    BY <2>3, FlattenType
<1>2. Edits \subseteq AnyEdits
  <2>1. 0..(2 * MaxChars + 1) \subseteq Nat
    BY EditsAssumption
  <2>2. {<<>>} \cup Chars \subseteq Seq(Bytes)
    BY CharsAreBytes
  <2> QED
    BY <2>1, <2>2 DEF Edits, AnyEdits
<1>3. ASSUME NEW s \in BoundedSeq(Edits, MaxEdits)
      PROVE  s \in Seq(AnyEdits)
  <2>1. PICK n \in 0..MaxEdits : s \in [1..n -> Edits]
    BY DEF BoundedSeq, SeqOf
  <2>2. n \in Nat
    BY EditsAssumption
  <2> QED
    BY <1>2, <2>1, <2>2
<1> QED
  BY <1>1, <1>3 DEF Encoded

\* applyDeploymentDelta gives the text that each byte of the old one and each edit
\* account for, and refuses exactly the edits that clash, leave the text or cut a
\* character in two: for any text, any number of edits and any order of them.
THEOREM EditsAlwaysExact == EditsSpec => []EditsExact
<1>1. EditsInit => EditsInv
  BY EmptySeq DEF EditsInit, EditsInv
<1>2. EditsInv /\ [EditsNext]_editVars => EditsInv'
  <2> SUFFICES ASSUME EditsInv, [EditsNext]_editVars PROVE EditsInv'
    OBVIOUS
  <2>1. CASE SaveText
    BY <2>1, EditsTyped DEF EditsInv, SaveText
  <2>2. CASE SendDelta
    BY <2>2, EditsTyped DEF EditsInv, SendDelta
  <2>3. CASE UNCHANGED editVars
    BY <2>3 DEF EditsInv, editVars
  <2> QED
    BY <2>1, <2>2, <2>3 DEF EditsNext
<1> QED
  BY <1>1, <1>2, ExactFromInv, PTL DEF EditsSpec

=============================================================================
