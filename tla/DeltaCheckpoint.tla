--------------------------- MODULE DeltaCheckpoint ---------------------------
(***************************************************************************)
(* Verbatim and delta checkpoints of one running update: the database rows *)
(* (canonical checkpoints and the sidecar row holding the delta baseline), *)
(* the blob store beside them, the transaction that writes both, and the   *)
(* client that saves, retries and falls back.                              *)
(*                                                                         *)
(* A transaction holds the update's row lock from its first read to its    *)
(* end, so at most one runs; but it writes blobs as it goes, and they are  *)
(* not rolled back.  Every request the client ever sent may reach a        *)
(* replica again at any time.  A deployment text is a value; a delta is    *)
(* the pair of the text it was computed from and the text it produces,     *)
(* whose SHA-256 the client sends: applied to any other text it yields     *)
(* another hash.                                                           *)
(***************************************************************************)
EXTENDS Integers, Sequences

CONSTANTS
    Texts,
    Big,         \* the texts over BLOB_THRESHOLD, which go to blob storage
    NoText, NoBase, NoTx,
    MaxSeq,
    Faults       \* the worlds considered: whether a put may outlive the transaction
                 \* whose connection broke, whether the client may reuse a number
                 \* for another text, having seen no success for the first one,
                 \* and, a bound, the number of its saves

ASSUME NullsAssumption ==
    /\ NoText \notin Texts /\ Big \subseteq Texts
    /\ NoBase \notin [seq : 1..MaxSeq, text : Texts]
    /\ MaxSeq \in Nat /\ Faults \subseteq [lateput : BOOLEAN, giveup : BOOLEAN, saves : 0..MaxSeq]

VARIABLES
    faults,    \* the world of this behaviour
    updateStatus,    \* of the update: "running", "completed", "cancelled"
    rows,      \* the canonical checkpoints, by version: sequence and text
    base,      \* the sidecar row of version 0, or NoBase
    blobs,     \* the blob store: key to text, NoText where there is none
    tx,        \* the transaction that holds the row lock, or NoTx
    late,      \* puts still under way although their transaction is gone
    cleanup,   \* superseded baseline blobs to delete, after the commit
    sent,      \* every request the client has sent
    replies,   \* outcomes that may still reach the client
    client     \* the client: its current save and its last accepted one

deltaVars == <<faults, updateStatus, rows, base, blobs, tx, late, cleanup, sent, replies, client>>
db == <<updateStatus, rows, base>>

Seqs == 1..MaxSeq
Versions == 1..MaxSeq
Keys == ({"version"} \X Versions) \cup ({"base"} \X Seqs)
SaveRequests == [kind : {"verbatim"}, seq : Seqs, text : Texts, from : {NoText}]
            \cup [kind : {"delta"}, seq : Seqs, text : Texts, from : Texts]

DeltaTypeOK ==
    /\ faults \in Faults
    /\ updateStatus \in {"running", "completed", "cancelled"}
    /\ rows \in Seq([seq : Seqs, text : Texts]) /\ Len(rows) <= MaxSeq
    /\ base \in [seq : Seqs, text : Texts] \cup {NoBase}
    /\ blobs \in [Keys -> Texts \cup {NoText}]
    /\ tx \in [request : SaveRequests, next : {"canonical", "base", "commit"}] \cup {NoTx}
    /\ late \in SUBSET (Keys \X Texts)
    /\ cleanup \in SUBSET Keys
    /\ sent \in SUBSET SaveRequests
    /\ replies \in SUBSET [seq : Seqs, text : Texts, ok : BOOLEAN]
    /\ client \in [seq : 0..MaxSeq, text : Texts \cup {NoText}, accepted : BOOLEAN,
                   base : Texts \cup {NoText}]

DeltaInit ==
    /\ faults \in Faults
    /\ updateStatus = "running"
    /\ rows = <<>> /\ base = NoBase
    /\ blobs = [k \in Keys |-> NoText]
    /\ tx = NoTx
    /\ late = {} /\ cleanup = {} /\ sent = {} /\ replies = {}
    /\ client = [seq |-> 0, text |-> NoText, accepted |-> TRUE, base |-> NoText]

-----------------------------------------------------------------------------
(* The client (the Pulumi CLI). *)

Verbatim(n, t) == [kind |-> "verbatim", seq |-> n, text |-> t, from |-> NoText]
Delta(n, t, f) == [kind |-> "delta", seq |-> n, text |-> t, from |-> f]

\* The first attempt at a text: a delta when an earlier save was accepted.
Attempt(n, t) ==
    IF client.base = NoText THEN Verbatim(n, t) ELSE Delta(n, t, client.base)

Save(t) ==
    /\ client.accepted /\ client.seq < faults.saves
    /\ client' = [client EXCEPT !.seq = @ + 1, !.text = t, !.accepted = FALSE]
    /\ sent' = sent \cup {Attempt(client.seq + 1, t)}
    /\ UNCHANGED <<faults, db, blobs, tx, late, cleanup, replies>>

\* On any error of a delta: the whole text, under the same number.
FallBack ==
    /\ ~client.accepted
    /\ sent' = sent \cup {Verbatim(client.seq, client.text)}
    /\ UNCHANGED <<faults, db, blobs, tx, late, cleanup, replies, client>>

\* The counter only counts accepted saves: a save that was abandoned leaves
\* its number to the next one.
GiveUp(t) ==
    /\ faults.giveup /\ ~client.accepted
    /\ client' = [client EXCEPT !.text = t]
    /\ sent' = sent \cup {Attempt(client.seq, t)}
    /\ UNCHANGED <<faults, db, blobs, tx, late, cleanup, replies>>

HearSuccess ==
    /\ ~client.accepted
    /\ [seq |-> client.seq, text |-> client.text, ok |-> TRUE] \in replies
    /\ client' = [client EXCEPT !.accepted = TRUE, !.base = client.text]
    /\ UNCHANGED <<faults, db, blobs, tx, late, cleanup, sent, replies>>

-----------------------------------------------------------------------------
(* The transaction of patchCheckpointVerbatim and patchCheckpointDelta. *)

BaseKey(n) == <<"base", n>>
\* formatBlobKey; here with the version left out of the key.
MutantVersionKey(v) == <<"version", 1>>
VersionKey(v) == <<"version", v>>

\* readDeltaBase: the text of the baseline, from the row or from its blob.
StoredText == IF base.text \in Big THEN blobs[BaseKey(base.seq)] ELSE base.text

\* classifyCheckpointSequence; here with any other number let through, and with
\* an equal one always taken for a new save.
MutantDecisionGap(q) ==
    CASE base = NoBase -> "apply"
      [] base # NoBase /\ q.seq = base.seq ->
           IF StoredText = q.text THEN "replay" ELSE "conflict"
      [] OTHER -> "apply"
MutantDecisionNoReplay(q) ==
    CASE base = NoBase -> "apply"
      [] base # NoBase /\ q.seq \in {base.seq, base.seq + 1} -> "apply"
      [] OTHER -> "refuse"
Decision(q) ==
    CASE base = NoBase -> "apply"
      [] base # NoBase /\ q.seq = base.seq ->
           IF StoredText = q.text THEN "replay" ELSE "conflict"
      [] base # NoBase /\ q.seq = base.seq + 1 -> "apply"
      [] OTHER -> "refuse"

\* A delta needs a baseline, and the one it was computed from.
Applies(q) == q.kind = "delta" => base # NoBase /\ StoredText = q.from

Answer(q, ok) ==
    /\ replies' = replies \cup {[seq |-> q.seq, text |-> q.text, ok |-> ok]}
    /\ UNCHANGED <<faults, db, blobs, tx, late, cleanup, sent, client>>

\* lockUpdateForWrite lets the request in.
Locks(q) == q \in sent /\ tx = NoTx /\ updateStatus = "running"
HasBase(q) == q.kind = "delta" => base # NoBase

Replay(q) == Locks(q) /\ HasBase(q) /\ Decision(q) = "replay" /\ Answer(q, TRUE)

Conflict(q) == Locks(q) /\ HasBase(q) /\ Decision(q) = "conflict" /\ Answer(q, FALSE)

NextVersion == Len(rows) + 1

BeginSave(q) ==
    /\ Locks(q) /\ NextVersion <= MaxSeq
    /\ Decision(q) = "apply" /\ Applies(q)
    /\ tx' = [request |-> q, next |-> IF q.text \in Big THEN "canonical" ELSE "commit"]
    /\ UNCHANGED <<faults, db, blobs, late, cleanup, sent, replies, client>>

PutKey == IF tx.next = "canonical" THEN VersionKey(NextVersion) ELSE BaseKey(tx.request.seq)

\* storage.put, for the canonical checkpoint and then for the baseline.
Put ==
    /\ tx # NoTx /\ tx.next \in {"canonical", "base"}
    /\ blobs' = [blobs EXCEPT ![PutKey] = tx.request.text]
    /\ tx' = [tx EXCEPT !.next = IF @ = "canonical" THEN "base" ELSE "commit"]
    /\ UNCHANGED <<faults, db, late, cleanup, sent, replies, client>>

BaseBlob == IF base # NoBase /\ base.text \in Big THEN {BaseKey(base.seq)} ELSE {}

\* The superseded baseline blob; here the one just written, as if the key of
\* the row were read after the upsert.
MutantSuperseded(q) == IF q.text \in Big THEN {BaseKey(q.seq)} ELSE {}
Superseded(q) == BaseBlob

\* writeDeltaBase's row.
NewBase(q) == [seq |-> q.seq, text |-> q.text]

Commit ==
    LET q == tx.request IN
    /\ tx # NoTx /\ tx.next = "commit"
    /\ rows' = Append(rows, [seq |-> q.seq, text |-> q.text])
    /\ base' = NewBase(q)
    /\ cleanup' = cleanup \cup Superseded(q)
    /\ replies' = replies \cup {[seq |-> q.seq, text |-> q.text, ok |-> TRUE]}
    /\ tx' = NoTx
    /\ UNCHANGED <<faults, updateStatus, blobs, late, sent, client>>

\* The transaction rolls back: its replica or its connection is lost, or a
\* statement failed.  A put under way may still take effect.
Abort ==
    /\ tx # NoTx
    /\ tx' = NoTx
    /\ late' = IF faults.lateput /\ tx.next # "commit"
               THEN late \cup {<<PutKey, tx.request.text>>} ELSE late
    /\ UNCHANGED <<faults, db, blobs, cleanup, sent, replies, client>>

LandLatePut(p) ==
    /\ blobs' = [blobs EXCEPT ![p[1]] = p[2]]
    /\ late' = late \ {p}
    /\ UNCHANGED <<faults, db, tx, cleanup, sent, replies, client>>

\* deleteSupersededDeltaBase: best effort, at any time after the commit.
Delete(k) ==
    /\ blobs' = [blobs EXCEPT ![k] = NoText]
    /\ cleanup' = cleanup \ {k}
    /\ UNCHANGED <<faults, db, tx, late, sent, replies, client>>

LoseDelete(k) ==
    /\ cleanup' = cleanup \ {k}
    /\ UNCHANGED <<faults, db, blobs, tx, late, sent, replies, client>>

-----------------------------------------------------------------------------
(* The end of the update. *)

\* completeUpdate and cancelUpdate delete the sidecar row, then its blob.
RemoveBase ==
    /\ tx = NoTx
    /\ base' = NoBase
    /\ cleanup' = cleanup \cup BaseBlob
    /\ UNCHANGED <<faults, rows, blobs, tx, late, sent, replies, client>>

\* The client completes when its last save was accepted.
Complete ==
    /\ updateStatus = "running" /\ client.accepted
    /\ updateStatus' = "completed"
    /\ RemoveBase

\* Anybody may cancel; an update that has ended loses its sidecar row too.
Cancel ==
    /\ updateStatus' = IF updateStatus = "running" THEN "cancelled" ELSE updateStatus
    /\ RemoveBase

\* The garbage collector leaves the sidecar row.
Collect ==
    /\ updateStatus = "running" /\ tx = NoTx
    /\ updateStatus' = "cancelled"
    /\ UNCHANGED <<faults, rows, base, blobs, tx, late, cleanup, sent, replies, client>>

DeltaNext ==
    \/ \E t \in Texts : Save(t)
    \/ FallBack
    \/ \E t \in Texts : GiveUp(t)
    \/ HearSuccess
    \/ \E q \in sent : Replay(q)
    \/ \E q \in sent : Conflict(q)
    \/ \E q \in sent : BeginSave(q)
    \/ Put
    \/ Commit
    \/ Abort
    \/ \E p \in late : LandLatePut(p)
    \/ \E k \in cleanup : Delete(k)
    \/ \E k \in cleanup : LoseDelete(k)
    \/ Complete
    \/ Cancel
    \/ Collect

DeltaSpec == DeltaInit /\ [][DeltaNext]_deltaVars

-----------------------------------------------------------------------------
(* Properties. *)

\* The baseline of the next delta is the newest canonical checkpoint, and its
\* row leads to the text it was committed with: no rolled-back write, late put
\* or delayed cleanup of an older baseline replaces or removes its blob.
BaseReadable ==
    base # NoBase => rows # <<>> /\ base = rows[Len(rows)] /\ StoredText = base.text

\* So does every canonical checkpoint, which export and the next update read.
CheckpointsReadable ==
    \A v \in 1..Len(rows) :
        rows[v].text \in Big => blobs[VersionKey(v)] = rows[v].text

\* However often a request is repeated, each sequence number makes one
\* canonical checkpoint, in order and without a gap.
OneCheckpointPerSave == \A v \in 1..Len(rows) : rows[v].seq = v

\* What the client was told is stored is stored: the newest canonical
\* checkpoint is its last accepted save, or the one it is making now.
AcceptedIsHead ==
    client.base # NoText =>
        /\ rows # <<>>
        /\ LET head == rows[Len(rows)] IN
           \/ head.text = client.base
           \/ ~client.accepted /\ head.seq = client.seq

=============================================================================
