------------------------------- MODULE TextEdits -------------------------------
(***************************************************************************)
(* A delta on the text of a deployment: edits whose spans are offsets into *)
(* the bytes of the text, as the CLI counts them, sent in any order.  The  *)
(* server sorts them, splices the bytes in one pass and decodes the result.*)
(*                                                                         *)
(* A text is its bytes in UTF-8: "b" is a character of one byte, "h" and   *)
(* "t" are the two bytes of another.                                       *)
(***************************************************************************)
EXTENDS Naturals, Sequences, FiniteSets, SequencesExt, Subsequences

CONSTANTS
    MaxChars,     \* bound: the characters of a text
    MaxEdits,     \* bound: the edits of a delta
    Refused       \* the answer to a delta that cannot be applied

Bytes == {"b", "h", "t"}

ASSUME EditsAssumption ==
    /\ MaxChars \in Nat /\ MaxEdits \in Nat
    /\ Refused \notin [bytes : Seq(Bytes), last : Nat]

VARIABLES
    baseText,    \* the text the baseline holds
    delta,       \* the edits that were sent
    answer       \* the text they led to, or Refused

editVars == <<baseText, delta, answer>>

Chars == {<<"b">>, <<"h", "t">>}
Encoded == {FlattenSeq(s) : s \in BoundedSeq(Chars, MaxChars)}

\* TextDecoder with fatal: the bytes of whole characters.
Decodable(bytes) ==
    \A i \in DOMAIN bytes :
        /\ bytes[i] = "h" => i < Len(bytes) /\ bytes[i + 1] = "t"
        /\ bytes[i] = "t" => i > 1 /\ bytes[i - 1] = "h"

Edits == [start : 0..(2 * MaxChars + 1), end : 0..(2 * MaxChars + 1), newText : {<<>>} \cup Chars]

-----------------------------------------------------------------------------
(* applyTextEdits. *)

\* By start, then by end, and otherwise as they were sent.
Earlier(e, f) == e.start < f.start \/ (e.start = f.start /\ e.end < f.end)
Ahead(edits, i) ==
    {j \in DOMAIN edits : Earlier(edits[j], edits[i]) \/ (j < i /\ ~Earlier(edits[i], edits[j]))}
Sorted(edits) ==
    [k \in DOMAIN edits |-> edits[CHOOSE i \in DOMAIN edits : Cardinality(Ahead(edits, i)) = k - 1]]

\* start < last; here an edit may not touch the one before it either.
MutantOverlaps(e, last) == e.start <= last /\ last # 0
Overlaps(e, last) == e.start < last

OutOfBounds(e, before) == e.start > e.end \/ e.end > Len(before)

\* One round of the loop: the bytes so far and the end of the last edit.
Spliced(before, done, e) ==
    IF done = Refused \/ OutOfBounds(e, before) \/ Overlaps(e, done.last) THEN Refused
    ELSE [bytes |-> done.bytes \o SubSeq(before, done.last + 1, e.start) \o e.newText, last |-> e.end]

ApplyTextEdits(before, edits) ==
    LET sorted == Sorted(edits)
        done[n \in 0..Len(edits)] ==
            IF n = 0 THEN [bytes |-> <<>>, last |-> 0]
            ELSE Spliced(before, done[n - 1], sorted[n])
        all == done[Len(edits)] IN
    IF all = Refused THEN Refused ELSE all.bytes \o SubSeq(before, all.last + 1, Len(before))

ApplyDeploymentDelta(before, edits) ==
    LET bytes == ApplyTextEdits(before, edits) IN
    IF bytes = Refused \/ ~Decodable(bytes) THEN Refused ELSE bytes

EditsInit == baseText = <<>> /\ delta = <<>> /\ answer = <<>>

SaveText ==
    /\ baseText = <<>> /\ delta = <<>>
    /\ baseText' \in Encoded /\ answer' = baseText'
    /\ UNCHANGED delta

SendDelta ==
    /\ delta = <<>>
    /\ delta' \in BoundedSeq(Edits, MaxEdits) /\ delta' # <<>>
    /\ answer' = ApplyDeploymentDelta(baseText, delta')
    /\ UNCHANGED baseText

EditsNext == SaveText \/ SendDelta

EditsSpec == EditsInit /\ [][EditsNext]_editVars

-----------------------------------------------------------------------------
(* Properties. *)

Inserts(e) == e.start = e.end

\* Two edits that no order of application reconciles: one begins inside the
\* other, or both replace from the same byte on.
Clash(e, f) == e.start < e.end /\ (e.start < f.start \/ (e.start = f.start /\ ~Inserts(f)))
                               /\ f.start < e.end

TextsOf(edits, I) ==
    FlattenSeq([k \in DOMAIN SelectAt(edits, I) |-> SelectAt(edits, I)[k].newText])

InsertedAt(edits, p) == {i \in DOMAIN edits : Inserts(edits[i]) /\ edits[i].start = p}
ReplacedAt(edits, p) == {i \in DOMAIN edits : ~Inserts(edits[i]) /\ edits[i].start = p}
Covered(edits, p) == \E i \in DOMAIN edits : edits[i].start < p /\ p <= edits[i].end

\* What stands before byte p of the old text in the new one, and that byte if no
\* edit covers it: the texts inserted there as they were sent, then the
\* replacement of the bytes from there on.
BytesAt(before, edits, p) ==
    TextsOf(edits, InsertedAt(edits, p - 1)) \o TextsOf(edits, ReplacedAt(edits, p - 1))
    \o (IF p > Len(before) \/ Covered(edits, p) THEN <<>> ELSE <<before[p]>>)

Expected(before, edits) == FlattenSeq([p \in 1..(Len(before) + 1) |-> BytesAt(before, edits, p)])

\* The answer is the text that each byte of the old one and each edit account for,
\* in whatever order the edits were sent and wherever they touch; it is refused
\* exactly if edits clash, leave the text, or cut a character in two.
EditsExact ==
    delta # <<>> =>
        IF \/ \E i \in DOMAIN delta : OutOfBounds(delta[i], baseText)
           \/ \E i, j \in DOMAIN delta : i # j /\ Clash(delta[i], delta[j])
           \/ ~Decodable(Expected(baseText, delta))
        THEN answer = Refused
        ELSE answer = Expected(baseText, delta)

=============================================================================
