---------------------------- MODULE Subsequences ----------------------------
(***************************************************************************)
(* What filter keeps of an array.  SelectSeq of the module Sequences says  *)
(* the same, by a definition the provers cannot expand.                    *)
(***************************************************************************)
EXTENDS Integers, Sequences

\* The elements of a sequence at some of its positions, in their order.
SelectAt(s, I) ==
    LET picked[n \in 0..Len(s)] ==
            IF n = 0 THEN <<>>
            ELSE IF n \in I THEN Append(picked[n - 1], s[n]) ELSE picked[n - 1] IN
    picked[Len(s)]

\* The first n positions that are in I, in their order.
Positions(n, I) == SelectAt([i \in 1..n |-> i], I)
=============================================================================
