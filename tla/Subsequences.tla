---------------------------- MODULE Subsequences ----------------------------
(***************************************************************************)
(* What is kept of a sequence: SelectSeq for the members of a set, written *)
(* as a recursive function, because nothing can be proved of the operator  *)
(* of the library.                                                         *)
(***************************************************************************)
EXTENDS Integers, Sequences

\* Of the first i of s, for every i, those that are in keep, in order.
KeptUpTo(s, keep) ==
    LET kept[i \in 0..Len(s)] ==
            IF i = 0 THEN <<>> ELSE IF s[i] \in keep THEN Append(kept[i - 1], s[i]) ELSE kept[i - 1]
    IN  kept

Kept(s, keep) == KeptUpTo(s, keep)[Len(s)]
=============================================================================
