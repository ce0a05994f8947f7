------------------------------- MODULE Lists -------------------------------
(***************************************************************************)
(* Array.prototype.filter, as a recursive function: what a proof can say   *)
(* of it, unlike of SelectSeq, follows from its definition.                *)
(***************************************************************************)
EXTENDS Integers, Sequences

\* The elements of s that are in T, in the order of s.
Filtered(s, T) ==
    LET kept[i \in 0..Len(s)] ==
            IF i = 0 THEN <<>>
            ELSE IF s[i] \in T THEN Append(kept[i - 1], s[i]) ELSE kept[i - 1]
    IN kept[Len(s)]

=============================================================================
