------------------------------ MODULE Selection ------------------------------
(* The part of a list that a loop with a condition keeps.                   *)
EXTENDS Integers, Sequences

\* The elements of s that are in S, in the order of s.
Kept(s, S) ==
  LET kept[i \in 0..Len(s)] ==
        IF i = 0 THEN <<>>
        ELSE IF s[i] \in S THEN Append(kept[i - 1], s[i]) ELSE kept[i - 1]
  IN kept[Len(s)]
=============================================================================
