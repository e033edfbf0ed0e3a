------------------------------- MODULE Lists --------------------------------
(***************************************************************************)
(* A filter of sequences as a function of two values, the sequence and the set  *)
(* of what goes, so that facts about it can be stated once and cited.           *)
(***************************************************************************)
EXTENDS Integers, Sequences

\* The elements of s that are not in T, in their order.
Without(s, T) ==
  LET rest[i \in 0..Len(s)] ==
        IF i = 0 THEN <<>>
        ELSE IF s[i] \in T THEN rest[i - 1] ELSE Append(rest[i - 1], s[i])
  IN rest[Len(s)]
=============================================================================
