------------------------------- MODULE Selection -------------------------------
(***************************************************************************)
(* The loop that copies what it keeps of a list: ranges over it and        *)
(* appends each element that qualifies to a new one.  It is a recursive    *)
(* function over what the loop has come to, where SelectSeq would hide the *)
(* loop from the proofs.                                                   *)
(***************************************************************************)
EXTENDS Integers, Sequences

\* Selecting(s, T)[i]: what is selected of the first i elements of s.
Selecting(s, T) ==
  LET selected[i \in 0 .. Len(s)] ==
        IF i = 0 THEN <<>>
        ELSE IF s[i] \in T THEN Append(selected[i - 1], s[i])
        ELSE selected[i - 1]
  IN selected

Selected(s, T) == Selecting(s, T)[Len(s)]

=============================================================================
