------------------------------- MODULE Picking -------------------------------
(***************************************************************************)
(* List comprehensions with a condition, as a program writes them.         *)
(***************************************************************************)
EXTENDS Integers, Sequences

(* The elements of a sequence at some of its indices, in their order. *)
Picked(s, at) ==
    LET upto[n \in 0 .. Len(s)] ==
            IF n = 0 THEN <<>>
            ELSE IF n \in at THEN Append(upto[n - 1], s[n]) ELSE upto[n - 1]
    IN  upto[Len(s)]
==============================================================================
