----------------------------- MODULE Selection ------------------------------
(***************************************************************************)
(* The elements of a sequence that are in a set, in their order.  The      *)
(* recursion is a function, which a proof can reason about.                *)
(***************************************************************************)
EXTENDS Integers, Sequences

Among(seq, wanted) ==
  LET among[n \in 0..Len(seq)] ==
        IF n = 0 THEN <<>>
        ELSE IF seq[n] \in wanted THEN Append(among[n - 1], seq[n]) ELSE among[n - 1]
  IN  among[Len(seq)]
=============================================================================
