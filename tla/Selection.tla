----------------------------- MODULE Selection -----------------------------
(***************************************************************************)
(* The loops of the programs that go over a list and pass on some of its   *)
(* elements, in their order: `continue` for the others, or filter_map.  A  *)
(* recursive function computes it, so that it can be reasoned about at any *)
(* iteration of the loop.                                                  *)
(***************************************************************************)
EXTENDS Naturals, Sequences

\* Per number of iterations, the elements of s in K met so far.
OnlyUpTo(s, K) ==
  LET upTo[n \in 0..Len(s)] ==
        IF n = 0 THEN <<>>
        ELSE IF s[n] \in K THEN Append(upTo[n - 1], s[n]) ELSE upTo[n - 1]
  IN  upTo

Only(s, K) == OnlyUpTo(s, K)[Len(s)]
=============================================================================
