----------------------------- MODULE Selection -----------------------------
(***************************************************************************)
(* The elements of a sequence that lie in a set, in their order, and the   *)
(* sum of a function over a set of places. They are SelectSeq() and a fold *)
(* with a set for their test, defined here because the prover knows no     *)
(* definition of those to reason from.                                     *)
(***************************************************************************)
EXTENDS Integers, Sequences

Select(s, T) ==
  LET taken[i \in 0..Len(s)] ==
        IF i = 0 THEN <<>>
        ELSE IF s[i] \in T THEN Append(taken[i - 1], s[i]) ELSE taken[i - 1]
  IN  taken[Len(s)]

\* The sum of f[i], for the i up to n that lie in T.
Total(f, n, T) ==
  LET upTo[i \in 0..n] ==
        IF i = 0 THEN 0
        ELSE upTo[i - 1] + (IF i \in T THEN f[i] ELSE 0)
  IN  upTo[n]
=============================================================================
