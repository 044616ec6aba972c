----------------------------- MODULE Subsequences -----------------------------
(***************************************************************************)
(* List comprehensions, sums and concatenations as functions that are      *)
(* recursive in the length of a prefix.                                    *)
(***************************************************************************)
EXTENDS Naturals, Sequences

\* [x for i, x in enumerate(s) if i in positions]
Picked(s, positions) ==
  LET K[n \in 0..Len(s)] ==
        IF n = 0 THEN <<>>
        ELSE IF n \in positions THEN Append(K[n - 1], s[n]) ELSE K[n - 1]
  IN K[Len(s)]

\* sum(s)
Total(s) ==
  LET T[n \in 0..Len(s)] == IF n = 0 THEN 0 ELSE T[n - 1] + s[n]
  IN T[Len(s)]

\* The concatenations of the first n lists of ss, for each n.
Joined(ss) ==
  LET J[n \in 0..Len(ss)] == IF n = 0 THEN <<>> ELSE J[n - 1] \o ss[n]
  IN J
===============================================================================
