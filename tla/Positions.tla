------------------------------- MODULE Positions -------------------------------
(***************************************************************************)
(* Parts of a sequence that are given by their positions.                  *)
(***************************************************************************)
EXTENDS Naturals, Sequences, FiniteSetsExt

\* The elements of I in 1..n, in increasing order.
InOrder(I, n) ==
    LET upTo[i \in 0..n] ==
          IF i = 0 THEN <<>> ELSE IF i \in I THEN Append(upTo[i - 1], i) ELSE upTo[i - 1]
    IN upTo[n]

\* What s has at these positions.
At(s, I) == LET at == InOrder(I, Len(s)) IN [n \in DOMAIN at |-> s[at[n]]]

\* Where the run of equal elements starts that i is in.
RunStart(s, i) == Min({j \in 1..i : \A k \in j..i : s[k] = s[i]})
=============================================================================
