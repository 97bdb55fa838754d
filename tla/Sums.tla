-------------------------------- MODULE Sums --------------------------------
(* Sums over the first numbers, for the totals that a row must agree with. *)
EXTENDS Integers

\* f[1] + ... + f[n]
SumTo(f, n) ==
    LET s[i \in Nat] == IF i = 0 THEN 0 ELSE s[i - 1] + f[i]
    IN s[n]
=============================================================================
