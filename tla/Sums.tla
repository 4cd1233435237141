--------------------------------- MODULE Sums ---------------------------------
(* Sums over the numbered parts of a whole: shards, tenants.               *)
EXTENDS Integers

\* f[1] + ... + f[n]
SumTo(f, n) ==
    LET upto[i \in 0..n] == IF i = 0 THEN 0 ELSE upto[i - 1] + f[i]
    IN  upto[n]

===============================================================================
