---------------------------- MODULE MCExactCache ----------------------------
(* Small instances of ExactCache for TLC.                                   *)
EXTENDS ExactCache, TLC

CONSTANTS k1, k2, k3, b1, b2

\* Two capacities and two times to live, so that a restart may shrink the
\* cache and may find entries of another time to live than the configured one.
MCConfigs == {[max |-> 1, ttl |-> 1], [max |-> 2, ttl |-> 2]}

\* Adjustments of the wall clock by more than a second, both ways.
MCClockSteps == {-3, 3}

\* Keys and bodies are only ever compared, and no liveness is checked.
Symmetry == Permutations(Keys) \cup Permutations(Bodies)

===============================================================================
