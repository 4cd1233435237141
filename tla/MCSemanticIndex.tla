--------------------------- MODULE MCSemanticIndex ---------------------------
(* A small instance of SemanticIndex for TLC.                               *)
EXTENDS SemanticIndex, TLC

CONSTANTS t1, t2

\* Room for two items in all and one in a bucket, and the other way round, so that
\* a restart may find too many in a bucket, or too many in all.
MCConfigs == {[max |-> 2, bucket |-> 1, ttl |-> 1], [max |-> 1, bucket |-> 2, ttl |-> 1]}

\* The clock is right, or was set back.
MCClockSteps == {0, -1}

Symmetry == Permutations(Threads)

===============================================================================
