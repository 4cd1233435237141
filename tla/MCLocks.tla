------------------------------- MODULE MCLocks -------------------------------
(* Small instances of Locks for TLC.                                        *)
EXTENDS Locks, TLC

CONSTANTS t1, t2, t3

Symmetry == Permutations(Threads)

\* Every operation but the insert into the semantic index.
AllButSemanticInsert ==
    {"exact_hit", "exact_insert", "semantic_hit", "summary", "flush",
     "exact_delete", "semantic_delete", "metrics", "shutdown"}

===============================================================================
