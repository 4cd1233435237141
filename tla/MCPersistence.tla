---------------------------- MODULE MCPersistence ----------------------------
(* Small instances of Persistence for TLC.                                  *)
EXTENDS Persistence, TLC

CONSTANTS h1, h2, w1, w2

\* Handlers and writers are interchangeable; only used without liveness.
Symmetry == Permutations(Handlers) \cup Permutations(Jobs)

===============================================================================
