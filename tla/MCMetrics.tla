------------------------------ MODULE MCMetrics ------------------------------
(* A small instance of Metrics for TLC.                                    *)
EXTENDS Metrics

CONSTANTS r1, r2

\* A request of each of two tenants.
MCTenantOf == [r \in Requests |-> IF r = r1 THEN 1 ELSE 2]

===============================================================================
