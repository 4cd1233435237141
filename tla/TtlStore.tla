------------------------------- MODULE TtlStore -------------------------------
(***************************************************************************)
(* What the exact response cache promises, independent of how it evicts,   *)
(* of how it keeps time and of what a snapshot looks like.                 *)
(*                                                                         *)
(* A store remembers, for a key, the last body put under it, and may       *)
(* forget.  A restart brings back part of what was last saved and nothing  *)
(* else.  The time to live of a record is kept to the second within one    *)
(* process; every restart may cost it one second, either way:              *)
(*                                                                         *)
(*   - a remembered record younger than (ttl - 1) s is served;             *)
(*   - a record older than (ttl + restarts + 1) s is not;                  *)
(*   - putting one record displaces at most one other, and only one that   *)
(*     may have expired or is as old as every other, to the same drift.    *)
(***************************************************************************)
EXTENDS Integers, Functions

CONSTANTS Keys, Bodies, Ttls, TicksPerSec

VARIABLES
    mem,        \* key -> record, what the running process remembers
    disk,       \* key -> record, what was last saved
    served,     \* the keys a lookup answers now
    now,        \* ticks
    restarts    \* how often the process was restarted

vars == <<mem, disk, served, now, restarts>>

\* One second for the rounding of a snapshot's times, once per restart.
Drift(n) == n * TicksPerSec

Young(r, t) == t - r.born <= (r.ttl - 1) * TicksPerSec

Outlived(r, t, n) == t - r.born >= r.ttl * TicksPerSec + Drift(n + 1)

\* The promise every step keeps about what may and must be served.
Serves(m, t, n, S) ==
    /\ S \subseteq {k \in DOMAIN m : ~Outlived(m[k], t, n)}
    /\ {k \in DOMAIN m : Young(m[k], t)} \subseteq S

ServesNext == Serves(mem', now', restarts', served')

Displaceable(k) ==
    \/ ~Young(mem[k], now)
    \/ \A j \in DOMAIN mem : mem[k].born < mem[j].born + Drift(restarts + 1)

Put(k, r) ==
    /\ r.born = now
    /\ \E lost \in {{}} \cup {{j} : j \in {i \in DOMAIN mem : Displaceable(i)}} :
          mem' = [j \in (DOMAIN mem \ lost) \cup {k} |->
                     IF j = k THEN r ELSE mem[j]]
    /\ UNCHANGED <<disk, now, restarts>>

Forget(lost) ==
    /\ mem' = Restrict(mem, DOMAIN mem \ lost)
    /\ UNCHANGED <<disk, now, restarts>>

Save ==
    /\ disk' = mem
    /\ UNCHANGED <<mem, now, restarts>>

Restart ==
    /\ \E kept \in SUBSET DOMAIN disk : mem' = Restrict(disk, kept)
    /\ restarts' = restarts + 1
    /\ UNCHANGED <<disk, now>>

Tick ==
    /\ now' = now + 1
    /\ UNCHANGED <<mem, disk, restarts>>

Init ==
    /\ mem = <<>>
    /\ disk = <<>>
    /\ served = {}
    /\ now = 0
    /\ restarts = 0

Next ==
    /\ \/ \E k \in Keys, b \in Bodies, t \in Ttls :
             Put(k, [body |-> b, ttl |-> t, born |-> now])
       \/ \E lost \in SUBSET Keys : Forget(lost)
       \/ Save
       \/ Restart
       \/ Tick
    /\ ServesNext

Spec == Init /\ [][Next]_vars

===============================================================================
