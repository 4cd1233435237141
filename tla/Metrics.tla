------------------------------- MODULE Metrics -------------------------------
(***************************************************************************)
(* The metrics of main.rs: one set of counters for the process and one for *)
(* each tenant, counted up by requests and read, counter by counter, by    *)
(* the two admin endpoints.                                                *)
(*                                                                         *)
(* Requests take a step per counter; a scrape takes a step per value it    *)
(* reads, or, in JSON, per tenant: the row is read under the guard of the  *)
(* iterator, which the write guard of entry() in a request excludes.       *)
(*                                                                         *)
(* The counters are Relaxed atomics, which promise no order between two    *)
(* of them.  The order of the program is assumed: x86, which the releases  *)
(* are built for, keeps it for fetch_add and for loads.                    *)
(*                                                                         *)
(* A tenant that has not been counted yet has no row, here a row of zeros. *)
(***************************************************************************)
EXTENDS Integers, FiniteSets, Sequences, Sums

CONSTANTS
    Requests,       \* each served once
    Shards,         \* tenants are 1..Shards, in the order of the iteration
    TenantOf        \* request -> its tenant

Tenants == 1..Shards

ASSUME RequestsAssumption == IsFiniteSet(Requests) /\ TenantOf \in [Requests -> Tenants]
ASSUME ShardsAssumption == Shards \in Nat \ {0}

VARIABLES
    global,     \* counter -> value
    tenants,    \* tenant -> counter -> value
    at,         \* request -> what it has counted, and what of it not for its tenant yet
    scrape      \* the scrape under way: its format, where it is, what it has read

vars == <<global, tenants, at, scrape>>

-------------------------------------------------------------------------------
\* Mutation of Order: routing, which comes first in a request, is read first.
OrderRoutedFirst ==
    <<"routed_fallback", "routed_passthrough", "exact_hits", "semantic_hits", "misses",
      "upstream_errors", "cache_inserts_exact", "cache_inserts_semantic",
      "reactive_failovers">>

\* The order in which both endpoints read.
Order ==
    <<"exact_hits", "semantic_hits", "misses", "upstream_errors", "routed_fallback",
      "routed_passthrough", "cache_inserts_exact", "cache_inserts_semantic",
      "reactive_failovers">>

Counters == {Order[i] : i \in DOMAIN Order}

Routings == {"routed_fallback", "routed_passthrough"}

Lookups == {"exact_hits", "semantic_hits", "misses"}

Answers == {"upstream_errors", "cache_inserts_exact", "cache_inserts_semantic"}

\* Mutation of Follows: a miss is counted when the response to it has come.
FollowsMissLate(e, done) ==
    CASE e \in Routings -> done = {}
      [] e = "misses" -> done \cap Answers # {}
      [] e \in Lookups -> done \in {{r} : r \in Routings}
      [] e = "reactive_failovers" -> done = {"routed_passthrough"}
      [] e = "cache_inserts_semantic" -> done # {} /\ done \cap Lookups = {}
      [] OTHER -> done # {} /\ done \cap (Answers \cup Lookups) = {}

\* Whether a request that has counted `done` may count e next: how it is routed, what
\* its lookup comes to and, after a miss, a failover from the upstream, and an error
\* or inserts.  It may also end: the answer was not a success or not to be cached,
\* the predictor failed, the client went away.
Follows(e, done) ==
    CASE e \in Routings -> done = {}
      [] e \in Lookups -> done \in {{r} : r \in Routings}
      [] e = "reactive_failovers" -> done = {"routed_passthrough", "misses"}
      [] e = "cache_inserts_semantic" ->
            "misses" \in done /\ done \cap Answers \subseteq {"cache_inserts_exact"}
      [] OTHER -> "misses" \in done /\ done \cap Answers = {}

\* What is remembered of values that were read: how many requests were routed, and
\* how many looked up.
Nothing == [routed |-> 0, lookups |-> 0]

Noted(tally, n, value) ==
    CASE n \in Routings -> [tally EXCEPT !.routed = @ + value]
      [] n \in Lookups -> [tally EXCEPT !.lookups = @ + value]
      [] OTHER -> tally

\* How a scrape begins.
Begun(format) ==
    [format |-> format, metric |-> 1, tenant |-> 0, global |-> Nothing,
     tenants |-> [t \in Tenants |-> Nothing]]

NoScrape == Begun("none")

Tallies == [routed : Nat, lookups : Nat]

TypeOK ==
    /\ global \in [Counters -> Nat]
    /\ tenants \in [Tenants -> [Counters -> Nat]]
    /\ at \in [Requests -> [done : SUBSET Counters, half : SUBSET Counters]]
    /\ scrape \in [format : {"none", "json", "prometheus"},
                   metric : 1..Len(Order) + 1,  \* past the last when JSON is at the rows
                   tenant : 0..Shards, global : Tallies, tenants : [Tenants -> Tallies]]
    /\ \A r \in Requests : at[r].half \subseteq at[r].done

-------------------------------------------------------------------------------
(* Requests.                                                               *)

\* A request counts e, for the process first.
CountGlobal(r, e) ==
    /\ at[r].half = {}
    /\ Follows(e, at[r].done)
    /\ global' = [global EXCEPT ![e] = @ + 1]
    /\ at' = [at EXCEPT ![r] = [done |-> at[r].done \cup {e}, half |-> {e}]]
    /\ UNCHANGED <<tenants, scrape>>

\* Mutation of CountTenant: the tenant's failovers are forgotten.
CountTenantNoFailover(r) ==
    /\ at[r].half # {}
    /\ tenants' = [tenants EXCEPT ![TenantOf[r]] =
                      [n \in Counters |->
                          IF n \in at[r].half \ {"reactive_failovers"} THEN @[n] + 1 ELSE @[n]]]
    /\ at' = [at EXCEPT ![r].half = {}]
    /\ UNCHANGED <<global, scrape>>

\* Then for its tenant; there is no await in between at which it could be dropped.
CountTenant(r) ==
    /\ at[r].half # {}
    /\ tenants' = [tenants EXCEPT ![TenantOf[r]] =
                      [n \in Counters |-> IF n \in at[r].half THEN @[n] + 1 ELSE @[n]]]
    /\ at' = [at EXCEPT ![r].half = {}]
    /\ UNCHANGED <<global, scrape>>

-------------------------------------------------------------------------------
(* Scrapes.                                                                *)

Metric == Order[scrape.metric]

Scrape(format) ==
    /\ scrape = NoScrape
    /\ scrape' = Begun(format)
    /\ UNCHANGED <<global, tenants, at>>

\* admin_metrics: first all counters of the process.
JsonGlobal ==
    /\ scrape.format = "json"
    /\ scrape.metric <= Len(Order)
    /\ scrape' = [scrape EXCEPT !.global = Noted(@, Metric, global[Metric]),
                                !.metric = @ + 1]
    /\ UNCHANGED <<global, tenants, at>>

\* The row of a tenant.
JsonRead == tenants[scrape.tenant + 1]

\* Then the rows of the tenants, and the answer.
JsonRow ==
    /\ scrape.format = "json"
    /\ scrape.metric > Len(Order)
    /\ LET t == scrape.tenant + 1
       IN  scrape' = IF t = Shards THEN NoScrape
                     ELSE [scrape EXCEPT !.tenant = t]
    /\ UNCHANGED <<global, tenants, at>>

\* admin_metrics_prometheus, emit_metric: for each metric the value of the process,
\* passed as an argument, then that of each tenant.
PrometheusGlobal ==
    /\ scrape.format = "prometheus"
    /\ scrape.tenant = 0
    /\ scrape' = [scrape EXCEPT !.global = Noted(@, Metric, global[Metric]),
                                !.tenant = 1]
    /\ UNCHANGED <<global, tenants, at>>

\* What is known of a tenant with the value read now.
PrometheusRead ==
    Noted(scrape.tenants[scrape.tenant], Metric, tenants[scrape.tenant][Metric])

\* Mutation of PrometheusTenant: one tenant too many.
PrometheusTenantPast ==
    /\ scrape.format = "prometheus"
    /\ scrape.tenant > 0
    /\ LET t == scrape.tenant
           on == [scrape EXCEPT !.tenants[t] = PrometheusRead]
       IN  scrape' = IF t <= Shards THEN [on EXCEPT !.tenant = t + 1]
                     ELSE IF scrape.metric < Len(Order)
                     THEN [on EXCEPT !.tenant = 0, !.metric = @ + 1]
                     ELSE NoScrape
    /\ UNCHANGED <<global, tenants, at>>

PrometheusTenant ==
    /\ scrape.format = "prometheus"
    /\ scrape.tenant > 0
    /\ LET t == scrape.tenant
           on == [scrape EXCEPT !.tenants[t] = PrometheusRead]
       IN  scrape' = IF t < Shards THEN [on EXCEPT !.tenant = t + 1]
                     ELSE IF scrape.metric < Len(Order)
                     THEN [on EXCEPT !.tenant = 0, !.metric = @ + 1]
                     ELSE NoScrape
    /\ UNCHANGED <<global, tenants, at>>

-------------------------------------------------------------------------------
Init ==
    /\ global = [n \in Counters |-> 0]
    /\ tenants = [t \in Tenants |-> [n \in Counters |-> 0]]
    /\ at = [r \in Requests |-> [done |-> {}, half |-> {}]]
    /\ scrape = NoScrape

Next ==
    \/ \E r \in Requests : CountTenant(r) \/ \E e \in Counters : CountGlobal(r, e)
    \/ \E format \in {"json", "prometheus"} : Scrape(format)
    \/ JsonGlobal \/ JsonRow
    \/ PrometheusGlobal \/ PrometheusTenant

Spec == Init /\ [][Next]_vars

-------------------------------------------------------------------------------
(* Properties.                                                             *)

\* The tenants' counters add up to those of the process, but for the requests that
\* are between the two: no path through the handler counts one and not the other.
InFlightOnly ==
    \A n \in Counters :
        global[n] = SumTo([t \in Tenants |-> tenants[t][n]], Shards)
                    + Cardinality({r \in Requests : n \in at[r].half})

\* A scrape of either format never shows more lookups than requests, although it
\* reads counter by counter while requests run: a ratio of hits to requests computed
\* from it stays within 1, for the process and for each tenant.
ScrapeOrder ==
    [][/\ scrape.format # "none" /\ scrape' = NoScrape =>
             scrape.global.lookups <= scrape.global.routed
       /\ PrometheusTenant /\ scrape.metric = Len(Order) =>
             PrometheusRead.lookups <= PrometheusRead.routed]_vars

\* A row of the JSON answer is one moment of its tenant: lookups in it belong to
\* requests in it, and errors, failovers and inserts to misses.
RowIsCut ==
    [][JsonRow =>
          /\ JsonRead.exact_hits + JsonRead.semantic_hits + JsonRead.misses
                <= JsonRead.routed_fallback + JsonRead.routed_passthrough
          /\ JsonRead.upstream_errors + JsonRead.cache_inserts_exact <= JsonRead.misses
          /\ JsonRead.cache_inserts_semantic <= JsonRead.misses
          /\ JsonRead.reactive_failovers <= JsonRead.misses
          /\ JsonRead.reactive_failovers <= JsonRead.routed_passthrough]_vars

===============================================================================
