---------------------------- MODULE MetricsProofs ----------------------------
(***************************************************************************)
(* Theorems about Metrics, for any number of requests and tenants and any  *)
(* number of scrapes among them.                                           *)
(*                                                                         *)
(* Every counter is the number of requests that have counted it.  What a   *)
(* request has counted is always a beginning of a legal path through the   *)
(* handler, and so the same inequalities hold between the counters as      *)
(* between what one request counts.                                        *)
(***************************************************************************)
EXTENDS Metrics, SumsProofs

-------------------------------------------------------------------------------
(* The counters and what requests may count.                               *)

LEMMA CountersAre ==
    /\ Len(Order) = 9
    /\ Counters = {"exact_hits", "semantic_hits", "misses", "upstream_errors",
                   "routed_fallback", "routed_passthrough", "cache_inserts_exact",
                   "cache_inserts_semantic", "reactive_failovers"}
<1>1. Len(Order) = 9 /\ DOMAIN Order = 1..9
  BY DEF Order
<1>2. Counters = {Order[i] : i \in 1..9}
  BY <1>1 DEF Counters
<1>3. /\ Order[1] = "exact_hits" /\ Order[2] = "semantic_hits" /\ Order[3] = "misses"
      /\ Order[4] = "upstream_errors" /\ Order[5] = "routed_fallback"
      /\ Order[6] = "routed_passthrough" /\ Order[7] = "cache_inserts_exact"
      /\ Order[8] = "cache_inserts_semantic" /\ Order[9] = "reactive_failovers"
  BY DEF Order
<1>4. \A i \in 1..9 : i = 1 \/ i = 2 \/ i = 3 \/ i = 4 \/ i = 5 \/ i = 6 \/ i = 7 \/ i = 8 \/ i = 9
  OBVIOUS
<1>5. QED
  BY <1>1, <1>2, <1>3, <1>4

\* What a request may have counted: one routing before all else, one lookup, and what
\* follows a miss, of which an error and an insert exclude each other.
Legal(done) ==
    /\ ~("routed_fallback" \in done /\ "routed_passthrough" \in done)
    /\ \A e, f \in done \cap Lookups : e = f
    /\ done \cap Lookups # {} => done \cap Routings # {}
    /\ done \cap (Answers \cup {"reactive_failovers"}) # {} => "misses" \in done
    /\ "reactive_failovers" \in done => "routed_passthrough" \in done
    /\ ~("upstream_errors" \in done /\ "cache_inserts_exact" \in done)

\* The code goes from legal to legal, and counts nothing twice.
LEMMA FollowsLegal ==
    ASSUME NEW done \in SUBSET Counters, Legal(done), NEW e \in Counters, Follows(e, done)
    PROVE  Legal(done \cup {e}) /\ e \notin done
<1> USE CountersAre DEF Routings, Lookups, Answers
<1>1. CASE e \in Routings
  <2>1. done = {}
    BY <1>1 DEF Follows
  <2>2. QED
    BY <1>1, <2>1 DEF Legal
<1>2. CASE e \in Lookups
  <2>1. done = {"routed_fallback"} \/ done = {"routed_passthrough"}
    BY <1>2 DEF Follows
  <2>2. QED
    BY <1>2, <2>1 DEF Legal
<1>3. CASE e = "reactive_failovers"
  <2>1. done = {"routed_passthrough", "misses"}
    BY <1>3 DEF Follows
  <2>2. QED
    BY <1>3, <2>1 DEF Legal
<1>4. CASE e = "cache_inserts_semantic"
  <2>1. "misses" \in done /\ done \cap Answers \subseteq {"cache_inserts_exact"}
    BY <1>4 DEF Follows
  <2>2. QED
    BY <1>4, <2>1 DEF Legal
<1>5. CASE e \in {"upstream_errors", "cache_inserts_exact"}
  <2>1. "misses" \in done /\ done \cap Answers = {}
    BY <1>5 DEF Follows
  <2>2. QED
    BY <1>5, <2>1 DEF Legal
<1>6. QED
  BY <1>1, <1>2, <1>3, <1>4, <1>5

-------------------------------------------------------------------------------
(* The state is well-formed.                                               *)

LEMMA NotedType ==
    ASSUME NEW tally \in Tallies, NEW n, NEW value \in Nat
    PROVE  Noted(tally, n, value) \in Tallies
<1>1. tally.routed + value \in Nat /\ tally.lookups + value \in Nat
  BY DEF Tallies
<1>2. CASE n \in Routings
  BY <1>1, <1>2 DEF Noted, Tallies
<1>3. CASE n \in Lookups /\ n \notin Routings
  BY <1>1, <1>3 DEF Noted, Tallies
<1>4. CASE n \notin Lookups /\ n \notin Routings
  BY <1>4 DEF Noted
<1>5. QED
  BY <1>2, <1>3, <1>4

\* Where a scrape is: Prometheus has always a metric to read, JSON a row.
PlaceOK ==
    /\ scrape.format = "prometheus" => scrape.metric <= Len(Order)
    /\ scrape.format = "json" => scrape.tenant < Shards

LEMMA BegunType ==
    ASSUME NEW format \in {"none", "json", "prometheus"}
    PROVE  Begun(format) \in [format : {"none", "json", "prometheus"},
                              metric : 1..Len(Order) + 1,
                              tenant : 0..Shards, global : Tallies,
                              tenants : [Tenants -> Tallies]]
<1>1. 1 \in 1..Len(Order) + 1 /\ 0 \in 0..Shards
  BY CountersAre, ShardsAssumption
<1>2. Nothing \in Tallies
  BY DEF Nothing, Tallies
<1>3. QED
  BY <1>1, <1>2 DEF Begun

\* A counter that is read is a number.
LEMMA ReadType ==
    ASSUME TypeOK, scrape.metric <= Len(Order)
    PROVE  /\ Metric \in Counters /\ global[Metric] \in Nat
           /\ \A t \in Tenants : tenants[t][Metric] \in Nat
<1>1. scrape.metric \in 1..9
  BY CountersAre DEF TypeOK
<1>2. Metric \in Counters
  BY <1>1 DEF Metric, Counters, Order
<1>3. QED
  BY <1>2 DEF TypeOK

LEMMA NextType == TypeOK /\ PlaceOK /\ [Next]_vars => TypeOK' /\ PlaceOK'
<1> SUFFICES ASSUME TypeOK, PlaceOK, [Next]_vars
             PROVE  TypeOK' /\ PlaceOK'
  OBVIOUS
<1> DEFINE Scrapes == [format : {"none", "json", "prometheus"}, metric : 1..Len(Order) + 1,
                       tenant : 0..Shards, global : Tallies, tenants : [Tenants -> Tallies]]
<1>1. ASSUME NEW r \in Requests, NEW e \in Counters, CountGlobal(r, e)
      PROVE  TypeOK' /\ PlaceOK'
  <2>1. global' \in [Counters -> Nat]
    <3>1. global[e] + 1 \in Nat
      BY DEF TypeOK
    <3>2. QED
      BY <1>1, <3>1 DEF CountGlobal, TypeOK
  <2>2. [done |-> at[r].done \cup {e}, half |-> {e}]
           \in [done : SUBSET Counters, half : SUBSET Counters]
    BY DEF TypeOK
  <2>3. /\ at' \in [Requests -> [done : SUBSET Counters, half : SUBSET Counters]]
        /\ \A q \in Requests : at'[q].half \subseteq at'[q].done
    BY <1>1, <2>2 DEF CountGlobal, TypeOK
  <2>4. QED
    BY <1>1, <2>1, <2>3 DEF CountGlobal, TypeOK, PlaceOK
<1>2. ASSUME NEW r \in Requests, CountTenant(r)
      PROVE  TypeOK' /\ PlaceOK'
  <2>1. TenantOf[r] \in Tenants
    BY RequestsAssumption
  <2>2. [n \in Counters |-> IF n \in at[r].half THEN tenants[TenantOf[r]][n] + 1
                            ELSE tenants[TenantOf[r]][n]] \in [Counters -> Nat]
    <3>1. \A n \in Counters : tenants[TenantOf[r]][n] \in Nat /\ tenants[TenantOf[r]][n] + 1 \in Nat
      BY <2>1 DEF TypeOK
    <3>2. QED
      BY <3>1
  <2>3. tenants' \in [Tenants -> [Counters -> Nat]]
    BY <1>2, <2>1, <2>2 DEF CountTenant, TypeOK
  <2>4. /\ at' \in [Requests -> [done : SUBSET Counters, half : SUBSET Counters]]
        /\ \A q \in Requests : at'[q].half \subseteq at'[q].done
    <3>1. at' = [at EXCEPT ![r] = [at[r] EXCEPT !.half = {}]]
      BY <1>2 DEF CountTenant
    <3>2. /\ [at[r] EXCEPT !.half = {}] \in [done : SUBSET Counters, half : SUBSET Counters]
          /\ [at[r] EXCEPT !.half = {}].half = {}
      BY DEF TypeOK
    <3>3. QED
      BY <3>1, <3>2 DEF TypeOK
  <2>5. QED
    BY <1>2, <2>3, <2>4 DEF CountTenant, TypeOK, PlaceOK
<1>3. ASSUME UNCHANGED <<global, tenants, at>>, scrape' \in Scrapes, PlaceOK'
      PROVE  TypeOK' /\ PlaceOK'
  BY <1>3 DEF TypeOK
<1>4. NoScrape \in Scrapes /\ NoScrape.format = "none"
  BY BegunType DEF NoScrape, Begun
<1>5. ASSUME NEW format \in {"json", "prometheus"}, Scrape(format)
      PROVE  TypeOK' /\ PlaceOK'
  <2>1. scrape' \in Scrapes
    BY <1>5, BegunType DEF Scrape
  <2>2. PlaceOK'
    BY <1>5, CountersAre, ShardsAssumption DEF Scrape, Begun, PlaceOK
  <2>3. QED
    BY <1>3, <1>5, <2>1, <2>2 DEF Scrape
<1>6. CASE JsonGlobal
  <2>1. Noted(scrape.global, Metric, global[Metric]) \in Tallies
    BY <1>6, ReadType, NotedType DEF JsonGlobal, TypeOK
  <2>2. scrape.metric + 1 \in 1..Len(Order) + 1
    BY <1>6, CountersAre DEF JsonGlobal, TypeOK
  <2>3. scrape' \in Scrapes /\ scrape'.format = "json" /\ scrape'.tenant = scrape.tenant
    BY <1>6, <2>1, <2>2 DEF JsonGlobal, TypeOK
  <2>4. PlaceOK'
    BY <1>6, <2>3 DEF JsonGlobal, PlaceOK
  <2>5. QED
    BY <1>3, <1>6, <2>3, <2>4 DEF JsonGlobal
<1>7. CASE JsonRow
  <2>1. CASE scrape.tenant + 1 = Shards
    <3>1. scrape' = NoScrape
      BY <1>7, <2>1 DEF JsonRow
    <3>2. PlaceOK'
      BY <1>4, <3>1 DEF PlaceOK
    <3>3. QED
      BY <1>3, <1>4, <1>7, <3>1, <3>2 DEF JsonRow
  <2>2. CASE scrape.tenant + 1 # Shards
    <3>1. scrape' = [scrape EXCEPT !.tenant = scrape.tenant + 1] /\ scrape.format = "json"
      BY <1>7, <2>2 DEF JsonRow
    <3>2. scrape.tenant + 1 \in 0..Shards /\ scrape.tenant + 1 < Shards
      BY <2>2, <3>1, ShardsAssumption DEF TypeOK, PlaceOK
    <3>3. scrape' \in Scrapes /\ scrape'.format = "json" /\ scrape'.tenant = scrape.tenant + 1
      BY <3>1, <3>2 DEF TypeOK
    <3>4. PlaceOK'
      BY <3>2, <3>3 DEF PlaceOK
    <3>5. QED
      BY <1>3, <1>7, <3>3, <3>4 DEF JsonRow
  <2>3. QED
    BY <2>1, <2>2
<1>8. CASE PrometheusGlobal
  <2>1. Noted(scrape.global, Metric, global[Metric]) \in Tallies
    BY <1>8, ReadType, NotedType DEF PrometheusGlobal, TypeOK, PlaceOK
  <2>2. 1 \in 0..Shards
    BY ShardsAssumption
  <2>3. /\ scrape' \in Scrapes /\ scrape'.format = "prometheus"
        /\ scrape'.metric = scrape.metric
    BY <1>8, <2>1, <2>2 DEF PrometheusGlobal, TypeOK
  <2>4. PlaceOK'
    BY <1>8, <2>3 DEF PrometheusGlobal, PlaceOK
  <2>5. QED
    BY <1>3, <1>8, <2>3, <2>4 DEF PrometheusGlobal
<1>9. CASE PrometheusTenant
  <2> DEFINE t == scrape.tenant
             on == [scrape EXCEPT !.tenants[t] = PrometheusRead]
  <2>1. /\ scrape.format = "prometheus" /\ t > 0
        /\ scrape' = IF t < Shards THEN [on EXCEPT !.tenant = t + 1]
                     ELSE IF scrape.metric < Len(Order)
                     THEN [on EXCEPT !.tenant = 0, !.metric = @ + 1]
                     ELSE NoScrape
    BY <1>9 DEF PrometheusTenant
  <2>2. t \in Tenants /\ scrape.metric \in 1..9 /\ Len(Order) = 9
    BY <2>1, CountersAre, ShardsAssumption DEF TypeOK, PlaceOK, Tenants
  <2>3. PrometheusRead \in Tallies
    BY <2>2, ReadType, NotedType DEF PrometheusRead, TypeOK
  <2>4. on \in Scrapes /\ on.format = "prometheus" /\ on.metric = scrape.metric
    BY <2>1, <2>2, <2>3 DEF TypeOK
  <2> HIDE DEF on
  <2>5. CASE t < Shards
    <3>1. t + 1 \in 0..Shards
      BY <2>2, <2>5, ShardsAssumption DEF Tenants
    <3>2. scrape' \in Scrapes /\ scrape'.format = "prometheus" /\ scrape'.metric = scrape.metric
      BY <2>1, <2>4, <2>5, <3>1
    <3>3. PlaceOK'
      BY <2>2, <3>2 DEF PlaceOK
    <3>4. QED
      BY <1>3, <1>9, <3>2, <3>3 DEF PrometheusTenant
  <2>6. CASE ~(t < Shards) /\ scrape.metric < Len(Order)
    <3>1. scrape' = [on EXCEPT !.tenant = 0, !.metric = on.metric + 1]
      BY <2>1, <2>6
    <3>2. on.metric + 1 \in 1..Len(Order) + 1 /\ 0 \in 0..Shards /\ on.metric + 1 <= 9
      BY <2>2, <2>4, <2>6, ShardsAssumption
    <3>3. scrape' \in Scrapes /\ scrape'.format = "prometheus" /\ scrape'.metric = on.metric + 1
      BY <2>4, <3>1, <3>2
    <3>4. PlaceOK'
      BY <2>2, <3>2, <3>3 DEF PlaceOK
    <3>5. QED
      BY <1>3, <1>9, <3>3, <3>4 DEF PrometheusTenant
  <2>7. CASE ~(t < Shards) /\ ~(scrape.metric < Len(Order))
    <3>1. scrape' = NoScrape
      BY <2>1, <2>7
    <3>2. PlaceOK'
      BY <1>4, <3>1 DEF PlaceOK
    <3>3. QED
      BY <1>3, <1>4, <1>9, <3>1, <3>2 DEF PrometheusTenant
  <2>8. QED
    BY <2>5, <2>6, <2>7
<1>10. CASE UNCHANGED vars
  BY <1>10 DEF vars, TypeOK, PlaceOK
<1>11. QED
  BY <1>1, <1>2, <1>5, <1>6, <1>7, <1>8, <1>9, <1>10 DEF Next

LEMMA InitType == Init => TypeOK /\ PlaceOK
<1> SUFFICES ASSUME Init PROVE TypeOK /\ PlaceOK
  OBVIOUS
<1>1. scrape \in [format : {"none", "json", "prometheus"}, metric : 1..Len(Order) + 1,
                  tenant : 0..Shards, global : Tallies, tenants : [Tenants -> Tallies]]
      /\ scrape.format = "none"
  BY BegunType DEF Init, NoScrape, Begun
<1>2. QED
  BY <1>1 DEF Init, TypeOK, PlaceOK

\* Counters, requests and scrapes keep their shape: a scrape reads within the list of
\* metrics and the tenants there are.
THEOREM TypeCorrect == Spec => []TypeOK
<1>1. Spec => [](TypeOK /\ PlaceOK)
  BY InitType, NextType, PTL DEF Spec
<1>2. QED
  BY <1>1, PTL

-------------------------------------------------------------------------------
(* What is between the counters of the process and those of the tenants.   *)

\* The requests that have counted n for the process and not yet for their tenant.
Between(n) == {r \in Requests : n \in at[r].half}

\* What the tenants have of n, one by one.
OfEach(n) == [t \in Tenants |-> tenants[t][n]]

\* The step for one counter that the tenant's half of counting gets or does not get.
LEMMA BetweenOneLess ==
    ASSUME TypeOK, NEW r \in Requests, CountTenant(r), NEW n \in Counters
    PROVE  /\ OfEach(n) \in [1..Shards -> Int] /\ OfEach(n)' \in [1..Shards -> Int]
           /\ global' = global
           /\ SumTo(OfEach(n)', Shards) + Cardinality(Between(n)')
                 = SumTo(OfEach(n), Shards) + Cardinality(Between(n))
<1>1. TenantOf[r] \in Tenants /\ Tenants = 1..Shards /\ IsFiniteSet(Requests)
  BY RequestsAssumption DEF Tenants
<1>2. /\ tenants' = [tenants EXCEPT ![TenantOf[r]] =
                        [m \in Counters |-> IF m \in at[r].half THEN tenants[TenantOf[r]][m] + 1
                                            ELSE tenants[TenantOf[r]][m]]]
      /\ at' = [at EXCEPT ![r] = [at[r] EXCEPT !.half = {}]]
      /\ global' = global
  BY DEF CountTenant
<1>3. \A t \in Tenants : tenants[t][n] \in Nat
  BY DEF TypeOK
<1>4. /\ \A t \in Tenants : t # TenantOf[r] => tenants'[t][n] = tenants[t][n]
      /\ tenants'[TenantOf[r]][n] = IF n \in at[r].half THEN tenants[TenantOf[r]][n] + 1
                                    ELSE tenants[TenantOf[r]][n]
  BY <1>1, <1>2 DEF TypeOK
<1>5. OfEach(n) \in [1..Shards -> Int] /\ OfEach(n)' \in [1..Shards -> Int]
  BY <1>1, <1>3, <1>4 DEF OfEach
<1>6. Between(n)' = Between(n) \ {r}
  <2>1. \A q \in Requests : at'[q].half = IF q = r THEN {} ELSE at[q].half
    BY <1>2 DEF TypeOK
  <2>2. QED
    BY <2>1 DEF Between
<1>7. IsFiniteSet(Between(n))
  BY <1>1, FS_Subset DEF Between
<1>8. Cardinality(Between(n)) \in Nat
  BY <1>7, FS_CardinalityType
<1>9. CASE n \in at[r].half
  <2>1. Cardinality(Between(n)') = Cardinality(Between(n)) - 1
    <3>1. r \in Between(n)
      BY <1>9 DEF Between
    <3>2. QED
      BY <1>6, <1>7, <3>1, FS_RemoveElement
  <2>2. /\ \A t \in 1..Shards : t # TenantOf[r] => OfEach(n)'[t] = OfEach(n)[t]
        /\ OfEach(n)'[TenantOf[r]] = OfEach(n)[TenantOf[r]] + 1
    BY <1>1, <1>4, <1>9 DEF OfEach
  <2>3. SumTo(OfEach(n)', Shards)
           = SumTo(OfEach(n), Shards) - OfEach(n)[TenantOf[r]] + OfEach(n)'[TenantOf[r]]
    BY <1>1, <1>5, <2>2, ShardsAssumption, SumChanged
  <2>4. SumTo(OfEach(n), Shards) \in Int
    BY <1>5, ShardsAssumption, SumType
  <2>5. OfEach(n)[TenantOf[r]] \in Int
    BY <1>1, <1>5
  <2>6. QED
    BY <1>2, <1>5, <1>8, <2>1, <2>2, <2>3, <2>4, <2>5
<1>10. CASE n \notin at[r].half
  <2>1. Between(n)' = Between(n)
    BY <1>6, <1>10 DEF Between
  <2>2. OfEach(n)' = OfEach(n)
    BY <1>1, <1>4, <1>10 DEF OfEach
  <2>3. QED
    BY <1>2, <1>5, <2>1, <2>2
<1>11. QED
  BY <1>9, <1>10

LEMMA BetweenOneMore ==
    ASSUME TypeOK, NEW r \in Requests, NEW e \in Counters, CountGlobal(r, e),
           NEW n \in Counters
    PROVE  /\ OfEach(n)' = OfEach(n)
           /\ global'[n] - global[n] = Cardinality(Between(n)') - Cardinality(Between(n))
           /\ global[n] \in Nat /\ global'[n] \in Nat
           /\ Cardinality(Between(n)) \in Nat /\ Cardinality(Between(n)') \in Nat
<1>1. /\ at[r].half = {} /\ tenants' = tenants
      /\ global' = [global EXCEPT ![e] = global[e] + 1]
      /\ at' = [at EXCEPT ![r] = [done |-> at[r].done \cup {e}, half |-> {e}]]
  BY DEF CountGlobal
<1>2. OfEach(n)' = OfEach(n)
  BY <1>1 DEF OfEach
<1>3. global[n] \in Nat /\ global'[n] = IF n = e THEN global[n] + 1 ELSE global[n]
  BY <1>1 DEF TypeOK
<1>4. \A q \in Requests : at'[q].half = IF q = r THEN {e} ELSE at[q].half
  BY <1>1 DEF TypeOK
<1>5. IsFiniteSet(Between(n))
  BY RequestsAssumption, FS_Subset DEF Between
<1>6. Cardinality(Between(n)) \in Nat
  BY <1>5, FS_CardinalityType
<1>7. CASE n = e
  <2>1. Between(n)' = Between(n) \cup {r} /\ r \notin Between(n)
    BY <1>1, <1>4, <1>7 DEF Between
  <2>2. Cardinality(Between(n)') = Cardinality(Between(n)) + 1
    BY <1>5, <2>1, FS_AddElement
  <2>3. QED
    BY <1>2, <1>3, <1>6, <1>7, <2>2
<1>8. CASE n # e
  <2>1. Between(n)' = Between(n)
    BY <1>1, <1>4, <1>8 DEF Between
  <2>2. QED
    BY <1>2, <1>3, <1>6, <1>8, <2>1
<1>9. QED
  BY <1>7, <1>8

LEMMA NextInFlight == TypeOK /\ InFlightOnly /\ [Next]_vars => InFlightOnly'
<1> SUFFICES ASSUME TypeOK, InFlightOnly, [Next]_vars, NEW n \in Counters
             PROVE  global'[n] = SumTo(OfEach(n)', Shards) + Cardinality(Between(n)')
  BY DEF InFlightOnly, OfEach, Between
<1>1. global[n] = SumTo(OfEach(n), Shards) + Cardinality(Between(n))
  BY DEF InFlightOnly, OfEach, Between
<1>2. SumTo(OfEach(n), Shards) \in Int
  <2>1. OfEach(n) \in [1..Shards -> Int]
    BY DEF TypeOK, OfEach, Tenants
  <2>2. QED
    BY <2>1, ShardsAssumption, SumType
<1>3. ASSUME NEW r \in Requests, NEW e \in Counters, CountGlobal(r, e)
      PROVE  global'[n] = SumTo(OfEach(n)', Shards) + Cardinality(Between(n)')
  <2>1. /\ OfEach(n)' = OfEach(n)
        /\ global'[n] - global[n] = Cardinality(Between(n)') - Cardinality(Between(n))
        /\ global[n] \in Nat /\ global'[n] \in Nat
        /\ Cardinality(Between(n)) \in Nat /\ Cardinality(Between(n)') \in Nat
    BY <1>3, BetweenOneMore
  <2>2. QED
    BY <1>1, <1>2, <2>1
<1>4. ASSUME NEW r \in Requests, CountTenant(r)
      PROVE  global'[n] = SumTo(OfEach(n)', Shards) + Cardinality(Between(n)')
  <2>1. /\ global' = global
        /\ SumTo(OfEach(n)', Shards) + Cardinality(Between(n)')
              = SumTo(OfEach(n), Shards) + Cardinality(Between(n))
    BY <1>4, BetweenOneLess
  <2>2. QED
    BY <1>1, <2>1
<1>5. CASE UNCHANGED <<global, tenants, at>>
  BY <1>1, <1>5 DEF OfEach, Between
<1>6. QED
  BY <1>3, <1>4, <1>5
  DEF Next, vars, Scrape, JsonGlobal, JsonRow, PrometheusGlobal, PrometheusTenant

LEMMA InitInFlight == Init => InFlightOnly
<1> SUFFICES ASSUME Init, NEW n \in Counters
             PROVE  global[n] = SumTo(OfEach(n), Shards) + Cardinality(Between(n))
  BY DEF InFlightOnly, OfEach, Between
<1>1. /\ OfEach(n) \in [1..Shards -> Int] /\ \A t \in 1..Shards : OfEach(n)[t] = 0
      /\ Between(n) = {} /\ global[n] = 0
  BY DEF Init, OfEach, Between, Tenants
<1>2. SumTo(OfEach(n), Shards) = 0
  BY <1>1, ShardsAssumption, SumOfZeros
<1>3. QED
  BY <1>1, <1>2, FS_EmptySet

\* Whatever requests run and are dropped, the tenants' counters add up to those of the
\* process but for the requests between the two: no path counts one and not the other.
THEOREM SumsAgree == Spec => []InFlightOnly
<1>1. Spec => [](TypeOK /\ PlaceOK)
  BY InitType, NextType, PTL DEF Spec
<1>2. QED
  BY <1>1, InitInFlight, NextInFlight, PTL DEF Spec

-------------------------------------------------------------------------------
(* Counters count requests.                                                *)

\* What a request has counted for its tenant.
OfRow(r) == at[r].done \ at[r].half

\* The requests that have counted n, and those of them that have for tenant t.
Having(n) == {r \in Requests : n \in at[r].done}

HavingIn(t, n) == {r \in Requests : TenantOf[r] = t /\ n \in OfRow(r)}

CountInv ==
    /\ \A n \in Counters : global[n] = Cardinality(Having(n))
    /\ \A t \in Tenants : \A n \in Counters : tenants[t][n] = Cardinality(HavingIn(t, n))

PathInv == \A r \in Requests : Legal(at[r].done) /\ Legal(OfRow(r))

\* One more request has counted, or the same ones have.
LEMMA CountSteps ==
    ASSUME NEW S, IsFiniteSet(S), NEW x
    PROVE  /\ x \notin S => Cardinality(S \cup {x}) = Cardinality(S) + 1
           /\ IsFiniteSet(S \cup {x})
BY FS_AddElement

LEMMA NextCounts ==
    TypeOK /\ CountInv /\ PathInv /\ [Next]_vars => CountInv' /\ PathInv'
<1> SUFFICES ASSUME TypeOK, CountInv, PathInv, [Next]_vars
             PROVE  CountInv' /\ PathInv'
  OBVIOUS
<1>1. ASSUME NEW r \in Requests, NEW e \in Counters, CountGlobal(r, e)
      PROVE  CountInv' /\ PathInv'
  <2>1. /\ at[r].half = {} /\ tenants' = tenants /\ Follows(e, at[r].done)
        /\ global' = [global EXCEPT ![e] = global[e] + 1]
        /\ at' = [at EXCEPT ![r] = [done |-> at[r].done \cup {e}, half |-> {e}]]
    BY <1>1 DEF CountGlobal
  <2>2. /\ at[r].done \in SUBSET Counters
        /\ at'[r].done = at[r].done \cup {e} /\ at'[r].half = {e}
        /\ \A q \in Requests : q # r => at'[q] = at[q]
    BY <2>1 DEF TypeOK
  <2>3. Legal(at[r].done) /\ Legal(OfRow(r)) /\ OfRow(r) = at[r].done
    BY <2>1 DEF PathInv, OfRow
  <2>4. Legal(at'[r].done) /\ e \notin at[r].done
    BY <2>1, <2>2, <2>3, FollowsLegal
  <2>5. \A q \in Requests : OfRow(q)' = OfRow(q)
    <3> SUFFICES ASSUME NEW q \in Requests PROVE OfRow(q)' = OfRow(q)
      OBVIOUS
    <3>1. CASE q = r
      BY <2>2, <2>3, <2>4, <3>1 DEF OfRow
    <3>2. CASE q # r
      BY <2>2, <3>2 DEF OfRow
    <3>3. QED
      BY <3>1, <3>2
  <2>6. PathInv'
    <3> SUFFICES ASSUME NEW q \in Requests PROVE Legal(at'[q].done) /\ Legal(OfRow(q)')
      BY DEF PathInv
    <3>1. Legal(OfRow(q)')
      BY <2>5 DEF PathInv
    <3>2. Legal(at'[q].done)
      BY <2>2, <2>4 DEF PathInv
    <3>3. QED
      BY <3>1, <3>2
  <2>7. \A t \in Tenants : \A n \in Counters : HavingIn(t, n)' = HavingIn(t, n)
    BY <2>5 DEF HavingIn
  <2>8. ASSUME NEW n \in Counters
        PROVE  global'[n] = Cardinality(Having(n)')
    <3>1. IsFiniteSet(Having(n))
      BY RequestsAssumption, FS_Subset DEF Having
    <3>2. global[n] = Cardinality(Having(n)) /\ global[n] \in Nat
      BY DEF CountInv, TypeOK
    <3>3. CASE n = e
      <4>1. Having(n)' = Having(n) \cup {r} /\ r \notin Having(n)
        BY <2>2, <2>4, <3>3 DEF Having
      <4>2. QED
        BY <2>1, <3>1, <3>2, <3>3, <4>1, CountSteps DEF TypeOK
    <3>4. CASE n # e
      <4>1. Having(n)' = Having(n)
        BY <2>2, <3>4 DEF Having
      <4>2. QED
        BY <2>1, <3>2, <3>4, <4>1 DEF TypeOK
    <3>5. QED
      BY <3>3, <3>4
  <2>9. CountInv'
    BY <2>1, <2>7, <2>8 DEF CountInv
  <2>10. QED
    BY <2>6, <2>9
<1>2. ASSUME NEW r \in Requests, CountTenant(r)
      PROVE  CountInv' /\ PathInv'
  <2>1. /\ global' = global
        /\ tenants' = [tenants EXCEPT ![TenantOf[r]] =
                          [m \in Counters |->
                              IF m \in at[r].half THEN tenants[TenantOf[r]][m] + 1
                              ELSE tenants[TenantOf[r]][m]]]
        /\ at' = [at EXCEPT ![r] = [at[r] EXCEPT !.half = {}]]
    BY <1>2 DEF CountTenant
  <2>2. /\ at'[r].done = at[r].done /\ at'[r].half = {} /\ at[r].half \subseteq at[r].done
        /\ \A q \in Requests : q # r => at'[q] = at[q]
    BY <2>1 DEF TypeOK
  <2>3. /\ OfRow(r)' = at[r].done /\ OfRow(r)' = OfRow(r) \cup at[r].half
        /\ \A q \in Requests : q # r => OfRow(q)' = OfRow(q)
    BY <2>2 DEF OfRow
  <2>4. PathInv'
    <3> SUFFICES ASSUME NEW q \in Requests PROVE Legal(at'[q].done) /\ Legal(OfRow(q)')
      BY DEF PathInv
    <3>1. Legal(at'[q].done)
      BY <2>2 DEF PathInv
    <3>2. Legal(OfRow(q)')
      BY <2>3 DEF PathInv
    <3>3. QED
      BY <3>1, <3>2
  <2>5. \A n \in Counters : Having(n)' = Having(n)
    BY <2>2 DEF Having
  <2>6. ASSUME NEW t \in Tenants, NEW n \in Counters
        PROVE  tenants'[t][n] = Cardinality(HavingIn(t, n)')
    <3>1. IsFiniteSet(HavingIn(t, n))
      BY RequestsAssumption, FS_Subset DEF HavingIn
    <3>2. tenants[t][n] = Cardinality(HavingIn(t, n)) /\ tenants[t][n] \in Nat
      BY DEF CountInv, TypeOK
    <3>3. CASE t = TenantOf[r] /\ n \in at[r].half
      <4>1. HavingIn(t, n)' = HavingIn(t, n) \cup {r} /\ r \notin HavingIn(t, n)
        BY <2>3, <3>3 DEF HavingIn, OfRow
      <4>2. tenants'[t][n] = tenants[t][n] + 1
        BY <2>1, <3>3 DEF TypeOK
      <4>3. QED
        BY <3>1, <3>2, <4>1, <4>2, CountSteps
    <3>4. CASE ~(t = TenantOf[r] /\ n \in at[r].half)
      <4>1. HavingIn(t, n)' = HavingIn(t, n)
        BY <2>3, <3>4 DEF HavingIn
      <4>2. tenants'[t][n] = tenants[t][n]
        BY <2>1, <3>4 DEF TypeOK
      <4>3. QED
        BY <3>2, <4>1, <4>2
    <3>5. QED
      BY <3>3, <3>4
  <2>7. CountInv'
    BY <2>1, <2>5, <2>6 DEF CountInv
  <2>8. QED
    BY <2>4, <2>7
<1>3. CASE UNCHANGED <<global, tenants, at>>
  <2>1. PathInv'
    BY <1>3 DEF PathInv, OfRow
  <2>2. /\ \A n \in Counters : Having(n)' = Having(n)
        /\ \A t \in Tenants : \A n \in Counters : HavingIn(t, n)' = HavingIn(t, n)
    BY <1>3 DEF Having, HavingIn, OfRow
  <2>3. QED
    BY <1>3, <2>1, <2>2 DEF CountInv
<1>4. QED
  BY <1>1, <1>2, <1>3
  DEF Next, vars, Scrape, JsonGlobal, JsonRow, PrometheusGlobal, PrometheusTenant

LEMMA InitCounts == Init => CountInv /\ PathInv
<1> SUFFICES ASSUME Init PROVE CountInv /\ PathInv
  OBVIOUS
<1>1. \A r \in Requests : at[r].done = {} /\ OfRow(r) = {}
  BY DEF Init, OfRow
<1>2. Legal({})
  BY DEF Legal
<1>3. PathInv
  BY <1>1, <1>2 DEF PathInv
<1>4. /\ \A n \in Counters : Having(n) = {}
      /\ \A t \in Tenants : \A n \in Counters : HavingIn(t, n) = {}
  BY <1>1 DEF Having, HavingIn
<1>5. /\ \A n \in Counters : global[n] = 0
      /\ \A t \in Tenants : \A n \in Counters : tenants[t][n] = 0
  BY DEF Init
<1>6. CountInv
  BY <1>4, <1>5, FS_EmptySet DEF CountInv
<1>7. QED
  BY <1>3, <1>6

-------------------------------------------------------------------------------
(* What holds of the counts of requests that are all on legal paths.       *)

\* The inequalities between the counters v.
Cut(v) ==
    /\ v.exact_hits + v.semantic_hits + v.misses <= v.routed_fallback + v.routed_passthrough
    /\ v.upstream_errors + v.cache_inserts_exact <= v.misses
    /\ v.cache_inserts_semantic <= v.misses
    /\ v.reactive_failovers <= v.misses
    /\ v.reactive_failovers <= v.routed_passthrough

\* Two sets of requests that have none in common, within another.
LEMMA Within ==
    ASSUME NEW S, NEW T, NEW U, IsFiniteSet(S), IsFiniteSet(T), IsFiniteSet(U),
           S \cap T = {}, S \cup T \subseteq U
    PROVE  /\ Cardinality(S) + Cardinality(T) = Cardinality(S \cup T)
           /\ IsFiniteSet(S \cup T)
           /\ Cardinality(S) + Cardinality(T) <= Cardinality(U)
<1>1. Cardinality(S \cup T) = Cardinality(S) + Cardinality(T) - Cardinality(S \cap T)
  BY FS_Union
<1>2. Cardinality(S \cap T) = 0
  BY FS_EmptySet
<1>3. /\ Cardinality(S) \in Nat /\ Cardinality(T) \in Nat /\ IsFiniteSet(S \cup T)
      /\ Cardinality(S \cup T) <= Cardinality(U)
  BY FS_Union, FS_CardinalityType, FS_Subset
<1>4. QED
  BY <1>1, <1>2, <1>3

LEMMA LegalCut ==
    ASSUME NEW R, IsFiniteSet(R), NEW d, \A r \in R : Legal(d[r]),
           NEW v, \A n \in Counters : v[n] = Cardinality({r \in R : n \in d[r]})
    PROVE  Cut(v)
<1> DEFINE H(n) == {r \in R : n \in d[r]}
<1>1. \A n : IsFiniteSet(H(n)) /\ Cardinality(H(n)) \in Nat
  BY FS_Subset, FS_CardinalityType
<1>2. /\ v.exact_hits = Cardinality(H("exact_hits"))
      /\ v.semantic_hits = Cardinality(H("semantic_hits"))
      /\ v.misses = Cardinality(H("misses"))
      /\ v.routed_fallback = Cardinality(H("routed_fallback"))
      /\ v.routed_passthrough = Cardinality(H("routed_passthrough"))
      /\ v.upstream_errors = Cardinality(H("upstream_errors"))
      /\ v.cache_inserts_exact = Cardinality(H("cache_inserts_exact"))
      /\ v.cache_inserts_semantic = Cardinality(H("cache_inserts_semantic"))
      /\ v.reactive_failovers = Cardinality(H("reactive_failovers"))
  BY CountersAre
<1>3. \A r \in R :
         /\ ~("routed_fallback" \in d[r] /\ "routed_passthrough" \in d[r])
         /\ ~("exact_hits" \in d[r] /\ "semantic_hits" \in d[r])
         /\ ~("exact_hits" \in d[r] /\ "misses" \in d[r])
         /\ ~("semantic_hits" \in d[r] /\ "misses" \in d[r])
         /\ "exact_hits" \in d[r] \/ "semantic_hits" \in d[r] \/ "misses" \in d[r]
               => "routed_fallback" \in d[r] \/ "routed_passthrough" \in d[r]
         /\ "upstream_errors" \in d[r] => "misses" \in d[r]
         /\ "cache_inserts_exact" \in d[r] => "misses" \in d[r]
         /\ "cache_inserts_semantic" \in d[r] => "misses" \in d[r]
         /\ "reactive_failovers" \in d[r] => "misses" \in d[r] /\ "routed_passthrough" \in d[r]
         /\ ~("upstream_errors" \in d[r] /\ "cache_inserts_exact" \in d[r])
  <2> SUFFICES ASSUME NEW r \in R, NEW s, s = d[r]
               PROVE  /\ ~("routed_fallback" \in s /\ "routed_passthrough" \in s)
                      /\ ~("exact_hits" \in s /\ "semantic_hits" \in s)
                      /\ ~("exact_hits" \in s /\ "misses" \in s)
                      /\ ~("semantic_hits" \in s /\ "misses" \in s)
                      /\ "exact_hits" \in s \/ "semantic_hits" \in s \/ "misses" \in s
                            => "routed_fallback" \in s \/ "routed_passthrough" \in s
                      /\ "upstream_errors" \in s => "misses" \in s
                      /\ "cache_inserts_exact" \in s => "misses" \in s
                      /\ "cache_inserts_semantic" \in s => "misses" \in s
                      /\ "reactive_failovers" \in s
                            => "misses" \in s /\ "routed_passthrough" \in s
                      /\ ~("upstream_errors" \in s /\ "cache_inserts_exact" \in s)
    OBVIOUS
  <2>1. Legal(s)
    OBVIOUS
  <2>2. QED
    BY <2>1 DEF Legal, Lookups, Routings, Answers
<1> HIDE DEF H
<1>4. v.exact_hits + v.semantic_hits + v.misses <= v.routed_fallback + v.routed_passthrough
  <2>1. /\ H("routed_fallback") \cap H("routed_passthrough") = {}
        /\ H("exact_hits") \cap H("semantic_hits") = {}
        /\ (H("exact_hits") \cup H("semantic_hits")) \cap H("misses") = {}
        /\ (H("exact_hits") \cup H("semantic_hits")) \cup H("misses")
              \subseteq H("routed_fallback") \cup H("routed_passthrough")
    BY <1>3 DEF H
  <2>2. /\ Cardinality(H("routed_fallback")) + Cardinality(H("routed_passthrough"))
              = Cardinality(H("routed_fallback") \cup H("routed_passthrough"))
        /\ IsFiniteSet(H("routed_fallback") \cup H("routed_passthrough"))
    BY <1>1, <2>1, Within, FS_Union
  <2>3. /\ Cardinality(H("exact_hits")) + Cardinality(H("semantic_hits"))
              = Cardinality(H("exact_hits") \cup H("semantic_hits"))
        /\ IsFiniteSet(H("exact_hits") \cup H("semantic_hits"))
    BY <1>1, <2>1, Within, FS_Union
  <2>4. Cardinality(H("exact_hits") \cup H("semantic_hits")) + Cardinality(H("misses"))
           <= Cardinality(H("routed_fallback") \cup H("routed_passthrough"))
    BY <1>1, <2>1, <2>2, <2>3, Within
  <2>5. QED
    BY <1>2, <2>2, <2>3, <2>4
<1>5. v.upstream_errors + v.cache_inserts_exact <= v.misses
  <2>1. /\ H("upstream_errors") \cap H("cache_inserts_exact") = {}
        /\ H("upstream_errors") \cup H("cache_inserts_exact") \subseteq H("misses")
    BY <1>3 DEF H
  <2>2. Cardinality(H("upstream_errors")) + Cardinality(H("cache_inserts_exact"))
           <= Cardinality(H("misses"))
    BY <1>1, <2>1, Within
  <2>3. QED
    BY <1>2, <2>2
<1>6. /\ v.cache_inserts_semantic <= v.misses
      /\ v.reactive_failovers <= v.misses
      /\ v.reactive_failovers <= v.routed_passthrough
  <2>1. /\ H("cache_inserts_semantic") \subseteq H("misses")
        /\ H("reactive_failovers") \subseteq H("misses")
        /\ H("reactive_failovers") \subseteq H("routed_passthrough")
    BY <1>3 DEF H
  <2>2. QED
    BY <1>1, <1>2, <2>1, FS_Subset
<1>7. QED
  BY <1>4, <1>5, <1>6 DEF Cut

\* The counters of the process and every row are such counts.
LEMMA CountsAreCuts ==
    ASSUME TypeOK, CountInv, PathInv
    PROVE  Cut(global) /\ \A t \in Tenants : Cut(tenants[t])
<1>1. Cut(global)
  <2> DEFINE d == [r \in Requests |-> at[r].done]
  <2>1. \A r \in Requests : d[r] = at[r].done /\ Legal(d[r])
    BY DEF PathInv
  <2>2. \A n \in Counters : global[n] = Cardinality({r \in Requests : n \in d[r]})
    <3> SUFFICES ASSUME NEW n \in Counters
                 PROVE  global[n] = Cardinality({r \in Requests : n \in d[r]})
      OBVIOUS
    <3>1. {r \in Requests : n \in d[r]} = Having(n)
      BY <2>1 DEF Having
    <3>2. QED
      BY <3>1 DEF CountInv
  <2> HIDE DEF d
  <2>3. QED
    BY <2>1, <2>2, RequestsAssumption, LegalCut
<1>2. ASSUME NEW t \in Tenants
      PROVE  Cut(tenants[t])
  <2> DEFINE R == {r \in Requests : TenantOf[r] = t}
             d == [r \in Requests |-> OfRow(r)]
  <2>1. IsFiniteSet(R) /\ \A r \in R : Legal(d[r])
    BY RequestsAssumption, FS_Subset DEF PathInv
  <2>2. \A n \in Counters : tenants[t][n] = Cardinality({r \in R : n \in d[r]})
    <3> SUFFICES ASSUME NEW n \in Counters
                 PROVE  tenants[t][n] = Cardinality({r \in R : n \in d[r]})
      OBVIOUS
    <3>1. {r \in R : n \in d[r]} = HavingIn(t, n)
      BY DEF HavingIn
    <3>2. QED
      BY <3>1 DEF CountInv
  <2> HIDE DEF R, d
  <2>3. QED
    BY <2>1, <2>2, LegalCut
<1>3. QED
  BY <1>1, <1>2

\* Type, place and counts together.
CountedInv == TypeOK /\ PlaceOK /\ CountInv /\ PathInv

LEMMA Counted == Spec => []CountedInv
<1>1. Init => CountedInv
  BY InitType, InitCounts DEF CountedInv
<1>2. CountedInv /\ [Next]_vars => CountedInv'
  BY NextType, NextCounts DEF CountedInv
<1>3. QED
  BY <1>1, <1>2, PTL DEF Spec

\* The row of a tenant in the JSON answer is one moment of it: lookups in it belong to
\* requests in it, errors, failovers and inserts to misses.
THEOREM RowsAreCuts == Spec => RowIsCut
<1>1. CountedInv /\ [Next]_vars =>
         [JsonRow =>
            /\ JsonRead.exact_hits + JsonRead.semantic_hits + JsonRead.misses
                  <= JsonRead.routed_fallback + JsonRead.routed_passthrough
            /\ JsonRead.upstream_errors + JsonRead.cache_inserts_exact <= JsonRead.misses
            /\ JsonRead.cache_inserts_semantic <= JsonRead.misses
            /\ JsonRead.reactive_failovers <= JsonRead.misses
            /\ JsonRead.reactive_failovers <= JsonRead.routed_passthrough]_vars
  <2> SUFFICES ASSUME CountedInv, JsonRow PROVE Cut(JsonRead)
    BY DEF Cut
  <2>1. scrape.tenant + 1 \in Tenants
    BY ShardsAssumption DEF CountedInv, TypeOK, PlaceOK, JsonRow, Tenants
  <2>2. QED
    BY <2>1, CountsAreCuts DEF CountedInv, JsonRead
<1>2. QED
  BY <1>1, Counted, PTL DEF RowIsCut, Spec

-------------------------------------------------------------------------------
(* What a scrape has read, against what there is.                          *)

\* The first m - 1 counters have been read, the values v are no older than what was
\* read, which is noted in tally.  Lookups are read before routings, and so the
\* lookups noted were all of requests that v counts as routed, and the routings noted
\* once they are all read are no fewer.
Ahead(tally, v, m) ==
    /\ m = 1 => tally.lookups = 0
    /\ m = 2 => tally.lookups <= v.exact_hits
    /\ m = 3 => tally.lookups <= v.exact_hits + v.semantic_hits
    /\ m \in {4, 5} => tally.lookups <= v.exact_hits + v.semantic_hits + v.misses
    /\ m = 6 => tally.lookups <= tally.routed + v.routed_passthrough
    /\ m > 6 => tally.lookups <= tally.routed

ScrapeInv ==
    /\ scrape.format = "json" => Ahead(scrape.global, global, scrape.metric)
    /\ scrape.format = "prometheus" =>
          /\ Ahead(scrape.global, global,
                   IF scrape.tenant = 0 THEN scrape.metric ELSE scrape.metric + 1)
          /\ \A t \in Tenants :
                Ahead(scrape.tenants[t], tenants[t],
                      IF t < scrape.tenant THEN scrape.metric + 1 ELSE scrape.metric)

\* Counters are added to, and a scrape stays as it is meanwhile.
LEMMA AheadRises ==
    ASSUME NEW tally \in Tallies, NEW m \in Int,
           NEW v \in [Counters -> Nat], NEW w \in [Counters -> Nat],
           \A n \in Counters : v[n] <= w[n], Ahead(tally, v, m)
    PROVE  Ahead(tally, w, m)
<1>1. tally.routed \in Nat /\ tally.lookups \in Nat
  BY DEF Tallies
<1>2. /\ v.exact_hits \in Nat /\ v.semantic_hits \in Nat /\ v.misses \in Nat
      /\ w.exact_hits \in Nat /\ w.semantic_hits \in Nat /\ w.misses \in Nat
      /\ v.routed_passthrough \in Nat /\ w.routed_passthrough \in Nat
      /\ v.exact_hits <= w.exact_hits /\ v.semantic_hits <= w.semantic_hits
      /\ v.misses <= w.misses /\ v.routed_passthrough <= w.routed_passthrough
  BY CountersAre
<1>3. QED
  BY <1>1, <1>2 DEF Ahead

\* The next counter is read.
LEMMA AheadReads ==
    ASSUME NEW tally \in Tallies, NEW m \in 1..9, NEW v \in [Counters -> Nat], Cut(v),
           Ahead(tally, v, m)
    PROVE  Ahead(Noted(tally, Order[m], v[Order[m]]), v, m + 1)
<1> DEFINE next == Noted(tally, Order[m], v[Order[m]])
<1>1. tally.routed \in Nat /\ tally.lookups \in Nat
  BY DEF Tallies
<1>2. /\ v.exact_hits \in Nat /\ v.semantic_hits \in Nat /\ v.misses \in Nat
      /\ v.routed_fallback \in Nat /\ v.routed_passthrough \in Nat
  BY CountersAre
<1>3. v.exact_hits + v.semantic_hits + v.misses <= v.routed_fallback + v.routed_passthrough
  BY DEF Cut
<1>4. ASSUME m \in {1, 2, 3}
      PROVE  next.lookups = tally.lookups + v[Order[m]]
  <2>1. Order[m] \in Lookups /\ Order[m] \notin Routings
    BY <1>4 DEF Order, Lookups, Routings
  <2>2. next = [tally EXCEPT !.lookups = tally.lookups + v[Order[m]]]
    BY <2>1 DEF Noted
  <2>3. QED
    BY <2>2 DEF Tallies
<1>5. ASSUME m \in {5, 6}
      PROVE  /\ next.lookups = tally.lookups
             /\ next.routed = tally.routed + v[Order[m]]
  <2>1. Order[m] \in Routings
    BY <1>5 DEF Order, Routings
  <2>2. next = [tally EXCEPT !.routed = tally.routed + v[Order[m]]]
    <3>1. Order[m] \notin Lookups
      BY <1>5 DEF Order, Lookups
    <3>2. QED
      BY <2>1, <3>1 DEF Noted
  <2>3. QED
    BY <2>2 DEF Tallies
<1>6. ASSUME m \in {4, 7, 8, 9}
      PROVE  next = tally
  <2>1. Order[m] \notin Lookups /\ Order[m] \notin Routings
    BY <1>6 DEF Order, Lookups, Routings
  <2>2. QED
    BY <2>1 DEF Noted
<1> HIDE DEF next
<1>7. CASE m = 1
  <2>1. next.lookups = tally.lookups + v.exact_hits
    BY <1>4, <1>7 DEF Order
  <2>2. QED
    BY <1>1, <1>2, <1>7, <2>1 DEF Ahead, next
<1>8. CASE m = 2
  <2>1. next.lookups = tally.lookups + v.semantic_hits
    BY <1>4, <1>8 DEF Order
  <2>2. QED
    BY <1>1, <1>2, <1>8, <2>1 DEF Ahead, next
<1>9. CASE m = 3
  <2>1. next.lookups = tally.lookups + v.misses
    BY <1>4, <1>9 DEF Order
  <2>2. QED
    BY <1>1, <1>2, <1>9, <2>1 DEF Ahead, next
<1>10. CASE m = 5
  <2>1. next.lookups = tally.lookups /\ next.routed = tally.routed + v.routed_fallback
    BY <1>5, <1>10 DEF Order
  <2>2. tally.lookups <= v.exact_hits + v.semantic_hits + v.misses
    BY <1>10 DEF Ahead
  <2>3. next.lookups <= next.routed + v.routed_passthrough
    BY <1>1, <1>2, <1>3, <2>1, <2>2
  <2>4. QED
    BY <1>10, <2>3 DEF Ahead, next
<1>11. CASE m = 6
  <2>1. next.lookups = tally.lookups /\ next.routed = tally.routed + v.routed_passthrough
    BY <1>5, <1>11 DEF Order
  <2>2. QED
    BY <1>1, <1>2, <1>11, <2>1 DEF Ahead, next
<1>12. CASE m \in {4, 7, 8, 9}
  BY <1>6, <1>12 DEF Ahead, next
<1>13. QED
  BY <1>7, <1>8, <1>9, <1>10, <1>11, <1>12 DEF next

\* No counter ever goes down.
LEMMA CountersRise ==
    ASSUME TypeOK, TypeOK', NEW r \in Requests,
           CountTenant(r) \/ \E e \in Counters : CountGlobal(r, e)
    PROVE  /\ \A n \in Counters : global[n] <= global'[n]
           /\ \A t \in Tenants : \A n \in Counters : tenants[t][n] <= tenants'[t][n]
           /\ scrape' = scrape
<1>0. /\ \A n \in Counters : global[n] \in Nat
      /\ \A t \in Tenants : \A n \in Counters : tenants[t][n] \in Nat
  BY DEF TypeOK
<1>1. ASSUME NEW e \in Counters, CountGlobal(r, e)
      PROVE  /\ \A n \in Counters : global[n] <= global'[n]
             /\ tenants' = tenants /\ scrape' = scrape
  <2>1. /\ global' = [global EXCEPT ![e] = global[e] + 1]
        /\ tenants' = tenants /\ scrape' = scrape
    BY <1>1 DEF CountGlobal
  <2>2. \A n \in Counters : global'[n] = IF n = e THEN global[n] + 1 ELSE global[n]
    BY <2>1 DEF TypeOK
  <2>3. QED
    BY <1>0, <2>1, <2>2
<1>2. ASSUME CountTenant(r)
      PROVE  /\ \A t \in Tenants : \A n \in Counters : tenants[t][n] <= tenants'[t][n]
             /\ global' = global /\ scrape' = scrape
  <2>1. /\ tenants' = [tenants EXCEPT ![TenantOf[r]] =
                          [m \in Counters |->
                              IF m \in at[r].half THEN tenants[TenantOf[r]][m] + 1
                              ELSE tenants[TenantOf[r]][m]]]
        /\ global' = global /\ scrape' = scrape
    BY <1>2 DEF CountTenant
  <2>2. \A t \in Tenants : \A n \in Counters :
           tenants'[t][n] = IF t = TenantOf[r] /\ n \in at[r].half
                            THEN tenants[t][n] + 1 ELSE tenants[t][n]
    BY <2>1 DEF TypeOK
  <2>3. QED
    BY <1>0, <2>1, <2>2
<1>3. QED
  BY <1>0, <1>1, <1>2

LEMMA BegunAhead ==
    ASSUME NEW v, NEW t \in Tenants, NEW format
    PROVE  /\ Ahead(Begun(format).global, v, 1) /\ Ahead(Begun(format).tenants[t], v, 1)
           /\ Begun(format).metric = 1 /\ Begun(format).tenant = 0
           /\ Begun(format).format = format
BY DEF Begun, Nothing, Ahead

LEMMA NextScrape == CountedInv /\ CountedInv' /\ ScrapeInv /\ [Next]_vars => ScrapeInv'
<1> SUFFICES ASSUME CountedInv, CountedInv', ScrapeInv, [Next]_vars
             PROVE  ScrapeInv'
  OBVIOUS
<1> USE DEF CountedInv
<1>10. /\ scrape.metric \in Int /\ scrape.tenant \in Int /\ scrape.metric >= 1
       /\ Len(Order) = 9 /\ \A t \in Tenants : t \in Int
  <2>1. scrape.metric \in 1..Len(Order) + 1 /\ scrape.tenant \in 0..Shards
    BY DEF TypeOK
  <2>2. \A t \in Tenants : t \in Int
    BY ShardsAssumption DEF Tenants
  <2>3. QED
    BY <2>1, <2>2, CountersAre, ShardsAssumption
<1>0. /\ scrape.metric \in Int /\ scrape.tenant \in Int /\ scrape.metric >= 1
      /\ scrape.global \in Tallies /\ Len(Order) = 9
      /\ global \in [Counters -> Nat] /\ global' \in [Counters -> Nat]
      /\ \A t \in Tenants : /\ scrape.tenants[t] \in Tallies
                            /\ tenants[t] \in [Counters -> Nat]
                            /\ tenants'[t] \in [Counters -> Nat] /\ t \in Int
  BY <1>10 DEF TypeOK
<1>1. ASSUME NEW r \in Requests,
             CountTenant(r) \/ \E e \in Counters : CountGlobal(r, e)
      PROVE  ScrapeInv'
  <2>1. /\ \A n \in Counters : global[n] <= global'[n]
        /\ \A t \in Tenants : \A n \in Counters : tenants[t][n] <= tenants'[t][n]
        /\ scrape' = scrape
    BY <1>1, CountersRise
  <2>2. ASSUME scrape.format = "json"
        PROVE  Ahead(scrape.global, global', scrape.metric)
    BY <1>0, <2>1, <2>2, AheadRises DEF ScrapeInv
  <2>3. ASSUME scrape.format = "prometheus"
        PROVE  Ahead(scrape.global, global',
                     IF scrape.tenant = 0 THEN scrape.metric ELSE scrape.metric + 1)
    <3> DEFINE m == IF scrape.tenant = 0 THEN scrape.metric ELSE scrape.metric + 1
    <3>1. m \in Int /\ Ahead(scrape.global, global, m)
      BY <1>0, <2>3 DEF ScrapeInv
    <3> HIDE DEF m
    <3>2. Ahead(scrape.global, global', m)
      BY <1>0, <2>1, <3>1, AheadRises
    <3>3. QED
      BY <3>2 DEF m
  <2>4. ASSUME scrape.format = "prometheus", NEW t \in Tenants
        PROVE  Ahead(scrape.tenants[t], tenants'[t],
                     IF t < scrape.tenant THEN scrape.metric + 1 ELSE scrape.metric)
    <3> DEFINE m == IF t < scrape.tenant THEN scrape.metric + 1 ELSE scrape.metric
    <3>1. m \in Int /\ Ahead(scrape.tenants[t], tenants[t], m)
      BY <1>0, <2>4 DEF ScrapeInv
    <3> HIDE DEF m
    <3>2. Ahead(scrape.tenants[t], tenants'[t], m)
      BY <1>0, <2>1, <3>1, AheadRises
    <3>3. QED
      BY <3>2 DEF m
  <2>5. QED
    BY <2>1, <2>2, <2>3, <2>4 DEF ScrapeInv
<1>2. ASSUME NEW format \in {"none", "json", "prometheus"}, scrape' = Begun(format)
      PROVE  ScrapeInv'
  <2>1. /\ scrape'.metric = 1 /\ scrape'.tenant = 0
        /\ Ahead(scrape'.global, global', 1)
        /\ \A t \in Tenants : Ahead(scrape'.tenants[t], tenants'[t], 1)
    <3>1. 1 \in Tenants
      BY ShardsAssumption DEF Tenants
    <3>2. QED
      BY <1>2, <3>1, BegunAhead
  <2>2. \A t \in Tenants : ~(t < scrape'.tenant)
    BY <2>1 DEF Tenants
  <2>3. QED
    BY <2>1, <2>2 DEF ScrapeInv
<1>3. ASSUME NEW format \in {"json", "prometheus"}, Scrape(format)
      PROVE  ScrapeInv'
  BY <1>2, <1>3 DEF Scrape
<1>4. CASE JsonGlobal
  <2>1. /\ scrape.format = "json" /\ scrape.metric \in 1..9 /\ global' = global
        /\ scrape' = [scrape EXCEPT !.global = Noted(scrape.global, Metric, global[Metric]),
                                    !.metric = scrape.metric + 1]
    BY <1>0, <1>4 DEF JsonGlobal
  <2>2. Ahead(Noted(scrape.global, Metric, global[Metric]), global, scrape.metric + 1)
    BY <1>0, <2>1, AheadReads, CountsAreCuts DEF ScrapeInv, Metric
  <2>3. /\ scrape'.format = "json" /\ scrape'.metric = scrape.metric + 1
        /\ scrape'.global = Noted(scrape.global, Metric, global[Metric])
    BY <2>1 DEF TypeOK
  <2>4. QED
    BY <2>1, <2>2, <2>3 DEF ScrapeInv
<1>5. CASE JsonRow
  <2>1. /\ scrape.format = "json" /\ global' = global
        /\ scrape' = NoScrape \/ scrape' = [scrape EXCEPT !.tenant = scrape.tenant + 1]
    BY <1>5 DEF JsonRow
  <2>2. CASE scrape' = NoScrape
    BY <1>2, <2>2 DEF NoScrape
  <2>3. CASE scrape' = [scrape EXCEPT !.tenant = scrape.tenant + 1]
    <3>1. /\ scrape'.format = "json" /\ scrape'.metric = scrape.metric
          /\ scrape'.global = scrape.global
      BY <2>1, <2>3 DEF TypeOK
    <3>2. QED
      BY <2>1, <3>1 DEF ScrapeInv
  <2>4. QED
    BY <2>1, <2>2, <2>3
<1>6. CASE PrometheusGlobal
  <2>0. /\ scrape.format = "prometheus" /\ scrape.tenant = 0
        /\ global' = global /\ tenants' = tenants
        /\ scrape' = [scrape EXCEPT !.global = Noted(scrape.global, Metric, global[Metric]),
                                    !.tenant = 1]
    BY <1>6 DEF PrometheusGlobal
  <2>1. /\ scrape.format = "prometheus" /\ scrape.metric \in 1..9 /\ scrape.tenant = 0
        /\ global' = global /\ tenants' = tenants
        /\ scrape' = [scrape EXCEPT !.global = Noted(scrape.global, Metric, global[Metric]),
                                    !.tenant = 1]
    BY <1>10, <2>0 DEF PlaceOK
  <2>2. Ahead(Noted(scrape.global, Metric, global[Metric]), global, scrape.metric + 1)
    BY <1>0, <2>1, AheadReads, CountsAreCuts DEF ScrapeInv, Metric
  <2>3. /\ scrape'.format = "prometheus" /\ scrape'.metric = scrape.metric
        /\ scrape'.tenant = 1 /\ scrape'.tenants = scrape.tenants
        /\ scrape'.global = Noted(scrape.global, Metric, global[Metric])
    BY <2>1 DEF TypeOK
  <2>4. \A t \in Tenants : ~(t < scrape'.tenant) /\ ~(t < scrape.tenant)
    BY <2>1, <2>3 DEF Tenants
  <2>5. \A t \in Tenants : Ahead(scrape.tenants[t], tenants[t], scrape.metric)
    BY <2>1, <2>4 DEF ScrapeInv
  <2>6. QED
    BY <2>1, <2>2, <2>3, <2>4, <2>5 DEF ScrapeInv
<1>7. CASE PrometheusTenant
  <2> DEFINE t == scrape.tenant
             on == [scrape EXCEPT !.tenants[t] = PrometheusRead]
  <2>1. /\ scrape.format = "prometheus" /\ t > 0 /\ global' = global /\ tenants' = tenants
        /\ scrape' = IF t < Shards THEN [on EXCEPT !.tenant = t + 1]
                     ELSE IF scrape.metric < Len(Order)
                     THEN [on EXCEPT !.tenant = 0, !.metric = @ + 1]
                     ELSE NoScrape
    BY <1>7 DEF PrometheusTenant
  <2>2. t \in Tenants /\ scrape.metric \in 1..9
    BY <2>1, CountersAre, ShardsAssumption DEF TypeOK, PlaceOK, Tenants
  <2>3. Ahead(PrometheusRead, tenants[t], scrape.metric + 1)
    <3>1. Ahead(scrape.tenants[t], tenants[t], scrape.metric)
      <4>1. ~(t < scrape.tenant)
        BY <1>0
      <4>2. QED
        BY <2>1, <2>2, <4>1 DEF ScrapeInv
    <3>2. Cut(tenants[t])
      BY <2>2, CountsAreCuts
    <3>3. QED
      BY <1>0, <2>2, <3>1, <3>2, AheadReads DEF PrometheusRead, Metric
  <2>4. Ahead(scrape.global, global, scrape.metric + 1)
    BY <1>0, <2>1 DEF ScrapeInv
  <2>5. /\ on.format = "prometheus" /\ on.metric = scrape.metric /\ on.global = scrape.global
        /\ DOMAIN on = DOMAIN scrape
        /\ on.tenants = [scrape.tenants EXCEPT ![t] = PrometheusRead]
    BY <2>1 DEF TypeOK
  <2>6. \A u \in Tenants : Ahead(on.tenants[u], tenants[u],
                                 IF u <= t THEN scrape.metric + 1 ELSE scrape.metric)
    <3> SUFFICES ASSUME NEW u \in Tenants
                 PROVE  Ahead(on.tenants[u], tenants[u],
                              IF u <= t THEN scrape.metric + 1 ELSE scrape.metric)
      OBVIOUS
    <3>1. on.tenants[u] = IF u = t THEN PrometheusRead ELSE scrape.tenants[u]
      BY <2>2, <2>5 DEF TypeOK
    <3>2. CASE u = t
      BY <1>0, <2>3, <3>1, <3>2
    <3>3. CASE u # t
      <4>1. Ahead(scrape.tenants[u], tenants[u],
                  IF u < t THEN scrape.metric + 1 ELSE scrape.metric)
        BY <2>1 DEF ScrapeInv
      <4>2. u < t <=> u <= t
        BY <1>10, <3>3
      <4>3. QED
        BY <3>1, <3>3, <4>1, <4>2
    <3>4. QED
      BY <3>2, <3>3
  <2>7. "tenant" \in DOMAIN on /\ "metric" \in DOMAIN on
    BY <2>5 DEF TypeOK
  <2> HIDE DEF on
  <2>8. CASE t < Shards
    <3>1. scrape' = [on EXCEPT !.tenant = t + 1]
      BY <2>1, <2>8
    <3>2. /\ scrape'.format = "prometheus" /\ scrape'.metric = scrape.metric
          /\ scrape'.tenant = t + 1 /\ scrape'.tenants = on.tenants
          /\ scrape'.global = scrape.global
      BY <2>5, <2>7, <3>1
    <3>3. t + 1 # 0 /\ \A u \in Tenants : u < t + 1 <=> u <= t
      BY <1>0, <2>1
    <3>4. QED
      BY <2>1, <2>4, <2>6, <3>2, <3>3 DEF ScrapeInv
  <2>9. CASE ~(t < Shards) /\ scrape.metric < Len(Order)
    <3>1. scrape' = [on EXCEPT !.tenant = 0, !.metric = on.metric + 1]
      BY <2>1, <2>9
    <3>2. /\ scrape'.format = "prometheus" /\ scrape'.metric = scrape.metric + 1
          /\ scrape'.tenant = 0 /\ scrape'.tenants = on.tenants
          /\ scrape'.global = scrape.global
      BY <2>5, <2>7, <3>1
    <3>3. \A u \in Tenants : u <= t /\ ~(u < 0)
      BY <2>2, <2>9, ShardsAssumption DEF Tenants
    <3>4. QED
      BY <2>1, <2>4, <2>6, <3>2, <3>3 DEF ScrapeInv
  <2>10. CASE ~(t < Shards) /\ ~(scrape.metric < Len(Order))
    <3>1. scrape' = NoScrape
      BY <2>1, <2>10
    <3>2. QED
      BY <1>2, <3>1 DEF NoScrape
  <2>11. QED
    BY <2>8, <2>9, <2>10
<1>8. CASE UNCHANGED vars
  BY <1>8 DEF vars, ScrapeInv
<1>9. QED
  BY <1>1, <1>3, <1>4, <1>5, <1>6, <1>7, <1>8 DEF Next

LEMMA InitScrape == Init => ScrapeInv
BY DEF Init, NoScrape, Begun, ScrapeInv

LEMMA Scraped == Spec => [](CountedInv /\ ScrapeInv)
<1>1. CountedInv /\ CountedInv' /\ ScrapeInv /\ [Next]_vars => ScrapeInv'
  BY NextScrape
<1>2. QED
  BY <1>1, Counted, InitScrape, PTL DEF Spec

\* A scrape of either format never shows more lookups than requests, although it reads
\* counter by counter while requests run: for the process and for each tenant.
THEOREM ScrapesInOrder == Spec => ScrapeOrder
<1>1. CountedInv /\ ScrapeInv /\ [Next]_vars =>
         [/\ scrape.format # "none" /\ scrape' = NoScrape =>
                scrape.global.lookups <= scrape.global.routed
          /\ PrometheusTenant /\ scrape.metric = Len(Order) =>
                PrometheusRead.lookups <= PrometheusRead.routed]_vars
  <2> SUFFICES ASSUME CountedInv, ScrapeInv, Next
               PROVE  /\ scrape.format # "none" /\ scrape' = NoScrape =>
                            scrape.global.lookups <= scrape.global.routed
                      /\ PrometheusTenant /\ scrape.metric = Len(Order) =>
                            PrometheusRead.lookups <= PrometheusRead.routed
    OBVIOUS
  <2> USE DEF CountedInv
  <2>1. /\ scrape.metric \in 1..10 /\ scrape.tenant \in Int /\ Len(Order) = 9
        /\ NoScrape.format = "none" /\ scrape.format \in {"none", "json", "prometheus"}
    BY CountersAre, BegunAhead DEF TypeOK, NoScrape, Begun
  <2>2. ASSUME scrape.format # "none", scrape' = NoScrape
        PROVE  scrape.global.lookups <= scrape.global.routed
    <3>1. JsonRow \/ PrometheusTenant
      <4>1. ~(\E r \in Requests : CountTenant(r) \/ \E e \in Counters : CountGlobal(r, e))
        BY <2>1, <2>2 DEF CountTenant, CountGlobal
      <4>2. ~(\E format \in {"json", "prometheus"} : Scrape(format))
        BY <2>1, <2>2 DEF Scrape
      <4>3. ~JsonGlobal
        BY <2>1, <2>2 DEF JsonGlobal, TypeOK
      <4>4. ~PrometheusGlobal
        BY <2>1, <2>2 DEF PrometheusGlobal, TypeOK
      <4>5. QED
        BY <4>1, <4>2, <4>3, <4>4 DEF Next
    <3>2. CASE JsonRow
      BY <2>1, <3>2 DEF JsonRow, ScrapeInv, Ahead
    <3>3. CASE PrometheusTenant
      <4>1. scrape.format = "prometheus" /\ scrape.tenant > 0
        BY <3>3 DEF PrometheusTenant
      <4>2. scrape.metric >= 9
        <5> SUFFICES ASSUME scrape.metric < 9 PROVE FALSE
          BY <2>1
        <5> DEFINE on == [scrape EXCEPT !.tenants[scrape.tenant] = PrometheusRead]
        <5>1. scrape' = [on EXCEPT !.tenant = scrape.tenant + 1]
                 \/ scrape' = [on EXCEPT !.tenant = 0, !.metric = @ + 1]
          BY <2>1, <3>3 DEF PrometheusTenant
        <5>2. on.format = "prometheus" /\ "format" \in DOMAIN on
          BY <4>1 DEF TypeOK
        <5> HIDE DEF on
        <5>3. QED
          BY <2>1, <2>2, <5>1, <5>2
      <4>3. Ahead(scrape.global, global, scrape.metric + 1)
        BY <2>1, <4>1 DEF ScrapeInv
      <4>4. QED
        BY <2>1, <4>2, <4>3 DEF Ahead
    <3>4. QED
      BY <3>1, <3>2, <3>3
  <2>3. ASSUME PrometheusTenant, scrape.metric = Len(Order)
        PROVE  PrometheusRead.lookups <= PrometheusRead.routed
    <3> DEFINE t == scrape.tenant
    <3>1. scrape.format = "prometheus" /\ t \in Tenants
      BY <2>1, <2>3, ShardsAssumption DEF PrometheusTenant, TypeOK, Tenants
    <3>2. Ahead(scrape.tenants[t], tenants[t], 9)
      <4>1. ~(t < scrape.tenant)
        BY <2>1
      <4>2. QED
        BY <2>1, <2>3, <3>1, <4>1 DEF ScrapeInv
    <3>3. PrometheusRead = scrape.tenants[t]
      <4>1. Metric = "reactive_failovers"
        BY <2>1, <2>3 DEF Metric, Order
      <4>2. QED
        BY <4>1 DEF PrometheusRead, Noted, Routings, Lookups
    <3>4. QED
      BY <3>2, <3>3 DEF Ahead
  <2>4. QED
    BY <2>2, <2>3
<1>2. QED
  BY <1>1, Scraped, PTL DEF ScrapeOrder, Spec

===============================================================================
