----------------------------- MODULE MCIntercept -----------------------------
(* A small instance of Intercept for TLC.                                 *)
EXTENDS Intercept, TLC

MCModels == {"gpt", "deepseek", "backup"}

Ask == [id |-> 1, prompt |-> 1, model |-> "gpt", text |-> "plain", multimodal |-> FALSE,
        temperature |-> "zero", tools |-> FALSE, tool_choice |-> FALSE,
        response_format |-> "absent", no_store |-> FALSE, params |-> 1,
        stream |-> FALSE]

By(payload, t) == [payload |-> payload, tenant |-> t, no_route |-> FALSE,
                  no_semantic_cache |-> FALSE]

NoRoute(q) == [q EXCEPT !.no_route = TRUE]

\* The same question of two tenants, with and without the opt-outs, streamed or
\* not, a similar one with other parameters, and one that is not deterministic.
MCInputs ==
    {By(Ask, "a"), NoRoute(By(Ask, "a")), By(Ask, "b"),
     By([Ask EXCEPT !.stream = TRUE], "a"),
     By([Ask EXCEPT !.prompt = 2, !.params = 2], "a"),
     [By([Ask EXCEPT !.prompt = 2], "a") EXCEPT !.no_semantic_cache = TRUE],
     By([Ask EXCEPT !.temperature = "positive"], "a")}

\* Without a key for the fallback nothing else matters; with one, every way to rewrite
\* and to fail over; one configuration with the cache off, and two in semantic mode.
Base ==
    [cache_mode |-> "exact", allow_model_rewrite |-> TRUE, fallback_api_key |-> TRUE,
     reactive_failover |-> TRUE, failover_model |-> {"backup"}]

MCConfigs ==
    {[Base EXCEPT !.fallback_api_key = FALSE],
     [Base EXCEPT !.cache_mode = "off"],
     [Base EXCEPT !.cache_mode = "semantic"],
     [Base EXCEPT !.cache_mode = "semantic", !.allow_model_rewrite = FALSE]}
    \cup {[Base EXCEPT !.allow_model_rewrite = b, !.failover_model = m] :
             b \in BOOLEAN, m \in {{}, {"backup"}}}
    \cup {[Base EXCEPT !.allow_model_rewrite = b, !.reactive_failover = FALSE] :
             b \in BOOLEAN}

\* Requests are interchangeable; not used with liveness.
SlotSymmetry == Permutations(Slots)

===============================================================================
