------------------------------- MODULE Routing -------------------------------
(***************************************************************************)
(* What the proxy decides about a request from its payload, its headers    *)
(* and the configuration: where to send it, whether it may be cached, and  *)
(* under which key.                                                        *)
(*                                                                         *)
(* A payload is a record of the features these decisions look at.  Its     *)
(* text is one of three classes: "plain", "strict" (it asks for a          *)
(* particular model) and "reasoning" (it has one of the keywords that keep *)
(* a request on the model it asked for).                                   *)
(***************************************************************************)
EXTENDS Integers

CONSTANTS
    Models,         \* model names, in requests and in the configuration
    Premium,        \* those that may be downgraded
    Cheap,          \* the model a downgraded request is sent to
    Tenants

ASSUME ModelsAssumption == Premium \subseteq Models /\ Cheap \in Models

Providers == {"upstream", "fallback"}

Payloads ==
    [id : Nat,                  \* the messages before the last
     prompt : Nat,              \* the last one, 0 if it has no text
     model : Models,
     text : {"plain", "strict", "reasoning"},
     multimodal : BOOLEAN,
     temperature : {"absent", "zero", "positive", "negative"},
     tools : BOOLEAN,           \* a tools array that is not empty
     tool_choice : BOOLEAN,     \* not null
     response_format : {"absent", "object", "other"},
     no_store : BOOLEAN,        \* cache_control is "no_store"
     params : Nat,              \* max_tokens, stop and the like
     stream : BOOLEAN]

Requests ==
    [payload : Payloads, tenant : Tenants,
     no_route : BOOLEAN, no_semantic_cache : BOOLEAN]   \* opt-outs, in headers

Configurations ==
    [cache_mode : {"off", "exact", "semantic"},
     allow_model_rewrite : BOOLEAN,
     fallback_api_key : BOOLEAN,        \* whether one is configured
     reactive_failover : BOOLEAN,
     failover_model : {{}} \cup {{m} : m \in Models}]

\* has_unsafe_features
Unsafe(p) ==
    \/ p.tools
    \/ p.response_format = "object"
    \/ p.tool_choice
    \/ p.temperature = "positive"
    \/ p.multimodal

Passthrough(p) == [to |-> "upstream", model |-> p.model]

\* Mutation of Route: the opt-out header is not looked at.
RouteDespiteOptOut(q, c) ==
    IF /\ c.allow_model_rewrite
       /\ ~Unsafe(q.payload)
       /\ q.payload.text = "plain"
       /\ q.payload.model \in Premium
       /\ c.fallback_api_key
    THEN [to |-> "fallback", model |-> Cheap]
    ELSE Passthrough(q.payload)

\* evaluate_routing, and the guard of handle_intercept after it: without a
\* fallback key the request stays on the upstream.
Route(q, c) ==
    IF /\ c.allow_model_rewrite
       /\ ~q.no_route
       /\ ~Unsafe(q.payload)
       /\ q.payload.text = "plain"
       /\ q.payload.model \in Premium
       /\ c.fallback_api_key
    THEN [to |-> "fallback", model |-> Cheap]
    ELSE Passthrough(q.payload)

\* is_eligible
Eligible(p) ==
    /\ ~p.no_store
    /\ p.temperature \in {"absent", "zero"}
    /\ ~p.tools

\* semantic_eligible
SemanticEligible(q, c) ==
    /\ c.cache_mode = "semantic"
    /\ ~q.no_semantic_cache
    /\ Eligible(q.payload)
    /\ q.payload.response_format = "absent"
    /\ ~q.payload.tool_choice

\* Mutation of Key: the namespace of the route is left out.
KeyWithoutRoute(q, c) ==
    [tenant |-> q.tenant, payload |-> q.payload,
     namespace |-> Passthrough(q.payload)]

\* cache_namespace and cache_key_hash.  The namespace of a passthrough names the
\* upstream and the requested model, that of a routed request the fallback and
\* the model it is sent to.
Key(q, c) == [tenant |-> q.tenant, payload |-> q.payload, namespace |-> Route(q, c)]

\* Mutation of Context: routed requests share the buckets of the others.
ContextUnrouted(q, c) ==
    [id |-> q.payload.id, model |-> q.payload.model, tenant |-> q.tenant,
     temperature |-> q.payload.temperature]

\* build_context_key, of a request that is eligible, and so without tools and formats.
\* The last message is left out, and whatever the function does not name: the limits
\* on the answer, and whether it is a stream.
Context(q, c) ==
    [id |-> q.payload.id, model |-> q.payload.model, tenant |-> q.tenant,
     temperature |-> q.payload.temperature, routed |-> Route(q, c).to = "fallback"]

===============================================================================
