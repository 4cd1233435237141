------------------------------ MODULE Intercept ------------------------------
(***************************************************************************)
(* The life of a request to /v1/chat/completions, handle_intercept, in     *)
(* every cache mode: routing, the lookups, dispatch, reactive failover,    *)
(* the answer in one piece or as a stream, the inserts into the caches and *)
(* the counters of the tenant.                                             *)
(*                                                                         *)
(* Requests run concurrently; a step goes from one await of the handler to *)
(* the next, so that answers, stream chunks and disconnects of the clients *)
(* come in between.  A cached body is what is known of where it comes      *)
(* from.  How the caches evict and expire is in ExactCache and             *)
(* SemanticIndex; here an entry may disappear at any time.                 *)
(*                                                                         *)
(* The semantic insert waits for itself (Locks!SemanticInsertEnds).  Here  *)
(* it goes on, so that what it inserts may be found: all that the code     *)
(* does up to that wait is a behaviour of this module.                     *)
(***************************************************************************)
EXTENDS Routing, FiniteSets, Functions, Sequences

CONSTANTS
    Slots,          \* requests, each served once
    Inputs,         \* what clients send
    Configs,        \* configurations a process may be started with
    Statuses,       \* classes of response status
    FailoverStatuses    \* those in failover_status_codes

ASSUME ConfigsAssumption == Configs \subseteq Configurations
ASSUME InputsAssumption == Inputs \subseteq Requests /\ Inputs # {}
ASSUME StatusesAssumption ==
    /\ FailoverStatuses \subseteq Statuses
    /\ "success" \in Statuses
    /\ Statuses \cap {"none", "error"} = {}     \* nothing yet, and a failure of the transport

VARIABLES
    cfg,        \* configuration of the process
    pc,         \* request -> where its handler is
    req,        \* request -> what the client sent
    wire,       \* request -> the dispatches made for it, in order
    reply,      \* request -> what the last dispatch came to
    label,      \* request -> provider and model of the response headers
    stream,     \* request -> what has come of the body: chunks, an error
    answer,     \* request -> how it was answered, and with which body
    cache,      \* key -> body
    index,      \* the items of the semantic index: context and body
    counts      \* tenant -> counter -> value

vars == <<cfg, pc, req, wire, reply, label, stream, answer, cache, index, counts>>

Counters == {"routed_fallback", "routed_passthrough", "exact_hits", "semantic_hits",
             "misses", "upstream_errors", "cache_inserts_exact",
             "cache_inserts_semantic", "reactive_failovers"}

\* A response as cached: whom it was asked of, for whom, and whether it is all
\* that the provider had to say.
Bodies == [payload : Payloads, tenant : Tenants, from : Providers, model : Models,
           status : Statuses, whole : BOOLEAN]

Unanswered == [kind |-> "none"]

Answers == {Unanswered} \cup [kind : {"hit", "similar", "miss"}, body : Bodies]
                        \cup [kind : {"failed", "error", "dropped"}]

Decisions == [to : Providers, model : Models]

Dispatches == [to : Providers, model : Models, auth : {"client", "fallback_key"}]

Count(names, t) ==
    counts' = [counts EXCEPT ![t] =
                  [n \in Counters |-> IF n \in names THEN @[n] + 1 ELSE @[n]]]

\* The decision made when the request arrived, on which its key rests.
Decision(r) == Route(req[r], cfg)

Last(r) == wire[r][Len(wire[r])]

Success(r) == reply[r] = "success"

\* The body of the response to the last dispatch, whole or not.
BodyOf(r, whole) ==
    [payload |-> req[r].payload, tenant |-> req[r].tenant, from |-> Last(r).to,
     model |-> Last(r).model, status |-> reply[r], whole |-> whole]

-------------------------------------------------------------------------------
(* Arrival.                                                                *)

Arrive(r, q) ==
    /\ pc[r] = "idle"
    /\ req' = [req EXCEPT ![r] = q]
    /\ label' = [label EXCEPT ![r] = Route(q, cfg)]
    /\ Count({IF Route(q, cfg).to = "fallback" THEN "routed_fallback"
              ELSE "routed_passthrough"}, q.tenant)
    /\ pc' = [pc EXCEPT ![r] = "lookup"]
    /\ UNCHANGED <<cfg, wire, reply, stream, answer, cache, index>>

Looks(r) == cfg.cache_mode # "off" /\ Eligible(req[r].payload)

HitKeys(r) == {k \in DOMAIN cache : Looks(r) /\ k = Key(req[r], cfg)}

LookupHit(r) ==
    /\ pc[r] = "lookup"
    /\ \E k \in HitKeys(r) :
          answer' = [answer EXCEPT ![r] = [kind |-> "hit", body |-> cache[k]]]
    /\ Count({"exact_hits"}, req[r].tenant)
    /\ pc' = [pc EXCEPT ![r] = "done"]
    /\ UNCHANGED <<cfg, req, wire, reply, label, stream, cache, index>>

\* A dispatch: the model of the decision, the client's key or the fallback's.
Dispatch(d) ==
    [to |-> d.to, model |-> d.model,
     auth |-> IF d.to = "fallback" THEN "fallback_key" ELSE "client"]

\* The miss is counted, and the request sent where the decision says.
Send(r) ==
    /\ wire' = [wire EXCEPT ![r] = <<Dispatch(Decision(r))>>]
    /\ Count({"misses"}, req[r].tenant)
    /\ pc' = [pc EXCEPT ![r] = "waiting"]
    /\ UNCHANGED <<cfg, req, reply, label, stream, answer, cache, index>>

LookupMiss(r) ==
    /\ pc[r] = "lookup"
    /\ HitKeys(r) = {}
    /\ ~SemanticEligible(req[r], cfg)
    /\ Send(r)

\* The prompt goes to a blocking thread to be encoded.
Encode(r) ==
    /\ pc[r] = "lookup"
    /\ HitKeys(r) = {}
    /\ SemanticEligible(req[r], cfg)
    /\ pc' = [pc EXCEPT ![r] = "encoding"]
    /\ UNCHANGED <<cfg, req, wire, reply, label, stream, answer, cache, index, counts>>

\* The predictor fails, and the request with it.
EncodeFails(r) ==
    /\ pc[r] = "encoding"
    /\ answer' = [answer EXCEPT ![r] = [kind |-> "failed"]]
    /\ pc' = [pc EXCEPT ![r] = "done"]
    /\ UNCHANGED <<cfg, req, wire, reply, label, stream, cache, index, counts>>

\* The bucket of the request.
Bucket(r) == {i \in index : i.context = Context(req[r], cfg)}

SamePrompt(r, i) == i.body.payload.prompt = req[r].payload.prompt

\* An item of the bucket is similar enough.
SemanticHit(r) ==
    /\ pc[r] = "encoding"
    /\ \E i \in Bucket(r) :
          answer' = [answer EXCEPT ![r] = [kind |-> "similar", body |-> i.body]]
    /\ Count({"semantic_hits"}, req[r].tenant)
    /\ pc' = [pc EXCEPT ![r] = "done"]
    /\ UNCHANGED <<cfg, req, wire, reply, label, stream, cache, index>>

\* None is.  The same prompt always is, and so are two that have no text.
SemanticMiss(r) ==
    /\ pc[r] = "encoding"
    /\ \A i \in Bucket(r) : ~SamePrompt(r, i)
    /\ Send(r)

-------------------------------------------------------------------------------
(* The provider, and failover.                                             *)

\* The provider answers with some status, or the transport fails.
Reply(r, outcome) ==
    /\ pc[r] = "waiting"
    /\ reply' = [reply EXCEPT ![r] = outcome]
    /\ pc' = [pc EXCEPT ![r] = "replied"]
    /\ UNCHANGED <<cfg, req, wire, label, stream, answer, cache, index, counts>>

\* Mutation of FailsOver: a failed fallback is tried again.
FailsOverAgain(r) ==
    /\ cfg.reactive_failover
    /\ Decision(r).to # "fallback"
    /\ cfg.fallback_api_key
    /\ reply[r] \in FailoverStatuses \cup {"error"}

FailsOver(r) ==
    /\ cfg.reactive_failover
    /\ Decision(r).to # "fallback"
    /\ cfg.fallback_api_key
    /\ Len(wire[r]) = 1
    /\ reply[r] \in FailoverStatuses \cup {"error"}

FailoverTo(r) ==
    [to |-> "fallback",
     model |-> IF cfg.failover_model = {} THEN Decision(r).model
               ELSE CHOOSE m \in cfg.failover_model : TRUE]

\* Mutation of Relabel: the model of the label stays that of the decision.
RelabelProvider(r) == label' = [label EXCEPT ![r].to = "fallback"]

Relabel(r) == label' = [label EXCEPT ![r] = FailoverTo(r)]

\* The second dispatch: key, URL and label of the fallback, and its model if one
\* is configured.  The cache key stays as it is.
Failover(r) ==
    /\ pc[r] = "replied"
    /\ FailsOver(r)
    /\ wire' = [wire EXCEPT ![r] = Append(@, Dispatch(FailoverTo(r)))]
    /\ Relabel(r)
    /\ Count({"reactive_failovers"}, req[r].tenant)
    /\ pc' = [pc EXCEPT ![r] = "waiting"]
    /\ UNCHANGED <<cfg, req, reply, stream, answer, cache, index>>

\* The transport failed and there is nowhere else to go.
AnswerError(r) ==
    /\ pc[r] = "replied"
    /\ ~FailsOver(r)
    /\ reply[r] = "error"
    /\ answer' = [answer EXCEPT ![r] = [kind |-> "error"]]
    /\ Count({"upstream_errors"}, req[r].tenant)
    /\ pc' = [pc EXCEPT ![r] = "done"]
    /\ UNCHANGED <<cfg, req, wire, reply, label, stream, cache, index>>

-------------------------------------------------------------------------------
(* The body.                                                               *)

\* There is a response to pass on.
Responds(r) == pc[r] = "replied" /\ ~FailsOver(r) /\ reply[r] # "error"

\* What is inserted with a body: it goes into the exact cache, and in semantic mode
\* into the index.
Inserts(r) ==
    {"cache_inserts_exact"} \cup
        IF SemanticEligible(req[r], cfg) THEN {"cache_inserts_semantic"} ELSE {}

\* The exact cache with the body under the key, in place of what was there.
Put(key, body) ==
    [k \in DOMAIN cache \cup {key} |-> IF k = key THEN body ELSE cache[k]]

\* Mutation of Store: the insert is counted whether it is made or not.
StoreCountsAlways(r, body, stores) ==
    /\ cache' = IF stores THEN Put(Key(req[r], cfg), body) ELSE cache
    /\ Count(Inserts(r), req[r].tenant)
    /\ UNCHANGED index

\* The inserts of a body that may be cached, with their counters, or nothing.
Store(r, body, stores) ==
    IF stores
    THEN /\ cache' = Put(Key(req[r], cfg), body)
         /\ index' = IF SemanticEligible(req[r], cfg)
                     THEN index \cup {[context |-> Context(req[r], cfg), body |-> body]}
                     ELSE index
         /\ Count(Inserts(r), req[r].tenant)
    ELSE UNCHANGED <<cache, index, counts>>

\* Mutation of Finish: the handler goes on after it has answered.
FinishGoesOn(r, body) ==
    /\ answer' = [answer EXCEPT ![r] = [kind |-> "miss", body |-> body]]
    /\ UNCHANGED pc

Finish(r, body) ==
    /\ answer' = [answer EXCEPT ![r] = [kind |-> "miss", body |-> body]]
    /\ pc' = [pc EXCEPT ![r] = "done"]

\* Not a stream: the body is read to its end, or is empty if that fails.  The
\* insert does not ask whether the cache is on.
AnswerWhole(r) ==
    /\ Responds(r)
    /\ ~req[r].payload.stream
    /\ \E whole \in BOOLEAN :
          /\ Store(r, BodyOf(r, whole), Success(r) /\ Eligible(req[r].payload))
          /\ Finish(r, BodyOf(r, whole))
    /\ UNCHANGED <<cfg, req, wire, reply, label, stream>>

\* A stream: the headers go out at once.
StartStream(r) ==
    /\ Responds(r)
    /\ req[r].payload.stream
    /\ pc' = [pc EXCEPT ![r] = "streaming"]
    /\ UNCHANGED <<cfg, req, wire, reply, label, stream, answer, cache, index, counts>>

\* Bytes come, or an error, which is passed on as a frame of its own.
StreamChunk(r) ==
    /\ pc[r] = "streaming"
    /\ "error" \notin stream[r]
    /\ \E what \in {"bytes", "error"} :
          stream' = [stream EXCEPT ![r] = stream[r] \cup {what}]
    /\ UNCHANGED <<cfg, pc, req, wire, reply, label, answer, cache, index, counts>>

\* Mutation of StreamStores: what came before an error is taken for the answer.
StreamStoresPart(r) == "bytes" \in stream[r] /\ Success(r) /\ Eligible(req[r].payload)

StreamStores(r) ==
    /\ "bytes" \in stream[r]
    /\ Success(r)
    /\ "error" \notin stream[r]
    /\ Eligible(req[r].payload)

\* Mutation of StreamEnd: a stream that failed is never closed.
StreamEndClean(r) ==
    /\ pc[r] = "streaming"
    /\ "error" \notin stream[r]
    /\ Store(r, BodyOf(r, TRUE), StreamStores(r))
    /\ Finish(r, BodyOf(r, TRUE))
    /\ UNCHANGED <<cfg, req, wire, reply, label, stream>>

\* The end of the stream, and the flush chained to it.
StreamEnd(r) ==
    /\ pc[r] = "streaming"
    /\ Store(r, BodyOf(r, "error" \notin stream[r]), StreamStores(r))
    /\ Finish(r, BodyOf(r, "error" \notin stream[r]))
    /\ UNCHANGED <<cfg, req, wire, reply, label, stream>>

\* The client disconnects: the handler, or the stream, is dropped at its await.
Disconnect(r) ==
    /\ \/ pc[r] \in {"encoding", "waiting", "streaming"}
       \/ Responds(r) /\ ~req[r].payload.stream
    /\ answer' = [answer EXCEPT ![r] = [kind |-> "dropped"]]
    /\ pc' = [pc EXCEPT ![r] = "done"]
    /\ UNCHANGED <<cfg, req, wire, reply, label, stream, cache, index, counts>>

\* An entry is evicted, expires or is deleted.
Forget(k) ==
    /\ cache' = Restrict(cache, DOMAIN cache \ {k})
    /\ UNCHANGED <<cfg, pc, req, wire, reply, label, stream, answer, index, counts>>

\* So is an item of the index.
ForgetItem(i) ==
    /\ index' = index \ {i}
    /\ UNCHANGED <<cfg, pc, req, wire, reply, label, stream, answer, cache, counts>>

-------------------------------------------------------------------------------
NoRequest == CHOOSE q \in Inputs : TRUE

Init ==
    /\ cfg \in Configs
    /\ pc = [r \in Slots |-> "idle"]
    /\ req = [r \in Slots |-> NoRequest]
    /\ wire = [r \in Slots |-> <<>>]
    /\ reply = [r \in Slots |-> "none"]
    /\ label = [r \in Slots |-> Passthrough(NoRequest.payload)]
    /\ stream = [r \in Slots |-> {}]
    /\ answer = [r \in Slots |-> Unanswered]
    /\ cache = <<>>
    /\ index = {}
    /\ counts = [t \in Tenants |-> [n \in Counters |-> 0]]

\* What the handler does by itself once it may run.
HandlerStep(r) ==
    \/ LookupHit(r) \/ LookupMiss(r)
    \/ Encode(r) \/ EncodeFails(r) \/ SemanticHit(r) \/ SemanticMiss(r)
    \/ Failover(r) \/ AnswerError(r) \/ StartStream(r)

\* What the provider does.
ProviderStep(r) ==
    \/ \E outcome \in Statuses \cup {"error"} : Reply(r, outcome)
    \/ AnswerWhole(r)
    \/ StreamEnd(r)

Next ==
    \/ \E r \in Slots, q \in Inputs : Arrive(r, q)
    \/ \E r \in Slots : HandlerStep(r) \/ ProviderStep(r) \/ StreamChunk(r) \/ Disconnect(r)
    \/ \E k \in DOMAIN cache : Forget(k)
    \/ \E i \in index : ForgetItem(i)

Spec == Init /\ [][Next]_vars

\* Handlers are scheduled, and providers answer and end their streams.
FairSpec ==
    Spec /\ \A r \in Slots : WF_vars(HandlerStep(r)) /\ WF_vars(ProviderStep(r))

-------------------------------------------------------------------------------
(* Properties.                                                             *)

TypeOK ==
    /\ cfg \in Configs
    /\ pc \in [Slots -> {"idle", "lookup", "encoding", "waiting", "replied", "streaming", "done"}]
    /\ req \in [Slots -> Inputs]
    /\ wire \in [Slots -> Seq(Dispatches)]
    /\ reply \in [Slots -> Statuses \cup {"error", "none"}]
    /\ label \in [Slots -> Decisions]
    /\ stream \in [Slots -> SUBSET {"bytes", "error"}]
    /\ answer \in [Slots -> Answers]
    /\ \A r \in Slots : answer[r] = Unanswered <=> pc[r] # "done"
    /\ \A k \in DOMAIN cache : cache[k] \in Bodies
    /\ \A i \in index : i.body \in Bodies
    /\ counts \in [Tenants -> [Counters -> Nat]]

\* A request is sent at most twice, and twice only to retry on the fallback what
\* the upstream failed at; nothing goes to the fallback without a key for it.
\* (README, "Retries once"; the guard against leaking the client's key.)
DispatchedOnceEach ==
    \A r \in Slots :
        /\ Len(wire[r]) <= 2
        /\ Len(wire[r]) = 2 => wire[r][1].to = "upstream" /\ wire[r][2].to = "fallback"
        /\ \A i \in DOMAIN wire[r] :
              /\ wire[r][i].to = "fallback" => cfg.fallback_api_key
              /\ wire[r][i].auth = "client" <=> wire[r][i].to = "upstream"

\* Where an answer to r may come from: the provider and the model it would have been
\* sent to, or would have failed over to.
MayComeFrom(r, body) ==
    LET from == [to |-> body.from, model |-> body.model]
    IN  \/ from = Decision(r)
        \/ cfg.reactive_failover /\ Decision(r).to = "upstream" /\ from = FailoverTo(r)

\* A hit replays what was asked for the same tenant with the same payload, of
\* the provider and the model that this request would have been sent to, or
\* would have failed over to: requests that routing treats differently never
\* share an entry (cache_key_hash).
HitsAreOwn ==
    \A r \in Slots : answer[r].kind = "hit" =>
        /\ answer[r].body.payload = req[r].payload
        /\ answer[r].body.tenant = req[r].tenant
        /\ MayComeFrom(r, answer[r].body)

\* A semantic hit replays, of where this request might have gone, an answer given to
\* the same tenant, of the same model and temperature and after the same messages but
\* for the last, and never to a request that opted out (build_context_key).  The two may
\* differ in their parameters, and one of them may be a stream.
SemanticHitsAreOwn ==
    \A r \in Slots : answer[r].kind = "similar" =>
        LET asked == answer[r].body.payload
        IN  /\ \A f \in {"id", "model", "temperature"} : asked[f] = req[r].payload[f]
            /\ answer[r].body.tenant = req[r].tenant
            /\ MayComeFrom(r, answer[r].body)
            /\ ~req[r].no_semantic_cache

\* What is cached succeeded, and a stream is cached only as a whole: neither an
\* error in the middle nor a client that goes away leaves a partial entry.
StreamsCachedWhole ==
    \A body \in {cache[k] : k \in DOMAIN cache} \cup {i.body : i \in index} :
        body.status = "success" /\ (body.payload.stream => body.whole)

\* The headers name the provider and the model the request was last sent to, after a
\* failover too; those of a hit name the ones it would have been sent to.
HeadersTrue ==
    \A r \in Slots :
        /\ answer[r].kind \in {"miss", "error"} =>
              label[r] = [to |-> Last(r).to, model |-> Last(r).model]
        /\ answer[r].kind \in {"hit", "similar"} => label[r] = Decision(r)

\* A request that opted out of routing is sent as it is, to the upstream; it gets
\* another model only after the upstream has failed, if a model for that is set.
OptOutUntilFailure ==
    \A r \in Slots : req[r].no_route /\ wire[r] # <<>> =>
        /\ [to |-> wire[r][1].to, model |-> wire[r][1].model] = Passthrough(req[r].payload)
        /\ Last(r).model # req[r].payload.model =>
              Len(wire[r]) = 2 /\ cfg.failover_model = {Last(r).model}

Answered(t, kind) ==
    {r \in Slots : pc[r] = "done" /\ req[r].tenant = t /\ answer[r].kind = kind}

\* A response that went into the cache when it was passed on.
Stored(r) ==
    /\ Success(r)
    /\ Eligible(req[r].payload)
    /\ req[r].payload.stream => stream[r] = {"bytes"}

\* The counters of a tenant account for its requests: each was routed one way,
\* each that got past the lookup is a hit or a miss, and the errors, failovers
\* and inserts are those of its misses.
BooksBalance ==
    \A t \in Tenants :
        LET arrived == {r \in Slots : pc[r] # "idle" /\ req[r].tenant = t}
            n == counts[t]
        IN  /\ n.routed_fallback + n.routed_passthrough = Cardinality(arrived)
            /\ n.exact_hits = Cardinality(Answered(t, "hit"))
            /\ n.semantic_hits = Cardinality(Answered(t, "similar"))
            /\ n.misses = Cardinality({r \in arrived : wire[r] # <<>>})
            /\ n.reactive_failovers = Cardinality({r \in arrived : Len(wire[r]) = 2})
            /\ n.upstream_errors = Cardinality(Answered(t, "error"))
            /\ n.cache_inserts_exact =
                  Cardinality({r \in Answered(t, "miss") : Stored(r)})
            /\ n.cache_inserts_semantic =
                  Cardinality({r \in Answered(t, "miss") :
                                  Stored(r) /\ SemanticEligible(req[r], cfg)})

\* Every request is answered, or dropped, whatever the provider answers and
\* however its stream ends.  (In semantic mode an insert never ends: see Locks.)
EveryRequestEnds == cfg.cache_mode # "semantic" => \A r \in Slots : pc[r] # "idle" ~> pc[r] = "done"

===============================================================================
