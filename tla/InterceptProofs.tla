---------------------------- MODULE InterceptProofs ----------------------------
(***************************************************************************)
(* Theorems about the life of a request, for every set of requests,        *)
(* inputs, configurations, models, tenants and statuses: what is sent      *)
(* where, and what its headers say of it; then where the answers come      *)
(* from, that a hit replays what was asked, that streams are cached whole, *)
(* and that the counters of every tenant account for its requests.         *)
(***************************************************************************)
EXTENDS Intercept, SequenceTheorems, FiniteSetTheorems, TLAPS

-------------------------------------------------------------------------------
(* Decisions and what is sent.                                             *)

LEMMA RouteType ==
    ASSUME NEW q \in Requests, NEW c
    PROVE  Route(q, c) \in Decisions
BY ModelsAssumption DEF Route, Passthrough, Decisions, Providers, Requests, Payloads

\* A request goes to the fallback only with a key for it.
LEMMA RouteNeedsKey ==
    ASSUME NEW q, NEW c, Route(q, c).to = "fallback"
    PROVE  c.fallback_api_key
BY DEF Route, Passthrough

LEMMA DecisionType ==
    ASSUME TypeOK, NEW r \in Slots
    PROVE  Decision(r) \in Decisions
BY RouteType, InputsAssumption DEF TypeOK, Decision

LEMMA FailoverType ==
    ASSUME TypeOK, NEW r \in Slots
    PROVE  FailoverTo(r) \in Decisions
<1>1. Decision(r).model \in Models
  BY DecisionType DEF Decisions
<1>2. cfg.failover_model = {} \/ \E m \in Models : cfg.failover_model = {m}
  BY ConfigsAssumption DEF TypeOK, Configurations
<1>3. cfg.failover_model # {} => (CHOOSE m \in cfg.failover_model : TRUE) \in Models
  BY <1>2
<1>4. QED
  BY <1>1, <1>3 DEF FailoverTo, Decisions, Providers

LEMMA DispatchType ==
    ASSUME NEW d \in Decisions
    PROVE  Dispatch(d) \in Dispatches
BY DEF Dispatch, Dispatches, Decisions

-------------------------------------------------------------------------------
(* Type correctness.                                                       *)

\* What is known of a request by where its handler is.
PlaceInv ==
    \A r \in Slots :
        /\ pc[r] \in {"idle", "lookup", "encoding"} => wire[r] = <<>>
        /\ pc[r] \in {"waiting", "replied", "streaming"} => wire[r] # <<>>
        /\ pc[r] \in {"replied", "streaming"} => reply[r] # "none"
        /\ pc[r] = "streaming" => reply[r] # "error" /\ req[r].payload.stream

LEMMA IdleUnanswered ==
    ASSUME TypeOK, NEW r \in Slots, answer[r].kind # "none"
    PROVE  pc[r] # "idle"
<1>1. pc[r] = "idle" => answer[r] = Unanswered
  BY DEF TypeOK
<1>2. QED
  BY <1>1 DEF Unanswered

LEMMA LastType ==
    ASSUME TypeOK, NEW r \in Slots, wire[r] # <<>>
    PROVE  Last(r) \in Dispatches
BY DEF TypeOK, Last

LEMMA BodyType ==
    ASSUME TypeOK, NEW r \in Slots, wire[r] # <<>>,
           reply[r] \notin {"none", "error"}, NEW whole \in BOOLEAN
    PROVE  BodyOf(r, whole) \in Bodies
<1>1. Last(r) \in Dispatches
  BY LastType
<1>2. req[r] \in Requests /\ reply[r] \in Statuses
  BY InputsAssumption DEF TypeOK
<1>3. QED
  BY <1>1, <1>2 DEF BodyOf, Bodies, Dispatches, Requests

LEMMA CountType ==
    ASSUME TypeOK, NEW names, NEW t, Count(names, t)
    PROVE  counts' \in [Tenants -> [Counters -> Nat]]
<1>1. \A n \in Counters : counts[t][n] \in Nat => counts[t][n] + 1 \in Nat
  OBVIOUS
<1>2. CASE t \in Tenants
  <2>1. counts[t] \in [Counters -> Nat]
    BY <1>2 DEF TypeOK
  <2>2. [n \in Counters |-> IF n \in names THEN counts[t][n] + 1 ELSE counts[t][n]]
            \in [Counters -> Nat]
    BY <2>1
  <2>3. QED
    BY <1>2, <2>2 DEF TypeOK, Count
<1>3. CASE t \notin Tenants
  BY <1>3 DEF TypeOK, Count
<1>4. QED
  BY <1>2, <1>3

LEMMA StoreType ==
    ASSUME TypeOK, NEW r, NEW body \in Bodies, NEW stores, Store(r, body, stores)
    PROVE  /\ \A k \in DOMAIN cache' : cache'[k] \in Bodies
           /\ \A i \in index' : i.body \in Bodies
           /\ counts' \in [Tenants -> [Counters -> Nat]]
<1>1. CASE ~stores
  BY <1>1 DEF Store, TypeOK
<1>2. CASE stores
  <2>1. \A k \in DOMAIN cache' : cache'[k] \in Bodies
    BY <1>2 DEF Store, TypeOK, Put
  <2>2. \A i \in index' : i.body \in Bodies
    BY <1>2 DEF Store, TypeOK
  <2>3. QED
    BY <1>2, <2>1, <2>2, CountType DEF Store
<1>3. QED
  BY <1>1, <1>2

LEMMA AnsweredType ==
    /\ \A b \in Bodies, kind \in {"hit", "similar", "miss"} :
          /\ [kind |-> kind, body |-> b] \in Answers
          /\ [kind |-> kind, body |-> b] # Unanswered
    /\ \A kind \in {"failed", "error", "dropped"} :
          /\ [kind |-> kind] \in Answers
          /\ [kind |-> kind] # Unanswered
<1>1. ASSUME NEW b \in Bodies, NEW kind \in {"hit", "similar", "miss"}
      PROVE  /\ [kind |-> kind, body |-> b] \in Answers
             /\ [kind |-> kind, body |-> b] # Unanswered
  <2>1. [kind |-> kind, body |-> b].kind # Unanswered.kind
    BY DEF Unanswered
  <2>2. QED
    BY <2>1 DEF Answers
<1>2. ASSUME NEW kind \in {"failed", "error", "dropped"}
      PROVE  /\ [kind |-> kind] \in Answers
             /\ [kind |-> kind] # Unanswered
  <2>1. [kind |-> kind].kind # Unanswered.kind
    BY DEF Unanswered
  <2>2. QED
    BY <2>1 DEF Answers
<1>3. QED
  BY <1>1, <1>2

LEMMA InitType == Init => TypeOK /\ PlaceInv
<1> SUFFICES ASSUME Init PROVE TypeOK /\ PlaceInv
  OBVIOUS
<1>1. NoRequest \in Inputs /\ NoRequest \in Requests
  BY InputsAssumption DEF NoRequest
<1>2. Passthrough(NoRequest.payload) \in Decisions
  BY <1>1 DEF Passthrough, Decisions, Providers, Requests, Payloads
<1>3. Unanswered \in Answers /\ <<>> \in Seq(Dispatches)
  BY DEF Answers
<1>4. \A t \in Tenants : counts[t] \in [Counters -> Nat]
  BY DEF Init
<1>5. TypeOK
  BY <1>1, <1>2, <1>3, <1>4 DEF Init, TypeOK
<1>6. QED
  BY <1>5 DEF Init, PlaceInv

LEMMA ArriveType ==
    ASSUME TypeOK, PlaceInv, NEW r \in Slots, NEW q \in Inputs, Arrive(r, q)
    PROVE  TypeOK' /\ PlaceInv'
<1>1. Route(q, cfg) \in Decisions
  BY RouteType, InputsAssumption
<1>2. counts' \in [Tenants -> [Counters -> Nat]]
  BY CountType DEF Arrive
<1>3. QED
  BY <1>1, <1>2 DEF TypeOK, PlaceInv, Arrive

LEMMA LookupHitType ==
    ASSUME TypeOK, PlaceInv, NEW r \in Slots, LookupHit(r)
    PROVE  TypeOK' /\ PlaceInv'
<1>1. PICK k \in HitKeys(r) :
         answer' = [answer EXCEPT ![r] = [kind |-> "hit", body |-> cache[k]]]
  BY DEF LookupHit
<1>2. cache[k] \in Bodies
  BY DEF HitKeys, TypeOK
<1>3. counts' \in [Tenants -> [Counters -> Nat]]
  BY CountType DEF LookupHit
<1>4. QED
  BY <1>1, <1>2, <1>3, AnsweredType DEF TypeOK, PlaceInv, LookupHit

LEMMA SendType ==
    ASSUME TypeOK, PlaceInv, NEW r \in Slots, pc[r] \in {"lookup", "encoding"}, Send(r)
    PROVE  TypeOK' /\ PlaceInv'
<1>1. Dispatch(Decision(r)) \in Dispatches
  BY DecisionType, DispatchType
<1>2. counts' \in [Tenants -> [Counters -> Nat]]
  BY CountType DEF Send
<1>3. <<Dispatch(Decision(r))>> \in Seq(Dispatches) /\ <<Dispatch(Decision(r))>> # <<>>
  BY <1>1
<1>4. QED
  BY <1>2, <1>3 DEF TypeOK, PlaceInv, Send

LEMMA EncodeType ==
    ASSUME TypeOK, PlaceInv, NEW r \in Slots, Encode(r)
    PROVE  TypeOK' /\ PlaceInv'
BY DEF TypeOK, PlaceInv, Encode

LEMMA EncodeFailsType ==
    ASSUME TypeOK, PlaceInv, NEW r \in Slots, EncodeFails(r)
    PROVE  TypeOK' /\ PlaceInv'
BY AnsweredType DEF TypeOK, PlaceInv, EncodeFails

LEMMA SemanticHitType ==
    ASSUME TypeOK, PlaceInv, NEW r \in Slots, SemanticHit(r)
    PROVE  TypeOK' /\ PlaceInv'
<1>1. PICK i \in Bucket(r) :
         answer' = [answer EXCEPT ![r] = [kind |-> "similar", body |-> i.body]]
  BY DEF SemanticHit
<1>2. i.body \in Bodies
  BY DEF Bucket, TypeOK
<1>3. counts' \in [Tenants -> [Counters -> Nat]]
  BY CountType DEF SemanticHit
<1>4. QED
  BY <1>1, <1>2, <1>3, AnsweredType DEF TypeOK, PlaceInv, SemanticHit

LEMMA ReplyType ==
    ASSUME TypeOK, PlaceInv, NEW r \in Slots, NEW outcome \in Statuses \cup {"error"}, outcome # "none", Reply(r, outcome)
    PROVE  TypeOK' /\ PlaceInv'
BY DEF TypeOK, PlaceInv, Reply

LEMMA FailoverStepType ==
    ASSUME TypeOK, PlaceInv, NEW r \in Slots, Failover(r)
    PROVE  TypeOK' /\ PlaceInv'
<1>1. Dispatch(FailoverTo(r)) \in Dispatches /\ FailoverTo(r) \in Decisions
  BY FailoverType, DispatchType
<1>2. counts' \in [Tenants -> [Counters -> Nat]]
  BY CountType DEF Failover
<1>3. wire[r] \in Seq(Dispatches)
  BY DEF TypeOK
<1>4. /\ Append(wire[r], Dispatch(FailoverTo(r))) \in Seq(Dispatches)
      /\ Append(wire[r], Dispatch(FailoverTo(r))) # <<>>
  BY <1>1, <1>3
<1>5. QED
  BY <1>1, <1>2, <1>4 DEF TypeOK, PlaceInv, Failover, Relabel

LEMMA AnswerErrorType ==
    ASSUME TypeOK, PlaceInv, NEW r \in Slots, AnswerError(r)
    PROVE  TypeOK' /\ PlaceInv'
<1>1. counts' \in [Tenants -> [Counters -> Nat]]
  BY CountType DEF AnswerError
<1>2. QED
  BY <1>1, AnsweredType DEF TypeOK, PlaceInv, AnswerError

LEMMA AnswerWholeType ==
    ASSUME TypeOK, PlaceInv, NEW r \in Slots, AnswerWhole(r)
    PROVE  TypeOK' /\ PlaceInv'
<1>1. PICK whole \in BOOLEAN :
         /\ Store(r, BodyOf(r, whole), Success(r) /\ Eligible(req[r].payload))
         /\ Finish(r, BodyOf(r, whole))
  BY DEF AnswerWhole
<1>2. BodyOf(r, whole) \in Bodies
  BY BodyType DEF AnswerWhole, Responds, PlaceInv
<1>3. /\ \A k \in DOMAIN cache' : cache'[k] \in Bodies
      /\ \A i \in index' : i.body \in Bodies
      /\ counts' \in [Tenants -> [Counters -> Nat]]
  BY <1>1, <1>2, StoreType
<1>4. QED
  BY <1>1, <1>2, <1>3, AnsweredType DEF TypeOK, PlaceInv, AnswerWhole, Finish

LEMMA StartStreamType ==
    ASSUME TypeOK, PlaceInv, NEW r \in Slots, StartStream(r)
    PROVE  TypeOK' /\ PlaceInv'
BY DEF TypeOK, PlaceInv, StartStream, Responds

LEMMA StreamChunkType ==
    ASSUME TypeOK, PlaceInv, NEW r \in Slots, StreamChunk(r)
    PROVE  TypeOK' /\ PlaceInv'
BY DEF TypeOK, PlaceInv, StreamChunk

LEMMA StreamEndType ==
    ASSUME TypeOK, PlaceInv, NEW r \in Slots, StreamEnd(r)
    PROVE  TypeOK' /\ PlaceInv'
<1>1. BodyOf(r, "error" \notin stream[r]) \in Bodies
  BY BodyType DEF StreamEnd, PlaceInv
<1>2. /\ \A k \in DOMAIN cache' : cache'[k] \in Bodies
      /\ \A i \in index' : i.body \in Bodies
      /\ counts' \in [Tenants -> [Counters -> Nat]]
  BY <1>1, StoreType DEF StreamEnd
<1>3. QED
  BY <1>1, <1>2, AnsweredType DEF TypeOK, PlaceInv, StreamEnd, Finish

LEMMA DisconnectType ==
    ASSUME TypeOK, PlaceInv, NEW r \in Slots, Disconnect(r)
    PROVE  TypeOK' /\ PlaceInv'
BY AnsweredType DEF TypeOK, PlaceInv, Disconnect

\* Entries and items may go at any time.
LEMMA ForgetType ==
    /\ \A k \in DOMAIN cache : TypeOK /\ PlaceInv /\ Forget(k) => TypeOK' /\ PlaceInv'
    /\ \A i \in index : TypeOK /\ PlaceInv /\ ForgetItem(i) => TypeOK' /\ PlaceInv'
BY DEF TypeOK, PlaceInv, Forget, ForgetItem, Restrict

\* The steps of the handler, with what they have in common named once.
LEMMA StepType ==
    ASSUME TypeOK, PlaceInv, [Next]_vars
    PROVE  TypeOK' /\ PlaceInv'
<1>1. ASSUME NEW r \in Slots, LookupMiss(r) \/ SemanticMiss(r)
      PROVE  TypeOK' /\ PlaceInv'
  BY <1>1, SendType DEF LookupMiss, SemanticMiss
<1>2. ASSUME NEW r \in Slots, HandlerStep(r)
      PROVE  TypeOK' /\ PlaceInv'
  BY <1>1, <1>2, LookupHitType, EncodeType, EncodeFailsType, SemanticHitType,
     FailoverStepType, AnswerErrorType, StartStreamType DEF HandlerStep
<1>3. ASSUME NEW r \in Slots, ProviderStep(r)
      PROVE  TypeOK' /\ PlaceInv'
  BY <1>3, ReplyType, AnswerWholeType, StreamEndType, StatusesAssumption DEF ProviderStep
<1>4. CASE UNCHANGED vars
  BY <1>4 DEF vars, TypeOK, PlaceInv
<1>5. QED
  BY <1>2, <1>3, <1>4, ArriveType, StreamChunkType, DisconnectType, ForgetType DEF Next

\* The state of every request, of the caches and of the counters keeps its shape;
\* in particular every body that is cached or answered is that of a real dispatch.
THEOREM TypeCorrect == Spec => [](TypeOK /\ PlaceInv)
<1>1. Init => TypeOK /\ PlaceInv
  BY InitType
<1>2. TypeOK /\ PlaceInv /\ [Next]_vars => (TypeOK /\ PlaceInv)'
  BY StepType
<1>3. QED
  BY <1>1, <1>2, PTL DEF Spec

-------------------------------------------------------------------------------
(* Where requests are sent.                                                 *)

\* The three histories a request may have on the wire, and what its label says of
\* it.  The decision and the configuration are as they were when it arrived.
WireOf(r) ==
    /\ \/ wire[r] = <<>>
       \/ wire[r] = <<Dispatch(Decision(r))>>
       \/ /\ wire[r] = <<Dispatch(Decision(r)), Dispatch(FailoverTo(r))>>
          /\ Decision(r).to # "fallback"
          /\ cfg.reactive_failover
          /\ cfg.fallback_api_key
    /\ pc[r] # "idle" =>
          label[r] = IF Len(wire[r]) = 2 THEN FailoverTo(r) ELSE Decision(r)
    /\ answer[r].kind \in {"miss", "error"} => wire[r] # <<>>
    /\ answer[r].kind \in {"hit", "similar"} => wire[r] = <<>>

WireInv == \A r \in Slots : WireOf(r)

\* A step that sends nothing and leaves what was decided: it may answer one request,
\* from a provider only if it was sent, and from a cache only if it was not.
Keeps ==
    /\ UNCHANGED <<cfg, req, wire, label>>
    /\ \A r \in Slots : pc[r] = "idle" <=> pc'[r] = "idle"
    /\ \A r \in Slots :
          \/ answer'[r] = answer[r]
          \/ /\ answer'[r].kind \in {"miss", "error"} => wire[r] # <<>>
             /\ answer'[r].kind \in {"hit", "similar"} => wire[r] = <<>>

LEMMA KeepsSteps ==
    ASSUME TypeOK, PlaceInv, NEW r \in Slots,
           \/ LookupHit(r) \/ Encode(r) \/ EncodeFails(r) \/ SemanticHit(r)
           \/ AnswerError(r) \/ StartStream(r) \/ ProviderStep(r) \/ StreamChunk(r)
           \/ Disconnect(r)
    PROVE  Keeps
<1> USE DEF TypeOK, PlaceInv, Keeps
<1>1. CASE LookupHit(r)
  BY <1>1 DEF LookupHit
<1>2. CASE Encode(r) \/ StartStream(r) \/ StreamChunk(r)
  BY <1>2 DEF Encode, StartStream, StreamChunk, Responds
<1>3. CASE EncodeFails(r) \/ Disconnect(r)
  BY <1>3 DEF EncodeFails, Disconnect, Responds
<1>4. CASE SemanticHit(r)
  BY <1>4 DEF SemanticHit
<1>5. CASE AnswerError(r)
  BY <1>5 DEF AnswerError
<1>6. ASSUME NEW outcome, Reply(r, outcome)
      PROVE  Keeps
  BY <1>6 DEF Reply
<1>7. CASE AnswerWhole(r)
  BY <1>7 DEF AnswerWhole, Finish, Responds
<1>8. CASE StreamEnd(r)
  BY <1>8 DEF StreamEnd, Finish
<1>9. QED
  BY <1>1, <1>2, <1>3, <1>4, <1>5, <1>6, <1>7, <1>8 DEF ProviderStep

\* A step is an arrival, a first dispatch, a failover, or one that keeps all this.
LEMMA StepKinds ==
    ASSUME TypeOK, PlaceInv, [Next]_vars
    PROVE  \/ \E r \in Slots, q \in Inputs : Arrive(r, q)
           \/ \E r \in Slots : pc[r] \in {"lookup", "encoding"} /\ Send(r)
           \/ \E r \in Slots : Failover(r)
           \/ Keeps
<1>1. ASSUME NEW r \in Slots, LookupMiss(r) \/ SemanticMiss(r)
      PROVE  pc[r] \in {"lookup", "encoding"} /\ Send(r)
  BY <1>1 DEF LookupMiss, SemanticMiss
<1>2. ASSUME \/ \E k \in DOMAIN cache : Forget(k)
             \/ \E i \in index : ForgetItem(i)
             \/ UNCHANGED vars
      PROVE  Keeps
  BY <1>2 DEF Forget, ForgetItem, vars, Keeps
<1>3. QED
  BY <1>1, <1>2, KeepsSteps DEF Next, HandlerStep

LEMMA SameDecision ==
    ASSUME NEW r, cfg' = cfg, req'[r] = req[r]
    PROVE  Decision(r)' = Decision(r) /\ FailoverTo(r)' = FailoverTo(r)
BY DEF Decision, FailoverTo

\* A request that a step leaves alone.
LEMMA SameWire ==
    ASSUME NEW r, WireOf(r), cfg' = cfg, req'[r] = req[r], wire'[r] = wire[r],
           pc'[r] # "idle" => label'[r] = label[r] /\ pc[r] # "idle",
           \/ answer'[r] = answer[r]
           \/ /\ answer'[r].kind \in {"miss", "error"} => wire[r] # <<>>
              /\ answer'[r].kind \in {"hit", "similar"} => wire[r] = <<>>
    PROVE  WireOf(r)'
BY SameDecision DEF WireOf, Dispatch

LEMMA SendWire ==
    ASSUME TypeOK, PlaceInv, WireInv, NEW r \in Slots,
           pc[r] \in {"lookup", "encoding"}, Send(r)
    PROVE  WireOf(r)'
<1>1. Decision(r)' = Decision(r) /\ Dispatch(Decision(r))' = Dispatch(Decision(r))
  BY SameDecision DEF Send, Dispatch
<1>2. wire'[r] = <<Dispatch(Decision(r))>>
  BY DEF Send, TypeOK
<1>3. wire[r] = <<>> /\ label[r] = Decision(r) /\ label' = label /\ answer' = answer
  <2>1. wire[r] = <<>> /\ Len(wire[r]) # 2
    BY DEF PlaceInv
  <2>2. QED
    BY <2>1 DEF WireInv, WireOf, Send
<1>4. answer[r].kind = "none"
  BY DEF TypeOK, Unanswered
<1>5. Len(wire'[r]) # 2 /\ wire'[r] # <<>>
  BY <1>2
<1>6. label'[r] = Decision(r)'
  BY <1>1, <1>3
<1>7. wire'[r] = <<Dispatch(Decision(r))'>>
  BY <1>1, <1>2
<1>8. QED
  BY <1>3, <1>4, <1>5, <1>6, <1>7 DEF WireOf

LEMMA AppendSecond ==
    ASSUME NEW a, NEW b
    PROVE  Append(<<a>>, b) = <<a, b>>
<1>1. Append(<<a>>, b) \in Seq({a, b}) /\ <<a, b>> \in Seq({a, b})
  OBVIOUS
<1>2. Len(Append(<<a>>, b)) = 2 /\ Len(<<a, b>>) = 2
  OBVIOUS
<1>3. Append(<<a>>, b)[1] = a /\ Append(<<a>>, b)[2] = b
  OBVIOUS
<1>4. \A i \in 1 .. 2 : Append(<<a>>, b)[i] = <<a, b>>[i]
  BY <1>3
<1>5. QED
  BY <1>1, <1>2, <1>4, SeqEqual

LEMMA FailoverWire ==
    ASSUME TypeOK, PlaceInv, WireInv, NEW r \in Slots, Failover(r)
    PROVE  WireOf(r)'
<1> DEFINE first == Dispatch(Decision(r))
           second == Dispatch(FailoverTo(r))
<1>1. /\ Decision(r)' = Decision(r) /\ FailoverTo(r)' = FailoverTo(r)
      /\ first' = first /\ second' = second
  BY SameDecision DEF Failover, Dispatch
<1>2. wire[r] = <<first>>
  <2>1. Len(wire[r]) = 1
    BY DEF Failover, FailsOver
  <2>2. Len(<<>>) # 1 /\ Len(<<first, second>>) # 1
    OBVIOUS
  <2>3. QED
    BY <2>1, <2>2 DEF WireInv, WireOf
<1>3. wire'[r] = Append(wire[r], second)
  BY DEF Failover, TypeOK
<1> HIDE DEF first, second
<1>4. wire'[r] = <<first, second>> /\ Len(wire'[r]) = 2 /\ wire'[r] # <<>>
  <2>1. Append(<<first>>, second) = <<first, second>>
    BY AppendSecond
  <2>2. Len(<<first, second>>) = 2 /\ <<first, second>> # <<>>
    OBVIOUS
  <2>3. QED
    BY <1>2, <1>3, <2>1, <2>2
<1>5. label'[r] = FailoverTo(r)
  BY DEF Failover, Relabel, TypeOK
<1>6. answer[r].kind = "none" /\ answer' = answer
  BY DEF TypeOK, Unanswered, Failover
<1>7. Decision(r).to # "fallback" /\ cfg.reactive_failover /\ cfg.fallback_api_key /\ cfg' = cfg
  BY DEF Failover, FailsOver
<1>8. wire'[r] = <<first', second'>> /\ label'[r] = FailoverTo(r)'
  BY <1>1, <1>4, <1>5
<1>9. QED
  BY <1>1, <1>4, <1>6, <1>7, <1>8 DEF WireOf, first, second

LEMMA WireStep ==
    ASSUME TypeOK, PlaceInv, WireInv, [Next]_vars
    PROVE  WireInv'
<1>1. CASE Keeps
  BY <1>1, SameWire DEF Keeps, WireInv
<1>2. ASSUME NEW r \in Slots, NEW q \in Inputs, Arrive(r, q)
      PROVE  WireInv'
  <2>1. \A s \in Slots \ {r} : WireOf(s)'
    BY <1>2, SameWire DEF Arrive, WireInv, TypeOK
  <2>2. /\ wire'[r] = <<>> /\ answer'[r].kind = "none"
        /\ label'[r] = Decision(r)'
    BY <1>2 DEF Arrive, PlaceInv, TypeOK, Decision, Unanswered
  <2>3. Len(wire'[r]) # 2
    BY <2>2
  <2>4. WireOf(r)'
    BY <2>2, <2>3 DEF WireOf
  <2>5. QED
    BY <2>1, <2>4 DEF WireInv
<1>3. ASSUME NEW r \in Slots, pc[r] \in {"lookup", "encoding"}, Send(r)
      PROVE  WireInv'
  <2>1. \A s \in Slots \ {r} : WireOf(s)'
    BY <1>3, SameWire DEF Send, WireInv, TypeOK
  <2>2. QED
    BY <1>3, <2>1, SendWire DEF WireInv
<1>4. ASSUME NEW r \in Slots, Failover(r)
      PROVE  WireInv'
  <2>1. \A s \in Slots \ {r} : WireOf(s)'
    BY <1>4, SameWire DEF Failover, Relabel, WireInv, TypeOK
  <2>2. QED
    BY <1>4, <2>1, FailoverWire DEF WireInv
<1>5. QED
  BY <1>1, <1>2, <1>3, <1>4, StepKinds

LEMMA WireHolds == Spec => [](TypeOK /\ PlaceInv /\ WireInv)
<1>1. Init => WireInv
  BY DEF Init, WireInv, WireOf, Unanswered
<1>2. TypeOK /\ PlaceInv /\ WireInv /\ [Next]_vars => WireInv'
  BY WireStep
<1>3. QED
  BY <1>1, <1>2, TypeCorrect, PTL DEF Spec

\* However requests, failures and disconnects interleave, no request is sent more
\* than twice, the second time only from the upstream to the fallback, and nothing
\* goes to the fallback without a key for it or with the key of the client.
THEOREM DispatchHolds == Spec => []DispatchedOnceEach
<1>1. TypeOK /\ PlaceInv /\ WireInv => DispatchedOnceEach
  <2> SUFFICES ASSUME TypeOK, PlaceInv, WireInv, NEW r \in Slots
               PROVE  /\ Len(wire[r]) <= 2
                      /\ Len(wire[r]) = 2 => wire[r][1].to = "upstream" /\ wire[r][2].to = "fallback"
                      /\ \A i \in DOMAIN wire[r] :
                            /\ wire[r][i].to = "fallback" => cfg.fallback_api_key
                            /\ wire[r][i].auth = "client" <=> wire[r][i].to = "upstream"
    BY DEF DispatchedOnceEach
  <2>1. Decision(r) \in Decisions /\ (Decision(r).to = "fallback" => cfg.fallback_api_key)
    BY DecisionType, RouteNeedsKey DEF Decision
  <2>2. FailoverTo(r).to = "fallback"
    BY DEF FailoverTo
  <2>3. CASE wire[r] = <<>>
    BY <2>3
  <2>4. CASE wire[r] = <<Dispatch(Decision(r))>>
    BY <2>1, <2>4 DEF Dispatch, Decisions, Providers
  <2>5. CASE /\ wire[r] = <<Dispatch(Decision(r)), Dispatch(FailoverTo(r))>>
             /\ Decision(r).to # "fallback"
             /\ cfg.fallback_api_key
    BY <2>1, <2>2, <2>5 DEF Dispatch, Decisions, Providers
  <2>6. QED
    BY <2>3, <2>4, <2>5 DEF WireInv, WireOf
<1>2. QED
  BY <1>1, WireHolds, PTL

\* The headers name where the request was last sent, through a failover too, and
\* those of a hit where it would have been.
THEOREM HeadersHold == Spec => []HeadersTrue
<1>1. TypeOK /\ PlaceInv /\ WireInv => HeadersTrue
  <2> SUFFICES ASSUME TypeOK, PlaceInv, WireInv, NEW r \in Slots
               PROVE  /\ answer[r].kind \in {"miss", "error"} =>
                            label[r] = [to |-> Last(r).to, model |-> Last(r).model]
                      /\ answer[r].kind \in {"hit", "similar"} => label[r] = Decision(r)
    BY DEF HeadersTrue
  <2>1. Decision(r) \in Decisions /\ FailoverTo(r) \in Decisions
    BY DecisionType, FailoverType
  <2>2. ASSUME NEW d \in Decisions
        PROVE  [to |-> Dispatch(d).to, model |-> Dispatch(d).model] = d
    BY DEF Dispatch, Decisions
  <2>3. CASE answer[r].kind \in {"hit", "similar"}
    <3>1. wire[r] = <<>> /\ pc[r] # "idle"
      <4>1. wire[r] = <<>>
        BY <2>3 DEF WireInv, WireOf
      <4>2. pc[r] # "idle"
        BY <2>3, IdleUnanswered
      <4>3. QED
        BY <4>1, <4>2
    <3>2. Len(wire[r]) # 2
      BY <3>1
    <3>3. QED
      BY <2>3, <3>1, <3>2 DEF WireInv, WireOf
  <2>4. CASE answer[r].kind \in {"miss", "error"}
    <3>1. wire[r] # <<>> /\ pc[r] # "idle"
      <4>1. wire[r] # <<>>
        BY <2>4 DEF WireInv, WireOf
      <4>2. pc[r] # "idle"
        BY <2>4, IdleUnanswered
      <4>3. QED
        BY <4>1, <4>2
    <3>2. CASE wire[r] = <<Dispatch(Decision(r))>>
      <4>1. Len(wire[r]) = 1 /\ Last(r) = Dispatch(Decision(r))
        BY <3>2 DEF Last
      <4>2. QED
        BY <2>1, <2>2, <3>1, <4>1 DEF WireInv, WireOf
    <3>3. CASE wire[r] = <<Dispatch(Decision(r)), Dispatch(FailoverTo(r))>>
      <4>1. Len(wire[r]) = 2 /\ Last(r) = Dispatch(FailoverTo(r))
        BY <3>3 DEF Last
      <4>2. QED
        BY <2>1, <2>2, <3>1, <4>1 DEF WireInv, WireOf
    <3>4. QED
      BY <2>4, <3>1, <3>2, <3>3 DEF WireInv, WireOf
  <2>5. QED
    BY <2>3, <2>4
<1>2. QED
  BY <1>1, WireHolds, PTL

\* A request that opted out of routing gets another model only from a failover, and
\* only the one that is set for it.
THEOREM OptOutHolds == Spec => []OptOutUntilFailure
<1>1. TypeOK /\ PlaceInv /\ WireInv => OptOutUntilFailure
  <2> SUFFICES ASSUME TypeOK, PlaceInv, WireInv, NEW r \in Slots,
                      req[r].no_route, wire[r] # <<>>
               PROVE  /\ [to |-> wire[r][1].to, model |-> wire[r][1].model]
                             = Passthrough(req[r].payload)
                      /\ Last(r).model # req[r].payload.model =>
                            Len(wire[r]) = 2 /\ cfg.failover_model = {Last(r).model}
    BY DEF OptOutUntilFailure
  <2>1. Decision(r) = Passthrough(req[r].payload)
    BY DEF Decision, Route
  <2>2. CASE wire[r] = <<Dispatch(Decision(r))>>
    BY <2>1, <2>2 DEF Dispatch, Passthrough, Last
  <2>3. CASE wire[r] = <<Dispatch(Decision(r)), Dispatch(FailoverTo(r))>>
    <3>1. cfg.failover_model = {} \/ \E m \in Models : cfg.failover_model = {m}
      BY ConfigsAssumption DEF TypeOK, Configurations
    <3>2. \/ FailoverTo(r).model = req[r].payload.model
          \/ cfg.failover_model = {FailoverTo(r).model}
      BY <2>1, <3>1 DEF FailoverTo, Passthrough
    <3>3. QED
      BY <2>1, <2>3, <3>2 DEF Dispatch, Passthrough, Last
  <2>4. QED
    BY <2>2, <2>3 DEF WireInv, WireOf
<1>2. QED
  BY <1>1, WireHolds, PTL

-------------------------------------------------------------------------------
(* Where a body comes from.                                                *)

\* Where a request decided as d fails over to.
FailoverOf(d) ==
    [to |-> "fallback",
     model |-> IF cfg.failover_model = {} THEN d.model
               ELSE CHOOSE m \in cfg.failover_model : TRUE]

\* The body answers a request decided as d, maybe after a failover.
ComesFrom(d, body) ==
    LET from == [to |-> body.from, model |-> body.model]
    IN  \/ from = d
        \/ cfg.reactive_failover /\ d.to = "upstream" /\ from = FailoverOf(d)

LEMMA MayComeFromDecision ==
    ASSUME NEW r, NEW body
    PROVE  MayComeFrom(r, body) <=> ComesFrom(Decision(r), body)
BY DEF MayComeFrom, ComesFrom, FailoverTo, FailoverOf

\* The body of any dispatch comes from where its request was decided to go.
LEMMA BodyComesFrom ==
    ASSUME TypeOK, PlaceInv, WireInv, NEW r \in Slots, wire[r] # <<>>, NEW whole
    PROVE  ComesFrom(Decision(r), BodyOf(r, whole))
<1> DEFINE body == BodyOf(r, whole)
<1>1. Decision(r) \in Decisions /\ FailoverTo(r) \in Decisions
  BY DecisionType, FailoverType
<1>2. ASSUME NEW d \in Decisions, Last(r) = Dispatch(d)
      PROVE  [to |-> body.from, model |-> body.model] = d
  BY <1>2 DEF BodyOf, Dispatch, Decisions
<1>3. CASE wire[r] = <<Dispatch(Decision(r))>>
  <2>1. Last(r) = Dispatch(Decision(r))
    BY <1>3 DEF Last
  <2>2. QED
    BY <1>1, <1>2, <2>1 DEF ComesFrom
<1>4. CASE /\ wire[r] = <<Dispatch(Decision(r)), Dispatch(FailoverTo(r))>>
           /\ Decision(r).to # "fallback"
           /\ cfg.reactive_failover
  <2>1. Last(r) = Dispatch(FailoverTo(r))
    BY <1>4 DEF Last
  <2>2. Decision(r).to = "upstream"
    BY <1>1, <1>4 DEF Decisions, Providers
  <2>3. [to |-> body.from, model |-> body.model] = FailoverTo(r)
    BY <1>1, <1>2, <2>1
  <2>4. FailoverTo(r) = FailoverOf(Decision(r))
    BY DEF FailoverTo, FailoverOf
  <2>5. QED
    BY <1>4, <2>2, <2>3, <2>4 DEF ComesFrom
<1>5. QED
  BY <1>3, <1>4 DEF WireInv, WireOf

-------------------------------------------------------------------------------
(* What steps do to the caches and to answers.                             *)

\* The response to r may go into the caches.
Storable(r, whole) ==
    /\ wire[r] # <<>>
    /\ Success(r)
    /\ Eligible(req[r].payload)
    /\ req[r].payload.stream => whole

ItemOf(r, whole) == [context |-> Context(req[r], cfg), body |-> BodyOf(r, whole)]

\* Whatever is cached after a step was cached before, or is the response to a request
\* that may be stored, under the key or the context of that request.
CachesGrow ==
    /\ cfg' = cfg
    /\ \A k \in DOMAIN cache' :
          \/ k \in DOMAIN cache /\ cache'[k] = cache[k]
          \/ \E r \in Slots, whole \in BOOLEAN :
                /\ Storable(r, whole)
                /\ k = Key(req[r], cfg)
                /\ cache'[k] = BodyOf(r, whole)
    /\ \A i \in index' :
          \/ i \in index
          \/ \E r \in Slots, whole \in BOOLEAN :
                Storable(r, whole) /\ i = ItemOf(r, whole)

LEMMA StoreGrows ==
    ASSUME NEW r \in Slots, NEW whole \in BOOLEAN, NEW stores,
           stores => Storable(r, whole), cfg' = cfg, Store(r, BodyOf(r, whole), stores)
    PROVE  CachesGrow
<1>1. CASE ~stores
  BY <1>1 DEF Store, CachesGrow
<1>2. CASE stores
  <2>1. \A k \in DOMAIN cache' :
           \/ k \in DOMAIN cache /\ cache'[k] = cache[k]
           \/ k = Key(req[r], cfg) /\ cache'[k] = BodyOf(r, whole)
    BY <1>2 DEF Store, Put
  <2>2. \A i \in index' : i \in index \/ i = ItemOf(r, whole)
    BY <1>2 DEF Store, ItemOf
  <2>3. QED
    BY <1>2, <2>1, <2>2 DEF CachesGrow
<1>3. QED
  BY <1>1, <1>2

LEMMA StepGrows ==
    ASSUME TypeOK, PlaceInv, [Next]_vars
    PROVE  CachesGrow
<1>1. ASSUME NEW r \in Slots, AnswerWhole(r)
      PROVE  CachesGrow
  <2>1. PICK whole \in BOOLEAN :
           Store(r, BodyOf(r, whole), Success(r) /\ Eligible(req[r].payload))
    BY <1>1 DEF AnswerWhole
  <2>2. Success(r) /\ Eligible(req[r].payload) => Storable(r, whole)
    BY <1>1 DEF Storable, AnswerWhole, Responds, PlaceInv
  <2>3. QED
    BY <1>1, <2>1, <2>2, StoreGrows DEF AnswerWhole
<1>2. ASSUME NEW r \in Slots, StreamEnd(r)
      PROVE  CachesGrow
  <2> DEFINE whole == "error" \notin stream[r]
  <2>1. StreamStores(r) => Storable(r, whole)
    BY <1>2 DEF Storable, StreamStores, StreamEnd, PlaceInv
  <2>2. whole \in BOOLEAN
    OBVIOUS
  <2>3. Store(r, BodyOf(r, whole), StreamStores(r)) /\ cfg' = cfg
    BY <1>2 DEF StreamEnd
  <2> HIDE DEF whole
  <2>4. QED
    BY <2>1, <2>2, <2>3, StoreGrows
<1>3. ASSUME UNCHANGED <<cfg, cache, index>>
      PROVE  CachesGrow
  BY <1>3 DEF CachesGrow
<1>4. ASSUME NEW r \in Slots, HandlerStep(r) \/ StreamChunk(r) \/ Disconnect(r)
      PROVE  CachesGrow
  BY <1>3, <1>4 DEF HandlerStep, LookupHit, LookupMiss, Encode, EncodeFails, SemanticHit,
     SemanticMiss, Send, Failover, AnswerError, StartStream, StreamChunk, Disconnect
<1>5. ASSUME NEW r \in Slots, NEW outcome, Reply(r, outcome)
      PROVE  CachesGrow
  BY <1>3, <1>5 DEF Reply
<1>6. ASSUME NEW r \in Slots, NEW q \in Inputs, Arrive(r, q)
      PROVE  CachesGrow
  BY <1>3, <1>6 DEF Arrive
<1>7. ASSUME NEW k \in DOMAIN cache, Forget(k)
      PROVE  CachesGrow
  BY <1>7 DEF Forget, Restrict, CachesGrow
<1>8. ASSUME NEW i \in index, ForgetItem(i)
      PROVE  CachesGrow
  BY <1>8 DEF ForgetItem, CachesGrow
<1>9. CASE UNCHANGED vars
  BY <1>3, <1>9 DEF vars
<1>10. QED
  BY <1>1, <1>2, <1>4, <1>5, <1>6, <1>7, <1>8, <1>9 DEF Next, ProviderStep

\* A hit stays what it was, or is found now in a cache, for the request as it arrived.
HitsFound ==
    \A r \in Slots :
        /\ answer'[r].kind = "hit" =>
              /\ req'[r] = req[r]
              /\ \/ answer'[r] = answer[r]
                 \/ \E k \in HitKeys(r) : answer'[r].body = cache[k]
        /\ answer'[r].kind = "similar" =>
              /\ req'[r] = req[r]
              /\ \/ answer'[r] = answer[r]
                 \/ pc[r] = "encoding" /\ \E i \in Bucket(r) : answer'[r].body = i.body

LEMMA StepFinds ==
    ASSUME TypeOK, PlaceInv, [Next]_vars
    PROVE  HitsFound
<1> USE DEF TypeOK, HitsFound
<1>1. ASSUME UNCHANGED <<req, answer>>
      PROVE  HitsFound
  BY <1>1
<1>2. ASSUME NEW r \in Slots, NEW q \in Inputs, Arrive(r, q)
      PROVE  HitsFound
  <2>1. answer' = answer /\ answer[r].kind = "none" /\ \A s \in Slots \ {r} : req'[s] = req[s]
    BY <1>2 DEF Arrive, Unanswered
  <2>2. QED
    BY <2>1
<1>3. ASSUME NEW r \in Slots, LookupHit(r)
      PROVE  HitsFound
  BY <1>3 DEF LookupHit
<1>4. ASSUME NEW r \in Slots, SemanticHit(r)
      PROVE  HitsFound
  BY <1>4 DEF SemanticHit
<1>5. ASSUME NEW r \in Slots,
             EncodeFails(r) \/ AnswerError(r) \/ Disconnect(r) \/ AnswerWhole(r) \/ StreamEnd(r)
      PROVE  HitsFound
  BY <1>5 DEF EncodeFails, AnswerError, Disconnect, AnswerWhole, StreamEnd, Finish
<1>6. ASSUME NEW r \in Slots,
             \/ LookupMiss(r) \/ Encode(r) \/ SemanticMiss(r) \/ Failover(r) \/ StartStream(r)
             \/ StreamChunk(r)
      PROVE  HitsFound
  BY <1>1, <1>6 DEF LookupMiss, Encode, SemanticMiss, Send, Failover, StartStream, StreamChunk
<1>7. ASSUME NEW r, NEW outcome, Reply(r, outcome)
      PROVE  HitsFound
  BY <1>1, <1>7 DEF Reply
<1>8. ASSUME \/ \E k \in DOMAIN cache : Forget(k)
             \/ \E i \in index : ForgetItem(i)
             \/ UNCHANGED vars
      PROVE  HitsFound
  BY <1>1, <1>8 DEF Forget, ForgetItem, vars
<1>9. QED
  BY <1>2, <1>3, <1>4, <1>5, <1>6, <1>7, <1>8 DEF Next, HandlerStep, ProviderStep

-------------------------------------------------------------------------------
(* Hits and streams.                                                       *)

\* An entry answers the payload and the tenant of its key, from where the namespace
\* of the key says.
EntriesOwn ==
    \A k \in DOMAIN cache :
        /\ cache[k].payload = k.payload
        /\ cache[k].tenant = k.tenant
        /\ ComesFrom(k.namespace, cache[k])

\* What a request in a bucket was decided to be.
RoutedAs(context, payload) ==
    IF context.routed THEN [to |-> "fallback", model |-> Cheap] ELSE Passthrough(payload)

\* An item answers what its context says, from where a request routed as it would go.
ItemsOwn ==
    \A i \in index :
        /\ \A f \in {"id", "model", "temperature"} : i.context[f] = i.body.payload[f]
        /\ i.context.tenant = i.body.tenant
        /\ ComesFrom(RoutedAs(i.context, i.body.payload), i.body)

\* Only requests that may have a semantic hit are encoded.
EncodesEligible ==
    \A r \in Slots : pc[r] = "encoding" => SemanticEligible(req[r], cfg)

OriginInv == EntriesOwn /\ ItemsOwn /\ EncodesEligible /\ HitsAreOwn /\ SemanticHitsAreOwn

LEMMA DecisionOfContext ==
    ASSUME NEW r
    PROVE  Decision(r) = RoutedAs(Context(req[r], cfg), req[r].payload)
BY DEF Decision, Route, RoutedAs, Context, Passthrough

LEMMA SameOrigin ==
    ASSUME NEW d, NEW body, cfg' = cfg, ComesFrom(d, body)
    PROVE  ComesFrom(d, body)'
BY DEF ComesFrom, FailoverOf

LEMMA EntriesStep ==
    ASSUME TypeOK, PlaceInv, WireInv, EntriesOwn, CachesGrow
    PROVE  EntriesOwn'
<1> SUFFICES ASSUME NEW k \in DOMAIN cache'
             PROVE  /\ cache'[k].payload = k.payload
                    /\ cache'[k].tenant = k.tenant
                    /\ ComesFrom(k.namespace, cache[k])'
  BY DEF EntriesOwn
<1>1. CASE k \in DOMAIN cache /\ cache'[k] = cache[k]
  BY <1>1, SameOrigin DEF EntriesOwn, CachesGrow, ComesFrom, FailoverOf
<1>2. ASSUME NEW r \in Slots, NEW whole \in BOOLEAN, Storable(r, whole),
             k = Key(req[r], cfg), cache'[k] = BodyOf(r, whole)
      PROVE  /\ cache'[k].payload = k.payload
             /\ cache'[k].tenant = k.tenant
             /\ ComesFrom(k.namespace, cache[k])'
  <2>1. ComesFrom(Decision(r), BodyOf(r, whole))
    BY <1>2, BodyComesFrom DEF Storable
  <2>2. k.namespace = Decision(r)
    BY <1>2 DEF Key, Decision
  <2>3. ComesFrom(k.namespace, cache[k])'
    BY <1>2, <2>1, <2>2 DEF CachesGrow, ComesFrom, FailoverOf
  <2>4. QED
    BY <1>2, <2>3 DEF Key, BodyOf
<1>3. QED
  BY <1>1, <1>2 DEF CachesGrow

LEMMA ItemsStep ==
    ASSUME TypeOK, PlaceInv, WireInv, ItemsOwn, CachesGrow
    PROVE  ItemsOwn'
<1> SUFFICES ASSUME NEW i \in index'
             PROVE  /\ \A f \in {"id", "model", "temperature"} : i.context[f] = i.body.payload[f]
                    /\ i.context.tenant = i.body.tenant
                    /\ ComesFrom(RoutedAs(i.context, i.body.payload), i.body)'
  BY DEF ItemsOwn, RoutedAs, Passthrough
<1>1. CASE i \in index
  BY <1>1, SameOrigin DEF ItemsOwn, CachesGrow
<1>2. ASSUME NEW r \in Slots, NEW whole \in BOOLEAN, Storable(r, whole), i = ItemOf(r, whole)
      PROVE  /\ \A f \in {"id", "model", "temperature"} : i.context[f] = i.body.payload[f]
             /\ i.context.tenant = i.body.tenant
             /\ ComesFrom(RoutedAs(i.context, i.body.payload), i.body)'
  <2>1. ComesFrom(Decision(r), BodyOf(r, whole))
    BY <1>2, BodyComesFrom DEF Storable
  <2>2. i.context = Context(req[r], cfg) /\ i.body = BodyOf(r, whole)
    BY <1>2 DEF ItemOf
  <2>3. i.body.payload = req[r].payload /\ i.body.tenant = req[r].tenant
    BY <2>2 DEF BodyOf
  <2>4. Decision(r) = RoutedAs(i.context, i.body.payload)
    BY <2>2, <2>3, DecisionOfContext
  <2>5. QED
    BY <2>1, <2>2, <2>3, <2>4, SameOrigin DEF Context, CachesGrow
<1>3. QED
  BY <1>1, <1>2 DEF CachesGrow

LEMMA EncodesStep ==
    ASSUME TypeOK, EncodesEligible, [Next]_vars
    PROVE  EncodesEligible'
<1> USE DEF TypeOK, EncodesEligible
<1>1. ASSUME NEW r \in Slots, NEW q \in Inputs, Arrive(r, q)
      PROVE  EncodesEligible'
  BY <1>1 DEF Arrive
<1>2. ASSUME NEW r \in Slots, HandlerStep(r)
      PROVE  EncodesEligible'
  BY <1>2 DEF HandlerStep, LookupHit, LookupMiss, Encode, EncodeFails, SemanticHit,
     SemanticMiss, Send, Failover, AnswerError, StartStream
<1>3. ASSUME NEW r \in Slots, ProviderStep(r) \/ StreamChunk(r) \/ Disconnect(r)
      PROVE  EncodesEligible'
  BY <1>3 DEF ProviderStep, Reply, AnswerWhole, StreamEnd, Finish, StreamChunk, Disconnect
<1>4. ASSUME \/ \E k \in DOMAIN cache : Forget(k)
             \/ \E i \in index : ForgetItem(i)
             \/ UNCHANGED vars
      PROVE  EncodesEligible'
  BY <1>4 DEF Forget, ForgetItem, vars
<1>5. QED
  BY <1>1, <1>2, <1>3, <1>4 DEF Next

LEMMA HitsStep ==
    ASSUME EntriesOwn, HitsAreOwn, HitsFound, cfg' = cfg
    PROVE  HitsAreOwn'
<1> SUFFICES ASSUME NEW r \in Slots, answer'[r].kind = "hit"
             PROVE  /\ answer'[r].body.payload = req'[r].payload
                    /\ answer'[r].body.tenant = req'[r].tenant
                    /\ MayComeFrom(r, answer[r].body)'
  BY DEF HitsAreOwn
<1>1. req'[r] = req[r]
  BY DEF HitsFound
<1>2. CASE answer'[r] = answer[r]
  BY <1>1, <1>2, SameDecision DEF HitsAreOwn, MayComeFrom
<1>3. ASSUME NEW k \in HitKeys(r), answer'[r].body = cache[k]
      PROVE  /\ answer'[r].body.payload = req'[r].payload
             /\ answer'[r].body.tenant = req'[r].tenant
             /\ MayComeFrom(r, answer[r].body)'
  <2>1. k \in DOMAIN cache /\ k = Key(req[r], cfg)
    BY DEF HitKeys
  <2>2. ComesFrom(Decision(r), cache[k])
    BY <2>1 DEF EntriesOwn, Key, Decision
  <2>3. MayComeFrom(r, answer[r].body)'
    BY <1>1, <1>3, <2>2, SameDecision, MayComeFromDecision DEF MayComeFrom
  <2>4. QED
    BY <1>1, <1>3, <2>1, <2>3 DEF EntriesOwn, Key
<1>4. QED
  BY <1>2, <1>3 DEF HitsFound

LEMMA SemanticHitsStep ==
    ASSUME ItemsOwn, EncodesEligible, SemanticHitsAreOwn, HitsFound, cfg' = cfg
    PROVE  SemanticHitsAreOwn'
<1> DEFINE Own(r) ==
               /\ \A f \in {"id", "model", "temperature"} :
                     answer[r].body.payload[f] = req[r].payload[f]
               /\ answer[r].body.tenant = req[r].tenant
               /\ MayComeFrom(r, answer[r].body)
               /\ ~req[r].no_semantic_cache
<1> SUFFICES ASSUME NEW r \in Slots, answer'[r].kind = "similar"
             PROVE  Own(r)'
  BY DEF SemanticHitsAreOwn
<1>1. req'[r] = req[r]
  BY DEF HitsFound
<1>2. CASE answer'[r] = answer[r]
  BY <1>1, <1>2, SameDecision DEF SemanticHitsAreOwn, MayComeFrom
<1>3. ASSUME NEW i \in Bucket(r), pc[r] = "encoding", answer'[r].body = i.body
      PROVE  Own(r)'
  <2>1. i \in index /\ i.context = Context(req[r], cfg)
    BY DEF Bucket
  <2>2. /\ \A f \in {"id", "model", "temperature"} : i.body.payload[f] = req[r].payload[f]
        /\ i.body.tenant = req[r].tenant
    BY <2>1 DEF ItemsOwn, Context
  <2>3. RoutedAs(i.context, i.body.payload) = Decision(r)
    BY <2>1, <2>2, DecisionOfContext DEF RoutedAs, Passthrough
  <2>4. ComesFrom(Decision(r), i.body)
    BY <2>1, <2>3 DEF ItemsOwn
  <2>5. MayComeFrom(r, answer[r].body)'
    BY <1>1, <1>3, <2>4, SameDecision, MayComeFromDecision DEF MayComeFrom
  <2>6. ~req[r].no_semantic_cache
    BY <1>3 DEF EncodesEligible, SemanticEligible
  <2>7. QED
    BY <1>1, <1>3, <2>2, <2>5, <2>6
<1>4. QED
  BY <1>2, <1>3 DEF HitsFound

LEMMA OriginHolds == Spec => []OriginInv
<1>1. Init => OriginInv
  BY DEF Init, OriginInv, EntriesOwn, ItemsOwn, EncodesEligible, HitsAreOwn,
     SemanticHitsAreOwn, Unanswered
<1>2. TypeOK /\ PlaceInv /\ WireInv /\ OriginInv /\ [Next]_vars => OriginInv'
  BY StepGrows, StepFinds, EntriesStep, ItemsStep, EncodesStep, HitsStep, SemanticHitsStep
     DEF OriginInv, CachesGrow
<1>3. QED
  BY <1>1, <1>2, WireHolds, PTL DEF Spec

\* Whatever the caches hold and however requests interleave, an exact hit is an answer
\* given to the same tenant for the same payload, by where this request would have been
\* sent, or failed over to (cache_key_hash).
THEOREM HitsOwn == Spec => []HitsAreOwn
BY OriginHolds, PTL DEF OriginInv

\* A semantic hit never crosses tenants, models, temperatures or conversations, comes
\* from where this request might have gone, and never answers one that opted out
\* (build_context_key).
THEOREM SemanticHitsOwn == Spec => []SemanticHitsAreOwn
BY OriginHolds, PTL DEF OriginInv

\* Neither an error in a stream nor a client that goes away leaves part of an answer in
\* a cache, and no failure is cached.
THEOREM StreamsWhole == Spec => []StreamsCachedWhole
<1>1. Init => StreamsCachedWhole
  BY DEF Init, StreamsCachedWhole
<1>2. TypeOK /\ PlaceInv /\ StreamsCachedWhole /\ [Next]_vars => StreamsCachedWhole'
  <2> SUFFICES ASSUME TypeOK, PlaceInv, StreamsCachedWhole, [Next]_vars
               PROVE  StreamsCachedWhole'
    OBVIOUS
  <2>1. \A r \in Slots, whole \in BOOLEAN : Storable(r, whole) =>
           /\ BodyOf(r, whole).status = "success"
           /\ BodyOf(r, whole).payload.stream => BodyOf(r, whole).whole
    BY DEF Storable, BodyOf, Success
  <2>2. QED
    BY <2>1, StepGrows DEF CachesGrow, StreamsCachedWhole, ItemOf
<1>3. QED
  BY <1>1, <1>2, TypeCorrect, PTL DEF Spec

-------------------------------------------------------------------------------
(* The books.                                                              *)

\* The counters a request has been counted under.
CountedAs(r, n) ==
    /\ pc[r] # "idle"
    /\ \/ n = "routed_fallback" /\ Decision(r).to = "fallback"
       \/ n = "routed_passthrough" /\ Decision(r).to # "fallback"
       \/ n = "exact_hits" /\ answer[r].kind = "hit"
       \/ n = "semantic_hits" /\ answer[r].kind = "similar"
       \/ n = "misses" /\ wire[r] # <<>>
       \/ n = "upstream_errors" /\ answer[r].kind = "error"
       \/ n = "reactive_failovers" /\ Len(wire[r]) = 2
       \/ n = "cache_inserts_exact" /\ answer[r].kind = "miss" /\ Stored(r)
       \/ /\ n = "cache_inserts_semantic"
          /\ answer[r].kind = "miss"
          /\ Stored(r)
          /\ SemanticEligible(req[r], cfg)

Arrived == {r \in Slots : pc[r] # "idle"}

Share(t, n) == {r \in Slots : req[r].tenant = t /\ CountedAs(r, n)}

\* A counter of a tenant is the number of its requests that were counted under it.
BooksInv ==
    /\ IsFiniteSet(Arrived)
    /\ \A t \in Tenants, n \in Counters : counts[t][n] = Cardinality(Share(t, n))

LEMMA ShareFinite ==
    ASSUME BooksInv, NEW t, NEW n
    PROVE  IsFiniteSet(Share(t, n))
<1>1. Share(t, n) \subseteq Arrived
  BY DEF Share, Arrived, CountedAs
<1>2. QED
  BY <1>1, FS_Subset DEF BooksInv

\* A step counts r, and no other request, under names it was not counted under before.
CountsAs(r, names) ==
    /\ \A s \in Slots \ {r} :
          /\ req'[s] = req[s]
          /\ pc'[s] = "idle" <=> pc[s] = "idle"
          /\ \A n \in Counters : CountedAs(s, n)' <=> CountedAs(s, n)
    /\ pc[r] # "idle" => req'[r] = req[r]
    /\ pc'[r] # "idle"
    /\ \A n \in Counters :
          /\ CountedAs(r, n)' <=> CountedAs(r, n) \/ n \in names
          /\ n \in names => ~CountedAs(r, n)
    /\ \A t \in Tenants, n \in Counters :
          counts'[t][n] = IF t = req'[r].tenant /\ n \in names
                          THEN counts[t][n] + 1 ELSE counts[t][n]

LEMMA CountBalances ==
    ASSUME BooksInv, NEW r \in Slots, NEW names, CountsAs(r, names)
    PROVE  BooksInv'
<1>1. IsFiniteSet(Arrived')
  <2>1. Arrived' = Arrived \cup {r}
    BY DEF Arrived, CountsAs
  <2>2. QED
    BY <2>1, FS_AddElement DEF BooksInv
<1>2. ASSUME NEW t \in Tenants, NEW n \in Counters
      PROVE  counts'[t][n] = Cardinality(Share(t, n)')
  <2>1. r \in Share(t, n) => req'[r] = req[r]
    BY DEF Share, CountedAs, CountsAs
  <2>2. CASE t = req'[r].tenant /\ n \in names
    <3>1. Share(t, n)' = Share(t, n) \cup {r} /\ r \notin Share(t, n)
      BY <2>1, <2>2 DEF Share, CountsAs
    <3>2. Cardinality(Share(t, n)') = Cardinality(Share(t, n)) + 1
      BY <3>1, ShareFinite, FS_AddElement
    <3>3. QED
      BY <2>2, <3>2 DEF BooksInv, CountsAs
  <2>3. CASE ~(t = req'[r].tenant /\ n \in names)
    <3>1. r \in Share(t, n)' <=> r \in Share(t, n)
      BY <2>1, <2>3 DEF Share, CountsAs, CountedAs
    <3>2. Share(t, n)' = Share(t, n)
      BY <3>1 DEF Share, CountsAs
    <3>3. QED
      BY <2>3, <3>2 DEF BooksInv, CountsAs
  <2>4. QED
    BY <2>2, <2>3
<1>3. QED
  BY <1>1, <1>2 DEF BooksInv

\* What a request is counted under depends on its own state.
LEMMA SameCounted ==
    ASSUME NEW r, cfg' = cfg, req'[r] = req[r], pc'[r] = pc[r], wire'[r] = wire[r],
           reply'[r] = reply[r], stream'[r] = stream[r], answer'[r] = answer[r]
    PROVE  \A n : CountedAs(r, n)' <=> CountedAs(r, n)
BY SameDecision DEF CountedAs, Stored, Success

\* A step of one request leaves the others alone.
OthersKept(r) ==
    /\ cfg' = cfg
    /\ \A s \in Slots \ {r} :
          /\ req'[s] = req[s] /\ pc'[s] = pc[s] /\ wire'[s] = wire[s]
          /\ reply'[s] = reply[s] /\ stream'[s] = stream[s] /\ answer'[s] = answer[s]

LEMMA CountsOne ==
    ASSUME TypeOK, NEW r \in Slots, NEW names, OthersKept(r),
           Count(names, req'[r].tenant) \/ (names = {} /\ counts' = counts),
           req'[r] \in Inputs,
           pc[r] # "idle" => req'[r] = req[r], pc'[r] # "idle",
           \A n \in Counters :
              /\ CountedAs(r, n)' <=> CountedAs(r, n) \/ n \in names
              /\ n \in names => ~CountedAs(r, n)
    PROVE  CountsAs(r, names)
<1>1. \A s \in Slots \ {r} : \A n \in Counters : CountedAs(s, n)' <=> CountedAs(s, n)
  BY SameCounted DEF OthersKept
<1>2. ASSUME NEW t \in Tenants, NEW n \in Counters
      PROVE  counts'[t][n] = IF t = req'[r].tenant /\ n \in names
                             THEN counts[t][n] + 1 ELSE counts[t][n]
  <2>1. CASE Count(names, req'[r].tenant)
    <3>1. counts'[t] = [counts EXCEPT ![req'[r].tenant] =
                           [m \in Counters |-> IF m \in names THEN @[m] + 1 ELSE @[m]]][t]
      BY <2>1 DEF Count
    <3>2. QED
      BY <3>1 DEF TypeOK
  <2>2. QED
    BY <2>1
<1>3. QED
  BY <1>1, <1>2 DEF CountsAs, OthersKept

\* What each kind of step counts.
LEMMA ArriveCounts ==
    ASSUME TypeOK, PlaceInv, BooksInv, NEW r \in Slots, NEW q \in Inputs, Arrive(r, q)
    PROVE  BooksInv'
<1> DEFINE names == {IF Route(q, cfg).to = "fallback" THEN "routed_fallback"
                     ELSE "routed_passthrough"}
<1>1. OthersKept(r) /\ req'[r] = q /\ pc'[r] = "lookup" /\ pc[r] = "idle"
  BY DEF Arrive, TypeOK, OthersKept
<1>2. Decision(r)' = Route(q, cfg)
  BY <1>1 DEF Decision, OthersKept
<1>3. answer'[r].kind = "none" /\ wire'[r] = <<>> /\ Len(wire'[r]) # 2
  <2>1. answer' = answer /\ wire' = wire
    BY DEF Arrive
  <2>2. answer[r].kind = "none" /\ wire[r] = <<>>
    BY <1>1 DEF TypeOK, PlaceInv, Unanswered
  <2>3. QED
    BY <2>1, <2>2
<1>4. \A n \in Counters : ~CountedAs(r, n) /\ (CountedAs(r, n)' <=> n \in names)
  BY <1>1, <1>2, <1>3 DEF CountedAs, Counters
<1>5. Count(names, req'[r].tenant)
  BY <1>1 DEF Arrive
<1>6. QED
  BY <1>1, <1>4, <1>5, CountsOne, CountBalances

LEMMA HitCounts ==
    ASSUME TypeOK, PlaceInv, BooksInv, NEW r \in Slots, NEW name, NEW kind,
           \/ LookupHit(r) /\ name = "exact_hits" /\ kind = "hit"
           \/ SemanticHit(r) /\ name = "semantic_hits" /\ kind = "similar"
    PROVE  BooksInv'
<1>1. /\ OthersKept(r) /\ req' = req /\ wire' = wire /\ pc'[r] = "done"
      /\ pc[r] # "idle" /\ pc[r] # "done" /\ answer'[r].kind = kind
      /\ Count({name}, req[r].tenant)
  <2>1. CASE LookupHit(r) /\ name = "exact_hits" /\ kind = "hit"
    BY <2>1 DEF LookupHit, TypeOK, OthersKept
  <2>2. CASE SemanticHit(r) /\ name = "semantic_hits" /\ kind = "similar"
    BY <2>2 DEF SemanticHit, TypeOK, OthersKept
  <2>3. QED
    BY <2>1, <2>2
<1>2. answer[r].kind = "none" /\ Decision(r)' = Decision(r)
  BY <1>1, SameDecision DEF TypeOK, Unanswered, OthersKept
<1>3. \A n \in Counters :
         /\ CountedAs(r, n)' <=> CountedAs(r, n) \/ n = name
         /\ n = name => ~CountedAs(r, n)
  BY <1>1, <1>2 DEF CountedAs
<1>4. req'[r] \in Inputs
  BY <1>1 DEF TypeOK
<1>5. QED
  BY <1>1, <1>3, <1>4, CountsOne, CountBalances

LEMMA SendCounts ==
    ASSUME TypeOK, PlaceInv, BooksInv, NEW r \in Slots, pc[r] \in {"lookup", "encoding"}, Send(r)
    PROVE  BooksInv'
<1>1. /\ OthersKept(r) /\ req' = req /\ pc'[r] = "waiting" /\ answer' = answer
      /\ Count({"misses"}, req[r].tenant) /\ req'[r] \in Inputs
  BY DEF Send, TypeOK, OthersKept
<1>2. answer[r].kind = "none" /\ Decision(r)' = Decision(r)
  BY <1>1, SameDecision DEF TypeOK, Unanswered, OthersKept
<1>3. /\ wire[r] = <<>> /\ Len(wire[r]) # 2
      /\ wire'[r] # <<>> /\ Len(wire'[r]) # 2
  <2>1. wire'[r] = <<Dispatch(Decision(r))>>
    BY DEF Send, TypeOK
  <2>2. wire[r] = <<>>
    BY DEF PlaceInv
  <2>3. QED
    BY <2>1, <2>2
<1>4. \A n \in Counters :
         /\ CountedAs(r, n)' <=> CountedAs(r, n) \/ n = "misses"
         /\ n = "misses" => ~CountedAs(r, n)
  BY <1>1, <1>2, <1>3 DEF CountedAs
<1>5. QED
  BY <1>1, <1>4, CountsOne, CountBalances

LEMMA FailoverCounts ==
    ASSUME TypeOK, PlaceInv, BooksInv, NEW r \in Slots, Failover(r)
    PROVE  BooksInv'
<1>1. /\ OthersKept(r) /\ req' = req /\ pc'[r] = "waiting" /\ answer' = answer
      /\ pc[r] = "replied"
      /\ Count({"reactive_failovers"}, req[r].tenant) /\ req'[r] \in Inputs
  BY DEF Failover, Relabel, TypeOK, OthersKept
<1>2. answer[r].kind = "none" /\ Decision(r)' = Decision(r)
  BY <1>1, SameDecision DEF TypeOK, Unanswered, OthersKept
<1>3. /\ wire[r] # <<>> /\ Len(wire[r]) # 2
      /\ wire'[r] # <<>> /\ Len(wire'[r]) = 2
  <2>1. wire'[r] = Append(wire[r], Dispatch(FailoverTo(r)))
    BY DEF Failover, TypeOK
  <2>2. Len(wire[r]) = 1 /\ wire[r] \in Seq(Dispatches) /\ wire[r] # <<>>
    BY DEF Failover, FailsOver, TypeOK, PlaceInv
  <2>3. Dispatch(FailoverTo(r)) \in Dispatches
    BY FailoverType, DispatchType
  <2>4. QED
    BY <2>1, <2>2, <2>3
<1>4. \A n \in Counters :
         /\ CountedAs(r, n)' <=> CountedAs(r, n) \/ n = "reactive_failovers"
         /\ n = "reactive_failovers" => ~CountedAs(r, n)
  BY <1>1, <1>2, <1>3 DEF CountedAs
<1>5. QED
  BY <1>1, <1>4, CountsOne, CountBalances

LEMMA AnswerErrorCounts ==
    ASSUME TypeOK, PlaceInv, BooksInv, NEW r \in Slots, AnswerError(r)
    PROVE  BooksInv'
<1>1. /\ OthersKept(r) /\ req' = req /\ pc'[r] = "done" /\ wire' = wire
      /\ pc[r] = "replied" /\ answer'[r].kind = "error"
      /\ Count({"upstream_errors"}, req[r].tenant) /\ req'[r] \in Inputs
  BY DEF AnswerError, TypeOK, OthersKept
<1>2. answer[r].kind = "none" /\ Decision(r)' = Decision(r)
  BY <1>1, SameDecision DEF TypeOK, Unanswered, OthersKept
<1>3. \A n \in Counters :
         /\ CountedAs(r, n)' <=> CountedAs(r, n) \/ n = "upstream_errors"
         /\ n = "upstream_errors" => ~CountedAs(r, n)
  BY <1>1, <1>2 DEF CountedAs
<1>4. QED
  BY <1>1, <1>3, CountsOne, CountBalances

\* The end of a miss: the inserts are counted if they are made, and they are made if
\* the response may be stored.
LEMMA FinishCounts ==
    ASSUME TypeOK, PlaceInv, BooksInv, NEW r \in Slots, NEW body, NEW stores,
           pc[r] \in {"replied", "streaming"}, stores <=> Stored(r),
           Store(r, body, stores), Finish(r, body),
           UNCHANGED <<cfg, req, wire, reply, stream>>
    PROVE  BooksInv'
<1> DEFINE names == IF stores THEN Inserts(r) ELSE {}
<1>1. /\ OthersKept(r) /\ req' = req /\ pc'[r] = "done" /\ wire' = wire
      /\ answer'[r].kind = "miss" /\ req'[r] \in Inputs
  BY DEF Finish, TypeOK, OthersKept
<1>2. answer[r].kind = "none" /\ Decision(r)' = Decision(r)
  BY <1>1, SameDecision DEF TypeOK, Unanswered, OthersKept
<1>3. (Stored(r)' <=> stores) /\ SemanticEligible(req[r], cfg)' = SemanticEligible(req[r], cfg)
  BY DEF Stored, Success
<1>4. \A n \in Counters :
         /\ CountedAs(r, n)' <=> CountedAs(r, n) \/ n \in names
         /\ n \in names => ~CountedAs(r, n)
  BY <1>1, <1>2, <1>3 DEF CountedAs, Inserts
<1>5. Count(names, req'[r].tenant) \/ (names = {} /\ counts' = counts)
  BY <1>1 DEF Store
<1>6. QED
  BY <1>1, <1>4, <1>5, CountsOne, CountBalances

\* Steps that count nothing: none of them ends a miss.
LEMMA OthersCount ==
    ASSUME TypeOK, PlaceInv, BooksInv, NEW r \in Slots,
           \/ Encode(r) \/ EncodeFails(r) \/ StartStream(r) \/ StreamChunk(r) \/ Disconnect(r)
           \/ \E outcome \in Statuses \cup {"error"} : Reply(r, outcome)
    PROVE  BooksInv'
<1>1. /\ OthersKept(r) /\ req' = req /\ pc'[r] # "idle" /\ pc[r] # "idle" /\ wire' = wire
      /\ counts' = counts /\ pc[r] # "done" /\ req'[r] \in Inputs
      /\ answer'[r].kind \in {"none", "failed", "dropped"}
  <2>1. answer[r].kind = "none" \/ pc[r] = "done"
    BY DEF TypeOK, Unanswered
  <2>2. QED
    BY <2>1 DEF Encode, EncodeFails, StartStream, Responds, StreamChunk, Disconnect, Reply,
       TypeOK, OthersKept
<1>2. answer[r].kind = "none" /\ Decision(r)' = Decision(r)
  BY <1>1, SameDecision DEF TypeOK, Unanswered, OthersKept
<1>3. \A n \in Counters : CountedAs(r, n)' <=> CountedAs(r, n)
  BY <1>1, <1>2 DEF CountedAs
<1>4. CountsAs(r, {})
  BY <1>1, <1>3, CountsOne
<1>5. QED
  BY <1>4, CountBalances

LEMMA BooksStep ==
    ASSUME TypeOK, PlaceInv, BooksInv, [Next]_vars
    PROVE  BooksInv'
<1>1. ASSUME NEW r \in Slots, LookupMiss(r) \/ SemanticMiss(r)
      PROVE  BooksInv'
  BY <1>1, SendCounts DEF LookupMiss, SemanticMiss
<1>2. ASSUME NEW r \in Slots, AnswerWhole(r)
      PROVE  BooksInv'
  <2>1. PICK whole \in BOOLEAN :
           /\ Store(r, BodyOf(r, whole), Success(r) /\ Eligible(req[r].payload))
           /\ Finish(r, BodyOf(r, whole))
    BY <1>2 DEF AnswerWhole
  <2> DEFINE stores == Success(r) /\ Eligible(req[r].payload)
  <2>2. (stores <=> Stored(r)) /\ pc[r] = "replied"
    BY <1>2 DEF Stored, AnswerWhole, Responds
  <2>3. UNCHANGED <<cfg, req, wire, reply, stream>>
    BY <1>2 DEF AnswerWhole
  <2>4. Store(r, BodyOf(r, whole), stores)
    BY <2>1
  <2> HIDE DEF stores
  <2>5. QED
    BY <2>1, <2>2, <2>3, <2>4, FinishCounts
<1>3. ASSUME NEW r \in Slots, StreamEnd(r)
      PROVE  BooksInv'
  <2> DEFINE stores == StreamStores(r)
             body == BodyOf(r, "error" \notin stream[r])
  <2>1. stream[r] \in SUBSET {"bytes", "error"}
    BY DEF TypeOK
  <2>2. pc[r] = "streaming" /\ req[r].payload.stream
    BY <1>3 DEF StreamEnd, PlaceInv
  <2>3. stores <=> Stored(r)
    BY <2>1, <2>2 DEF Stored, StreamStores
  <2>4. Store(r, body, stores) /\ Finish(r, body) /\ UNCHANGED <<cfg, req, wire, reply, stream>>
    BY <1>3 DEF StreamEnd
  <2> HIDE DEF stores, body
  <2>5. QED
    BY <2>2, <2>3, <2>4, FinishCounts
<1>4. ASSUME UNCHANGED <<cfg, pc, req, wire, reply, stream, answer, counts>>
      PROVE  BooksInv'
  <2>1. \A r \in Slots : \A n : CountedAs(r, n)' <=> CountedAs(r, n)
    BY <1>4, SameCounted
  <2>2. Arrived' = Arrived /\ \A t, n : Share(t, n)' = Share(t, n)
    BY <1>4, <2>1 DEF Arrived, Share
  <2>3. QED
    BY <1>4, <2>2 DEF BooksInv
<1>5. ASSUME \/ \E k \in DOMAIN cache : Forget(k)
             \/ \E i \in index : ForgetItem(i)
             \/ UNCHANGED vars
      PROVE  BooksInv'
  BY <1>4, <1>5 DEF Forget, ForgetItem, vars
<1>6. QED
  BY <1>1, <1>2, <1>3, <1>5, ArriveCounts, HitCounts, FailoverCounts, AnswerErrorCounts,
     OthersCount DEF Next, HandlerStep, ProviderStep

LEMMA BooksHold == Spec => [](TypeOK /\ PlaceInv /\ BooksInv)
<1>1. Init => BooksInv
  <2> SUFFICES ASSUME Init PROVE BooksInv
    OBVIOUS
  <2>1. Arrived = {} /\ \A t, n : Share(t, n) = {}
    BY DEF Init, Arrived, Share, CountedAs
  <2>2. QED
    BY <2>1, FS_EmptySet DEF Init, BooksInv
<1>2. TypeOK /\ PlaceInv /\ BooksInv /\ [Next]_vars => BooksInv'
  BY BooksStep
<1>3. QED
  BY <1>1, <1>2, TypeCorrect, PTL DEF Spec

\* The counters of every tenant account for its requests, whatever ends they came to:
\* none is lost, none counted twice, and none counted for somebody else.
THEOREM BooksAreBalanced == Spec => []BooksBalance
<1>1. TypeOK /\ PlaceInv /\ BooksInv => BooksBalance
  <2> SUFFICES ASSUME TypeOK, PlaceInv, BooksInv, NEW t \in Tenants
               PROVE  LET arrived == {r \in Slots : pc[r] # "idle" /\ req[r].tenant = t}
                          n == counts[t]
                      IN  /\ n.routed_fallback + n.routed_passthrough = Cardinality(arrived)
                          /\ n.exact_hits = Cardinality(Answered(t, "hit"))
                          /\ n.semantic_hits = Cardinality(Answered(t, "similar"))
                          /\ n.misses = Cardinality({r \in arrived : wire[r] # <<>>})
                          /\ n.reactive_failovers =
                                Cardinality({r \in arrived : Len(wire[r]) = 2})
                          /\ n.upstream_errors = Cardinality(Answered(t, "error"))
                          /\ n.cache_inserts_exact =
                                Cardinality({r \in Answered(t, "miss") : Stored(r)})
                          /\ n.cache_inserts_semantic =
                                Cardinality({r \in Answered(t, "miss") :
                                                Stored(r) /\ SemanticEligible(req[r], cfg)})
    BY DEF BooksBalance
  <2> DEFINE arrived == {r \in Slots : pc[r] # "idle" /\ req[r].tenant = t}
  <2>1. \A n \in Counters : counts[t][n] = Cardinality(Share(t, n))
    BY DEF BooksInv
  <2>2. ASSUME NEW r \in Slots, answer[r].kind \in {"hit", "similar", "miss", "error"}
        PROVE  pc[r] = "done"
    BY <2>2 DEF TypeOK, Unanswered
  <2>3. counts[t].routed_fallback + counts[t].routed_passthrough = Cardinality(arrived)
    <3> DEFINE S == Share(t, "routed_fallback")
               T == Share(t, "routed_passthrough")
    <3>1. S \cup T = arrived /\ S \cap T = {}
      BY DEF Share, CountedAs
    <3>2. IsFiniteSet(S) /\ IsFiniteSet(T)
      BY ShareFinite
    <3>3. Cardinality(S) \in Nat /\ Cardinality(T) \in Nat
      BY <3>2, FS_CardinalityType
    <3>4. Cardinality(S \cup T) = Cardinality(S) + Cardinality(T) - Cardinality(S \cap T)
      BY <3>2, FS_Union
    <3>5. Cardinality(S \cap T) = 0
      BY <3>1, FS_EmptySet
    <3>6. counts[t].routed_fallback = Cardinality(S) /\ counts[t].routed_passthrough = Cardinality(T)
      BY <2>1 DEF Counters
    <3>7. Cardinality(arrived) = Cardinality(S \cup T)
      BY <3>1
    <3> HIDE DEF S, T, arrived
    <3>8. Cardinality(arrived) = Cardinality(S) + Cardinality(T)
      BY <3>3, <3>4, <3>5, <3>7
    <3>9. QED
      BY <3>6, <3>8
  <2>4. /\ Share(t, "exact_hits") = Answered(t, "hit")
        /\ Share(t, "semantic_hits") = Answered(t, "similar")
        /\ Share(t, "upstream_errors") = Answered(t, "error")
    BY <2>2 DEF Share, CountedAs, Answered
  <2>5. /\ Share(t, "misses") = {r \in arrived : wire[r] # <<>>}
        /\ Share(t, "reactive_failovers") = {r \in arrived : Len(wire[r]) = 2}
    BY DEF Share, CountedAs
  <2>6. /\ Share(t, "cache_inserts_exact") = {r \in Answered(t, "miss") : Stored(r)}
        /\ Share(t, "cache_inserts_semantic") =
               {r \in Answered(t, "miss") : Stored(r) /\ SemanticEligible(req[r], cfg)}
    BY <2>2 DEF Share, CountedAs, Answered
  <2>7. QED
    BY <2>1, <2>3, <2>4, <2>5, <2>6 DEF Counters
<1>2. QED
  BY <1>1, BooksHold, PTL

===============================================================================
