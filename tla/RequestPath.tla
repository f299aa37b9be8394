------------------------------ MODULE RequestPath ------------------------------
(***************************************************************************)
(* A chat request through the Smart Router (smart_router/main.py,          *)
(* _route_chat_body and _dispatch, with the control plane's hooks): the    *)
(* tier is decided, the session may raise it, policies, the key, the       *)
(* budget, the pipelines and the circuit breaker settle the model, the     *)
(* upstream is tried and retried, and the outcome is recorded.             *)
(*                                                                         *)
(* A step is what one turn of the event loop does without awaiting, but    *)
(* several replicas may share the control database: the record of an       *)
(* outcome is two steps, the event with the read of the model's row, and   *)
(* the write.                                                              *)
(***************************************************************************)
EXTENDS RouterPipeline, StickyRules

CONSTANTS
    Request,       \* requests in progress at the same time
    Kind,          \* the requests clients send; see KindOK
    Fragile,       \* the models whose provider may stop answering
    Modes,         \* what settings.mode may be: "observe", "route"
    TierModel,     \* tier -> its configured model
    ObserveModel,  \* settings.observe_model
    KeyTiers,      \* the tiers the virtual key allows
    Policies,      \* the enabled policies
    MonthlyLimit,  \* the budget that applies, in cost units; 0 is none
    CostOf,        \* tier -> what a priced answer costs
    NoSession      \* the value of a session that has no row

KindOK(k) ==
    /\ k.asked \in Tier \cup {"auto", "explicit"}
    /\ k.profile \in Profile \cup {"none"}
    /\ {k.session, k.stream, k.key} \subseteq BOOLEAN
    /\ DOMAIN k.limits \subseteq Field /\ k.limits \in [DOMAIN k.limits -> Nat]
    /\ k.asked = "explicit" => k.model \in Model

\* An empty set in `when' asks nothing, a cap of 0 caps nothing.
PolicyOK(p) == p.cap \in Nat /\ {"tiers", "profiles", "cues"} \subseteq DOMAIN p.when

ASSUME RequestAssumption ==
    /\ IsFiniteSet(Request)
    /\ \A k \in Kind : KindOK(k)
    /\ \A p \in Policies : PolicyOK(p)
    /\ Modes \subseteq {"observe", "route"}
    /\ TierModel \in [Tier -> Model] /\ ObserveModel \in Model
    /\ KeyTiers \subseteq Tier
    /\ MonthlyLimit \in Nat /\ CostOf \in [Tier -> Nat]

Alias == Tier \cup {"auto"}

VARIABLES
    mode,        \* settings.mode
    req,         \* request -> its local state
    session,     \* alias -> what the client's session sticks to
    spent,       \* this month's sum over the route events
    down         \* models whose provider has stopped answering

requestVars == <<mode, req, session, spent, down, health>>

Idle == [pc |-> "idle"]

Pc == {"idle", "sticky", "finalize", "sending", "save"}

RequestTypeOK ==
    /\ HealthTypeOK
    /\ mode \in Modes
    /\ \A r \in Request :
          /\ req[r].pc \in Pc
          /\ req[r].pc \in {"sticky", "finalize", "sending"} =>
                req[r].kind \in Kind /\ req[r].tier \in Tier
          /\ req[r].pc = "save" => req[r].model \in Model /\ req[r].update \in Update
          /\ req[r].pc = "sending" =>
                /\ req[r].tried \in Model /\ req[r].model \in Model
                /\ req[r].attempt \in 0 .. MaxRetries
                /\ req[r].fallbacks \in Seq(Model)
    /\ DOMAIN req = Request
    /\ session \in [Alias -> Stuck \cup {NoSession}]
    /\ spent \in Nat
    /\ down \subseteq Model

RequestInit ==
    /\ HealthInit
    /\ mode \in Modes
    /\ req = [r \in Request |-> Idle]
    /\ session = [a \in Alias |-> NoSession]
    /\ spent = 0
    /\ down = {}

-----------------------------------------------------------------------------
(* Arrival *)

\* A request for a model by name bypasses the routing: it is sent as it is and
\* never retried or recorded.
Explicit(k) ==
    [pc |-> "sending", kind |-> k, tier |-> "fast", model |-> k.model,
     tried |-> k.model, attempt |-> 0, retries |-> 0, fallbacks |-> <<>>,
     limits |-> k.limits, moved |-> FALSE]

\* A request that begin_request or decide refuses is answered in this same turn
\* and leaves nothing behind here, so only the others are steps.
Arrive(r) ==
    /\ req[r].pc = "idle"
    /\ \E k \in Kind :
          \/ /\ k.asked = "explicit"
             /\ req' = [req EXCEPT ![r] = Explicit(k)]
          \/ /\ k.asked # "explicit"
             /\ \E t \in Decisions(k.facts, k.asked) :
                   req' = [req EXCEPT ![r] =
                       [pc |-> IF mode = "route" /\ k.session THEN "sticky" ELSE "finalize",
                        kind |-> k, tier |-> t,
                        proposed |-> ProposedLimit(k.facts, t, k.limits)]]
    /\ UNCHANGED <<mode, session, spent, down, health>>

-----------------------------------------------------------------------------
(* The session *)

\* The tier the session gives, unless the request does not fit it.
StickyTier(stuck, k, proposed) == IF Fits(stuck, k.facts) THEN stuck ELSE proposed

\* The budget is proposed anew when the session changed the tier.
WithTier(q, t) ==
    [q EXCEPT !.pc = "finalize", !.tier = t,
              !.proposed = IF t = q.tier THEN @
                           ELSE ProposedLimit(q.kind.facts, t, q.kind.limits)]

ResolveSession(r) ==
    LET k == req[r].kind
        row == session[k.asked]
        stuck == IF row = NoSession THEN [tier |-> req[r].tier, lower |-> 0]
                 ELSE Turned(row.tier, row.lower, req[r].tier)
    IN  /\ req[r].pc = "sticky"
        /\ session' = [session EXCEPT ![k.asked] = stuck]
        /\ req' = [req EXCEPT ![r] = WithTier(@, StickyTier(stuck.tier, k, @.tier))]
        /\ UNCHANGED <<mode, spent, down, health>>

\* The store raised: the request goes on as one without a session.
SessionStoreFails(r) ==
    /\ req[r].pc = "sticky"
    /\ req' = [req EXCEPT ![r].pc = "finalize"]
    /\ UNCHANGED <<mode, session, spent, down, health>>

\* A session expires, or a client resets it.
SessionEnds(a) ==
    /\ session[a] # NoSession
    /\ session' = [session EXCEPT ![a] = NoSession]
    /\ UNCHANGED <<mode, req, spent, down, health>>

-----------------------------------------------------------------------------
(* The control plane's last word *)

\* _detect_profile
DetectedProfile(k, tier) ==
    IF k.profile # "none" THEN k.profile
    ELSE IF k.facts.vision THEN "vision"
    ELSE IF "code" \in k.facts.cues THEN "coding"
    ELSE tier

\* The policies that match, on the tier before any of them changed it.
Matching(k, tier, profile) ==
    {p \in Policies : WhenMatches(p.when, k.facts, tier, profile)}

PolicyDenies(k, tier, profile) == \E p \in Matching(k, tier, profile) : p.deny

ForcedTier(k, tier, profile) ==
    LET ranks == {Rank[tier]} \cup
                 {Rank[p.min] : p \in {q \in Matching(k, tier, profile) : q.min \in Tier}}
    IN  CHOOSE t \in Tier : Rank[t] = Max(ranks)

PolicyCaps(k, tier, profile) ==
    {p.cap : p \in {q \in Matching(k, tier, profile) : q.cap > 0}}

\* _cap_output lowers the first token field the body has.
Capped(limits, caps) ==
    IF caps = {} THEN limits
    ELSE LET field == IF "max_completion_tokens" \in DOMAIN limits
                      THEN "max_completion_tokens" ELSE "max_tokens"
         IN  IF field \in DOMAIN limits
             THEN [limits EXCEPT ![field] = Smaller(@, Min(caps))]
             ELSE [f \in {field} |-> Min(caps)]

\* A guard that lets the month end at its limit.
BudgetOverrun == MonthlyLimit > 0 /\ spent > MonthlyLimit

\* _budget_guard: what has been spent, not what is being spent.
BudgetExhausted == MonthlyLimit > 0 /\ spent >= MonthlyLimit

\* A key that names the tiers it may use is held to the tier a policy forced.
KeyAllows(k, tier) == k.key => tier \in KeyTiers

FallbackProfiles(profile, tier) ==
    IF profile \in {"coding", "vision", "strong"} \/ tier \in {"strong", "standard"}
    THEN <<"strong">> ELSE <<"standard", "strong">>

\* A profile that is disabled leaves the tier's configured model.
ModelOf(profile, tier) ==
    IF ProfileModel[profile] # NoModel THEN ProfileModel[profile] ELSE TierModel[tier]

\* Every order of the models by their latency average.
Latency == {f \in [Model -> 1 .. Cardinality(Model)] : \A m, n \in Model : f[m] = f[n] => m = n}

\* What the policies and the pipelines make of a request that is not refused:
\* tier, limits and, from the pipelines, model, retries, fallbacks and health.  History:
\* whether a stage of a pipeline chose another model.
Plans(q) ==
    LET k == q.kind
        profile == DetectedProfile(k, q.tier)
        tier == ForcedTier(k, q.tier, profile)
        forced == IF tier # q.tier /\ profile \notin {"vision", "coding"}
                  THEN tier ELSE profile
        limits == Capped(IF mode = "observe" THEN k.limits
                         ELSE Enforced(k.limits, q.proposed),
                         PolicyCaps(k, q.tier, profile))
        model == ModelOf(forced, tier)
        piped(latency) == Piped(forced, model, k.facts, tier, latency)
    IN  {[tier |-> tier, limits |-> limits, piped |-> piped(latency),
          moved |-> piped(latency).model # model] : latency \in Latency}

Refused(q) ==
    LET profile == DetectedProfile(q.kind, q.tier)
    IN  \/ PolicyDenies(q.kind, q.tier, profile)
        \/ ~KeyAllows(q.kind, ForcedTier(q.kind, q.tier, profile))
        \/ BudgetExhausted

\* The models of the profiles to fall back to, in order.
FallbackModels(w, tier) ==
    LET profiles == FallbackProfiles(w.profile, tier)
    IN  [i \in DOMAIN profiles |-> ModelOf(profiles[i], profiles[i])]

\* Where the first attempt goes: nowhere when every circuit is open.
FirstModel(w, tier) ==
    LET models == FallbackModels(w, tier)
        open == {i \in DOMAIN models : models[i] # w.model /\ ~Refuses(w.health[models[i]])}
    IN  IF ~Refuses(w.health[w.model]) THEN {w.model}
        ELSE IF open = {} THEN {} ELSE {models[Min(open)]}

Sending(q, plan, model, retries, fallbacks) ==
    [pc |-> "sending", kind |-> q.kind, tier |-> plan.tier, model |-> model,
     tried |-> model, attempt |-> 0, retries |-> retries,
     fallbacks |-> fallbacks, limits |-> plan.limits, moved |-> plan.moved]

\* In observe mode the pipelines are not asked, yet a tier that a policy forced
\* takes its model with it.
ObservedModel(forced, proposed) ==
    IF forced = proposed THEN ObserveModel ELSE TierModel[forced]

\* finalize_routing and the first attempt, sent in the same turn.  A request that
\* is refused is answered, and its record here is gone.
Finalize(r) ==
    /\ req[r].pc = "finalize"
    /\ \/ /\ Refused(req[r])
          /\ req' = [req EXCEPT ![r] = Idle]
          /\ UNCHANGED health
       \/ /\ ~Refused(req[r])
          /\ mode = "observe"
          /\ \E plan \in Plans(req[r]) :
                req' = [req EXCEPT ![r] =
                    Sending(@, plan, ObservedModel(plan.tier, @.tier), 0, <<>>)]
          /\ UNCHANGED health
       \/ /\ ~Refused(req[r])
          /\ mode = "route"
          /\ \E plan \in Plans(req[r]) :
                LET w == plan.piped
                    first == FirstModel(w, plan.tier)
                IN  /\ health' = Asked(w.health, first)
                    /\ \/ first = {} /\ req' = [req EXCEPT ![r] = Idle]
                       \/ \E m \in first :
                             req' = [req EXCEPT ![r] =
                                 Sending(@, plan, m, w.retries, w.fallbacks)]
    /\ UNCHANGED <<mode, session, spent, down>>

-----------------------------------------------------------------------------
(* The upstream *)

\* What a model may answer: a provider that is down times out, is overloaded or
\* cannot be reached; one that is up may be overloaded too.
Answers(m) ==
    IF m \in down THEN {"overloaded", "unreachable"}
    ELSE {"ok", "client_error", "overloaded"}

\* The condition of _dispatch's loop.
Retries(q, status) ==
    /\ ~q.kind.stream
    /\ status = "overloaded"
    /\ q.attempt < q.retries

\* A loop that starts over with the first model when the fallbacks have run out.
StartOver(q) ==
    IF q.attempt + 1 <= Len(q.fallbacks)
    THEN [q EXCEPT !.attempt = @ + 1, !.tried = q.fallbacks[q.attempt + 1]]
    ELSE [q EXCEPT !.attempt = 0, !.tried = q.model]

\* The attempt after the i-th goes to the i-th fallback; when the list has run
\* out, to the model of the attempt before.
NextAttempt(q) ==
    [q EXCEPT !.attempt = @ + 1,
              !.tried = IF q.attempt + 1 <= Len(q.fallbacks)
                        THEN q.fallbacks[q.attempt + 1] ELSE @]

\* What an answer costs: a streamed one has no usage to read, and the upstream may
\* leave the usage out.  The tier and the model are the ones that were routed.
Costs(q, status) ==
    IF status = "ok" /\ ~q.kind.stream THEN {0, CostOf[q.tier]} ELSE {0}

\* An answer to try again after.
Retry(r) ==
    /\ req[r].pc = "sending"
    /\ \E status \in Answers(req[r].tried) : Retries(req[r], status)
    /\ req' = [req EXCEPT ![r] = NextAttempt(@)]
    /\ UNCHANGED <<mode, session, spent, down, health>>

\* The last answer.  record_route adds the event and reads the row of the routed
\* model; another replica may run before the row is written.  (A router that is
\* alone writes it in the same turn: the behaviours where nothing comes between.)
Answer(r) ==
    LET q == req[r]
    IN  /\ q.pc = "sending"
        /\ \E status \in Answers(q.tried) :
              /\ ~Retries(q, status)
              /\ \/ /\ q.kind.asked = "explicit"
                    /\ req' = [req EXCEPT ![r] = Idle]
                    /\ UNCHANGED spent
                 \/ /\ q.kind.asked # "explicit"
                    /\ \E c \in Costs(q, status) : spent' = spent + c
                    /\ \E update \in Recorded(health[q.model], status) :
                          req' = [req EXCEPT ![r] =
                              [pc |-> "save", model |-> q.model, update |-> update]]
        /\ UNCHANGED <<mode, session, down, health>>

\* The transaction that read the row writes the columns it changed; the client has
\* its answer.
SaveHealth(r) ==
    LET q == req[r]
    IN  /\ q.pc = "save"
        /\ health' = [health EXCEPT ![q.model] = Overwritten(@, q.update)]
        /\ req' = [req EXCEPT ![r] = Idle]
        /\ UNCHANGED <<mode, session, spent, down>>

-----------------------------------------------------------------------------
(* The surroundings *)

ProviderFails(m) ==
    /\ m \in Fragile \ down
    /\ down' = down \cup {m}
    /\ UNCHANGED <<mode, req, session, spent, health>>

Cool ==
    /\ \E m \in Model : health[m].cooling > 0
    /\ HealthTick
    /\ UNCHANGED <<mode, req, session, spent, down>>

\* A new month starts: the sum over its events is 0.
MonthEnds ==
    /\ spent > 0
    /\ spent' = 0
    /\ UNCHANGED <<mode, req, session, down, health>>

Serve(r) ==
    \/ ResolveSession(r) \/ SessionStoreFails(r)
    \/ Finalize(r)
    \/ Retry(r) \/ Answer(r) \/ SaveHealth(r)

\* The event loop comes back to every request.  Serve(r) is enabled exactly while r
\* is in progress and only its steps change a request in progress, so this is
\* WF_requestVars(Serve(r)) without the ENABLED that is costly to evaluate.
ServedFairly(r) ==
    []<>(req[r].pc = "idle") \/ []<><<req[r].pc # "idle">>_(req[r])

RequestNext ==
    \/ \E r \in Request : Arrive(r) \/ Serve(r)
    \/ \E a \in Alias : SessionEnds(a)
    \/ \E m \in Model : ProviderFails(m)
    \/ Cool
    \/ MonthEnds

RequestSpec == RequestInit /\ [][RequestNext]_requestVars

-----------------------------------------------------------------------------
(* What should hold *)

Automatic(r) == req[r].pc = "sending" /\ req[r].kind.asked # "explicit"

\* A model can serve a request if it is the model of a tier the request fits.
CanServe(m, f) == \E t \in Tier : TierModel[t] = m /\ Fits(t, f)

FirstAsked(r) == mode = "route" /\ Automatic(r) /\ req[r].attempt = 0

\* Whatever the session, a policy, the key or an open circuit makes of the proposal,
\* the first model that is asked has the tools, the images and the context the request
\* needs, unless the client named a profile (X-Router-Profile) or a stage of a pipeline
\* chose the model: these two come after the gates.
FirstAttemptCapable ==
    \A r \in Request : FirstAsked(r) /\ req[r].kind.profile = "none" /\ ~req[r].moved
                          => CanServe(req[r].model, req[r].kind.facts)

\* User guide, 1.3: "Hard gates always win".  The first model that is asked has what the
\* request needs, whoever chose it.  It does not hold: X-Router-Profile and pipelines choose
\* a model after the gates.
HardGatesWin ==
    \A r \in Request : FirstAsked(r) => CanServe(req[r].model, req[r].kind.facts)

\* The output a request may ask the upstream for is within the budget of its tier,
\* within the client's own limit and within every policy that applies to all
\* requests, however session, policies and client met.
OutputWithinLimits ==
    \A r \in Request :
        Automatic(r) /\ mode = "route" =>
            LET k == req[r].kind
            IN  /\ ClientLimit(req[r].limits) <= MaxOutput[req[r].tier]
                /\ DOMAIN k.limits # {} =>
                      ClientLimit(req[r].limits) <= ClientLimit(k.limits)
                /\ \A p \in Policies :
                      p.cap > 0 /\ (\A part \in DOMAIN p.when : p.when[part] = {})
                          => ClientLimit(req[r].limits) <= p.cap

InFlight == {r \in Request : Automatic(r)}

MaxCost == Max({CostOf[t] : t \in Tier})

\* The budget is checked before the cost is known.  However many requests pass the
\* check together, the month is overspent by no more than what they cost.
OvershootBounded ==
    MonthlyLimit > 0 =>
        spent + Cardinality(InFlight) * MaxCost
            < MonthlyLimit + Cardinality(Request) * MaxCost

\* Every request is answered: retries end, whatever the upstream does.
EveryRequestAnswered == \A r \in Request : req[r].pc # "idle" ~> req[r].pc = "idle"

AskedOf(m) == \E r \in Request : Automatic(r) /\ req[r].attempt = 0 /\ req[r].model = m

\* A fallback may answer for m, and the router will count that as m's success.
Masked(m) == \E r \in Request : Automatic(r) /\ req[r].model = m /\ req[r].fallbacks # <<>>

\* A model whose provider is gone and that is asked again and again is taken out
\* of service again and again, though replicas overwrite each other's counts,
\* unless a pipeline's fallbacks answer in its place.
UnmaskedFailureOpens ==
    \A m \in Model :
        <>[](m \in down /\ ~Masked(m)) /\ []<>AskedOf(m)
            => []<>(health[m].state = "CIRCUIT_OPEN")

\* User guide, 1.7: after its threshold of qualifying failures "the model opens".
FailingModelOpens ==
    \A m \in Model :
        <>[](m \in down) /\ []<>AskedOf(m) => []<>(health[m].state = "CIRCUIT_OPEN")

\* What a request may ask for and what the month may cost are within their limits.
RequestInv == RequestTypeOK /\ OutputWithinLimits /\ OvershootBounded
=============================================================================
