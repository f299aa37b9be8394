---------------------------- MODULE RouterPipeline ----------------------------
(***************************************************************************)
(* The router pipelines of the Operations Center (control_plane.py,        *)
(* _apply_router_pipelines): stages that may change the profile and the    *)
(* model of a request, ask for retries and name models to fall back to.    *)
(* A pipeline with transitions is walked from its entry, each stage once;  *)
(* one without is run in order, a failed condition skipping the rest.      *)
(*                                                                         *)
(* A working state `w' holds what the stages change, the health table they *)
(* ask included (an expired circuit becomes HALF_OPEN when it is asked).   *)
(***************************************************************************)
EXTENDS TierRouting, ProviderHealth, Sequences, SequencesExt

Profile == Tier \cup {"coding", "vision"}

CONSTANTS
    NoModel,       \* what profile_model answers for a profile that is disabled
    ProfileModel,  \* profile -> the model of its row, or NoModel
    Pipelines      \* the enabled pipelines, by priority

MaxRetries == 5

\* What a stage names is what the upstream has; the code ignores any other name of a
\* profile and passes any other name of a model on.
StageOK(stage) ==
    /\ stage.type \in {"route", "load_balance"} => stage.candidates \subseteq Model
    /\ stage.type = "retry" => stage.retries \in Nat
    /\ stage.type = "fallback" => stage.fallback \in Seq(Profile \cup Model)

ASSUME PipelineAssumption ==
    /\ IsFiniteSet(Model) /\ NoModel \notin Model
    /\ ProfileModel \in [Profile -> Model \cup {NoModel}]
    /\ Pipelines \in Seq(ToSet(Pipelines))
    /\ \A pipeline \in ToSet(Pipelines) :
          /\ pipeline.stages \in Seq(ToSet(pipeline.stages))
          /\ \A stage \in ToSet(pipeline.stages) : StageOK(stage)

\* stages: sequence of records; by_id in the code
StageIds(pipeline) == {stage.id : stage \in ToSet(pipeline.stages)}
StageOf(pipeline, id) == CHOOSE stage \in ToSet(pipeline.stages) : stage.id = id

\* An empty set in a condition asks nothing.
WhenMatches(when, facts, tier, profile) ==
    /\ when.tiers # {} => tier \in when.tiers
    /\ when.profiles # {} => profile \in when.profiles
    /\ when.cues # {} => when.cues \cap facts.cues # {}

Asked(table, models) ==
    [m \in Model |-> IF m \in models THEN Probed(table[m]) ELSE table[m]]

\* _best_candidate: the fastest (or, weighted, any) of those whose circuit lets
\* requests through, of all of them when none does.
Best(table, candidates, latency) ==
    LET healthy == {m \in candidates : ~Refuses(table[m])}
        pool == IF healthy = {} THEN candidates ELSE healthy
    IN  CHOOSE m \in pool : \A n \in pool : latency[m] <= latency[n]

Among(w, candidates, latency) ==
    IF candidates = {} THEN w
    ELSE [w EXCEPT !.model = Best(w.health, candidates, latency),
                   !.health = Asked(w.health, candidates)]

ToProfile(w, profile) ==
    IF profile \in Profile /\ ProfileModel[profile] # NoModel
    THEN [w EXCEPT !.profile = profile, !.model = ProfileModel[profile]]
    ELSE w

\* A name of a profile stands for its model; the model in use is left out.
WithFallback(w, name) ==
    LET mapped == IF name \in Profile THEN ProfileModel[name] ELSE name
    IN  IF mapped \in {NoModel, w.model} \cup ToSet(w.fallbacks) THEN w
        ELSE [w EXCEPT !.fallbacks = Append(@, mapped)]

AfterStage(w, stage, latency) ==
    CASE stage.type = "route" ->
             Among(ToProfile(w, stage.profile), stage.candidates, latency)
      [] stage.type = "load_balance" -> Among(w, stage.candidates, latency)
      [] stage.type = "health_filter" ->
             [w EXCEPT !.health = Asked(@, {w.model})]
      [] stage.type = "retry" ->
             [w EXCEPT !.retries = Larger(@, Smaller(stage.retries, MaxRetries))]
      [] stage.type = "fallback" -> FoldLeft(WithFallback, w, stage.fallback)
      [] OTHER -> w

\* The port a stage leaves through; `w' is the state it was entered with.
Port(w, stage, facts, tier) ==
    CASE stage.type = "classifier" ->
             IF w.profile = "vision" \/ "image" \in facts.cues THEN "vision"
             ELSE IF w.profile = "coding" \/ "code" \in facts.cues THEN "coding"
             ELSE "default"
      [] stage.type = "condition" ->
             IF WhenMatches(stage.when, facts, tier, w.profile) THEN "true" ELSE "false"
      [] stage.type = "capability_filter" ->
             IF stage.require \subseteq facts.cues THEN "matched" ELSE "unmatched"
      [] stage.type = "health_filter" ->
             IF Refuses(w.health[w.model]) THEN "unhealthy" ELSE "healthy"
      [] OTHER -> "default"

\* transitions: stage -> port -> stage; an unknown port takes the default one.
Following(pipeline, id, port) ==
    LET choices == pipeline.transitions[id]
    IN  IF port \in DOMAIN choices THEN choices[port]
        ELSE IF "default" \in DOMAIN choices THEN choices["default"]
        ELSE "end"

Walked(w, pipeline, facts, tier, latency) ==
    LET ids == StageIds(pipeline)
        step(at) ==
            LET stage == StageOf(pipeline, at.id)
            IN  [w |-> AfterStage(at.w, stage, latency),
                 id |-> Following(pipeline, at.id, Port(at.w, stage, facts, tier)),
                 visited |-> at.visited \cup {at.id}]
        walk[n \in 0 .. Len(pipeline.stages)] ==
            IF n = 0 THEN [w |-> w, id |-> pipeline.entry, visited |-> {}]
            ELSE LET at == walk[n - 1]
                 IN  IF at.id \in ids \ at.visited THEN step(at) ELSE at
    IN  walk[Len(pipeline.stages)].w

InOrder(w, pipeline, facts, tier, latency) ==
    LET run(at, stage) ==
            IF stage.type = "condition"
            THEN [at EXCEPT !.active =
                      @ /\ WhenMatches(stage.when, facts, tier, at.w.profile)]
            ELSE IF at.active THEN [at EXCEPT !.w = AfterStage(@, stage, latency)]
            ELSE at
    IN  FoldLeft(run, [w |-> w, active |-> TRUE], pipeline.stages).w

\* Every pipeline in turn, on what the ones before it left.
Piped(profile, model, facts, tier, latency) ==
    LET start == [profile |-> profile, model |-> model, retries |-> 0,
                  fallbacks |-> <<>>, health |-> health]
        run(w, pipeline) ==
            IF pipeline.entry \in StageIds(pipeline)
            THEN Walked(w, pipeline, facts, tier, latency)
            ELSE InOrder(w, pipeline, facts, tier, latency)
    IN  FoldLeft(run, start, Pipelines)
=============================================================================
