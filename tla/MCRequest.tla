------------------------------- MODULE MCRequest -------------------------------
(***************************************************************************)
(* Two requests at a time through two models: m1 serves the fast tier, m2  *)
(* the others.                                                             *)
(***************************************************************************)
EXTENDS RequestPath, TLC

CONSTANTS m1, m2

\* Time passes, and the event loop serves every request.
Spec ==
    /\ RequestInit /\ [][RequestNext]_requestVars
    /\ \A r \in Request : ServedFairly(r)
    /\ WF_requestVars(Cool)

Context == [fast |-> 32000, standard |-> 128000, strong |-> 200000]
Output == [fast |-> 1024, standard |-> 4096, strong |-> 6144]
TierModels == [fast |-> m1, standard |-> m2, strong |-> m2]
ProfileModels == TierModels @@ [coding |-> NoModel, vision |-> m2]
Cost == [fast |-> 0, standard |-> 1, strong |-> 1]

\* A short chat in a session under a key; an image with tools and a limit, streamed,
\* in the same session; a long prompt on the fast alias; tools under the fast profile; a
\* model asked by name.
Facts == [tokens |-> 900, schema |-> 0, results |-> 0, tools |-> FALSE, vision |-> FALSE,
          structured |-> FALSE, blocks |-> 0, files |-> 0, output |-> 0, cues |-> {"simple"}]
Chat == [asked |-> "auto", profile |-> "none", session |-> TRUE, stream |-> FALSE,
         key |-> TRUE, facts |-> Facts, limits |-> [f \in {} |-> 0]]
Kinds ==
    {Chat,
     [Chat EXCEPT !.key = FALSE, !.stream = TRUE, !.facts.vision = TRUE, !.facts.tools = TRUE,
                  !.facts.output = 3000, !.limits = [f \in {"max_tokens"} |-> 3000]],
     [Chat EXCEPT !.asked = "fast", !.key = FALSE, !.session = FALSE,
                  !.facts.cues = {"complex"}, !.facts.tokens = 30000],
     [Chat EXCEPT !.profile = "fast", !.key = FALSE, !.session = FALSE, !.facts.tools = TRUE],
     [Chat EXCEPT !.asked = "explicit", !.key = FALSE, !.session = FALSE] @@ [model |-> m1]}

\* A cap for everybody, and the strong tier for complex work.
Anything == [tiers |-> {}, profiles |-> {}, cues |-> {}]
PolicySet ==
    {[when |-> Anything, deny |-> FALSE, min |-> "none", cap |-> 2000],
     [when |-> [Anything EXCEPT !.tiers = {"standard"}, !.cues = {"complex"}],
      deny |-> FALSE, min |-> "strong", cap |-> 0]}

\* A graph that leaves an unhealthy model for the better of the two and retries once, and
\* stages in order that retry complex work twice, on the fast model first.
HealthPipeline ==
    [entry |-> "h",
     stages |-> <<[id |-> "h", type |-> "health_filter"],
                  [id |-> "s", type |-> "route", profile |-> "strong", candidates |-> {m1, m2}],
                  [id |-> "t", type |-> "retry", retries |-> 1]>>,
     transitions |-> [h |-> [healthy |-> "t", unhealthy |-> "s"],
                      s |-> [default |-> "t"], t |-> [default |-> "end"]]]
ComplexPipeline ==
    [entry |-> "none", transitions |-> <<>>,
     stages |-> <<[id |-> "c", type |-> "condition", when |-> [Anything EXCEPT !.cues = {"complex"}]],
                  [id |-> "t", type |-> "retry", retries |-> 2],
                  [id |-> "f", type |-> "fallback", fallback |-> <<"fast">>]>>]
PipelineList == <<HealthPipeline, ComplexPipeline>>

\* For the circuit breaker: simple chats of a session on the fast model, which cost
\* something here, and complex ones that may be answered by the strong one.
BreakerCost == [t \in Tier |-> 1]
BreakerKinds ==
    {[Chat EXCEPT !.key = FALSE],
     [Chat EXCEPT !.key = FALSE, !.session = FALSE, !.asked = "fast", !.facts.cues = {"complex"}]}
BreakerPipelines ==
    <<HealthPipeline,
      [ComplexPipeline EXCEPT !.stages[3].fallback = <<"strong">>]>>

\* One pipeline for every request: a retry, on the strong model.
FallbackList ==
    << [entry |-> "none", transitions |-> <<>>,
        stages |-> <<[id |-> "t", type |-> "retry", retries |-> 1],
                     [id |-> "f", type |-> "fallback", fallback |-> <<"strong">>]>>] >>
=============================================================================
