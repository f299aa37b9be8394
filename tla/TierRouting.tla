------------------------------ MODULE TierRouting ------------------------------
(***************************************************************************)
(* How a request gets its tier and its output budget (smart_router/        *)
(* routing.py, budget.py and the tier configuration of config.py).  The    *)
(* prompt is abstracted to the facts analyze_request computes from it: how *)
(* many tokens, which capabilities, which cues.  The learned classifier is *)
(* outside: it may answer any tier.                                        *)
(***************************************************************************)
EXTENDS Integers, FiniteSets, FiniteSetsExt

Tier == {"fast", "standard", "strong"}
Rank == [fast |-> 0, standard |-> 1, strong |-> 2]

CONSTANTS
    SupportsTools,   \* the tiers whose model can call tools
    SupportsVision,  \* the tiers whose model can read images
    MaxContext,      \* tier -> tokens its model can hold
    MaxOutput,       \* tier -> tokens its model can write
    SafetyPercent,   \* context_token_safety_factor, in percent
    Classifier,      \* settings.policy: "heuristic", "calibrated" or "learned"
    Calibration,     \* what the calibration file holds: weights and thresholds
    PreferredField   \* the token field written when the client gave none

Field == {"max_completion_tokens", "max_tokens"}

ASSUME TierConfigAssumption ==
    /\ SupportsTools \subseteq Tier /\ SupportsVision \subseteq Tier
    /\ SupportsTools # {} /\ SupportsVision # {}
    /\ MaxContext \in [Tier -> Nat \ {0}] /\ MaxOutput \in [Tier -> Nat \ {0}]
    /\ SafetyPercent \in Nat /\ SafetyPercent >= 100
    /\ PreferredField \in Field

\* _validate_tier_order: a higher tier can do whatever a lower tier can.
ASSUME TierOrderAssumption ==
    \A t, u \in Tier : Rank[t] <= Rank[u] =>
        /\ t \in SupportsTools => u \in SupportsTools
        /\ t \in SupportsVision => u \in SupportsVision
        /\ MaxContext[t] <= MaxContext[u]

-----------------------------------------------------------------------------
(* The score of a request *)

\* What each signal adds unless the calibration file says otherwise.
DefaultCalibration ==
    [weights |-> [context_gt_8000 |-> 2, context_gt_25000 |-> 2,
                  context_gt_50000 |-> 3, tools_present |-> 1,
                  large_tool_schema |-> 1, large_tool_results |-> 1,
                  multiple_code_blocks |-> 1, multiple_files |-> 2,
                  structured_output |-> 1, complex_intent |-> 2,
                  simple_intent |-> -2, failure_language |-> 2],
     fast_max_score |-> 0, standard_max_score |-> 5]

Signals(f) ==
    LET holds == [context_gt_8000 |-> f.tokens > 8000,
                  context_gt_25000 |-> f.tokens > 25000,
                  context_gt_50000 |-> f.tokens > 50000,
                  tools_present |-> f.tools,
                  large_tool_schema |-> f.schema > 2000,
                  large_tool_results |-> f.results > 2000,
                  multiple_code_blocks |-> f.blocks > 2,
                  multiple_files |-> f.files > 3,
                  structured_output |-> f.structured,
                  complex_intent |-> "complex" \in f.cues,
                  simple_intent |-> f.cues \cap {"simple", "rewrite"} # {},
                  failure_language |-> "failure" \in f.cues]
    IN  {s \in DOMAIN holds : holds[s]}

Score(f, calibration) ==
    MapThenSumSet(LAMBDA s : calibration.weights[s], Signals(f))

ScoredTier(f, calibration) ==
    LET score == Score(f, calibration)
    IN  IF score <= calibration.fast_max_score THEN "fast"
        ELSE IF score <= calibration.standard_max_score THEN "standard"
        ELSE "strong"

\* The tiers that may be proposed before the gates: the one the client forced, or
\* the policy's.  A learned model may predict any; if it is missing or raises,
\* the fallback policy answers, with a tier all the same.
RawTiers(f, asked) ==
    IF asked \in Tier THEN {asked}
    ELSE CASE Classifier = "learned" -> Tier
           [] Classifier = "calibrated" -> {ScoredTier(f, Calibration)}
           [] OTHER -> {ScoredTier(f, DefaultCalibration)}

-----------------------------------------------------------------------------
(* The capability gates *)

CeilPercent(n, percent) == (n * percent + 99) \div 100

RequiredContext(f, t) ==
    CeilPercent(f.tokens, SafetyPercent)
    + (IF f.output > 0 THEN f.output ELSE MaxOutput[t])

\* tier_satisfies_capabilities
Fits(t, f) ==
    /\ f.tools => t \in SupportsTools
    /\ f.vision => t \in SupportsVision
    /\ RequiredContext(f, t) <= MaxContext[t]

\* The tiers at or above t that fit; there may be none.
CapableFrom(t, f) == {u \in Tier : Rank[u] >= Rank[t] /\ Fits(u, f)}

\* The gates if they tried only the tools and images, not the context.
GatedByFeatures(t, f) ==
    LET able == {u \in Tier : /\ Rank[u] >= Rank[t]
                              /\ f.tools => u \in SupportsTools
                              /\ f.vision => u \in SupportsVision}
    IN  CHOOSE u \in able : \A v \in able : Rank[u] <= Rank[v]

\* The lowest of them.
Gated(t, f) ==
    CHOOSE u \in CapableFrom(t, f) : \A v \in CapableFrom(t, f) : Rank[u] <= Rank[v]

\* decide raises, and the request is refused with 422, when no tier is left.
Decisions(f, asked) ==
    {Gated(t, f) : t \in {u \in RawTiers(f, asked) : CapableFrom(u, f) # {}}}

Undecidable(f, asked) == \E t \in RawTiers(f, asked) : CapableFrom(t, f) = {}

-----------------------------------------------------------------------------
(* The output budget *)

Smaller(a, b) == IF a <= b THEN a ELSE b
Larger(a, b) == IF a >= b THEN a ELSE b

\* `limits' maps the token fields the body has to their values.
ClientLimit(limits) == Min({limits[field] : field \in DOMAIN limits})

\* propose_budget: cues lower the limit of the tier, tools keep it at 2048 at
\* least where the tier can, and the client's own limit always holds.
ProposedLimit(f, t, limits) ==
    LET brief == IF "brief" \in f.cues THEN {700} ELSE {}
        rewrite == IF "rewrite" \in f.cues THEN {1200} ELSE {}
        structured == IF f.structured THEN {2500} ELSE {}
        cued == Min({MaxOutput[t]} \cup brief \cup rewrite \cup structured)
        roomy == IF f.tools THEN Smaller(MaxOutput[t], Larger(cued, 2048)) ELSE cued
    IN  IF DOMAIN limits = {} THEN roomy ELSE Smaller(roomy, ClientLimit(limits))

\* enforce_budget writes the limit into every token field of the body, or into
\* the preferred one when there is none.
Enforced(limits, proposed) ==
    IF DOMAIN limits = {} THEN [field \in {PreferredField} |-> proposed]
    ELSE [field \in DOMAIN limits |-> Smaller(limits[field], proposed)]
=============================================================================
