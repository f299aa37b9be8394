SPECIFICATION Spec
CONSTANTS
    SupportsTools = {"standard", "strong"}
    SupportsVision = {"strong"}
    MaxContext <- Context
    MaxOutput <- Output
    SafetyPercent = 115
    Classifier = "heuristic"
    Calibration <- DefaultCalibration
    PreferredField = "max_tokens"
    DemotionTurns = 2
    m1 = m1
    m2 = m2
    Model = {m1, m2}
    Fragile = {m1}
    Threshold = 2
    Cooldown = 1
    NoModel = none
    ProfileModel <- ProfileModels
    Pipelines <- BreakerPipelines
    Request = {r1, r2}
    Kind <- BreakerKinds
    Modes = {"route"}
    TierModel <- TierModels
    ObserveModel = m1
    KeyTiers = {"fast", "standard"}
    Policies = {}
    MonthlyLimit = 1
    CostOf <- BreakerCost
    NoSession = none
CHECK_DEADLOCK FALSE
PROPERTIES EveryRequestAnswered UnmaskedFailureOpens
