SPECIFICATION Spec
CONSTANTS
    SupportsTools = {"standard", "strong"}
    SupportsVision = {"strong"}
    MaxContext <- Context
    MaxOutput <- Output
    SafetyPercent = 115
    Classifier = "heuristic"
    Calibration <- DefaultCalibration
    PreferredField = "max_tokens"
    DemotionTurns = 2
    m1 = m1
    m2 = m2
    Model = {m1, m2}
    Fragile = {m1}
    Threshold = 2
    Cooldown = 1
    NoModel = none
    ProfileModel <- ProfileModels
    Pipelines <- FallbackList
    Request = {r1}
    Kind <- Kinds
    Modes = {"route"}
    TierModel <- TierModels
    ObserveModel = m1
    KeyTiers = {"fast", "standard"}
    Policies <- PolicySet
    MonthlyLimit = 0
    CostOf <- Cost
    NoSession = none
CHECK_DEADLOCK FALSE
PROPERTY FailingModelOpens
