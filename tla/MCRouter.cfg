SPECIFICATION RouterSpec
CONSTANTS
    SupportsTools = {"standard", "strong"}
    SupportsVision = {"strong"}
    MaxContext <- Context
    MaxOutput <- Output
    SafetyPercent = 115
    Classifier = "heuristic"
    Calibration <- DefaultCalibration
    PreferredField = "max_tokens"
    DemotionTurns = 2
    m1 = m1
    m2 = m2
    Model = {m1, m2}
    Fragile = {}
    Threshold = 1
    Cooldown = 1
    NoModel = none
    ProfileModel <- ProfileModels
    Pipelines <- PipelineList
    Request = {r1, r2}
    Kind <- Kinds
    Modes = {"observe", "route"}
    TierModel <- TierModels
    ObserveModel = m1
    KeyTiers = {"fast", "standard"}
    Policies <- PolicySet
    MonthlyLimit = 1
    CostOf <- Cost
    NoSession = none
    Call = {c1, c2}
    Proposable = {"fast", "strong"}
    SessionTTL = 2
    MaxSessionAge = 2
    LockTimeout = 1
    LastTick = 2
    NoRow = NoRow
    Free = Free
    Caller = {a1, a2}
    Rpm = 2
    Tpm = 3
    Daily = 3
    DayMinutes = 2
    LastMinute = 2
    Weight = {1, 3}
CHECK_DEADLOCK FALSE
SYMMETRY Interchangeable
INVARIANTS RequestInv FirstAttemptCapable StickyInv RateInv
PROPERTY PromotionSticks
