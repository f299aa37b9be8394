\* One operation, every failure but a cut reply: timeouts, lost posts and answers,
\* restarts; decisions are delivered under the fairness of DeliverySpec.  The
\* system stops when the bounds are reached.
SPECIFICATION DeliverySpec
CONSTANTS
    n1 = n1
    n2 = n2
    o1 = o1
    o2 = o2
    u1 = u1
    f1 = f1
    Nonce = {n1}
    Binding = {o1, o2}
    Feature = {f1}
    User = {u1}
    Admin = {}
    Thread = {t1, t2}
    NoRow = NoRow
    TTL = 2
    RequestTTL = 2
    PurgeAfter = 0
    MAX_CONCURRENT = 2
    InitialGeneration = 1
    MaxMutations = 0
    MaxNow = 3
    MaxFaults = 3
    CutReplies = FALSE
    Asked <- MCAskedOne
    FeatureOf <- MCFeatureOf
    UserOf <- MCUserOf
CHECK_DEADLOCK FALSE
INVARIANTS RunsAtMostOnce RunsAsApproved GrantedMeansApplied
INVARIANTS FailedPrepareIsDead PermitsAccounted
PROPERTIES DecisionIsFinal ImplementsOneTimeGrant EveryDecisionLands
