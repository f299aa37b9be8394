\* One operation while an administrator rewrites the policy files.  The system
\* stops when the bounds are reached.
SPECIFICATION Spec
CONSTANTS
    n1 = n1
    n2 = n2
    o1 = o1
    o2 = o2
    u1 = u1
    f1 = f1
    Nonce = {n1}
    Binding = {o1}
    Feature = {f1}
    User = {u1}
    Admin = {a1}
    Thread = {t1}
    NoRow = NoRow
    TTL = 1
    RequestTTL = 1
    PurgeAfter = 0
    MAX_CONCURRENT = 1
    InitialGeneration = 1
    MaxMutations = 2
    MaxNow = 2
    MaxFaults = 1
    CutReplies = TRUE
    Asked <- MCAskedOne
    FeatureOf <- MCFeatureOf
    UserOf <- MCUserOf
CHECK_DEADLOCK FALSE
INVARIANTS GrantMatchesPrompt IInv
PROPERTY ImplementsOneTimeGrant
