\* Two operations, two request threads, one permit; rows are purged.  The
\* system stops when the bounds are reached.
SPECIFICATION CallSpec
CONSTANTS
    n1 = n1
    n2 = n2
    o1 = o1
    o2 = o2
    u1 = u1
    f1 = f1
    Nonce = {n1, n2}
    Binding = {o1, o2}
    Feature = {f1}
    User = {u1}
    Admin = {}
    Thread = {t1, t2}
    NoRow = NoRow
    TTL = 1
    RequestTTL = 1
    PurgeAfter = 0
    MAX_CONCURRENT = 1
    InitialGeneration = 1
    MaxMutations = 0
    MaxNow = 3
    MaxFaults = 0
    CutReplies = FALSE
    Asked <- MCAskedTwo
    FeatureOf <- MCFeatureOf
    UserOf <- MCUserOf
CHECK_DEADLOCK FALSE
PROPERTY APermitComesBack
