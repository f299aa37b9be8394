SPECIFICATION Spec
CONSTANTS
    CallIndex = {0, 1}
    NoId = "none"
    MaxLines = 4
    PerChunk = 2
    Reasons = {"stop", "length"}
    CallId = {k1, k2, k3}
    MaxActs = 6
    NoCall = none
CHECK_DEADLOCK FALSE
INVARIANT TextArrives
