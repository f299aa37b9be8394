SPECIFICATION OperationsSpec
CONSTANTS
    o1 = o1
    o2 = o2
    Drafts <- MCDrafts
    MaxGraphEdges = 4
    MaxDrawn = 4
    NoGraph = NoGraph
    MaxRow <- MCMaxRow
    Given <- MCGiven
    TeamBody <- MCTeamBody
    Editors = {e1, e2}
    NoAgent = NoAgent
    MaxSteps = 7
    MaxId = 3
    MaxVersion = 4
    Activation = {p1, p2}
    None = None
    Role = {"user"}
    Subject = {s1, s2}
    Wanted = {"ann"}
    MaxUser = 2
    TokenTTL = 1
    MaxNow = 2
    Local = Local
    NoUser = NoUser
    Actor = {a1, a2}
    GroupRow = {1, 2}
    GroupName = {"ops", "dev"}
    RuleRow = {1, 2}
    DefaultDeny = FALSE
    NoRule = NoRule
    Base = {1, 2}
    Source = {"faq"}
    Document <- MCDocument
    MaxChunk = 3
    Nothing = Nothing
    Operation = {o1, o2}
    PluginOf <- MCPluginOf
    Session = {t1, t2}
    ToolCall = {c1, c2}
    Absent = Absent
    Feature = {f1}
    User = {u1}
    Admin = {d1, d2}
    InitialGeneration = 1
    MaxMutations = 3
    Capability = {k1, k2}
    NotIssued = NotIssued
    SshOperation = {o1}
    MaxProfile = 3
    NoProfile = NoProfile
    r1 = r1
    r2 = r2
    Replica = {r1, r2}
    Body <- MCBody
    HasRedis <- MCHasRedis
    NoSetting = NoSetting
CHECK_DEADLOCK FALSE
PROPERTY DisableIsReversible
