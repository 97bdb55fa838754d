SPECIFICATION FreeSpec
CONSTANTS
    s1 = s1
    s2 = s2
    s3 = s3
    q1 = q1
    q2 = q2
    pro = pro
    basic = basic
    ever = ever
    quota = quota
    PlanCode = PlanCode
    Sub = {s1, s2}
    Plan = {pro}
    Endless = {}
    Key = {PlanCode, quota}
    Features <- MCFeatures
    Request = {q1}
    Reader = {}
    Cron = {c1}
    NoSub = NoSub
    NoPlan = NoPlan
    NoRow = NoRow
    NoCache = NoCache
    Activator = {q1}
    MaxFaults = 0
INVARIANTS
    ActiveIsEntitled
    GraceIsEntitled
PROPERTIES
    EndedStaysEnded
CHECK_DEADLOCK FALSE
