SPECIFICATION MCFairSpec
CONSTANTS
    s1 = s1
    s2 = s2
    s3 = s3
    q1 = q1
    q2 = q2
    pro = pro
    basic = basic
    ever = ever
    quota = quota
    PlanCode = PlanCode
    Sub = {s1, s2, s3}
    Plan = {pro, basic, ever}
    Endless = {ever}
    Key = {PlanCode, quota}
    Features <- MCFeatures
    Request = {q1, q2}
    Reader = {r1}
    Cron = {c1}
    NoSub = NoSub
    NoPlan = NoPlan
    NoRow = NoRow
    NoCache = NoCache
    Activator = {q1, q2}
    MaxFaults = 1
INVARIANTS
    SubscriptionsInv
PROPERTIES
    JobEndsLapsed
    CallsKeepPromises
    CallsEndForGood
CHECK_DEADLOCK FALSE
