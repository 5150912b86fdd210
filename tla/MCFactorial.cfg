SPECIFICATION Spec
CONSTANTS
    r1 = r1
    r2 = r2
    m1 = m1
    m2 = m2
    Runs = {r1, r2}
    s1 = s1
    s2 = s2
    Slots = {s1, s2}
    Manifests = {m1, m2}
    First = m1
    Rejected <- Refused
    LaunchOrder <- Order
    EvalAfter = 1
    Cell <- Launched
    Arms <- Written
    MaxStarts = 2
    MaxFaults = 1
    MaxAmends = 1
CHECK_DEADLOCK FALSE
INVARIANTS LockedFactorial SerialAndHonest TriggerBeforeRest
