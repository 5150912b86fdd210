SPECIFICATION Spec
CONSTANTS
    c1 = c1
    d1 = d1
    q1 = q1
    q2 = q2
    a1 = a1
    a2 = a2
    Cells = {c1}
    Diags = {d1}
    Claims = {q1}
    Artifacts = {a1, a2}
    Prereqs <- Chain
    LastPhase = 3
    ConsolidatorInterval = 3
    HeartbeatInterval = 2
    MaxEvents = 3
    MaxKills = 1
    MaxSessions = 2
CHECK_DEADLOCK FALSE
INVARIANTS MarkedAndOnce
PROPERTIES ScanAnnounces
