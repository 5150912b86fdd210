SPECIFICATION Spec
CONSTANTS
    f1 = f1
    f2 = f2
    s1 = s1
    s2 = s2
    Files = {f1, f2}
    Servers = {s1, s2}
    MaxTime = 2
    MaxEvents = 3
SYMMETRY Symmetric
CHECK_DEADLOCK FALSE
INVARIANTS IndexIsCurrent 
