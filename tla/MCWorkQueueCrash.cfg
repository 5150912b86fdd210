SPECIFICATION Spec
CONSTANTS
    i1 = i1
    i2 = i2
    i3 = i3
    p1 = p1
    p2 = p2
    Items = {i1, i2, i3}
    Procs = {p1, p2}
    Overlap <- SerialCallers
    MaxCrashes = 2
INVARIANTS QueueConsistent LossBounded
PROPERTIES ImplementsQueueSpec
