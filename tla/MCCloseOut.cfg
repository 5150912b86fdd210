SPECIFICATION Spec
CONSTANTS
    i1 = i1
    i2 = i2
    s1 = s1
    s2 = s2
    s3 = s3
    NoItem = NoItem
    Malformed = Malformed
    Items = {i1}
    Sids = {s1, s2}
    MaxRedispatch = 2
    MaxAborts = 1
    MaxReruns = 1
    NewIdOnRedispatch = FALSE
    ExtendingPatches = FALSE
    CrossReferences = FALSE
SYMMETRY Symmetric
INVARIANTS EndIsHandedOn   RedispatchEnds
PROPERTIES UsesQueueSpec
