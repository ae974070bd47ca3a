SPECIFICATION Spec
CONSTANTS
    Ids = {o1, o2, o3, o4}
    Inodes = {i1, i2, i3, i4}
    NoId = NoId
    NoInode = NoInode
    Torn = Torn
    SegmentLimit = 2
    Crashes = {"kill"}
    Faults = {"seal", "create", "headerSync"}
INVARIANTS AckedDurable RecoverySucceeds StoredOnce
PROPERTIES StoredGrows
SYMMETRY Symmetry
