SPECIFICATION AccessSpec
CONSTANTS
    Ids = {o1, o2, o3}
    Inodes = {i1, i2, i3, i4}
    NoId = NoId
    NoInode = NoInode
    Torn = Torn
    SegmentLimit = 2
    Crashes = {"power"}
    Faults = {"seal", "create", "header", "headerSync"}
    Readers = {r1}
    Doomed = {o1}
    Overlaps = {}
INVARIANTS AccessTypeOK OthersRetained
PROPERTIES ReadComplete DeletionComplete
SYMMETRY Symmetry
