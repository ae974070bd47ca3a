SPECIFICATION Spec
CONSTANTS
    Ids = {o1, o2, o3}
    Inodes = {i1, i2, i3, i4}
    NoId = NoId
    NoInode = NoInode
    Torn = Torn
    SegmentLimit = 2
    Crashes = {"power"}
    Faults = {"seal", "create", "header", "headerSync", "sync"}
PROPERTIES ImplementsDurableLog
SYMMETRY Symmetry
