SPECIFICATION AccessSpec
CONSTANTS
    Ids = {o1, o2}
    Inodes = {i1, i2}
    NoId = NoId
    NoInode = NoInode
    Torn = Torn
    SegmentLimit = 3
    Crashes = {}
    Faults = {}
    Readers = {r1}
    Doomed = {}
    Overlaps = {"append"}
INVARIANTS AckedDurable
SYMMETRY Symmetry
