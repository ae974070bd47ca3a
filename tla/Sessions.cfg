SPECIFICATION Spec
CONSTANTS
    a1 = a1
    b1 = b1
    A = A
    B = B
    NoSession = NoSession
    Ids = {a1, b1}
    SessionIds = {A, B}
    Native = {A}
    SessionOf <- MCSessionOf
    MaxLength = 2
    Overlaps = {}
INVARIANTS DeletedHidden RowsMatchWatermark
PROPERTIES RebuildComplete CheckpointsTrail
CHECK_DEADLOCK FALSE
