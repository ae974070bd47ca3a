SPECIFICATION Spec
CONSTANTS
    transcriptA = transcriptA
    transcriptB = transcriptB
    sidecarA = sidecarA
    sidecarB = sidecarB
    rollout = rollout
    A = A
    B = B
    there = there
    back = back
    NoRoot = NoRoot
    None = None
    Torn = Torn
    Paths = {transcriptA, transcriptB, sidecarA, sidecarB, rollout}
    Sidecars = {sidecarA, sidecarB}
    Main <- MCMain
    Rank <- MCRank
    Records = {r1, r2, r3}
    Roots = {A, B}
    Migrations = {there, back}
    From <- MCFrom
    To <- MCTo
    Dest <- MCDest
    TornBackups = TRUE
    Overlaps = {}
PROPERTIES OriginalBackedUp
SYMMETRY Symmetry
