SPECIFICATION Spec
CONSTANTS
    Starts <- MCStarts
    Turns <- MCTurns
    Offsets = {0}
    MaxSessions = 3
    MaxTime = 5
    DaysOfWeek = 2
INVARIANTS PromptsCountedOnce RecurrencesReported OwnLeavesNoTrace WindowsNearest CallsAddUp
CHECK_DEADLOCK FALSE
