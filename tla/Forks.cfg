SPECIFICATION Spec
CONSTANTS
    MaxRecords = 5
    MaxKeep = 2
INVARIANTS ForkAllOrNothing UsageCountedOnce ErrorsAttributed ForkEndsAtStep CraftLosesNoStep
PROPERTIES StepsStable
CHECK_DEADLOCK FALSE
