SPECIFICATION Spec
CONSTANTS
    Adapters = {"claude", "codex"}
    MaxEvents = 5
    Messages = {1, 2}
INVARIANTS TurnsAsDefined SpansPaired DeliveredKept CodexCountedOnce
PROPERTIES EvidenceGrows
CHECK_DEADLOCK FALSE
