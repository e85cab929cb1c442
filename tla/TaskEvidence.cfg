CONSTANTS
    Sessions = {p1, p2}
    Items = {e1, e2}
SPECIFICATION Spec
INVARIANT EvidenceAppended
CHECK_DEADLOCK FALSE
