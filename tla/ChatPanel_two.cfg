SPECIFICATION FairPSpec
CONSTANTS
    Panels = {p1, p2}
    None = None
    MaxEvents = 6
INVARIANTS NotPinned
PROPERTIES Quiesces
CHECK_DEADLOCK FALSE
