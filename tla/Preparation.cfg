SPECIFICATION Spec
CONSTANTS
    Launches = {"l1", "l2"}
    Prompts = {1, 2}
    MaxBreaks = 1
INVARIANTS
    TrainsOnWhole
    InlineIsExact
PROPERTIES
    WholeIsKept
CHECK_DEADLOCK FALSE
