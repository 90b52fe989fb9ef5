SPECIFICATION Spec
CONSTANTS
    Launches = {"l1", "l2"}
    Prompts = {1, 2}
    MaxBreaks = 0
INVARIANTS
    TrainsOnItsConfig
CHECK_DEADLOCK FALSE
