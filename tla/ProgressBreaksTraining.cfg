SPECIFICATION FairSpec
CONSTANTS
    Writers = {"main", "reader", "heartbeat", "stop"}
    MaxFaults = 0
    Modes = {"supervised"}
    MaxNotes = 2
    ExitCodes <- MCExitCodes
INVARIANT ProgressNeverBreaksTraining
CHECK_DEADLOCK FALSE
