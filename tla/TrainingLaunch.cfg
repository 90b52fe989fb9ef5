SPECIFICATION FairSpec
CONSTANTS
    Writers = {"main", "reader", "heartbeat", "stop"}
    MaxFaults = 1
    Modes = {"supervised", "attached"}
    MaxNotes = 2
    ExitCodes <- MCExitCodes
CONSTRAINT FewWriters
INVARIANTS
    EndIsHonest
    EndIsRecorded
    VerdictIsHonest
    ViewsAgree

    
CHECK_DEADLOCK FALSE
