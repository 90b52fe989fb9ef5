SPECIFICATION FairSpec
CONSTANTS
    Requests <- MCRequests
    Replies <- MCReplies
    ToolTokens = {1}
    Unlimited = Unlimited
INVARIANTS
    StatusExplained
    DeliveredIsUsable
PROPERTIES
    RolloutEnds
CHECK_DEADLOCK FALSE
