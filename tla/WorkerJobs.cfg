SPECIFICATION FairSpec
CONSTANTS
    Jobs = {1, 2}
    Agents = {a1, a2}
    MaxFaults = 2
INVARIANTS
    GrantedOnce
    HonestStatus
    RunningIsAttended
PROPERTIES
    EveryJobIsTaken
CHECK_DEADLOCK FALSE
