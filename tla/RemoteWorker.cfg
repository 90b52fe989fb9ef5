SPECIFICATION Spec
CONSTANTS
    MaxFaults = 1
    Launches = {1, 2}
INVARIANTS
    HandleIsHonest
    JobIsOurs
PROPERTIES
    
    EndReachesLaptop
CHECK_DEADLOCK FALSE
