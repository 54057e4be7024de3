SPECIFICATION FairSpec
CONSTANTS
    MaxBuilds = 2  MaxOutages = 1  MaxOpens = 2
CHECK_DEADLOCK FALSE
PROPERTY NotMissed
