SPECIFICATION Spec
CONSTANTS
    Null = Null
    Attempts = 1
    MaxProcs = 2
PROPERTY NothingLeft
CHECK_DEADLOCK FALSE
