SPECIFICATION Spec
CONSTANTS
    Null = Null
    Tools = {t1}
    Hidden = {}
    HasPool = TRUE
    MaxTurns = 2
    MaxBatch = 4
    MaxDetach = 0
    MaxRestarts = 1
    MaxReopens = 0
    MayExit = FALSE
CHECK_DEADLOCK FALSE
INVARIANT NoStuckRow
