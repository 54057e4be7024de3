SPECIFICATION Spec
CONSTANTS
    Null = Null
    Tools = {t1, t2}
    Hidden = {}
    HasPool = FALSE
    MaxTurns = 1
    MaxBatch = 2
    MaxDetach = 0
    MaxRestarts = 0
    MaxReopens = 0
    MayExit = FALSE
CHECK_DEADLOCK FALSE
INVARIANT PendingIsUnanswered
