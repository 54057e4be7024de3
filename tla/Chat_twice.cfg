SPECIFICATION SessionSpec
CONSTANTS
    Null = Null
    u1 = u1  u2 = u2
    Payloads <- TestPayloads
    MemoryLimit = 1
    ToolCalls = {t1, t2, h1}
    HiddenCalls = {h1}
    WorkerCalls = {t3}
    DigestTurns = 1
    WorkerTurns = 2
    MaxPosted = 2
    Part = {"chat"}
    Scenes <- TestScenes
    MaxEvents <- TestEvents
    MaxWire = 1
    MaxSends = 2
    MaxReopens = 1
CHECK_DEADLOCK FALSE
INVARIANT NeverTwice
