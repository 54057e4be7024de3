SPECIFICATION HostSpec
CONSTANTS
    g1 = g1  g2 = g2  g3 = g3  Null = Null
    Part = {"terminal", "calls", "events", "headless", "interactive", "driver", "launch", "login", "surface"}
    Asks <- TestAsks
    Keys <- TestKeys
    Scripts <- TestScripts
    MaxPressed = 4
    Gates = {g1, g2, g3}
    Line <- TestLine
    Col <- TestCol
    Rebinds <- TestRebinds
    Sticky = {g3}
    Spawner = g3
    Slack = 3
    MaxHits = 4
    Envs = {"e1", "e2"}
    MaxTurns = 3
    MaxRegisters = 2
    MaxDrops = 1
    Attempts = 2
    MaxProcs = 5
    Urls = {u1, u2}
    Default = u1
    Tokens <- TestTokens
    Terminals = {p1, p2}
    MaxRefused = 1
    MaxTries = 1
    Patches = {228, 229, 237, 238, 239, 240}
    Names = {"a", "b"}
    MaxDrift = 1
CHECK_DEADLOCK FALSE
INVARIANT PromptsInStep
INVARIANT ClientInStep
INVARIANT GatesRebound
INVARIANT TurnsInStep
INVARIANT TreeReaped
INVARIANT OwnToken
INVARIANT ProfileFits
PROPERTY NobodyHangs
