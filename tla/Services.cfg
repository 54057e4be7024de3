SPECIFICATION ServicesSpec
CONSTANTS
    ann = ann  bea = bea  t1 = t1  t2 = t2  t3 = t3  l1 = l1  l2 = l2
    e1 = e1  Null = Null
    Part = {"accounts", "registry", "app", "shell", "shapes"}
    Names = {ann, bea}
    Tokens = {t1, t2, t3}
    Logins = {l1, l2}
    InsertMayFail = TRUE
    MaxRestarts = 2
    Owners = {ann}  Hosts = {e1}
    MaxSessions = 2  MaxIngress = 6  MaxRefused = 1  MaxPatches = 1  MayAge = TRUE
    Keys = {t1}  Objects = {1, 2}  MaxSockets = 4  MaxFailures = 3  MaxForced = 1
    MaxBuilds = 3  MaxOutages = 2  MaxOpens = 2
    Payloads <- TestPayloads
    Servers = {1, 2}  Batch = 2  MaxOld = 3  MaxRows = 3  MaxFails = 1
CHECK_DEADLOCK FALSE
INVARIANT TypeOK
INVARIANT SameTokenForever
INVARIANT TokensAccepted
INVARIANT WorkersKnown
INVARIANT OneDelivery
INVARIANT SocketInStep
INVARIANT OfflineLaunch
INVARIANT CensusTrue
PROPERTY Recovers
PROPERTY KeepsGoodToken
PROPERTY ComesBack
PROPERTY Updates
PROPERTY BackfillEnds
