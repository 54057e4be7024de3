SPECIFICATION ChannelSpec
CONSTANTS
    a1 = a1  a2 = a2  b1 = b1  pa = pa  alice = alice  bob = bob
    h1 = h1  h2 = h2  Null = Null
    Part = {"accounts", "pool", "memory"}
    Sessions = {a1, a2, b1}
    Phones = {pa}
    Credentials = {alice, bob}
    Owner <- MCOwner
    Cred <- MCCred
    Slots = {h1, h2}
    HasPool = TRUE
    QueryMayFail = TRUE
    InsertMayFail = FALSE
    HistoryLimit = 1
    Deltas = {}
    Notes = {1}
    MaxEvents = 1
    MaxBatch = 2
    MaxPosts = 1
    MaxDown = 0
    PoolHistory = 2
    MemoryHistory = 1
    Streamed = {2}
    Notified = {3}
    MaxEmitted = 3
    MaxPosted = 2
    PoolUnread = 0
    MemoryUnread = 1
CHECK_DEADLOCK FALSE
INVARIANT TypeOK
INVARIANT Isolation
INVARIANT AsSubscribed
INVARIANT ExactInMemory
PROPERTY PhoneCatchesUp
PROPERTY HeldExactly
