SPECIFICATION ChannelSpec
CONSTANTS
    a1 = a1  a2 = a2  b1 = b1
    pa = pa
    alice = alice  bob = bob
    h1 = h1  h2 = h2
    Null = Null
    Part = {"accounts"}
    Credentials = {alice, bob}
    Owner <- MCOwner
    Cred <- MCCred
    Sessions = {a1}
    Phones = {pa}
    Slots = {h1}
    HasPool = TRUE
    QueryMayFail = FALSE
    InsertMayFail = FALSE
    HistoryLimit = 2
    Deltas = {2}
    Notes = {3}
    MaxEvents = 3
    MaxBatch = 2
    MaxPosts = 1
    MaxDown = 1
    PoolHistory = 2
    MemoryHistory = 1
    Streamed = {2}
    Notified = {3}
    MaxEmitted = 3
    MaxPosted = 2
    PoolUnread = 0
    MemoryUnread = 1
INVARIANT NothingDropped
