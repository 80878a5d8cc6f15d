SPECIFICATION ServerSpec
CONSTANTS
    r1 = r1
    r2 = r2
    t1 = t1
    noTag = noTag
    d1 = d1
    d2 = d2
    w1 = w1
    w2 = w2
    h1 = h1
    h2 = h2
    Repos = {r1}
    Tags = {t1}
    Digests = {d1, d2}
    Workers = {w1}
    Requests = {h1}
    QueueCap = 1
    PageSize = 10
    MaxEnvelope = 1
    PushHooks = FALSE
    DeleteHooks = FALSE
    RegistryMayFail = FALSE
    IndexMayFail = FALSE
    MaxEvents = 2
    MaxRetries = 0
    ByDigest = noTag
    MaxCrashes = 0
    None = None
INVARIANT BuiltIsRegistry
CHECK_DEADLOCK FALSE
