SPECIFICATION Spec
CONSTANTS
    r1 = r1
    r2 = r2
    t1 = t1
    t2 = t2
    d1 = d1
    d2 = d2
    w1 = w1
    w2 = w2
    w3 = w3
    h1 = h1
    h2 = h2
    Repos = {r1}
    Tags = {t1, t2}
    Digests = {d1, d2}
    Workers = {w1, w2}
    Requests = {h1, h2}
    QueueCap = 1
    PageSize = 10
    MaxEnvelope = 1
    PushHooks = FALSE
    DeleteHooks = FALSE
    RegistryMayFail = FALSE
    IndexMayFail = FALSE
    MaxEvents = 3
    MaxRetries = 0
    None = None
SYMMETRY Symmetry
INVARIANT IndexIsRegistry
CHECK_DEADLOCK FALSE
