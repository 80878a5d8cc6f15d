SPECIFICATION HookFairSpec
CONSTANTS
    r1 = r1
    r2 = r2
    t1 = t1
    d1 = d1
    w1 = w1
    w2 = w2
    h1 = h1
    onPush = onPush
    onDelete = onDelete
    Hooks = {onDelete}
    Event <- EventOfHook
    HooksMayHang = TRUE
    Repos = {r1, r2}
    Tags = {t1}
    Digests = {d1}
    Workers = {w1, w2}
    Requests = {h1}
    QueueCap = 2
    PageSize = 1
    MaxEnvelope = 2
    PushHooks = FALSE
    DeleteHooks = TRUE
    RegistryMayFail = TRUE
    IndexMayFail = TRUE
    MaxEvents = 3
    MaxRetries = 1
    None = None
INVARIANTS Agreement Settled OneAtATime DeleteHooksStart
CHECK_DEADLOCK FALSE
PROPERTIES HooksTellTheTruth EventuallyQuiescent HooksDrain
