SPECIFICATION Spec
CONSTANTS
    t1 = t1
    t2 = t2
    c1 = c1
    c2 = c2
    Task = {t1}
    Caller = {c1, c2}
    Nobody = Nobody
    NoTask = NoTask
    ProviderOf <- OneProvider
    MaxWorkers = 2
    Escapes = FALSE
    Pauses = FALSE
    MaxOps = 3
    MaxAttempts = 2
CHECK_DEADLOCK FALSE
INVARIANT QueuedIsScheduled
