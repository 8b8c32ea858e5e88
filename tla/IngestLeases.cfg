SPECIFICATION Spec
CONSTANTS
    t1 = t1
    t2 = t2
    w1 = w1
    w2 = w2
    s1 = s1
    s2 = s2
    k1 = k1
    k2 = k2
    c1 = c1
    c2 = c2
    g1 = g1
    g2 = g2
    NoCommand = NoCommand
    NoKey = NoKey
    NoTask = NoTask
    Nobody = Nobody
    Task = {t1}
    Worker = {w1, w2}
    Source = {s1}
    Key = {k1}
    Command = {c1}
    Generation = {g1}
    GenerationOf <- OneGeneration
    InputKey <- OneInput
    MaxAttempts = 3
    MaxRevisions = 2
    MaxVersion = 2
SYMMETRY Symmetry
INVARIANT OneOwner
INVARIANT AttemptsMirrorTask
INVARIANT LeaseWhileRunning
PROPERTY PublishWhileRunning
PROPERTY CancelSticks
PROPERTY HistoryIsFrozen
PROPERTY LifecycleSpec
