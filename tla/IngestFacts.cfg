SPECIFICATION Spec
CONSTANTS
    t1 = t1
    t2 = t2
    w1 = w1
    w2 = w2
    s1 = s1
    s2 = s2
    k1 = k1
    k2 = k2
    c1 = c1
    c2 = c2
    g1 = g1
    g2 = g2
    NoCommand = NoCommand
    NoKey = NoKey
    NoTask = NoTask
    Nobody = Nobody
    Task = {t1, t2}
    Worker = {w1, w2}
    Source = {s1, s2}
    Key = {k1, k2}
    Command = {c1, c2}
    Generation = {g1, g2}
    GenerationOf <- TwoGenerations
    InputKey <- EditedInputs
    MaxAttempts = 1
    MaxRevisions = 3
    MaxVersion = 1
SYMMETRY Symmetry
INVARIANT HeadIsNewest
INVARIANT LinearHistory
INVARIANT CompletedIsCommitted
INVARIANT BoundUnlessSkipped
PROPERTY FencedSpec
