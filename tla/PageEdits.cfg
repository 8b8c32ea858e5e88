SPECIFICATION EditSpec
CONSTANTS
    w1 = w1
    w2 = w2
    s1 = s1
    s2 = s2
    i1 = i1
    Worker = {w1, w2}
    Source = {s1, s2}
    Image = {i1}
    Nobody = Nobody
    NoSource = NoSource
    MaxRevisions = 3
    MaxPrunes = 1
SYMMETRY Symmetry
CHECK_DEADLOCK FALSE
INVARIANT FactsLostOnlyToStaleLook
INVARIANT GarbageOnlyFromCrashes
INVARIANT ImagesLostOnlyToRequests
PROPERTY EditsReplaceWhatTheyShowed
