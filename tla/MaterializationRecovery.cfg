SPECIFICATION FairSpec
CONSTANTS
    s1 = s1
    s2 = s2
    e1 = e1
    NoIndex = NoIndex
    NoPages = NoPages
    Source = {s1}
    Edit = {e1}
    MaxRevisions = 2
    MaxEdits = 2
    MaxForced = 1
    MaxFaults = 2
INVARIANT CurrentIsOnDisk
INVARIANT CleanIsServed
PROPERTY SwitchIsPrepared
PROPERTY SingleEditDetected
PROPERTY ViewSpec

PROPERTY Recovers
