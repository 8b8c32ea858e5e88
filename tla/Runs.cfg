SPECIFICATION Spec
CONSTANTS
    r1 = r1
    r2 = r2
    c1 = c1
    c2 = c2
    Run = {r1}
    Client = {c1, c2}
    Submitter = Submitter
    Worker = Worker
    NoRun = NoRun
    MaxReports = 3
    MaxCancels = 1
    MaxCrashes = 1
CHECK_DEADLOCK FALSE
INVARIANT OutcomeReported
INVARIANT CancelSticks
INVARIANT EndIsAnnounced
PROPERTY EveryRunSettles
