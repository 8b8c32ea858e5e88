SPECIFICATION Spec
CONSTANTS
    e0 = e0
    e1 = e1
    e2 = e2
    q0 = q0
    q1 = q1
    q2 = q2
    m1 = m1
    NoFile = NoFile
    NoTurn = NoTurn
    Free = Free
    Done = Done
    Execution = {e0, e1, e2}
    Mark = {m1}
    Request = {q0, q1, q2}
    Sent <- Plans
    MaxRevision = 3
CONSTRAINT Unclobbered
SYMMETRY Symmetry
CHECK_DEADLOCK FALSE
INVARIANT TurnsSurvive
INVARIANT AnsweredIsRecorded
INVARIANT ImagesLostOnlyToSweeps
PROPERTY TalkSpec
