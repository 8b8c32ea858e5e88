SPECIFICATION Spec
CONSTANTS
    t1 = t1
    t2 = t2
    s1 = s1
    s2 = s2
    s3 = s3
    Nobody = Nobody
    Task = {t1, t2}
    Source = {s1, s2, s3}
    TaskOf <- OneAndTwo
    Limit <- Ceilings
    Committed = {s1}
    Segments <- Lengths
    MaxAttempts <- Attempts
    MaxCancels = 1
PROPERTY ClaimsAfterCooldown
