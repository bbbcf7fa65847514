SPECIFICATION Spec
CONSTANTS
    Cleaners = {c1}
    Ids = {k1, k2, k3, k4}
    Allocations = {A, B}
    Attempts = {t1, t2}
    NoAttempt = NoAttempt
    NoId = NoId
    NoReference = NoReference
    Owner <- MCOwner
    Calls <- MCCallsPaged
    PageSize = 1
    MaxResults = 3
    k1 = k1
    k2 = k2
    k3 = k3
    k4 = k4
    A = A
    B = B
    t1 = t1
    t2 = t2
INVARIANT CleanedDueGone
CHECK_DEADLOCK FALSE
