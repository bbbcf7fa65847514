SPECIFICATION Spec
CONSTANTS
    Cleaners = {c1, c2}
    Ids = {k1, k2, k3}
    Allocations = {A, B}
    Attempts = {t1, t2}
    NoAttempt = NoAttempt
    NoId = NoId
    NoReference = NoReference
    Owner <- MCOwnerRace
    Calls <- MCCallsRace
    PageSize = 2
    MaxResults = 2
    k1 = k1
    k2 = k2
    k3 = k3
    k4 = k4
    A = A
    B = B
    t1 = t1
    t2 = t2
INVARIANT TypeOK
INVARIANT ExplicitBeforeList
INVARIANT MissedOnlyByShift
INVARIANT MismatchIsReal
PROPERTY CustodySpec
PROPERTY Terminates
CHECK_DEADLOCK FALSE
