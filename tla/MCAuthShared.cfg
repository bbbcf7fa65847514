SPECIFICATION Spec
CONSTANTS
    Runs = {r1, r2}
    Owners = {}
    Dirs = {d1}
    Dir <- MCDir
    Offers <- MCOffersShared
    Policied = {r1}
    CertOf <- MCCertOf
    NoRun = NoRun
    NoManifest = NoManifest
    Ids = {k1, k2}
    Allocations = {A}
    Attempts = {t1, t2}
    NoAttempt = NoAttempt
    NoId = NoId
    NoReference = NoReference
    Owner <- MCOwner
    Calls <- MCCalls
    PageSize = 2
    MaxResults = 2
    r1 = r1
    r2 = r2
    o1 = o1
    d1 = d1
    d2 = d2
    k1 = k1
    k2 = k2
    A = A
    t1 = t1
    t2 = t2
INVARIANT TypeOK
INVARIANT NoMixedBundle
INVARIANT AvailableIsComplete
INVARIANT NoSilentLeak
PROPERTY Ends
CHECK_DEADLOCK FALSE
