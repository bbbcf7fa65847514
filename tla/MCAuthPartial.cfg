SPECIFICATION Spec
CONSTANTS
    Runs = {r1}
    Owners = {o1}
    Dirs = {d1, d2}
    Dir <- MCDirOwn
    Offers <- MCOffersPolicied
    Policied = {r1}
    CertOf <- MCCertOf
    NoRun = NoRun
    NoManifest = NoManifest
    Ids = {k1}
    Allocations = {A}
    Attempts = {t1}
    NoAttempt = NoAttempt
    NoId = NoId
    NoReference = NoReference
    Owner <- MCOwnerOne
    Calls <- MCOwnerCalls
    PageSize = 2
    MaxResults = 2
    r1 = r1
    r2 = r2
    o1 = o1
    d1 = d1
    d2 = d2
    k1 = k1
    k2 = k2
    A = A
    t1 = t1
    t2 = t2
INVARIANT NoPartialBundle
CHECK_DEADLOCK FALSE
