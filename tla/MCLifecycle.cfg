\* Any two operations, after any past, on one backend and two plans.
SPECIFICATION Spec
CONSTANTS
    o1 = o1
    o2 = o2
    b1 = b1
    v1 = v1
    f1 = f1
    Ops <- TwoOps
    Backends = {b1}
    Plans = {v1, v2}
    Parts = {network, cluster}
    Paths = {f1, f2}
    Earlier <- OneContext
    Before = before
INVARIANTS TypeOK Recorded OnlyOnce ResultIsTrue
PROPERTIES Ends AllocationSpec
CHECK_DEADLOCK FALSE
