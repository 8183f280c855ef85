SPECIFICATION Spec
CONSTANTS
    Programs = {"block"}
    b1 = b1
    b2 = b2
    b3 = b3
    n1 = n1
    n2 = n2
    k1 = k1
    k2 = k2
    k3 = k3
    Requests = {b1}
    of <- Some
    Cpus = {c1}
    StartElems = {s1}
    HistElems = {h1}
    Times <- SlowTimes
    MaxSlots = 26
    Boundaries <- DefaultBoundaries
    Nil = Nil
INVARIANT SlowNotCounted
