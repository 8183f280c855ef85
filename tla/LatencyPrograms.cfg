SPECIFICATION Spec
CONSTANTS
    Programs = {"block", "nfs", "kprobe"}
    b1 = b1
    b2 = b2
    b3 = b3
    n1 = n1
    n2 = n2
    k1 = k1
    k2 = k2
    k3 = k3
    Requests = {b1, b2, b3, n1, n2, k1, k2, k3}
    of <- Some
    Cpus = {c1, c2}
    StartElems = {s1, s2}
    HistElems = {h1, h2}
    Times <- SomeTimes
    MaxSlots = 15
    Boundaries <- SmallBoundaries
    Nil = Nil
SYMMETRY Interchange
INVARIANTS TypeOK AttributedRight CreatesOnce SlotsExact BucketsBracket
PROPERTY NeverTooLong
