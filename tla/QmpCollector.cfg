SPECIFICATION FairSpec
CONSTANTS
    p1 = p1
    p2 = p2
    a1 = a1
    a2 = a2
    b1 = b1
    d1 = d1
    Containers = {a1, a2, b1}
    Pods = {p1, p2}
    PodOf <- TwoPods
    Disks = {d1}
    DisksOf <- OneDisk
    Concurrency = 2
    None = None
INVARIANTS ClientsOwned OneResultPerPod
PROPERTIES HistogramKept BrokenDropped DepartedPruned ShutdownReleases
