SPECIFICATION FairSpec
CONSTANTS
    Containers = {v1}
    MaxRetries = 2
    Concurrency = 1
    PassiveCycle = 2
    Volumes = {a, b}
    Nil = Nil
PROPERTY LabelSettles
