SPECIFICATION Spec
CONSTANTS
    Containers = {v1, v2}
    MaxRetries = 2
    Concurrency = 2
    PassiveCycle = 2
    Volumes = {a}
    Nil = Nil
SYMMETRY Interchange
INVARIANTS NoLeak ScrapesOpenClient PassiveScheduled PassiveJustified
    SpanBounded OneResult
 
