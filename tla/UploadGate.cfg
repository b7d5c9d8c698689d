SPECIFICATION FairSpec
CONSTANTS
    Uploads = {u1, u2, u3, u4}
    Recovery = recovery
    Permits = 2
    QueueMax = 2
    MaxStuck = 2
    MaxLost = 2
INVARIANTS
    Conserved
    WithinLimits
    CountedExactly
PROPERTY
    WaitersServed
