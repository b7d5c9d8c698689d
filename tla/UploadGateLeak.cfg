SPECIFICATION Spec
CONSTANTS
    Uploads = {u1, u2, u3}
    Recovery = recovery
    Permits = 1
    QueueMax = 1
    MaxStuck = 0
    MaxLost = 1
PROPERTY
    RefusedMeansOverload
