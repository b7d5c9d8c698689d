SPECIFICATION Spec
CONSTANTS
    Uploads = {u1, u2, u3}
    Recovery = recovery
    Permits = 2
    QueueMax = 1
    MaxStuck = 1
    MaxLost = 0
INVARIANT
    RecoveryUnderGate
