SPECIFICATION Spec
CONSTANTS
    None = None
    Failed = Failed
    Channel = {general, random}
    Container = {k1, k2}
    MaxMessages = 2
    MaxAttempts = 2
    MaxFaults = 2
SYMMETRY MCSymmetry
INVARIANTS
    TypeOK
    QueuedOnce
    AcknowledgedAreQueued
    QueuedInOrder
    FailuresIsolated
CHECK_DEADLOCK FALSE
