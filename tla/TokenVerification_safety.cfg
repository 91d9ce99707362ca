SPECIFICATION Spec
CONSTANTS
    None = None
    Failed = Failed
    Container = {k1}
    Kid = {i1, i2}
    Key = {x, y}
    MaxFaults = 2
SYMMETRY MCSymmetry
INVARIANTS
    TypeOK
    AcceptedWereListed
    ListedAreAccepted
CHECK_DEADLOCK FALSE
