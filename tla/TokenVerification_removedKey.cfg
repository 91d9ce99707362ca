SPECIFICATION Spec
CONSTANTS
    None = None
    Failed = Failed
    Container = {k1, k2}
    Kid = {i1}
    Key = {x}
    MaxFaults = 0
SYMMETRY MCSymmetry
INVARIANTS
    AcceptedAreCurrent
CHECK_DEADLOCK FALSE
