SPECIFICATION Spec
CONSTANTS
    None = None
    ServiceUser = ServiceUser
    Run = {r1, r2, r3}
    User = {alice, bob, carol}
    Role = {anonymous1, anonymous2, anonymous3}
SYMMETRY MCSymmetry
INVARIANTS
    TypeOK
    RolesExist
    PermissionsFixed
PROPERTIES
    ImplementsMigration
CHECK_DEADLOCK FALSE
