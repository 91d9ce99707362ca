SPECIFICATION FairSpec
CONSTANTS
    alice = alice
    general = general
    None = None
    Identity = {alice, eve}
    Channel = {general}
    Email = {a1, a2}
    Code = {c1, c2}
    Request = {r1, r2}
    Attempt = {v1}
    MaxDeliveries = 2
    MaxFaults = 2
    Contexts <- MCContexts
INVARIANTS
    TypeOK
    OneCodePerAddress
    OwnershipProven
    RepliesHold
    AuthorisedSubscriptions
    EndedAreMailed
PROPERTIES
    ImplementsOwnership
    ConfirmationMailedOrFault
CHECK_DEADLOCK FALSE
