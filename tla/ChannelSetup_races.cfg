SPECIFICATION FairSpec
CONSTANTS
    alice = alice
    bob = bob
    general = general
    shipment = shipment
    None = None
    Identity = {alice, bob}
    Channel = {general, shipment}
    Contexts <- MCContexts
    Request = {r1, r2}
    MaxDeliveries = 1
    MaxFaults = 2
INVARIANTS
    TypeOK
    MembersAuthorised
    SetupComplete
PROPERTIES
    TokenLeadsToMembership
CHECK_DEADLOCK FALSE
