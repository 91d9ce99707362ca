SPECIFICATION Spec
CONSTANTS
    alice = alice
    bob = bob
    general = general
    shipment = shipment
    None = None
    Identity = {alice, bob}
    Channel = {general, shipment}
    Contexts <- MCContexts
    Request = {r1, r2}
    MaxDeliveries = 1
    MaxFaults = 0
SYMMETRY MCSymmetry
INVARIANTS
    TokenImpliesMembership
CHECK_DEADLOCK FALSE
