SPECIFICATION RetrySpec
CONSTANTS
    alice = alice
    general = general
    None = None
    Identity = {alice}
    Channel = {general}
    Email = {a1}
    Code = {c1, c2}
    Request = {r1, r2}
    Attempt = {v1}
    MaxDeliveries = 2
    MaxFaults = 1
    Contexts <- MCContexts
PROPERTIES
    ConfirmationMailed
CHECK_DEADLOCK FALSE
