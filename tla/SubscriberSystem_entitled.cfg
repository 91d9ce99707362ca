SPECIFICATION SystemSpec
CONSTANTS
    None = None
    alice = alice
    bob = bob
    general = general
    Channel = {general}
    Email = {a1}
    Identity = {alice, bob, eve}
    Worker = {w1}
    Code = {c1}
    Request = {r1, r2}
    Attempt = {v1}
    Contexts <- MCContexts
    BatchSize <- MCBatchSize
    Timeout <- MCTimeout
    IgnoreOnlineStatus = FALSE
    MaxDeliveries = 1
    MaxMessages = 1
    MaxFaults = 1
SYMMETRY MCSymmetry
INVARIANTS
    MailedAreEntitled
PROPERTIES
    ToldAreMailed
CHECK_DEADLOCK FALSE
