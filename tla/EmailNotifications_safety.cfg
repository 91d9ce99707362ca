SPECIFICATION Spec
CONSTANTS
    None = None
    Channel = {general, random}
    Email = {a1}
    Identity = {alice}
    Worker = {w1, w2}
    BatchSize = 2
    Timeout = 300
    IgnoreOnlineStatus = FALSE
    MaxMessages = 2
    MaxFaults = 2
SYMMETRY MCSymmetry
INVARIANTS
    TypeOK
    GroupExclusive
    MailsInOrder
    MailedOnce
    OnlyVerifiedAreMailed
PROPERTIES
    FirstOfBatchMailed
CHECK_DEADLOCK FALSE
