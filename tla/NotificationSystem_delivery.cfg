SPECIFICATION FairSystemSpec
CONSTANTS
    None = None
    Failed = Failed
    Channel = {general}
    Email = {a1}
    Identity = {alice}
    Worker = {w1}
    Container = {k1, k2}
    BatchSize <- MCBatchSize
    Timeout <- MCTimeout
    IgnoreOnlineStatus = FALSE
    MaxAttempts = 2
    MaxMessages = 2
    MaxFaults = 1
INVARIANTS
    SystemTypeOK
    MailsFollowChat
    MailedOncePerMessage
    NothingIsForgotten
PROPERTIES
    ImplementsService
    EveryMessageMailed
    QueueDrains
    PostedLeadsToMail
CHECK_DEADLOCK FALSE
