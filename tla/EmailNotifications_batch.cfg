SPECIFICATION FairSpec
CONSTANTS
    None = None
    Channel = {general}
    Email = {a1}
    Identity = {alice}
    Worker = {w1, w2}
    BatchSize = 2
    Timeout = 300
    IgnoreOnlineStatus = FALSE
    MaxMessages = 2
    MaxFaults = 0
PROPERTIES
    EveryMessageMailed
CHECK_DEADLOCK FALSE
