\* Two users in one shard; channels of one message, a worker is always free.
SPECIFICATION FairSpec
CONSTANTS
    s1 = s1
    s2 = s2
    s3 = s3
    u1 = u1
    u2 = u2
    Users = {u1, u2}
    Sessions = {s1, s3}
    Owner <- Owners
    Shards = {1}
    OuterShard <- UsersTogether
    InnerShard <- SessionsTogether
    Workers = 3
    TriggerCap = 1
    SessionCap = 1
    MaxMessages = 3
    Everyone = Everyone
    None = None
PROPERTY UpdatesReachSessions
