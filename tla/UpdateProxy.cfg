\* Two sessions of one user in different inner shards; a trigger channel of two updates and
\* session channels of one; one worker.
SPECIFICATION Spec
CONSTANTS
    s1 = s1
    s2 = s2
    s3 = s3
    u1 = u1
    u2 = u2
    Users = {u1, u2}
    Sessions = {s1, s2}
    Owner <- Owners
    Shards = {1, 2}
    OuterShard <- UsersApart
    InnerShard <- SessionsApart
    Workers = 1
    TriggerCap = 2
    SessionCap = 1
    MaxMessages = 3
    Everyone = Everyone
    None = None
INVARIANTS TypeOK NothingMissed IteratesEntries
PROPERTY DeliveredInOrder
