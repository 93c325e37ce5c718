\* One request at a time; two users, two groups, two group names, one permission.
SPECIFICATION SerialSpec
CONSTANTS
    u1 = u1
    u2 = u2
    g1 = g1
    g2 = g2
    UserIds = {u1, u2}
    GroupIds = {g1, g2}
    Names = {"Admin", "Staff"}
    Perms = {"edit"}
    UserEdit = "edit"
    GroupEdit = "edit"
    Releases <- OneRelease
    Everyone = Everyone
    Nobody = Nobody
    NoGroup = NoGroup
    NoName = NoName
    Requests = {"r"}
    Operations <- Everything
SYMMETRY IdSymmetry
PROPERTY ImplementsDirectory
