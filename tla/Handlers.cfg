\* Two requests at once; one user, two groups, one group name, one permission.
SPECIFICATION HandlersSpec
CONSTANTS
    u1 = u1
    u2 = u2
    g1 = g1
    g2 = g2
    r1 = r1
    r2 = r2
    UserIds = {u1}
    GroupIds = {g1, g2}
    Names = {"Admin"}
    Perms = {"edit"}
    UserEdit = "edit"
    GroupEdit = "edit"
    Releases <- OneRelease
    Everyone = Everyone
    Nobody = Nobody
    NoGroup = NoGroup
    NoName = NoName
    Requests = {r1, r2}
    Operations <- DeletesAndInserts
SYMMETRY IdSymmetry
INVARIANT DirectoryInv
PROPERTY SetupMarkedByAdmin
