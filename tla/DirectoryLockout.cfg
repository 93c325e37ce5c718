\* The instance of Directory.cfg; checks a claim the code does not keep.
SPECIFICATION Spec
CONSTANTS
    u1 = u1
    u2 = u2
    g1 = g1
    g2 = g2
    UserIds = {u1, u2}
    GroupIds = {g1, g2}
    Names = {"Admin", "Staff"}
    Perms = {"user:edit", "group:edit"}
    UserEdit = "user:edit"
    GroupEdit = "group:edit"
    Releases <- OneRelease
    Everyone = Everyone
    Nobody = Nobody
    NoGroup = NoGroup
    NoName = NoName
SYMMETRY IdSymmetry
PROPERTY AdminGroupNeverEmptied
