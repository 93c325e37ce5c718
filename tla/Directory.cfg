\* Two users, two groups, the two permissions the handlers check, and a
\* release that declares only one of them.
SPECIFICATION Spec
CONSTANTS
    u1 = u1
    u2 = u2
    g1 = g1
    g2 = g2
    UserIds = {u1, u2}
    GroupIds = {g1, g2}
    Names = {"Admin", "Staff"}
    Perms = {"user:edit", "group:edit"}
    UserEdit = "user:edit"
    GroupEdit = "group:edit"
    Releases <- TwoReleases
    Everyone = Everyone
    Nobody = Nobody
    NoGroup = NoGroup
    NoName = NoName
SYMMETRY IdSymmetry
VIEW Stored
INVARIANTS TypeOK AdminGroupExists PermissionImpliesUser
PROPERTIES
    AdminGroupKeepsAMember AdminGroupKeepsPermissions NoEscalation
    PermissionChangesAnnounced FirstUserIsAdmin SetupYieldsAdmin
