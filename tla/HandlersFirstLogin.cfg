\* First OIDC logins; checks a claim the code does not keep.
SPECIFICATION HandlersSpec
CONSTANTS
    u1 = u1
    u2 = u2
    g1 = g1
    g2 = g2
    r1 = r1
    r2 = r2
    UserIds = {u1, u2}
    GroupIds = {g1}
    Names = {"Admin"}
    Perms = {"edit"}
    UserEdit = "edit"
    GroupEdit = "edit"
    Releases <- OneRelease
    Everyone = Everyone
    Nobody = Nobody
    NoGroup = NoGroup
    NoName = NoName
    Requests = {r1, r2}
    Operations <- Logins
SYMMETRY RequestSymmetry
INVARIANT FirstLoginIsAdmin
