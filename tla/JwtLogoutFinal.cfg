\* The instance of JwtRevocation.cfg; checks what a test says of a logout.
SPECIFICATION Spec
CONSTANTS
    r1 = r1
    r2 = r2
    Users = {"u"}
    Requests = {r1, r2}
    NoToken = NoToken
    Lifetime = 1
    Leeway = 1
    Limit = 1
    LoginTimes = {0, 1}
    MaxTime = 3
SYMMETRY RequestSymmetry
PROPERTY LogoutIsFinal
