\* One user, two requests at once; tokens live a second, the decoder's
\* leeway is a second, and the second logout fills the counter.
SPECIFICATION FairSpec
CONSTANTS
    r1 = r1
    r2 = r2
    Users = {"u"}
    Requests = {r1, r2}
    NoToken = NoToken
    Lifetime = 1
    Leeway = 1
    Limit = 1
    LoginTimes = {0, 1}
    MaxTime = 3
INVARIANTS TypeOK CountBounded LogoutRemembered
PROPERTIES LateRequestsRefused ExpiredRowsRemoved
