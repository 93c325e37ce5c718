\* Accounts: two users, two spellings of one address and another.  Emails: two requests and the
\* sweeper on three threads.  Lives of three intervals.  Two saves, logins, requests and callers at once.
\* The system may stop: the bounds are used up, the application is built.
SPECIFICATION ServerSpec
SYMMETRY Symmetry
CONSTANTS
    u1 = u1
    u2 = u2
    s1 = s1
    s2 = s2
    ann = ann
    Ann = Ann
    bob = bob
    v1 = v1
    v2 = v2
    token = token
    junk = junk
    AccountIds = {u1, u2}
    Addresses = {ann, Ann, bob}
    Lowercase <- OneSpelling
    Subjects = {s1, s2}
    NoSubject = NoSubject
    NoRow = NoRow
    Nothing = Nothing
    MaxDeaths = 2
    MaxFailures = 1
    Painters = {w1, w2}
    Pictures = {i1, i2}
    NoPicture = NoPicture
    Tasks = {t1, t2}
    Mailboxes = {ann, bob}
    FirstEmail = ann
    Threads = 3
    MaxChanges = 2
    NoChange = NoChange
    Keys = {k1, k2}
    Life = 6
    Interval = 2
    NoEntry = NoEntry
    Saves = {j1, j2}
    Offered <- TwoSettings
    Envs <- TwoEnvironments
    Attempts = 2
    Unset = Unset
    Stopped = Stopped
    Flows = {f1, f2}
    Browsers = {b1, b2}
    Callbacks = {c1, c2}
    Providers = {p}
    None = None
    Requests = {r1, r2}
    Tokens = {token}
    Garbage = {junk}
    Carried <- FourHeaders
    NoToken = NoToken
    Errors = {"db", "json", "reqwest"}
    Callers = {d1, d2}
    Contents = {v1, v2}
    Size <- Sizes
    Largest = 3
    Ranges <- ThreeRanges
    NoContent = NoContent
    WholeFile = WholeFile
INVARIANTS
    HomeKept
    LockComesFree
    NoneOutlives
    LiveIsSaved
    EnvStaysOut
    LoginsAreOwn
    CodesSentOnce
    StartsWell
    KeysStay
    AnsweredForCause
    CountersAgree
    ExtensionsFound
    BlobsTrue
    TypesOK
PROPERTIES
    ProviderPasswords
    SignInKept
    AddressProven
CHECK_DEADLOCK FALSE
