\* A UDP worker and a DoH connection, a remote and a local client.  Two names collide
\* in a table of two slots; one is blocked and reaches the cache only as the target of
\* an alias.  Three buffers, so that a freed one is used again.
CONSTANTS
    u1 = u1
    tcp = tcp
    doh = doh
    good = good
    other = other
    Localhost = localhost
    NoClient = NoClient
    Unused = Unused
    NoBlock = NoBlock
    NoReport = NoReport
    Threads = {u1, doh}
    Kind <- KindUD
    Clients = {c1, localhost}
    Keys = {good, other}
    Home <- HomeGood
    Capacity = 2
    Ids = {1}
    Blacklist = {other}
    PreBlocked = {}
    Outcomes = {"answer", "zero_ttl", "cname", "referral", "negative", "fail"}
    Blocks = {b1, b2, b3}
    MAX_EVENTS = 1
    WINDOW = 1
    BAN = 1
    Lag = 1
    MaxTime = 2
    MaxQueries = 3
SPECIFICATION Spec
SYMMETRY Symmetry
INVARIANTS
    AnsweredOnce
    BuffersOwned
    OvershootBound
CHECK_DEADLOCK FALSE
