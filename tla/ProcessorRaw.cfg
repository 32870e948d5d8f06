\* One cached name, asked for by two threads at the same time.
CONSTANTS
    u1 = u1
    tcp = tcp
    doh = doh
    good = good
    other = other
    Localhost = localhost
    NoClient = NoClient
    Unused = Unused
    NoBlock = NoBlock
    NoReport = NoReport
    Threads = {u1, tcp}
    Kind <- KindUT
    Clients = {localhost}
    Keys = {good}
    Home <- HomeOne
    Capacity = 2
    Ids = {1, 2}
    Blacklist = {}
    PreBlocked = {}
    Outcomes = {"answer"}
    Blocks = {b1, b2}
    MAX_EVENTS = 2
    WINDOW = 1
    BAN = 1
    Lag = 1
    MaxTime = 0
    MaxQueries = 2
SPECIFICATION Spec
INVARIANTS
    RawAnswersQuery
CHECK_DEADLOCK FALSE
