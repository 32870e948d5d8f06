\* Two clients and two threads: events of both interleave in the log, and a
\* report can be overtaken.  MaxReports leaves room for two bans.
CONSTANTS
    NoReport = NoReport
    Threads = {t1, t2}
    Clients = {c1, c2}
    MAX_EVENTS = 2
    WINDOW = 2
    BAN = 3
    Lag = 1
    MaxTime = 4
    MaxReports = 4
SPECIFICATION Spec
SYMMETRY Symmetry
INVARIANTS
    BanComplete
    BanJustified
    IInv
PROPERTIES
    PardonIsLocal
\* The model stops only where a bound is reached.
CHECK_DEADLOCK FALSE
