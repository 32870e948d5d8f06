\* Two threads and main.  The first domain has two addresses, one more than is
\* allowed, the second has one.  Two entries: enough for a domain that is listed twice,
\* for two of different domains, and for memory to be used again.
CONSTANTS
    Threads = {t1, t2}
    Main = Main
    d1 = d1
    d2 = d2
    a = a
    b = b
    Domains <- MCDomains
    IPs <- MCIPs
    Answers <- MCAnswers
    Entries = {x1, x2}
    Null = Null
    Dangling = Dangling
    WINDOW = 2
    PERIOD = 1
    g_flux_ip_max = 1
SYMMETRY Symmetry
SPECIFICATION Spec
INVARIANTS
    NoFalseAlarm
    HealsInAWindow
    CorruptOnlyByClash
CHECK_DEADLOCK FALSE
