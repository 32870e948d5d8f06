\* Two threads and two slots: both threads can race to initialise the pool, meet on
\* a slot, and follow each other on a connection; the later queries reuse one.
CONSTANTS
    Threads = {t1, t2}
    PoolSize = 2
    NoThread = NoThread
    NoAnswer = NoAnswer
    Garbage = Garbage
    MaxQueries = 3
SPECIFICATION PoolFairSpec
INVARIANTS
    LockedWhileUsed
    NoLateAnswer
    PoolInv
PROPERTIES
    BurstEnds
\* The process may be killed.
CHECK_DEADLOCK FALSE
