\* The queue: three workers and a ring of two; five packets wrap the ring twice over
\* and overfill it while the workers are busy.  The limiter: one client is enough, for
\* no variable of one client is read for another.
CONSTANTS
    Workers = {w1, w2, w3}
    Main = Main
    NoThread = NoThread
    Size = 2
    MaxPackets = 5
    Clients = {c1}
    MaxTokens = 2
    UIntMod = 16
    MaxTime = 6
    MaxOffered = 4
SPECIFICATION FrontSpec
INVARIANTS
    NoLostWakeup
    IInv
    WindowBound
    NoStarvation
    LimitInv
PROPERTIES
    RefinesFifo
    AcceptedIsStarted
\* The process ends with exit(0).
CHECK_DEADLOCK FALSE
