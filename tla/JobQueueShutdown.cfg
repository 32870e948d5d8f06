\* One worker is enough to be busy, or asleep, when the contexts are freed.
CONSTANTS
    Workers = {w1}
    Main = Main
    NoThread = NoThread
    Size = 2
    MaxPackets = 2
SPECIFICATION Spec
INVARIANTS
    WorkersLetGo
CHECK_DEADLOCK FALSE
