\* Three slots for three colliding keys: the table fills up, wraps around and
\* gets holes.
CONSTANTS
    a = a
    b = b
    c = c
    Keys <- KeysABC
    Home <- HomeABC
    Capacity = 3
    Unused = Unused
    TTLs = {0, 1, 2}
    MaxStores = 4
    MaxTime = 3
SPECIFICATION CacheSpec
INVARIANTS
    CacheTypeOK
    CountExact
    HitIsHonest
    HiddenOnlyByHole
PROPERTIES
    StoreIsKept
