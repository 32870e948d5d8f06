\* Two threads and main on one bucket with two domains.  Decay and export have one
\* period, as in the code, and a packet comes every second.
CONSTANTS
    Threads = {t1, t2}
    Main = Main
    Domains = {d1, d2}
    Entries = {x1, x2, x3}
    Null = Null
    Dangling = Dangling
    MaxBlocks = 3
    DECAY_INTERVAL = 3
    EXPORT = 3
    Gap = 0
SYMMETRY Symmetry
SPECIFICATION Spec
INVARIANTS
    NeverOvercounts
    SureIsListed
    CorruptOnlyByDecay
    ExportedBeforeForgotten
CHECK_DEADLOCK FALSE
