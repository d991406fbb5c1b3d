SPECIFICATION Spec
CONSTANTS
    Containers = {c1, c2}
    Reqs = {r1, r2, r3}
    IfMatch = FALSE
    Seeded = FALSE
    SingleWriter = TRUE
    Readers = TRUE
    JournalMode = "wal"
    CheckpointMode = "restart"
    Synchronous = "normal"
    Unwind = TRUE
    KindsSent <- DataKinds
SYMMETRY Symmetry
INVARIANTS DurableInv
PROPERTIES AckFlushesAll
CHECK_DEADLOCK FALSE
