SPECIFICATION Spec
CONSTANTS
    Containers = {c1, c2}
    Reqs = {r1, r2, r3}
    IfMatch = TRUE
    Seeded = TRUE
    SingleWriter = FALSE
    Readers = FALSE
    JournalMode = "rollback"
    CheckpointMode = "truncate"
    Synchronous = "full"
    Unwind = FALSE
    KindsSent <- TxnKinds
SYMMETRY Symmetry
INVARIANTS DurableInv
PROPERTIES AckFlushesAll ImplementsDurableLog
CHECK_DEADLOCK FALSE
