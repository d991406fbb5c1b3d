SPECIFICATION Spec
CONSTANTS
    Containers = {c1, c2}
    Reqs = {r1, r2, r3, r4}
    IfMatch = TRUE
    Seeded = FALSE
    SingleWriter = TRUE
    Readers = FALSE
    JournalMode = "wal"
    CheckpointMode = "truncate"
    Synchronous = "full"
    Unwind = FALSE
    KindsSent <- TxnKinds
SYMMETRY Symmetry
INVARIANTS TypeOK AckedDurable ServesEveryAck AppliedOnce
PROPERTIES AckFlushesAll ImplementsDurableLog
CHECK_DEADLOCK FALSE
