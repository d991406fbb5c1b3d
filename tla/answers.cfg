SPECIFICATION FairSpec
CONSTANTS
    Containers = {c1, c2}
    Reqs = {r1, r2}
    IfMatch = TRUE
    Seeded = TRUE
    SingleWriter = FALSE
    Readers = TRUE
    JournalMode = "wal"
    CheckpointMode = "passive"
    Synchronous = "full"
    Unwind = TRUE
    KindsSent <- AllKinds
INVARIANTS ConnectionKeepsConf CheckpointUndisturbed
PROPERTIES AckFlushesUpToReaders EveryCallAnswered PoisonedNeverAcks
CHECK_DEADLOCK FALSE
