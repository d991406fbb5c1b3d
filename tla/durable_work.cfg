SPECIFICATION Spec
CONSTANTS
    Containers = {c1}
    Reqs = {r1, r2}
    IfMatch = TRUE
    Seeded = FALSE
    SingleWriter = TRUE
    Readers = FALSE
    JournalMode = "wal"
    CheckpointMode = "truncate"
    Synchronous = "full"
    Unwind = FALSE
    KindsSent <- DataKinds
PROPERTIES DurableWorkIsCheckpointed
CHECK_DEADLOCK FALSE
