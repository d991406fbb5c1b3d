SPECIFICATION Spec
CONSTANTS
    Containers = {c1, c2}
    Reqs = {r1, r2, r3}
    IfMatch = TRUE
    Seeded = TRUE
    SingleWriter = FALSE
    Readers = FALSE
    JournalMode = "wal"
    CheckpointMode = "truncate"
    Synchronous = "full"
    Unwind = FALSE
    KindsSent <- DataKinds
SYMMETRY Symmetry
INVARIANTS DurableInv
PROPERTIES ManifestOnlyGrows
CHECK_DEADLOCK FALSE
