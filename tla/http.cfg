SPECIFICATION FairHttpSpec
CONSTANTS
    Containers = {c1}
    Reqs = {r1, r2, r3}
    IfMatch = TRUE
    Seeded = FALSE
    SingleWriter = TRUE
    Readers = FALSE
    JournalMode = "wal"
    CheckpointMode = "truncate"
    Synchronous = "full"
    Unwind = TRUE
    KindsSent <- DataKinds
    AuthSet = TRUE
    BodyCap = TRUE
    RequestsSent <- OneOfEach
INVARIANTS HttpTypeOK OkIsDurable NoUncheckedWrite RefusalLeavesNoTrace
PROPERTIES ImplementsHttpLog EveryRequestAnswered
CHECK_DEADLOCK FALSE
