SPECIFICATION Spec
CONSTANTS
    MaxRows = 2
    TimeoutSet = TRUE
    Rows = {0, 1, 2, 3}
    Changed = {0, 1, 2}
    RowIds = {7, 8}
INVARIANTS CapIsExact CountersAreOwn DeadlineEndsWithCall
PROPERTY ImplementsAtomicExec
