SPECIFICATION BenchSpec
CONSTANTS
    Runs = 2
    Iterations = 3
    Seeds = 2
    Times = {1, 4}
INVARIANTS BenchTypeOK SummaryHasItsRecords ReadsSeeTheSeed LatenciesAreOrdered
CHECK_DEADLOCK FALSE
