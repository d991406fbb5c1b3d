SPECIFICATION WireSpec
CONSTANTS
    I64Max = 7
    U64Max = 15
    Numbers <- MCNumbers
    Doubles <- MCDoubles
    Exact <- MCExact
    Nearest <- MCNearest
    Neighbours <- MCNeighbours
    JsonValues <- MCJson
    Computed <- MCComputed
    Names = {"a", "b"}
INVARIANTS WireTypeOK ReadsItsWrites
PROPERTIES CopyKeepsValues
