SPECIFICATION Spec
CONSTANTS
    Pictures <- MCPictures
    MinParallelRows = 3
    Cuts <- MCCuts
INVARIANTS
    ReadsWhatWasWritten
    RebuildsEveryMacroblock
    FilterExact
    ContextsAreNeighbours
    StatsCountTokens
\* Encoding ends with the last picture.
CHECK_DEADLOCK FALSE
