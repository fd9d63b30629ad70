CONSTANTS
    u1 = u1
    u2 = u2
    Users = {u1, u2}
    None = None
    Structs <- MCStructs
    Used <- MCUsed
    MaxNodes = 2
    MaxCells = 2
    MaxFaults = 1
SPECIFICATION ResolverSpec
INVARIANTS CacheIsFresh PresentWasThere FieldIsAsDeclared
PROPERTIES ResolverAnswers
CHECK_DEADLOCK FALSE
