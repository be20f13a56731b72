SPECIFICATION Spec
CONSTANTS
    Pages = {p1, p2, p3, p4}
    FrameSizes = {0, 1, 2, 3}
    MaxString = 7
    MaxTokens = 8
    Empty = Empty
    Word = Word
INVARIANTS
    NoDuplicates
    UndefinedOnlyByInput
    OptIsOptimal
PROPERTIES
    ImplementsEvictionQueue
CHECK_DEADLOCK FALSE
SYMMETRY Symmetry
