SPECIFICATION FairSpec
CONSTANTS
    Keys = {1, 2, 3}
    N = 6
    Elems <- KeyedElems
    Greater <- SymbolGreater
    Inputs <- KeyedInputs
INVARIANT SortCorrect
PROPERTIES SortEnds
