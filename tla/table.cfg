SPECIFICATION Spec
CONSTANTS
    IntKeys <- MCIntKeys
    OtherKeys <- MCOther
    Pointers <- MCPointers
    Collected <- MCCollected
    Floats <- MCFloats
    Hash <- MCHash
    Values = {1}
    MaxArray = 2
    MaxHash = 4
    Budget = 4
    MaxInt = 5
INVARIANT TableSound
PROPERTIES ImplementsMap ArrayOptimal
CHECK_DEADLOCK FALSE
