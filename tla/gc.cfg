SPECIFICATION Spec
CONSTANTS
    Names <- MCNames
    Weak <- MCWeak
    HasGc = {"mg"}
    Main = "main"
    Registry = "reg"
    Slots = 2
    Nodes = 1
    SweepMax = 1
    FinMax = 2
    Starts <- MCStarts
    Budget = 2
    Watched = "a"
PROPERTIES Reclaims Transparent ImplementsHeap
INVARIANTS CollectorInvariants NoDangling
