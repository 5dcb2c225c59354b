SPECIFICATION FairSpec
CONSTANTS
    t1 = t1
    t2 = t2
    Threads = {t1, t2}
    FairThreads = {t1}
    Threaded = TRUE
    Align = 2
    PageSize = 8
    MinBlock = 3
    MaxFree = 2
    UnmapMin = 8
    Arena = {8, 9, 10, 11, 12, 13, 14, 15, 16, 17, 18, 19, 20, 21, 22, 23}
    Sizes = {3, 8}
INVARIANT AllocatorSafe
PROPERTIES ImplementsPool LeaksTheSmallest CallsTerminate
