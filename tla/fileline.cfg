SPECIFICATION FairSpec
CONSTANTS
    t1 = t1
    t2 = t2
    Threads = {t1, t2}
    NMods = 2
    SymMods = {2}
    DwarfMods = {1, 2}
    Flaky = {1, 2}
    Pie = FALSE
INVARIANT FilelineSafe
PROPERTIES ListsOnlyGrow CallsTerminate
