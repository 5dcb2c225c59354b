SPECIFICATION FairSpec
CONSTANTS
    t1 = t1
    t2 = t2
    Threads = {t1, t2}
    Units <- NestedUnits
    Addrs <- NestedAddrs
    Pcs = {0, 4, 10}
    Useless = {"b"}
    FuncUnits = {"a", "c"}
    Gaps <- GapInC
    MayRunOut = {t2}
INVARIANT LookupSafe
PROPERTIES NeverUnread LookupsEnd
