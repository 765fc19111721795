\* Two requests for three reports in a cache of two.
SPECIFICATION ReportSpec
CONSTANTS
    Report = {k1, k2, k3}
    Client = {c1, c2}
    MaxEntries = 2
    Ttl = 2
    MaxClock = 3
INVARIANTS
    CacheIsBounded
    CachedReportsAreRecent
PROPERTIES
    LiveReportsGoForRoom
CHECK_DEADLOCK FALSE
