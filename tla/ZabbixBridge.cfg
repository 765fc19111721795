SPECIFICATION SyncSpec
CONSTANTS
    u1 = u1
    u2 = u2
    h1 = h1
    h2 = h2
    c1 = c1
    c2 = c2
    Unit = {u1, u2}
    Host = {h1, h2}
    Code = {c1, c2}
    Equipment = {e1}
    Editor = {m1, m2}
    Source <- TwoSources
    Named <- Names
    Own <- OwnTags
    Tagged = {}
    Coded <- CodedAtFirst
    Job = {j1, j2}
    MaxVersion = 1
    MaxBegun = 2
    MaxLate = 1
    None = None
SYMMETRY Interchangeable
CONSTRAINT Focus
INVARIANTS
    OnlyBoundHostsAreTagged
    
PROPERTIES
    HostsDoNotGoBack
CHECK_DEADLOCK FALSE
