SPECIFICATION StoreSpec
CONSTANTS
    Attachment = {a1, a2}
    Entity = {e1, e2}
    Caller = {r1, r2, r3}
    None = None
INVARIANTS
    RowsHaveFiles
    StrayFilesHaveACause
    BrokenOnlyIfRemoved
PROPERTIES
    ImplementsShelf
    RemovedFilesGo
CHECK_DEADLOCK FALSE
