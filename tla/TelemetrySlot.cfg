\* Two requests at a time, two keys, two edits of the rows, one change in Zabbix, a failure or a restart.
SPECIFICATION CacheSpec
CONSTANTS
    Reader = {r1, r2}
    Key = {k1, k2}
    MaxEdits = 2
    MaxNews = 1
    MaxFaults = 1
    None = None
INVARIANTS
    AnswersKeepUp
    OneReadingPerKey
PROPERTIES
    ReadingsLandInOrder
    SlotComesBack
CHECK_DEADLOCK FALSE
