\* Two jobs, one per cron firing, their callbacks, and two failures.
SPECIFICATION FairSpec
CONSTANTS
    Run = {x1, x2}
    Cron = cron
    Lease = 1
    Batch = 1
    MaxFaults = 2
INVARIANTS
    TypeOK
    RequestIsKept
    OneWorkerPerJob
PROPERTIES
    ImplementsExportJob
    VerdictStands
    EveryJobEnds
