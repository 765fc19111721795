\* The tick and run-now requests execute a detection rule and a report rule; one failure.
SPECIFICATION EngineSpec
CONSTANTS
    Severity = {"high"}
    FirstResponse <- MCFirstResponse
    ResolveWithin <- MCResolveWithin
    Fingerprint = {f1}
    Manual = {}
    Rule = {r1, p1}
    RuleOf <- MCRuleOf
    ReportRule = {p1}
    ProbeRule = {}
    Operator = {}
    Automation = {a1, a2}
    Cron = a1
    Payload <- Resolutions
    Setting <- OneSetting
    Edit <- NoEdits
    Admin = {}
    CreateActivities = {FALSE}
    NoCase = NoCase
    None = None
    SilenceTicks = 1
    MaxNow = 0
    MaxFaults = 1
INVARIANTS
    SuccessIsWhole
    ErrorsNeedOverlap
    NoWorkOutsideARun
PROPERTIES
    UsesTheCaseTable
