\* An operator resolves the case, the rule is edited while it runs, its connection is tested, and a call may fail or the process crash.
SPECIFICATION FairEngineSpec
CONSTANTS
    Severity = {"high"}
    FirstResponse <- MCFirstResponse
    ResolveWithin <- MCResolveWithin
    Fingerprint = {f1}
    Manual = {}
    Rule = {r1}
    RuleOf <- MCRuleOf
    ReportRule = {}
    ProbeRule = {r1}
    Operator = {o1}
    Automation = {a1}
    Cron = a1
    Payload <- Resolutions
    Setting <- OneSetting
    Edit <- Edits
    Admin = {d1}
    CreateActivities = {FALSE}
    NoCase = NoCase
    None = None
    SilenceTicks = 1
    MaxNow = 0
    MaxFaults = 1
PROPERTIES
    DetectionsOpenCases
    RecoveriesCloseCases
    RunsEnd
