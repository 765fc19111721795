\* One automation case; a request and a run race on it; every kind of request; one failure.
SPECIFICATION Spec
CONSTANTS
    Severity = {"medium", "critical"}
    FirstResponse <- MCFirstResponse
    ResolveWithin <- MCResolveWithin
    Fingerprint = {f1}
    Manual = {}
    Rule = {r1}
    RuleOf <- MCRuleOf
    Operator = {o1}
    Automation = {a1}
    Payload <- AllPayloads
    CreateActivities = {FALSE}
    NoCase = NoCase
    SilenceTicks = 1
    MaxNow = 1
    MaxFaults = 1
INVARIANTS
    TypeOK
    StampsFollowStatus
    QueueShowsTheCase
PROPERTIES
    ResolutionStands
