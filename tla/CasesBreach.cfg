\* A breach nobody writes down.
SPECIFICATION FairSpec
CONSTANTS
    Severity = {"high"}
    FirstResponse <- MCFirstResponse
    ResolveWithin <- MCResolveWithin
    Fingerprint = {}
    Manual = {m1}
    Rule = {r1}
    RuleOf <- MCRuleOf
    Operator = {o1}
    Automation = {}
    Payload <- SilencePayloads
    CreateActivities = {TRUE}
    NoCase = NoCase
    SilenceTicks = 1
    MaxNow = 2
    MaxFaults = 0
PROPERTIES
    BreachesSurface
