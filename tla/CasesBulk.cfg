\* An automation case and a manual one; bulk requests, recalculation and two runs.
SPECIFICATION Spec
CONSTANTS
    Severity = {"high"}
    FirstResponse <- MCFirstResponse
    ResolveWithin <- MCResolveWithin
    Fingerprint = {f1}
    Manual = {m1}
    Rule = {r1}
    RuleOf <- MCRuleOf
    Operator = {o1}
    Automation = {a1, a2}
    Payload <- FewPayloads
    CreateActivities = {TRUE}
    NoCase = NoCase
    SilenceTicks = 1
    MaxNow = 0
    MaxFaults = 0
SYMMETRY Interchangeable
INVARIANTS
    TransitionsAreLogged
