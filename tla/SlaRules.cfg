\* One case, one request on cases, two administrators who edit, rename and switch policies.
SPECIFICATION Spec
CONSTANTS
    Code = {"GM", "GC", "IC", "OLD"}
    Kind = {"generic", "integration"}
    Severity = {"medium", "critical"}
    Default <- MediumDefault
    MediumCode = "GM"
    New <- Created
    Edit <- Edits
    Case = {c1}
    KeyOf <- MCKeyOf
    Admin = {a1, a2}
    Worker = {w1}
    None = None
    MaxPolicies = 2
SYMMETRY Interchangeable
INVARIANTS
    TypeOK
    IntervalsOrdered
    QueueFollowsPolicies
PROPERTIES
    NewPoliciesYield
