\* Two requests at a time on the contacts, or on the contracts, of two partners.
SPECIFICATION RegistrySpec
CONSTANTS
    Partner = {p1, p2}
    Contact = {m1, m2, l1}
    Legacy = {l1}
    Clerk = {c1, c2}
    Unit = {u1, u2}
    Code = {k1}
    Lawyer = {w1, w2}
    None = None
SYMMETRY Symmetry
CONSTRAINT OneDesk
INVARIANTS
    PrimaryIsUnique
    FirstContactLeads
    CoverageWasOwned
CHECK_DEADLOCK FALSE
