-------------------------- MODULE MCExceptionCases --------------------------
(* Instances of ExceptionCases small enough for TLC. *)
EXTENDS ExceptionCases, TLC

Interchangeable == Permutations(Automation)

\* The policies' minutes in ticks: a critical case is late for everything after
\* one tick, a medium one gets a second tick to be resolved.
MCFirstResponse == [s \in Severity |-> 1]
MCResolveWithin == [s \in Severity |-> IF s = "critical" THEN 1 ELSE 2]

\* Every fingerprint belongs to one rule.
MCRuleOf == [f \in Fingerprint |-> CHOOSE r \in Rule : TRUE]

Ask(status, severity, assignee) ==
    [status |-> status, severity |-> severity, assignee |-> assignee]

\* Each operator action of the queue and of the detail page.
StatusPayloads == {Ask(s, Keep, Keep) : s \in Status}
AssignPayloads == {Ask(Keep, Keep, "set"), Ask(Keep, Keep, "clear")}
SeverityPayloads == {Ask(Keep, s, Keep) : s \in Severity}
AllPayloads == StatusPayloads \cup AssignPayloads \cup SeverityPayloads

\* Enough to race a resolution against an assignment and a detection.
FewPayloads == {Ask("resolved", Keep, Keep), Ask("acknowledged", Keep, Keep),
                Ask(Keep, Keep, "set")}
SilencePayloads == {Ask("silenced", Keep, Keep), Ask("resolved", Keep, Keep)}
=============================================================================
