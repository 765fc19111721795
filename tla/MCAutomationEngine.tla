------------------------- MODULE MCAutomationEngine -------------------------
(* Instances of AutomationEngine small enough for TLC. *)
EXTENDS AutomationEngine

MCFirstResponse == [s \in Severity |-> 1]
MCResolveWithin == [s \in Severity |-> 1]
MCRuleOf == [f \in Fingerprint |-> CHOOSE r \in Rule \ ReportRule : TRUE]

Ask(status) == [status |-> status, severity |-> Keep, assignee |-> Keep]
Resolutions == {Ask("resolved")}

OneSetting == {[enabled |-> TRUE, cadence |-> 1, severity |-> "high", createExceptions |-> TRUE,
               createActivities |-> FALSE, resolveOnRecovery |-> TRUE]}

\* An administrator pauses a rule or runs it less often.
Edits == {[enabled |-> FALSE], [cadence |-> 2]}
NoEdits == {}
=============================================================================
