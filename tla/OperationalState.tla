-------------------------- MODULE OperationalState --------------------------
(***************************************************************************)
(* The part of an exception case that is computed and then STORED: triage, *)
(* deadlines, breach flag and priority score, as buildOperationalState of  *)
(* exceptions.service.ts derives them from the case's own fields.          *)
(*                                                                         *)
(* A timestamp the code only tests for null (acknowledgedAt, resolvedAt,   *)
(* breachedAt) is a BOOLEAN, "it is set", and so is the assignee.  The     *)
(* fields copied from the policy in force (slaPolicyId, queueKey, the two  *)
(* deadlines, impact) are one field, slaSeverity: the severity they were   *)
(* computed for.  FirstResponse and ResolveWithin are the policies'        *)
(* minutes, in clock ticks.                                                *)
(***************************************************************************)
EXTENDS Integers

CONSTANTS
    Severity,       \* the severities in use
    FirstResponse,  \* ticks allowed before the first response, by severity
    ResolveWithin   \* ticks allowed before resolution, by severity

ASSUME SeverityAssumption == Severity \subseteq {"low", "medium", "high", "critical"}

ASSUME PolicyAssumption ==
    /\ FirstResponse \in [Severity -> Nat]
    /\ ResolveWithin \in [Severity -> Nat]

OpenStatuses == {"open", "acknowledged", "silenced"}
Status == OpenStatuses \cup {"resolved"}
Triage == {"pending", "triaged", "closed"}

\* What the service reads of a case, and what it derives from that.
Base == [severity : Severity, status : Status, createdAt : Nat,
         acknowledgedAt : BOOLEAN, resolvedAt : BOOLEAN, assigneeUserId : BOOLEAN]
Derived == [slaSeverity : Severity, triageStatus : Triage,
            breachedAt : BOOLEAN, priorityScore : 0..100]

-----------------------------------------------------------------------------

SeverityWeight(severity) ==
    IF severity = "critical" THEN 95
    ELSE IF severity = "high" THEN 78
    ELSE IF severity = "medium" THEN 55
    ELSE 25

TriageStatus(b) ==
    IF b.status = "resolved" THEN "closed"
    ELSE IF b.acknowledgedAt \/ b.assigneeUserId THEN "triaged" ELSE "pending"

\* Late by its deadlines at time t, whatever its status.
Overdue(b, t) ==
    \/ b.createdAt + ResolveWithin[b.severity] <= t
    \/ TriageStatus(b) = "pending" /\ b.createdAt + FirstResponse[b.severity] <= t

Breached(b, t) == b.status \in OpenStatuses /\ Overdue(b, t)

\* (mutant) The clamp of the score is forgotten.
UnclampedScore(severity, triage, assigned, breached) ==
    SeverityWeight(severity) + (IF triage = "pending" THEN 5 ELSE 0)
    + (IF assigned THEN 0 ELSE 5) + (IF breached THEN 10 ELSE 0)

ComputePriorityScore(severity, triage, assigned, breached) ==
    LET score == SeverityWeight(severity)
                 + (IF triage = "pending" THEN 5 ELSE 0)
                 + (IF assigned THEN 0 ELSE 5)
                 + (IF breached THEN 10 ELSE 0)
    IN  IF score > 100 THEN 100 ELSE score

BuildOperationalState(b, t) ==
    [slaSeverity |-> b.severity,
     triageStatus |-> TriageStatus(b),
     breachedAt |-> Breached(b, t),
     priorityScore |-> ComputePriorityScore(b.severity, TriageStatus(b),
                                            b.assigneeUserId, Breached(b, t))]
=============================================================================
