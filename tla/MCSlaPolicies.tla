---------------------------- MODULE MCSlaPolicies ----------------------------
(* Instances of SlaPolicies small enough for TLC. *)
EXTENDS SlaPolicies, TLC

Interchangeable == Permutations(Admin)

PolicyRow(code, kind, severity, first, resolve) ==
    [code |-> code, kind |-> kind, severity |-> severity,
     first |-> first, resolve |-> resolve, isActive |-> TRUE]

\* One policy for each query a case of kind integration and severity critical may need.
IntegrationCritical == PolicyRow("IC", "integration", "critical", 1, 3)
GenericCritical == PolicyRow("GC", "generic", "critical", 1, 2)
GenericMedium == PolicyRow("GM", "generic", "medium", 2, 4)

\* The last resort is a default; the others are created, so that few rows show every mixture.
MediumDefault == <<GenericMedium>>
Created == {IntegrationCritical, GenericCritical}

MCKeyOf == [c \in Case |-> [kind |-> "integration", severity |-> "critical"]]

\* One minute, the other while the policy is switched off, and a new code.
Edits == {[first |-> 3], [resolve |-> 2, isActive |-> FALSE], [code |-> "OLD"]}
=============================================================================
