------------------------------ MODULE ExportJob ------------------------------
(***************************************************************************)
(* What the report center promises of an export job: it is submitted,      *)
(* worked on, perhaps given back and worked on again, and ends with a      *)
(* verdict.  A job that has ended is never taken up again, and a success   *)
(* has a document to download.  Whether an ended job's verdict may still   *)
(* be corrected is left open here: see VerdictStands of ReportExportQueue. *)
(***************************************************************************)
EXTENDS Naturals

CONSTANT Run
VARIABLES phase, documents

jobVars == <<phase, documents>>

Verdict == {"success", "error"}

Init ==
    /\ phase = [r \in Run |-> "none"]
    /\ documents = [r \in Run |-> 0]

Submit(r) ==
    /\ phase[r] = "none"
    /\ phase' = [phase EXCEPT ![r] = "queued"]
    /\ UNCHANGED documents

Take(r) ==
    /\ phase[r] = "queued"
    /\ phase' = [phase EXCEPT ![r] = "running"]
    /\ UNCHANGED documents

\* The jobs of S, all of them being worked on, wait again.
GiveBack(S) ==
    /\ \A r \in S : phase[r] = "running"
    /\ phase' = [r \in Run |-> IF r \in S THEN "queued" ELSE phase[r]]
    /\ UNCHANGED documents

Deliver(r) ==
    /\ phase[r] # "none"
    /\ documents' = [documents EXCEPT ![r] = @ + 1]
    /\ UNCHANGED phase

Conclude(r, v) ==
    /\ phase[r] # "none"
    /\ v = "success" => documents[r] > 0
    /\ phase' = [phase EXCEPT ![r] = v]
    /\ UNCHANGED documents

Next ==
    \/ \E r \in Run : Submit(r) \/ Take(r) \/ Deliver(r) \/ (\E v \in Verdict : Conclude(r, v))
    \/ \E S \in SUBSET Run : GiveBack(S)

Spec == Init /\ [][Next]_jobVars
=============================================================================
