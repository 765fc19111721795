-------------------------- MODULE ReportExportQueue --------------------------
(***************************************************************************)
(* The queue of manual report exports (monitoring.service.ts).  A job is   *)
(* an AutomationRun row; its request travels in the row's summary.         *)
(*                                                                         *)
(* Two things process a job: the setImmediate callback of the request that *)
(* queued it, and the minute cron, which first reopens the jobs that have  *)
(* been running for longer than the lease (30 minutes) and then processes  *)
(* the oldest queued ones, one after the other.  Both claim a row with a   *)
(* conditional update from queued to running, but nobody checks later that *)
(* the claim is still theirs.                                              *)
(***************************************************************************)
EXTENDS Integers, FiniteSets

CONSTANTS
    Run,        \* the jobs
    Cron,       \* the worker of the cron; the callback of job r is the worker r
    Lease,      \* ticks after which a running job is taken for dead
    Batch,      \* how many jobs one cron firing takes
    MaxFaults   \* bound on failed calls and process crashes

ASSUME QueueAssumption ==
    /\ Cron \notin Run
    /\ Lease \in Nat /\ MaxFaults \in Nat
    /\ Batch \in Nat \ {0}

Worker == Run \cup {Cron}

VARIABLES
    status,     \* the row's status, "none" before there is a row
    age,        \* ticks since startedAt, up to Lease + 1
    payload,    \* the jobs whose summary still carries the request
    message,    \* the jobs with an errorMessage
    documents,  \* how many documents were attached to the job
    pc,         \* what each worker does next
    current,    \* the job it does it for
    batch,      \* what the cron has left: jobs, with or without their request
    faults,
    disturbed   \* history: jobs reopened, or whose cron handling threw

rowVars == <<status, age, payload, message, documents>>
vars == <<status, age, payload, message, documents, pc, current, batch, faults, disturbed>>

Ended(r) == status[r] \in {"success", "error"}
Active(w) == pc[w] \in {"export", "attach", "finish", "fail"}

Init ==
    /\ status = [r \in Run |-> "none"]
    /\ age = [r \in Run |-> 0]
    /\ payload = {} /\ message = {}
    /\ documents = [r \in Run |-> 0]
    /\ pc = [w \in Worker |-> "idle"]
    /\ current = [w \in Worker |-> w]
    /\ batch = {}
    /\ faults = 0
    /\ disturbed = {}

\* enqueuePrtgStyleReportExport: the row, and the callback that will process it.
Enqueue(r) ==
    /\ status[r] = "none"
    /\ status' = [status EXCEPT ![r] = "queued"]
    /\ payload' = payload \cup {r}
    /\ pc' = [pc EXCEPT ![r] = "claim"]
    /\ UNCHANGED <<age, message, documents, current, batch, faults, disturbed>>

-----------------------------------------------------------------------------
\* processReportExportRun, by either kind of worker

\* (mutant) The claim does not ask for the status.
ClaimAnyStatus(w) ==
    LET r == current[w]
    IN  /\ pc[w] = "claim"
        /\ status' = [status EXCEPT ![r] = "running"]
        /\ age' = [age EXCEPT ![r] = 0]
        /\ message' = message \ {r}
        /\ pc' = [pc EXCEPT ![w] = "export"]
        /\ UNCHANGED <<payload, documents, current, batch, faults, disturbed>>

\* (mutant) The claim replaces the summary.
ClaimDropsRequest(w) ==
    LET r == current[w]
    IN  /\ pc[w] = "claim"
        /\ IF status[r] = "queued"
           THEN /\ status' = [status EXCEPT ![r] = "running"]
                /\ age' = [age EXCEPT ![r] = 0]
                /\ message' = message \ {r}
                /\ payload' = payload \ {r}
                /\ pc' = [pc EXCEPT ![w] = "export"]
           ELSE /\ pc' = [pc EXCEPT ![w] = "idle"]
                /\ UNCHANGED <<status, age, message, payload>>
        /\ UNCHANGED <<documents, current, batch, faults, disturbed>>

Claim(w) ==
    LET r == current[w]
    IN  /\ pc[w] = "claim"
        /\ IF status[r] = "queued"
           THEN /\ status' = [status EXCEPT ![r] = "running"]
                /\ age' = [age EXCEPT ![r] = 0]
                /\ message' = message \ {r}
                /\ pc' = [pc EXCEPT ![w] = "export"]
           ELSE /\ pc' = [pc EXCEPT ![w] = "idle"]
                /\ UNCHANGED <<status, age, message>>
        /\ UNCHANGED <<payload, documents, current, batch, faults, disturbed>>

\* The report is built: or not, when a source cannot be read.
Export(w) ==
    /\ pc[w] = "export"
    /\ \E outcome \in {"attach", "fail"} : pc' = [pc EXCEPT ![w] = outcome]
    /\ UNCHANGED <<rowVars, current, batch, faults, disturbed>>

Attach(w) ==
    /\ pc[w] = "attach"
    /\ documents' = [documents EXCEPT ![current[w]] = @ + 1]
    /\ pc' = [pc EXCEPT ![w] = "finish"]
    /\ UNCHANGED <<status, age, payload, message, current, batch, faults, disturbed>>

\* (mutant) The success is written before the document is attached.
FinishFirst(w) ==
    /\ pc[w] \in {"attach", "finish"}
    /\ status' = [status EXCEPT ![current[w]] = "success"]
    /\ payload' = payload \ {current[w]}
    /\ pc' = [pc EXCEPT ![w] = "idle"]
    /\ UNCHANGED <<age, message, documents, current, batch, faults, disturbed>>

\* The success, whatever the row says by now; the summary loses the request.
Finish(w) ==
    /\ pc[w] = "finish"
    /\ status' = [status EXCEPT ![current[w]] = "success"]
    /\ payload' = payload \ {current[w]}
    /\ pc' = [pc EXCEPT ![w] = "idle"]
    /\ UNCHANGED <<age, message, documents, current, batch, faults, disturbed>>

\* (mutant) The catch block writes a status nobody else knows.
FailJobFailed(w) ==
    /\ pc[w] = "fail"
    /\ status' = [status EXCEPT ![current[w]] = "failed"]
    /\ payload' = payload \ {current[w]}
    /\ message' = message \cup {current[w]}
    /\ pc' = [pc EXCEPT ![w] = "idle"]
    /\ UNCHANGED <<age, documents, current, batch, faults, disturbed>>

\* The catch block: the error, whatever the row says by now.
FailJob(w) ==
    /\ pc[w] = "fail"
    /\ status' = [status EXCEPT ![current[w]] = "error"]
    /\ payload' = payload \ {current[w]}
    /\ message' = message \cup {current[w]}
    /\ pc' = [pc EXCEPT ![w] = "idle"]
    /\ UNCHANGED <<age, documents, current, batch, faults, disturbed>>

-----------------------------------------------------------------------------
\* processQueuedReportExports

Stale == {r \in Run : status[r] = "running" /\ age[r] > Lease}

\* (mutant) A job whose worker died stays "running".
ReopenNothing ==
    /\ pc[Cron] = "idle" /\ batch = {}
    /\ pc' = [pc EXCEPT ![Cron] = "list"]
    /\ UNCHANGED <<rowVars, current, batch, faults, disturbed>>

\* The cron fires (waitForCompletion: only when its last firing is over).
Reopen ==
    /\ pc[Cron] = "idle" /\ batch = {}
    /\ status' = [r \in Run |-> IF r \in Stale THEN "queued" ELSE status[r]]
    /\ message' = message \cup Stale
    /\ disturbed' = disturbed \cup Stale
    /\ pc' = [pc EXCEPT ![Cron] = "list"]
    /\ UNCHANGED <<age, payload, documents, current, batch, faults>>

Queued == {r \in Run : status[r] = "queued"}

\* The oldest queued jobs, with the request read from their summary.
ListQueued ==
    /\ pc[Cron] = "list"
    /\ \E chosen \in SUBSET Queued :
          /\ Cardinality(chosen) <= Batch
          /\ chosen # Queued => Cardinality(chosen) = Batch
          /\ \A r \in chosen, q \in Queued \ chosen : age[r] >= age[q]
          /\ batch' = {[run |-> r, decodes |-> r \in payload] : r \in chosen}
    /\ pc' = [pc EXCEPT ![Cron] = "idle"]
    /\ UNCHANGED <<rowVars, current, faults, disturbed>>

\* The next job of the batch: to be processed, or in error for want of a request.
TakeNext(b) ==
    /\ pc[Cron] = "idle" /\ b \in batch
    /\ batch' = batch \ {b}
    /\ current' = [current EXCEPT ![Cron] = b.run]
    /\ pc' = [pc EXCEPT ![Cron] = IF b.decodes THEN "claim" ELSE "fail"]
    /\ UNCHANGED <<rowVars, faults, disturbed>>

-----------------------------------------------------------------------------
\* Failures and time

\* A call throws inside the try block.
CallThrows(w) ==
    /\ faults < MaxFaults
    /\ pc[w] \in {"attach", "finish"}
    /\ faults' = faults + 1
    /\ pc' = [pc EXCEPT ![w] = "fail"]
    /\ UNCHANGED <<rowVars, current, batch, disturbed>>

\* The cron's claim throws: its own catch block puts the job in error, although the
\* job may be somebody else's by now.
CronClaimThrows ==
    /\ faults < MaxFaults
    /\ pc[Cron] = "claim"
    /\ faults' = faults + 1
    /\ disturbed' = disturbed \cup {current[Cron]}
    /\ pc' = [pc EXCEPT ![Cron] = "fail"]
    /\ UNCHANGED <<rowVars, current, batch>>

\* The cron's listing or its own catch block throws: the scheduler logs it, the batch is
\* lost and the job it held keeps the status it has.
CronGivesUp ==
    /\ faults < MaxFaults
    /\ pc[Cron] \in {"list", "fail"}
    /\ faults' = faults + 1
    /\ pc' = [pc EXCEPT ![Cron] = "idle"]
    /\ batch' = {}
    /\ UNCHANGED <<rowVars, current, disturbed>>

\* The process dies (a callback whose claim or catch block throws takes it down too).
Crash ==
    /\ faults < MaxFaults
    /\ faults' = faults + 1
    /\ pc' = [w \in Worker |-> "idle"]
    /\ batch' = {}
    /\ UNCHANGED <<rowVars, current, disturbed>>

Tick ==
    /\ age' = [r \in Run |-> IF status[r] # "none" /\ age[r] <= Lease THEN age[r] + 1 ELSE age[r]]
    /\ UNCHANGED <<status, payload, message, documents, pc, current, batch, faults, disturbed>>

Process(w) == Claim(w) \/ Export(w) \/ Attach(w) \/ Finish(w) \/ FailJob(w)
CronStep == Reopen \/ ListQueued \/ (\E b \in batch : TakeNext(b)) \/ Process(Cron)

Next ==
    \/ \E r \in Run : Enqueue(r) \/ Process(r) \/ CallThrows(r)
    \/ CronStep \/ CallThrows(Cron) \/ CronClaimThrows \/ CronGivesUp
    \/ Crash
    \/ Tick

Spec == Init /\ [][Next]_vars

\* Every await is served, the cron keeps firing and time passes.
FairSpec ==
    /\ Spec
    /\ WF_vars(Tick) /\ WF_vars(CronStep)
    /\ \A r \in Run : WF_vars(Process(r))

-----------------------------------------------------------------------------
\* Properties

TypeOK ==
    /\ status \in [Run -> {"none", "queued", "running", "success", "error"}]
    /\ age \in [Run -> 0..(Lease + 1)]
    /\ payload \subseteq Run /\ message \subseteq Run /\ disturbed \subseteq Run
    /\ documents \in [Run -> Nat]
    /\ pc \in [Worker -> {"idle", "list", "claim", "export", "attach", "finish", "fail"}]
    /\ current \in [Worker -> Worker]
    /\ batch \subseteq [run : Run, decodes : BOOLEAN]
    /\ faults \in 0..MaxFaults

\* The queue implements ExportJob: no ended job is taken up again and no success lacks
\* its document, whoever wrote it and however late.
Job == INSTANCE ExportJob WITH phase <- status
ImplementsExportJob == Job!Spec

\* A job that waits or is being worked on still carries its request, so that reopening
\* it after a crash can succeed.
RequestIsKept == \A r \in Run : status[r] \in {"queued", "running"} => r \in payload

\* Unless its lease ran out, or the cron failed to claim it, a job is worked on by one
\* worker only and gets one document at most, although a callback and the cron both
\* go for it.
OneWorkerPerJob ==
    \A r \in Run \ disturbed :
        /\ \A v, w \in Worker : Active(v) /\ Active(w) /\ current[v] = r /\ current[w] = r => v = w
        /\ documents[r] <= 1

\* ... and the verdict it got is final: the clients that saw it need not look again.
VerdictStands == [][\A r \in Run \ disturbed' : Ended(r) => status'[r] = status[r]]_vars

\* Every job that was queued ends, across crashes: nobody waits for ever.
EveryJobEnds == \A r \in Run : status[r] = "queued" ~> Ended(r)
=============================================================================
