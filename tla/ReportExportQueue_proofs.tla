---------------------- MODULE ReportExportQueue_proofs ----------------------
(***************************************************************************)
(* Proofs about ReportExportQueue, for any number of jobs, any lease, any  *)
(* batch and any number of crashes and failed calls.                       *)
(***************************************************************************)
EXTENDS ReportExportQueue, TLAPS

\* A worker that is busy has a queued job; the callback of a job is that job's.
WorkersOK ==
    /\ \A r \in Run : current[r] = r
    /\ pc[Cron] \notin {"idle", "list"} => current[Cron] \in Run
    /\ \A r \in Run : pc[r] # "list"
    /\ \A w \in Worker : pc[w] \notin {"idle", "list"} => status[current[w]] # "none"
    /\ \A b \in batch : b.decodes /\ status[b.run] # "none"

\* Documents are there before a success is written, and stay.
DocumentsOK ==
    /\ \A w \in Worker : pc[w] = "finish" => documents[current[w]] > 0
    /\ \A r \in Run : status[r] = "success" => documents[r] > 0

\* What holds of a job nothing unusual has happened to: it is queued and untouched,
\* in the hands of one worker, or ended and left alone.
Exclusive ==
    \A r \in Run \ disturbed :
        /\ \A v, w \in Worker : Active(v) /\ Active(w) /\ current[v] = r /\ current[w] = r => v = w
        /\ status[r] # "running" => \A w \in Worker : Active(w) => current[w] # r
        /\ status[r] \in {"none", "queued"} => documents[r] = 0
        /\ \A w \in Worker : pc[w] \in {"export", "attach"} /\ current[w] = r => documents[r] = 0
        /\ documents[r] <= 1

QInv == TypeOK /\ WorkersOK /\ DocumentsOK /\ RequestIsKept /\ Exclusive

\* The empty queue is in order.
LEMMA QInvInit == Init => QInv
BY QueueAssumption DEF Init, QInv, TypeOK, WorkersOK, DocumentsOK, RequestIsKept, Exclusive,
                       Worker, Active

\* Putting a job in the queue keeps the invariant.
LEMMA QInvEnqueue ==
    ASSUME QInv, NEW r \in Run, Enqueue(r)
    PROVE  QInv'
<1> USE QueueAssumption DEF QInv, Enqueue, Worker
<1>1. TypeOK'
  BY DEF TypeOK
<1>2. WorkersOK'
  BY DEF TypeOK, WorkersOK
<1>3. DocumentsOK'
  BY DEF TypeOK, DocumentsOK
<1>4. RequestIsKept'
  BY DEF TypeOK, RequestIsKept
<1>5. Exclusive'
  BY DEF TypeOK, WorkersOK, Exclusive, Active
<1> QED BY <1>1, <1>2, <1>3, <1>4, <1>5

\* Claiming one does.
LEMMA QInvClaim ==
    ASSUME QInv, NEW w \in Worker, Claim(w)
    PROVE  QInv'
<1> USE QueueAssumption DEF QInv, Worker
<1>1. current[w] \in Run /\ pc[w] = "claim"
  BY DEF TypeOK, WorkersOK, Claim
<1>2. TypeOK'
  BY <1>1 DEF TypeOK, Claim
<1>3. WorkersOK'
  BY <1>1 DEF TypeOK, WorkersOK, Claim
<1>4. DocumentsOK'
  BY <1>1 DEF TypeOK, DocumentsOK, Claim
<1>5. RequestIsKept'
  BY <1>1 DEF TypeOK, RequestIsKept, Claim
<1>6. Exclusive'
  <2>1. CASE status[current[w]] = "queued"
    BY <1>1, <2>1 DEF TypeOK, Exclusive, Active, Claim
  <2>2. CASE status[current[w]] # "queued"
    BY <1>1, <2>2 DEF TypeOK, Exclusive, Active, Claim
  <2> QED BY <2>1, <2>2
<1> QED BY <1>2, <1>3, <1>4, <1>5, <1>6

\* The steps of a worker that holds a job.
LEMMA QInvHold ==
    ASSUME QInv, NEW w \in Worker, Export(w) \/ Attach(w) \/ Finish(w) \/ FailJob(w) \/ CallThrows(w)
    PROVE  QInv'
<1> USE QueueAssumption DEF QInv, Worker
<1>1. current[w] \in Run
  BY DEF TypeOK, WorkersOK, Export, Attach, Finish, FailJob, CallThrows
<1>2. CASE Export(w)
  <2>1. TypeOK' /\ WorkersOK' /\ DocumentsOK' /\ RequestIsKept'
    BY <1>1, <1>2 DEF TypeOK, WorkersOK, DocumentsOK, RequestIsKept, Export, rowVars
  <2>2. Exclusive'
    BY <1>1, <1>2 DEF TypeOK, Exclusive, Active, Export, rowVars
  <2> QED BY <2>1, <2>2
<1>3. CASE Attach(w)
  <2>1. TypeOK' /\ WorkersOK' /\ DocumentsOK' /\ RequestIsKept'
    BY <1>1, <1>3 DEF TypeOK, WorkersOK, DocumentsOK, RequestIsKept, Attach
  <2>2. Exclusive'
    BY <1>1, <1>3 DEF TypeOK, Exclusive, Active, Attach
  <2> QED BY <2>1, <2>2
<1>4. CASE Finish(w)
  <2>1. TypeOK' /\ WorkersOK' /\ DocumentsOK' /\ RequestIsKept'
    BY <1>1, <1>4 DEF TypeOK, WorkersOK, DocumentsOK, RequestIsKept, Finish
  <2>2. Exclusive'
    BY <1>1, <1>4 DEF TypeOK, Exclusive, Active, Finish
  <2> QED BY <2>1, <2>2
<1>5. CASE FailJob(w)
  <2>1. TypeOK' /\ WorkersOK' /\ DocumentsOK' /\ RequestIsKept'
    BY <1>1, <1>5 DEF TypeOK, WorkersOK, DocumentsOK, RequestIsKept, FailJob
  <2>2. Exclusive'
    BY <1>1, <1>5 DEF TypeOK, Exclusive, Active, FailJob
  <2> QED BY <2>1, <2>2
<1>6. CASE CallThrows(w)
  <2>1. TypeOK' /\ WorkersOK' /\ DocumentsOK' /\ RequestIsKept'
    BY <1>1, <1>6 DEF TypeOK, WorkersOK, DocumentsOK, RequestIsKept, CallThrows, rowVars
  <2>2. Exclusive'
    BY <1>1, <1>6 DEF TypeOK, Exclusive, Active, CallThrows, rowVars
  <2> QED BY <2>1, <2>2
<1> QED BY <1>2, <1>3, <1>4, <1>5, <1>6

\* The pass of the cron does, whatever its workers do meanwhile.
LEMMA QInvCron ==
    ASSUME QInv, \/ Reopen \/ ListQueued \/ (\E b \in batch : TakeNext(b))
                 \/ CronClaimThrows \/ CronGivesUp
    PROVE  QInv'
<1> USE QueueAssumption DEF QInv, Worker
<1>1. CASE Reopen
  <2>1. TypeOK' /\ WorkersOK' /\ DocumentsOK' /\ RequestIsKept'
    BY <1>1 DEF TypeOK, WorkersOK, DocumentsOK, RequestIsKept, Reopen, Stale
  <2>2. Exclusive'
    BY <1>1 DEF TypeOK, Exclusive, Active, Reopen, Stale
  <2> QED BY <2>1, <2>2
<1>2. CASE ListQueued
  <2>1. PICK chosen \in SUBSET Queued : batch' = {[run |-> r, decodes |-> r \in payload] : r \in chosen}
    BY <1>2 DEF ListQueued
  <2>2. UNCHANGED <<rowVars, current, faults, disturbed>> /\ pc' = [pc EXCEPT ![Cron] = "idle"]
        /\ pc[Cron] = "list"
    BY <1>2 DEF ListQueued
  <2>3. \A r \in chosen : r \in Run /\ r \in payload /\ status[r] = "queued"
    BY DEF Queued, RequestIsKept
  <2>4. \A b \in batch' : \E r \in chosen : b = [run |-> r, decodes |-> TRUE]
    BY <2>1, <2>3
  <2>5. batch' \subseteq [run : Run, decodes : BOOLEAN]
    <3> SUFFICES ASSUME NEW b \in batch' PROVE b \in [run : Run, decodes : BOOLEAN]
      OBVIOUS
    <3>1. PICK r \in chosen : b = [run |-> r, decodes |-> TRUE]
      BY <2>4
    <3>2. r \in Run
      BY <2>3
    <3> QED BY <3>1, <3>2
  <2>7. \A b \in batch' : b.decodes /\ status'[b.run] # "none"
    BY <2>2, <2>3, <2>4 DEF rowVars
  <2>8. TypeOK'
    BY <2>2, <2>5 DEF TypeOK, rowVars
  <2>9. WorkersOK' /\ DocumentsOK' /\ RequestIsKept'
    BY <2>2, <2>7 DEF TypeOK, WorkersOK, DocumentsOK, RequestIsKept, rowVars
  <2>6. Exclusive'
    BY <2>2 DEF TypeOK, Exclusive, Active, rowVars
  <2> QED BY <2>6, <2>8, <2>9
<1>3. ASSUME NEW b \in batch, TakeNext(b) PROVE QInv'
  <2>1. b.run \in Run /\ b.decodes /\ status[b.run] # "none"
    BY DEF TypeOK, WorkersOK
  <2>2. TypeOK' /\ WorkersOK' /\ DocumentsOK' /\ RequestIsKept'
    BY <1>3, <2>1 DEF TypeOK, WorkersOK, DocumentsOK, RequestIsKept, TakeNext, rowVars
  <2>3. Exclusive'
    BY <1>3, <2>1 DEF TypeOK, Exclusive, Active, TakeNext, rowVars
  <2> QED BY <2>2, <2>3
<1>4. CASE CronClaimThrows
  <2>1. TypeOK' /\ WorkersOK' /\ DocumentsOK' /\ RequestIsKept'
    BY <1>4 DEF TypeOK, WorkersOK, DocumentsOK, RequestIsKept, CronClaimThrows, rowVars
  <2>2. Exclusive'
    BY <1>4 DEF TypeOK, Exclusive, Active, CronClaimThrows, rowVars
  <2> QED BY <2>1, <2>2
<1>5. CASE CronGivesUp
  BY <1>5 DEF TypeOK, WorkersOK, DocumentsOK, RequestIsKept, Exclusive, Active, CronGivesUp, rowVars
<1> QED BY <1>1, <1>2, <1>3, <1>4, <1>5

\* Every step does.
LEMMA QInvNext == QInv /\ [Next]_vars => QInv'
<1> SUFFICES ASSUME QInv, [Next]_vars PROVE QInv'
  OBVIOUS
<1>1. CASE Crash
  BY <1>1, QueueAssumption DEF Crash, QInv, TypeOK, WorkersOK, DocumentsOK, RequestIsKept,
                               Exclusive, Active, Worker, rowVars
<1>2. CASE Tick
  BY <1>2, QueueAssumption DEF Tick, QInv, TypeOK, WorkersOK, DocumentsOK, RequestIsKept,
                               Exclusive, Active
<1>3. CASE UNCHANGED vars
  BY <1>3 DEF vars, QInv, TypeOK, WorkersOK, DocumentsOK, RequestIsKept, Exclusive, Active
<1> QED BY <1>1, <1>2, <1>3, QInvEnqueue, QInvClaim, QInvHold, QInvCron
        DEF Next, CronStep, Process, Worker

\* The inductive invariant: types, who holds which job, and what a job has by then.
THEOREM QueueInvariant == Spec => []QInv
BY QInvInit, QInvNext, PTL DEF Spec

\* The queue's rows and workers keep their types.
THEOREM QueueTypeCorrect == Spec => []TypeOK
<1>1. QInv => TypeOK
  BY DEF QInv
<1> QED BY <1>1, QueueInvariant, PTL

\* A job that was not disturbed has one worker and one document at most: the
\* conditional update from queued to running is enough to keep the callback and the
\* cron apart.
THEOREM OneWorkerPerJobCorrect == Spec => []OneWorkerPerJob
<1>1. QInv => OneWorkerPerJob
  BY DEF QInv, Exclusive, OneWorkerPerJob
<1> QED BY <1>1, QueueInvariant, PTL

\* A job that waits or runs still carries its request, however many workers write to it.
THEOREM RequestIsKeptCorrect == Spec => []RequestIsKept
<1>1. QInv => RequestIsKept
  BY DEF QInv
<1> QED BY <1>1, QueueInvariant, PTL

-----------------------------------------------------------------------------

\* No step changes the verdict of an ended job, unless two workers met on it.
LEMMA VerdictStep ==
    ASSUME QInv, [Next]_vars, NEW r \in Run \ disturbed', Ended(r)
    PROVE  status'[r] = status[r]
<1> USE QueueAssumption DEF Worker
<1>1. status[r] \in {"success", "error"} /\ (r \notin disturbed => \A w \in Worker : Active(w) => current[w] # r)
  BY DEF Ended, QInv, Exclusive
<1>2. status \in [Run -> {"none", "queued", "running", "success", "error"}]
  BY DEF QInv, TypeOK
<1>3. ASSUME NEW w \in Worker, Process(w) PROVE status'[r] = status[r]
  <2>1. r \notin disturbed
    BY <1>3 DEF Process, Claim, Export, Attach, Finish, FailJob
  <2> QED BY <1>1, <1>2, <1>3, <2>1
          DEF Process, Claim, Export, Attach, Finish, FailJob, Active, rowVars
<1>4. CASE Reopen
  BY <1>1, <1>2, <1>4 DEF Reopen, Stale
<1>5. ASSUME NEW q \in Run, Enqueue(q) PROVE status'[r] = status[r]
  BY <1>1, <1>2, <1>5 DEF Enqueue
<1>6. ASSUME UNCHANGED status PROVE status'[r] = status[r]
  BY <1>6
<1> QED BY <1>3, <1>4, <1>5, <1>6
        DEF Next, CronStep, ListQueued, TakeNext, CallThrows, CronClaimThrows, CronGivesUp, Crash, Tick, rowVars, vars

\* The verdict of an undisturbed job never changes.
THEOREM VerdictStandsCorrect == Spec => VerdictStands
<1>1. QInv /\ [Next]_vars => [\A r \in Run \ disturbed' : Ended(r) => status'[r] = status[r]]_vars
  BY VerdictStep
<1> QED BY <1>1, QueueInvariant, PTL DEF Spec, VerdictStands

-----------------------------------------------------------------------------

\* Every step is a step of the abstract job, or changes nothing of it.
LEMMA JobStep ==
    ASSUME QInv, [Next]_vars
    PROVE  [Job!Next]_(Job!jobVars)
<1> USE QueueAssumption DEF Worker, Job!jobVars
<1>1. status \in [Run -> {"none", "queued", "running", "success", "error"}]
  BY DEF QInv, TypeOK
<1>2. ASSUME NEW w \in Worker, Process(w) PROVE [Job!Next]_(Job!jobVars)
  <2>1. CASE Claim(w)
    <3>1. current[w] \in Run
      BY <2>1 DEF QInv, TypeOK, WorkersOK, Claim
    <3>2. CASE status[current[w]] = "queued"
      <4>1. Job!Take(current[w])
        BY <2>1, <3>2 DEF Claim, Job!Take
      <4> QED BY <3>1, <4>1 DEF Job!Next
    <3>3. CASE status[current[w]] # "queued"
      BY <2>1, <3>3 DEF Claim
    <3> QED BY <3>2, <3>3
  <2>2. CASE Export(w)
    BY <2>2 DEF Export, rowVars
  <2>3. CASE Attach(w)
    <3>1. current[w] \in Run /\ status[current[w]] # "none"
      BY <2>3 DEF QInv, TypeOK, WorkersOK, Attach
    <3>2. Job!Deliver(current[w])
      BY <2>3, <3>1 DEF Attach, Job!Deliver
    <3> QED BY <3>1, <3>2 DEF Job!Next
  <2>4. CASE Finish(w)
    <3>1. current[w] \in Run /\ status[current[w]] # "none" /\ documents[current[w]] > 0
      BY <2>4 DEF QInv, TypeOK, WorkersOK, DocumentsOK, Finish
    <3>2. Job!Conclude(current[w], "success")
      BY <2>4, <3>1 DEF Finish, Job!Conclude
    <3> QED BY <3>1, <3>2 DEF Job!Next, Job!Verdict
  <2>5. CASE FailJob(w)
    <3>1. current[w] \in Run /\ status[current[w]] # "none"
      BY <2>5 DEF QInv, TypeOK, WorkersOK, FailJob
    <3>2. Job!Conclude(current[w], "error")
      BY <2>5, <3>1 DEF FailJob, Job!Conclude
    <3> QED BY <3>1, <3>2 DEF Job!Next, Job!Verdict
  <2> QED BY <1>2, <2>1, <2>2, <2>3, <2>4, <2>5 DEF Process
<1>3. CASE Reopen
  <2>1. Stale \in SUBSET Run /\ \A r \in Stale : status[r] = "running"
    BY DEF Stale
  <2>2. Job!GiveBack(Stale)
    BY <1>3, <2>1 DEF Reopen, Job!GiveBack
  <2> QED BY <2>1, <2>2 DEF Job!Next
<1>4. ASSUME NEW r \in Run, Enqueue(r) PROVE [Job!Next]_(Job!jobVars)
  <2>1. Job!Submit(r)
    BY <1>4 DEF Enqueue, Job!Submit
  <2> QED BY <2>1 DEF Job!Next
<1>5. ASSUME UNCHANGED <<status, documents>> PROVE [Job!Next]_(Job!jobVars)
  BY <1>5
<1> QED BY <1>2, <1>3, <1>4, <1>5
        DEF Next, CronStep, ListQueued, TakeNext, CallThrows, CronClaimThrows, CronGivesUp, Crash, Tick, rowVars, vars

\* The queue implements ExportJob, whatever the workers, the cron and the crashes do.
THEOREM QueueImplementsExportJob == Spec => ImplementsExportJob
<1>1. Init => Job!Init
  BY DEF Init, Job!Init
<1> QED BY <1>1, JobStep, QueueInvariant, PTL DEF Spec, Job!Spec, ImplementsExportJob

-----------------------------------------------------------------------------
\* What an ended job carries

\* The request goes with the verdict, and an error message comes with an error alone.
MarksOK ==
    /\ \A r \in Run : r \in payload => status[r] \in {"queued", "running"}
    /\ \A r \in Run \ disturbed : status[r] = "error" <=> r \in message

\* Every step keeps the marks of a job in agreement with its status.
LEMMA MarksNext == QInv /\ MarksOK /\ [Next]_vars => MarksOK'
<1> SUFFICES ASSUME QInv, MarksOK, [Next]_vars PROVE MarksOK'
  OBVIOUS
<1> USE QueueAssumption DEF Worker
<1>1. /\ status \in [Run -> {"none", "queued", "running", "success", "error"}]
      /\ payload \subseteq Run /\ message \subseteq Run
  BY DEF QInv, TypeOK
<1>2. ASSUME NEW w \in Worker, Active(w), current[w] \notin disturbed
      PROVE  current[w] \in Run => status[current[w]] = "running"
  BY <1>2 DEF QInv, Exclusive
<1>3. ASSUME NEW w \in Worker, Finish(w) \/ FailJob(w) PROVE MarksOK'
  <2>1. Active(w) /\ disturbed' = disturbed /\ current[w] \in Run
    BY <1>3 DEF Finish, FailJob, Active, QInv, TypeOK, WorkersOK
  <2>2. current[w] \in disturbed \/ current[w] \notin message
    BY <1>2, <2>1 DEF MarksOK
  <2> QED BY <1>1, <1>3, <2>1, <2>2 DEF Finish, FailJob, MarksOK
<1>4. ASSUME NEW w \in Worker, Claim(w) PROVE MarksOK'
  BY <1>1, <1>4 DEF Claim, MarksOK
<1>5. CASE Reopen
  BY <1>1, <1>5 DEF Reopen, Stale, MarksOK
<1>6. ASSUME NEW r \in Run, Enqueue(r) PROVE MarksOK'
  BY <1>1, <1>6 DEF Enqueue, MarksOK
<1>7. ASSUME UNCHANGED <<status, payload, message>>, disturbed \subseteq disturbed' PROVE MarksOK'
  BY <1>7 DEF MarksOK
<1>8. ASSUME NEW w \in Worker, Process(w) PROVE MarksOK'
  BY <1>3, <1>4, <1>7, <1>8 DEF Process, Export, Attach, rowVars
<1> QED BY <1>5, <1>6, <1>7, <1>8
        DEF Next, CronStep, ListQueued, TakeNext, CallThrows, CronClaimThrows, CronGivesUp, Crash, Tick,
            rowVars, vars

\* What a reader of an ended job finds in it.
EndedJobsAreWhole ==
    /\ \A r \in Run : r \in payload <=> status[r] \in {"queued", "running"}
    /\ \A r \in Run \ disturbed :
          /\ status[r] = "success" => documents[r] = 1
          /\ status[r] = "error" <=> r \in message

\* A job carries its request exactly until it ends; and one that was not disturbed has
\* exactly one document when it succeeded, and an error message exactly when it failed,
\* so that the report center can show either without asking the worker.
THEOREM JobsEndWhole == Spec => []EndedJobsAreWhole
<1>1. Init => MarksOK
  BY DEF Init, MarksOK
<1>2. QInv /\ MarksOK => EndedJobsAreWhole
  <2> SUFFICES ASSUME QInv, MarksOK PROVE EndedJobsAreWhole
    OBVIOUS
  <2>1. \A r \in Run : r \in payload <=> status[r] \in {"queued", "running"}
    BY DEF QInv, RequestIsKept, MarksOK
  <2>2. ASSUME NEW r \in Run \ disturbed, status[r] = "success" PROVE documents[r] = 1
    <3>1. documents[r] \in Nat /\ documents[r] > 0 /\ documents[r] <= 1
      BY <2>2 DEF QInv, TypeOK, DocumentsOK, Exclusive
    <3> QED BY <3>1
  <2> QED BY <2>1, <2>2 DEF MarksOK, EndedJobsAreWhole
<1> QED BY <1>1, <1>2, QInvInit, QInvNext, MarksNext, PTL DEF Spec
=============================================================================
