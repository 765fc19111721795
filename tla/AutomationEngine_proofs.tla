----------------------- MODULE AutomationEngine_proofs -----------------------
(***************************************************************************)
(* The engine only touches the case table through the table's own actions: *)
(* what is proved of ExceptionCases holds in the composed system.  Of the  *)
(* runs themselves: a success has handled every hit of its list, a handler *)
(* is at work only inside a run, and a refused insert needs two runs of    *)
(* one rule at the same time.                                              *)
(***************************************************************************)
EXTENDS AutomationEngine, ExceptionCases_proofs, FiniteSetTheorems

EInv ==
    /\ EngineTypeOK
    /\ rules \in [Rule -> RuleRow \cup {None}]
    /\ job \in [Automation -> JobRecord]

\* An idle process is in order.
LEMMA NoJobOK == JobOK(NoJob)
BY EngineAssumption DEF JobOK, JobRecord, NoJob, NothingRead, Phase

\* Taking a rule copies only what the rule row holds.
LEMMA SnapOK ==
    ASSUME EInv, NEW w \in Automation, job[w].pc \notin {"idle", "start"}
    PROVE  Snap(w) \in SettingSpace /\ job[w].rule \in Rule
BY DEF EInv, EngineTypeOK, JobOK, JobRecord, Snap

\* A step that changes one job.
LEMMA JobChange ==
    ASSUME EInv, NEW w \in Automation, NEW j, JobOK(j), job' = [job EXCEPT ![w] = j],
           UNCHANGED <<rules, condition, edit>>, abandoned' \in Nat
    PROVE  EInv'
BY DEF EInv, EngineTypeOK, JobOK, Defined

\* The engine starts with every process idle.
LEMMA EInvInit == EngineInit => EInv
BY NoJobOK DEF EngineInit, EInv, EngineTypeOK, Defined, JobOK

\* An administrator can only make a rule one of the rules there can be.
LEMMA EditedOK ==
    ASSUME NEW s \in SettingSpace, NEW e \in Edit
    PROVE  Edited(s, e) \in SettingSpace
<1>1. /\ Sent(e, "enabled") => e.enabled \in BOOLEAN
      /\ Sent(e, "createExceptions") => e.createExceptions \in BOOLEAN
      /\ Sent(e, "resolveOnRecovery") => e.resolveOnRecovery \in BOOLEAN
      /\ Sent(e, "cadence") => e.cadence \in Nat \ {0}
      /\ Sent(e, "severity") => e.severity \in Severity
      /\ Sent(e, "createActivities") => e.createActivities \in CreateActivities
  BY EngineAssumption DEF Sent
<1> QED BY <1>1 DEF Edited, SettingSpace

\* Rules are never deleted, so what a job has read of them still exists.
LEMMA RulesStay ==
    ASSUME EInv, \A r \in Rule : Defined(r) => rules'[r] # None, UNCHANGED job
    PROVE  \A w \in Automation : JobOK(job[w])'
BY DEF EInv, EngineTypeOK, JobOK, Defined

\* Requests on the rules leave every job in order.
LEMMA EInvAdmin ==
    ASSUME EInv,
           \/ \E r \in Rule, s \in Setting : CreateAutomationRule(r, s)
           \/ \E a \in Admin : AdminStep(a)
    PROVE  EInv'
<1>1. ASSUME NEW r \in Rule, NEW s \in Setting, CreateAutomationRule(r, s) PROVE EInv'
  <2>1. [set |-> s, dueIn |-> IF s.enabled THEN 0 ELSE NotScheduled] \in RuleRow
    BY EngineAssumption DEF RuleRow, NotScheduled
  <2>2. /\ rules' \in [Rule -> RuleRow \cup {None}]
        /\ \A q \in Rule : Defined(q) => rules'[q] # None
        /\ \A q \in Rule : rules'[q] # None => rules'[q] \in RuleRow
    BY <1>1, <2>1, EngineAssumption DEF CreateAutomationRule, EInv, EngineTypeOK, Defined
  <2>3. UNCHANGED <<condition, job, edit, abandoned>>
    BY <1>1 DEF CreateAutomationRule
  <2> QED BY <2>2, <2>3, RulesStay DEF EInv, EngineTypeOK, Defined
<1>2. ASSUME NEW a \in Admin, NEW r \in Rule, NEW e \in Edit, ReadRule(a, r, e) PROVE EInv'
  <2>1. \A b \in Admin : edit'[b] # None =>
            edit'[b].rule \in Rule /\ rules'[edit'[b].rule] # None /\ edit'[b].sent \in Edit
    <3> SUFFICES ASSUME NEW b \in Admin, edit'[b] # None
                 PROVE  edit'[b].rule \in Rule /\ rules'[edit'[b].rule] # None /\ edit'[b].sent \in Edit
      OBVIOUS
    <3>1. CASE edit'[b] = edit[b]
      BY <1>2, <3>1 DEF ReadRule, EInv, EngineTypeOK, Defined
    <3>2. CASE edit'[b] = [rule |-> r, sent |-> e, enabled |-> rules[r].set.enabled]
      BY <1>2, <3>2 DEF ReadRule, Defined
    <3>3. edit'[b] = edit[b] \/ edit'[b] = [rule |-> r, sent |-> e, enabled |-> rules[r].set.enabled]
      BY <1>2 DEF ReadRule
    <3> QED BY <3>1, <3>2, <3>3
  <2>2. UNCHANGED <<rules, condition, job, abandoned>>
    BY <1>2 DEF ReadRule
  <2>3. \A w \in Automation : JobOK(job[w])'
    BY <2>2, RulesStay DEF Defined
  <2> QED BY <2>1, <2>2, <2>3 DEF EInv, EngineTypeOK, Defined
<1>3. ASSUME NEW a \in Admin, WriteRule(a) PROVE EInv'
  <2> DEFINE r == edit[a].rule
             e == edit[a].sent
             due == IF Sent(e, "enabled") THEN IF e.enabled THEN 0 ELSE NotScheduled
                    ELSE IF Sent(e, "cadence") /\ edit[a].enabled THEN 0 ELSE rules[r].dueIn
             row == [set |-> Edited(rules[r].set, e), dueIn |-> due]
  <2>1. r \in Rule /\ rules[r] \in RuleRow /\ e \in Edit
    BY <1>3 DEF WriteRule, EInv, EngineTypeOK
  <2>2. Edited(rules[r].set, e) \in SettingSpace /\ due \in Nat \cup {NotScheduled}
    BY <2>1, EditedOK DEF RuleRow, NotScheduled
  <2>3. row \in RuleRow
    BY <2>2 DEF RuleRow
  <2>4. rules' = [rules EXCEPT ![r] = row] /\ edit' = [edit EXCEPT ![a] = None]
        /\ UNCHANGED <<condition, job, abandoned>>
    BY <1>3 DEF WriteRule
  <2> HIDE DEF row, r
  <2>5. /\ rules' \in [Rule -> RuleRow \cup {None}]
        /\ \A q \in Rule : rules[q] # None => rules'[q] \in RuleRow
        /\ \A q \in Rule : rules'[q] # None => rules'[q] \in RuleRow
    BY <2>1, <2>3, <2>4 DEF EInv, EngineTypeOK, Defined
  <2>6. \A b \in Admin : edit'[b] # None => edit'[b] = edit[b]
    BY <2>4
  <2>7. \A q \in Rule : Defined(q) => rules'[q] # None
    BY <2>5, EngineAssumption DEF Defined
  <2>8. \A w \in Automation : JobOK(job[w])'
    BY <2>4, <2>7, RulesStay
  <2> QED BY <2>4, <2>5, <2>6, <2>7, <2>8 DEF EInv, EngineTypeOK, Defined
<1> QED BY <1>1, <1>2, <1>3 DEF AdminStep

\* A tick or a manual call takes a rule that is there.
LEMMA EInvTake ==
    ASSUME EInv, NEW w \in Automation, NEW chosen \in SUBSET Rule,
           \A r \in chosen : Defined(r), Take(w, chosen)
    PROVE  EInv'
<1> DEFINE read == [r \in Rule |-> IF r \in chosen THEN rules[r].set ELSE None]
           j == [NoJob EXCEPT !.pc = "start", !.due = chosen, !.snap = read]
<1>1. \A r \in chosen : rules[r].set \in SettingSpace
  BY DEF EInv, EngineTypeOK, RuleRow
<1>2. /\ read \in [Rule -> SettingSpace \cup {None}]
      /\ \A r \in chosen : read[r] # None
      /\ \A r \in Rule : read[r] # None => Defined(r)
  BY <1>1, EngineAssumption
<1> HIDE DEF read
<1>3. JobOK(j)
  BY <1>2, NoJobOK DEF JobOK, JobRecord, NoJob, Phase
<1>4. job' = [job EXCEPT ![w] = j] /\ UNCHANGED <<rules, condition, edit, abandoned>>
  BY DEF Take, read
<1> HIDE DEF j
<1> QED BY <1>3, <1>4, JobChange DEF EInv, EngineTypeOK

\* Opening the run: the new run is among the runs of the engine.
LEMMA EInvBegin ==
    ASSUME EInv, NEW w \in Automation, NEW r \in Rule, BeginRun(w, r)
    PROVE  EInv'
<1> DEFINE others == {v \in Automation \ {w} : job[v].rule = r}
           first == IF r \in ReportRule THEN "export" ELSE "detect"
           shared == others # {}
           j == [NoJob EXCEPT !.pc = first, !.due = job[w].due \ {r}, !.snap = job[w].snap,
                              !.rule = r, !.run = "running", !.shared = shared]
<1>1. JobOK(job[w]) /\ r \in job[w].due
  BY DEF EInv, EngineTypeOK, BeginRun
<1>0. first \in Phase /\ shared \in BOOLEAN
  BY DEF Phase
<1> HIDE DEF first, shared
<1>2. JobOK(j)
  <2>1. j \in JobRecord
    BY <1>0, <1>1, NoJobOK DEF JobOK, JobRecord, NoJob
  <2>2. j.due = job[w].due \ {r} /\ j.snap = job[w].snap /\ j.rule = r
    BY DEF NoJob
  <2> HIDE DEF j
  <2> QED BY <1>1, <2>1, <2>2, EngineAssumption DEF JobOK
<1> HIDE DEF others
<1>3. \A v \in Automation : JobOK([job[v] EXCEPT !.shared = TRUE])
  BY DEF EInv, EngineTypeOK, JobOK, JobRecord
<1>4. /\ job' = [v \in Automation |-> IF v = w THEN j
                    ELSE IF v \in others THEN [job[v] EXCEPT !.shared = TRUE] ELSE job[v]]
      /\ UNCHANGED <<rules, condition, edit, abandoned>>
  BY DEF BeginRun, others, first, shared
<1> HIDE DEF j
<1>5. \A v \in Automation : JobOK(job'[v])
  BY <1>2, <1>3, <1>4 DEF EInv, EngineTypeOK
<1>6. job' \in [Automation -> JobRecord]
  BY <1>4, <1>5 DEF JobOK
<1>7. \A v \in Automation : JobOK(job[v])'
  BY <1>4, <1>5 DEF JobOK, Defined
<1> QED BY <1>4, <1>6, <1>7 DEF EInv, EngineTypeOK, Defined

\* A job that moves on to another job in order.
LEMMA EInvJob ==
    ASSUME EInv, NEW w \in Automation, JobStep(w) \/ StepThrows(w) \/ JobThrows(w)
    PROVE  EInv'
<1>1. JobOK(job[w]) /\ abandoned \in Nat /\ condition \subseteq Fingerprint
  BY DEF EInv, EngineTypeOK
\* The detection: hits are fingerprints, and so is what is to be upserted or tested.
<1>2. ASSUME NEW p \in {"hits", "probe"}, NEW hits \in SUBSET Fingerprint,
             NEW todo \in SUBSET Fingerprint, job[w].pc \in {"detect", "probe"},
             job' = [job EXCEPT ![w] = [job[w] EXCEPT !.pc = p, !.hits = hits, !.todo = todo]],
             UNCHANGED <<rules, condition, edit, abandoned>>
      PROVE  EInv'
  <2>1. JobOK([job[w] EXCEPT !.pc = p, !.hits = hits, !.todo = todo])
    BY <1>1, <1>2 DEF JobOK, JobRecord, Phase
  <2> QED BY <1>1, <1>2, <2>1, JobChange
<1>12. job[w].hits \in SUBSET Fingerprint /\ job[w].todo \in SUBSET Fingerprint
       /\ \A hits \in SUBSET Fingerprint : ToUpsert(w, hits) \in SUBSET Fingerprint
       /\ \A r : Watched(r) \in SUBSET Fingerprint
  BY <1>1 DEF JobOK, JobRecord, ToUpsert, Watched
<1>13. CASE ResolveHits(w)
  <2> DEFINE hits == condition \cap Watched(job[w].rule)
  <2>1. hits \in SUBSET Fingerprint /\ ToUpsert(w, hits) \in SUBSET Fingerprint
    BY <1>12
  <2>2. job' = [job EXCEPT ![w] = [job[w] EXCEPT !.pc = "hits", !.hits = hits,
                                                 !.todo = ToUpsert(w, hits)]]
        /\ UNCHANGED <<rules, condition, edit, abandoned>> /\ job[w].pc = "detect"
    BY <1>1, <1>13 DEF ResolveHits, EInv, JobOK, JobRecord
  <2> HIDE DEF hits
  <2> QED BY <1>2, <2>1, <2>2
<1>14. CASE ListIntegrations(w)
  <2>1. job' = [job EXCEPT ![w] = [job[w] EXCEPT !.pc = "probe", !.hits = job[w].hits,
                                                 !.todo = Watched(job[w].rule)]]
        /\ UNCHANGED <<rules, condition, edit, abandoned>> /\ job[w].pc = "detect"
    BY <1>1, <1>14 DEF ListIntegrations, EInv, JobOK, JobRecord
  <2> QED BY <1>2, <1>12, <2>1
<1>15. ASSUME NEW f \in Fingerprint, TestConnection(w, f) PROVE EInv'
  <2> DEFINE left == job[w].todo \ {f}
             hits == job[w].hits \cup (condition \cap {f})
             p == IF left = {} THEN "hits" ELSE "probe"
             todo == IF left = {} THEN ToUpsert(w, hits) ELSE left
  <2>1. hits \in SUBSET Fingerprint
    BY <1>1, <1>12
  <2>2. todo \in SUBSET Fingerprint /\ p \in {"hits", "probe"}
    BY <1>12, <2>1
  <2>3. job' = [job EXCEPT ![w] = [job[w] EXCEPT !.pc = p, !.hits = hits, !.todo = todo]]
        /\ UNCHANGED <<rules, condition, edit, abandoned>> /\ job[w].pc = "probe"
    BY <1>1, <1>15 DEF TestConnection, EInv, JobOK, JobRecord
  <2> HIDE DEF hits, p, todo
  <2> QED BY <1>2, <2>1, <2>2, <2>3
<1>3. ASSUME NEW f \in Fingerprint, HandleHit(w, f) PROVE EInv'
  <2> DEFINE j == [job[w] EXCEPT !.todo = job[w].todo \ {f}]
  <2>1. job' = [job EXCEPT ![w] = j] /\ UNCHANGED <<rules, condition, edit, abandoned>>
    BY <1>3 DEF HandleHit, EInv
  <2>2. JobOK(j)
    BY <1>1 DEF JobOK, JobRecord
  <2> HIDE DEF j
  <2> QED BY <1>1, <2>1, <2>2, JobChange
\* The steps that only move the run on.
<1>4. ASSUME NEW p \in Phase, NEW run \in {"none", "running", "success", "error"},
             NEW artifact \in BOOLEAN,
             job[w].pc \notin {"idle", "start"},
             job' = [job EXCEPT ![w] = [job[w] EXCEPT !.pc = p, !.run = run, !.artifact = artifact]],
             UNCHANGED <<rules, condition, edit, abandoned>>
      PROVE  EInv'
  <2>1. JobOK([job[w] EXCEPT !.pc = p, !.run = run, !.artifact = artifact])
    BY <1>1, <1>4 DEF JobOK, JobRecord
  <2> QED BY <1>1, <1>4, <2>1, JobChange
<1>5. ASSUME NEW p \in Phase, NEW run \in {"none", "running", "success", "error"},
             job[w].pc \notin {"idle", "start"},
             \/ job' = [job EXCEPT ![w].pc = p]
             \/ job' = [job EXCEPT ![w].pc = p, ![w].run = run]
             \/ job' = [job EXCEPT ![w].pc = p, ![w].artifact = TRUE],
             UNCHANGED <<rules, condition, edit, abandoned>>
      PROVE  EInv'
  <2>1. /\ job[w] \in JobRecord /\ job[w].artifact \in BOOLEAN
        /\ job[w].run \in {"none", "running", "success", "error"}
    BY <1>1 DEF JobOK, JobRecord
  <2>2. job \in [Automation -> JobRecord]
    BY DEF EInv
  <2>3. CASE job' = [job EXCEPT ![w].pc = p]
    <3>1. job' = [job EXCEPT ![w] = [job[w] EXCEPT !.pc = p, !.run = job[w].run,
                                                   !.artifact = job[w].artifact]]
      BY <2>1, <2>2, <2>3 DEF JobRecord
    <3> QED BY <1>4, <1>5, <2>1, <3>1
  <2>4. CASE job' = [job EXCEPT ![w].pc = p, ![w].run = run]
    <3>1. job' = [job EXCEPT ![w] = [job[w] EXCEPT !.pc = p, !.run = run,
                                                   !.artifact = job[w].artifact]]
      BY <2>1, <2>2, <2>4 DEF JobRecord
    <3> QED BY <1>4, <1>5, <2>1, <3>1
  <2>5. CASE job' = [job EXCEPT ![w].pc = p, ![w].artifact = TRUE]
    <3>1. job' = [job EXCEPT ![w] = [job[w] EXCEPT !.pc = p, !.run = job[w].run,
                                                   !.artifact = TRUE]]
      BY <2>1, <2>2, <2>5 DEF JobRecord
    <3> QED BY <1>4, <1>5, <2>1, <3>1
  <2> QED BY <1>5, <2>3, <2>4, <2>5
<1>9. CASE HitRefused(w) \/ TemplateUnusable(w) \/ StepThrows(w)
  BY <1>5, <1>9 DEF HitRefused, TemplateUnusable, StepThrows, Trying, Phase
<1>10. CASE ResolveRecovered(w)
  BY <1>5, <1>10 DEF ResolveRecovered, Phase
<1>11. CASE ExportReport(w) \/ CloseRun(w) \/ FailRun(w)
  BY <1>5, <1>11 DEF ExportReport, CloseRun, FailRun, Phase
<1>6. CASE WorkOnCase(w)
  <2>1. UNCHANGED engineVars
    BY <1>6 DEF WorkOnCase
  <2>2. \A v \in Automation : JobOK(job[v])'
    BY <2>1, RulesStay DEF engineVars, Defined
  <2> QED BY <2>1, <2>2 DEF engineVars, EInv, EngineTypeOK, Defined
<1>7. CASE Reschedule(w)
  <2> DEFINE q == job[w].rule
             row == [rules[q] EXCEPT !.dueIn = Snap(w).cadence]
  <2>1. /\ job[w].pc \in {"reschedule", "backoff"}
        /\ rules' = [rules EXCEPT ![q].dueIn = Snap(w).cadence]
        /\ job' = [job EXCEPT ![w] = NextOf(job[w])]
        /\ UNCHANGED <<condition, edit, abandoned>>
    BY <1>7 DEF Reschedule, EInv
  <2>2. Snap(w).cadence \in Nat /\ q \in Rule
    BY <2>1, SnapOK DEF SettingSpace
  <2>3. rules' = [rules EXCEPT ![q] = row]
    BY <2>1, <2>2 DEF EInv
  <2>4. JobOK(NextOf(job[w]))
    BY <1>1, NoJobOK DEF JobOK, JobRecord, NextOf, NoJob, Phase
  <2>5. Defined(q)
    BY <1>1, <2>1, <2>2 DEF JobOK
  <2>6. row \in RuleRow
    BY <2>2, <2>5 DEF EInv, EngineTypeOK, RuleRow
  <2> HIDE DEF row, q
  <2>7. \A r \in Rule : Defined(r) => rules'[r] \in RuleRow /\ rules'[r] # None
    BY <2>2, <2>3, <2>6, EngineAssumption DEF EInv, EngineTypeOK, Defined
  <2>8. \A r \in Rule : ~Defined(r) => rules'[r] = None
    BY <2>2, <2>3, <2>5 DEF EInv, Defined
  <2>9. \A v \in Automation : JobOK(job'[v])
    BY <1>1, <2>1, <2>4 DEF EInv, EngineTypeOK
  <2>10. \A v \in Automation : JobOK(job[v])'
    BY <2>7, <2>9 DEF JobOK, Defined
  <2>11. rules' \in [Rule -> RuleRow \cup {None}] /\ job' \in [Automation -> JobRecord]
    BY <2>1, <2>3, <2>6, <2>9 DEF EInv, JobOK
  <2> QED BY <2>1, <2>7, <2>8, <2>10, <2>11 DEF EInv, EngineTypeOK, Defined
<1>8. CASE JobThrows(w)
  <2>1. job' = [job EXCEPT ![w] = NoJob] /\ UNCHANGED <<rules, condition, edit>> /\ abandoned' \in Nat
    BY <1>1, <1>8 DEF JobThrows
  <2> QED BY <2>1, NoJobOK, JobChange
<1> QED BY <1>3, <1>6, <1>7, <1>8, <1>9, <1>10, <1>11, <1>13, <1>14, <1>15, EInvBegin DEF JobStep

\* Every step of the engine keeps the engine invariant.
LEMMA EInvNext == EInv /\ [EngineNext]_allVars => EInv'
<1> SUFFICES ASSUME EInv, [EngineNext]_allVars PROVE EInv'
  OBVIOUS
<1>1. CASE Tock
  BY <1>1, EInvTake, EngineAssumption DEF Tock, Due
<1>2. ASSUME NEW w \in RunNow, NEW r \in Rule, RunAutomationRuleNow(w, r) PROVE EInv'
  BY <1>2, EInvTake DEF RunAutomationRuleNow, RunNow
<1>3. CASE Minute
  <2>1. \A r \in Rule : rules[r] \in RuleRow /\ rules[r].dueIn > 0 =>
           [rules[r] EXCEPT !.dueIn = @ - 1] \in RuleRow
    BY DEF RuleRow, NotScheduled
  <2>2. \A r \in Rule : (Defined(r) => rules'[r] \in RuleRow) /\ (~Defined(r) => rules'[r] = None)
    BY <1>3, <2>1 DEF Minute, EInv, EngineTypeOK, Defined
  <2>3. rules' \in [Rule -> RuleRow \cup {None}]
    BY <1>3, <2>2 DEF Minute
  <2>4. \A r \in Rule : Defined(r) => rules'[r] # None
    BY <2>2, EngineAssumption DEF Defined
  <2>5. UNCHANGED <<condition, job, edit, abandoned>>
    BY <1>3 DEF Minute
  <2>6. \A w \in Automation : JobOK(job[w])'
    BY <2>4, <2>5, RulesStay
  <2> QED BY <2>2, <2>3, <2>4, <2>5, <2>6 DEF EInv, EngineTypeOK, Defined
<1>4. CASE ProcessCrash
  <2>1. Cardinality({w \in Automation : Running(w)}) \in Nat
    <3>1. IsFiniteSet({w \in Automation : Running(w)})
      BY EngineAssumption, FS_Subset
    <3> QED BY <3>1, FS_CardinalityType
  <2>2. /\ job' = [w \in Automation |-> NoJob] /\ edit' = [a \in Admin |-> None]
        /\ UNCHANGED <<rules, condition>>
        /\ abandoned' = abandoned + Cardinality({w \in Automation : Running(w)})
    BY <1>4 DEF ProcessCrash
  <2>3. \A w \in Automation : JobOK(NoJob)'
    BY <2>2, NoJobOK DEF JobOK, Defined, NoJob, NothingRead
  <2> QED BY <2>1, <2>2, <2>3 DEF EInv, EngineTypeOK, Defined, JobOK
<1>5. ASSUME NEW f \in Fingerprint, ConditionChanges(f) PROVE EInv'
  BY <1>5 DEF ConditionChanges, EInv, EngineTypeOK, JobOK, Defined
<1>6. ASSUME UNCHANGED engineVars PROVE EInv'
  BY <1>6 DEF engineVars, EInv, EngineTypeOK, JobOK, Defined
<1> QED BY <1>1, <1>2, <1>3, <1>4, <1>5, <1>6, EInvAdmin, EInvJob
        DEF EngineNext, OperatorStep, allVars

\* Rules, jobs and edits keep their types: a job never executes a rule it has not read.
THEOREM EngineTypeCorrect == EngineSpec => []EngineTypeOK
<1>1. EInv => EngineTypeOK
  BY DEF EInv
<1> QED BY <1>1, EInvInit, EInvNext, PTL DEF EngineSpec

-----------------------------------------------------------------------------
\* Every step of the engine is a step of the case table, or leaves it alone.

\* What a job does to the cases is a step of the case table, or nothing.
LEMMA JobStepOnCases ==
    ASSUME EInv, NEW w \in Automation, JobStep(w) \/ StepThrows(w) \/ JobThrows(w)
    PROVE  [Next]_vars
<1>1. w \in Worker
  BY DEF Worker
<1>2. ASSUME NEW f \in Fingerprint, HandleHit(w, f) PROVE Next
  <2>1. Snap(w).severity \in Severity /\ Snap(w).createActivities \in CreateActivities
    BY <1>2, SnapOK DEF HandleHit, SettingSpace
  <2>2. AutomationStarts(w)
    BY <1>2, <2>1 DEF HandleHit, AutomationStarts
  <2> QED BY <2>2 DEF Next
<1>3. CASE HitRefused(w) \/ WorkOnCase(w)
  <2>1. Proceed(w)
    BY <1>3 DEF HitRefused, WorkOnCase, Proceed
  <2> QED BY <1>1, <2>1 DEF Next
<1>4. CASE ResolveRecovered(w)
  <2>1. CASE ToResolve(w) # {}
    <3>1. Snap(w).createActivities \in CreateActivities /\ job[w].rule \in Rule
          /\ job[w].hits \in SUBSET Fingerprint
      BY <1>4, SnapOK DEF ResolveRecovered, SettingSpace, EInv, EngineTypeOK, JobOK, JobRecord
    <3>2. ListRecovered(w, job[w].rule, job[w].hits, Snap(w).createActivities)
      BY <1>4, <2>1 DEF ResolveRecovered
    <3>3. AutomationStarts(w)
      BY <3>1, <3>2 DEF AutomationStarts
    <3> QED BY <3>3 DEF Next
  <2>2. CASE ToResolve(w) = {}
    BY <1>4, <2>2 DEF ResolveRecovered
  <2> QED BY <2>1, <2>2
<1>5. CASE StepThrows(w) \/ JobThrows(w)
  <2>1. Fail(w)
    BY <1>5 DEF StepThrows, JobThrows
  <2> QED BY <1>1, <2>1 DEF Next
<1> QED BY <1>2, <1>3, <1>4, <1>5
        DEF JobStep, BeginRun, ResolveHits, ListIntegrations, TestConnection, ExportReport, TemplateUnusable, CloseRun, FailRun, Reschedule

\* So is what the whole engine does.
LEMMA EngineStepOnCases ==
    ASSUME EInv, [EngineNext]_allVars
    PROVE  [Next]_vars
<1>1. ASSUME NEW w \in Operator, OperatorStep(w) PROVE Next
  BY <1>1 DEF OperatorStep, Next, Worker
<1>2. ASSUME NEW a \in Admin, AdminStep(a) PROVE [Next]_vars
  BY <1>2 DEF AdminStep, ReadRule, WriteRule
<1>3. CASE Minute
  BY <1>3 DEF Minute, Next
<1>4. CASE ProcessCrash
  BY <1>4 DEF ProcessCrash, Next
<1>5. CASE Tock \/ (\E w \in RunNow, r \in Rule : RunAutomationRuleNow(w, r))
  BY <1>5 DEF Tock, RunAutomationRuleNow, Take
<1> QED BY <1>1, <1>2, <1>3, <1>4, <1>5, JobStepOnCases
        DEF EngineNext, CreateAutomationRule, ConditionChanges, allVars

\* The composed system behaves, on its cases, as ExceptionCases specifies.
THEOREM EngineUsesTheCaseTable == EngineSpec => UsesTheCaseTable
<1>1. EngineInit => Init
  BY DEF EngineInit
<1> QED BY <1>1, EInvInit, EInvNext, EngineStepOnCases, PTL DEF EngineSpec, UsesTheCaseTable, Spec

\* Hence what is proved of the case table is true of the composed system: stamps follow
\* the status, and the queue shows every case that was not written from an outdated read.
THEOREM EngineKeepsCases ==
    EngineSpec => /\ [](StampsFollowStatus /\ QueueShowsTheCase)
                  /\ ResolutionStands
                  /\ [][RecalculationOnlyEscalates]_vars
BY EngineUsesTheCaseTable, StampsCorrect, QueueCorrect, ResolutionsStand, RecalculationEscalates, PTL
   DEF UsesTheCaseTable

\* While no call fails and every rule writes activities, the scheduler and RunNow lose no
\* activity either: a run is a writer of cases like any other.
THEOREM EngineLogsTransitions ==
    ASSUME MaxFaults = 0, CreateActivities \subseteq {TRUE}
    PROVE  EngineSpec => []TransitionsAreLogged
<1>1. Spec => []TransitionsAreLogged
  BY ActivitiesFollow
<1> QED BY <1>1, EngineUsesTheCaseTable, PTL DEF UsesTheCaseTable

\* The scheduler, RunNow and the operators change cases only through handlers that can
\* overlap: in a behaviour of the whole system in which no two do, the queue is exact at
\* every moment, whatever fails, and through every crash and every edit of the rules.
THEOREM EngineAloneIsExact ==
    EngineSpec /\ []OneAtATime =>
        [](raced = {} /\ \A c \in StoredCases : CoherentAt(cases[c], now))
BY EngineUsesTheCaseTable, SerialQueueIsExact, PTL DEF UsesTheCaseTable

-----------------------------------------------------------------------------
\* The run and the handler it drives

\* What a run knows at each point of its way: what it found belongs to its rule, and once
\* it stops upserting every hit is on record.
RunOK(j, stored) ==
    /\ \A f \in j.hits : f \in Fingerprint /\ RuleOf[f] = j.rule
    /\ j.pc \in {"detect", "export"} => j.hits = {}
    /\ j.pc = "probe" => \A f \in j.todo : RuleOf[f] = j.rule
    /\ j.pc \in {"detect", "probe"} => j.run = "running"
    /\ j.pc \in {"detect", "probe", "hits", "resolving"} => j.rule \notin ReportRule
    /\ j.pc = "export" => j.rule \in ReportRule
    /\ j.pc \in {"resolving", "close", "reschedule"} \/ j.run = "success" =>
          /\ j.snap[j.rule].createExceptions => j.hits \subseteq stored
          /\ j.rule \in ReportRule => j.artifact

\* How the handler stands to the run: it works on a hit of the run, or on a case the run
\* did not hit, and a hit taken from the list is stored or about to be.
WorkOK(j, o, stored) ==
    /\ o.phase # "idle" =>
          /\ j.pc \in {"hits", "resolving"}
          /\ o.logs = j.snap[j.rule].createActivities
          /\ j.pc = "hits" => o.task = "upsert" /\ o.rest = {} /\ o.cur \in j.hits
          /\ j.pc = "resolving" => o.task = "resolve" /\ o.rest \cap j.hits = {}
    /\ j.pc = "hits" =>
          /\ j.todo \subseteq j.hits
          /\ j.snap[j.rule].createExceptions =>
                \A f \in j.hits \ j.todo : f \in stored \/ (o.phase = "write" /\ o.cur = f)

WInv == \A w \in Automation :
            RunOK(job[w], StoredCases) /\ WorkOK(job[w], op[w], StoredCases)

\* A process without a job is in order.
LEMMA NoRunOK == ASSUME NEW stored PROVE RunOK(NoJob, stored) /\ WorkOK(NoJob, Idle, stored)
BY EngineAssumption DEF RunOK, WorkOK, NoJob, Idle

\* Storing more cases disturbs no run.
LEMMA WorkGrows ==
    ASSUME NEW j, NEW o, NEW less, NEW more, less \subseteq more,
           RunOK(j, less), WorkOK(j, o, less)
    PROVE  RunOK(j, more) /\ WorkOK(j, o, more)
BY DEF RunOK, WorkOK

\* A step of the table that leaves the runs and their handlers alone.
LEMMA WorkStays ==
    ASSUME WInv, StoredCases \subseteq StoredCases', job' = job,
           \A w \in Automation : op'[w] = op[w]
    PROVE  WInv'
<1>1. ASSUME NEW w \in Automation
      PROVE  RunOK(job[w], StoredCases') /\ WorkOK(job[w], op[w], StoredCases')
  BY WorkGrows DEF WInv
<1> QED BY <1>1 DEF WInv, RunOK, WorkOK

\* A step of one run and its handler.
LEMMA WorkMoves ==
    ASSUME IInv, EInv, WInv, StoredCases \subseteq StoredCases', NEW w \in Automation, NEW j, NEW o,
           job' = [job EXCEPT ![w] = j], op' = [op EXCEPT ![w] = o],
           RunOK(j, StoredCases'), WorkOK(j, o, StoredCases')
    PROVE  WInv'
<1>1. \A v \in Automation : /\ job'[v] = IF v = w THEN j ELSE job[v]
                            /\ op'[v] = IF v = w THEN o ELSE op[v]
  BY DEF IInv, TypeOK, EInv, Worker
<1>2. ASSUME NEW v \in Automation
      PROVE  RunOK(job[v], StoredCases') /\ WorkOK(job[v], op[v], StoredCases')
  BY WorkGrows DEF WInv
<1>3. ASSUME NEW v \in Automation
      PROVE  RunOK(job'[v], StoredCases') /\ WorkOK(job'[v], op'[v], StoredCases')
  BY <1>1, <1>2
<1> QED BY <1>3 DEF WInv, RunOK, WorkOK

\* A step of one run that leaves its handler alone.
LEMMA RunMoves ==
    ASSUME IInv, EInv, WInv, NEW w \in Automation, NEW j, UNCHANGED vars,
           job' = [job EXCEPT ![w] = j],
           RunOK(j, StoredCases), WorkOK(j, op[w], StoredCases)
    PROVE  WInv'
<1>1. StoredCases' = StoredCases /\ op' = [op EXCEPT ![w] = op[w]]
  BY DEF StoredCases, Stored, vars, IInv, TypeOK, Worker
<1> QED BY <1>1, WorkMoves

\* The engine starts without work.
LEMMA WInvInit == EngineInit => WInv
<1> SUFFICES ASSUME EngineInit, NEW w \in Automation
             PROVE  RunOK(job[w], StoredCases) /\ WorkOK(job[w], op[w], StoredCases)
  BY DEF WInv
<1>1. job[w] = NoJob /\ op[w] = Idle
  BY DEF EngineInit, Init, Worker
<1> QED BY <1>1, NoRunOK

\* Opening a run, and the steps that end one or move it on without its handler.
LEMMA WorkBegins ==
    ASSUME IInv, EInv, WInv, NEW w \in Automation, NEW r \in Rule, BeginRun(w, r)
    PROVE  WInv'
<1>1. /\ job[w].pc = "start" /\ UNCHANGED vars
      /\ job[w] \in JobRecord
  BY DEF BeginRun, EInv, EngineTypeOK, JobOK
<1>2. op[w].phase = "idle"
  BY <1>1 DEF WInv, WorkOK
<1>3. StoredCases' = StoredCases /\ op' = op
  BY <1>1 DEF StoredCases, Stored, vars
<1>4. RunOK(job'[w], StoredCases) /\ WorkOK(job'[w], op[w], StoredCases)
  <2> DEFINE others == {v \in Automation \ {w} : job[v].rule = r}
             shared == others # {}
             first == IF r \in ReportRule THEN "export" ELSE "detect"
             j == [NoJob EXCEPT !.pc = first, !.due = job[w].due \ {r}, !.snap = job[w].snap,
                                !.rule = r, !.run = "running", !.shared = shared]
  <2>1. job'[w] = j
    BY DEF BeginRun
  <2> HIDE DEF shared
  <2>2. /\ j.pc = first /\ j.hits = {} /\ j.rule = r /\ j.run = "running"
    BY DEF NoJob
  <2> HIDE DEF j
  <2> QED BY <1>2, <2>1, <2>2 DEF RunOK, WorkOK
<1>5. ASSUME NEW v \in Automation \ {w}
      PROVE  RunOK(job'[v], StoredCases) /\ WorkOK(job'[v], op[v], StoredCases)
  <2>1. job'[v] = job[v] \/ job'[v] = [job[v] EXCEPT !.shared = TRUE]
    BY DEF BeginRun
  <2>2. job[v] \in JobRecord
    BY DEF EInv
  <2>3. /\ job'[v].hits = job[v].hits /\ job'[v].pc = job[v].pc /\ job'[v].rule = job[v].rule
        /\ job'[v].run = job[v].run /\ job'[v].snap = job[v].snap /\ job'[v].todo = job[v].todo
        /\ job'[v].artifact = job[v].artifact
    BY <2>1, <2>2 DEF JobRecord
  <2>4. RunOK(job[v], StoredCases) /\ WorkOK(job[v], op[v], StoredCases)
    BY DEF WInv
  <2> QED BY <2>3, <2>4 DEF RunOK, WorkOK
<1>6. \A v \in Automation : RunOK(job'[v], StoredCases) /\ WorkOK(job'[v], op[v], StoredCases)
  BY <1>4, <1>5
<1> QED BY <1>3, <1>6 DEF WInv, RunOK, WorkOK

\* No step removes a case.
LEMMA StoredGrows ==
    ASSUME IInv, RolesOK, [Next]_vars
    PROVE  StoredCases \subseteq StoredCases'
BY CasesStay DEF CaseStays, StoredCases, Stored

\* What a run knows of itself.
LEMMA RunTyped ==
    ASSUME EInv, WInv, NEW w \in Automation
    PROVE  /\ job[w] \in JobRecord
           /\ RunOK(job[w], StoredCases) /\ WorkOK(job[w], op[w], StoredCases)
BY DEF EInv, WInv

\* The detection.
LEMMA WorkDetects ==
    ASSUME IInv, EInv, WInv, NEW w \in Automation,
           \/ ResolveHits(w) \/ ListIntegrations(w)
           \/ \E f \in Fingerprint : TestConnection(w, f)
    PROVE  WInv'
<1>1. job[w] \in JobRecord /\ RunOK(job[w], StoredCases) /\ WorkOK(job[w], op[w], StoredCases)
  BY RunTyped
<1>2. ASSUME NEW p \in {"probe", "hits"}, NEW hits, NEW todo, UNCHANGED vars,
             job[w].pc \in {"detect", "probe"},
             \A f \in hits : f \in Fingerprint /\ RuleOf[f] = job[w].rule,
             p = "hits" => todo = ToUpsert(w, hits),
             p = "probe" => \A f \in todo : RuleOf[f] = job[w].rule,
             job' = [job EXCEPT ![w] = [job[w] EXCEPT !.pc = p, !.hits = hits, !.todo = todo]]
      PROVE  WInv'
  <2> DEFINE j == [job[w] EXCEPT !.pc = p, !.hits = hits, !.todo = todo]
  <2>1. /\ j.pc = p /\ j.hits = hits /\ j.todo = todo /\ j.rule = job[w].rule
        /\ j.run = job[w].run /\ j.snap = job[w].snap
    BY <1>1 DEF JobRecord
  <2>2. job' = [job EXCEPT ![w] = j]
    BY <1>2
  <2> HIDE DEF j
  <2>3. op[w].phase = "idle" /\ job[w].run = "running" /\ job[w].rule \notin ReportRule
    BY <1>1, <1>2 DEF WorkOK, RunOK
  <2>4. RunOK(j, StoredCases)
    BY <1>2, <2>1, <2>3 DEF RunOK
  <2>5. p = "hits" => todo = IF j.snap[j.rule].createExceptions THEN hits ELSE {}
    BY <1>2, <2>1 DEF ToUpsert, Snap
  <2>6. WorkOK(j, op[w], StoredCases)
    BY <2>1, <2>3, <2>5 DEF WorkOK
  <2> QED BY <1>2, <2>2, <2>4, <2>6, RunMoves
<1>3. CASE ResolveHits(w)
  <2> DEFINE hits == condition \cap Watched(job[w].rule)
  <2>1. /\ job' = [job EXCEPT ![w] = [job[w] EXCEPT !.pc = "hits", !.hits = hits,
                                                    !.todo = ToUpsert(w, hits)]]
        /\ UNCHANGED vars /\ job[w].pc = "detect"
    BY <1>1, <1>3 DEF ResolveHits, EInv, JobRecord
  <2>2. \A f \in hits : f \in Fingerprint /\ RuleOf[f] = job[w].rule
    BY DEF Watched
  <2> HIDE DEF hits
  <2> QED BY <1>2, <2>1, <2>2
<1>4. CASE ListIntegrations(w)
  <2>1. /\ job' = [job EXCEPT ![w] = [job[w] EXCEPT !.pc = "probe", !.hits = job[w].hits,
                                                    !.todo = Watched(job[w].rule)]]
        /\ UNCHANGED vars /\ job[w].pc = "detect"
    BY <1>1, <1>4 DEF ListIntegrations, EInv, JobRecord
  <2>2. /\ \A f \in job[w].hits : f \in Fingerprint /\ RuleOf[f] = job[w].rule
        /\ \A f \in Watched(job[w].rule) : RuleOf[f] = job[w].rule
    BY <1>1 DEF RunOK, Watched
  <2> QED BY <1>2, <2>1, <2>2
<1>5. ASSUME NEW f \in Fingerprint, TestConnection(w, f) PROVE WInv'
  <2> DEFINE left == job[w].todo \ {f}
             hits == job[w].hits \cup (condition \cap {f})
             p == IF left = {} THEN "hits" ELSE "probe"
             todo == IF left = {} THEN ToUpsert(w, hits) ELSE left
  <2>1. job' = [job EXCEPT ![w] = [job[w] EXCEPT !.pc = p, !.hits = hits, !.todo = todo]]
        /\ UNCHANGED vars /\ job[w].pc = "probe" /\ f \in job[w].todo
    BY <1>1, <1>5 DEF TestConnection, EInv, JobRecord
  <2>2. \A g \in job[w].todo : RuleOf[g] = job[w].rule
    BY <1>1, <2>1 DEF RunOK
  <2>3. \A g \in hits : g \in Fingerprint /\ RuleOf[g] = job[w].rule
    BY <1>1, <2>1, <2>2 DEF RunOK
  <2>4. /\ p \in {"probe", "hits"} /\ (p = "hits" => todo = ToUpsert(w, hits))
        /\ p = "probe" => \A g \in todo : RuleOf[g] = job[w].rule
    BY <2>2
  <2> HIDE DEF hits, p, todo
  <2> QED BY <1>2, <2>1, <2>3, <2>4
<1> QED BY <1>3, <1>4, <1>5

\* A handler that has written its case, or its activity, goes on within the run.
LEMMA HandlerGoesOn ==
    ASSUME NEW j, NEW o \in Operation, NEW q \in Operation, NEW c, NEW stored, NEW more,
           stored \subseteq more, WorkOK(j, o, stored), o.phase # "idle",
           o.phase = "write" => o.cur \in more,
           q.task = o.task, q.logs = o.logs, q.rest \subseteq o.rest,
           j.pc = "hits" => c \in j.hits
    PROVE  WorkOK(j, ThenLog(q, c), more) /\ WorkOK(j, Continue(q), more)
<1>1. /\ j.pc \in {"hits", "resolving"} /\ q.logs = j.snap[j.rule].createActivities
      /\ j.pc = "hits" => q.task = "upsert" /\ q.rest = {}
      /\ j.pc = "resolving" => q.task = "resolve" /\ q.rest \cap j.hits = {}
  BY DEF WorkOK
<1>2. j.pc = "hits" =>
          /\ j.todo \subseteq j.hits
          /\ j.snap[j.rule].createExceptions => \A f \in j.hits \ j.todo : f \in more
  BY DEF WorkOK
<1>3. WorkOK(j, Continue(q), more)
  <2>1. CASE q.rest = {}
    BY <1>1, <1>2, <2>1 DEF WorkOK, Continue, Idle
  <2>2. CASE q.rest # {}
    <3> DEFINE n == Continue(q)
    <3>1. /\ n.phase = "next" /\ n.task = q.task /\ n.rest = q.rest /\ n.logs = q.logs
      BY <2>2 DEF Continue, Operation
    <3>2. j.pc = "resolving"
      BY <1>1, <2>2
    <3> HIDE DEF n
    <3>3. WorkOK(j, n, more)
      BY <1>1, <3>1, <3>2 DEF WorkOK
    <3> QED BY <3>3 DEF n
  <2> QED BY <2>1, <2>2
<1>4. CASE q.logs
  <2> DEFINE n == ThenLog(q, c)
  <2>1. n.phase = "log" /\ n.task = q.task /\ n.rest = q.rest /\ n.logs = q.logs /\ n.cur = c
    BY <1>4 DEF ThenLog, Operation
  <2> HIDE DEF n
  <2>2. WorkOK(j, n, more)
    BY <1>1, <1>2, <2>1 DEF WorkOK
  <2> QED BY <1>3, <2>2 DEF n
<1>5. CASE ~q.logs
  BY <1>3, <1>5 DEF ThenLog
<1> QED BY <1>4, <1>5

\* The upsert of a hit.
LEMMA WorkUpserts ==
    ASSUME IInv, EInv, WInv, NEW w \in Automation, NEW f \in Fingerprint, HandleHit(w, f)
    PROVE  WInv'
<1>1. job[w] \in JobRecord /\ RunOK(job[w], StoredCases) /\ WorkOK(job[w], op[w], StoredCases)
  BY RunTyped
<1> DEFINE j == [job[w] EXCEPT !.todo = job[w].todo \ {f}]
           read == [NothingSeen EXCEPT ![f] = FindByFingerprint(f)]
           arg == [NoPayload EXCEPT !.severity = Snap(w).severity]
           o == [Idle EXCEPT !.task = "upsert", !.phase = "write", !.cur = f, !.seen = read,
                             !.arg = arg, !.logs = Snap(w).createActivities]
<1>2. /\ job[w].pc = "hits" /\ f \in job[w].todo /\ op[w].phase = "idle"
      /\ op' = [op EXCEPT ![w] = o] /\ job' = [job EXCEPT ![w] = j] /\ UNCHANGED cases
  BY <1>1 DEF HandleHit, StartUpsert, IsIdle, EInv
<1> HIDE DEF read, arg
<1>3. /\ o.phase = "write" /\ o.task = "upsert" /\ o.rest = {} /\ o.cur = f
      /\ o.logs = Snap(w).createActivities
  BY DEF Idle
<1>4. /\ j.pc = "hits" /\ j.hits = job[w].hits /\ j.todo = job[w].todo \ {f}
      /\ j.rule = job[w].rule /\ j.snap = job[w].snap /\ j.run = job[w].run
      /\ j.artifact = job[w].artifact
  BY <1>1, <1>2 DEF JobRecord
<1> HIDE DEF j, o
<1>5. RunOK(j, StoredCases)
  BY <1>1, <1>2, <1>4 DEF RunOK
<1>6. job[w].todo \subseteq job[w].hits
      /\ (job[w].snap[job[w].rule].createExceptions =>
            \A g \in job[w].hits \ job[w].todo : g \in StoredCases)
  BY <1>1, <1>2 DEF WorkOK
<1>7. WorkOK(j, o, StoredCases)
  BY <1>2, <1>3, <1>4, <1>6 DEF WorkOK, Snap
<1>8. StoredCases' = StoredCases
  BY <1>2 DEF StoredCases, Stored
<1> QED BY <1>2, <1>5, <1>7, <1>8, WorkMoves

\* The steps of a handler inside its run.
LEMMA WorkProceeds ==
    ASSUME IInv, EInv, WInv, StoredCases \subseteq StoredCases', NEW w \in Automation, WorkOnCase(w)
    PROVE  WInv'
<1>1. job[w] \in JobRecord /\ RunOK(job[w], StoredCases) /\ WorkOK(job[w], op[w], StoredCases)
  BY RunTyped
<1>2. /\ op[w] \in Operation /\ w \in Worker /\ OperationOK(op[w], StoredCases)
      /\ op \in [Worker -> Operation] /\ now \in Nat
  BY CaseAssumption DEF IInv, TypeOK, Worker
<1>3. job' = [job EXCEPT ![w] = job[w]]
  BY DEF WorkOnCase, engineVars, EInv
<1>4. RunOK(job[w], StoredCases')
  BY <1>1, WorkGrows
<1>5. ASSUME NEW c \in Case, ResolveCase(w, c) PROVE WInv'
  <2> DEFINE q == [op[w] EXCEPT !.rest = op[w].rest \ {c}]
  <2>1. /\ op[w].task = "resolve" /\ op[w].phase = "next"
        /\ op' = [op EXCEPT ![w] = ThenLog(q, c)]
    BY <1>2, <1>5 DEF ResolveCase
  <2>2. q \in Operation /\ q.task = op[w].task /\ q.logs = op[w].logs /\ q.rest \subseteq op[w].rest
    BY <1>2 DEF Operation
  <2> HIDE DEF q
  <2>3. job[w].pc # "hits"
    BY <1>1, <2>1 DEF WorkOK
  <2>4. WorkOK(job[w], ThenLog(q, c), StoredCases')
    BY <1>1, <1>2, <2>1, <2>2, <2>3, HandlerGoesOn
  <2> QED BY <1>3, <1>4, <2>1, <2>4, WorkMoves
<1>6. CASE InsertHit(w) \/ ConfirmHit(w)
  <2>1. /\ op[w].task = "upsert" /\ op[w].phase = "write"
        /\ op' = [op EXCEPT ![w] = ThenLog(op[w], op[w].cur)]
    BY <1>2, <1>6 DEF InsertHit, ConfirmHit
  <2>2. op[w].cur \in StoredCases'
    <3>1. CASE ConfirmHit(w)
      BY <1>2, <2>1, <3>1, ConfirmedRowType DEF ConfirmHit
    <3>2. CASE InsertHit(w)
      <4> DEFINE b == [severity |-> op[w].arg.severity, status |-> "open", createdAt |-> now,
                       acknowledgedAt |-> FALSE, resolvedAt |-> FALSE, assigneeUserId |-> FALSE]
      <4>1. op[w].arg.severity \in Severity /\ op[w].cur \in Case
        BY <1>2, <2>1 DEF OperationOK
      <4>2. b \in Base
        BY <1>2, <4>1 DEF Base, Status, OpenStatuses
      <4>3. cases' = [cases EXCEPT ![op[w].cur] = NewRow(b)]
        BY <3>2 DEF InsertHit, Write
      <4> HIDE DEF b
      <4>4. NewRow(b) # NoCase
        BY <1>2, <4>2, NewRowType, CaseAssumption
      <4> QED BY <4>1, <4>3, <4>4 DEF StoredCases, Stored, IInv, TypeOK
    <3> QED BY <1>6, <3>1, <3>2
  <2>3. job[w].pc = "hits" => op[w].cur \in job[w].hits
    BY <1>1, <2>1 DEF WorkOK
  <2>4. WorkOK(job[w], ThenLog(op[w], op[w].cur), StoredCases')
    BY <1>1, <1>2, <2>1, <2>2, <2>3, HandlerGoesOn
  <2> QED BY <1>3, <1>4, <2>1, <2>4, WorkMoves
<1>7. CASE LogActivity(w)
  <2>1. op[w].phase = "log" /\ op' = [op EXCEPT ![w] = Continue(op[w])]
    BY <1>2, <1>7 DEF LogActivity
  <2>2. job[w].pc = "hits" => op[w].cur \in job[w].hits
    BY <1>1, <2>1 DEF WorkOK
  <2>3. WorkOK(job[w], Continue(op[w]), StoredCases')
    BY <1>1, <1>2, <2>1, <2>2, HandlerGoesOn
  <2> QED BY <1>3, <1>4, <2>1, <2>3, WorkMoves
<1> QED BY <1>5, <1>6, <1>7 DEF WorkOnCase

\* The recovery starts once every hit is on record.
LEMMA WorkRecovers ==
    ASSUME IInv, EInv, WInv, NEW w \in Automation, ResolveRecovered(w)
    PROVE  WInv'
<1>1. job[w] \in JobRecord /\ RunOK(job[w], StoredCases) /\ WorkOK(job[w], op[w], StoredCases)
  BY RunTyped
<1>2. job[w].pc = "hits" /\ job[w].todo = {} /\ op[w].phase = "idle"
  BY DEF ResolveRecovered, IsIdle
<1>3. job[w].snap[job[w].rule].createExceptions => job[w].hits \subseteq StoredCases
  BY <1>1, <1>2 DEF WorkOK
<1>4. ASSUME NEW p \in {"resolving", "close"} PROVE RunOK([job[w] EXCEPT !.pc = p], StoredCases)
  <2> DEFINE j == [job[w] EXCEPT !.pc = p]
  <2>1. /\ j.pc = p /\ j.hits = job[w].hits /\ j.rule = job[w].rule /\ j.snap = job[w].snap
        /\ j.run = job[w].run /\ j.artifact = job[w].artifact
    BY <1>1 DEF JobRecord
  <2> HIDE DEF j
  <2>2. RunOK(j, StoredCases)
    BY <1>1, <1>2, <1>3, <2>1 DEF RunOK
  <2> QED BY <2>2 DEF j
<1>5. CASE ToResolve(w) # {}
  <2> DEFINE rest == Recovered(job[w].rule, job[w].hits)
             o == [Idle EXCEPT !.task = "resolve", !.phase = "next", !.rest = rest,
                               !.logs = Snap(w).createActivities]
             j == [job[w] EXCEPT !.pc = "resolving"]
  <2>1. /\ op' = [op EXCEPT ![w] = o] /\ job' = [job EXCEPT ![w] = j] /\ UNCHANGED cases
    BY <1>1, <1>5 DEF ResolveRecovered, ListRecovered, EInv
  <2>2. rest \cap job[w].hits = {}
    BY DEF Recovered
  <2> HIDE DEF rest
  <2>3. o.phase = "next" /\ o.task = "resolve" /\ o.rest = rest /\ o.logs = Snap(w).createActivities
    BY DEF Idle
  <2>4. j.pc = "resolving" /\ j.hits = job[w].hits /\ j.rule = job[w].rule /\ j.snap = job[w].snap
    BY <1>1 DEF JobRecord
  <2>5. RunOK(j, StoredCases)
    BY <1>4
  <2> HIDE DEF j, o
  <2>6. WorkOK(j, o, StoredCases)
    BY <2>2, <2>3, <2>4 DEF WorkOK, Snap
  <2>7. StoredCases' = StoredCases
    BY <2>1 DEF StoredCases, Stored
  <2> QED BY <2>1, <2>5, <2>6, <2>7, WorkMoves
<1>6. CASE ToResolve(w) = {}
  <2> DEFINE j == [job[w] EXCEPT !.pc = "close"]
  <2>1. job' = [job EXCEPT ![w] = j] /\ UNCHANGED vars
    BY <1>1, <1>6 DEF ResolveRecovered, EInv
  <2>2. j.pc = "close"
    BY <1>1 DEF JobRecord
  <2>3. RunOK(j, StoredCases)
    BY <1>4
  <2> HIDE DEF j
  <2>4. WorkOK(j, op[w], StoredCases)
    BY <1>2, <2>2 DEF WorkOK
  <2> QED BY <2>1, <2>3, <2>4, RunMoves
<1> QED BY <1>5, <1>6

\* The end of a run.
LEMMA WorkEnds ==
    ASSUME IInv, EInv, WInv, NEW w \in Automation,
           \/ ExportReport(w) \/ TemplateUnusable(w) \/ CloseRun(w) \/ FailRun(w) \/ Reschedule(w)
    PROVE  WInv'
<1>1. job[w] \in JobRecord /\ RunOK(job[w], StoredCases) /\ WorkOK(job[w], op[w], StoredCases)
  BY RunTyped
<1>2. ASSUME NEW p \in {"close", "failed", "reschedule", "backoff"}, NEW run, NEW artifact,
             job[w].pc \notin {"detect", "probe", "start"}, op[w].phase = "idle", UNCHANGED vars,
             job[w].artifact => artifact,
             p \in {"close", "reschedule"} \/ run = "success" =>
                /\ job[w].snap[job[w].rule].createExceptions => job[w].hits \subseteq StoredCases
                /\ job[w].rule \in ReportRule => artifact,
             job' = [job EXCEPT ![w] = [job[w] EXCEPT !.pc = p, !.run = run, !.artifact = artifact]]
      PROVE  WInv'
  <2> DEFINE j == [job[w] EXCEPT !.pc = p, !.run = run, !.artifact = artifact]
  <2>1. /\ j.pc = p /\ j.run = run /\ j.artifact = artifact
        /\ j.hits = job[w].hits /\ j.rule = job[w].rule /\ j.snap = job[w].snap
    BY <1>1 DEF JobRecord
  <2>2. job' = [job EXCEPT ![w] = j]
    BY <1>2
  <2> HIDE DEF j
  <2>3. RunOK(j, StoredCases)
    BY <1>1, <1>2, <2>1 DEF RunOK
  <2>4. WorkOK(j, op[w], StoredCases)
    BY <1>2, <2>1 DEF WorkOK
  <2> QED BY <1>2, <2>2, <2>3, <2>4, RunMoves
<1>3. CASE ExportReport(w)
  <2>1. /\ job[w].pc = "export" /\ UNCHANGED vars
        /\ job' = [job EXCEPT ![w] = [job[w] EXCEPT !.pc = "close", !.run = job[w].run,
                                                    !.artifact = TRUE]]
    BY <1>1, <1>3 DEF ExportReport, EInv, JobRecord
  <2>2. op[w].phase = "idle" /\ job[w].hits = {}
    BY <1>1, <2>1 DEF WorkOK, RunOK
  <2> QED BY <1>2, <2>1, <2>2
<1>4. CASE TemplateUnusable(w)
  <2>1. /\ job[w].pc = "export" /\ UNCHANGED vars
        /\ job' = [job EXCEPT ![w] = [job[w] EXCEPT !.pc = "failed", !.run = job[w].run,
                                                    !.artifact = job[w].artifact]]
    BY <1>1, <1>4 DEF TemplateUnusable, EInv, JobRecord
  <2>2. op[w].phase = "idle"
    BY <1>1, <2>1 DEF WorkOK
  <2>3. job[w].run = "success" =>
          /\ job[w].snap[job[w].rule].createExceptions => job[w].hits \subseteq StoredCases
          /\ job[w].rule \in ReportRule => job[w].artifact
    BY <1>1 DEF RunOK
  <2> QED BY <1>2, <2>1, <2>2, <2>3
<1>5. CASE CloseRun(w)
  <2>1. /\ job[w].pc \in {"close", "resolving"} /\ UNCHANGED vars
        /\ job' = [job EXCEPT ![w] = [job[w] EXCEPT !.pc = "reschedule", !.run = "success",
                                                    !.artifact = job[w].artifact]]
    BY <1>1, <1>5 DEF CloseRun, EInv, JobRecord
  <2>2. op[w].phase = "idle"
    BY <1>1, <1>5 DEF WorkOK, CloseRun, IsIdle
  <2>3. /\ job[w].snap[job[w].rule].createExceptions => job[w].hits \subseteq StoredCases
        /\ job[w].rule \in ReportRule => job[w].artifact
    BY <1>1, <2>1 DEF RunOK
  <2> QED BY <1>2, <2>1, <2>2, <2>3
<1>6. CASE FailRun(w)
  <2>1. /\ job[w].pc = "failed" /\ UNCHANGED vars
        /\ job' = [job EXCEPT ![w] = [job[w] EXCEPT !.pc = "backoff", !.run = "error",
                                                    !.artifact = job[w].artifact]]
    BY <1>1, <1>6 DEF FailRun, EInv, JobRecord
  <2>2. op[w].phase = "idle"
    BY <1>1, <2>1 DEF WorkOK
  <2> QED BY <1>2, <2>1, <2>2
<1>7. CASE Reschedule(w)
  <2>1. /\ job[w].pc \in {"reschedule", "backoff"} /\ UNCHANGED vars
        /\ job' = [job EXCEPT ![w] = NextOf(job[w])]
    BY <1>7 DEF Reschedule, EInv
  <2>2. op[w].phase = "idle"
    BY <1>1, <2>1 DEF WorkOK
  <2>3. /\ NextOf(job[w]).pc \in {"idle", "start"} /\ NextOf(job[w]).hits = {}
        /\ NextOf(job[w]).run = "none"
    BY DEF NextOf, NoJob
  <2>4. RunOK(NextOf(job[w]), StoredCases) /\ WorkOK(NextOf(job[w]), op[w], StoredCases)
    BY <2>2, <2>3 DEF RunOK, WorkOK
  <2> QED BY <2>1, <2>4, RunMoves
<1> QED BY <1>3, <1>4, <1>5, <1>6, <1>7

\* A call that throws, the refused insert among them, stops the handler with the run.
LEMMA WorkFails ==
    ASSUME IInv, EInv, WInv, NEW w \in Automation, HitRefused(w) \/ StepThrows(w) \/ JobThrows(w)
    PROVE  WInv'
<1>1. job[w] \in JobRecord /\ RunOK(job[w], StoredCases) /\ WorkOK(job[w], op[w], StoredCases)
  BY RunTyped
<1>2. op' = [op EXCEPT ![w] = Idle] /\ UNCHANGED cases
  BY DEF HitRefused, InsertRefused, StepThrows, JobThrows, Fail
<1>3. StoredCases' = StoredCases
  BY <1>2 DEF StoredCases, Stored
<1>4. CASE HitRefused(w) \/ StepThrows(w)
  <2> DEFINE j == [job[w] EXCEPT !.pc = "failed"]
  <2>1. job' = [job EXCEPT ![w] = j]
    BY <1>1, <1>4 DEF HitRefused, StepThrows, EInv
  <2>2. /\ j.pc = "failed" /\ j.run = job[w].run /\ j.artifact = job[w].artifact
        /\ j.hits = job[w].hits /\ j.rule = job[w].rule /\ j.snap = job[w].snap
    BY <1>1 DEF JobRecord
  <2> HIDE DEF j
  <2>3. RunOK(j, StoredCases) /\ WorkOK(j, Idle, StoredCases)
    BY <1>1, <2>2 DEF RunOK, WorkOK, Idle
  <2> QED BY <1>2, <1>3, <2>1, <2>3, WorkMoves
<1>5. CASE JobThrows(w)
  BY <1>2, <1>3, <1>5, NoRunOK, WorkMoves DEF JobThrows
<1> QED BY <1>4, <1>5

\* Every step of the engine keeps run and handler together.
LEMMA WInvNext == IInv /\ RolesOK /\ EInv /\ WInv /\ [EngineNext]_allVars => WInv'
<1> SUFFICES ASSUME IInv, RolesOK, EInv, WInv, [EngineNext]_allVars PROVE WInv'
  OBVIOUS
<1>1. StoredCases \subseteq StoredCases'
  BY EngineStepOnCases, StoredGrows
<1>2. ASSUME NEW w \in Automation, JobStep(w) \/ StepThrows(w) \/ JobThrows(w) PROVE WInv'
  BY <1>1, <1>2, WorkBegins, WorkDetects, WorkUpserts, WorkProceeds, WorkRecovers, WorkEnds, WorkFails
     DEF JobStep
<1>3. ASSUME NEW w \in Automation, NEW chosen, Take(w, chosen) PROVE WInv'
  <2> DEFINE read == [r \in Rule |-> IF r \in chosen THEN rules[r].set ELSE None]
             j == [NoJob EXCEPT !.pc = "start", !.due = chosen, !.snap = read]
  <2>1. job' = [job EXCEPT ![w] = j] /\ UNCHANGED vars /\ job[w].pc = "idle"
    BY <1>3 DEF Take
  <2> HIDE DEF read
  <2>2. j.pc = "start" /\ j.hits = {} /\ j.run = "none"
    BY DEF NoJob
  <2> HIDE DEF j
  <2>3. op[w].phase = "idle"
    BY <2>1 DEF WInv, WorkOK
  <2>4. RunOK(j, StoredCases) /\ WorkOK(j, op[w], StoredCases)
    BY <2>2, <2>3 DEF RunOK, WorkOK
  <2> QED BY <2>1, <2>4, RunMoves
<1>4. ASSUME NEW w \in Operator, OperatorStep(w) PROVE WInv'
  <2>1. job' = job /\ w \in Worker /\ w \notin Automation
    BY <1>4, CaseAssumption DEF OperatorStep, engineVars, Worker
  <2>2. \E o : op' = [op EXCEPT ![w] = o]
    BY <1>4, <2>1, OnlyItsOwn DEF OperatorStep
  <2>3. \A v \in Automation : op'[v] = op[v]
    BY <2>1, <2>2 DEF IInv, TypeOK, Worker
  <2> QED BY <1>1, <2>1, <2>3, WorkStays
<1>5. CASE ProcessCrash
  <2>1. /\ job' = [w \in Automation |-> NoJob] /\ op' = [w \in Worker |-> Idle]
    BY <1>5 DEF ProcessCrash, Crash
  <2>2. \A w \in Automation : job'[w] = NoJob /\ op'[w] = Idle
    BY <2>1 DEF Worker
  <2>3. ASSUME NEW w \in Automation
        PROVE  RunOK(job'[w], StoredCases') /\ WorkOK(job'[w], op'[w], StoredCases')
    BY <2>2, NoRunOK
  <2> QED BY <2>3 DEF WInv, RunOK, WorkOK
<1>6. CASE UNCHANGED <<job, op>>
  BY <1>1, <1>6, WorkStays
<1>7. CASE Minute
  BY <1>6, <1>7 DEF Minute, Tick, vars
<1>8. ASSUME NEW a \in Admin, AdminStep(a) PROVE WInv'
  BY <1>6, <1>8 DEF AdminStep, ReadRule, WriteRule, vars
<1>9. CASE UNCHANGED allVars
  BY <1>6, <1>9 DEF allVars, vars, engineVars
<1>10. ASSUME NEW r \in Rule, NEW s \in Setting, CreateAutomationRule(r, s) PROVE WInv'
  BY <1>6, <1>10 DEF CreateAutomationRule, vars
<1>11. ASSUME NEW f \in Fingerprint, ConditionChanges(f) PROVE WInv'
  BY <1>6, <1>11 DEF ConditionChanges, vars
<1>12. CASE Tock \/ (\E w \in RunNow, r \in Rule : RunAutomationRuleNow(w, r))
  BY <1>3, <1>12, EngineAssumption DEF Tock, RunAutomationRuleNow, RunNow
<1> QED BY <1>2, <1>4, <1>5, <1>7, <1>8, <1>9, <1>10, <1>11, <1>12 DEF EngineNext

\* The cases of the composed system stay in order.
LEMMA EngineKeepsTable ==
    EInv /\ IInv /\ RolesOK /\ [EngineNext]_allVars => IInv' /\ RolesOK'
BY EngineStepOnCases, InvNext, RolesNext

\* The composed system starts with its cases in order and nobody at work on them.
LEMMA EngineStarts == EngineInit => IInv /\ RolesOK
BY InvInit, RolesInit DEF EngineInit

\* A run that reports success has all its hits on record, and a report its document,
\* whatever ran at the same time and whatever failed.
THEOREM SuccessOfRuns == EngineSpec => []SuccessIsWhole
<1>1. WInv => SuccessIsWhole
  BY DEF WInv, RunOK, SuccessIsWhole, Snap
<1> QED BY <1>1, EInvInit, EInvNext, EngineStarts, EngineKeepsTable, WInvInit, WInvNext, PTL
        DEF EngineSpec

\* A handler of a job works only inside that job's run, on a case that is its own.
THEOREM HandlersStayInRuns == EngineSpec => []NoWorkOutsideARun
<1>1. WInv => NoWorkOutsideARun
  BY DEF WInv, WorkOK, NoWorkOutsideARun, Snap, IsIdle
<1> QED BY <1>1, EInvInit, EInvNext, EngineStarts, EngineKeepsTable, WInvInit, WInvNext, PTL
        DEF EngineSpec

-----------------------------------------------------------------------------
\* Overlapping runs

\* Two runs of a rule know of each other; an insert that will be refused is in a run that
\* overlapped another; and without a failing call only such a run, or a report, ends badly.
SharedOK ==
    \A v, w \in Automation : v # w /\ job[v].rule = job[w].rule /\ job[w].rule # None =>
        job[w].shared

RefusalOK ==
    \A w \in Automation : Inserting(w) /\ op[w].cur \in StoredCases => job[w].shared

VerdictOK ==
    \A w \in Automation : (job[w].pc = "failed" \/ job[w].run = "error") /\ faults = 0 =>
        job[w].rule \in ReportRule \/ job[w].shared

\* A step of one run that keeps its rule and its company, or ends it.
LEMMA SharedMoves ==
    ASSUME EInv, SharedOK, VerdictOK, NEW w \in Automation, NEW j, job' = [job EXCEPT ![w] = j],
           \/ j.rule = None
           \/ j.rule = job[w].rule /\ j.shared = job[w].shared,
           faults' = 0 => faults = 0,
           (j.pc = "failed" \/ j.run = "error") /\ faults' = 0 => j.rule \in ReportRule \/ j.shared
    PROVE  SharedOK' /\ VerdictOK'
<1>1. \A v \in Automation : job'[v] = IF v = w THEN j ELSE job[v]
  BY DEF EInv
<1>2. SharedOK'
  BY <1>1 DEF SharedOK
<1>3. VerdictOK'
  BY <1>1 DEF VerdictOK
<1> QED BY <1>2, <1>3

\* A step that leaves the runs alone.
LEMMA SharedStays ==
    ASSUME SharedOK, VerdictOK, job' = job, faults' = 0 => faults = 0
    PROVE  SharedOK' /\ VerdictOK'
BY DEF SharedOK, VerdictOK

\* A run that begins while another of its rule is under way marks them both.
LEMMA SharedBegins ==
    ASSUME EInv, SharedOK, VerdictOK, NEW w \in Automation, NEW r \in Rule, BeginRun(w, r)
    PROVE  SharedOK' /\ VerdictOK'
<1> DEFINE others == {v \in Automation \ {w} : job[v].rule = r}
           shared == others # {}
           first == IF r \in ReportRule THEN "export" ELSE "detect"
           j == [NoJob EXCEPT !.pc = first, !.due = job[w].due \ {r}, !.snap = job[w].snap,
                              !.rule = r, !.run = "running", !.shared = shared]
<1>1. /\ job' = [v \in Automation |-> IF v = w THEN j
                    ELSE IF v \in others THEN [job[v] EXCEPT !.shared = TRUE] ELSE job[v]]
      /\ faults' = faults
  BY DEF BeginRun, vars
<1>2. j.rule = r /\ j.shared = (others # {}) /\ j.pc \in {"export", "detect"} /\ j.run = "running"
  BY DEF NoJob
<1>3. job'[w] = j
  BY <1>1
<1> HIDE DEF j, shared
<1>4. ASSUME NEW v \in Automation \ {w}
      PROVE  /\ job'[v].rule = job[v].rule /\ job'[v].pc = job[v].pc /\ job'[v].run = job[v].run
             /\ job[v].rule = r \/ job[v].shared => job'[v].shared
  <2>1. job[v] \in JobRecord
    BY DEF EInv
  <2>2. CASE v \in others
    BY <1>1, <2>1, <2>2 DEF JobRecord
  <2>3. CASE v \notin others
    BY <1>1, <2>3
  <2> QED BY <2>2, <2>3
<1>5. SharedOK'
  <2> SUFFICES ASSUME NEW v \in Automation, NEW u \in Automation, v # u,
                      job'[v].rule = job'[u].rule, job'[u].rule # None
               PROVE  job'[u].shared
    BY DEF SharedOK
  <2>1. CASE u = w
    <3>1. v \in others
      BY <1>2, <1>3, <1>4, <2>1
    <3> QED BY <1>2, <1>3, <2>1, <3>1
  <2>2. CASE v = w
    BY <1>2, <1>3, <1>4, <2>2
  <2>3. CASE u # w /\ v # w
    BY <1>4, <2>3 DEF SharedOK
  <2> QED BY <2>1, <2>2, <2>3
<1>6. VerdictOK'
  BY <1>1, <1>2, <1>3, <1>4 DEF VerdictOK
<1> QED BY <1>5, <1>6

\* The steps of a run.
LEMMA SharedJob ==
    ASSUME IInv, EInv, WInv, SharedOK, RefusalOK, VerdictOK, NEW w \in Automation,
           faults' = 0 => faults = 0,
           JobStep(w) \/ StepThrows(w) \/ JobThrows(w)
    PROVE  SharedOK' /\ VerdictOK'
<1>1. job[w] \in JobRecord /\ RunOK(job[w], StoredCases) /\ WorkOK(job[w], op[w], StoredCases)
  BY RunTyped
<1>2. job \in [Automation -> JobRecord]
  BY DEF EInv
\* Steps that do not fail the run.
<1>3. ASSUME NEW j \in JobRecord, job' = [job EXCEPT ![w] = j], j.pc # "failed",
             j.rule = job[w].rule, j.shared = job[w].shared, j.run \in {job[w].run, "success"}
      PROVE  SharedOK' /\ VerdictOK'
  BY <1>3, SharedMoves DEF VerdictOK
<1>4. ASSUME NEW j \in JobRecord, job' = [job EXCEPT ![w] = j],
             j.rule = job[w].rule, j.shared = job[w].shared,
             faults' = 0 => j.rule \in ReportRule \/ j.shared
      PROVE  SharedOK' /\ VerdictOK'
  BY <1>4, SharedMoves
<1>5. ASSUME NEW j, job' = [job EXCEPT ![w] = j], j.rule = None, j.pc # "failed", j.run # "error"
      PROVE  SharedOK' /\ VerdictOK'
  BY <1>5, SharedMoves
<1>6. ASSUME EInv', \/ ResolveHits(w) \/ ListIntegrations(w)
                    \/ ResolveRecovered(w) \/ ExportReport(w) \/ CloseRun(w)
                    \/ \E f \in Fingerprint : TestConnection(w, f) \/ HandleHit(w, f)
      PROVE  SharedOK' /\ VerdictOK'
  <2>1. job' = [job EXCEPT ![w] = job'[w]]
    BY <1>2, <1>6
       DEF ResolveHits, ListIntegrations, ResolveRecovered, ExportReport, CloseRun, TestConnection, HandleHit
  <2>2. /\ job'[w].rule = job[w].rule /\ job'[w].shared = job[w].shared
        /\ job'[w].run \in {job[w].run, "success"} /\ job'[w].pc # "failed"
    <3>1. CASE ResolveHits(w)
      BY <1>1, <1>2, <3>1 DEF ResolveHits, JobRecord
    <3>2. CASE ListIntegrations(w)
      BY <1>1, <1>2, <3>2 DEF ListIntegrations, JobRecord
    <3>3. CASE ResolveRecovered(w)
      BY <1>1, <1>2, <3>3 DEF ResolveRecovered, JobRecord
    <3>4. CASE ExportReport(w)
      BY <1>1, <1>2, <3>4 DEF ExportReport, JobRecord
    <3>5. CASE CloseRun(w)
      BY <1>1, <1>2, <3>5 DEF CloseRun, JobRecord
    <3>6. ASSUME NEW f \in Fingerprint, TestConnection(w, f)
          PROVE  /\ job'[w].rule = job[w].rule /\ job'[w].shared = job[w].shared
                 /\ job'[w].run = job[w].run /\ job'[w].pc # "failed"
      <4> DEFINE p == IF job[w].todo \ {f} = {} THEN "hits" ELSE "probe"
                 hits == job[w].hits \cup (condition \cap {f})
                 todo == IF job[w].todo \ {f} = {} THEN ToUpsert(w, hits) ELSE job[w].todo \ {f}
      <4>1. job' = [job EXCEPT ![w].pc = p, ![w].hits = hits, ![w].todo = todo]
        BY <3>6 DEF TestConnection
      <4>2. p # "failed"
        OBVIOUS
      <4> HIDE DEF p, hits, todo
      <4> QED BY <1>1, <1>2, <4>1, <4>2 DEF JobRecord
    <3>7. ASSUME NEW f \in Fingerprint, HandleHit(w, f)
          PROVE  /\ job'[w].rule = job[w].rule /\ job'[w].shared = job[w].shared
                 /\ job'[w].run = job[w].run /\ job'[w].pc # "failed"
      <4>1. job' = [job EXCEPT ![w].todo = job[w].todo \ {f}] /\ job[w].pc = "hits"
        BY <1>2, <3>7 DEF HandleHit
      <4> QED BY <1>1, <1>2, <4>1 DEF JobRecord
    <3> QED BY <1>6, <3>1, <3>2, <3>3, <3>4, <3>5, <3>6, <3>7
  <2>4. job'[w] \in JobRecord
    BY <1>6 DEF EInv
  <2> QED BY <1>3, <2>1, <2>2, <2>4
<1>7. CASE WorkOnCase(w)
  BY <1>7, SharedStays DEF WorkOnCase, engineVars
<1>8. ASSUME EInv', HitRefused(w) \/ TemplateUnusable(w) \/ StepThrows(w) \/ FailRun(w)
      PROVE  SharedOK' /\ VerdictOK'
  <2>1. /\ job' = [job EXCEPT ![w] = job'[w]] /\ job'[w] \in JobRecord
        /\ job'[w].rule = job[w].rule /\ job'[w].shared = job[w].shared
    BY <1>1, <1>2, <1>8 DEF HitRefused, TemplateUnusable, StepThrows, FailRun, JobRecord, EInv
  <2>2. faults' = 0 => job[w].rule \in ReportRule \/ job[w].shared
    <3>1. CASE HitRefused(w)
      <4>1. Inserting(w) /\ op[w].cur \in StoredCases
        <5>1. op[w].phase = "write" /\ op[w].task = "upsert" /\ Stored(op[w].cur)
              /\ op[w].seen[op[w].cur] = NoCase
          BY <3>1 DEF HitRefused, InsertRefused
        <5>2. op[w].cur \in Case
          BY <5>1 DEF IInv, OperationOK, Worker
        <5> QED BY <5>1, <5>2 DEF Inserting, StoredCases
      <4> QED BY <4>1 DEF RefusalOK
    <3>2. CASE TemplateUnusable(w)
      BY <1>1, <3>2 DEF TemplateUnusable, RunOK
    <3>3. CASE StepThrows(w)
      BY <3>3 DEF StepThrows, Fail, IInv, TypeOK
    <3>4. CASE FailRun(w)
      BY <3>4 DEF FailRun, VerdictOK
    <3> QED BY <1>8, <3>1, <3>2, <3>3, <3>4
  <2> QED BY <1>4, <2>1, <2>2
<1>9. CASE Reschedule(w)
  <2>1. job' = [job EXCEPT ![w] = NextOf(job[w])]
    BY <1>2, <1>9 DEF Reschedule
  <2>2. NextOf(job[w]).rule = None /\ NextOf(job[w]).pc # "failed" /\ NextOf(job[w]).run # "error"
    BY DEF NextOf, NoJob
  <2> QED BY <1>5, <2>1, <2>2
<1>10. CASE JobThrows(w)
  <2>1. NoJob.rule = None /\ NoJob.pc # "failed" /\ NoJob.run # "error"
    BY DEF NoJob
  <2>2. job' = [job EXCEPT ![w] = NoJob]
    BY <1>10 DEF JobThrows
  <2> QED BY <1>5, <2>1, <2>2
<1>11. EInv'
  BY EInvJob
<1> QED BY <1>6, <1>7, <1>8, <1>9, <1>10, <1>11, SharedBegins DEF JobStep

\* Every step keeps what runs know of each other.
LEMMA SharedNext ==
    ASSUME IInv, EInv, WInv, SharedOK, RefusalOK, VerdictOK, [EngineNext]_allVars, IInv'
    PROVE  SharedOK' /\ VerdictOK'
<1>1. faults' = 0 => faults = 0
  <2>1. [Next]_vars
    BY EngineStepOnCases
  <2>2. faults \in Nat
    BY CaseAssumption DEF IInv, TypeOK
  <2>3. \A w \in Worker : Proceed(w) => faults' = faults
    BY DEF Proceed, ReadCase, RecalculateCase, ResolveCase, CommitUpdate, InsertHit,
           InsertRefused, ConfirmHit, LogActivity
  <2>4. \A w : OperatorStarts(w) \/ AutomationStarts(w) => faults' = faults
    BY DEF OperatorStarts, CreateException, StartUpdate, StartRecalculate, AutomationStarts,
           StartUpsert, ListRecovered
  <2> QED BY <2>1, <2>2, <2>3, <2>4 DEF Next, Fail, Tick, Crash, vars
<1>2. ASSUME NEW w \in Automation, JobStep(w) \/ StepThrows(w) \/ JobThrows(w)
      PROVE  SharedOK' /\ VerdictOK'
  BY <1>1, <1>2, SharedJob
<1>3. ASSUME NEW w \in Automation, NEW chosen, Take(w, chosen) PROVE SharedOK' /\ VerdictOK'
  <2> DEFINE read == [r \in Rule |-> IF r \in chosen THEN rules[r].set ELSE None]
             j == [NoJob EXCEPT !.pc = "start", !.due = chosen, !.snap = read]
  <2>1. job' = [job EXCEPT ![w] = j]
    BY <1>3 DEF Take
  <2> HIDE DEF read
  <2>2. j.pc # "failed" /\ j.rule = None /\ j.run # "error"
    BY DEF NoJob
  <2> HIDE DEF j
  <2> QED BY <1>1, <2>1, <2>2, SharedMoves
<1>4. CASE ProcessCrash
  <2>1. \A w \in Automation : job'[w] = NoJob
    BY <1>4 DEF ProcessCrash
  <2>2. NoJob.rule = None /\ NoJob.pc # "failed" /\ NoJob.run # "error"
    BY DEF NoJob
  <2> QED BY <2>1, <2>2 DEF SharedOK, VerdictOK
<1>5. CASE job' = job
  BY <1>1, <1>5, SharedStays
<1>6. ASSUME NEW a \in Admin, AdminStep(a) PROVE job' = job
  BY <1>6 DEF AdminStep, ReadRule, WriteRule
<1>7. CASE Tock \/ (\E w \in RunNow, r \in Rule : RunAutomationRuleNow(w, r))
  BY <1>3, <1>7, EngineAssumption DEF Tock, RunAutomationRuleNow, RunNow
<1> QED BY <1>2, <1>4, <1>5, <1>6, <1>7
        DEF EngineNext, CreateAutomationRule, OperatorStep, engineVars, allVars, ConditionChanges,
            Minute

\* A run whose handler is about to insert keeps its company, or gains some.
LEMMA InsertingRunStays ==
    ASSUME IInv, EInv, WInv, [EngineNext]_allVars, NEW w \in Automation, op'[w] = op[w], Inserting(w)
    PROVE  job'[w] = job[w] \/ job'[w] = [job[w] EXCEPT !.shared = TRUE]
<1>1. /\ op[w].phase = "write" /\ op[w].task = "upsert"
      /\ op \in [Worker -> Operation] /\ w \in Worker
  BY DEF Inserting, IInv, TypeOK, Worker
<1>2. job[w].pc = "hits"
  BY <1>1 DEF WInv, WorkOK
<1>3. op'[w] # Idle
  BY <1>1 DEF Idle
<1>4. CASE JobStep(w) \/ StepThrows(w) \/ JobThrows(w)
  <2>1. ~HitRefused(w)
    BY <1>1, <1>3 DEF HitRefused, InsertRefused
  <2>2. ~StepThrows(w)
    BY <1>1, <1>3 DEF StepThrows, Fail
  <2>3. ~JobThrows(w)
    BY <1>2 DEF JobThrows
  <2>4. ~ResolveHits(w) /\ ~ListIntegrations(w) /\ (\A r \in Rule : ~BeginRun(w, r))
        /\ (\A f \in Fingerprint : ~TestConnection(w, f))
    BY <1>2 DEF ResolveHits, ListIntegrations, BeginRun, TestConnection
  <2>5. ~ResolveRecovered(w) /\ (\A f \in Fingerprint : ~HandleHit(w, f))
    BY <1>1 DEF ResolveRecovered, HandleHit, StartUpsert, IsIdle
  <2>6. ~ExportReport(w) /\ ~TemplateUnusable(w) /\ ~CloseRun(w) /\ ~FailRun(w) /\ ~Reschedule(w)
    BY <1>2 DEF ExportReport, TemplateUnusable, CloseRun, FailRun, Reschedule
  <2>7. WorkOnCase(w)
    BY <1>4, <2>1, <2>2, <2>3, <2>4, <2>5, <2>6 DEF JobStep
  <2> QED BY <2>7 DEF WorkOnCase, engineVars
<1>5. ASSUME NEW v \in Automation \ {w}, NEW r \in Rule, BeginRun(v, r)
      PROVE  job'[w] = job[w] \/ job'[w] = [job[w] EXCEPT !.shared = TRUE]
  BY <1>5 DEF BeginRun
<1>6. ASSUME NEW v \in Automation \ {w}, JobStep(v) \/ StepThrows(v) \/ JobThrows(v),
             \A r \in Rule : ~BeginRun(v, r)
      PROVE  job'[w] = job[w]
  <2>1. CASE JobStep(v)
    BY <1>6, <2>1 DEF EInv, JobStep, ResolveHits, ListIntegrations, TestConnection, HandleHit,
          HitRefused, WorkOnCase, engineVars, ResolveRecovered, ExportReport, TemplateUnusable,
          CloseRun, FailRun, Reschedule
  <2>2. CASE StepThrows(v) \/ JobThrows(v)
    BY <1>6, <2>2 DEF EInv, StepThrows, JobThrows
  <2> QED BY <1>6, <2>1, <2>2
<1>7. ASSUME NEW v \in Automation, NEW chosen, Take(v, chosen) PROVE job'[w] = job[w]
  BY <1>2, <1>7 DEF Take, EInv
<1>8. ~ProcessCrash
  BY <1>1, <1>3 DEF ProcessCrash, Crash
<1>9. ASSUME NEW a \in Admin, AdminStep(a) PROVE job' = job
  BY <1>9 DEF AdminStep, ReadRule, WriteRule
<1>10. ASSUME Tock \/ (\E v \in RunNow, r \in Rule : RunAutomationRuleNow(v, r)) PROVE job'[w] = job[w]
  BY <1>7, <1>10, EngineAssumption DEF Tock, RunAutomationRuleNow, RunNow
<1> QED BY <1>4, <1>5, <1>6, <1>8, <1>9, <1>10
        DEF EngineNext, CreateAutomationRule, OperatorStep, engineVars, allVars, ConditionChanges,
            Minute

\* An insert that will be refused is in a run that overlapped another of its rule.
LEMMA RefusalNext ==
    ASSUME IInv, RolesOK, EInv, WInv, SharedOK, RefusalOK, [EngineNext]_allVars, WInv'
    PROVE  RefusalOK'
<1> SUFFICES ASSUME NEW w \in Automation, Inserting(w)', op'[w].cur \in StoredCases'
             PROVE  job'[w].shared
  BY DEF RefusalOK, Inserting
<1>1. op'[w].cur \in Fingerprint
  <2>1. RunOK(job'[w], StoredCases') /\ WorkOK(job'[w], op'[w], StoredCases')
    BY DEF WInv, RunOK, WorkOK
  <2>2. op'[w].phase = "write" /\ op'[w].task = "upsert"
    BY DEF Inserting
  <2> QED BY <2>1, <2>2 DEF RunOK, WorkOK
<1>2. /\ op'[w] = op[w]
      /\ \/ op[w].cur \in StoredCases
         \/ \E v \in Automation \ {w} : Inserting(v) /\ op[v].cur = op[w].cur
  BY <1>1, EngineStepOnCases, WhoInsertedIt
<1>3. Inserting(w)
  BY <1>2 DEF Inserting
<1>4. job[w].shared
  <2>1. CASE op[w].cur \in StoredCases
    BY <1>3, <2>1 DEF RefusalOK
  <2>2. ASSUME NEW v \in Automation \ {w}, Inserting(v), op[v].cur = op[w].cur PROVE job[w].shared
    <3>1. \A u \in Automation : Inserting(u) =>
             op[u].cur \in Fingerprint /\ RuleOf[op[u].cur] = job[u].rule
      <4> SUFFICES ASSUME NEW u \in Automation, Inserting(u)
                   PROVE  op[u].cur \in Fingerprint /\ RuleOf[op[u].cur] = job[u].rule
        OBVIOUS
      <4>1. RunOK(job[u], StoredCases) /\ WorkOK(job[u], op[u], StoredCases)
        BY RunTyped
      <4> QED BY <4>1 DEF RunOK, WorkOK, Inserting
    <3>2. job[v].rule = job[w].rule /\ job[w].rule \in Rule
      BY <1>3, <2>2, <3>1, CaseAssumption
    <3> QED BY <3>2, EngineAssumption DEF SharedOK
  <2> QED BY <1>2, <2>1, <2>2
<1>5. job'[w] = job[w] \/ job'[w] = [job[w] EXCEPT !.shared = TRUE]
  BY <1>2, <1>3, InsertingRunStays
<1>6. job[w] \in JobRecord
  BY DEF EInv
<1> QED BY <1>4, <1>5, <1>6 DEF JobRecord

\* No run shares its rule, inserts or fails at the start.
LEMMA SharedInit == EngineInit => SharedOK /\ RefusalOK /\ VerdictOK
BY DEF EngineInit, Init, NoJob, Idle, SharedOK, RefusalOK, VerdictOK, Inserting, Worker

\* While every call succeeds, a detection run ends in error only if another run of its
\* rule overlapped it: nothing a single run meets in the table makes it throw.
THEOREM ErrorsComeFromOverlap == EngineSpec => []ErrorsNeedOverlap
<1>1. VerdictOK => ErrorsNeedOverlap
  BY DEF VerdictOK, ErrorsNeedOverlap
<1> QED BY <1>1, EInvInit, EInvNext, EngineStarts, EngineKeepsTable, WInvInit, WInvNext,
           SharedInit, SharedNext, RefusalNext, PTL DEF EngineSpec
=============================================================================
