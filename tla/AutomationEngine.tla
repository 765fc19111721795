--------------------------- MODULE AutomationEngine ---------------------------
(***************************************************************************)
(* The automation rules and the runs that execute them                     *)
(* (automations.service.ts), composed with the case table: every case a    *)
(* run touches is touched by an action of ExceptionCases.                  *)
(*                                                                         *)
(* The minute tick is one worker (waitForCompletion: it never overlaps     *)
(* itself); a "run now" request is another and may execute the same rule   *)
(* at the same time.  Both work from the rule as it was when they read it. *)
(* A rule's nextRunAt is kept as dueIn, the minutes left until it.  The    *)
(* order in which a tick takes the due rules is left open.                 *)
(***************************************************************************)
EXTENDS ExceptionCases, FiniteSets

CONSTANTS
    Cron,           \* the worker of the minute tick
    ReportRule,     \* the rules whose detector is monitoring_report_export
    ProbeRule,      \* the rules whose detector is integration_failure
    Setting,        \* the settings administrators create rules with
    Edit,           \* the edits administrators send: the fields to change
    Admin,          \* workers serving rule edits
    None            \* no rule, no job, no edit

NotScheduled == -1  \* nextRunAt is null
RunNow == Automation \ {Cron}

SettingSpace == [enabled : BOOLEAN, cadence : Nat \ {0}, severity : Severity,
                 createExceptions : BOOLEAN, createActivities : CreateActivities,
                 resolveOnRecovery : BOOLEAN]
RuleRow == [set : SettingSpace, dueIn : Nat \cup {NotScheduled}]

ASSUME EngineAssumption ==
    /\ Cron \in Automation /\ IsFiniteSet(Automation)
    /\ ReportRule \subseteq Rule /\ ProbeRule \subseteq Rule
    /\ Setting \subseteq SettingSpace
    /\ \A e \in Edit :
          /\ DOMAIN e \subseteq {"enabled", "cadence", "severity", "createExceptions",
                                "createActivities", "resolveOnRecovery"}
          /\ \A f \in DOMAIN e \cap {"enabled", "createExceptions", "resolveOnRecovery"} :
                e[f] \in BOOLEAN
          /\ "cadence" \in DOMAIN e => e.cadence \in Nat \ {0}
          /\ "severity" \in DOMAIN e => e.severity \in Severity
          /\ "createActivities" \in DOMAIN e => e.createActivities \in CreateActivities
    /\ None \notin RuleRow /\ None \notin SettingSpace /\ None \notin Rule

VARIABLES
    rules,      \* the rule table
    condition,  \* what the detectors would find now: the fingerprints that are true
    job,        \* what each automation worker is executing
    edit,       \* the edit each administrator's request is in the middle of
    abandoned   \* how many runs were left "running" with nobody executing them

engineVars == <<rules, condition, job, edit, abandoned>>
allVars == <<vars, engineVars>>

Phase == {"idle", "start", "detect", "probe", "export", "hits", "resolving", "close",
          "reschedule", "failed", "backoff"}
Trying == {"detect", "probe", "export", "hits", "resolving", "close", "reschedule"}
NothingRead == [r \in Rule |-> None]
NoJob == [pc |-> "idle", due |-> {}, snap |-> NothingRead, rule |-> None, hits |-> {},
          todo |-> {}, run |-> "none", shared |-> FALSE, artifact |-> FALSE]

Defined(r) == rules[r] # None
\* The rule as the job read it.
Snap(w) == job[w].snap[job[w].rule]

EngineInit ==
    /\ Init
    /\ rules = [r \in Rule |-> None]
    /\ condition = {}
    /\ job = [w \in Automation |-> NoJob]
    /\ edit = [a \in Admin |-> None]
    /\ abandoned = 0

-----------------------------------------------------------------------------
\* Administrators

\* createAutomationRule: an enabled rule is due at once.
CreateAutomationRule(r, s) ==
    /\ ~Defined(r)
    /\ rules' = [rules EXCEPT ![r] =
                    [set |-> s, dueIn |-> IF s.enabled THEN 0 ELSE NotScheduled]]
    /\ UNCHANGED <<vars, condition, job, edit, abandoned>>

\* updateAutomationRule reads the rule, and later writes the fields it was sent.
ReadRule(a, r, e) ==
    /\ edit[a] = None
    /\ Defined(r)
    /\ edit' = [edit EXCEPT ![a] = [rule |-> r, sent |-> e, enabled |-> rules[r].set.enabled]]
    /\ UNCHANGED <<vars, rules, condition, job, abandoned>>

Sent(e, field) == field \in DOMAIN e

Edited(s, e) ==
    [enabled |-> IF Sent(e, "enabled") THEN e.enabled ELSE s.enabled,
     cadence |-> IF Sent(e, "cadence") THEN e.cadence ELSE s.cadence,
     severity |-> IF Sent(e, "severity") THEN e.severity ELSE s.severity,
     createExceptions |-> IF Sent(e, "createExceptions") THEN e.createExceptions
                          ELSE s.createExceptions,
     createActivities |-> IF Sent(e, "createActivities") THEN e.createActivities
                          ELSE s.createActivities,
     resolveOnRecovery |-> IF Sent(e, "resolveOnRecovery") THEN e.resolveOnRecovery
                           ELSE s.resolveOnRecovery]

WriteRule(a) ==
    LET r == edit[a].rule
        e == edit[a].sent
    IN  /\ edit[a] # None
        /\ rules' = [rules EXCEPT ![r] =
              [set |-> Edited(rules[r].set, e),
               dueIn |-> IF Sent(e, "enabled")
                         THEN IF e.enabled THEN 0 ELSE NotScheduled
                         ELSE IF Sent(e, "cadence") /\ edit[a].enabled THEN 0
                         ELSE rules[r].dueIn]]
        /\ edit' = [edit EXCEPT ![a] = None]
        /\ UNCHANGED <<vars, condition, job, abandoned>>

-----------------------------------------------------------------------------
\* Starting jobs and runs

Due == {r \in Rule : Defined(r) /\ rules[r].set.enabled /\ rules[r].dueIn \in {NotScheduled, 0}}

Take(w, chosen) ==
    /\ job[w].pc = "idle"
    /\ job' = [job EXCEPT ![w] = [NoJob EXCEPT !.pc = "start", !.due = chosen,
                                     !.snap = [r \in Rule |-> IF r \in chosen THEN rules[r].set
                                                             ELSE None]]]
    /\ UNCHANGED <<vars, rules, condition, edit, abandoned>>

\* tick: the due rules, as they are now.
Tock == Due # {} /\ Take(Cron, Due)

\* runAutomationRuleNow: one rule, due or not, enabled or not.
RunAutomationRuleNow(w, r) == Defined(r) /\ Take(w, {r})

\* executeRule: the run row, "running".
BeginRun(w, r) ==
    LET others == {v \in Automation \ {w} : job[v].rule = r}
    IN  /\ job[w].pc = "start" /\ r \in job[w].due
        /\ job' = [v \in Automation |->
              IF v = w
              THEN [NoJob EXCEPT !.pc = IF r \in ReportRule THEN "export" ELSE "detect",
                                 !.due = job[w].due \ {r}, !.snap = job[w].snap,
                                 !.rule = r, !.run = "running", !.shared = others # {}]
              ELSE IF v \in others THEN [job[v] EXCEPT !.shared = TRUE] ELSE job[v]]
        /\ UNCHANGED <<vars, rules, condition, edit, abandoned>>

-----------------------------------------------------------------------------
\* Inside the run

Watched(r) == {f \in Fingerprint : RuleOf[f] = r}
ToUpsert(w, hits) == IF Snap(w).createExceptions THEN hits ELSE {}

\* resolveHits, for the detectors that are one query; its answer is used until the
\* run ends.
ResolveHits(w) ==
    LET hits == condition \cap Watched(job[w].rule)
    IN  /\ job[w].pc = "detect"
        /\ job[w].rule \in ProbeRule => Watched(job[w].rule) = {}
        /\ job' = [job EXCEPT ![w].pc = "hits", ![w].hits = hits, ![w].todo = ToUpsert(w, hits)]
        /\ UNCHANGED <<vars, rules, condition, edit, abandoned>>

\* detectorIntegrationFailure: the integrations, to be tested one after the other.
ListIntegrations(w) ==
    /\ job[w].pc = "detect"
    /\ job[w].rule \in ProbeRule /\ Watched(job[w].rule) # {}
    /\ job' = [job EXCEPT ![w].pc = "probe", ![w].todo = Watched(job[w].rule)]
    /\ UNCHANGED <<vars, rules, condition, edit, abandoned>>

TestConnection(w, f) ==
    LET left == job[w].todo \ {f}
        hits == job[w].hits \cup (condition \cap {f})
    IN  /\ job[w].pc = "probe" /\ f \in job[w].todo
        /\ job' = [job EXCEPT ![w].pc = IF left = {} THEN "hits" ELSE "probe", ![w].hits = hits,
                              ![w].todo = IF left = {} THEN ToUpsert(w, hits) ELSE left]
        /\ UNCHANGED <<vars, rules, condition, edit, abandoned>>

HandleHit(w, f) ==
    /\ job[w].pc = "hits" /\ f \in job[w].todo
    /\ StartUpsert(w, f, Snap(w).severity, Snap(w).createActivities)
    /\ job' = [job EXCEPT ![w].todo = @ \ {f}]
    /\ UNCHANGED <<rules, condition, edit, abandoned>>

\* (mutant) Two runs insert the same fingerprint: the second starts the case over.
HitOverwrites(w) ==
    /\ op[w].task = "upsert" /\ op[w].phase = "write"
    /\ op[w].seen[op[w].cur] = NoCase /\ Stored(op[w].cur)
    /\ cases' = [cases EXCEPT ![op[w].cur].base.status = "open"]
    /\ op' = [op EXCEPT ![w] = Idle]
    /\ UNCHANGED <<now, faults, raced, owed, rules, condition, edit, abandoned, job>>

\* The insert throws on the unique fingerprint: to the catch block.
HitRefused(w) ==
    /\ job[w].pc = "hits"
    /\ InsertRefused(w)
    /\ job' = [job EXCEPT ![w].pc = "failed"]
    /\ UNCHANGED <<rules, condition, edit, abandoned>>

\* A step of the upsert or of the recovery the run is in.
WorkOnCase(w) ==
    /\ \/ \E c \in Case : ResolveCase(w, c)
       \/ InsertHit(w) \/ ConfirmHit(w) \/ LogActivity(w)
    /\ UNCHANGED engineVars

\* resolveRecovered, with the fingerprints of this run's hits.
ToResolve(w) ==
    IF Snap(w).resolveOnRecovery THEN Recovered(job[w].rule, job[w].hits) ELSE {}

ResolveRecovered(w) ==
    /\ job[w].pc = "hits" /\ job[w].todo = {} /\ IsIdle(w)
    /\ IF ToResolve(w) # {}
       THEN /\ ListRecovered(w, job[w].rule, job[w].hits, Snap(w).createActivities)
            /\ job' = [job EXCEPT ![w].pc = "resolving"]
       ELSE /\ job' = [job EXCEPT ![w].pc = "close"]
            /\ UNCHANGED vars
    /\ UNCHANGED <<rules, condition, edit, abandoned>>

\* executeReportExportRule: the document and its attachment, or no usable template.
ExportReport(w) ==
    /\ job[w].pc = "export"
    /\ job' = [job EXCEPT ![w].pc = "close", ![w].artifact = TRUE]
    /\ UNCHANGED <<vars, rules, condition, edit, abandoned>>

TemplateUnusable(w) ==
    /\ job[w].pc = "export"
    /\ job' = [job EXCEPT ![w].pc = "failed"]
    /\ UNCHANGED <<vars, rules, condition, edit, abandoned>>

\* (mutant) The recovery is not awaited.
CloseRunEarly(w) ==
    /\ job[w].pc \in {"close", "resolving"}
    /\ job' = [job EXCEPT ![w].pc = "reschedule", ![w].run = "success"]
    /\ UNCHANGED <<vars, rules, condition, edit, abandoned>>

CloseRun(w) ==
    /\ job[w].pc = "close" \/ (job[w].pc = "resolving" /\ IsIdle(w))
    /\ job' = [job EXCEPT ![w].pc = "reschedule", ![w].run = "success"]
    /\ UNCHANGED <<vars, rules, condition, edit, abandoned>>

\* The catch block.
FailRun(w) ==
    /\ job[w].pc = "failed"
    /\ job' = [job EXCEPT ![w].pc = "backoff", ![w].run = "error"]
    /\ UNCHANGED <<vars, rules, condition, edit, abandoned>>

\* The next rule of the job, or the end of it.
NextOf(j) == IF j.due = {} THEN NoJob
             ELSE [NoJob EXCEPT !.pc = "start", !.due = j.due, !.snap = j.snap]

\* The rule's nextRunAt, from the cadence the job read.
Reschedule(w) ==
    /\ job[w].pc \in {"reschedule", "backoff"}
    /\ rules' = [rules EXCEPT ![job[w].rule].dueIn = Snap(w).cadence]
    /\ job' = [job EXCEPT ![w] = NextOf(@)]
    /\ UNCHANGED <<vars, condition, edit, abandoned>>

-----------------------------------------------------------------------------
\* Failures

\* (mutant) The catch block reschedules the rule and forgets the run.
StepThrowsForgetsRun(w) ==
    /\ job[w].pc \in Trying
    /\ Fail(w)
    /\ job' = [job EXCEPT ![w].pc = "backoff"]
    /\ UNCHANGED <<rules, condition, edit, abandoned>>

\* (mutant) A hit whose upsert throws is skipped and the run goes on.
StepThrowsSkipsHit(w) ==
    /\ job[w].pc \in Trying
    /\ Fail(w)
    /\ job' = [job EXCEPT ![w].pc = IF @ = "hits" THEN @ ELSE "failed"]
    /\ UNCHANGED <<rules, condition, edit, abandoned>>

\* A call throws inside the try block, even after the run was marked a success.
StepThrows(w) ==
    /\ job[w].pc \in Trying
    /\ Fail(w)
    /\ job' = [job EXCEPT ![w].pc = "failed"]
    /\ UNCHANGED <<rules, condition, edit, abandoned>>

Running(w) == job[w].run = "running"

\* A call throws where nothing catches it: the job ends, its other rules with it.
JobThrows(w) ==
    /\ job[w].pc \in {"start", "failed", "backoff"}
    /\ Fail(w)
    /\ job' = [job EXCEPT ![w] = NoJob]
    /\ abandoned' = abandoned + (IF Running(w) THEN 1 ELSE 0)
    /\ UNCHANGED <<rules, condition, edit>>

ProcessCrash ==
    /\ Crash
    /\ job' = [w \in Automation |-> NoJob]
    /\ edit' = [a \in Admin |-> None]
    /\ abandoned' = abandoned + Cardinality({w \in Automation : Running(w)})
    /\ UNCHANGED <<rules, condition>>

-----------------------------------------------------------------------------
\* The world

\* A maintenance falls due, an occurrence is opened or closed, an integration
\* fails or comes back.
ConditionChanges(f) ==
    /\ condition' = IF f \in condition THEN condition \ {f} ELSE condition \cup {f}
    /\ UNCHANGED <<vars, rules, job, edit, abandoned>>

Minute ==
    /\ Tick \/ (now = MaxNow /\ UNCHANGED vars)
    /\ rules' = [r \in Rule |-> IF Defined(r) /\ rules[r].dueIn > 0
                                THEN [rules[r] EXCEPT !.dueIn = @ - 1] ELSE rules[r]]
    /\ UNCHANGED <<condition, job, edit, abandoned>>

JobStep(w) ==
    \/ \E r \in Rule : BeginRun(w, r)
    \/ ResolveHits(w) \/ ListIntegrations(w)
    \/ \E f \in Fingerprint : TestConnection(w, f) \/ HandleHit(w, f)
    \/ HitRefused(w) \/ WorkOnCase(w) \/ ResolveRecovered(w)
    \/ ExportReport(w) \/ TemplateUnusable(w)
    \/ CloseRun(w) \/ FailRun(w) \/ Reschedule(w)

AdminStep(a) ==
    \/ \E r \in Rule, e \in Edit : ReadRule(a, r, e)
    \/ WriteRule(a)

OperatorStep(w) ==
    /\ OperatorStarts(w) \/ Proceed(w) \/ Fail(w)
    /\ UNCHANGED engineVars

EngineNext ==
    \/ \E r \in Rule, s \in Setting : CreateAutomationRule(r, s)
    \/ \E a \in Admin : AdminStep(a)
    \/ Tock
    \/ \E w \in RunNow, r \in Rule : RunAutomationRuleNow(w, r)
    \/ \E w \in Automation : JobStep(w) \/ StepThrows(w) \/ JobThrows(w)
    \/ \E w \in Operator : OperatorStep(w)
    \/ \E f \in Fingerprint : ConditionChanges(f)
    \/ Minute
    \/ ProcessCrash

EngineSpec == EngineInit /\ [][EngineNext]_allVars

\* The scheduler fires every minute, time passes, and the event loop serves every
\* pending await.  Nothing is assumed of people or of the world.
FairEngineSpec ==
    /\ EngineSpec
    /\ WF_allVars(Tock) /\ WF_allVars(Minute)
    /\ \A w \in Automation : WF_allVars(JobStep(w))
    /\ \A w \in Operator : WF_allVars(Proceed(w) /\ UNCHANGED engineVars)

-----------------------------------------------------------------------------
\* Properties

JobRecord == [pc : Phase, due : SUBSET Rule, snap : [Rule -> SettingSpace \cup {None}],
              rule : Rule \cup {None}, hits : SUBSET Fingerprint, todo : SUBSET Fingerprint,
              run : {"none", "running", "success", "error"}, shared : BOOLEAN, artifact : BOOLEAN]

\* A job has read the rules it works on: the one it executes and those it has left.
JobOK(j) ==
    /\ j \in JobRecord
    /\ \A r \in Rule : j.snap[r] # None => Defined(r)
    /\ \A r \in j.due : j.snap[r] # None
    /\ j.pc \notin {"idle", "start"} => j.rule # None /\ j.snap[j.rule] # None

EngineTypeOK ==
    /\ \A r \in Rule : Defined(r) => rules[r] \in RuleRow
    /\ condition \subseteq Fingerprint
    /\ \A w \in Automation : JobOK(job[w])
    /\ \A a \in Admin : edit[a] # None =>
          edit[a].rule \in Rule /\ Defined(edit[a].rule) /\ edit[a].sent \in Edit
    /\ abandoned \in Nat

\* A run reports success only when every hit it found has its case on record and,
\* for a report, when the document is attached.
SuccessIsWhole ==
    \A w \in Automation : job[w].run = "success" =>
        /\ job[w].rule \in ReportRule => job[w].artifact
        /\ Snap(w).createExceptions => job[w].hits \subseteq StoredCases

\* While every call succeeds, a detection run ends in error only if another run of
\* the same rule was under way at the same time: nothing a single run meets in the
\* table makes it throw.
ErrorsNeedOverlap ==
    \A w \in Automation :
        job[w].run = "error" /\ faults = 0 =>
            job[w].rule \in ReportRule \/ job[w].shared

\* A handler of a job works only inside that job's run: a job that moves on to
\* another rule, or ends, leaves no half-done case behind.
NoWorkOutsideARun ==
    \A w \in Automation : ~IsIdle(w) =>
        /\ job[w].pc \in {"hits", "resolving"}
        /\ op[w].logs = Snap(w).createActivities
        /\ op[w].task = "upsert" => op[w].cur \in job[w].hits
        /\ op[w].task = "resolve" => op[w].rest \cap job[w].hits = {}

\* Every change a run, an operator or a crash makes to the cases is a step of the
\* case table: what ExceptionCases guarantees holds in the whole system.
UsesTheCaseTable == Spec

Detects(r) == Defined(r) /\ rules[r].set.enabled /\ rules[r].set.createExceptions
Recovers(r) == Defined(r) /\ rules[r].set.enabled /\ rules[r].set.resolveOnRecovery
IsOpen(f) == Stored(f) /\ cases[f].base.status \in OpenStatuses

\* As long as an enabled rule creates exceptions and a condition it detects lasts, the
\* case is (again) open, whatever operators do to it and whoever runs the rule.
DetectionsOpenCases ==
    \A f \in Fingerprint :
        (f \in condition /\ Detects(RuleOf[f]))
            ~> (IsOpen(f) \/ f \notin condition \/ ~Detects(RuleOf[f]))

\* As long as an enabled rule resolves on recovery and the condition stays away, no case
\* of the condition stays open.
RecoveriesCloseCases ==
    \A f \in Fingerprint :
        (f \notin condition /\ Recovers(RuleOf[f]) /\ IsOpen(f))
            ~> (~IsOpen(f) \/ f \in condition \/ ~Recovers(RuleOf[f]))

\* A run that was started gets its verdict, success or error, even when a call throws
\* inside it; only a crash or a failing catch block leaves it "running".
RunsEnd == \A w \in Automation :
    Running(w) ~> (job[w].run \in {"success", "error"} \/ abandoned > 0)
=============================================================================
