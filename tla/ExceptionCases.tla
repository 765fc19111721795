--------------------------- MODULE ExceptionCases ---------------------------
(***************************************************************************)
(* The exception-case table and everything that writes to it               *)
(* (exceptions.service.ts): operators over HTTP, singly or in bulk, the    *)
(* SLA recalculation, and automation runs.                                 *)
(*                                                                         *)
(* No handler opens a transaction.  Each reads a case, awaits, computes    *)
(* the operational state from what it READ, and then updates the row, so a *)
(* handler is a read step and a write step of a worker and any other       *)
(* worker may write in between.  The activity entry of a change is a third *)
(* step.  A worker is one request being served or one automation run; a    *)
(* database call that throws ends one of them half way, a crash of the API *)
(* process all of them, and the table stays as it was.                     *)
(***************************************************************************)
EXTENDS OperationalState

CONSTANTS
    Fingerprint,    \* identities of the cases automation opens
    Manual,         \* identities of the cases operators open
    Rule, RuleOf,   \* automation rules, and the rule a fingerprint belongs to
    Operator,       \* workers serving HTTP requests
    Automation,     \* workers executing automation runs
    Payload,        \* the update requests operators send
    CreateActivities, \* the values rules have in createActivities
    NoCase,         \* "no row"
    SilenceTicks,   \* the default silence of one hour
    MaxNow,         \* bound on the clock
    MaxFaults       \* bound on failed database calls and process crashes

Case == Fingerprint \cup Manual
Worker == Operator \cup Automation
Keep == "keep"      \* a payload field that was not sent
PayloadSpace == [status : Status \cup {Keep}, severity : Severity \cup {Keep},
                 assignee : {Keep, "set", "clear"}]
NoTime == -1
Row == [base : Base, derived : Derived, silencedUntil : Nat \cup {NoTime}]

ASSUME CaseAssumption ==
    /\ Fingerprint \cap Manual = {}
    /\ Operator \cap Automation = {}
    /\ RuleOf \in [Fingerprint -> Rule]
    /\ Payload \subseteq PayloadSpace
    /\ CreateActivities \subseteq BOOLEAN
    /\ NoCase \notin Row /\ NoCase \notin Base /\ NoCase \notin Case
    /\ SilenceTicks \in Nat /\ MaxNow \in Nat /\ MaxFaults \in Nat

VARIABLES
    cases,      \* the table: a row, or NoCase, for each identity
    op,         \* what each worker is in the middle of
    now,        \* the clock
    faults,     \* how often a database call failed or the process died
    raced,      \* history: cases last written from a read that was out of date
    owed        \* history: <<worker, case>> whose status change has no activity yet

vars == <<cases, op, now, faults, raced, owed>>

NothingSeen == [c \in Case |-> NoCase]
NoPayload == [status |-> Keep, severity |-> Keep, assignee |-> Keep]
Operation == [task : {"none", "update", "upsert", "resolve", "recalculate", "create"},
              phase : {"idle", "next", "write", "log"},
              rest : SUBSET Case,                    \* cases still to be handled
              cur : Case \cup {NoCase},              \* the case being handled
              seen : [Case -> Base \cup {NoCase}],   \* what was read of each case
              arg : PayloadSpace,                    \* the request, or the hit's severity
              logs : BOOLEAN]                        \* does it write activities?
Idle == [task |-> "none", phase |-> "idle", rest |-> {}, cur |-> NoCase,
         seen |-> NothingSeen, arg |-> NoPayload, logs |-> FALSE]

Stored(c) == cases[c] # NoCase
StoredCases == {c \in Case : Stored(c)}
IsIdle(w) == op[w].phase = "idle"

\* The worker goes on with the cases it has left, or is finished.
Continue(o) ==
    IF o.rest = {} THEN Idle
    ELSE [o EXCEPT !.phase = "next", !.cur = NoCase,
                   !.seen = IF o.task = "recalculate" THEN o.seen ELSE NothingSeen]

\* After the row is written: the activity entry, if this worker writes one.
ThenLog(o, c) ==
    IF o.logs THEN [o EXCEPT !.phase = "log", !.cur = c, !.seen = NothingSeen]
    ELSE Continue(o)

Init ==
    /\ cases = [c \in Case |-> NoCase]
    /\ op = [w \in Worker |-> Idle]
    /\ now = 0
    /\ faults = 0
    /\ raced = {}
    /\ owed = {}

-----------------------------------------------------------------------------
\* Writing a row.  `read' is what the writer had read of the case (NoCase for
\* an insert): the row is raced when that is no longer what the table holds.

UpToDate(c, read) == IF Stored(c) THEN read = cases[c].base ELSE read = NoCase

Write(w, c, row, read) ==
    /\ cases' = [cases EXCEPT ![c] = row]
    /\ raced' = IF UpToDate(c, read) THEN raced \ {c} ELSE raced \cup {c}
    /\ owed' = IF Stored(c) /\ cases[c].base.status = row.base.status
               THEN owed ELSE owed \cup {<<w, c>>}

\* An insert: every column comes from the request and the clock.
NewRow(b) == [base |-> b, derived |-> BuildOperationalState(b, now),
              silencedUntil |-> NoTime]

-----------------------------------------------------------------------------
\* Operators

\* createException with a free code: insert, then the activity.
CreateException(w, c, status, severity, assigned) ==
    LET b == [severity |-> severity, status |-> status, createdAt |-> now,
              acknowledgedAt |-> status = "acknowledged",
              resolvedAt |-> status = "resolved", assigneeUserId |-> assigned]
    IN  /\ IsIdle(w)
        /\ ~Stored(c)
        /\ Write(w, c, NewRow(b), NoCase)
        /\ op' = [op EXCEPT ![w] = ThenLog([Idle EXCEPT !.task = "create", !.logs = TRUE], c)]
        /\ UNCHANGED <<now, faults>>

\* updateException for one id, bulkUpdateExceptions for several.
StartUpdate(w, ids, payload) ==
    /\ IsIdle(w)
    /\ ids # {} /\ ids \subseteq StoredCases
    /\ op' = [op EXCEPT ![w] = [Idle EXCEPT !.task = "update", !.phase = "next",
                                            !.rest = ids, !.arg = payload, !.logs = TRUE]]
    /\ UNCHANGED <<cases, now, faults, raced, owed>>

\* updateException: findUnique.
ReadCase(w, c) ==
    /\ op[w].task = "update" /\ op[w].phase = "next"
    /\ c \in op[w].rest
    /\ op' = [op EXCEPT ![w].phase = "write", ![w].cur = c, ![w].rest = @ \ {c},
                        ![w].seen = [NothingSeen EXCEPT ![c] = cases[c].base]]
    /\ UNCHANGED <<cases, now, faults, raced, owed>>

\* The case with a requested status and the stamps that go with it.
WithStatus(b, status) ==
    [b EXCEPT !.status = status,
              !.acknowledgedAt = status = "acknowledged" \/ (status # "open" /\ @),
              !.resolvedAt = status = "resolved" \/ (status # "open" /\ @)]

ApplyPayload(b, p) ==
    LET s == IF p.status = Keep THEN b ELSE WithStatus(b, p.status)
    IN  [s EXCEPT !.severity = IF p.severity = Keep THEN @ ELSE p.severity,
                  !.assigneeUserId = IF p.assignee = Keep THEN @ ELSE p.assignee = "set"]

\* The columns of `b' that the request names; the others stay as stored.
NamedColumns(stored, b, p) ==
    LET s == IF p.status = Keep THEN stored
             ELSE [stored EXCEPT !.status = b.status, !.acknowledgedAt = b.acknowledgedAt,
                                 !.resolvedAt = b.resolvedAt]
    IN  [s EXCEPT !.severity = IF p.severity = Keep THEN @ ELSE b.severity,
                  !.assigneeUserId = IF p.assignee = Keep THEN @ ELSE b.assigneeUserId]

\* (mutant) The derived columns are recomputed only when the status is sent.
DerivedIfStatusSent(c, b, p) ==
    IF p.status = Keep THEN cases[c].derived ELSE BuildOperationalState(b, now)

\* The derived columns are rewritten on every update, from the fields READ.
DerivedColumns(c, b, p) == BuildOperationalState(b, now)

\* updateException: the row update.
CommitUpdate(w) ==
    LET c == op[w].cur
        p == op[w].arg
        b == ApplyPayload(op[w].seen[c], p)
        row == [base |-> NamedColumns(cases[c].base, b, p),
                derived |-> DerivedColumns(c, b, p),
                silencedUntil |-> IF p.status = "open" THEN NoTime
                                  ELSE IF p.status = "silenced" THEN now + SilenceTicks
                                  ELSE cases[c].silencedUntil]
    IN  /\ op[w].task = "update" /\ op[w].phase = "write"
        /\ Write(w, c, row, op[w].seen[c])
        /\ op' = [op EXCEPT ![w] = ThenLog(@, c)]
        /\ UNCHANGED <<now, faults>>

\* recalculateSlaPolicies: one findMany, then a row update per case, oldest first.
StartRecalculate(w) ==
    /\ IsIdle(w)
    /\ StoredCases # {}
    /\ op' = [op EXCEPT ![w] =
                 [Idle EXCEPT !.task = "recalculate", !.phase = "next", !.rest = StoredCases,
                              !.seen = [c \in Case |-> IF Stored(c) THEN cases[c].base
                                                       ELSE NoCase]]]
    /\ UNCHANGED <<cases, now, faults, raced, owed>>

RecalculateCase(w, c) ==
    /\ op[w].task = "recalculate" /\ c \in op[w].rest
    /\ \A d \in op[w].rest : op[w].seen[c].createdAt <= op[w].seen[d].createdAt
    /\ Write(w, c, [cases[c] EXCEPT !.derived = BuildOperationalState(op[w].seen[c], now)],
             op[w].seen[c])
    /\ op' = [op EXCEPT ![w] = Continue([op[w] EXCEPT !.rest = @ \ {c}])]
    /\ UNCHANGED <<now, faults>>

-----------------------------------------------------------------------------
\* Automation runs

\* (mutant) Only open cases are looked up.
FindOpen(f) == IF Stored(f) /\ cases[f].base.status # "resolved" THEN cases[f].base
               ELSE NoCase

\* upsertFromAutomation: findUnique by fingerprint.
FindByFingerprint(f) == IF Stored(f) THEN cases[f].base ELSE NoCase

StartUpsert(w, f, severity, logs) ==
    /\ IsIdle(w)
    /\ op' = [op EXCEPT ![w] =
                 [Idle EXCEPT !.task = "upsert", !.phase = "write", !.cur = f,
                              !.seen = [NothingSeen EXCEPT ![f] = FindByFingerprint(f)],
                              !.arg = [NoPayload EXCEPT !.severity = severity],
                              !.logs = logs]]
    /\ UNCHANGED <<cases, now, faults, raced, owed>>

\* (mutant) A resolved case comes back acknowledged if it had been.
ConfirmedRemembersAck(b, severity) ==
    LET status == IF b.status # "resolved" THEN b.status
                  ELSE IF b.acknowledgedAt THEN "acknowledged" ELSE "open"
    IN  [b EXCEPT !.status = status, !.severity = severity,
                  !.acknowledgedAt = status # "open" /\ @,
                  !.resolvedAt = status # "open" /\ @]

\* (mutant) A hit does not reopen a resolved case.
ConfirmedStaysResolved(b, severity) ==
    [b EXCEPT !.severity = severity, !.acknowledgedAt = b.status # "open" /\ @,
              !.resolvedAt = b.status # "open" /\ @]

\* The case as the hit confirms it: a resolved one is opened again, and an
\* open one loses its acknowledgement.
Confirmed(b, severity) ==
    LET status == IF b.status = "resolved" THEN "open" ELSE b.status
    IN  [b EXCEPT !.status = status, !.severity = severity,
                  !.acknowledgedAt = status # "open" /\ @,
                  !.resolvedAt = status # "open" /\ @]

\* (mutant) The acknowledgement is the stored one even when the case reopens.
ConfirmedColumnsKeepAck(stored, b) ==
    [stored EXCEPT !.status = b.status, !.severity = b.severity,
                   !.resolvedAt = b.status # "open" /\ @]

\* The columns of the confirmed case that the update names: resolvedAt is left
\* alone (undefined) unless the case is open, the assignee always.
ConfirmedColumns(stored, b) ==
    [stored EXCEPT !.status = b.status, !.severity = b.severity,
                   !.acknowledgedAt = b.acknowledgedAt,
                   !.resolvedAt = b.status # "open" /\ @]

\* upsertFromAutomation: the insert.  Two runs may both have found no row; the
\* unique fingerprint makes the second insert throw.
InsertHit(w) ==
    LET f == op[w].cur
        b == [severity |-> op[w].arg.severity, status |-> "open", createdAt |-> now,
              acknowledgedAt |-> FALSE, resolvedAt |-> FALSE, assigneeUserId |-> FALSE]
    IN  /\ op[w].task = "upsert" /\ op[w].phase = "write"
        /\ op[w].seen[f] = NoCase
        /\ ~Stored(f)
        /\ Write(w, f, NewRow(b), NoCase)
        /\ op' = [op EXCEPT ![w] = ThenLog(@, f)]
        /\ UNCHANGED <<now, faults>>

InsertRefused(w) ==
    /\ op[w].task = "upsert" /\ op[w].phase = "write"
    /\ op[w].seen[op[w].cur] = NoCase
    /\ Stored(op[w].cur)
    /\ op' = [op EXCEPT ![w] = Idle]
    /\ UNCHANGED <<cases, now, faults, raced, owed>>

\* upsertFromAutomation: the update of the row that was found.
ConfirmHit(w) ==
    LET f == op[w].cur
        b == Confirmed(op[w].seen[f], op[w].arg.severity)
        row == [base |-> ConfirmedColumns(cases[f].base, b),
                derived |-> BuildOperationalState(b, now),
                silencedUntil |-> IF b.status = "open" THEN NoTime
                                  ELSE cases[f].silencedUntil]
    IN  /\ op[w].task = "upsert" /\ op[w].phase = "write"
        /\ op[w].seen[f] # NoCase
        /\ Write(w, f, row, op[w].seen[f])
        /\ op' = [op EXCEPT ![w] = ThenLog(@, f)]
        /\ UNCHANGED <<now, faults>>

\* (mutant) A run without hits resolves nothing.
RecoveredIfHits(rule, hits) ==
    {f \in Fingerprint \ hits : /\ RuleOf[f] = rule /\ Stored(f) /\ hits # {}
                                /\ cases[f].base.status \in OpenStatuses}

\* resolveRecovered: the open cases of the rule that this run did not hit.
Recovered(rule, hits) ==
    {f \in Fingerprint \ hits : /\ RuleOf[f] = rule /\ Stored(f)
                                /\ cases[f].base.status \in OpenStatuses}

ListRecovered(w, rule, hits, logs) ==
    /\ IsIdle(w)
    /\ Recovered(rule, hits) # {}
    /\ op' = [op EXCEPT ![w] = [Idle EXCEPT !.task = "resolve", !.phase = "next",
                                            !.rest = Recovered(rule, hits), !.logs = logs]]
    /\ UNCHANGED <<cases, now, faults, raced, owed>>

\* A recovered case: only these columns, and the score stays as it was.
RecoveredRow(row) ==
    [base |-> [row.base EXCEPT !.status = "resolved", !.resolvedAt = TRUE],
     derived |-> [row.derived EXCEPT !.triageStatus = "closed", !.breachedAt = FALSE],
     silencedUntil |-> NoTime]

ResolveCase(w, c) ==
    /\ op[w].task = "resolve" /\ op[w].phase = "next" /\ c \in op[w].rest
    /\ cases' = [cases EXCEPT ![c] = RecoveredRow(@)]
    /\ owed' = IF cases[c].base.status = "resolved" THEN owed ELSE owed \cup {<<w, c>>}
    /\ op' = [op EXCEPT ![w] = ThenLog([op[w] EXCEPT !.rest = @ \ {c}], c)]
    /\ UNCHANGED <<now, faults, raced>>

-----------------------------------------------------------------------------
\* Both

\* (mutant) A bulk request writes one activity, for its last case.
LogLastOnly(w) ==
    /\ op[w].phase = "log"
    /\ owed' = IF op[w].rest = {} THEN owed \ {<<w, op[w].cur>>} ELSE owed
    /\ op' = [op EXCEPT ![w] = Continue(@)]
    /\ UNCHANGED <<cases, now, faults, raced>>

\* createActivity for the case just written.
LogActivity(w) ==
    /\ op[w].phase = "log"
    /\ owed' = owed \ {<<w, op[w].cur>>}
    /\ op' = [op EXCEPT ![w] = Continue(@)]
    /\ UNCHANGED <<cases, now, faults, raced>>

Tick ==
    /\ now < MaxNow
    /\ now' = now + 1
    /\ UNCHANGED <<cases, op, faults, raced, owed>>

\* A database call of the handler throws: the request or the run goes no
\* further, and what it has written stays.
Fail(w) ==
    /\ faults < MaxFaults
    /\ faults' = faults + 1
    /\ op' = [op EXCEPT ![w] = Idle]
    /\ UNCHANGED <<cases, now, raced, owed>>

\* The API process dies: every request and run is lost, the table is kept.
Crash ==
    /\ faults < MaxFaults
    /\ faults' = faults + 1
    /\ op' = [w \in Worker |-> Idle]
    /\ UNCHANGED <<cases, now, raced, owed>>

OperatorStarts(w) ==
    \/ \E c \in Manual, s \in Status, v \in Severity, a \in BOOLEAN :
          CreateException(w, c, s, v, a)
    \/ \E ids \in SUBSET Case, p \in Payload : StartUpdate(w, ids, p)
    \/ StartRecalculate(w)

AutomationStarts(w) ==
    \/ \E f \in Fingerprint, v \in Severity, l \in CreateActivities : StartUpsert(w, f, v, l)
    \/ \E r \in Rule, hits \in SUBSET Fingerprint, l \in CreateActivities :
          ListRecovered(w, r, hits, l)

\* A step of a handler that has begun.
Proceed(w) ==
    \/ \E c \in Case : ReadCase(w, c) \/ RecalculateCase(w, c) \/ ResolveCase(w, c)
    \/ CommitUpdate(w)
    \/ InsertHit(w) \/ InsertRefused(w) \/ ConfirmHit(w)
    \/ LogActivity(w)

Next ==
    \/ \E w \in Operator : OperatorStarts(w)
    \/ \E w \in Automation : AutomationStarts(w)
    \/ \E w \in Worker : Proceed(w) \/ Fail(w)
    \/ Tick
    \/ Crash

Spec == Init /\ [][Next]_vars

\* The event loop serves every pending await and time passes; nobody is
\* obliged to send a request.
FairSpec == Spec /\ WF_vars(Tick) /\ \A w \in Worker : WF_vars(Proceed(w))

-----------------------------------------------------------------------------
\* Properties

TypeOK ==
    /\ cases \in [Case -> Row \cup {NoCase}]
    /\ op \in [Worker -> Operation]
    /\ now \in 0..MaxNow
    /\ faults \in 0..MaxFaults
    /\ raced \subseteq Case
    /\ owed \subseteq Worker \X Case

\* The stamps of a case agree with its status however the writers interleave:
\* an open case carries none, an acknowledged or resolved one carries its own.
\* updateException writes the three columns together, and so does the upsert.
StampsAgree(b) ==
    /\ b.status = "open" => ~b.acknowledgedAt /\ ~b.resolvedAt
    /\ b.status = "acknowledged" => b.acknowledgedAt
    /\ b.status = "resolved" => b.resolvedAt

StampsFollowStatus == \A c \in StoredCases : StampsAgree(cases[c].base)

\* What the queue shows of a case (triage, breach, deadlines, score) is what its
\* own status, assignee, acknowledgement and severity call for.  A breach flag may
\* lag behind the clock but is never early; a case resolved by recovery keeps the
\* score it had.
CoherentAt(row, t) ==
    LET b == row.base  d == row.derived
    IN  /\ d.slaSeverity = b.severity
        /\ d.triageStatus = "closed" <=> b.status = "resolved"
        /\ d.triageStatus = "pending" <=> /\ b.status # "resolved"
                                         /\ ~b.acknowledgedAt /\ ~b.assigneeUserId
        /\ d.breachedAt => b.status \in OpenStatuses /\ Overdue(b, t)
        /\ b.status # "resolved" =>
              d.priorityScore = ComputePriorityScore(b.severity, d.triageStatus,
                                                     b.assigneeUserId, d.breachedAt)

\* Triage, breach, deadlines and score of every case agree with its status,
\* assignee and severity, unless its last full write was computed from a read
\* another writer had outdated: overlapping handlers are the only way the queue
\* can show a case wrongly.
QueueShowsTheCase == \A c \in StoredCases \ raced : CoherentAt(cases[c], now)

\* A resolved case comes back only because an operator asked for it, because a
\* detection opened it again, or because a stale writer overwrote it: a run that
\* read the case as it is never moves it to acknowledged or silenced.
ResolutionStands ==
    [][\A c \in StoredCases :
          cases[c].base.status = "resolved" /\ cases'[c].base.status # "resolved" =>
             \/ cases'[c].base.status = "open"
             \/ \E w \in Operator : op[w].phase = "write" /\ op[w].cur = c
             \/ c \in raced']_vars

\* Every change of status has its activity entry, or a live worker about to
\* write it.
TransitionsAreLogged ==
    \A e \in owed : op[e[1]].phase = "log" /\ op[e[1]].cur = e[2]

\* Once an open case is past its deadline the table eventually says so (or the
\* case is resolved).
BreachesSurface ==
    \A c \in Case :
        (Stored(c) /\ cases[c].base.status \in OpenStatuses /\ Overdue(cases[c].base, now))
            ~> (Stored(c) /\ (cases[c].derived.breachedAt \/ cases[c].base.status = "resolved"))
=============================================================================
