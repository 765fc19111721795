------------------------ MODULE ExceptionCases_proofs ------------------------
(***************************************************************************)
(* Proofs about ExceptionCases, for any number of cases, rules, operators  *)
(* and runs, any policies and any interleaving.                            *)
(***************************************************************************)
EXTENDS ExceptionCases, TLAPS

-----------------------------------------------------------------------------
\* The pure part

\* severityWeight has four values.
LEMMA WeightType == \A s : SeverityWeight(s) \in {25, 55, 78, 95}
BY DEF SeverityWeight

\* computePriorityScore never leaves 0..100.
LEMMA ScoreType ==
    ASSUME NEW s, NEW tr, NEW a \in BOOLEAN, NEW b \in BOOLEAN
    PROVE  ComputePriorityScore(s, tr, a, b) \in 0..100
BY WeightType DEF ComputePriorityScore

\* The triage status is one of three.
LEMMA TriageType == ASSUME NEW b PROVE TriageStatus(b) \in Triage
BY DEF TriageStatus, Triage

\* buildOperationalState returns stored columns of the right types.
LEMMA DerivedType ==
    ASSUME NEW b \in Base, NEW t \in Nat
    PROVE  BuildOperationalState(b, t) \in Derived
<1>1. Breached(b, t) \in BOOLEAN
  BY DEF Breached, Overdue
<1>2. b.assigneeUserId \in BOOLEAN /\ b.severity \in Severity
  BY DEF Base
<1>3. ComputePriorityScore(b.severity, TriageStatus(b), b.assigneeUserId, Breached(b, t)) \in 0..100
  BY <1>1, <1>2, ScoreType
<1> QED BY <1>1, <1>2, <1>3, TriageType DEF BuildOperationalState, Derived

\* The deadline of a case, once passed, stays passed.
LEMMA OverdueMonotone ==
    ASSUME NEW b \in Base, NEW t \in Nat, NEW u \in Nat, t <= u, Overdue(b, t)
    PROVE  Overdue(b, u)
<1>1. b.createdAt \in Nat /\ ResolveWithin[b.severity] \in Nat /\ FirstResponse[b.severity] \in Nat
  BY PolicyAssumption DEF Base
<1> QED BY <1>1 DEF Overdue

\* The stamps of a status change are part of a case.
LEMMA WithStatusType ==
    ASSUME NEW b \in Base, NEW s \in Status
    PROVE  WithStatus(b, s) \in Base /\ StampsAgree(WithStatus(b, s))
BY DEF WithStatus, Base, StampsAgree, Status, OpenStatuses

\* A payload turns a case into a case.
LEMMA ApplyType ==
    ASSUME NEW b \in Base, NEW p \in PayloadSpace, StampsAgree(b)
    PROVE  ApplyPayload(b, p) \in Base /\ StampsAgree(ApplyPayload(b, p))
<1> DEFINE s == IF p.status = Keep THEN b ELSE WithStatus(b, p.status)
<1>1. p.status \in Status \cup {Keep} /\ p.severity \in Severity \cup {Keep}
  BY DEF PayloadSpace
<1>2. s \in Base /\ StampsAgree(s)
  BY <1>1, WithStatusType
<1> HIDE DEF s
<1>3. [s EXCEPT !.severity = IF p.severity = Keep THEN @ ELSE p.severity,
               !.assigneeUserId = IF p.assignee = Keep THEN @ ELSE p.assignee = "set"] \in Base
  BY <1>1, <1>2 DEF Base
<1> QED BY <1>2, <1>3 DEF ApplyPayload, s, StampsAgree, Base

\* What updateException stores of the fields it names, over any stored row.
LEMMA NamedColumnsType ==
    ASSUME NEW old \in Base, NEW b \in Base, NEW p \in PayloadSpace,
           StampsAgree(old), StampsAgree(b)
    PROVE  NamedColumns(old, b, p) \in Base /\ StampsAgree(NamedColumns(old, b, p))
<1> DEFINE s == IF p.status = Keep THEN old
                ELSE [old EXCEPT !.status = b.status, !.acknowledgedAt = b.acknowledgedAt,
                                 !.resolvedAt = b.resolvedAt]
<1>1. s \in Base /\ StampsAgree(s)
  BY DEF Base, StampsAgree
<1> HIDE DEF s
<1>2. [s EXCEPT !.severity = IF p.severity = Keep THEN @ ELSE b.severity,
               !.assigneeUserId = IF p.assignee = Keep THEN @ ELSE b.assigneeUserId] \in Base
  BY <1>1 DEF Base
<1> QED BY <1>1, <1>2 DEF NamedColumns, s, StampsAgree, Base

\* Over the row it was computed from, the named columns are the whole change.
LEMMA NamedColumnsOfOwnRead ==
    ASSUME NEW b \in Base, NEW p \in PayloadSpace
    PROVE  NamedColumns(b, ApplyPayload(b, p), p) = ApplyPayload(b, p)
BY DEF NamedColumns, ApplyPayload, WithStatus, Base, Keep

\* A confirmed detection turns a case into a case.
LEMMA ConfirmedType ==
    ASSUME NEW b \in Base, NEW v \in Severity, StampsAgree(b)
    PROVE  Confirmed(b, v) \in Base /\ StampsAgree(Confirmed(b, v))
BY DEF Confirmed, Base, StampsAgree, Status, OpenStatuses

\* What a confirmation writes are columns of a case.
LEMMA ConfirmedColumnsType ==
    ASSUME NEW old \in Base, NEW b \in Base, NEW v \in Severity, StampsAgree(old), StampsAgree(b)
    PROVE  /\ ConfirmedColumns(old, Confirmed(b, v)) \in Base
           /\ StampsAgree(ConfirmedColumns(old, Confirmed(b, v)))
BY DEF ConfirmedColumns, Confirmed, Base, StampsAgree, Status, OpenStatuses

\* Written over the row that was read, they are the confirmed case.
LEMMA ConfirmedColumnsOfOwnRead ==
    ASSUME NEW b \in Base, NEW v \in Severity
    PROVE  ConfirmedColumns(b, Confirmed(b, v)) = Confirmed(b, v)
BY DEF ConfirmedColumns, Confirmed, Base

\* Operations

\* An idle request is a request.
LEMMA IdleType == Idle \in Operation
BY CaseAssumption DEF Idle, Operation, NothingSeen, NoPayload, PayloadSpace, Keep

\* A request that goes on to the next target is a request.
LEMMA ContinueType ==
    ASSUME NEW o \in Operation
    PROVE  Continue(o) \in Operation
BY IdleType DEF Continue, Operation, NothingSeen

\* A request that still has an activity to write is a request.
LEMMA ThenLogType ==
    ASSUME NEW o \in Operation, NEW c \in Case
    PROVE  ThenLog(o, c) \in Operation
BY ContinueType DEF ThenLog, Operation, NothingSeen
-----------------------------------------------------------------------------
\* The inductive invariant: types, stamps, and that what a worker holds was
\* read from a stored row whose stamps agreed.

OperationOK(o, stored) ==
    /\ o.rest \subseteq stored
    /\ o.phase \in {"write", "log"} => o.cur \in Case
    /\ o.task = "update" /\ o.phase = "write" => o.cur \in stored /\ o.seen[o.cur] # NoCase
    /\ o.task = "upsert" /\ o.phase = "write" =>
          o.arg.severity \in Severity /\ (o.seen[o.cur] # NoCase => o.cur \in stored)
    /\ o.task = "recalculate" => \A c \in o.rest : o.seen[c] # NoCase
    /\ \A c \in Case : o.seen[c] # NoCase => StampsAgree(o.seen[c])

IInv ==
    /\ TypeOK
    /\ StampsFollowStatus
    /\ \A w \in Worker : OperationOK(op[w], StoredCases)

\* An idle request holds no case.
LEMMA IdleOK == ASSUME NEW stored PROVE OperationOK(Idle, stored)
BY DEF Idle, OperationOK, NothingSeen

\* A request that goes on holds only cases that are stored.
LEMMA ContinueOK ==
    ASSUME NEW o \in Operation, NEW stored, OperationOK(o, stored)
    PROVE  OperationOK(Continue(o), stored)
BY IdleOK DEF Continue, Operation, OperationOK, NothingSeen

\* A request that still has an activity to write knows its case.
LEMMA ThenLogOK ==
    ASSUME NEW o \in Operation, NEW stored, NEW c \in Case, OperationOK(o, stored),
           o.task # "recalculate"
    PROVE  OperationOK(ThenLog(o, c), stored)
BY ContinueOK DEF ThenLog, Operation, OperationOK, NothingSeen

\* A request stays in order when more cases are stored.
LEMMA OperationOKGrows ==
    ASSUME NEW o, NEW less, NEW more, less \subseteq more, OperationOK(o, less)
    PROVE  OperationOK(o, more)
BY DEF OperationOK

\* A step that gives one worker a new operation and keeps the table.
LEMMA OperationStep ==
    ASSUME IInv, NEW w \in Worker, NEW o \in Operation, OperationOK(o, StoredCases),
           op' = [op EXCEPT ![w] = o], UNCHANGED <<cases, now, faults, raced>>,
           owed' \subseteq Worker \X Case
    PROVE  IInv'
<1>1. TypeOK'
  BY DEF IInv, TypeOK
<1>2. StoredCases' = StoredCases /\ StampsFollowStatus'
  BY DEF IInv, StoredCases, Stored, StampsFollowStatus
<1>3. \A v \in Worker : OperationOK(op'[v], StoredCases')
  BY <1>2 DEF IInv, TypeOK
<1> QED BY <1>1, <1>2, <1>3 DEF IInv

\* A step that also stores a row.
LEMMA RowStep ==
    ASSUME IInv, NEW w \in Worker, NEW o \in Operation,
           NEW c \in Case, NEW row \in Row, StampsAgree(row.base),
           OperationOK(o, StoredCases \cup {c}),
           cases' = [cases EXCEPT ![c] = row],
           op' = [op EXCEPT ![w] = o], UNCHANGED <<now, faults>>,
           raced' \subseteq Case, owed' \subseteq Worker \X Case
    PROVE  IInv'
<1>1. TypeOK'
  BY DEF IInv, TypeOK
<1>2. StoredCases' = StoredCases \cup {c}
  BY CaseAssumption DEF IInv, TypeOK, StoredCases, Stored
<1>3. StampsFollowStatus'
  BY <1>2 DEF IInv, TypeOK, StampsFollowStatus, StoredCases, Stored
<1>4. \A v \in Worker : OperationOK(op'[v], StoredCases')
  <2> SUFFICES ASSUME NEW v \in Worker PROVE OperationOK(op'[v], StoredCases')
    OBVIOUS
  <2>1. CASE v = w
    BY <2>1, <1>2 DEF IInv, TypeOK
  <2>2. CASE v # w
    BY <2>2, <1>2, OperationOKGrows DEF IInv, TypeOK
  <2> QED BY <2>1, <2>2
<1> QED BY <1>1, <1>3, <1>4 DEF IInv

\* A case that is inserted is a row.
LEMMA NewRowType ==
    ASSUME NEW b \in Base, now \in Nat
    PROVE  NewRow(b) \in Row /\ NewRow(b).base = b
BY DerivedType DEF NewRow, Row, NoTime

\* What writing one row does to the table.
LEMMA WriteEffect ==
    ASSUME TypeOK, NEW w \in Worker, NEW c \in Case, NEW row, NEW read, Write(w, c, row, read)
    PROVE  /\ cases' = [cases EXCEPT ![c] = row]
           /\ raced' \subseteq Case
           /\ owed' \subseteq Worker \X Case
BY DEF Write, TypeOK

\* A stored case is a row.
LEMMA StoredRow ==
    ASSUME IInv, NEW c \in StoredCases
    PROVE  /\ c \in Case
           /\ cases[c] \in Row
           /\ cases[c].base \in Base
           /\ StampsAgree(cases[c].base)
BY DEF IInv, TypeOK, StoredCases, Stored, Row, StampsFollowStatus

\* What a request has read is a row.
LEMMA SeenRow ==
    ASSUME IInv, NEW w \in Worker, NEW c \in Case, op[w].seen[c] # NoCase
    PROVE  op[w].seen[c] \in Base /\ StampsAgree(op[w].seen[c])
BY DEF IInv, TypeOK, Operation, OperationOK
-----------------------------------------------------------------------------
\* Every step preserves the invariant

\* The empty table is in order.
LEMMA InvInit == Init => IInv
<1> SUFFICES ASSUME Init PROVE IInv
  OBVIOUS
<1>1. TypeOK
  BY CaseAssumption, IdleType DEF Init, TypeOK
<1>2. StoredCases = {}
  BY DEF Init, StoredCases, Stored
<1>3. \A w \in Worker : OperationOK(op[w], StoredCases)
  BY IdleOK DEF Init
<1> QED BY <1>1, <1>2, <1>3 DEF IInv, StampsFollowStatus

\* The steps of an operator request that write no case.
LEMMA InvOperator ==
    ASSUME IInv, NEW w \in Operator, OperatorStarts(w)
    PROVE  IInv'
<1>1. w \in Worker
  BY DEF Worker
<1>2. now \in Nat /\ owed \subseteq Worker \X Case
  BY CaseAssumption DEF IInv, TypeOK
<1>3. ASSUME NEW c \in Manual, NEW s \in Status, NEW v \in Severity, NEW a \in BOOLEAN,
             CreateException(w, c, s, v, a)
      PROVE  IInv'
  <2> DEFINE b == [severity |-> v, status |-> s, createdAt |-> now,
                   acknowledgedAt |-> s = "acknowledged",
                   resolvedAt |-> s = "resolved", assigneeUserId |-> a]
             o == [Idle EXCEPT !.task = "create", !.logs = TRUE]
  <2>1. b \in Base /\ StampsAgree(b)
    BY <1>2 DEF Base, StampsAgree
  <2>2. c \in Case
    BY DEF Case
  <2>3. o \in Operation /\ OperationOK(o, StoredCases \cup {c}) /\ o.task # "recalculate"
    BY IdleType, IdleOK DEF Idle, Operation, OperationOK, NothingSeen
  <2>4. Write(w, c, NewRow(b), NoCase) /\ op' = [op EXCEPT ![w] = ThenLog(o, c)]
        /\ UNCHANGED <<now, faults>>
    BY <1>3 DEF CreateException
  <2> HIDE DEF b, o
  <2>5. NewRow(b) \in Row /\ NewRow(b).base = b
    BY <2>1, <1>2, NewRowType
  <2>6. ThenLog(o, c) \in Operation /\ OperationOK(ThenLog(o, c), StoredCases \cup {c})
    BY <2>2, <2>3, ThenLogType, ThenLogOK
  <2>7. TypeOK
    BY DEF IInv
  <2>8. /\ cases' = [cases EXCEPT ![c] = NewRow(b)]
        /\ raced' \subseteq Case /\ owed' \subseteq Worker \X Case
    BY <1>1, <2>2, <2>4, <2>7, WriteEffect
  <2> QED BY <1>1, <2>1, <2>2, <2>4, <2>5, <2>6, <2>8, RowStep
<1>4. ASSUME NEW ids \in SUBSET Case, NEW p \in Payload, StartUpdate(w, ids, p)
      PROVE  IInv'
  <2> DEFINE o == [Idle EXCEPT !.task = "update", !.phase = "next",
                               !.rest = ids, !.arg = p, !.logs = TRUE]
  <2>1. o \in Operation
    BY CaseAssumption, IdleType DEF Idle, Operation
  <2>2. OperationOK(o, StoredCases)
    BY <1>4 DEF StartUpdate, OperationOK, Idle, NothingSeen
  <2> QED BY <1>1, <1>2, <1>4, <2>1, <2>2, OperationStep DEF StartUpdate
<1>5. ASSUME StartRecalculate(w)
      PROVE  IInv'
  <2> DEFINE read == [c \in Case |-> IF Stored(c) THEN cases[c].base ELSE NoCase]
             o == [Idle EXCEPT !.task = "recalculate", !.phase = "next",
                               !.rest = StoredCases, !.seen = read]
  <2>1. \A c \in Case : Stored(c) => cases[c].base \in Base /\ StampsAgree(cases[c].base)
    BY StoredRow DEF StoredCases
  <2>2. read \in [Case -> Base \cup {NoCase}]
    BY <2>1
  <2>3. o \in Operation
    BY <2>2, IdleType DEF Idle, Operation, StoredCases
  <2>4. OperationOK(o, StoredCases)
    BY <2>1, CaseAssumption DEF OperationOK, Idle, StoredCases
  <2>5. op' = [op EXCEPT ![w] = o]
    BY <1>5 DEF StartRecalculate
  <2> QED BY <1>1, <1>2, <1>5, <2>3, <2>4, <2>5, OperationStep DEF StartRecalculate
<1> QED BY <1>3, <1>4, <1>5 DEF OperatorStarts

\* The steps of a run that write no case.
LEMMA InvAutomation ==
    ASSUME IInv, NEW w \in Automation, AutomationStarts(w)
    PROVE  IInv'
<1>1. w \in Worker
  BY DEF Worker
<1>2. owed \subseteq Worker \X Case
  BY DEF IInv, TypeOK
<1>3. ASSUME NEW f \in Fingerprint, NEW v \in Severity, NEW l \in CreateActivities,
             StartUpsert(w, f, v, l)
      PROVE  IInv'
  <2> DEFINE read == [NothingSeen EXCEPT ![f] = FindByFingerprint(f)]
             hit == [NoPayload EXCEPT !.severity = v]
             o == [Idle EXCEPT !.task = "upsert", !.phase = "write", !.cur = f,
                               !.seen = read, !.arg = hit, !.logs = l]
  <2>1. f \in Case /\ l \in BOOLEAN
    BY CaseAssumption DEF Case
  <2>2. Stored(f) => cases[f].base \in Base /\ StampsAgree(cases[f].base)
    BY <2>1, StoredRow DEF StoredCases
  <2>3. /\ read \in [Case -> Base \cup {NoCase}]
        /\ \A c \in Case : read[c] # NoCase => c = f /\ Stored(f) /\ StampsAgree(read[c])
    BY <2>1, <2>2 DEF NothingSeen, FindByFingerprint
  <2>4. hit \in PayloadSpace /\ hit.severity = v
    BY DEF NoPayload, PayloadSpace
  <2>5. op' = [op EXCEPT ![w] = o]
    BY <1>3 DEF StartUpsert
  <2> HIDE DEF read, hit
  <2>6. o \in Operation
    BY <2>1, <2>3, <2>4, IdleType DEF Idle, Operation
  <2>7. OperationOK(o, StoredCases)
    BY <2>1, <2>3, <2>4 DEF OperationOK, StoredCases, Idle
  <2> QED BY <1>1, <1>2, <1>3, <2>5, <2>6, <2>7, OperationStep DEF StartUpsert
<1>4. ASSUME NEW r \in Rule, NEW hits \in SUBSET Fingerprint, NEW l \in CreateActivities,
             ListRecovered(w, r, hits, l)
      PROVE  IInv'
  <2> DEFINE o == [Idle EXCEPT !.task = "resolve", !.phase = "next",
                               !.rest = Recovered(r, hits), !.logs = l]
  <2>1. Recovered(r, hits) \subseteq StoredCases /\ StoredCases \subseteq Case
    BY DEF Recovered, StoredCases, Case
  <2>2. o \in Operation
    BY <2>1, CaseAssumption, IdleType DEF Idle, Operation
  <2>3. OperationOK(o, StoredCases)
    BY <2>1 DEF OperationOK, Idle, NothingSeen
  <2> QED BY <1>1, <1>2, <1>4, <2>2, <2>3, OperationStep DEF ListRecovered
<1> QED BY <1>3, <1>4 DEF AutomationStarts
\* The rows the handlers write: well typed, stamped, and over the same case.

\* The row updateException writes is a row, with its stamps in order.
LEMMA UpdatedRowType ==
    ASSUME IInv, NEW w \in Worker, op[w].task = "update", op[w].phase = "write"
    PROVE  LET c == op[w].cur
               p == op[w].arg
               b == ApplyPayload(op[w].seen[c], p)
           IN  /\ c \in StoredCases /\ c \in Case /\ p \in PayloadSpace
               /\ op[w].seen[c] \in Base /\ b \in Base
               /\ BuildOperationalState(b, now) \in Derived
               /\ NamedColumns(cases[c].base, b, p) \in Base
               /\ StampsAgree(NamedColumns(cases[c].base, b, p))
<1> DEFINE c == op[w].cur
           p == op[w].arg
           b == ApplyPayload(op[w].seen[c], p)
<1>1. op[w] \in Operation /\ OperationOK(op[w], StoredCases) /\ now \in Nat
  BY CaseAssumption DEF IInv, TypeOK
<1>2. c \in StoredCases /\ c \in Case /\ p \in PayloadSpace /\ op[w].seen[c] # NoCase
  BY <1>1 DEF OperationOK, Operation
<1>3. op[w].seen[c] \in Base /\ StampsAgree(op[w].seen[c])
  BY <1>2, SeenRow
<1>4. cases[c].base \in Base /\ StampsAgree(cases[c].base)
  BY <1>2, StoredRow
<1>5. b \in Base /\ StampsAgree(b)
  BY <1>2, <1>3, ApplyType
<1> HIDE DEF b
<1>6. /\ NamedColumns(cases[c].base, b, p) \in Base
      /\ StampsAgree(NamedColumns(cases[c].base, b, p))
  BY <1>2, <1>4, <1>5, NamedColumnsType
<1>7. BuildOperationalState(b, now) \in Derived
  BY <1>1, <1>5, DerivedType
<1> QED BY <1>2, <1>3, <1>5, <1>6, <1>7 DEF b

\* So is the row a confirmed detection writes.
LEMMA ConfirmedRowType ==
    ASSUME IInv, NEW w \in Worker, op[w].task = "upsert", op[w].phase = "write",
           op[w].seen[op[w].cur] # NoCase
    PROVE  LET f == op[w].cur
               b == Confirmed(op[w].seen[f], op[w].arg.severity)
           IN  /\ f \in StoredCases /\ f \in Case /\ op[w].arg.severity \in Severity
               /\ op[w].seen[f] \in Base /\ b \in Base
               /\ BuildOperationalState(b, now) \in Derived
               /\ ConfirmedColumns(cases[f].base, b) \in Base
               /\ StampsAgree(ConfirmedColumns(cases[f].base, b))
<1> DEFINE f == op[w].cur
           v == op[w].arg.severity
           b == Confirmed(op[w].seen[f], v)
<1>1. op[w] \in Operation /\ OperationOK(op[w], StoredCases) /\ now \in Nat
  BY CaseAssumption DEF IInv, TypeOK
<1>2. f \in StoredCases /\ f \in Case /\ v \in Severity
  BY <1>1 DEF OperationOK
<1>3. op[w].seen[f] \in Base /\ StampsAgree(op[w].seen[f])
  BY <1>2, SeenRow
<1>4. cases[f].base \in Base /\ StampsAgree(cases[f].base)
  BY <1>2, StoredRow
<1>5. b \in Base
  BY <1>2, <1>3, ConfirmedType
<1>6. ConfirmedColumns(cases[f].base, b) \in Base /\ StampsAgree(ConfirmedColumns(cases[f].base, b))
  BY <1>2, <1>3, <1>4, ConfirmedColumnsType
<1>7. BuildOperationalState(b, now) \in Derived
  BY <1>1, <1>5, DerivedType
<1> QED BY <1>2, <1>3, <1>5, <1>6, <1>7

\* A request that goes on to write the activity of a case is in order.
LEMMA LogTarget ==
    ASSUME IInv, NEW w \in Worker, op[w].task # "recalculate", NEW c \in Case
    PROVE  /\ ThenLog(op[w], c) \in Operation
           /\ OperationOK(ThenLog(op[w], c), StoredCases)
           /\ OperationOK(ThenLog(op[w], c), StoredCases \cup {c})
<1>1. op[w] \in Operation /\ OperationOK(op[w], StoredCases)
  BY DEF IInv, TypeOK
<1>2. ThenLog(op[w], c) \in Operation /\ OperationOK(ThenLog(op[w], c), StoredCases)
  BY <1>1, ThenLogType, ThenLogOK
<1> QED BY <1>2, OperationOKGrows

\* updateException keeps the invariant when it writes the row.
LEMMA InvCommitUpdate ==
    ASSUME IInv, NEW w \in Worker, CommitUpdate(w)
    PROVE  IInv'
<1> DEFINE c == op[w].cur
           p == op[w].arg
           b == ApplyPayload(op[w].seen[c], p)
           until == IF p.status = "open" THEN NoTime
                    ELSE IF p.status = "silenced" THEN now + SilenceTicks
                    ELSE cases[c].silencedUntil
           row == [base |-> NamedColumns(cases[c].base, b, p),
                   derived |-> DerivedColumns(c, b, p), silencedUntil |-> until]
<1>1. op[w].task = "update" /\ op[w].phase = "write" /\ Write(w, c, row, op[w].seen[c])
      /\ op' = [op EXCEPT ![w] = ThenLog(op[w], c)] /\ UNCHANGED <<now, faults>>
  BY DEF CommitUpdate
<1>2. /\ c \in StoredCases /\ c \in Case
      /\ NamedColumns(cases[c].base, b, p) \in Base
      /\ StampsAgree(NamedColumns(cases[c].base, b, p))
      /\ DerivedColumns(c, b, p) \in Derived
  BY <1>1, UpdatedRowType DEF DerivedColumns
<1>3. cases[c].silencedUntil \in Nat \cup {NoTime} /\ now + SilenceTicks \in Nat
  BY <1>2, StoredRow, CaseAssumption DEF IInv, TypeOK, Row
<1>4. until \in Nat \cup {NoTime}
  BY <1>3
<1>5. row \in Row /\ StampsAgree(row.base)
  BY <1>2, <1>4 DEF Row
<1> HIDE DEF row, c
<1>6. TypeOK
  BY DEF IInv
<1>7. cases' = [cases EXCEPT ![c] = row] /\ raced' \subseteq Case /\ owed' \subseteq Worker \X Case
  BY <1>1, <1>2, <1>6, WriteEffect
<1>8. ThenLog(op[w], c) \in Operation /\ OperationOK(ThenLog(op[w], c), StoredCases \cup {c})
  BY <1>1, <1>2, LogTarget
<1> QED BY <1>1, <1>2, <1>5, <1>7, <1>8, RowStep

\* upsertFromAutomation keeps it when it confirms a case.
LEMMA InvConfirmHit ==
    ASSUME IInv, NEW w \in Worker, ConfirmHit(w)
    PROVE  IInv'
<1> DEFINE f == op[w].cur
           b == Confirmed(op[w].seen[f], op[w].arg.severity)
           until == IF b.status = "open" THEN NoTime ELSE cases[f].silencedUntil
           row == [base |-> ConfirmedColumns(cases[f].base, b),
                   derived |-> BuildOperationalState(b, now), silencedUntil |-> until]
<1>1. op[w].task = "upsert" /\ op[w].phase = "write" /\ op[w].seen[f] # NoCase
      /\ Write(w, f, row, op[w].seen[f])
      /\ op' = [op EXCEPT ![w] = ThenLog(op[w], f)] /\ UNCHANGED <<now, faults>>
  BY DEF ConfirmHit
<1>2. /\ f \in StoredCases /\ f \in Case
      /\ ConfirmedColumns(cases[f].base, b) \in Base
      /\ StampsAgree(ConfirmedColumns(cases[f].base, b))
      /\ BuildOperationalState(b, now) \in Derived
  BY <1>1, ConfirmedRowType
<1>3. until \in Nat \cup {NoTime}
  BY <1>2, StoredRow DEF Row
<1>4. row \in Row /\ StampsAgree(row.base)
  BY <1>2, <1>3 DEF Row
<1> HIDE DEF row, f
<1>5. TypeOK
  BY DEF IInv
<1>6. cases' = [cases EXCEPT ![f] = row] /\ raced' \subseteq Case /\ owed' \subseteq Worker \X Case
  BY <1>1, <1>2, <1>5, WriteEffect
<1>7. ThenLog(op[w], f) \in Operation /\ OperationOK(ThenLog(op[w], f), StoredCases \cup {f})
  BY <1>1, <1>2, LogTarget
<1> QED BY <1>1, <1>2, <1>4, <1>6, <1>7, RowStep
\* And when it inserts one.
LEMMA InvInsertHit ==
    ASSUME IInv, NEW w \in Worker, InsertHit(w)
    PROVE  IInv'
<1> DEFINE f == op[w].cur
           b == [severity |-> op[w].arg.severity, status |-> "open", createdAt |-> now,
                 acknowledgedAt |-> FALSE, resolvedAt |-> FALSE, assigneeUserId |-> FALSE]
<1>1. op[w].task = "upsert" /\ op[w].phase = "write" /\ Write(w, f, NewRow(b), NoCase)
      /\ op' = [op EXCEPT ![w] = ThenLog(op[w], f)] /\ UNCHANGED <<now, faults>>
  BY DEF InsertHit
<1>2. op[w].arg.severity \in Severity /\ f \in Case /\ now \in Nat
  BY <1>1, CaseAssumption DEF IInv, TypeOK, OperationOK
<1>3. b \in Base /\ StampsAgree(b)
  BY <1>2 DEF Base, Status, OpenStatuses, StampsAgree
<1> HIDE DEF b, f
<1>4. NewRow(b) \in Row /\ NewRow(b).base = b
  BY <1>2, <1>3, NewRowType
<1>5. TypeOK
  BY DEF IInv
<1>6. /\ cases' = [cases EXCEPT ![f] = NewRow(b)]
      /\ raced' \subseteq Case /\ owed' \subseteq Worker \X Case
  BY <1>1, <1>2, <1>5, WriteEffect
<1>7. ThenLog(op[w], f) \in Operation /\ OperationOK(ThenLog(op[w], f), StoredCases \cup {f})
  BY <1>1, <1>2, LogTarget
<1> QED BY <1>1, <1>2, <1>3, <1>4, <1>6, <1>7, RowStep

\* recalculateSlaPolicies keeps it with each case it writes.
LEMMA InvRecalculateCase ==
    ASSUME IInv, NEW w \in Worker, NEW c \in Case, RecalculateCase(w, c)
    PROVE  IInv'
<1> DEFINE o == [op[w] EXCEPT !.rest = op[w].rest \ {c}]
           d == BuildOperationalState(op[w].seen[c], now)
           row == [cases[c] EXCEPT !.derived = d]
<1>1. op[w].task = "recalculate" /\ c \in op[w].rest /\ Write(w, c, row, op[w].seen[c])
      /\ op' = [op EXCEPT ![w] = Continue(o)] /\ UNCHANGED <<now, faults>>
  BY DEF RecalculateCase
<1>2. op[w] \in Operation /\ OperationOK(op[w], StoredCases) /\ now \in Nat
  BY CaseAssumption DEF IInv, TypeOK
<1>3. c \in StoredCases /\ op[w].seen[c] \in Base
  BY <1>1, <1>2, SeenRow DEF OperationOK
<1>4. d \in Derived
  BY <1>2, <1>3, DerivedType
<1> HIDE DEF d
<1>5. row \in Row /\ StampsAgree(row.base)
  BY <1>3, <1>4, StoredRow DEF Row
<1>6. o \in Operation /\ OperationOK(o, StoredCases)
  BY <1>2 DEF Operation, OperationOK
<1> HIDE DEF o, row
<1>7. Continue(o) \in Operation /\ OperationOK(Continue(o), StoredCases)
  BY <1>6, ContinueType, ContinueOK
<1>8. Continue(o) \in Operation /\ OperationOK(Continue(o), StoredCases \cup {c})
  BY <1>7, OperationOKGrows
<1>9. TypeOK
  BY DEF IInv
<1>10. cases' = [cases EXCEPT ![c] = row] /\ raced' \subseteq Case /\ owed' \subseteq Worker \X Case
  BY <1>1, <1>9, WriteEffect
<1> QED BY <1>1, <1>5, <1>8, <1>10, RowStep

\* The row a recovery writes is a row, with its stamps in order.
LEMMA RecoveredRowType ==
    ASSUME NEW row \in Row
    PROVE  RecoveredRow(row) \in Row /\ StampsAgree(RecoveredRow(row).base)
<1>1. [row.base EXCEPT !.status = "resolved", !.resolvedAt = TRUE] \in Base
  BY DEF Row, Base, Status
<1>2. [row.derived EXCEPT !.triageStatus = "closed", !.breachedAt = FALSE] \in Derived
  BY DEF Row, Derived, Triage
<1>3. StampsAgree([row.base EXCEPT !.status = "resolved", !.resolvedAt = TRUE])
  BY DEF Row, Base, StampsAgree
<1> QED BY <1>1, <1>2, <1>3 DEF RecoveredRow, Row, NoTime

\* resolveRecovered keeps it with each case it closes.
LEMMA InvResolveCase ==
    ASSUME IInv, NEW w \in Worker, NEW c \in Case, ResolveCase(w, c)
    PROVE  IInv'
<1> DEFINE o == [op[w] EXCEPT !.rest = op[w].rest \ {c}]
           row == RecoveredRow(cases[c])
<1>1. op[w].task = "resolve" /\ c \in op[w].rest /\ cases' = [cases EXCEPT ![c] = row]
      /\ op' = [op EXCEPT ![w] = ThenLog(o, c)] /\ UNCHANGED <<now, faults, raced>>
  BY DEF ResolveCase
<1>2. op[w] \in Operation /\ OperationOK(op[w], StoredCases)
      /\ raced \subseteq Case /\ owed \subseteq Worker \X Case
  BY DEF IInv, TypeOK
<1>3. c \in StoredCases
  BY <1>1, <1>2 DEF OperationOK
<1>4. row \in Row /\ StampsAgree(row.base)
  BY <1>3, StoredRow, RecoveredRowType
<1>5. o \in Operation /\ OperationOK(o, StoredCases) /\ o.task # "recalculate"
  BY <1>1, <1>2 DEF Operation, OperationOK
<1> HIDE DEF o, row
<1>6. ThenLog(o, c) \in Operation /\ OperationOK(ThenLog(o, c), StoredCases)
  BY <1>5, ThenLogType, ThenLogOK
<1>7. OperationOK(ThenLog(o, c), StoredCases \cup {c})
  BY <1>6, OperationOKGrows
<1>8. raced' \subseteq Case /\ owed' \subseteq Worker \X Case
  BY <1>1, <1>2 DEF ResolveCase
<1> QED BY <1>1, <1>4, <1>6, <1>7, <1>8, RowStep

\* A step that only moves one request on keeps it.
LEMMA InvProceed ==
    ASSUME IInv, NEW w \in Worker, Proceed(w)
    PROVE  IInv'
<1>1. op[w] \in Operation /\ OperationOK(op[w], StoredCases) /\ owed \subseteq Worker \X Case
  BY DEF IInv, TypeOK
<1>2. ASSUME NEW c \in Case, ReadCase(w, c) PROVE IInv'
  <2> DEFINE read == [NothingSeen EXCEPT ![c] = cases[c].base]
             o == [op[w] EXCEPT !.phase = "write", !.cur = c, !.rest = op[w].rest \ {c},
                                !.seen = read]
  <2>1. op[w].task = "update" /\ c \in op[w].rest /\ op' = [op EXCEPT ![w] = o]
    BY <1>2, <1>1 DEF ReadCase, IInv, TypeOK
  <2>2. c \in StoredCases
    BY <2>1, <1>1 DEF OperationOK
  <2>3. /\ cases[c].base \in Base /\ cases[c].base # NoCase /\ StampsAgree(cases[c].base)
        /\ read \in [Case -> Base \cup {NoCase}]
        /\ read[c] = cases[c].base
        /\ \A e \in Case : read[e] # NoCase => e = c
    BY <2>2, StoredRow, CaseAssumption DEF NothingSeen
  <2> HIDE DEF read
  <2>4. o \in Operation
    BY <1>1, <2>3 DEF Operation
  <2>5. OperationOK(o, StoredCases)
    BY <1>1, <2>1, <2>2, <2>3 DEF Operation, OperationOK
  <2> QED BY <1>1, <1>2, <2>1, <2>4, <2>5, OperationStep DEF ReadCase
<1>3. ASSUME InsertRefused(w) PROVE IInv'
  BY <1>1, <1>3, IdleType, IdleOK, OperationStep DEF InsertRefused
<1>4. ASSUME LogActivity(w) PROVE IInv'
  <2>1. Continue(op[w]) \in Operation /\ OperationOK(Continue(op[w]), StoredCases)
    BY <1>1, ContinueType, ContinueOK
  <2>2. owed' \subseteq Worker \X Case
    BY <1>1, <1>4 DEF LogActivity
  <2>3. op' = [op EXCEPT ![w] = Continue(op[w])] /\ UNCHANGED <<cases, now, faults, raced>>
    BY <1>4 DEF LogActivity
  <2> QED BY <2>1, <2>2, <2>3, OperationStep
<1> QED BY <1>2, <1>3, <1>4, InvCommitUpdate, InvInsertHit, InvConfirmHit,
           InvRecalculateCase, InvResolveCase DEF Proceed

\* Every step keeps the invariant.
LEMMA InvNext == IInv /\ [Next]_vars => IInv'
<1> SUFFICES ASSUME IInv, [Next]_vars PROVE IInv'
  OBVIOUS
<1>1. ASSUME Tick PROVE IInv'
  <2>1. TypeOK'
    BY <1>1, CaseAssumption DEF Tick, IInv, TypeOK
  <2> QED BY <1>1, <2>1 DEF Tick, IInv, StampsFollowStatus, StoredCases, Stored
<1>2. ASSUME Crash PROVE IInv'
  <2>1. TypeOK'
    BY <1>2, CaseAssumption, IdleType DEF Crash, IInv, TypeOK
  <2>2. \A w \in Worker : OperationOK(op'[w], StoredCases')
    BY <1>2, IdleOK DEF Crash
  <2> QED BY <1>2, <2>1, <2>2 DEF Crash, IInv, StampsFollowStatus, StoredCases, Stored
<1>4. ASSUME NEW w \in Worker, Fail(w) PROVE IInv'
  <2>1. faults' \in 0..MaxFaults /\ op' = [op EXCEPT ![w] = Idle]
        /\ UNCHANGED <<cases, now, raced, owed>>
    BY <1>4, CaseAssumption DEF Fail, IInv, TypeOK
  <2>2. TypeOK'
    BY <2>1, IdleType DEF IInv, TypeOK
  <2>3. \A v \in Worker : OperationOK(op'[v], StoredCases')
    BY <2>1, IdleOK DEF IInv, TypeOK, StoredCases, Stored
  <2> QED BY <2>1, <2>2, <2>3 DEF IInv, StampsFollowStatus, StoredCases, Stored
<1>3. CASE UNCHANGED vars
  <2>1. TypeOK'
    BY <1>3 DEF vars, IInv, TypeOK
  <2> QED BY <1>3, <2>1 DEF vars, IInv, StampsFollowStatus, StoredCases, Stored
<1> QED BY <1>1, <1>2, <1>3, <1>4, InvOperator, InvAutomation, InvProceed DEF Next

\* Every variable keeps its type: in particular a stored score stays in 0..100.
THEOREM TypeCorrect == Spec => []TypeOK
<1>1. IInv => TypeOK
  BY DEF IInv
<1> QED BY <1>1, InvInit, InvNext, PTL DEF Spec

\* The stamps of a case agree with its status under every interleaving of
\* updateException, upsertFromAutomation, resolveRecovered and the recalculation.
THEOREM StampsCorrect == Spec => []StampsFollowStatus
<1>1. IInv => StampsFollowStatus
  BY DEF IInv
<1> QED BY <1>1, InvInit, InvNext, PTL DEF Spec
-----------------------------------------------------------------------------
\* What the queue shows

\* Columns derived now agree with the case they are derived from.
LEMMA FreshIsCoherent ==
    ASSUME NEW b \in Base, NEW t \in Nat, NEW until
    PROVE  CoherentAt([base |-> b, derived |-> BuildOperationalState(b, t),
                       silencedUntil |-> until], t)
<1> DEFINE d == BuildOperationalState(b, t)
<1>1. /\ d.slaSeverity = b.severity /\ d.triageStatus = TriageStatus(b)
      /\ d.breachedAt = Breached(b, t)
      /\ d.priorityScore = ComputePriorityScore(b.severity, TriageStatus(b),
                                                b.assigneeUserId, Breached(b, t))
  BY DEF BuildOperationalState
<1>2. TriageStatus(b) = "closed" <=> b.status = "resolved"
  BY DEF TriageStatus
<1>3. TriageStatus(b) = "pending" <=> /\ b.status # "resolved"
                                     /\ ~b.acknowledgedAt /\ ~b.assigneeUserId
  BY DEF TriageStatus
<1>4. Breached(b, t) => b.status \in OpenStatuses /\ Overdue(b, t)
  BY DEF Breached
<1> HIDE DEF d
<1> QED BY <1>1, <1>2, <1>3, <1>4 DEF CoherentAt, d

\* A row that agrees with its columns still does as time passes.
LEMMA CoherentLater ==
    ASSUME NEW row \in Row, NEW t \in Nat, NEW u \in Nat, t <= u, CoherentAt(row, t)
    PROVE  CoherentAt(row, u)
<1>1. row.base \in Base
  BY DEF Row
<1>2. Overdue(row.base, t) => Overdue(row.base, u)
  BY <1>1, OverdueMonotone
<1> QED BY <1>2 DEF CoherentAt

\* A recovered case agrees with its columns.
LEMMA RecoveredIsCoherent ==
    ASSUME NEW row \in Row, NEW t \in Nat, CoherentAt(row, t)
    PROVE  CoherentAt(RecoveredRow(row), t)
<1> DEFINE b == [row.base EXCEPT !.status = "resolved", !.resolvedAt = TRUE]
           d == [row.derived EXCEPT !.triageStatus = "closed", !.breachedAt = FALSE]
<1>1. b.status = "resolved" /\ b.severity = row.base.severity
  BY DEF Row, Base
<1>2. d.triageStatus = "closed" /\ d.breachedAt = FALSE
      /\ d.slaSeverity = row.derived.slaSeverity
  BY DEF Row, Derived
<1>3. row.derived.slaSeverity = row.base.severity
  BY DEF CoherentAt
<1>4. RecoveredRow(row).base = b /\ RecoveredRow(row).derived = d
  BY DEF RecoveredRow
<1> HIDE DEF b, d
<1> QED BY <1>1, <1>2, <1>3, <1>4 DEF CoherentAt

\* A write computed from an up-to-date read keeps the promise; any other marks
\* the case as raced.
LEMMA WriteKeepsQueue ==
    ASSUME IInv, QueueShowsTheCase, NEW w \in Worker, NEW c \in Case, NEW row, NEW read,
           Write(w, c, row, read), UpToDate(c, read) => CoherentAt(row, now), now' = now
    PROVE  QueueShowsTheCase'
<1> SUFFICES ASSUME NEW e \in StoredCases' \ raced' PROVE CoherentAt(cases'[e], now')
  BY DEF QueueShowsTheCase
<1>1. cases' = [cases EXCEPT ![c] = row] /\ cases \in [Case -> Row \cup {NoCase}]
      /\ raced' = IF UpToDate(c, read) THEN raced \ {c} ELSE raced \cup {c}
  BY DEF Write, IInv, TypeOK
<1>2. e \in Case /\ cases'[e] # NoCase /\ e \notin raced'
  BY DEF StoredCases, Stored
<1>3. CASE e = c
  <2>1. UpToDate(c, read) /\ cases'[e] = row
    BY <1>1, <1>2, <1>3
  <2> QED BY <2>1
<1>4. CASE e # c
  <2>1. cases'[e] = cases[e] /\ e \in StoredCases \ raced
    BY <1>1, <1>2, <1>4 DEF StoredCases, Stored
  <2> QED BY <2>1 DEF QueueShowsTheCase
<1> QED BY <1>3, <1>4

\* A step that writes no case disturbs no agreement.
LEMMA QueueProceed ==
    ASSUME IInv, QueueShowsTheCase, NEW w \in Worker, Proceed(w)
    PROVE  QueueShowsTheCase'
<1>1. now \in Nat /\ op[w] \in Operation /\ OperationOK(op[w], StoredCases)
  BY CaseAssumption DEF IInv, TypeOK
<1>2. ASSUME NEW c \in Case, RecalculateCase(w, c) PROVE QueueShowsTheCase'
  <2> DEFINE seen == op[w].seen[c]
             row == [cases[c] EXCEPT !.derived = BuildOperationalState(seen, now)]
  <2>1. Write(w, c, row, seen) /\ now' = now /\ c \in op[w].rest
    BY <1>2 DEF RecalculateCase
  <2>2. c \in StoredCases
    BY <1>1, <2>1 DEF OperationOK
  <2>3. cases[c] \in Row /\ cases[c].base \in Base
    BY <2>2, StoredRow
  <2>4. ASSUME UpToDate(c, seen) PROVE CoherentAt(row, now)
    <3>1. seen = cases[c].base
      BY <2>2, <2>4 DEF UpToDate, StoredCases
    <3>2. row = [base |-> cases[c].base,
                 derived |-> BuildOperationalState(cases[c].base, now),
                 silencedUntil |-> cases[c].silencedUntil]
      BY <2>3, <3>1 DEF Row
    <3> HIDE DEF row
    <3> QED BY <1>1, <2>3, <3>2, FreshIsCoherent
  <2> HIDE DEF row, seen
  <2> QED BY <2>1, <2>4, WriteKeepsQueue
<1>3. ASSUME NEW c \in Case, ResolveCase(w, c) PROVE QueueShowsTheCase'
  <2>1. cases' = [cases EXCEPT ![c] = RecoveredRow(cases[c])] /\ raced' = raced /\ now' = now
        /\ c \in op[w].rest
    BY <1>3 DEF ResolveCase
  <2>2. c \in StoredCases /\ cases[c] \in Row /\ cases \in [Case -> Row \cup {NoCase}]
    BY <1>1, <2>1, StoredRow DEF OperationOK, IInv, TypeOK
  <2> SUFFICES ASSUME NEW e \in StoredCases' \ raced' PROVE CoherentAt(cases'[e], now')
    BY DEF QueueShowsTheCase
  <2>3. e \in StoredCases \ raced
    BY <2>1, <2>2 DEF StoredCases, Stored
  <2>4. CoherentAt(cases[e], now)
    BY <2>3 DEF QueueShowsTheCase
  <2>5. CASE e = c
    BY <1>1, <2>1, <2>2, <2>4, <2>5, RecoveredIsCoherent
  <2>6. CASE e # c
    BY <2>1, <2>2, <2>3, <2>4, <2>6 DEF StoredCases
  <2> QED BY <2>5, <2>6
<1>4. ASSUME CommitUpdate(w) PROVE QueueShowsTheCase'
  <2> DEFINE c == op[w].cur
             p == op[w].arg
             seen == op[w].seen[c]
             b == ApplyPayload(seen, p)
             until == IF p.status = "open" THEN NoTime
                      ELSE IF p.status = "silenced" THEN now + SilenceTicks
                      ELSE cases[c].silencedUntil
             row == [base |-> NamedColumns(cases[c].base, b, p),
                     derived |-> BuildOperationalState(b, now), silencedUntil |-> until]
  <2>1. op[w].task = "update" /\ op[w].phase = "write" /\ Write(w, c, row, seen) /\ now' = now
    BY <1>4 DEF CommitUpdate, DerivedColumns
  <2>2. c \in StoredCases /\ c \in Case /\ p \in PayloadSpace /\ seen \in Base /\ b \in Base
    BY <2>1, UpdatedRowType
  <2> HIDE DEF until
  <2>3. ASSUME UpToDate(c, seen) PROVE CoherentAt(row, now)
    <3>1. seen = cases[c].base
      BY <2>2, <2>3 DEF UpToDate, StoredCases
    <3>2. NamedColumns(cases[c].base, b, p) = b
      BY <2>2, <3>1, NamedColumnsOfOwnRead
    <3> HIDE DEF b
    <3> QED BY <1>1, <2>2, <3>2, FreshIsCoherent
  <2> HIDE DEF row, seen, c
  <2> QED BY <2>1, <2>2, <2>3, WriteKeepsQueue
<1>5. ASSUME ConfirmHit(w) PROVE QueueShowsTheCase'
  <2> DEFINE f == op[w].cur
             v == op[w].arg.severity
             seen == op[w].seen[f]
             b == Confirmed(seen, v)
             until == IF b.status = "open" THEN NoTime ELSE cases[f].silencedUntil
             row == [base |-> ConfirmedColumns(cases[f].base, b),
                     derived |-> BuildOperationalState(b, now), silencedUntil |-> until]
  <2>1. /\ op[w].task = "upsert" /\ op[w].phase = "write" /\ seen # NoCase
        /\ Write(w, f, row, seen) /\ now' = now
    BY <1>5 DEF ConfirmHit
  <2>2. f \in StoredCases /\ f \in Case /\ v \in Severity /\ seen \in Base /\ b \in Base
    BY <2>1, ConfirmedRowType
  <2> HIDE DEF until
  <2>3. ASSUME UpToDate(f, seen) PROVE CoherentAt(row, now)
    <3>1. seen = cases[f].base
      BY <2>2, <2>3 DEF UpToDate, StoredCases
    <3>2. ConfirmedColumns(cases[f].base, b) = b
      BY <2>2, <3>1, ConfirmedColumnsOfOwnRead
    <3> HIDE DEF b
    <3> QED BY <1>1, <2>2, <3>2, FreshIsCoherent
  <2> HIDE DEF row, seen, f
  <2> QED BY <2>1, <2>2, <2>3, WriteKeepsQueue
<1>6. ASSUME InsertHit(w) PROVE QueueShowsTheCase'
  <2> DEFINE f == op[w].cur
             b == [severity |-> op[w].arg.severity, status |-> "open", createdAt |-> now,
                   acknowledgedAt |-> FALSE, resolvedAt |-> FALSE, assigneeUserId |-> FALSE]
  <2>1. op[w].task = "upsert" /\ op[w].phase = "write" /\ Write(w, f, NewRow(b), NoCase)
        /\ now' = now
    BY <1>6 DEF InsertHit
  <2>2. op[w].arg.severity \in Severity /\ f \in Case
    BY <1>1, <2>1 DEF OperationOK
  <2>3. b \in Base
    BY <1>1, <2>2 DEF Base, Status, OpenStatuses
  <2> HIDE DEF b, f
  <2>4. CoherentAt(NewRow(b), now)
    BY <1>1, <2>3, FreshIsCoherent DEF NewRow
  <2> QED BY <2>1, <2>2, <2>4, WriteKeepsQueue
<1>7. ASSUME UNCHANGED <<cases, now, raced>> PROVE QueueShowsTheCase'
  BY <1>7 DEF QueueShowsTheCase, StoredCases, Stored
<1> QED BY <1>2, <1>3, <1>4, <1>5, <1>6, <1>7
        DEF Proceed, ReadCase, InsertRefused, LogActivity

\* Every step keeps the queue in agreement with the cases.
LEMMA QueueNext == IInv /\ QueueShowsTheCase /\ [Next]_vars => QueueShowsTheCase'
<1> SUFFICES ASSUME IInv, QueueShowsTheCase, [Next]_vars PROVE QueueShowsTheCase'
  OBVIOUS
<1>1. now \in Nat /\ now' \in Nat
  BY InvNext, CaseAssumption DEF IInv, TypeOK
<1>2. ASSUME UNCHANGED <<cases, now, raced>> PROVE QueueShowsTheCase'
  BY <1>2 DEF QueueShowsTheCase, StoredCases, Stored
<1>3. ASSUME NEW w \in Operator, NEW c \in Manual, NEW s \in Status, NEW v \in Severity,
             NEW a \in BOOLEAN, CreateException(w, c, s, v, a)
      PROVE  QueueShowsTheCase'
  <2> DEFINE b == [severity |-> v, status |-> s, createdAt |-> now,
                   acknowledgedAt |-> s = "acknowledged",
                   resolvedAt |-> s = "resolved", assigneeUserId |-> a]
  <2>1. Write(w, c, NewRow(b), NoCase) /\ now' = now
    BY <1>3 DEF CreateException
  <2>2. b \in Base /\ w \in Worker /\ c \in Case
    BY <1>1 DEF Base, Worker, Case
  <2> HIDE DEF b
  <2>3. CoherentAt(NewRow(b), now)
    BY <1>1, <2>2, FreshIsCoherent DEF NewRow
  <2> QED BY <2>1, <2>2, <2>3, WriteKeepsQueue
<1>4. ASSUME NEW w \in Operator, OperatorStarts(w) PROVE QueueShowsTheCase'
  BY <1>2, <1>3, <1>4 DEF OperatorStarts, StartUpdate, StartRecalculate
<1>5. ASSUME NEW w \in Automation, AutomationStarts(w) PROVE QueueShowsTheCase'
  BY <1>2, <1>5 DEF AutomationStarts, StartUpsert, ListRecovered
<1>6. ASSUME Tick PROVE QueueShowsTheCase'
  <2>1. cases' = cases /\ raced' = raced /\ now <= now'
    BY <1>1, <1>6 DEF Tick
  <2> SUFFICES ASSUME NEW e \in StoredCases' \ raced' PROVE CoherentAt(cases'[e], now')
    BY DEF QueueShowsTheCase
  <2>2. e \in StoredCases \ raced /\ cases'[e] = cases[e]
    BY <2>1 DEF StoredCases, Stored
  <2>3. CoherentAt(cases[e], now) /\ cases[e] \in Row
    BY <2>2, StoredRow DEF QueueShowsTheCase
  <2> QED BY <1>1, <2>1, <2>2, <2>3, CoherentLater
<1>7. ASSUME Crash \/ (\E w \in Worker : Fail(w)) PROVE QueueShowsTheCase'
  BY <1>2, <1>7 DEF Crash, Fail
<1>8. CASE UNCHANGED vars
  BY <1>2, <1>8 DEF vars
<1> QED BY <1>4, <1>5, <1>6, <1>7, <1>8, QueueProceed DEF Next

\* The queue shows every case as its own fields call for, for any number of
\* handlers, as long as the case was not last written from an outdated read:
\* each of the five write paths recomputes the derived columns it must.
THEOREM QueueCorrect == Spec => []QueueShowsTheCase
<1>1. Init => QueueShowsTheCase
  BY DEF Init, QueueShowsTheCase, StoredCases, Stored
<1> QED BY <1>1, InvInit, InvNext, QueueNext, PTL DEF Spec

-----------------------------------------------------------------------------
\* Activities

\* A handler that changes a status writes activities, and a recalculation changes none.
LogsOK(o) ==
    /\ o.task \in {"update", "upsert", "resolve", "create"} => o.logs
    /\ o.phase = "log" => o.task # "recalculate"
    /\ o.phase \in {"write", "log"} => o.task # "none"

LogInv ==
    /\ TransitionsAreLogged
    /\ \A w \in Worker : LogsOK(op[w])

\* After writing a case, a handler that logs is about to write its activity.
LEMMA LogsThen ==
    ASSUME NEW o \in Operation, NEW c \in Case, LogsOK(o), o.logs, o.task # "recalculate", o.task # "none"
    PROVE  /\ ThenLog(o, c).phase = "log" /\ ThenLog(o, c).cur = c
           /\ LogsOK(ThenLog(o, c))
BY DEF ThenLog, LogsOK, Operation

\* A handler that goes on owes no activity for the case it leaves.
LEMMA LogsContinue ==
    ASSUME NEW o \in Operation, LogsOK(o)
    PROVE  LogsOK(Continue(o)) /\ Continue(o).phase # "log"
BY DEF Continue, LogsOK, Operation, Idle

\* A worker that owes nothing yet goes to the log for the case it has just written.
LEMMA OwesItsCase ==
    ASSUME IInv, LogInv, NEW w \in Worker, NEW c \in Case, NEW o \in Operation, op[w].phase # "log",
           op' = [op EXCEPT ![w] = o], o.phase = "log", o.cur = c, LogsOK(o),
           owed' \subseteq owed \cup {<<w, c>>}
    PROVE  LogInv'
<1>1. \A v \in Worker : op'[v] = IF v = w THEN o ELSE op[v]
  BY DEF IInv, TypeOK
<1>2. owed \subseteq Worker \X Case
  BY DEF IInv, TypeOK
<1>3. TransitionsAreLogged'
  <2> SUFFICES ASSUME NEW e \in owed' PROVE op'[e[1]].phase = "log" /\ op'[e[1]].cur = e[2]
    BY DEF TransitionsAreLogged
  <2>1. CASE e = <<w, c>>
    BY <1>1, <2>1
  <2>2. CASE e \in owed
    <3>1. e[1] \in Worker /\ op[e[1]].phase = "log" /\ op[e[1]].cur = e[2]
      BY <1>2, <2>2 DEF LogInv, TransitionsAreLogged
    <3> QED BY <1>1, <3>1
  <2> QED BY <2>1, <2>2
<1>4. \A v \in Worker : LogsOK(op'[v])
  BY <1>1 DEF LogInv
<1> QED BY <1>3, <1>4 DEF LogInv

\* A worker that owes nothing goes on.
LEMMA OwesNothing ==
    ASSUME IInv, LogInv, NEW w \in Worker, NEW o \in Operation, op[w].phase # "log",
           op' = [op EXCEPT ![w] = o], LogsOK(o), owed' = owed
    PROVE  LogInv'
<1>1. \A v \in Worker : op'[v] = IF v = w THEN o ELSE op[v]
  BY DEF IInv, TypeOK
<1>2. owed \subseteq Worker \X Case
  BY DEF IInv, TypeOK
<1>3. TransitionsAreLogged'
  BY <1>1, <1>2 DEF LogInv, TransitionsAreLogged
<1>4. \A v \in Worker : LogsOK(op'[v])
  BY <1>1 DEF LogInv
<1> QED BY <1>3, <1>4 DEF LogInv

\* A request or a run starts owing nothing, except for the case it creates.
LEMMA LogStarts ==
    ASSUME IInv, LogInv, CreateActivities \subseteq {TRUE}, NEW w \in Worker,
           OperatorStarts(w) \/ AutomationStarts(w)
    PROVE  LogInv'
<1>1. op[w].phase # "log" \/ ~IsIdle(w)
  BY DEF IsIdle
<1>0. op \in [Worker -> Operation]
  BY DEF IInv, TypeOK
<1>2. ASSUME NEW c \in Manual, NEW s \in Status, NEW v \in Severity, NEW a \in BOOLEAN,
             CreateException(w, c, s, v, a)
      PROVE  LogInv'
  <2> DEFINE o == [Idle EXCEPT !.task = "create", !.logs = TRUE]
  <2>1. o \in Operation /\ LogsOK(o) /\ o.logs /\ o.task = "create"
    BY IdleType DEF Operation, LogsOK, Idle
  <2>2. c \in Case
    BY DEF Case
  <2> HIDE DEF o
  <2>3. op' = [op EXCEPT ![w] = ThenLog(o, c)] /\ owed' \subseteq owed \cup {<<w, c>>} /\ op[w].phase = "idle"
    BY <1>2 DEF CreateException, Write, o, IsIdle
  <2> QED BY <2>1, <2>2, <2>3, LogsThen, ThenLogType, OwesItsCase
<1>3. ASSUME NEW o \in Operation, LogsOK(o), op' = [op EXCEPT ![w] = o], owed' = owed, IsIdle(w)
      PROVE  LogInv'
  BY <1>1, <1>3, OwesNothing
<1>4. ASSUME NEW ids \in SUBSET Case, NEW p \in Payload, StartUpdate(w, ids, p) PROVE LogInv'
  <2> DEFINE o == [Idle EXCEPT !.task = "update", !.phase = "next", !.rest = ids, !.arg = p, !.logs = TRUE]
  <2>1. o \in Operation /\ LogsOK(o)
    BY IdleType, CaseAssumption DEF Operation, LogsOK, Idle
  <2> QED BY <1>3, <1>4, <2>1 DEF StartUpdate
<1>5. CASE StartRecalculate(w)
  <2> DEFINE seen == [c \in Case |-> IF Stored(c) THEN cases[c].base ELSE NoCase]
             o == [Idle EXCEPT !.task = "recalculate", !.phase = "next", !.rest = StoredCases, !.seen = seen]
  <2>1. op' = [op EXCEPT ![w] = o] /\ owed' = owed /\ IsIdle(w)
    BY <1>5 DEF StartRecalculate
  <2>2. \A c \in Case : Stored(c) => cases[c].base \in Base
    BY StoredRow DEF StoredCases
  <2>3. seen \in [Case -> Base \cup {NoCase}] /\ StoredCases \in SUBSET Case
    BY <2>2 DEF StoredCases
  <2> HIDE DEF seen
  <2>4. o \in Operation /\ LogsOK(o)
    BY <2>3, IdleType DEF Operation, LogsOK, Idle
  <2> QED BY <1>3, <2>1, <2>4
<1>6. ASSUME NEW f \in Fingerprint, NEW v \in Severity, NEW l \in CreateActivities, StartUpsert(w, f, v, l)
      PROVE  LogInv'
  <2> DEFINE seen == [NothingSeen EXCEPT ![f] = FindByFingerprint(f)]
             arg == [NoPayload EXCEPT !.severity = v]
             o == [Idle EXCEPT !.task = "upsert", !.phase = "write", !.cur = f, !.seen = seen, !.arg = arg,
                               !.logs = l]
  <2>1. op' = [op EXCEPT ![w] = o] /\ owed' = owed /\ IsIdle(w)
    BY <1>6 DEF StartUpsert
  <2>2. f \in Case /\ l = TRUE
    BY DEF Case
  <2>3. FindByFingerprint(f) \in Base \cup {NoCase}
    BY <2>2, StoredRow DEF FindByFingerprint, StoredCases
  <2>4. seen \in [Case -> Base \cup {NoCase}] /\ arg \in PayloadSpace
    BY <2>3 DEF NothingSeen, NoPayload, PayloadSpace, Keep
  <2> HIDE DEF seen, arg
  <2>5. o \in Operation /\ LogsOK(o)
    BY <2>2, <2>4, IdleType DEF Operation, LogsOK, Idle
  <2> QED BY <1>3, <2>1, <2>5
<1>7. ASSUME NEW r \in Rule, NEW hits \in SUBSET Fingerprint, NEW l \in CreateActivities,
             ListRecovered(w, r, hits, l)
      PROVE  LogInv'
  <2> DEFINE o == [Idle EXCEPT !.task = "resolve", !.phase = "next", !.rest = Recovered(r, hits), !.logs = l]
  <2>1. op' = [op EXCEPT ![w] = o] /\ owed' = owed /\ IsIdle(w)
    BY <1>7 DEF ListRecovered
  <2>2. Recovered(r, hits) \in SUBSET Case /\ l = TRUE
    BY DEF Recovered, Case
  <2>3. o \in Operation /\ LogsOK(o)
    BY <2>2, IdleType DEF Operation, LogsOK, Idle
  <2> QED BY <1>3, <2>1, <2>3
<1> QED BY <1>2, <1>4, <1>5, <1>6, <1>7 DEF OperatorStarts, AutomationStarts

\* A handler that has begun owes what it has just written, and nothing else.
LEMMA LogProceeds ==
    ASSUME IInv, LogInv, NEW w \in Worker, Proceed(w)
    PROVE  LogInv'
<1>0. /\ op \in [Worker -> Operation] /\ op[w] \in Operation /\ LogsOK(op[w])
      /\ OperationOK(op[w], StoredCases)
  BY DEF IInv, TypeOK, LogInv
<1>1. ASSUME NEW c \in Case, op[w].phase = "write", op[w].task \in {"update", "upsert"},
             op' = [op EXCEPT ![w] = ThenLog(op[w], c)], owed' \subseteq owed \cup {<<w, c>>}
      PROVE  LogInv'
  <2>1. op[w].logs /\ op[w].phase # "log"
    BY <1>0, <1>1 DEF LogsOK
  <2> QED BY <1>0, <1>1, <2>1, LogsThen, ThenLogType, OwesItsCase
<1>2. CASE CommitUpdate(w) \/ InsertHit(w) \/ ConfirmHit(w)
  <2>1. op[w].phase = "write" /\ op[w].task \in {"update", "upsert"}
    BY <1>2 DEF CommitUpdate, InsertHit, ConfirmHit
  <2>2. op[w].cur \in Case
    BY <1>0, <2>1 DEF OperationOK
  <2>3. /\ op' = [op EXCEPT ![w] = ThenLog(op[w], op[w].cur)]
        /\ owed' \subseteq owed \cup {<<w, op[w].cur>>}
    BY <1>0, <1>2 DEF CommitUpdate, InsertHit, ConfirmHit, Write
  <2> QED BY <1>1, <2>1, <2>2, <2>3
<1>3. ASSUME NEW c \in Case, ResolveCase(w, c) PROVE LogInv'
  <2> DEFINE o == [op[w] EXCEPT !.rest = op[w].rest \ {c}]
  <2>1. /\ op[w].task = "resolve" /\ op[w].phase = "next" /\ op[w].logs
        /\ op' = [op EXCEPT ![w] = ThenLog(o, c)] /\ owed' \subseteq owed \cup {<<w, c>>}
    BY <1>0, <1>3 DEF ResolveCase, LogsOK
  <2>2. /\ o \in Operation /\ LogsOK(o) /\ o.logs /\ o.task = "resolve"
    BY <1>0, <2>1 DEF Operation, LogsOK
  <2> HIDE DEF o
  <2> QED BY <2>1, <2>2, LogsThen, ThenLogType, OwesItsCase
<1>4. ASSUME NEW c \in Case, RecalculateCase(w, c) PROVE LogInv'
  <2> DEFINE o == [op[w] EXCEPT !.rest = op[w].rest \ {c}]
  <2>1. op[w].task = "recalculate" /\ c \in op[w].rest /\ op' = [op EXCEPT ![w] = Continue(o)]
    BY <1>0, <1>4 DEF RecalculateCase
  <2>2. c \in StoredCases /\ cases[c] \in Row
    BY <1>0, <2>1, StoredRow DEF OperationOK
  <2>3. owed' = owed
    BY <1>4, <2>2 DEF RecalculateCase, Write, StoredCases, Row
  <2>4. o \in Operation /\ LogsOK(o) /\ op[w].phase # "log"
    BY <1>0, <2>1 DEF Operation, LogsOK
  <2> HIDE DEF o
  <2> QED BY <2>1, <2>3, <2>4, LogsContinue, ContinueType, OwesNothing
<1>5. ASSUME NEW c \in Case, ReadCase(w, c) PROVE LogInv'
  <2> DEFINE seen == [NothingSeen EXCEPT ![c] = cases[c].base]
             o == [op[w] EXCEPT !.phase = "write", !.cur = c, !.rest = op[w].rest \ {c}, !.seen = seen]
  <2>1. /\ op[w].task = "update" /\ op[w].phase = "next" /\ c \in op[w].rest
        /\ op' = [op EXCEPT ![w] = o] /\ owed' = owed
    BY <1>0, <1>5 DEF ReadCase
  <2>2. cases[c].base \in Base
    BY <1>0, <2>1, StoredRow DEF OperationOK
  <2>3. seen \in [Case -> Base \cup {NoCase}]
    BY <2>2 DEF NothingSeen
  <2> HIDE DEF seen
  <2>4. o \in Operation /\ LogsOK(o)
    BY <1>0, <2>1, <2>3 DEF Operation, LogsOK
  <2> QED BY <2>1, <2>4, OwesNothing
<1>6. CASE InsertRefused(w)
  <2>1. op[w].phase = "write" /\ op' = [op EXCEPT ![w] = Idle] /\ owed' = owed
    BY <1>6 DEF InsertRefused
  <2>2. LogsOK(Idle)
    BY DEF LogsOK, Idle
  <2> QED BY <2>1, <2>2, IdleType, OwesNothing
<1>7. CASE LogActivity(w)
  <2>1. /\ op[w].phase = "log" /\ op' = [op EXCEPT ![w] = Continue(op[w])]
        /\ owed' = owed \ {<<w, op[w].cur>>}
    BY <1>0, <1>7 DEF LogActivity
  <2>2. \A v \in Worker : op'[v] = IF v = w THEN Continue(op[w]) ELSE op[v]
    BY <1>0, <2>1
  <2>3. \A v \in Worker : LogsOK(op'[v])
    BY <1>0, <2>2, LogsContinue DEF LogInv
  <2>4. TransitionsAreLogged'
    <3> SUFFICES ASSUME NEW e \in owed' PROVE op'[e[1]].phase = "log" /\ op'[e[1]].cur = e[2]
      BY DEF TransitionsAreLogged
    <3>1. e \in Worker \X Case /\ op[e[1]].phase = "log" /\ op[e[1]].cur = e[2] /\ e # <<w, op[w].cur>>
      BY <2>1 DEF LogInv, TransitionsAreLogged, IInv, TypeOK
    <3>2. e = <<e[1], e[2]>> /\ e[1] \in Worker
      BY <3>1
    <3>3. e[1] # w
      BY <3>1, <3>2
    <3> QED BY <2>2, <3>1, <3>2, <3>3
  <2> QED BY <2>3, <2>4 DEF LogInv
<1> QED BY <1>2, <1>3, <1>4, <1>5, <1>6, <1>7 DEF Proceed

\* While no call fails and no rule is silent, every change of status has its activity or a
\* worker about to write it, for any number of handlers and cases.
THEOREM ActivitiesFollow ==
    ASSUME MaxFaults = 0, CreateActivities \subseteq {TRUE}
    PROVE  Spec => []TransitionsAreLogged
<1>1. Init => LogInv
  BY DEF Init, LogInv, TransitionsAreLogged, LogsOK, Idle
<1>2. IInv /\ LogInv /\ [Next]_vars => LogInv'
  <2> SUFFICES ASSUME IInv, LogInv, [Next]_vars PROVE LogInv'
    OBVIOUS
  <2>1. ~(faults < MaxFaults)
    BY DEF IInv, TypeOK
  <2>2. ASSUME NEW w \in Operator, OperatorStarts(w) PROVE LogInv'
    BY <2>2, LogStarts DEF Worker
  <2>3. ASSUME NEW w \in Automation, AutomationStarts(w) PROVE LogInv'
    BY <2>3, LogStarts DEF Worker
  <2>4. CASE Tick \/ UNCHANGED vars
    BY <2>4 DEF Tick, vars, LogInv, TransitionsAreLogged
  <2> QED BY <2>1, <2>2, <2>3, <2>4, LogProceeds DEF Next, Fail, Crash
<1>3. LogInv => TransitionsAreLogged
  BY DEF LogInv
<1> QED BY <1>1, <1>2, <1>3, InvInit, InvNext, PTL DEF Spec

-----------------------------------------------------------------------------
\* Rows stay, and resolved cases stay resolved

\* Automation never edits, creates or recalculates, and operators do nothing else.
TasksOf(w) == IF w \in Automation THEN {"none", "upsert", "resolve"}
              ELSE {"none", "update", "recalculate", "create"}

RolesOK == \A w \in Worker : op[w].task \in TasksOf(w)

\* Why a case may leave "resolved".
Reopens(c) ==
    \/ cases'[c].base.status = "open"
    \/ \E w \in Operator : op[w].phase = "write" /\ op[w].cur = c
    \/ c \in raced'

\* What a step may do to a stored case.
CaseStays(c) ==
    /\ cases'[c] # NoCase
    /\ cases[c].base.status = "resolved" /\ cases'[c].base.status # "resolved" => Reopens(c)

\* Writing over one stored row leaves all rows stored.
LEMMA OneRowStays ==
    ASSUME IInv, NEW c \in StoredCases, NEW row \in Row, cases' = [cases EXCEPT ![c] = row],
           cases[c].base.status = "resolved" /\ row.base.status # "resolved" => Reopens(c)
    PROVE  \A d \in StoredCases : CaseStays(d)
<1>1. c \in Case /\ cases \in [Case -> Row \cup {NoCase}]
  BY DEF IInv, TypeOK, StoredCases
<1>2. row # NoCase
  BY CaseAssumption
<1>3. cases'[c] = row /\ \A d \in Case \ {c} : cases'[d] = cases[d]
  BY <1>1
<1> QED BY <1>1, <1>2, <1>3 DEF CaseStays, StoredCases, Stored

\* So does writing a row that was not stored.
LEMMA NewRowStays ==
    ASSUME IInv, NEW c \in Case \ StoredCases, NEW row, cases' = [cases EXCEPT ![c] = row]
    PROVE  \A d \in StoredCases : CaseStays(d)
BY DEF CaseStays, StoredCases, Stored, IInv, TypeOK

\* What a handler that has begun does to the stored cases.
LEMMA ProceedKeepsCases ==
    ASSUME IInv, RolesOK, NEW w \in Worker, Proceed(w)
    PROVE  \A d \in StoredCases : CaseStays(d)
<1>1. CASE CommitUpdate(w)
  <2> DEFINE c == op[w].cur
             p == op[w].arg
             b == ApplyPayload(op[w].seen[c], p)
             until == IF p.status = "open" THEN NoTime
                      ELSE IF p.status = "silenced" THEN now + SilenceTicks
                      ELSE cases[c].silencedUntil
             row == [base |-> NamedColumns(cases[c].base, b, p),
                     derived |-> DerivedColumns(c, b, p), silencedUntil |-> until]
  <2>1. /\ op[w].task = "update" /\ op[w].phase = "write"
        /\ cases' = [cases EXCEPT ![c] = row]
    BY <1>1 DEF CommitUpdate, Write
  <2>2. /\ c \in StoredCases /\ NamedColumns(cases[c].base, b, p) \in Base
        /\ DerivedColumns(c, b, p) \in Derived
    BY <2>1, UpdatedRowType DEF DerivedColumns
  <2>3. cases[c].silencedUntil \in Nat \cup {NoTime} /\ now + SilenceTicks \in Nat
    BY <2>2, StoredRow, CaseAssumption DEF IInv, TypeOK, Row
  <2>4. row \in Row
    BY <2>2, <2>3 DEF Row
  <2>5. w \in Operator
    BY <2>1 DEF RolesOK, TasksOf, Worker
  <2>6. Reopens(c)
    BY <2>1, <2>5 DEF Reopens
  <2> HIDE DEF row, c
  <2> QED BY <2>1, <2>2, <2>4, <2>6, OneRowStays
<1>2. CASE ConfirmHit(w)
  <2> DEFINE f == op[w].cur
             b == Confirmed(op[w].seen[f], op[w].arg.severity)
             until == IF b.status = "open" THEN NoTime ELSE cases[f].silencedUntil
             row == [base |-> ConfirmedColumns(cases[f].base, b),
                     derived |-> BuildOperationalState(b, now), silencedUntil |-> until]
  <2>1. /\ op[w].task = "upsert" /\ op[w].phase = "write" /\ op[w].seen[f] # NoCase
        /\ cases' = [cases EXCEPT ![f] = row]
        /\ raced' = IF UpToDate(f, op[w].seen[f]) THEN raced \ {f} ELSE raced \cup {f}
    BY <1>2 DEF ConfirmHit, Write
  <2>2. /\ f \in StoredCases /\ op[w].seen[f] \in Base
        /\ ConfirmedColumns(cases[f].base, b) \in Base /\ BuildOperationalState(b, now) \in Derived
    BY <2>1, ConfirmedRowType
  <2>3. cases[f] \in Row /\ cases[f].base \in Base
    BY <2>2, StoredRow
  <2>4. row \in Row
    BY <2>2, <2>3 DEF Row
  <2>5. row.base.status = b.status
    BY <2>3 DEF ConfirmedColumns, Base
  <2>6. cases'[f] = row
    BY <2>1, <2>2, StoredRow DEF IInv, TypeOK
  <2>7. ASSUME cases[f].base.status = "resolved" PROVE Reopens(f)
    <3>1. CASE UpToDate(f, op[w].seen[f])
      <4>1. op[w].seen[f] = cases[f].base
        BY <2>2, <3>1 DEF UpToDate, StoredCases
      <4>2. b.status = "open"
        BY <2>3, <2>7, <4>1 DEF Confirmed, Base
      <4> QED BY <2>5, <2>6, <4>2 DEF Reopens
    <3>2. CASE ~UpToDate(f, op[w].seen[f])
      BY <2>1, <3>2 DEF Reopens
    <3> QED BY <3>1, <3>2
  <2> HIDE DEF row, f
  <2> QED BY <2>1, <2>2, <2>4, <2>7, OneRowStays
<1>3. CASE InsertHit(w)
  <2>1. op[w].cur \in Case /\ ~Stored(op[w].cur)
    BY <1>3 DEF InsertHit, IInv, OperationOK
  <2> QED BY <1>3, <2>1, NewRowStays DEF InsertHit, Write, StoredCases
<1>4. ASSUME NEW c \in Case, RecalculateCase(w, c) PROVE \A d \in StoredCases : CaseStays(d)
  <2> DEFINE d == BuildOperationalState(op[w].seen[c], now)
             row == [cases[c] EXCEPT !.derived = d]
  <2>1. op[w].task = "recalculate" /\ c \in op[w].rest /\ cases' = [cases EXCEPT ![c] = row]
    BY <1>4 DEF RecalculateCase, Write
  <2>2. op[w] \in Operation /\ OperationOK(op[w], StoredCases) /\ now \in Nat
    BY CaseAssumption DEF IInv, TypeOK
  <2>3. c \in StoredCases /\ op[w].seen[c] \in Base
    BY <2>1, <2>2, SeenRow DEF OperationOK
  <2>4. d \in Derived
    BY <2>2, <2>3, DerivedType
  <2> HIDE DEF d
  <2>5. row \in Row /\ row.base = cases[c].base
    BY <2>3, <2>4, StoredRow DEF Row
  <2> HIDE DEF row
  <2> QED BY <2>1, <2>3, <2>5, OneRowStays
<1>5. ASSUME NEW c \in Case, ResolveCase(w, c) PROVE \A d \in StoredCases : CaseStays(d)
  <2>1. c \in op[w].rest /\ cases' = [cases EXCEPT ![c] = RecoveredRow(cases[c])]
    BY <1>5 DEF ResolveCase
  <2>2. c \in StoredCases
    BY <2>1 DEF IInv, OperationOK
  <2>3. cases[c] \in Row
    BY <2>2, StoredRow
  <2>4. RecoveredRow(cases[c]) \in Row
    BY <2>3, RecoveredRowType
  <2>5. RecoveredRow(cases[c]).base.status = "resolved"
    BY <2>3 DEF RecoveredRow, Row, Base
  <2> QED BY <2>1, <2>2, <2>4, <2>5, OneRowStays
<1>6. CASE UNCHANGED cases
  BY <1>6 DEF CaseStays, StoredCases, Stored
<1> QED BY <1>1, <1>2, <1>3, <1>4, <1>5, <1>6
        DEF Proceed, ReadCase, InsertRefused, LogActivity

\* What any step does to them.
LEMMA CasesStay ==
    ASSUME IInv, RolesOK, [Next]_vars
    PROVE  \A d \in StoredCases : CaseStays(d)
<1>1. ASSUME NEW w \in Operator, NEW c \in Manual, NEW s \in Status, NEW v \in Severity,
             NEW a \in BOOLEAN, CreateException(w, c, s, v, a)
      PROVE  \A d \in StoredCases : CaseStays(d)
  BY <1>1, NewRowStays DEF CreateException, Write, StoredCases, Case
<1>2. CASE UNCHANGED cases
  BY <1>2 DEF CaseStays, StoredCases, Stored
<1> QED BY <1>1, <1>2, ProceedKeepsCases
        DEF Next, vars, OperatorStarts, StartUpdate, StartRecalculate, AutomationStarts,
            StartUpsert, ListRecovered, Fail, Tick, Crash

\* A worker only changes its own operation.
LEMMA OnlyItsOwn ==
    ASSUME NEW w \in Worker,
           OperatorStarts(w) \/ AutomationStarts(w) \/ Proceed(w) \/ Fail(w)
    PROVE  \E o : op' = [op EXCEPT ![w] = o]
<1>1. CASE OperatorStarts(w)
  BY <1>1 DEF OperatorStarts, CreateException, StartUpdate, StartRecalculate
<1>2. CASE AutomationStarts(w)
  BY <1>2 DEF AutomationStarts, StartUpsert, ListRecovered
<1>3. ASSUME NEW c \in Case, ReadCase(w, c) PROVE \E o : op' = [op EXCEPT ![w] = o]
  BY <1>3 DEF ReadCase
<1>4. ASSUME NEW c \in Case, ResolveCase(w, c) \/ RecalculateCase(w, c)
      PROVE  \E o : op' = [op EXCEPT ![w] = o]
  BY <1>4 DEF ResolveCase, RecalculateCase
<1>5. CASE CommitUpdate(w) \/ InsertHit(w) \/ ConfirmHit(w)
  BY <1>5 DEF CommitUpdate, InsertHit, ConfirmHit
<1>6. CASE InsertRefused(w) \/ LogActivity(w) \/ Fail(w)
  BY <1>6 DEF InsertRefused, LogActivity, Fail
<1> QED BY <1>1, <1>2, <1>3, <1>4, <1>5, <1>6 DEF Proceed

\* A worker that goes on keeps its task or is idle.
LEMMA TaskStays ==
    ASSUME NEW o \in Operation, NEW c
    PROVE  Continue(o).task \in {o.task, "none"} /\ ThenLog(o, c).task \in {o.task, "none"}
<1>1. Continue(o).task \in {o.task, "none"}
  BY DEF Continue, Idle, Operation
<1>2. CASE o.logs
  BY <1>1, <1>2 DEF ThenLog, Operation
<1>3. CASE ~o.logs
  BY <1>1, <1>3 DEF ThenLog
<1> QED BY <1>1, <1>2, <1>3

\* Workers keep to their roles.
LEMMA RolesNext == IInv /\ RolesOK /\ [Next]_vars => RolesOK'
<1> SUFFICES ASSUME IInv, RolesOK, [Next]_vars, NEW w \in Worker
             PROVE  op'[w].task \in TasksOf(w)
  BY DEF RolesOK, TasksOf
<1>0. op \in [Worker -> Operation] /\ "none" \in TasksOf(w)
  BY DEF IInv, TypeOK, TasksOf
<1>1. op[w].task \in TasksOf(w) /\ op[w] \in Operation
  BY <1>0 DEF RolesOK
<1>2. CASE op' = op
  BY <1>1, <1>2
<1>3. ASSUME NEW v \in Worker \ {w}, OperatorStarts(v) \/ AutomationStarts(v) \/ Proceed(v) \/ Fail(v)
      PROVE  op'[w].task \in TasksOf(w)
  BY <1>0, <1>1, <1>3, OnlyItsOwn
<1>4. CASE w \in Automation /\ AutomationStarts(w)
  BY <1>0, <1>4 DEF AutomationStarts, StartUpsert, ListRecovered, Idle, TasksOf
<1>5. CASE w \in Operator /\ OperatorStarts(w)
  <2>1. w \notin Automation
    BY <1>5, CaseAssumption
  <2>2. ASSUME NEW c \in Manual, NEW s \in Status, NEW v \in Severity, NEW a \in BOOLEAN,
               CreateException(w, c, s, v, a)
        PROVE  op'[w].task \in TasksOf(w)
    <3> DEFINE o == [Idle EXCEPT !.task = "create", !.logs = TRUE]
    <3>1. op'[w] = ThenLog(o, c)
      BY <1>0, <2>2 DEF CreateException
    <3>2. o \in Operation /\ o.task = "create"
      BY IdleType DEF Operation, Idle
    <3> HIDE DEF o
    <3> QED BY <1>0, <2>1, <3>1, <3>2, TaskStays DEF TasksOf
  <2>3. ASSUME NEW ids \in SUBSET Case, NEW p \in Payload, StartUpdate(w, ids, p)
        PROVE  op'[w].task \in TasksOf(w)
    BY <1>0, <2>1, <2>3 DEF StartUpdate, Idle, TasksOf
  <2>4. CASE StartRecalculate(w)
    BY <1>0, <2>1, <2>4 DEF StartRecalculate, Idle, TasksOf
  <2> QED BY <1>5, <2>2, <2>3, <2>4 DEF OperatorStarts
<1>6. CASE Fail(w) \/ Crash \/ InsertRefused(w)
  BY <1>0, <1>6 DEF Fail, Crash, InsertRefused, Idle
<1>7. ASSUME NEW c \in Case, ResolveCase(w, c) \/ RecalculateCase(w, c)
      PROVE  op'[w].task \in TasksOf(w)
  <2> DEFINE o == [op[w] EXCEPT !.rest = op[w].rest \ {c}]
  <2>1. op'[w] = ThenLog(o, c) \/ op'[w] = Continue(o)
    BY <1>0, <1>7 DEF ResolveCase, RecalculateCase
  <2>2. o.task = op[w].task /\ o \in Operation
    BY <1>1 DEF Operation
  <2> HIDE DEF o
  <2> QED BY <1>0, <1>1, <2>1, <2>2, TaskStays
<1>8. CASE CommitUpdate(w) \/ InsertHit(w) \/ ConfirmHit(w) \/ LogActivity(w)
  <2>1. op'[w] = ThenLog(op[w], op[w].cur) \/ op'[w] = Continue(op[w])
    BY <1>0, <1>8 DEF CommitUpdate, InsertHit, ConfirmHit, LogActivity
  <2> QED BY <1>0, <1>1, <2>1, TaskStays
<1>9. ASSUME NEW c \in Case, ReadCase(w, c) PROVE op'[w].task \in TasksOf(w)
  <2>1. op'[w].task = op[w].task
    BY <1>0, <1>1, <1>9 DEF ReadCase, Operation
  <2> QED BY <1>1, <2>1
<1>10. CASE Proceed(w)
  BY <1>6, <1>7, <1>8, <1>9, <1>10 DEF Proceed
<1>11. CASE Tick \/ UNCHANGED vars
  BY <1>2, <1>11 DEF Tick, vars
<1> QED BY <1>3, <1>4, <1>5, <1>6, <1>10, <1>11 DEF Next, Worker

\* Workers start with nothing to do.
LEMMA RolesInit == Init => RolesOK
BY DEF Init, RolesOK, TasksOf, Idle

\* A resolved case comes back only through an operator, a detection or a stale write.
THEOREM ResolutionsStand == Spec => ResolutionStands
<1>1. IInv /\ RolesOK /\ [Next]_vars =>
        [\A c \in StoredCases :
          cases[c].base.status = "resolved" /\ cases'[c].base.status # "resolved" =>
             \/ cases'[c].base.status = "open"
             \/ \E w \in Operator : op[w].phase = "write" /\ op[w].cur = c
             \/ c \in raced']_vars
  BY CasesStay DEF CaseStays, Reopens
<1> QED BY <1>1, InvInit, InvNext, RolesInit, RolesNext, PTL
        DEF Spec, ResolutionStands

-----------------------------------------------------------------------------
\* Inserts that will be refused

\* A handler about to insert a detected case.
Inserting(w) ==
    op[w].task = "upsert" /\ op[w].phase = "write" /\ op[w].seen[op[w].cur] = NoCase

\* A detected case appears in the table only because a run inserts it.
LEMMA NewlyStored ==
    ASSUME IInv, RolesOK, [Next]_vars, NEW f \in Fingerprint,
           f \notin StoredCases, f \in StoredCases'
    PROVE  \E v \in Automation : InsertHit(v) /\ op[v].cur = f
<1>1. f \in Case /\ cases[f] = NoCase /\ cases'[f] # NoCase /\ f \notin Manual
  BY CaseAssumption DEF StoredCases, Stored, Case
<1>2. ASSUME NEW w \in Worker, Proceed(w)
      PROVE  InsertHit(w) /\ op[w].cur = f
  <2>1. op[w] \in Operation /\ OperationOK(op[w], StoredCases) /\ cases \in [Case -> Row \cup {NoCase}]
    BY DEF IInv, TypeOK
  <2>2. ~CommitUpdate(w)
    BY <1>1, <2>1 DEF CommitUpdate, Write, OperationOK, StoredCases
  <2>3. ~ConfirmHit(w)
    BY <1>1, <2>1 DEF ConfirmHit, Write, OperationOK, StoredCases
  <2>4. \A c \in Case : ~RecalculateCase(w, c) /\ ~ResolveCase(w, c)
    BY <1>1, <2>1 DEF RecalculateCase, ResolveCase, Write, OperationOK, StoredCases
  <2>5. ~LogActivity(w) /\ ~InsertRefused(w) /\ \A c \in Case : ~ReadCase(w, c)
    BY <1>1 DEF LogActivity, InsertRefused, ReadCase
  <2>6. InsertHit(w)
    BY <1>2, <2>2, <2>3, <2>4, <2>5 DEF Proceed
  <2>7. op[w].cur = f
    BY <1>1, <2>1, <2>6 DEF InsertHit, Write
  <2> QED BY <2>6, <2>7
<1>3. ASSUME NEW w \in Worker, Proceed(w)
      PROVE  \E v \in Automation : InsertHit(v) /\ op[v].cur = f
  <2>1. InsertHit(w) /\ op[w].cur = f
    BY <1>2, <1>3
  <2>2. w \in Automation
    BY <2>1 DEF InsertHit, RolesOK, TasksOf
  <2> QED BY <2>1, <2>2
<1>4. ASSUME NEW w \in Operator, OperatorStarts(w) PROVE cases'[f] = cases[f]
  BY <1>1, <1>4 DEF OperatorStarts, CreateException, StartUpdate, StartRecalculate, Write, IInv, TypeOK
<1>5. ASSUME NEW w \in Automation, AutomationStarts(w) PROVE cases' = cases
  BY <1>5 DEF AutomationStarts, StartUpsert, ListRecovered
<1> QED BY <1>1, <1>3, <1>4, <1>5 DEF Next, Fail, Tick, Crash, vars

\* A run about to insert a case that is stored by now was about to insert it before, and
\* the case was stored already or another run inserts it.
LEMMA WhoInsertedIt ==
    ASSUME IInv, RolesOK, [Next]_vars, NEW w \in Automation, Inserting(w)',
           op'[w].cur \in Fingerprint, op'[w].cur \in StoredCases'
    PROVE  /\ op'[w] = op[w]
           /\ \/ op[w].cur \in StoredCases
              \/ \E v \in Automation \ {w} : Inserting(v) /\ op[v].cur = op[w].cur
<1>0. op \in [Worker -> Operation] /\ w \in Worker /\ op[w] \in Operation /\ w \notin Operator
  BY CaseAssumption DEF IInv, TypeOK, Worker
<1>1. op'[w].task = "upsert" /\ op'[w].phase = "write" /\ op'[w].seen[op'[w].cur] = NoCase
  BY DEF Inserting
<1>2. ASSUME NEW o \in Operation, NEW c, op'[w] = ThenLog(o, c) \/ op'[w] = Continue(o) PROVE FALSE
  <2>1. Continue(o).phase # "write"
    BY DEF Continue, Idle, Operation
  <2>2. ThenLog(o, c).phase # "write"
    <3>1. CASE o.logs
      BY <3>1 DEF ThenLog, Operation
    <3>2. CASE ~o.logs
      BY <2>1, <3>2 DEF ThenLog
    <3> QED BY <3>1, <3>2
  <2> QED BY <1>1, <1>2, <2>1, <2>2
<1>3. ASSUME AutomationStarts(w) PROVE FALSE
  <2>1. ASSUME NEW f \in Fingerprint, NEW v \in Severity, NEW l \in CreateActivities,
               StartUpsert(w, f, v, l)
        PROVE  FALSE
    <3>1. op'[w].cur = f /\ op'[w].seen = [NothingSeen EXCEPT ![f] = FindByFingerprint(f)]
      BY <1>0, <2>1 DEF StartUpsert, Idle
    <3>2. FindByFingerprint(f) = NoCase
      BY <1>1, <3>1 DEF NothingSeen, Case
    <3>3. f \in StoredCases
      BY <2>1, <3>1 DEF StartUpsert, StoredCases, Stored
    <3> QED BY <3>2, <3>3, StoredRow, CaseAssumption DEF FindByFingerprint, StoredCases
  <2>2. \A r, hits, l : ~ListRecovered(w, r, hits, l)
    BY <1>0, <1>1 DEF ListRecovered, Idle
  <2> QED BY <1>3, <2>1, <2>2 DEF AutomationStarts
<1>4. ASSUME Proceed(w) PROVE FALSE
  <2>1. ASSUME NEW c \in Case, ResolveCase(w, c) \/ RecalculateCase(w, c) PROVE FALSE
    <3> DEFINE o == [op[w] EXCEPT !.rest = op[w].rest \ {c}]
    <3>1. op'[w] = ThenLog(o, c) \/ op'[w] = Continue(o)
      BY <1>0, <2>1 DEF ResolveCase, RecalculateCase
    <3>2. o \in Operation
      BY <1>0 DEF Operation
    <3> HIDE DEF o
    <3> QED BY <1>2, <3>1, <3>2
  <2>2. ASSUME CommitUpdate(w) \/ InsertHit(w) \/ ConfirmHit(w) \/ LogActivity(w) PROVE FALSE
    BY <1>0, <1>2, <2>2 DEF CommitUpdate, InsertHit, ConfirmHit, LogActivity
  <2>3. ASSUME NEW c \in Case, ReadCase(w, c) PROVE FALSE
    <3>1. op[w].task = "update"
      BY <2>3 DEF ReadCase
    <3> QED BY <1>0, <3>1 DEF RolesOK, TasksOf
  <2>4. ~InsertRefused(w)
    BY <1>0, <1>1 DEF InsertRefused, Idle
  <2> QED BY <1>4, <2>1, <2>2, <2>3, <2>4 DEF Proceed
<1>5. ~Fail(w) /\ ~Crash
  BY <1>0, <1>1 DEF Fail, Crash, Idle
<1>6. ASSUME NEW v \in Worker \ {w}, OperatorStarts(v) \/ AutomationStarts(v) \/ Proceed(v) \/ Fail(v)
      PROVE  op'[w] = op[w]
  BY <1>0, <1>6, OnlyItsOwn
<1>7. op'[w] = op[w]
  BY <1>0, <1>3, <1>4, <1>5, <1>6 DEF Next, Tick, vars, Worker
<1>8. CASE op[w].cur \notin StoredCases
  <2>1. PICK v \in Automation : InsertHit(v) /\ op[v].cur = op[w].cur
    BY <1>7, <1>8, NewlyStored
  <2>2. v # w
    BY <1>4, <2>1 DEF Proceed
  <2>3. Inserting(v)
    BY <2>1 DEF InsertHit, Inserting
  <2> QED BY <1>7, <2>1, <2>2, <2>3
<1> QED BY <1>7, <1>8

-----------------------------------------------------------------------------
\* Handlers served one after another

OneAtATime == \A v, w \in Worker : IsIdle(v) \/ IsIdle(w) \/ v = w

\* What was read of a case, against the case in table t.
Current(seen, c, t) == seen[c] = IF t[c] = NoCase THEN NoCase ELSE t[c].base

\* A handler about to write holds its case, or cases, as table t has them.
ReadsCurrent(o, t) ==
    /\ o.phase = "write" => Current(o.seen, o.cur, t)
    /\ o.task = "recalculate" => o.phase = "next" /\ \A c \in o.rest : Current(o.seen, c, t)

SerialInv ==
    /\ raced = {}
    /\ \A w \in Worker : ReadsCurrent(op[w], cases)

\* A handler that has nothing to write, or ends, reads nothing outdated.
LEMMA NothingHeld ==
    ASSUME NEW o \in Operation, NEW t, o.task # "recalculate", NEW c \in Case
    PROVE  /\ ReadsCurrent(Idle, t)
           /\ ReadsCurrent(Continue(o), t)
           /\ ReadsCurrent(ThenLog(o, c), t)
<1>1. ReadsCurrent(Idle, t)
  BY DEF ReadsCurrent, Idle
<1>2. ReadsCurrent(Continue(o), t)
  BY <1>1 DEF ReadsCurrent, Continue, Operation
<1>3. ReadsCurrent(ThenLog(o, c), t)
  <2>1. CASE o.logs
    BY <2>1 DEF ReadsCurrent, ThenLog, Operation
  <2>2. CASE ~o.logs
    BY <1>2, <2>2 DEF ThenLog
  <2> QED BY <2>1, <2>2
<1> QED BY <1>1, <1>2, <1>3

\* A step of one worker that writes no case.
LEMMA SerialQuiet ==
    ASSUME IInv, SerialInv, NEW w \in Worker, NEW o,
           op' = [op EXCEPT ![w] = o], ReadsCurrent(o, cases), cases' = cases, raced' = raced
    PROVE  SerialInv'
BY DEF SerialInv, IInv, TypeOK

\* A step of the one busy worker that writes a case.
LEMMA SerialWrite ==
    ASSUME IInv, SerialInv, NEW w \in Worker, NEW o,
           op' = [op EXCEPT ![w] = o], ReadsCurrent(o, cases'), raced' = {},
           \A v \in Worker \ {w} : IsIdle(v)
    PROVE  SerialInv'
<1>1. op \in [Worker -> Operation]
  BY DEF IInv, TypeOK
<1>2. ASSUME NEW v \in Worker, v # w PROVE ReadsCurrent(op'[v], cases')
  <2>1. op'[v] = op[v] /\ op[v].phase = "idle" /\ ReadsCurrent(op[v], cases)
    BY <1>1, <1>2 DEF IsIdle, SerialInv
  <2> QED BY <2>1 DEF ReadsCurrent
<1>3. ReadsCurrent(op'[w], cases')
  BY <1>1
<1> QED BY <1>2, <1>3 DEF SerialInv

\* A row written from a current read is not raced.
LEMMA NotRaced ==
    ASSUME NEW w \in Worker, NEW c \in Case, NEW row, NEW seen, Write(w, c, row, seen[c]),
           Current(seen, c, cases), raced = {}
    PROVE  raced' = {}
BY DEF Write, UpToDate, Current, Stored

\* A step of a handler that has begun, while the others wait.
LEMMA SerialProceed ==
    ASSUME IInv, SerialInv, NEW w \in Worker, Proceed(w), \A v \in Worker \ {w} : IsIdle(v)
    PROVE  SerialInv'
<1>1. /\ op[w] \in Operation /\ OperationOK(op[w], StoredCases) /\ ReadsCurrent(op[w], cases)
      /\ raced = {} /\ cases \in [Case -> Row \cup {NoCase}]
  BY DEF IInv, TypeOK, SerialInv
<1>2. ASSUME NEW c \in Case, ReadCase(w, c) PROVE SerialInv'
  <2> DEFINE o == [op[w] EXCEPT !.phase = "write", !.cur = c, !.rest = op[w].rest \ {c},
                                !.seen = [NothingSeen EXCEPT ![c] = cases[c].base]]
  <2>1. c \in StoredCases /\ op[w].task = "update"
    BY <1>1, <1>2 DEF ReadCase, OperationOK
  <2>2. o.task = "update" /\ o.phase = "write" /\ o.cur = c /\ o.seen[c] = cases[c].base
    BY <1>1, <2>1 DEF Operation, NothingSeen
  <2>3. ReadsCurrent(o, cases)
    BY <2>1, <2>2 DEF ReadsCurrent, Current, StoredCases, Stored
  <2>4. op' = [op EXCEPT ![w] = o] /\ cases' = cases /\ raced' = raced
    BY <1>2 DEF ReadCase, IInv, TypeOK
  <2> HIDE DEF o
  <2> QED BY <2>3, <2>4, SerialQuiet
<1>3. ASSUME NEW c \in Case, RecalculateCase(w, c) PROVE SerialInv'
  <2> DEFINE row == [cases[c] EXCEPT !.derived = BuildOperationalState(op[w].seen[c], now)]
             o == [op[w] EXCEPT !.rest = op[w].rest \ {c}]
  <2>1. /\ op[w].task = "recalculate" /\ c \in op[w].rest /\ Write(w, c, row, op[w].seen[c])
        /\ op' = [op EXCEPT ![w] = Continue(o)]
    BY <1>3 DEF RecalculateCase
  <2>2. c \in StoredCases /\ cases[c] \in Row
    BY <1>1, <2>1, StoredRow DEF OperationOK
  <2>3. raced' = {}
    BY <1>1, <2>1, NotRaced DEF ReadsCurrent
  <2>4. cases' = [cases EXCEPT ![c] = row] /\ row # NoCase /\ row.base = cases[c].base
    <3>1. row.base = cases[c].base /\ row \in [base : Base, derived : {row.derived}, silencedUntil : Nat \cup {NoTime}]
      BY <2>2 DEF Row
    <3>2. cases' = [cases EXCEPT ![c] = row]
      BY <2>1 DEF Write
    <3>3. TypeOK /\ BuildOperationalState(op[w].seen[c], now) \in Derived
      BY <1>1, <2>1, SeenRow, DerivedType, CaseAssumption DEF IInv, TypeOK, OperationOK
    <3>4. row \in Row
      BY <2>2, <3>3 DEF Row
    <3> QED BY <3>1, <3>2, <3>4, CaseAssumption
  <2> HIDE DEF row
  <2>5. ASSUME NEW d \in o.rest PROVE Current(o.seen, d, cases')
    <3>1. d \in op[w].rest /\ d # c /\ o.seen = op[w].seen /\ d \in Case
      BY <1>1, <2>5 DEF Operation
    <3>2. cases'[d] = cases[d] /\ Current(op[w].seen, d, cases)
      BY <1>1, <2>1, <2>4, <3>1 DEF ReadsCurrent
    <3> QED BY <3>1, <3>2 DEF Current
  <2>6. ReadsCurrent(Continue(o), cases')
    <3>1. o.task = "recalculate"
      BY <1>1, <2>1 DEF Operation
    <3>2. CASE o.rest = {}
      BY <3>2 DEF Continue, ReadsCurrent, Idle
    <3>3. CASE o.rest # {}
      <4>1. /\ Continue(o).task = "recalculate" /\ Continue(o).phase = "next"
            /\ Continue(o).rest = o.rest /\ Continue(o).seen = o.seen
        BY <1>1, <3>1, <3>3 DEF Continue, Operation
      <4> HIDE DEF o
      <4> QED BY <2>5, <4>1 DEF ReadsCurrent
    <3> QED BY <3>2, <3>3
  <2> HIDE DEF o
  <2> QED BY <2>1, <2>3, <2>6, SerialWrite
<1>4. ASSUME NEW c \in Case, ResolveCase(w, c) PROVE SerialInv'
  <2> DEFINE o == [op[w] EXCEPT !.rest = op[w].rest \ {c}]
  <2>1. /\ op[w].task = "resolve" /\ op' = [op EXCEPT ![w] = ThenLog(o, c)] /\ raced' = raced
    BY <1>4 DEF ResolveCase
  <2>2. o \in Operation /\ o.task # "recalculate"
    BY <1>1, <2>1 DEF Operation
  <2> HIDE DEF o
  <2> QED BY <1>1, <2>1, <2>2, NothingHeld, SerialWrite
<1>5. ASSUME NEW row, op[w].phase = "write", op[w].task # "recalculate", op[w].cur \in Case,
             Write(w, op[w].cur, row, op[w].seen[op[w].cur]),
             op' = [op EXCEPT ![w] = ThenLog(op[w], op[w].cur)]
      PROVE  SerialInv'
  <2>1. raced' = {}
    BY <1>1, <1>5, NotRaced DEF ReadsCurrent
  <2> QED BY <1>1, <1>5, <2>1, NothingHeld, SerialWrite
<1>6. ASSUME CommitUpdate(w) \/ InsertHit(w) \/ ConfirmHit(w) PROVE SerialInv'
  <2>1. op[w].phase = "write" /\ op[w].task \in {"update", "upsert"} /\ op[w].cur \in Case
    BY <1>1, <1>6 DEF CommitUpdate, InsertHit, ConfirmHit, OperationOK
  <2> QED BY <1>5, <1>6, <2>1 DEF CommitUpdate, InsertHit, ConfirmHit
<1>7. ASSUME InsertRefused(w) PROVE SerialInv'
  <2>1. ReadsCurrent(Idle, cases)
    BY DEF ReadsCurrent, Idle
  <2> QED BY <1>7, <2>1, SerialQuiet DEF InsertRefused
<1>8. ASSUME LogActivity(w) PROVE SerialInv'
  <2>1. op[w].task # "recalculate"
    BY <1>1, <1>8 DEF LogActivity, ReadsCurrent
  <2>2. op[w].cur \in Case /\ op' = [op EXCEPT ![w] = Continue(op[w])] /\ cases' = cases /\ raced' = raced
    BY <1>1, <1>8 DEF LogActivity, OperationOK, IInv, TypeOK
  <2> QED BY <1>1, <2>1, <2>2, NothingHeld, SerialQuiet
<1> QED BY <1>2, <1>3, <1>4, <1>6, <1>7, <1>8 DEF Proceed

\* A request or a run that starts while nobody else is being served.
LEMMA SerialStarts ==
    ASSUME IInv, SerialInv, NEW w \in Worker, OneAtATime', OperatorStarts(w) \/ AutomationStarts(w)
    PROVE  SerialInv'
<1>1. raced = {} /\ op \in [Worker -> Operation] /\ cases \in [Case -> Row \cup {NoCase}]
  BY DEF IInv, TypeOK, SerialInv
<1>2. ASSUME NEW c \in Manual, NEW s \in Status, NEW v \in Severity, NEW a \in BOOLEAN,
             CreateException(w, c, s, v, a)
      PROVE  SerialInv'
  <2> DEFINE o == [Idle EXCEPT !.task = "create", !.logs = TRUE]
  <2>1. op' = [op EXCEPT ![w] = ThenLog(o, c)] /\ c \in Case /\ ~Stored(c)
    BY <1>2 DEF CreateException, Case
  <2>2. o \in Operation /\ o.task # "recalculate" /\ o.logs
    BY IdleType DEF Operation, Idle
  <2>3. raced' = {}
    BY <1>1, <1>2, <2>1 DEF CreateException, Write, UpToDate
  <2> HIDE DEF o
  <2>4. op'[w].phase = "log"
    BY <1>1, <2>1, <2>2 DEF ThenLog, Operation
  <2>5. \A v1 \in Worker \ {w} : IsIdle(v1)
    BY <1>1, <2>1, <2>4 DEF OneAtATime, IsIdle
  <2> QED BY <2>1, <2>2, <2>3, <2>5, NothingHeld, SerialWrite
<1>3. ASSUME NEW ids \in SUBSET Case, NEW p \in Payload, StartUpdate(w, ids, p) PROVE SerialInv'
  <2> DEFINE o == [Idle EXCEPT !.task = "update", !.phase = "next", !.rest = ids, !.arg = p, !.logs = TRUE]
  <2>1. ReadsCurrent(o, cases)
    BY DEF ReadsCurrent, Idle
  <2> QED BY <1>3, <2>1, SerialQuiet DEF StartUpdate
<1>4. ASSUME StartRecalculate(w) PROVE SerialInv'
  <2> DEFINE seen == [c \in Case |-> IF Stored(c) THEN cases[c].base ELSE NoCase]
             o == [Idle EXCEPT !.task = "recalculate", !.phase = "next", !.rest = StoredCases, !.seen = seen]
  <2>1. \A c \in Case : Current(seen, c, cases)
    BY DEF Current, Stored
  <2> HIDE DEF seen
  <2>2. o.phase = "next" /\ o.rest = StoredCases /\ o.seen = seen
    BY DEF Idle
  <2>3. ReadsCurrent(o, cases)
    BY <2>1, <2>2 DEF ReadsCurrent, StoredCases
  <2>4. op' = [op EXCEPT ![w] = o] /\ cases' = cases /\ raced' = raced
    BY <1>4 DEF StartRecalculate, seen
  <2> HIDE DEF o
  <2> QED BY <2>3, <2>4, SerialQuiet
<1>5. ASSUME NEW f \in Fingerprint, NEW v \in Severity, NEW l \in CreateActivities, StartUpsert(w, f, v, l)
      PROVE  SerialInv'
  <2> DEFINE o == [Idle EXCEPT !.task = "upsert", !.phase = "write", !.cur = f,
                               !.seen = [NothingSeen EXCEPT ![f] = FindByFingerprint(f)],
                               !.arg = [NoPayload EXCEPT !.severity = v], !.logs = l]
  <2>1. f \in Case /\ o.task = "upsert" /\ o.cur = f /\ o.seen = [NothingSeen EXCEPT ![f] = FindByFingerprint(f)]
    BY DEF Idle, Case
  <2>2. o.seen[f] = FindByFingerprint(f)
    BY <2>1 DEF NothingSeen
  <2>3. op' = [op EXCEPT ![w] = o] /\ cases' = cases /\ raced' = raced
    BY <1>5 DEF StartUpsert
  <2> HIDE DEF o
  <2>4. ReadsCurrent(o, cases)
    BY <2>1, <2>2 DEF ReadsCurrent, Current, FindByFingerprint, Stored
  <2> QED BY <2>3, <2>4, SerialQuiet
<1>6. ASSUME NEW r \in Rule, NEW hits \in SUBSET Fingerprint, NEW l \in CreateActivities,
             ListRecovered(w, r, hits, l)
      PROVE  SerialInv'
  <2> DEFINE o == [Idle EXCEPT !.task = "resolve", !.phase = "next", !.rest = Recovered(r, hits), !.logs = l]
  <2>1. ReadsCurrent(o, cases)
    BY DEF ReadsCurrent, Idle
  <2> QED BY <1>6, <2>1, SerialQuiet DEF ListRecovered
<1> QED BY <1>2, <1>3, <1>4, <1>5, <1>6 DEF OperatorStarts, AutomationStarts

\* While handlers are served one after another no read is ever outdated.
LEMMA SerialNext ==
    IInv /\ SerialInv /\ OneAtATime /\ OneAtATime' /\ [Next]_vars => SerialInv'
<1> SUFFICES ASSUME IInv, SerialInv, OneAtATime, OneAtATime', [Next]_vars PROVE SerialInv'
  OBVIOUS
<1>0. Operator \subseteq Worker /\ Automation \subseteq Worker /\ op \in [Worker -> Operation]
  BY DEF Worker, IInv, TypeOK
<1>1. ASSUME NEW w \in Worker, OperatorStarts(w) \/ AutomationStarts(w) PROVE SerialInv'
  BY <1>1, SerialStarts
<1>2. ASSUME NEW w \in Worker, Proceed(w) PROVE SerialInv'
  <2>1. ~IsIdle(w)
    <3>1. op[w] \in Operation /\ OperationOK(op[w], StoredCases) /\ ReadsCurrent(op[w], cases)
      BY <1>0 DEF IInv, SerialInv
    <3> QED BY <1>2, <3>1
            DEF Proceed, IsIdle, ReadsCurrent, ReadCase, RecalculateCase, ResolveCase, CommitUpdate,
                InsertHit, InsertRefused, ConfirmHit, LogActivity
  <2> QED BY <1>2, <2>1, SerialProceed DEF OneAtATime
<1>3. \A t : ReadsCurrent(Idle, t)
  BY DEF ReadsCurrent, Idle
<1>4. ASSUME NEW w \in Worker, Fail(w) PROVE SerialInv'
  BY <1>3, <1>4, SerialQuiet DEF Fail
<1>5. CASE Crash
  BY <1>3, <1>5 DEF Crash, SerialInv
<1>6. CASE Tick \/ UNCHANGED vars
  BY <1>6 DEF Tick, vars, SerialInv
<1> QED BY <1>0, <1>1, <1>2, <1>4, <1>5, <1>6 DEF Next

\* In a behaviour in which no two handlers are ever under way together, no row is
\* written from an outdated read, and the queue shows every case as it is: overlap
\* is the only cause QueueShowsTheCase has to excuse, failures and crashes are none.
THEOREM SerialQueueIsExact ==
    Spec /\ []OneAtATime => [](raced = {} /\ \A c \in StoredCases : CoherentAt(cases[c], now))
<1>1. Init => SerialInv
  BY DEF Init, SerialInv, ReadsCurrent, Idle
<1>2. SerialInv /\ QueueShowsTheCase => raced = {} /\ \A c \in StoredCases : CoherentAt(cases[c], now)
  BY DEF SerialInv, QueueShowsTheCase
<1> QED BY <1>1, <1>2, InvInit, InvNext, SerialNext, QueueCorrect, PTL DEF Spec

-----------------------------------------------------------------------------
\* What a recalculation does to an open case

\* The score grows with a breach.
LEMMA ScoreGrows ==
    ASSUME NEW s, NEW tr, NEW a \in BOOLEAN, NEW b1 \in BOOLEAN, NEW b2 \in BOOLEAN, b1 => b2
    PROVE  ComputePriorityScore(s, tr, a, b1) <= ComputePriorityScore(s, tr, a, b2)
BY WeightType DEF ComputePriorityScore

\* An open case keeps its place in the triage, and its breach; its score only grows.
Escalates(old, new) ==
    /\ new.triageStatus = old.triageStatus
    /\ old.breachedAt => new.breachedAt
    /\ old.priorityScore <= new.priorityScore

RecalculationOnlyEscalates ==
    \A w \in Worker, c \in Case :
        RecalculateCase(w, c) /\ cases[c].base.status # "resolved" /\ c \notin raced \cup raced' =>
            Escalates(cases[c].derived, cases'[c].derived)

\* Columns that agree with an open case escalate when they are derived again.
LEMMA DerivedAgain ==
    ASSUME NEW row \in Row, NEW t \in Nat, CoherentAt(row, t), row.base.status # "resolved"
    PROVE  Escalates(row.derived, BuildOperationalState(row.base, t))
<1> DEFINE b == row.base  d == row.derived
<1>1. b \in Base /\ d \in Derived
  BY DEF Row
<1>2. d.triageStatus = TriageStatus(b)
  BY <1>1 DEF CoherentAt, TriageStatus, Derived, Triage
<1>3. d.breachedAt \in BOOLEAN /\ b.assigneeUserId \in BOOLEAN
      /\ Breached(b, t) \in BOOLEAN /\ (d.breachedAt => Breached(b, t))
  BY <1>1 DEF CoherentAt, Derived, Base, Breached, Overdue
<1>4. d.priorityScore = ComputePriorityScore(b.severity, TriageStatus(b), b.assigneeUserId, d.breachedAt)
  BY <1>2 DEF CoherentAt
<1>5. d.priorityScore <= ComputePriorityScore(b.severity, TriageStatus(b), b.assigneeUserId, Breached(b, t))
  BY <1>3, <1>4, ScoreGrows
<1> QED BY <1>2, <1>3, <1>5 DEF Escalates, BuildOperationalState

\* A recalculation, however late it comes to a case, never clears a breach, takes an
\* open case back in the triage or lowers its score, unless the case was raced.
THEOREM RecalculationEscalates == Spec => [][RecalculationOnlyEscalates]_vars
<1>1. ASSUME IInv, QueueShowsTheCase, [Next]_vars PROVE [RecalculationOnlyEscalates]_vars
  <2> SUFFICES ASSUME NEW w \in Worker, NEW c \in Case, RecalculateCase(w, c),
                      cases[c].base.status # "resolved", c \notin raced \cup raced'
               PROVE  Escalates(cases[c].derived, cases'[c].derived)
    BY DEF RecalculationOnlyEscalates
  <2> DEFINE seen == op[w].seen[c]
             row == [cases[c] EXCEPT !.derived = BuildOperationalState(seen, now)]
  <2>1. Write(w, c, row, seen) /\ op[w].task = "recalculate" /\ c \in op[w].rest
    BY DEF RecalculateCase
  <2>0. /\ now \in Nat /\ cases \in [Case -> Row \cup {NoCase}]
        /\ OperationOK(op[w], StoredCases)
    BY CaseAssumption, <1>1 DEF IInv, TypeOK
  <2>2. c \in StoredCases /\ now \in Nat /\ cases \in [Case -> Row \cup {NoCase}]
    BY <2>0, <2>1 DEF OperationOK
  <2>6. cases[c] \in Row
    BY <1>1, <2>2, StoredRow
  <2>3. cases[c] \in Row /\ CoherentAt(cases[c], now)
    BY <1>1, <2>2, <2>6 DEF QueueShowsTheCase
  <2>4. seen = cases[c].base
    BY <2>1, <2>2 DEF Write, UpToDate, StoredCases
  <2>5. cases'[c].derived = BuildOperationalState(cases[c].base, now)
    BY <2>1, <2>2, <2>3, <2>4 DEF Write, Row
  <2> QED BY <2>2, <2>3, <2>5, DerivedAgain
<1>2. Init => QueueShowsTheCase
  BY DEF Init, QueueShowsTheCase, StoredCases, Stored
<1> QED BY <1>1, <1>2, InvInit, InvNext, QueueNext, PTL DEF Spec
=============================================================================
