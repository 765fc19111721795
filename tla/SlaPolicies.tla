----------------------------- MODULE SlaPolicies -----------------------------
(***************************************************************************)
(* The SLA policies and the cases they apply to (exceptions.service.ts).   *)
(* A policy row is identified by its place in the order of createdAt.      *)
(*                                                                         *)
(* Every write of a case, and every case of a recalculation, selects a     *)
(* policy with up to three queries and copies its terms into the case      *)
(* later; each query is a step of its own.  An edit reads the policy,      *)
(* checks the resulting interval and writes only the columns it was sent.  *)
(* Kind and severity of a case are fixed here; ExceptionCases lets the     *)
(* severity change and fixes the policies.                                 *)
(***************************************************************************)
EXTENDS Integers, Sequences

CONSTANTS
    Code, Kind, Severity,
    Default,        \* the default policies, in the order they are put in
    MediumCode,     \* SLA-GENERIC-MEDIUM, the last resort
    New,            \* the policies administrators create
    Edit,           \* the edits they send: the columns to change
    Case, KeyOf,    \* cases, and each one's kind and severity
    Admin, Worker,  \* requests on policies, and requests on cases
    None,
    MaxPolicies     \* bound on the number of policies

Policy == [code : Code, kind : Kind, severity : Severity,
           first : Nat \ {0}, resolve : Nat \ {0}, isActive : BOOLEAN]
Minutes == {"first", "resolve"}
Allowed == [code |-> Code, kind |-> Kind, severity |-> Severity,
            first |-> Nat \ {0}, resolve |-> Nat \ {0}, isActive |-> BOOLEAN]
Ordered(p) == p.first <= p.resolve

ASSUME SlaAssumption ==
    /\ "generic" \in Kind
    /\ Default \in Seq(Policy) /\ New \subseteq Policy
    /\ \A n \in 1..Len(Default) : Ordered(Default[n])
    /\ \A p \in New : Ordered(p)
    /\ \A e \in Edit : \A c \in DOMAIN e : c \in DOMAIN Allowed /\ e[c] \in Allowed[c]
    /\ \A c \in Case : KeyOf[c].kind \in Kind /\ KeyOf[c].severity \in Severity
    /\ MaxPolicies \in Nat
    /\ None \notin [policy : Nat, first : Nat, resolve : Nat]

VARIABLES
    policies,   \* the policy table, oldest first
    edit,       \* the edit an administrator's request is in the middle of
    op,         \* what each request on cases is in the middle of
    applied,    \* the terms each case carries; None before it is written
    crossed,    \* history: policies whose interval was checked against an outdated row
    outdated    \* history: cases whose terms predate a change of the policies

vars == <<policies, edit, op, applied, crossed, outdated>>

Row == 1..Len(policies)
NoTerms == [policy |-> 0, first |-> 30, resolve |-> 240]
Terms(i) == IF i = 0 THEN NoTerms
            ELSE [policy |-> i, first |-> policies[i].first, resolve |-> policies[i].resolve]
NoEdit == [pc |-> "idle", row |-> 0, sent |-> <<>>, read |-> None]
Idle == [task |-> "none", pc |-> "idle", next |-> 1, rest |-> {}, cur |-> None,
         found |-> NoTerms, fresh |-> FALSE]

Taken(code) == \E i \in Row : policies[i].code = code

Init ==
    /\ policies = <<>>
    /\ edit = [a \in Admin |-> NoEdit]
    /\ op = [w \in Worker |-> Idle]
    /\ applied = [c \in Case |-> None]
    /\ crossed = {} /\ outdated = {}

Written == {c \in Case : applied[c] # None}

\* Whoever is selecting may from now on be holding terms of the table as it was.
Outdate(requests) == [w \in Worker |-> [requests[w] EXCEPT !.fresh = FALSE]]

-----------------------------------------------------------------------------
\* Administrators

\* createSlaPolicy: the code is free when looked up and when the row is inserted.
CreateSlaPolicy(p) ==
    /\ Len(policies) < MaxPolicies
    /\ ~Taken(p.code)
    /\ policies' = Append(policies, p)
    /\ outdated' = Written
    /\ op' = Outdate(op)
    /\ UNCHANGED <<edit, applied, crossed>>

Sent(e, column) == column \in DOMAIN e
Value(p, e, column) == IF Sent(e, column) THEN e[column] ELSE p[column]

\* updateSlaPolicy: the row is found, and the new code is its own or free.
FindPolicy(a, i, e) ==
    /\ edit[a] = NoEdit
    /\ Sent(e, "code") => e.code = policies[i].code \/ ~Taken(e.code)
    /\ edit' = [edit EXCEPT ![a] = [pc |-> "found", row |-> i, sent |-> e, read |-> None]]
    /\ UNCHANGED <<policies, op, applied, crossed, outdated>>

\* (mutant) The interval is checked only when both minutes are sent.
CheckWhenBothSent(p, e) ==
    Sent(e, "first") /\ Sent(e, "resolve") => e.first <= e.resolve

\* The interval that would result, from the edit and the row as it is read.
IntervalAccepted(p, e) == Value(p, e, "first") <= Value(p, e, "resolve")

\* updateSlaPolicy: the minutes are read again and the interval is checked.
CheckInterval(a) ==
    LET p == policies[edit[a].row]
    IN  /\ edit[a].pc = "found"
        /\ edit' = [edit EXCEPT ![a] =
                      IF IntervalAccepted(p, edit[a].sent)
                      THEN [pc |-> "checked", row |-> edit[a].row,
                            sent |-> edit[a].sent, read |-> p]
                      ELSE NoEdit]
        /\ UNCHANGED <<policies, op, applied, crossed, outdated>>

\* (mutant) A code that was not sent is written all the same.
EditedWithoutCode(p, e) ==
    [code |-> IF Sent(e, "code") THEN e.code ELSE None,
     kind |-> Value(p, e, "kind"), severity |-> Value(p, e, "severity"),
     first |-> Value(p, e, "first"), resolve |-> Value(p, e, "resolve"),
     isActive |-> Value(p, e, "isActive")]

\* Only the columns that were sent are written.
Edited(p, e) ==
    [code |-> Value(p, e, "code"),
     kind |-> Value(p, e, "kind"), severity |-> Value(p, e, "severity"),
     first |-> Value(p, e, "first"), resolve |-> Value(p, e, "resolve"),
     isActive |-> Value(p, e, "isActive")]

\* Did the minutes the edit leaves alone change since its check?
Overtaken(p, e, read) == \E c \in Minutes : ~Sent(e, c) /\ p[c] # read[c]

\* updateSlaPolicy: the row update, which the unique code may refuse.
WritePolicy(a) ==
    LET i == edit[a].row
        e == edit[a].sent
        refused == Sent(e, "code") /\ e.code # policies[i].code /\ Taken(e.code)
    IN  /\ edit[a].pc = "checked"
        /\ edit' = [edit EXCEPT ![a] = NoEdit]
        /\ \/ refused /\ UNCHANGED <<policies, op, crossed, outdated>>
           \/ /\ ~refused
              /\ policies' = [policies EXCEPT ![i] = Edited(policies[i], e)]
              /\ crossed' = IF ~Overtaken(policies[i], e, edit[a].read) THEN crossed \ {i}
                            ELSE IF Sent(e, "first") \/ Sent(e, "resolve")
                            THEN crossed \cup {i} ELSE crossed
              /\ outdated' = Written
              /\ op' = Outdate(op)
        /\ UNCHANGED applied

\* A query of the edit throws, or the process dies.
AbandonEdit(a) ==
    /\ edit[a] # NoEdit
    /\ edit' = [edit EXCEPT ![a] = NoEdit]
    /\ UNCHANGED <<policies, op, applied, crossed, outdated>>

-----------------------------------------------------------------------------
\* Requests on cases

\* A case is created, updated or confirmed (some), or only the policies are listed (none).
ServeCases(w, some) ==
    /\ op[w].pc = "idle"
    /\ op' = [op EXCEPT ![w] = [Idle EXCEPT !.task = "serve", !.pc = "ensure", !.rest = some]]
    /\ UNCHANGED <<policies, edit, applied, crossed, outdated>>

\* recalculateSlaPolicies: the defaults first, and then every case there is.
StartRecalculate(w) ==
    /\ op[w].pc = "idle"
    /\ op' = [op EXCEPT ![w] = [Idle EXCEPT !.task = "recalculate", !.pc = "ensure"]]
    /\ UNCHANGED <<policies, edit, applied, crossed, outdated>>

\* ensureDefaultSlaPolicies: one upsert per default, which changes no existing row.
EnsureDefault(w) ==
    LET p == Default[op[w].next]
        moved == [op EXCEPT ![w].next = op[w].next + 1]
    IN  /\ op[w].pc = "ensure" /\ op[w].next <= Len(Default)
        /\ \/ Taken(p.code) /\ op' = moved /\ UNCHANGED <<policies, outdated>>
           \/ /\ ~Taken(p.code) /\ Len(policies) < MaxPolicies
              /\ policies' = Append(policies, p)
              /\ outdated' = Written
              /\ op' = Outdate(moved)
        /\ UNCHANGED <<edit, applied, crossed>>

Ensured(w) == op[w].pc = "ensure" /\ op[w].next > Len(Default)

\* The cases of a recalculation; each will have the defaults looked after again.
ListCases(w) ==
    /\ Ensured(w) /\ op[w].task = "recalculate"
    /\ op' = [op EXCEPT ![w] = IF Written = {} THEN Idle
                               ELSE [Idle EXCEPT !.task = "apply", !.pc = "ensure",
                                                 !.rest = Written]]
    /\ UNCHANGED <<policies, edit, applied, crossed, outdated>>

\* The next case of the request, or the end of a listing of the policies.
NextCase(w) ==
    /\ Ensured(w) /\ op[w].task # "recalculate"
    /\ \/ op[w].rest = {} /\ op' = [op EXCEPT ![w] = Idle]
       \/ \E c \in op[w].rest :
             op' = [op EXCEPT ![w] = [op[w] EXCEPT !.pc = "exact", !.cur = c,
                                                   !.rest = op[w].rest \ {c}, !.fresh = TRUE]]
    /\ UNCHANGED <<policies, edit, applied, crossed, outdated>>

ActiveFor(kind, severity) ==
    {i \in Row : policies[i].isActive /\ policies[i].kind = kind
                                      /\ policies[i].severity = severity}
ActiveMedium == {i \in Row : policies[i].isActive /\ policies[i].code = MediumCode}

\* (mutant) The newest of the matching policies.
Newest(S) == IF S = {} THEN 0 ELSE CHOOSE i \in S : \A j \in S : j <= i

\* findFirst, orderBy createdAt ascending.
Oldest(S) == IF S = {} THEN 0 ELSE CHOOSE i \in S : \A j \in S : i <= j

\* (mutant) The generic query forgets the severity.
AskedGenericAny(w) ==
    LET key == KeyOf[op[w].cur]
    IN  IF op[w].pc = "exact" THEN ActiveFor(key.kind, key.severity)
        ELSE IF op[w].pc = "generic"
             THEN {i \in Row : policies[i].isActive /\ policies[i].kind = "generic"}
        ELSE ActiveMedium

\* What the query the worker has come to asks for.
Asked(w) ==
    LET key == KeyOf[op[w].cur]
    IN  IF op[w].pc = "exact" THEN ActiveFor(key.kind, key.severity)
        ELSE IF op[w].pc = "generic" THEN ActiveFor("generic", key.severity)
        ELSE ActiveMedium

\* resolveSlaPolicy: each query is asked only when the one before found nothing.
Query(w) ==
    /\ op[w].pc \in {"exact", "generic", "medium"}
    /\ op' = [op EXCEPT ![w] =
                [op[w] EXCEPT
                    !.found = Terms(Oldest(Asked(w))),
                    !.pc = IF Asked(w) # {} \/ op[w].pc = "medium" THEN "write"
                           ELSE IF op[w].pc = "exact" THEN "generic" ELSE "medium"]]
    /\ UNCHANGED <<policies, edit, applied, crossed, outdated>>

\* The case takes the terms that were found, whatever the policies say by now.
WriteCase(w) ==
    LET c == op[w].cur
    IN  /\ op[w].pc = "write"
        /\ applied' = [applied EXCEPT ![c] = op[w].found]
        /\ outdated' = IF op[w].fresh THEN outdated \ {c} ELSE outdated \cup {c}
        /\ op' = [op EXCEPT ![w] =
                    IF op[w].rest = {} THEN Idle
                    ELSE [Idle EXCEPT !.task = op[w].task, !.pc = "ensure",
                                      !.rest = op[w].rest]]
        /\ UNCHANGED <<policies, edit, crossed>>

\* A query of the request throws, or the process dies.
Abandon(w) ==
    /\ op[w].pc # "idle"
    /\ op' = [op EXCEPT ![w] = Idle]
    /\ UNCHANGED <<policies, edit, applied, crossed, outdated>>

Next ==
    \/ \E p \in New : CreateSlaPolicy(p)
    \/ \E a \in Admin :
          \/ \E i \in Row, e \in Edit : FindPolicy(a, i, e)
          \/ CheckInterval(a) \/ WritePolicy(a) \/ AbandonEdit(a)
    \/ \E w \in Worker :
          \/ \E some \in {{}} \cup {{c} : c \in Case} : ServeCases(w, some)
          \/ StartRecalculate(w) \/ EnsureDefault(w) \/ ListCases(w) \/ NextCase(w)
          \/ Query(w) \/ WriteCase(w) \/ Abandon(w)

Spec == Init /\ [][Next]_vars

-----------------------------------------------------------------------------
\* Properties

InForce(c) ==
    LET exact == ActiveFor(KeyOf[c].kind, KeyOf[c].severity)
        generic == ActiveFor("generic", KeyOf[c].severity)
    IN  IF exact # {} THEN Oldest(exact)
        ELSE IF generic # {} THEN Oldest(generic) ELSE Oldest(ActiveMedium)

EditOK(x) ==
    /\ x.pc \in {"idle", "found", "checked"}
    /\ x.pc # "idle" => x.row \in Row /\ x.sent \in Edit
    /\ x.pc = "checked" => x.read \in Policy

CaseTerms == [policy : Nat, first : Nat, resolve : Nat]
Request == [task : {"none", "serve", "recalculate", "apply"},
            pc : {"idle", "ensure", "exact", "generic", "medium", "write"},
            next : Nat \ {0}, rest : SUBSET Case, cur : Case \cup {None},
            found : CaseTerms, fresh : BOOLEAN]
RequestOK(r) ==
    /\ r.pc \in {"exact", "generic", "medium", "write"} => r.cur \in Case
    /\ r.found.policy <= Len(policies)

TableOK ==
    /\ policies \in Seq(Policy)
    /\ edit = [a \in Admin |-> edit[a]]
    /\ \A a \in Admin : EditOK(edit[a])
    /\ crossed \subseteq Row
RequestsOK ==
    /\ op \in [Worker -> Request]
    /\ \A w \in Worker : RequestOK(op[w])
CasesOK ==
    /\ applied \in [Case -> CaseTerms \cup {None}]
    /\ \A c \in Written : applied[c].policy <= Len(policies)
    /\ outdated \subseteq Case

\* The columns of a policy keep their types (an edit never writes a column it was not
\* sent), and a case only carries the terms of a policy that exists.
TypeOK == TableOK /\ RequestsOK /\ CasesOK

\* No policy allows less time to resolve a case than to answer it, unless two edits of
\* its minutes overlapped.
IntervalsOrdered == \A i \in Row \ crossed : Ordered(policies[i])

\* A case written since the policies last changed carries the terms of the most specific
\* active policy: its own kind and severity, else generic of its severity, else the medium
\* default.
QueueFollowsPolicies ==
    \A c \in Case \ outdated : applied[c] # None => applied[c] = Terms(InForce(c))

\* A policy that appears (created by an administrator, or a default put back under its
\* old code after a renaming) takes a case over only from a less specific policy: an
\* administrator's version of a default stays in force when the default comes back.
Rank(c) ==
    IF ActiveFor(KeyOf[c].kind, KeyOf[c].severity) # {} THEN 1
    ELSE IF ActiveFor("generic", KeyOf[c].severity) # {} THEN 2
    ELSE IF ActiveMedium # {} THEN 3 ELSE 4

NewPoliciesYield ==
    [][Len(policies') > Len(policies) =>
          \A c \in Case : InForce(c)' = InForce(c) \/ Rank(c)' < Rank(c)]_vars
=============================================================================
