-------------------------- MODULE SlaPolicies_proofs --------------------------
(***************************************************************************)
(* For every set of defaults, policies and edits, and any number of        *)
(* requests: the policy table keeps its types, and the interval of every   *)
(* policy stays in order unless two edits of its minutes overlapped.       *)
(*                                                                         *)
(* The interval a row gets is the one that was checked only if the minutes *)
(* the edit leaves alone have not moved; so the invariant has to remember, *)
(* of every edit that has passed its check, that the row it READ, edited,  *)
(* is in order (ChecksHold).  That the cases follow the policies in force  *)
(* rests on what each of the three queries of a selection has seen of the  *)
(* table as it is today (FreshIn).                                         *)
(***************************************************************************)
EXTENDS SlaPolicies, WellFoundedInduction, TLAPS

\* What an edit between its check and its write has established.
ChecksHold ==
    \A a \in Admin : edit[a].pc = "checked" => Ordered(Edited(edit[a].read, edit[a].sent))

IInv == TableOK /\ ChecksHold /\ IntervalsOrdered

\* An edit that is sent allowed columns leaves a policy a policy.
LEMMA EditedPolicy ==
    ASSUME NEW p \in Policy, NEW e \in Edit
    PROVE  Edited(p, e) \in Policy
<1>1. \A c \in {"code", "kind", "severity", "first", "resolve", "isActive"} :
         Value(p, e, c) \in Allowed[c]
  BY SlaAssumption DEF Value, Sent, Policy, Allowed
<1> QED  BY <1>1 DEF Edited, Policy, Allowed

\* Its interval is the edited one of any row with the same minutes where it is silent.
LEMMA SameInterval ==
    ASSUME NEW p \in Policy, NEW q \in Policy, NEW e \in Edit, ~Overtaken(p, e, q),
           Ordered(Edited(q, e))
    PROVE  Ordered(Edited(p, e))
<1>1. Value(p, e, "first") = Value(q, e, "first")
  BY DEF Overtaken, Minutes, Value, Policy
<1>2. Value(p, e, "resolve") = Value(q, e, "resolve")
  BY DEF Overtaken, Minutes, Value, Policy
<1> QED  BY <1>1, <1>2 DEF Edited, Ordered

\* An edit that is sent no minutes leaves the interval as it was.
LEMMA UntouchedInterval ==
    ASSUME NEW p \in Policy, NEW e \in Edit, ~Sent(e, "first"), ~Sent(e, "resolve"),
           Ordered(p)
    PROVE  Ordered(Edited(p, e))
BY DEF Edited, Ordered, Value

\* With no policy there is nothing out of order.
LEMMA Initially == Init => IInv
BY DEF Init, IInv, TableOK, EditOK, NoEdit, ChecksHold, IntervalsOrdered, Row

\* A policy with its interval in order is put at the end of the table.
LEMMA Grown ==
    ASSUME IInv, NEW p \in Policy, Ordered(p), policies' = Append(policies, p),
           edit' = edit, crossed' = crossed
    PROVE  IInv'
<1>1. /\ policies' \in Seq(Policy) /\ Len(policies') = Len(policies) + 1
      /\ \A i \in Row : policies'[i] = policies[i]
      /\ policies'[Len(policies) + 1] = p
  BY DEF IInv, TableOK, Row
<1>2. TableOK'
  BY <1>1 DEF IInv, TableOK, EditOK, Row
<1>3. ChecksHold'
  BY DEF IInv, ChecksHold
<1>4. IntervalsOrdered'
  <2> SUFFICES ASSUME NEW i \in Row', i \notin crossed
               PROVE  Ordered(policies'[i])
    BY DEF IntervalsOrdered
  <2>1. CASE i \in Row
    BY <2>1, <1>1 DEF IInv, IntervalsOrdered
  <2>2. CASE i = Len(policies) + 1
    BY <2>2, <1>1
  <2> QED  BY <2>1, <2>2, <1>1 DEF Row, IInv, TableOK
<1> QED  BY <1>2, <1>3, <1>4 DEF IInv

\* The table stays, and the requests on policies too or one of them moves to x.
LEMMA Moved ==
    ASSUME IInv, NEW a \in Admin, NEW x, edit' = [edit EXCEPT ![a] = x], EditOK(x),
           x.pc = "checked" => Ordered(Edited(x.read, x.sent)),
           policies' = policies, crossed' = crossed
    PROVE  IInv'
<1>1. \A b \in Admin : edit'[b] = (IF b = a THEN x ELSE edit[b])
  BY DEF IInv, TableOK
<1>2. edit' = [b \in Admin |-> edit'[b]]
  BY DEF IInv, TableOK
<1>3. TableOK'
  BY <1>1, <1>2 DEF IInv, TableOK, EditOK, Row
<1>4. ChecksHold'
  BY <1>1 DEF IInv, ChecksHold
<1>5. IntervalsOrdered'
  BY DEF IInv, IntervalsOrdered, Row
<1> QED  BY <1>3, <1>4, <1>5 DEF IInv

\* Finding the policy of an edit.
LEMMA FindKeeps ==
    ASSUME IInv, NEW a \in Admin, NEW i \in Row, NEW e \in Edit, FindPolicy(a, i, e)
    PROVE  IInv'
<1> DEFINE x == [pc |-> "found", row |-> i, sent |-> e, read |-> None]
<1>1. EditOK(x) /\ x.pc # "checked"
  BY DEF EditOK
<1>2. edit' = [edit EXCEPT ![a] = x] /\ policies' = policies /\ crossed' = crossed
  BY DEF FindPolicy
<1> HIDE DEF x
<1> QED  BY <1>1, <1>2, Moved

\* Passing the check of the interval is what ChecksHold remembers.
LEMMA CheckKeeps ==
    ASSUME IInv, NEW a \in Admin, CheckInterval(a)
    PROVE  IInv'
<1> DEFINE p == policies[edit[a].row]
           x == IF IntervalAccepted(p, edit[a].sent)
                THEN [pc |-> "checked", row |-> edit[a].row, sent |-> edit[a].sent, read |-> p]
                ELSE NoEdit
<1>1. edit[a].row \in Row /\ edit[a].sent \in Edit
  BY DEF CheckInterval, IInv, TableOK, EditOK
<1>2. p \in Policy
  BY <1>1 DEF IInv, TableOK, Row
<1>3. EditOK(x)
  BY <1>1, <1>2 DEF EditOK, NoEdit
<1>4. x.pc = "checked" => Ordered(Edited(x.read, x.sent))
  BY DEF NoEdit, IntervalAccepted, Ordered, Edited
<1>5. edit' = [edit EXCEPT ![a] = x] /\ policies' = policies /\ crossed' = crossed
  BY DEF CheckInterval
<1> HIDE DEF x
<1> QED  BY <1>3, <1>4, <1>5, Moved

\* Giving an edit up.
LEMMA AbandonKeeps ==
    ASSUME IInv, NEW a \in Admin, AbandonEdit(a)
    PROVE  IInv'
<1>1. EditOK(NoEdit) /\ NoEdit.pc # "checked"
  BY DEF EditOK, NoEdit
<1> QED  BY <1>1, Moved DEF AbandonEdit

\* The write of an edit: the row it lands on may no longer be the row it checked.
LEMMA WriteKeeps ==
    ASSUME IInv, NEW a \in Admin, WritePolicy(a)
    PROVE  IInv'
<1> DEFINE i == edit[a].row
           e == edit[a].sent
           read == edit[a].read
<1>1. i \in Row /\ e \in Edit /\ read \in Policy /\ Ordered(Edited(read, e))
  BY DEF WritePolicy, IInv, TableOK, EditOK, ChecksHold
<1>2. policies[i] \in Policy /\ i \in Nat /\ Len(policies) \in Nat
  BY <1>1 DEF IInv, TableOK, Row
<1>3. edit' = [edit EXCEPT ![a] = NoEdit]
  BY DEF WritePolicy
<1>4. EditOK(NoEdit) /\ NoEdit.pc # "checked"
  BY DEF EditOK, NoEdit
<1>5. CASE policies' = policies /\ crossed' = crossed
  BY <1>3, <1>4, <1>5, Moved
<1>6. CASE /\ policies' = [policies EXCEPT ![i] = Edited(policies[i], e)]
           /\ crossed' = IF ~Overtaken(policies[i], e, read) THEN crossed \ {i}
                         ELSE IF Sent(e, "first") \/ Sent(e, "resolve")
                         THEN crossed \cup {i} ELSE crossed
  <2>1. Edited(policies[i], e) \in Policy
    BY <1>1, <1>2, EditedPolicy
  <2>2. /\ policies' \in Seq(Policy) /\ Len(policies') = Len(policies)
        /\ \A j \in Row : policies'[j] = (IF j = i THEN Edited(policies[i], e) ELSE policies[j])
    BY <1>1, <1>2, <1>6, <2>1 DEF IInv, TableOK, Row
  <2>3. crossed' \subseteq Row
    BY <1>1, <1>6 DEF IInv, TableOK
  <2>4. \A b \in Admin : edit'[b] = (IF b = a THEN NoEdit ELSE edit[b])
    BY <1>3 DEF IInv, TableOK
  <2>5. edit' = [b \in Admin |-> edit'[b]]
    BY <1>3 DEF IInv, TableOK
  <2>6. TableOK'
    BY <2>2, <2>3, <2>4, <2>5, <1>4 DEF IInv, TableOK, EditOK, Row
  <2>7. ChecksHold'
    BY <2>4, <1>4 DEF IInv, ChecksHold
  <2>8. i \in crossed' \/ Ordered(Edited(policies[i], e))
    <3>1. CASE ~Overtaken(policies[i], e, read)
      BY <3>1, <1>1, <1>2, SameInterval
    <3>2. CASE Overtaken(policies[i], e, read) /\ (Sent(e, "first") \/ Sent(e, "resolve"))
      BY <3>2, <1>6
    <3>3. CASE Overtaken(policies[i], e, read) /\ ~(Sent(e, "first") \/ Sent(e, "resolve"))
      <4>1. i \in crossed' \/ Ordered(policies[i])
        BY <3>3, <1>1, <1>6 DEF IInv, IntervalsOrdered
      <4> QED  BY <4>1, <3>3, <1>1, <1>2, UntouchedInterval
    <3> QED  BY <3>1, <3>2, <3>3
  <2>9. \A j \in Row : j # i /\ j \notin crossed' => j \notin crossed
    BY <1>6
  <2>10. IntervalsOrdered'
    BY <2>2, <2>8, <2>9 DEF IInv, IntervalsOrdered, Row
  <2> QED  BY <2>6, <2>7, <2>10 DEF IInv
<1> QED  BY <1>5, <1>6 DEF WritePolicy

\* Every step keeps the invariant; only the requests on policies and the steps that add a
\* policy touch what it is about.
LEMMA StepKeeps == IInv /\ RequestsOK /\ [Next]_vars => IInv'
<1> SUFFICES ASSUME IInv, RequestsOK, [Next]_vars
             PROVE  IInv'
  OBVIOUS
<1>1. ASSUME policies' = policies, edit' = edit, crossed' = crossed
      PROVE  IInv'
  BY <1>1 DEF IInv, TableOK, EditOK, ChecksHold, IntervalsOrdered, Row
<1>2. CASE UNCHANGED vars
  BY <1>1, <1>2 DEF vars
<1>3. ASSUME NEW p \in New, CreateSlaPolicy(p)
      PROVE  IInv'
  <2>1. p \in Policy /\ Ordered(p)
    BY SlaAssumption
  <2> QED  BY <1>3, <2>1, Grown DEF CreateSlaPolicy
<1>4. ASSUME NEW a \in Admin, NEW i \in Row, NEW e \in Edit, FindPolicy(a, i, e)
      PROVE  IInv'
  BY <1>4, FindKeeps
<1>5. ASSUME NEW a \in Admin, CheckInterval(a) \/ WritePolicy(a) \/ AbandonEdit(a)
      PROVE  IInv'
  BY <1>5, CheckKeeps, WriteKeeps, AbandonKeeps
<1>6. ASSUME NEW w \in Worker, EnsureDefault(w)
      PROVE  IInv'
  <2>1. CASE UNCHANGED policies
    BY <1>6, <2>1, <1>1 DEF EnsureDefault
  <2>2. CASE policies' = Append(policies, Default[op[w].next])
    <3>1. op[w].next \in 1..Len(Default)
      BY <1>6, SlaAssumption DEF EnsureDefault, RequestsOK, Request
    <3>2. Default[op[w].next] \in Policy /\ Ordered(Default[op[w].next])
      BY <3>1, SlaAssumption
    <3> QED  BY <1>6, <2>2, <3>2, Grown DEF EnsureDefault
  <2> QED  BY <1>6, <2>1, <2>2 DEF EnsureDefault
<1>7. ASSUME NEW w \in Worker,
             \/ \E some \in {{}} \cup {{c} : c \in Case} : ServeCases(w, some)
             \/ StartRecalculate(w) \/ ListCases(w) \/ NextCase(w)
             \/ Query(w) \/ WriteCase(w) \/ Abandon(w)
      PROVE  IInv'
  BY <1>7, <1>1 DEF ServeCases, StartRecalculate, ListCases, NextCase, Query, WriteCase, Abandon
<1> QED  BY <1>2, <1>3, <1>4, <1>5, <1>6, <1>7 DEF Next

-----------------------------------------------------------------------------
\* The requests on cases, and the cases

\* A request moves to r and the table stays.
LEMMA RequestMoves ==
    ASSUME RequestsOK, NEW w \in Worker, NEW r \in Request, RequestOK(r),
           op' = [op EXCEPT ![w] = r], policies' = policies
    PROVE  RequestsOK'
<1>1. \A v \in Worker : op'[v] = (IF v = w THEN r ELSE op[v])
  BY DEF RequestsOK
<1> QED  BY <1>1 DEF RequestsOK, RequestOK

\* An idle request is a request that holds no terms.
LEMMA IdleOK == ASSUME TableOK PROVE Idle \in Request /\ RequestOK(Idle)
BY DEF TableOK, Idle, Request, RequestOK, NoTerms, CaseTerms

\* A request that starts, or takes its next case, holds no terms yet.
LEMMA FreshStart ==
    ASSUME TableOK, NEW task \in {"none", "serve", "recalculate", "apply"},
           NEW rest \in SUBSET Case
    PROVE  LET r == [Idle EXCEPT !.task = task, !.pc = "ensure", !.rest = rest]
           IN  r \in Request /\ RequestOK(r)
<1> DEFINE r == [Idle EXCEPT !.task = task, !.pc = "ensure", !.rest = rest]
<1>1. Idle \in Request /\ Idle.found.policy <= Len(policies)
  BY IdleOK DEF RequestOK
<1>2. r \in Request
  BY <1>1 DEF Request
<1>3. r.pc = "ensure" /\ r.found = Idle.found
  BY <1>1 DEF Request
<1>4. RequestOK(r)
  BY <1>1, <1>3 DEF RequestOK
<1> QED  BY <1>2, <1>4

\* A request that learns its terms are old is otherwise unchanged.
LEMMA NoLongerFresh ==
    ASSUME NEW r \in Request
    PROVE  LET q == [r EXCEPT !.fresh = FALSE]
           IN  q \in Request /\ q.pc = r.pc /\ q.cur = r.cur /\ q.found = r.found
BY DEF Request

\* The table grows or changes, and every request learns that its terms may be old.
LEMMA RequestsOutdated ==
    ASSUME TableOK, NEW requests \in [Worker -> Request],
           \A w \in Worker : RequestOK(requests[w]),
           op' = Outdate(requests), policies' \in Seq(Policy), Len(policies') >= Len(policies)
    PROVE  RequestsOK'
<1>1. Len(policies) \in Nat /\ Len(policies') \in Nat
  BY DEF TableOK
<1>2. ASSUME NEW w \in Worker
      PROVE  op'[w] = [requests[w] EXCEPT !.fresh = FALSE]
  BY DEF Outdate
<1>3. ASSUME NEW w \in Worker
      PROVE  op'[w] \in Request /\ RequestOK(op[w])'
  <2>1. requests[w] \in Request /\ RequestOK(requests[w])
    OBVIOUS
  <2>2. requests[w].found.policy \in Nat
    BY <2>1 DEF Request, CaseTerms
  <2>3. /\ op'[w] \in Request /\ op'[w].pc = requests[w].pc
        /\ op'[w].cur = requests[w].cur /\ op'[w].found = requests[w].found
    BY <1>2, <2>1, NoLongerFresh
  <2> QED  BY <2>1, <2>2, <2>3, <1>1 DEF RequestOK
<1>4. op' = [w \in Worker |-> op'[w]]
  BY DEF Outdate
<1> QED  BY <1>3, <1>4 DEF RequestsOK

\* A set of numbers that is not empty has a smallest: findFirst finds a row.
LEMMA SmallestNumber ==
    ASSUME NEW S \in SUBSET Nat, S # {}
    PROVE  \E i \in S : \A j \in S : i <= j
<1>1. \E i \in S : \A j \in S : <<j, i>> \notin OpToRel(<, Nat)
  BY NatLessThanWellFounded, WFMin
<1>2. PICK i \in S : \A j \in S : <<j, i>> \notin OpToRel(<, Nat)
  BY <1>1
<1>3. ASSUME NEW j \in S
      PROVE  i <= j
  <2>1. ~(j < i)
    BY <1>2 DEF OpToRel
  <2> QED  BY <2>1
<1> QED  BY <1>3

\* The query of a request finds the terms of an existing policy, or none.
LEMMA FoundOK ==
    ASSUME TableOK, NEW S \in SUBSET Row
    PROVE  Terms(Oldest(S)) \in CaseTerms /\ Terms(Oldest(S)).policy <= Len(policies)
<1>1. Len(policies) \in Nat /\ Row \subseteq Nat /\ \A i \in Row : policies[i] \in Policy
  BY DEF TableOK, Row
<1>2. S = {} => Oldest(S) = 0
  BY DEF Oldest
<1>3. S # {} => \E i \in S : \A j \in S : i <= j
  BY <1>1, SmallestNumber
<1>4. S # {} => Oldest(S) \in S
  BY <1>3 DEF Oldest
<1>5. CASE Oldest(S) = 0
  BY <1>5, <1>1 DEF Terms, NoTerms, CaseTerms
<1>6. CASE Oldest(S) \in Row
  <2>1. policies[Oldest(S)] \in Policy /\ Oldest(S) \in Nat /\ Oldest(S) # 0
        /\ Oldest(S) <= Len(policies)
    BY <1>6, <1>1 DEF Row
  <2> QED  BY <2>1 DEF Terms, CaseTerms, Policy
<1> QED  BY <1>2, <1>4, <1>5, <1>6

\* A record of a request with some fields replaced is a record of a request.
LEMMA RequestsStep ==
    ASSUME TypeOK, [Next]_vars, TableOK'
    PROVE  RequestsOK'
<1>1. TableOK /\ RequestsOK /\ CasesOK
  BY DEF TypeOK
<1>2. \A w \in Worker : op[w] \in Request /\ RequestOK(op[w])
  BY <1>1 DEF RequestsOK
<1>3. Idle \in Request /\ RequestOK(Idle)
  BY <1>1, IdleOK
<1>4. Len(policies) \in Nat /\ policies \in Seq(Policy) /\ policies' \in Seq(Policy)
  BY <1>1 DEF TableOK
<1>5. Written \subseteq Case
  BY DEF Written
<1>6. CASE UNCHANGED vars
  BY <1>1, <1>6 DEF vars, RequestsOK, RequestOK
<1>7. ASSUME NEW p \in New, CreateSlaPolicy(p)
      PROVE  RequestsOK'
  <2>1. Len(policies') >= Len(policies) /\ op' = Outdate(op)
    BY <1>7, <1>4, SlaAssumption DEF CreateSlaPolicy
  <2> QED  BY <2>1, <1>1, <1>2, <1>4, RequestsOutdated DEF RequestsOK
<1>8. ASSUME NEW a \in Admin,
             \/ \E i \in Row, e \in Edit : FindPolicy(a, i, e)
             \/ CheckInterval(a) \/ AbandonEdit(a)
      PROVE  RequestsOK'
  <2>1. op' = op /\ policies' = policies
    BY <1>8 DEF FindPolicy, CheckInterval, AbandonEdit
  <2> QED  BY <2>1, <1>1 DEF RequestsOK, RequestOK
<1>9. ASSUME NEW a \in Admin, WritePolicy(a)
      PROVE  RequestsOK'
  <2>1. CASE op' = op /\ policies' = policies
    BY <2>1, <1>1 DEF RequestsOK, RequestOK
  <2>2. CASE /\ op' = Outdate(op)
             /\ policies' = [policies EXCEPT ![edit[a].row] =
                                Edited(policies[edit[a].row], edit[a].sent)]
    <3>1. Len(policies') = Len(policies)
      BY <2>2, <1>4
    <3> QED  BY <3>1, <2>2, <1>1, <1>2, <1>4, RequestsOutdated DEF RequestsOK
  <2> QED  BY <1>9, <2>1, <2>2 DEF WritePolicy
<1>10. ASSUME NEW w \in Worker, NEW some \in {{}} \cup {{c} : c \in Case}, ServeCases(w, some)
       PROVE  RequestsOK'
  <2> DEFINE r == [Idle EXCEPT !.task = "serve", !.pc = "ensure", !.rest = some]
  <2>0. some \in SUBSET Case
    OBVIOUS
  <2>1. r \in Request /\ RequestOK(r)
    BY <2>0, <1>1, FreshStart
  <2>2. op' = [op EXCEPT ![w] = r] /\ policies' = policies
    BY <1>10 DEF ServeCases
  <2> HIDE DEF r
  <2> QED  BY <2>1, <2>2, <1>1, RequestMoves
<1>11. ASSUME NEW w \in Worker, StartRecalculate(w)
       PROVE  RequestsOK'
  <2> DEFINE r == [Idle EXCEPT !.task = "recalculate", !.pc = "ensure"]
  <2>1. r \in Request /\ RequestOK(r)
    BY <1>3 DEF Request, RequestOK, Idle, NoTerms
  <2>2. op' = [op EXCEPT ![w] = r] /\ policies' = policies
    BY <1>11 DEF StartRecalculate
  <2> HIDE DEF r
  <2> QED  BY <2>1, <2>2, <1>1, RequestMoves
<1>12. ASSUME NEW w \in Worker, EnsureDefault(w)
       PROVE  RequestsOK'
  <2> DEFINE r == [op[w] EXCEPT !.next = op[w].next + 1]
  <2>1. r \in Request /\ RequestOK(r)
    BY <1>2 DEF Request, RequestOK
  <2> DEFINE moved == [op EXCEPT ![w] = r]
  <2>2. moved \in [Worker -> Request] /\ \A v \in Worker : RequestOK(moved[v])
    BY <2>1, <1>1, <1>2 DEF RequestsOK
  <2>3. \/ op' = moved /\ policies' = policies
        \/ op' = Outdate(moved) /\ policies' = Append(policies, Default[op[w].next])
    BY <1>12 DEF EnsureDefault
  <2> HIDE DEF r, moved
  <2>4. CASE op' = moved /\ policies' = policies
    BY <2>4, <2>2 DEF RequestsOK, RequestOK
  <2>5. CASE op' = Outdate(moved) /\ policies' = Append(policies, Default[op[w].next])
    <3>1. Len(policies') >= Len(policies)
      BY <2>5, <1>4
    <3> QED  BY <3>1, <2>2, <2>5, <1>1, <1>4, RequestsOutdated
  <2> QED  BY <2>3, <2>4, <2>5
<1>13. ASSUME NEW w \in Worker, ListCases(w)
       PROVE  RequestsOK'
  <2> DEFINE r == IF Written = {} THEN Idle
                  ELSE [Idle EXCEPT !.task = "apply", !.pc = "ensure", !.rest = Written]
  <2>1. r \in Request /\ RequestOK(r)
    BY <1>1, <1>3, <1>5, FreshStart
  <2>2. op' = [op EXCEPT ![w] = r] /\ policies' = policies
    BY <1>13 DEF ListCases
  <2> HIDE DEF r
  <2> QED  BY <2>1, <2>2, <1>1, RequestMoves
<1>14. ASSUME NEW w \in Worker, NextCase(w)
       PROVE  RequestsOK'
  <2>1. CASE op' = [op EXCEPT ![w] = Idle]
    BY <2>1, <1>14, <1>1, <1>3, RequestMoves DEF NextCase
  <2>2. ASSUME NEW c \in op[w].rest,
               op' = [op EXCEPT ![w] = [op[w] EXCEPT !.pc = "exact", !.cur = c,
                                          !.rest = op[w].rest \ {c}, !.fresh = TRUE]]
        PROVE  RequestsOK'
    <3> DEFINE r == [op[w] EXCEPT !.pc = "exact", !.cur = c,
                                  !.rest = op[w].rest \ {c}, !.fresh = TRUE]
    <3>1. op[w] \in Request /\ op[w].found.policy <= Len(policies) /\ op[w].rest \subseteq Case
      BY <1>2 DEF RequestOK, Request
    <3>2. r \in Request /\ r.cur = c /\ r.found = op[w].found
      BY <3>1 DEF Request
    <3>3. RequestOK(r)
      BY <3>1, <3>2 DEF RequestOK
    <3>4. op' = [op EXCEPT ![w] = r] /\ policies' = policies
      BY <2>2, <1>14 DEF NextCase
    <3> HIDE DEF r
    <3> QED  BY <3>2, <3>3, <3>4, <1>1, RequestMoves
  <2> QED  BY <1>14, <2>1, <2>2 DEF NextCase
<1>15. ASSUME NEW w \in Worker, Query(w)
       PROVE  RequestsOK'
  <2> DEFINE found == Terms(Oldest(Asked(w)))
             pc == IF Asked(w) # {} \/ op[w].pc = "medium" THEN "write"
                   ELSE IF op[w].pc = "exact" THEN "generic" ELSE "medium"
             r == [op[w] EXCEPT !.found = found, !.pc = pc]
  <2>1. Asked(w) \subseteq Row
    BY DEF Asked, ActiveFor, ActiveMedium
  <2>2. found \in CaseTerms /\ found.policy <= Len(policies)
    BY <2>1, <1>1, FoundOK
  <2>3. pc \in {"write", "generic", "medium"}
    OBVIOUS
  <2>4. op[w] \in Request /\ op[w].cur \in Case
    BY <1>2, <1>15 DEF RequestOK, Query
  <2>5. op' = [op EXCEPT ![w] = r] /\ policies' = policies
    BY <1>15 DEF Query
  <2> HIDE DEF found, pc
  <2>6. r \in Request /\ r.cur = op[w].cur /\ r.found = found
    BY <2>2, <2>3, <2>4 DEF Request
  <2>7. RequestOK(r)
    BY <2>2, <2>4, <2>6 DEF RequestOK
  <2> HIDE DEF r
  <2> QED  BY <2>5, <2>6, <2>7, <1>1, RequestMoves
<1>16. ASSUME NEW w \in Worker, WriteCase(w)
       PROVE  RequestsOK'
  <2> DEFINE r == IF op[w].rest = {} THEN Idle
                  ELSE [Idle EXCEPT !.task = op[w].task, !.pc = "ensure",
                                    !.rest = op[w].rest]
  <2>0. /\ op[w].task \in {"none", "serve", "recalculate", "apply"}
        /\ op[w].rest \in SUBSET Case
    BY <1>2 DEF Request
  <2>1. r \in Request /\ RequestOK(r)
    BY <2>0, <1>1, <1>3, FreshStart
  <2>2. op' = [op EXCEPT ![w] = r] /\ policies' = policies
    BY <1>16 DEF WriteCase
  <2> HIDE DEF r
  <2> QED  BY <2>1, <2>2, <1>1, RequestMoves
<1>17. ASSUME NEW w \in Worker, Abandon(w)
       PROVE  RequestsOK'
  BY <1>17, <1>1, <1>3, RequestMoves DEF Abandon
<1> QED
  BY <1>6, <1>7, <1>8, <1>9, <1>10, <1>11, <1>12, <1>13, <1>14, <1>15, <1>16, <1>17 DEF Next

\* Only WriteCase writes a case, and the table never shrinks.
LEMMA CasesStep ==
    ASSUME TypeOK, [Next]_vars, TableOK'
    PROVE  CasesOK'
<1>1. TableOK /\ RequestsOK /\ CasesOK
  BY DEF TypeOK
<1>2. Len(policies) \in Nat /\ Len(policies') \in Nat /\ policies \in Seq(Policy)
  BY <1>1 DEF TableOK
<1>3. Written \subseteq Case
  BY DEF Written
<1>4. ASSUME applied' = applied, Len(policies') >= Len(policies), outdated' \subseteq Case
      PROVE  CasesOK'
  <2>1. ASSUME NEW c \in Written'
        PROVE  applied'[c].policy <= Len(policies')
    <3>1. c \in Written /\ c \in Case /\ applied[c] # None
      BY <1>4, <2>1 DEF Written
    <3>2. applied[c] \in CaseTerms
      BY <3>1, <1>1 DEF CasesOK
    <3>3. applied[c].policy \in Nat /\ applied[c].policy <= Len(policies)
      BY <3>1, <3>2, <1>1 DEF CasesOK, CaseTerms
    <3> QED  BY <3>3, <1>2, <1>4
  <2> QED  BY <2>1, <1>1, <1>4 DEF CasesOK
<1>5. CASE UNCHANGED vars
  BY <1>4, <1>5, <1>2, <1>1 DEF vars, CasesOK
<1>6. ASSUME NEW p \in New, CreateSlaPolicy(p)
      PROVE  CasesOK'
  BY <1>6, <1>4, <1>2, <1>3, SlaAssumption DEF CreateSlaPolicy
<1>7. ASSUME NEW a \in Admin,
             \/ \E i \in Row, e \in Edit : FindPolicy(a, i, e)
             \/ CheckInterval(a) \/ AbandonEdit(a)
      PROVE  CasesOK'
  <2>1. applied' = applied /\ policies' = policies /\ outdated' = outdated
    BY <1>7 DEF FindPolicy, CheckInterval, AbandonEdit
  <2> QED  BY <2>1, <1>4, <1>2, <1>1 DEF CasesOK
<1>8. ASSUME NEW a \in Admin, WritePolicy(a)
      PROVE  CasesOK'
  <2>1. applied' = applied /\ Len(policies') = Len(policies)
    BY <1>8, <1>2 DEF WritePolicy
  <2>2. outdated' = outdated \/ outdated' = Written
    BY <1>8 DEF WritePolicy
  <2> QED  BY <2>1, <2>2, <1>4, <1>2, <1>3, <1>1 DEF CasesOK
<1>9. ASSUME NEW w \in Worker, EnsureDefault(w)
      PROVE  CasesOK'
  <2>1. applied' = applied /\ Len(policies') >= Len(policies)
    BY <1>9, <1>2 DEF EnsureDefault
  <2>2. outdated' = outdated \/ outdated' = Written
    BY <1>9 DEF EnsureDefault
  <2> QED  BY <2>1, <2>2, <1>4, <1>3, <1>1 DEF CasesOK
<1>10. ASSUME NEW w \in Worker,
              \/ \E some \in {{}} \cup {{c} : c \in Case} : ServeCases(w, some)
              \/ StartRecalculate(w) \/ ListCases(w) \/ NextCase(w)
              \/ Query(w) \/ Abandon(w)
       PROVE  CasesOK'
  <2>1. applied' = applied /\ policies' = policies /\ outdated' = outdated
    BY <1>10 DEF ServeCases, StartRecalculate, ListCases, NextCase, Query, Abandon
  <2> QED  BY <2>1, <1>4, <1>2, <1>1 DEF CasesOK
<1>11. ASSUME NEW w \in Worker, WriteCase(w)
       PROVE  CasesOK'
  <2> DEFINE c == op[w].cur
             t == op[w].found
  <2>1. c \in Case /\ t \in CaseTerms /\ t.policy <= Len(policies)
    BY <1>11, <1>1 DEF WriteCase, RequestsOK, RequestOK, Request
  <2>2. applied' = [applied EXCEPT ![c] = t] /\ policies' = policies /\ outdated' \subseteq Case
    BY <1>11, <2>1, <1>1 DEF WriteCase, CasesOK
  <2> HIDE DEF c, t
  <2>3. ASSUME NEW d \in Written'
        PROVE  applied'[d].policy <= Len(policies')
    <3>1. CASE d = c
      BY <3>1, <2>1, <2>2, <1>1 DEF CasesOK
    <3>2. CASE d # c
      BY <3>2, <2>3, <2>2, <1>1 DEF CasesOK, Written
    <3> QED  BY <3>1, <3>2
  <2> QED  BY <2>1, <2>2, <2>3, <1>1 DEF CasesOK
<1> QED  BY <1>5, <1>6, <1>7, <1>8, <1>9, <1>10, <1>11 DEF Next

-----------------------------------------------------------------------------
\* The theorems

\* The types hold before the first step.
LEMMA InitiallyTyped == Init => TypeOK
<1> SUFFICES ASSUME Init PROVE TypeOK
  OBVIOUS
<1>1. TableOK
  BY DEF Init, TableOK, EditOK, NoEdit, Row
<1>2. Idle \in Request /\ RequestOK(Idle)
  BY <1>1, IdleOK
<1>3. RequestsOK
  BY <1>2 DEF Init, RequestsOK
<1>4. CasesOK
  BY DEF Init, CasesOK, Written
<1> QED  BY <1>1, <1>3, <1>4 DEF TypeOK

\* Types, checks and intervals together are inductive: from the code of the edits and of
\* the inserts, whatever the requests on cases do meanwhile.
LEMMA Inductive == Spec => [](TypeOK /\ IInv)
<1>1. Init => TypeOK /\ IInv
  BY InitiallyTyped, Initially
<1>2. TypeOK /\ IInv /\ [Next]_vars => (TypeOK /\ IInv)'
  <2> SUFFICES ASSUME TypeOK, IInv, [Next]_vars
               PROVE  (TypeOK /\ IInv)'
    OBVIOUS
  <2>1. IInv'
    BY StepKeeps DEF TypeOK
  <2>2. TableOK'
    BY <2>1 DEF IInv
  <2> QED  BY <2>1, <2>2, RequestsStep, CasesStep DEF TypeOK
<1> QED  BY <1>1, <1>2, PTL DEF Spec

\* Type correctness: an edit writes the columns it was sent and no other, and a case
\* carries the terms of a policy that exists (createSlaPolicy, updateSlaPolicy,
\* resolveSlaPolicy).
THEOREM PoliciesTyped == Spec => []TypeOK
BY Inductive, PTL

\* The interval of a policy is in order unless two edits of its minutes overlapped: the
\* check of updateSlaPolicy covers everything but the time between its read and its write.
THEOREM IntervalsCorrect == Spec => []IntervalsOrdered
<1>1. IInv => IntervalsOrdered
  BY DEF IInv
<1> QED  BY <1>1, Inductive, PTL

-----------------------------------------------------------------------------
\* The terms of the cases

\* The queries as functions of the table.
ActiveIn(t, kind, severity) ==
    {i \in 1..Len(t) : t[i].isActive /\ t[i].kind = kind /\ t[i].severity = severity}
MediumIn(t) == {i \in 1..Len(t) : t[i].isActive /\ t[i].code = MediumCode}
InForceIn(t, c) ==
    IF ActiveIn(t, KeyOf[c].kind, KeyOf[c].severity) # {}
    THEN Oldest(ActiveIn(t, KeyOf[c].kind, KeyOf[c].severity))
    ELSE IF ActiveIn(t, "generic", KeyOf[c].severity) # {}
    THEN Oldest(ActiveIn(t, "generic", KeyOf[c].severity))
    ELSE Oldest(MediumIn(t))
TermsIn(t, i) == IF i = 0 THEN NoTerms
                 ELSE [policy |-> i, first |-> t[i].first, resolve |-> t[i].resolve]

\* They are what the model asks of the table as it is.
LEMMA TheTable ==
    /\ \A k, s : ActiveFor(k, s) = ActiveIn(policies, k, s)
    /\ ActiveMedium = MediumIn(policies)
    /\ \A i : Terms(i) = TermsIn(policies, i)
    /\ \A c : InForce(c) = InForceIn(policies, c)
BY DEF ActiveFor, ActiveIn, ActiveMedium, MediumIn, Terms, TermsIn, InForce, InForceIn, Row

\* What a request whose queries all saw the table t has found out so far.
FreshIn(t, r) ==
    /\ r.pc \in {"idle", "ensure"} => ~r.fresh
    /\ r.fresh /\ r.pc \in {"generic", "medium"} =>
          ActiveIn(t, KeyOf[r.cur].kind, KeyOf[r.cur].severity) = {}
    /\ r.fresh /\ r.pc = "medium" => ActiveIn(t, "generic", KeyOf[r.cur].severity) = {}
    /\ r.fresh /\ r.pc = "write" => r.found = TermsIn(t, InForceIn(t, r.cur))

CaseFollows ==
    \A c \in Case \ outdated : applied[c] # None =>
        applied[c] = TermsIn(policies, InForceIn(policies, c))

Follows == CaseFollows /\ \A w \in Worker : FreshIn(policies, op[w])

\* One request moves on, over the same table.
LEMMA FollowsMoves ==
    ASSUME TypeOK, Follows, NEW w \in Worker, NEW r, op' = [op EXCEPT ![w] = r],
           FreshIn(policies, r), UNCHANGED <<policies, applied, outdated>>
    PROVE  Follows'
<1>1. \A v \in Worker : op'[v] = (IF v = w THEN r ELSE op[v])
  BY DEF TypeOK, RequestsOK
<1>2. \A v \in Worker : FreshIn(policies', op'[v])
  BY <1>1 DEF Follows
<1>3. CaseFollows'
  BY DEF Follows, CaseFollows
<1> QED  BY <1>2, <1>3 DEF Follows

\* The policies change: every case and every request knows.
LEMMA FollowsOutdated ==
    ASSUME NEW requests, op' = Outdate(requests), requests \in [Worker -> Request],
           outdated' = Written, applied' = applied
    PROVE  Follows'
<1>1. \A w \in Worker : op'[w].fresh = FALSE
  BY DEF Outdate, Request
<1>2. CaseFollows'
  BY DEF CaseFollows, Written
<1> QED  BY <1>1, <1>2 DEF Follows, FreshIn

\* Every step keeps the cases on today's policies, or counts them as outdated.
LEMMA FollowsNext == TypeOK /\ Follows /\ [Next]_vars => Follows'
<1> SUFFICES ASSUME TypeOK, Follows, [Next]_vars
             PROVE  Follows'
  OBVIOUS
<1>0. op \in [Worker -> Request] /\ \A w \in Worker : RequestOK(op[w])
  BY DEF TypeOK, RequestsOK
<1>1. CASE UNCHANGED <<policies, op, applied, outdated>>
  BY <1>1 DEF Follows, CaseFollows
<1>2. CASE UNCHANGED vars
  BY <1>1, <1>2 DEF vars
<1>3. ASSUME NEW p \in New, CreateSlaPolicy(p)
      PROVE  Follows'
  BY <1>0, <1>3, FollowsOutdated DEF CreateSlaPolicy
<1>4. ASSUME NEW a \in Admin, NEW i \in Row, NEW e \in Edit, FindPolicy(a, i, e)
      PROVE  Follows'
  BY <1>1, <1>4 DEF FindPolicy
<1>5. ASSUME NEW a \in Admin, CheckInterval(a) \/ AbandonEdit(a)
      PROVE  Follows'
  BY <1>1, <1>5 DEF CheckInterval, AbandonEdit
<1>6. ASSUME NEW a \in Admin, WritePolicy(a)
      PROVE  Follows'
  <2>1. \/ UNCHANGED <<policies, op, applied, outdated>>
        \/ outdated' = Written /\ op' = Outdate(op) /\ applied' = applied
    BY <1>6 DEF WritePolicy
  <2> QED  BY <1>0, <1>1, <2>1, FollowsOutdated
<1>7. ASSUME NEW w \in Worker,
             NEW r, op' = [op EXCEPT ![w] = r], r.pc \in {"idle", "ensure"}, r.fresh = FALSE,
             UNCHANGED <<policies, applied, outdated>>
      PROVE  Follows'
  <2>1. FreshIn(policies, r)
    BY <1>7 DEF FreshIn
  <2> QED  BY <1>7, <2>1, FollowsMoves
<1>8. ASSUME NEW w \in Worker, NEW task, NEW rest,
             op' = [op EXCEPT ![w] = [Idle EXCEPT !.task = task, !.pc = "ensure", !.rest = rest]],
             UNCHANGED <<policies, applied, outdated>>
      PROVE  Follows'
  <2> DEFINE r == [Idle EXCEPT !.task = task, !.pc = "ensure", !.rest = rest]
  <2>1. r.pc = "ensure" /\ r.fresh = FALSE
    BY DEF Idle
  <2>2. op' = [op EXCEPT ![w] = r] /\ UNCHANGED <<policies, applied, outdated>>
    BY <1>8
  <2> HIDE DEF r
  <2>3. FreshIn(policies, r)
    BY <2>1 DEF FreshIn
  <2> QED  BY <2>2, <2>3, FollowsMoves
<1>9. Idle.pc = "idle" /\ Idle.fresh = FALSE
  BY DEF Idle
<1>10. ASSUME NEW w \in Worker, NEW some \in {{}} \cup {{c} : c \in Case}, ServeCases(w, some)
       PROVE  Follows'
  BY <1>8, <1>10 DEF ServeCases
<1>11. ASSUME NEW w \in Worker, StartRecalculate(w)
       PROVE  Follows'
  <2> DEFINE r == [Idle EXCEPT !.task = "recalculate", !.pc = "ensure"]
  <2>1. r.pc = "ensure" /\ r.fresh = FALSE
    BY DEF Idle
  <2>2. op' = [op EXCEPT ![w] = r] /\ UNCHANGED <<policies, applied, outdated>>
    BY <1>11 DEF StartRecalculate
  <2> HIDE DEF r
  <2> QED  BY <1>7, <2>1, <2>2
<1>12. ASSUME NEW w \in Worker, EnsureDefault(w)
       PROVE  Follows'
  <2> DEFINE r == [op[w] EXCEPT !.next = op[w].next + 1]
  <2>1. op[w] \in Request /\ op[w].pc = "ensure" /\ op[w].fresh = FALSE
    BY <1>0, <1>12 DEF EnsureDefault, Follows, FreshIn, Request
  <2>2. r \in Request /\ r.pc = "ensure" /\ r.fresh = FALSE
    BY <2>1 DEF Request
  <2> DEFINE moved == [op EXCEPT ![w] = r]
  <2>3. moved \in [Worker -> Request]
    BY <1>0, <2>2
  <2>4. /\ applied' = applied
        /\ \/ op' = moved /\ UNCHANGED <<policies, outdated>>
           \/ op' = Outdate(moved) /\ outdated' = Written
    BY <1>12 DEF EnsureDefault
  <2> HIDE DEF r
  <2>5. CASE op' = moved /\ UNCHANGED <<policies, outdated>>
    BY <1>7, <2>2, <2>4, <2>5
  <2> HIDE DEF moved
  <2>6. CASE op' = Outdate(moved) /\ outdated' = Written
    BY <2>3, <2>4, <2>6, FollowsOutdated
  <2> QED  BY <2>4, <2>5, <2>6
<1>13. ASSUME NEW w \in Worker, ListCases(w)
       PROVE  Follows'
  <2>1. CASE Written = {}
    BY <1>7, <1>9, <1>13, <2>1 DEF ListCases
  <2>2. CASE Written # {}
    BY <1>8, <1>13, <2>2 DEF ListCases
  <2> QED  BY <2>1, <2>2
<1>14. ASSUME NEW w \in Worker, NextCase(w)
       PROVE  Follows'
  <2>1. CASE op' = [op EXCEPT ![w] = Idle]
    BY <1>7, <1>9, <1>14, <2>1 DEF NextCase
  <2>2. ASSUME NEW c \in op[w].rest,
               op' = [op EXCEPT ![w] = [op[w] EXCEPT !.pc = "exact", !.cur = c,
                                          !.rest = op[w].rest \ {c}, !.fresh = TRUE]]
        PROVE  Follows'
    <3> DEFINE r == [op[w] EXCEPT !.pc = "exact", !.cur = c,
                                  !.rest = op[w].rest \ {c}, !.fresh = TRUE]
    <3>1. r.pc = "exact"
      BY <1>0 DEF Request
    <3>2. op' = [op EXCEPT ![w] = r] /\ UNCHANGED <<policies, applied, outdated>>
      BY <1>14, <2>2 DEF NextCase
    <3> HIDE DEF r
    <3>3. FreshIn(policies, r)
      BY <3>1 DEF FreshIn
    <3> QED  BY <3>2, <3>3, FollowsMoves
  <2> QED  BY <1>14, <2>1, <2>2 DEF NextCase
<1>15. ASSUME NEW w \in Worker, Query(w)
       PROVE  Follows'
  <2> DEFINE found == Terms(Oldest(Asked(w)))
             pc == IF Asked(w) # {} \/ op[w].pc = "medium" THEN "write"
                   ELSE IF op[w].pc = "exact" THEN "generic" ELSE "medium"
             r == [op[w] EXCEPT !.found = found, !.pc = pc]
             kind == KeyOf[op[w].cur].kind
             sev == KeyOf[op[w].cur].severity
  <2>1. op' = [op EXCEPT ![w] = r] /\ UNCHANGED <<policies, applied, outdated>>
        /\ op[w].pc \in {"exact", "generic", "medium"}
    BY <1>15 DEF Query
  <2>2. r.found = found /\ r.pc = pc /\ r.cur = op[w].cur /\ r.fresh = op[w].fresh
    BY <1>0 DEF Request
  <2>3. FreshIn(policies, op[w]) /\ found = TermsIn(policies, Oldest(Asked(w)))
    BY TheTable DEF Follows
  <2>4. Asked(w) = IF op[w].pc = "exact" THEN ActiveIn(policies, kind, sev)
                   ELSE IF op[w].pc = "generic" THEN ActiveIn(policies, "generic", sev)
                   ELSE MediumIn(policies)
    BY TheTable DEF Asked
  <2>5. InForceIn(policies, op[w].cur) =
          IF ActiveIn(policies, kind, sev) # {} THEN Oldest(ActiveIn(policies, kind, sev))
          ELSE IF ActiveIn(policies, "generic", sev) # {}
          THEN Oldest(ActiveIn(policies, "generic", sev)) ELSE Oldest(MediumIn(policies))
    BY DEF InForceIn
  <2>6. pc = IF Asked(w) # {} \/ op[w].pc = "medium" THEN "write"
             ELSE IF op[w].pc = "exact" THEN "generic" ELSE "medium"
    OBVIOUS
  <2>7. op[w].fresh =>
          /\ op[w].pc \in {"generic", "medium"} => ActiveIn(policies, kind, sev) = {}
          /\ op[w].pc = "medium" => ActiveIn(policies, "generic", sev) = {}
    BY <2>3 DEF FreshIn
  <2> HIDE DEF found, pc, r, kind, sev
  <2>8. ASSUME op[w].fresh, pc = "write"
        PROVE  InForceIn(policies, op[w].cur) = Oldest(Asked(w))
    BY <2>1, <2>4, <2>5, <2>6, <2>7, <2>8
  <2>9. ASSUME op[w].fresh
        PROVE  /\ pc \in {"generic", "medium"} => ActiveIn(policies, kind, sev) = {}
               /\ pc = "medium" => ActiveIn(policies, "generic", sev) = {}
    BY <2>1, <2>4, <2>6, <2>7, <2>9
  <2>10. r.fresh => (r.pc \in {"generic", "medium"} => ActiveIn(policies, kind, sev) = {})
    BY <2>2, <2>9
  <2>11. r.fresh => (r.pc = "medium" => ActiveIn(policies, "generic", sev) = {})
    BY <2>2, <2>9
  <2>12. r.fresh => (r.pc = "write" => r.found = TermsIn(policies, InForceIn(policies, r.cur)))
    BY <2>2, <2>3, <2>8
  <2>13. kind = KeyOf[r.cur].kind /\ sev = KeyOf[r.cur].severity
    BY <2>2 DEF kind, sev
  <2>14. r.pc \notin {"idle", "ensure"}
    BY <2>2, <2>6
  <2>15. FreshIn(policies, r)
    BY <2>10, <2>11, <2>12, <2>13, <2>14 DEF FreshIn
  <2> QED  BY <2>1, <2>15, FollowsMoves
<1>16. ASSUME NEW w \in Worker, WriteCase(w)
       PROVE  Follows'
  <2> DEFINE c == op[w].cur
             r == IF op[w].rest = {} THEN Idle
                  ELSE [Idle EXCEPT !.task = op[w].task, !.pc = "ensure", !.rest = op[w].rest]
  <2>1. /\ op[w].pc = "write" /\ op' = [op EXCEPT ![w] = r] /\ policies' = policies
        /\ applied' = [applied EXCEPT ![c] = op[w].found]
        /\ outdated' = IF op[w].fresh THEN outdated \ {c} ELSE outdated \cup {c}
    BY <1>16 DEF WriteCase
  <2>2. r.pc \in {"idle", "ensure"} /\ r.fresh = FALSE
    BY DEF Idle
  <2> HIDE DEF r
  <2>3. FreshIn(policies, r)
    BY <2>2 DEF FreshIn
  <2>4. \A v \in Worker : op'[v] = (IF v = w THEN r ELSE op[v])
    BY <1>0, <2>1
  <2>5. \A v \in Worker : FreshIn(policies', op'[v])
    BY <2>1, <2>3, <2>4 DEF Follows
  <2>6. op[w].fresh => op[w].found = TermsIn(policies, InForceIn(policies, c))
    BY <2>1 DEF Follows, FreshIn
  <2> HIDE DEF c
  <2>7. CaseFollows'
    BY <2>1, <2>6 DEF Follows, CaseFollows, TypeOK, CasesOK
  <2> QED  BY <2>5, <2>7 DEF Follows
<1>17. ASSUME NEW w \in Worker, Abandon(w)
       PROVE  Follows'
  BY <1>7, <1>9, <1>17 DEF Abandon
<1> QED
  BY <1>2, <1>3, <1>4, <1>5, <1>6, <1>10, <1>11, <1>12, <1>13, <1>14, <1>15, <1>16, <1>17 DEF Next

\* A case written since the policies last changed carries the terms of the most specific
\* active policy, although its three queries are separate and an edit may come between
\* them (resolveSlaPolicy).
THEOREM QueueFollows == Spec => []QueueFollowsPolicies
<1>1. Init => Follows
  BY DEF Init, Follows, CaseFollows, FreshIn, Idle
<1>2. Follows => QueueFollowsPolicies
  BY TheTable DEF Follows, CaseFollows, QueueFollowsPolicies
<1>3. Spec => []TypeOK
  BY PoliciesTyped
<1> QED  BY <1>1, <1>2, <1>3, FollowsNext, PTL DEF Spec

-----------------------------------------------------------------------------
\* New policies

\* A row put at the end is never the oldest of a set that had one.
LEMMA OldestStays ==
    ASSUME NEW S \in SUBSET Nat, S # {}, NEW T \in SUBSET Nat,
           \A i \in S : \A j \in T : i < j
    PROVE  Oldest(S \cup T) = Oldest(S)
<1>1. PICK m \in S : \A j \in S : m <= j
  BY SmallestNumber
<1>2. \A i \in S : (\A j \in S : i <= j) => i = m
  BY <1>1
<1>3. Oldest(S) = m
  BY <1>1, <1>2 DEF Oldest
<1>4. \A j \in S \cup T : m <= j
  BY <1>1
<1>5. \A i \in S \cup T : (\A j \in S \cup T : i <= j) => i = m
  BY <1>1, <1>4
<1>6. Oldest(S \cup T) = m
  BY <1>1, <1>4, <1>5 DEF Oldest
<1> QED  BY <1>3, <1>6

\* A policy put at the end of the table takes cases over only from less specific ones.
LEMMA AppendYields ==
    ASSUME TableOK, NEW p \in Policy, policies' = Append(policies, p), NEW c \in Case
    PROVE  InForce(c)' = InForce(c) \/ Rank(c)' < Rank(c)
<1> DEFINE n == Len(policies)
           k == KeyOf[c].kind
           s == KeyOf[c].severity
<1>1. /\ Len(policies') = n + 1 /\ n \in Nat
      /\ \A i \in 1..n : policies'[i] = policies[i]
  BY DEF TableOK
<1>2. ASSUME NEW kind, NEW sev
      PROVE  \E T \in SUBSET {n + 1} : ActiveFor(kind, sev)' = ActiveFor(kind, sev) \cup T
  <2>1. ActiveFor(kind, sev)' \cap (1..n) = ActiveFor(kind, sev)
    BY <1>1 DEF ActiveFor, Row
  <2>2. ActiveFor(kind, sev)' \subseteq 1..(n + 1)
    BY <1>1 DEF ActiveFor, Row
  <2>3. 1..(n + 1) = (1..n) \cup {n + 1}
    BY <1>1
  <2> WITNESS ActiveFor(kind, sev)' \cap {n + 1} \in SUBSET {n + 1}
  <2> QED  BY <2>1, <2>2, <2>3
<1>3. \E T \in SUBSET {n + 1} : ActiveMedium' = ActiveMedium \cup T
  <2>1. ActiveMedium' \cap (1..n) = ActiveMedium
    BY <1>1 DEF ActiveMedium, Row
  <2>2. ActiveMedium' \subseteq 1..(n + 1)
    BY <1>1 DEF ActiveMedium, Row
  <2>3. 1..(n + 1) = (1..n) \cup {n + 1}
    BY <1>1
  <2> WITNESS ActiveMedium' \cap {n + 1} \in SUBSET {n + 1}
  <2> QED  BY <2>1, <2>2, <2>3
<1>4. ASSUME NEW S, NEW T \in SUBSET {n + 1}, S \subseteq 1..n, S # {}
      PROVE  Oldest(S \cup T) = Oldest(S)
  <2>1. S \in SUBSET Nat /\ T \in SUBSET Nat /\ \A i \in S : \A j \in T : i < j
    BY <1>1, <1>4
  <2> QED  BY <1>4, <2>1, OldestStays
<1>5. /\ ActiveFor(k, s) \subseteq 1..n /\ ActiveFor("generic", s) \subseteq 1..n
      /\ ActiveMedium \subseteq 1..n
  BY DEF ActiveFor, ActiveMedium, Row
<1>6. PICK E \in SUBSET {n + 1} : ActiveFor(k, s)' = ActiveFor(k, s) \cup E
  BY <1>2
<1>7. PICK G \in SUBSET {n + 1} : ActiveFor("generic", s)' = ActiveFor("generic", s) \cup G
  BY <1>2
<1>8. PICK M \in SUBSET {n + 1} : ActiveMedium' = ActiveMedium \cup M
  BY <1>3
<1>9. Rank(c) = IF ActiveFor(k, s) # {} THEN 1 ELSE IF ActiveFor("generic", s) # {} THEN 2
                ELSE IF ActiveMedium # {} THEN 3 ELSE 4
  BY DEF Rank
<1>10. Rank(c)' = IF ActiveFor(k, s)' # {} THEN 1 ELSE IF ActiveFor("generic", s)' # {} THEN 2
                  ELSE IF ActiveMedium' # {} THEN 3 ELSE 4
  BY DEF Rank
<1>11. InForce(c) = IF ActiveFor(k, s) # {} THEN Oldest(ActiveFor(k, s))
                    ELSE IF ActiveFor("generic", s) # {} THEN Oldest(ActiveFor("generic", s))
                    ELSE Oldest(ActiveMedium)
  BY DEF InForce
<1>12. InForce(c)' = IF ActiveFor(k, s)' # {} THEN Oldest(ActiveFor(k, s)')
                     ELSE IF ActiveFor("generic", s)' # {} THEN Oldest(ActiveFor("generic", s)')
                     ELSE Oldest(ActiveMedium')
  BY DEF InForce, Oldest
<1>13. CASE ActiveFor(k, s) # {}
  BY <1>4, <1>5, <1>6, <1>11, <1>12, <1>13
<1>14. CASE ActiveFor(k, s) = {} /\ E # {}
  BY <1>6, <1>9, <1>10, <1>14
<1>15. CASE ActiveFor(k, s) = {} /\ E = {} /\ ActiveFor("generic", s) # {}
  BY <1>4, <1>5, <1>6, <1>7, <1>11, <1>12, <1>15
<1>16. CASE ActiveFor(k, s) = {} /\ E = {} /\ ActiveFor("generic", s) = {} /\ G # {}
  BY <1>6, <1>7, <1>9, <1>10, <1>16
<1>17. CASE /\ ActiveFor(k, s) = {} /\ E = {} /\ ActiveFor("generic", s) = {} /\ G = {}
            /\ ActiveMedium # {}
  BY <1>4, <1>5, <1>6, <1>7, <1>8, <1>11, <1>12, <1>17
<1>18. CASE /\ ActiveFor(k, s) = {} /\ E = {} /\ ActiveFor("generic", s) = {} /\ G = {}
            /\ ActiveMedium = {} /\ M # {}
  BY <1>6, <1>7, <1>8, <1>9, <1>10, <1>18
<1>19. CASE /\ ActiveFor(k, s) = {} /\ E = {} /\ ActiveFor("generic", s) = {} /\ G = {}
            /\ ActiveMedium = {} /\ M = {}
  BY <1>6, <1>7, <1>8, <1>11, <1>12, <1>19
<1> QED  BY <1>13, <1>14, <1>15, <1>16, <1>17, <1>18, <1>19

\* The table grows by one policy at a time, and at its end.
LEMMA GrowsByAppend ==
    ASSUME TypeOK, [Next]_vars, Len(policies') > Len(policies)
    PROVE  \E p \in Policy : policies' = Append(policies, p)
<1>1. policies \in Seq(Policy) /\ op \in [Worker -> Request]
  BY DEF TypeOK, TableOK, RequestsOK
<1>2. policies' # policies
  BY <1>1
<1>3. ASSUME NEW p \in New, CreateSlaPolicy(p)
      PROVE  p \in Policy /\ policies' = Append(policies, p)
  BY <1>3, SlaAssumption DEF CreateSlaPolicy
<1>4. ASSUME NEW w \in Worker, EnsureDefault(w)
      PROVE  \E p \in Policy : policies' = Append(policies, p)
  <2>1. op[w].next \in 1..Len(Default)
    BY <1>1, <1>4, SlaAssumption DEF EnsureDefault, Request
  <2>2. Default[op[w].next] \in Policy
    BY <2>1, SlaAssumption
  <2> QED  BY <1>2, <1>4, <2>2 DEF EnsureDefault
<1>5. ASSUME NEW a \in Admin, WritePolicy(a) PROVE FALSE
  <2>1. Len(policies') = Len(policies)
    BY <1>1, <1>5 DEF WritePolicy
  <2> QED  BY <1>1, <2>1
<1>6. ASSUME NEW a \in Admin, \/ \E i \in Row, e \in Edit : FindPolicy(a, i, e)
                              \/ CheckInterval(a) \/ AbandonEdit(a)
      PROVE  FALSE
  BY <1>2, <1>6 DEF FindPolicy, CheckInterval, AbandonEdit
<1>7. ASSUME NEW w \in Worker,
             \/ \E some \in {{}} \cup {{c} : c \in Case} : ServeCases(w, some)
             \/ StartRecalculate(w) \/ ListCases(w) \/ NextCase(w)
             \/ Query(w) \/ WriteCase(w) \/ Abandon(w)
      PROVE  FALSE
  BY <1>2, <1>7 DEF ServeCases, StartRecalculate, ListCases, NextCase, Query, WriteCase, Abandon
<1>8. ~UNCHANGED vars
  BY <1>2 DEF vars
<1> QED  BY <1>3, <1>4, <1>5, <1>6, <1>7, <1>8 DEF Next

\* A policy that appears takes a case over only from a less specific one: defaults that
\* ensureDefaultSlaPolicies puts back do not displace an administrator's.
THEOREM NewPoliciesYieldAlways == Spec => NewPoliciesYield
<1>1. TypeOK /\ [Next]_vars =>
        [Len(policies') > Len(policies) =>
            \A c \in Case : InForce(c)' = InForce(c) \/ Rank(c)' < Rank(c)]_vars
  BY GrowsByAppend, AppendYields DEF TypeOK
<1>2. Spec => []TypeOK
  BY PoliciesTyped
<1> QED  BY <1>1, <1>2, PTL DEF Spec, NewPoliciesYield

-----------------------------------------------------------------------------
\* Edits that do not overlap on a policy

EditsApart ==
    \A a, b \in Admin :
        edit[a].pc # "idle" /\ edit[b].pc # "idle" /\ edit[a].row = edit[b].row => a = b

\* The interval of a policy was checked against the row as it still is.
ChecksCurrent ==
    /\ crossed = {}
    /\ \A a \in Admin : edit[a].pc = "checked" => edit[a].read = policies[edit[a].row]

\* A step of the requests on policies that leaves the table alone.
LEMMA ChecksMove ==
    ASSUME TableOK, ChecksCurrent, NEW a \in Admin, NEW x, edit' = [edit EXCEPT ![a] = x],
           x.pc = "checked" => x.read = policies[x.row],
           policies' = policies, crossed' = crossed
    PROVE  ChecksCurrent'
<1>1. \A b \in Admin : edit'[b] = (IF b = a THEN x ELSE edit[b])
  BY DEF TableOK
<1> QED BY <1>1 DEF ChecksCurrent

\* A new policy leaves every other row where it was.
LEMMA ChecksGrow ==
    ASSUME TableOK, ChecksCurrent, NEW p \in Policy, policies' = Append(policies, p),
           edit' = edit, crossed' = crossed
    PROVE  ChecksCurrent'
<1>1. \A i \in Row : policies'[i] = policies[i]
  BY DEF TableOK, Row
<1>2. \A b \in Admin : edit[b].pc = "checked" => edit[b].row \in Row
  BY DEF TableOK, EditOK
<1> QED BY <1>1, <1>2 DEF ChecksCurrent

\* The write of an edit finds the row it checked, and disturbs no other edit's.
LEMMA ChecksWrite ==
    ASSUME TableOK, ChecksCurrent, EditsApart, NEW a \in Admin, WritePolicy(a)
    PROVE  ChecksCurrent'
<1> DEFINE i == edit[a].row
           e == edit[a].sent
           new == Edited(policies[i], e)
<1>1. /\ edit[a].pc = "checked" /\ edit' = [edit EXCEPT ![a] = NoEdit]
      /\ i \in Row /\ edit[a].read = policies[i]
  BY DEF WritePolicy, ChecksCurrent, TableOK, EditOK
<1>2. NoEdit.pc = "idle"
  BY DEF NoEdit
<1>3. CASE policies' = policies /\ crossed' = crossed
  BY <1>1, <1>2, <1>3, ChecksMove
<1>4. CASE /\ policies' = [policies EXCEPT ![i] = new]
           /\ crossed' = IF ~Overtaken(policies[i], e, edit[a].read) THEN crossed \ {i}
                         ELSE IF Sent(e, "first") \/ Sent(e, "resolve")
                         THEN crossed \cup {i} ELSE crossed
  <2>1. crossed' = {}
    BY <1>1, <1>4 DEF Overtaken, ChecksCurrent
  <2>2. ASSUME NEW b \in Admin, edit'[b].pc = "checked"
        PROVE  edit'[b].read = policies'[edit'[b].row]
    <3>1. b # a /\ edit'[b] = edit[b]
      BY <1>1, <1>2, <2>2 DEF TableOK
    <3>2. edit[b].row \in Row /\ edit[b].row # i /\ edit[b].read = policies[edit[b].row]
      BY <1>1, <2>2, <3>1 DEF TableOK, EditOK, EditsApart, ChecksCurrent
    <3>3. policies'[edit[b].row] = policies[edit[b].row]
      BY <1>1, <1>4, <3>2 DEF TableOK, Row
    <3> QED BY <3>1, <3>2, <3>3
  <2> QED BY <2>1, <2>2 DEF ChecksCurrent
<1> QED BY <1>3, <1>4 DEF WritePolicy

\* While two edits never overlap on a policy, every check is of the row as it is.
LEMMA ChecksNext ==
    TypeOK /\ ChecksCurrent /\ EditsApart /\ [Next]_vars => ChecksCurrent'
<1> SUFFICES ASSUME TypeOK, ChecksCurrent, EditsApart, [Next]_vars PROVE ChecksCurrent'
  OBVIOUS
<1>0. TableOK /\ RequestsOK
  BY DEF TypeOK
<1>1. ASSUME policies' = policies, edit' = edit, crossed' = crossed PROVE ChecksCurrent'
  BY <1>1 DEF ChecksCurrent
<1>2. ASSUME NEW p \in New, CreateSlaPolicy(p) PROVE ChecksCurrent'
  <2>1. p \in Policy
    BY SlaAssumption
  <2> QED BY <1>0, <1>2, <2>1, ChecksGrow DEF CreateSlaPolicy
<1>3. ASSUME NEW a \in Admin, NEW i \in Row, NEW e \in Edit, FindPolicy(a, i, e) PROVE ChecksCurrent'
  <2> DEFINE x == [pc |-> "found", row |-> i, sent |-> e, read |-> None]
  <2>1. x.pc # "checked" /\ edit' = [edit EXCEPT ![a] = x] /\ policies' = policies /\ crossed' = crossed
    BY <1>3 DEF FindPolicy
  <2> HIDE DEF x
  <2> QED BY <1>0, <2>1, ChecksMove
<1>4. ASSUME NEW a \in Admin, CheckInterval(a) PROVE ChecksCurrent'
  <2> DEFINE p == policies[edit[a].row]
             x == IF IntervalAccepted(p, edit[a].sent)
                  THEN [pc |-> "checked", row |-> edit[a].row, sent |-> edit[a].sent, read |-> p]
                  ELSE NoEdit
  <2>1. x.pc = "checked" => x.read = policies[x.row]
    BY DEF NoEdit
  <2>2. edit' = [edit EXCEPT ![a] = x] /\ policies' = policies /\ crossed' = crossed
    BY <1>4 DEF CheckInterval
  <2> HIDE DEF x
  <2> QED BY <1>0, <2>1, <2>2, ChecksMove
<1>5. ASSUME NEW a \in Admin, AbandonEdit(a) PROVE ChecksCurrent'
  <2>1. NoEdit.pc # "checked"
    BY DEF NoEdit
  <2> QED BY <1>0, <1>5, <2>1, ChecksMove DEF AbandonEdit
<1>6. ASSUME NEW w \in Worker, EnsureDefault(w) PROVE ChecksCurrent'
  <2>1. CASE policies' = policies
    BY <1>1, <1>6, <2>1 DEF EnsureDefault
  <2>2. CASE policies' = Append(policies, Default[op[w].next])
    <3>1. Default[op[w].next] \in Policy
      BY <1>0, <1>6, SlaAssumption DEF EnsureDefault, RequestsOK, Request
    <3> QED BY <1>0, <1>6, <2>2, <3>1, ChecksGrow DEF EnsureDefault
  <2> QED BY <1>6, <2>1, <2>2 DEF EnsureDefault
<1>7. ASSUME NEW w \in Worker,
             \/ \E some \in {{}} \cup {{c} : c \in Case} : ServeCases(w, some)
             \/ StartRecalculate(w) \/ ListCases(w) \/ NextCase(w)
             \/ Query(w) \/ WriteCase(w) \/ Abandon(w)
      PROVE  ChecksCurrent'
  BY <1>7, <1>1 DEF ServeCases, StartRecalculate, ListCases, NextCase, Query, WriteCase, Abandon
<1>8. CASE UNCHANGED vars
  BY <1>1, <1>8 DEF vars
<1>9. ASSUME NEW a \in Admin, WritePolicy(a) PROVE ChecksCurrent'
  BY <1>0, <1>9, ChecksWrite
<1> QED BY <1>2, <1>3, <1>4, <1>5, <1>6, <1>7, <1>8, <1>9 DEF Next

\* As long as no two edits are under way on the same policy, every policy allows no less
\* time to resolve a case than to answer it, without exception: the check of
\* updateSlaPolicy fails only against another edit of the same row.
THEOREM ApartEditsKeepIntervals ==
    Spec /\ []EditsApart => [](\A i \in Row : Ordered(policies[i]))
<1>1. Init => ChecksCurrent
  BY DEF Init, ChecksCurrent, NoEdit
<1>2. IInv /\ ChecksCurrent => \A i \in Row : Ordered(policies[i])
  BY DEF IInv, IntervalsOrdered, ChecksCurrent
<1> QED BY <1>1, <1>2, Inductive, ChecksNext, PTL DEF Spec
=============================================================================
