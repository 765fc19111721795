--------------------------- MODULE Registry_proofs ---------------------------
(***************************************************************************)
(* The primary contact of a partner, what the contracts cover, and the two  *)
(* halves of the registry together, for any number of partners, contacts,   *)
(* units, contracts and requests.  What a handler has read of an            *)
(* undisturbed partner is still true when it commits: a commit of another   *)
(* handler in between would have disturbed the partner.  A check of units   *)
(* that is old when it is used was right when it was made, and every move   *)
(* since is on record.                                                      *)
(***************************************************************************)
EXTENDS Registry, TLAPS

-----------------------------------------------------------------------------
(* Contacts                                                                *)

\* What holds of a handler in progress whatever the others do.
Tied(c) ==
    LET r == request[c]
    IN /\ r.partner \in partner
       /\ \A y \in r.locked : contact[y] # None /\ contact[y].partner = r.partner
       /\ r.op = "import" \/ r.step = "demote" \/ ~r.primary => r.locked = {}
       /\ r.step = "demote" => r.primary
       /\ r.op = "import" => r.step = "write" /\ r.target \in Contact
       /\ r.op \in {"create", "fill"} => r.target = None
       /\ r.target \notin r.locked
       /\ r.op = "update" => /\ r.target \in Contact /\ contact[r.target] # None
                             /\ \/ contact[r.target].partner = r.partner
                                \/ {contact[r.target].partner, r.partner} \subseteq disturbed

\* What the handler of an undisturbed partner has read is still so.
AsRead(c) ==
    LET r == request[c]
    IN \A p \in Partner \ disturbed : r.partner = p =>
       /\ r.op \in {"create", "fill"} /\ r.step = "write" /\ r.primary => r.locked = Primaries(p)
       /\ r.op \in {"create", "fill"} /\ r.step = "write" /\ ~r.primary => Primaries(p) # {}
       /\ r.op = "update" /\ r.step = "write" /\ r.primary => r.locked = Primaries(p) \ {r.target}
       /\ r.op = "import" => (r.primary <=> Primaries(p) = {})

ContactsInv ==
    /\ ContactsTypeOK
    /\ \A x \in Contact : contact[x] # None => contact[x].partner \in partner
    /\ \A c \in Clerk : Busy(c) => Tied(c) /\ AsRead(c)
    /\ PrimaryIsUnique
    /\ FirstContactLeads

-----------------------------------------------------------------------------
\* A stored contact is a row.
LEMMA RowNotNone == \A row \in Row : row # None
BY ContactsAssumption DEF Row

\* A request that moves on with other locks is a request.
LEMMA RequestStep ==
    ASSUME NEW r \in Request, NEW s \in {"demote", "write"}, NEW l \in SUBSET Contact
    PROVE  [r EXCEPT !.step = s, !.locked = l] \in Request
BY DEF Request

\* A contact that is demoted or moved is a contact.
LEMMA RowUpdates ==
    ASSUME NEW row \in Row, NEW p \in Partner, NEW b \in BOOLEAN
    PROVE  /\ [row EXCEPT !.primary = b] \in Row
           /\ [row EXCEPT !.partner = p] \in Row
BY DEF Row

\* What a transaction leaves in the table is a table of contacts.
LEMMA CommittedType ==
    ASSUME ContactsTypeOK, NEW c \in Clerk, NEW x \in Contact, NEW row \in Row,
           \A y \in request[c].locked : contact[y] # None
    PROVE  Committed(c, x, row) \in [Contact -> Row \cup {None}]
<1>1. ASSUME NEW y \in Contact, contact[y] # None
      PROVE  [contact[y] EXCEPT !.primary = FALSE] \in Row
  <2>1. contact[y] \in Row
    BY <1>1 DEF ContactsTypeOK
  <2> QED BY <2>1 DEF Row
<1> QED BY <1>1 DEF Committed, ContactsTypeOK

\* A handler that starts: only its own request changes.
LEMMA AskStep ==
    ASSUME ContactsInv, NEW c \in Clerk, NEW r \in Request, ~Busy(c),
           request' = [request EXCEPT ![c] = r],
           UNCHANGED <<partner, contact, disturbed, headless>>,
           r # Idle => Tied(c)' /\ AsRead(c)'
    PROVE  ContactsInv'
<1>1. ContactsTypeOK'
  BY DEF ContactsInv, ContactsTypeOK
<1>2. ASSUME NEW d \in Clerk, Busy(d)' PROVE Tied(d)' /\ AsRead(d)'
  <2>1. CASE d = c
    BY <1>2, <2>1 DEF Busy, ContactsInv, ContactsTypeOK
  <2>2. CASE d # c
    <3>1. request'[d] = request[d] /\ Busy(d)
      BY <1>2, <2>2 DEF ContactsInv, ContactsTypeOK, Busy
    <3>2. Tied(d) /\ AsRead(d)
      BY <3>1 DEF ContactsInv
    <3> QED BY <3>1, <3>2 DEF Tied, AsRead, Primaries, ContactsOf
  <2> QED BY <2>1, <2>2
<1>3. PrimaryIsUnique' /\ FirstContactLeads'
  BY DEF ContactsInv, PrimaryIsUnique, FirstContactLeads, Primaries, ContactsOf
<1>4. \A x \in Contact : contact'[x] # None => contact'[x].partner \in partner'
  BY DEF ContactsInv
<1> QED BY <1>1, <1>2, <1>3, <1>4 DEF ContactsInv

\* The read that begins a handler keeps the contacts in order.
LEMMA AskKeeps ==
    ASSUME ContactsInv, NEW c \in Clerk, StartHandler(c) PROVE ContactsInv'
<1>1. ASSUME NEW p \in Partner, NEW asked \in BOOLEAN, StartCreate(c, p, asked) PROVE ContactsInv'
  <2> DEFINE pr == asked \/ Primaries(p) = {}
             r == [op |-> "create", partner |-> p, target |-> None, primary |-> pr, locked |-> {},
                   step |-> IF pr /\ "create" # "import" THEN "demote" ELSE "write"]
  <2>1. r \in Request
    BY DEF Request
  <2>2. request' = [request EXCEPT ![c] = r] /\ request'[c] = r
    BY <1>1 DEF StartCreate, Ask, ContactsInv, ContactsTypeOK
  <2>3. p \in partner /\ ~Busy(c) /\ UNCHANGED <<partner, contact, disturbed, headless>>
    BY <1>1 DEF StartCreate, Ask
  <2>4. Primaries(p)' = Primaries(p)
    BY <2>3 DEF Primaries, ContactsOf
  <2>5. /\ r.op = "create" /\ r.partner = p /\ r.locked = {} /\ r.target = None
        /\ r.step = "demote" => r.primary
        /\ r.step = "write" => ~r.primary /\ Primaries(p) # {}
    OBVIOUS
  <2> HIDE DEF r
  <2>6. Tied(c)' /\ AsRead(c)'
    BY <2>1, <2>2, <2>3, <2>4, <2>5 DEF Tied, AsRead, Request
  <2> QED BY <2>1, <2>2, <2>3, <2>6, AskStep
<1>2. ASSUME NEW p \in Partner, StartFill(c, p) PROVE ContactsInv'
  <2> DEFINE r == [op |-> "fill", partner |-> p, target |-> None, primary |-> TRUE,
                   locked |-> {}, step |-> "write"]
  <2>1. r \in Request
    BY DEF Request
  <2>2. request' = [request EXCEPT ![c] = r] /\ request'[c] = r
    BY <1>2 DEF StartFill, ContactsInv, ContactsTypeOK
  <2>3. p \in partner /\ ~Busy(c) /\ UNCHANGED <<partner, contact, disturbed, headless>>
    BY <1>2 DEF StartFill
  <2>4. Primaries(p)' = {}
    BY <1>2, <2>3 DEF StartFill, Primaries, ContactsOf
  <2>5. Tied(c)' /\ AsRead(c)'
    BY <2>2, <2>3, <2>4 DEF Tied, AsRead
  <2> HIDE DEF r
  <2> QED BY <2>1, <2>2, <2>3, <2>5, AskStep
<1>3. ASSUME NEW x \in Contact, NEW asked \in BOOLEAN, StartUpdate(c, x, asked) PROVE ContactsInv'
  <2> DEFINE p == contact[x].partner
             r == [op |-> "update", partner |-> p, target |-> x, primary |-> asked, locked |-> {},
                   step |-> IF asked /\ "update" # "import" THEN "demote" ELSE "write"]
  <2>1. contact[x] \in Row /\ p \in Partner /\ p \in partner
    BY <1>3 DEF StartUpdate, ContactsInv, ContactsTypeOK, Row
  <2>2. r \in Request
    BY <2>1 DEF Request
  <2>3. request' = [request EXCEPT ![c] = r] /\ request'[c] = r
    BY <1>3 DEF StartUpdate, Ask, ContactsInv, ContactsTypeOK
  <2>4. contact[x] # None /\ ~Busy(c) /\ UNCHANGED <<partner, contact, disturbed, headless>>
    BY <1>3 DEF StartUpdate, Ask
  <2>5. Tied(c)' /\ AsRead(c)'
    BY <2>1, <2>3, <2>4 DEF Tied, AsRead
  <2> HIDE DEF r
  <2> QED BY <2>2, <2>3, <2>4, <2>5, AskStep
<1>4. ASSUME NEW x \in Legacy, NEW p \in Partner, StartImport(c, x, p) PROVE ContactsInv'
  <2> DEFINE pr == Primaries(p) = {}
             r == [op |-> "import", partner |-> p, target |-> x, primary |-> pr, locked |-> {},
                   step |-> IF pr /\ "import" # "import" THEN "demote" ELSE "write"]
  <2>0. x \in Contact
    BY ContactsAssumption
  <2>1. r \in Request
    BY <2>0 DEF Request
  <2>2. request' = [request EXCEPT ![c] = r] /\ request'[c] = r
    BY <1>4 DEF StartImport, Ask, ContactsInv, ContactsTypeOK
  <2>3. p \in partner /\ ~Busy(c) /\ UNCHANGED <<partner, contact, disturbed, headless>>
    BY <1>4 DEF StartImport, Ask
  <2>4. Primaries(p)' = Primaries(p)
    BY <2>3 DEF Primaries, ContactsOf
  <2>5. /\ r.op = "import" /\ r.partner = p /\ r.locked = {} /\ r.target = x
        /\ r.step = "write" /\ (r.primary <=> Primaries(p) = {})
    OBVIOUS
  <2> HIDE DEF r
  <2>6. Tied(c)' /\ AsRead(c)'
    BY <2>0, <2>1, <2>2, <2>3, <2>4, <2>5 DEF Tied, AsRead, Request
  <2> QED BY <2>1, <2>2, <2>3, <2>6, AskStep
<1> QED BY <1>1, <1>2, <1>3, <1>4 DEF StartHandler

\* Demoting the other contacts of the partner locks them and keeps the rest in order.
LEMMA DemoteKeeps ==
    ASSUME ContactsInv, NEW c \in Clerk, Demote(c) PROVE ContactsInv'
<1> DEFINE r == request[c]
           others == Primaries(r.partner) \ {r.target}
           q == [r EXCEPT !.step = "write", !.locked = others]
<1>1. r \in Request /\ others \in SUBSET Contact /\ Busy(c)
  BY DEF Demote, Busy, ContactsInv, ContactsTypeOK, Primaries, ContactsOf
<1>2. q \in Request
  BY <1>1, RequestStep
<1>3. request' = [request EXCEPT ![c] = q] /\ UNCHANGED <<partner, contact, disturbed, headless>>
  BY DEF Demote
<1>4. Tied(c) /\ r.step = "demote" /\ r.primary
  BY <1>1 DEF ContactsInv, Tied, Demote
<1>5. /\ q.op = r.op /\ q.partner = r.partner /\ q.target = r.target /\ q.primary = r.primary
      /\ q.step = "write" /\ q.locked = others
  BY <1>1 DEF Request
<1>6. request'[c] = q
  BY <1>3 DEF ContactsInv, ContactsTypeOK
<1>7. \A p \in Partner : Primaries(p)' = Primaries(p)
  BY <1>3 DEF Primaries, ContactsOf
<1>8. \A y \in others : contact[y] # None /\ contact[y].partner = r.partner
  BY DEF Primaries, ContactsOf
<1>9. r.op \in {"create", "fill"} => others = Primaries(r.partner)
  <2>1. \A y \in Primaries(r.partner) : y \in Contact
    BY DEF Primaries, ContactsOf
  <2>2. r.op \in {"create", "fill"} => r.target = None
    BY <1>4 DEF Tied
  <2> QED BY <2>1, <2>2, ContactsAssumption
<1> HIDE DEF q, others
<1>11. r.op # "import" /\ r.partner \in Partner
  BY <1>1, <1>4 DEF Tied, Request
<1>10. Tied(c)'
  <2>1. r.op = "update" => /\ r.target \in Contact /\ contact[r.target] # None
                           /\ \/ contact[r.target].partner = r.partner
                              \/ {contact[r.target].partner, r.partner} \subseteq disturbed
    BY <1>4 DEF Tied
  <2>2. r.partner \in partner /\ (r.op \in {"create", "fill"} => r.target = None)
    BY <1>4 DEF Tied
  <2>3. q.op # "import" /\ q.step # "demote" /\ q.primary
    BY <1>1, <1>2, <1>4, <1>5, <1>11 DEF Request
  <2>4. r.target \notin others
    BY DEF others
  <2> HIDE DEF r
  <2> QED BY <1>3, <1>5, <1>6, <1>8, <1>11, <2>1, <2>2, <2>3, <2>4 DEF Tied
<1>12. AsRead(c)'
  <2>1. others = Primaries(r.partner) \ {r.target}
    BY DEF others
  <2>2. q.op # "import" /\ q.primary
    BY <1>4, <1>5, <1>11
  <2>3. \A p \in Partner : q.partner = p =>
            /\ q.op \in {"create", "fill"} => q.locked = Primaries(p)'
            /\ q.op = "update" => q.locked = Primaries(p)' \ {q.target}
    BY <1>5, <1>7, <1>9, <2>1
  <2> HIDE DEF r
  <2> QED BY <1>6, <2>2, <2>3 DEF AsRead
<1>13. ContactsTypeOK'
  BY <1>2, <1>3 DEF ContactsInv, ContactsTypeOK
<1>14. ASSUME NEW d \in Clerk, d # c, Busy(d)' PROVE Tied(d)' /\ AsRead(d)'
  <2>1. request'[d] = request[d] /\ Busy(d)
    BY <1>3, <1>14 DEF ContactsInv, ContactsTypeOK, Busy
  <2>2. Tied(d) /\ AsRead(d)
    BY <2>1 DEF ContactsInv
  <2> QED BY <1>3, <2>1, <2>2 DEF Tied, AsRead, Primaries, ContactsOf
<1>15. PrimaryIsUnique' /\ FirstContactLeads'
  BY <1>3 DEF ContactsInv, PrimaryIsUnique, FirstContactLeads, Primaries, ContactsOf
<1>16. \A x \in Contact : contact'[x] # None => contact'[x].partner \in partner'
  BY <1>3 DEF ContactsInv
<1> QED BY <1>10, <1>12, <1>13, <1>14, <1>15, <1>16 DEF ContactsInv

\* A handler that ends without a write.
LEMMA RollBackKeeps ==
    ASSUME ContactsInv, NEW c \in Clerk, RollBack(c) PROVE ContactsInv'
<1>1. request' = [request EXCEPT ![c] = Idle] /\ UNCHANGED <<partner, contact, disturbed, headless>>
  BY DEF RollBack
<1>2. ContactsTypeOK'
  BY <1>1 DEF ContactsInv, ContactsTypeOK
<1>3. ASSUME NEW d \in Clerk, Busy(d)' PROVE Tied(d)' /\ AsRead(d)'
  <2>1. request'[d] = request[d] /\ Busy(d)
    BY <1>1, <1>3 DEF ContactsInv, ContactsTypeOK, Busy
  <2>2. Tied(d) /\ AsRead(d)
    BY <2>1 DEF ContactsInv
  <2> QED BY <1>1, <2>1, <2>2 DEF Tied, AsRead, Primaries, ContactsOf
<1>4. PrimaryIsUnique' /\ FirstContactLeads'
  BY <1>1 DEF ContactsInv, PrimaryIsUnique, FirstContactLeads, Primaries, ContactsOf
<1>5. \A x \in Contact : contact'[x] # None => contact'[x].partner \in partner'
  BY <1>1 DEF ContactsInv
<1> QED BY <1>2, <1>3, <1>4, <1>5 DEF ContactsInv

-----------------------------------------------------------------------------
(* A commit of handler c that writes row x.                                *)

Commits(c, x, row) ==
    /\ Busy(c) /\ request[c].step = "write"
    /\ x \in Contact /\ row \in Row /\ row.partner \in partner
    /\ contact' = Committed(c, x, row)
    /\ request' = [request EXCEPT ![c] = Idle]
    /\ disturbed' \subseteq Partner /\ disturbed \cup Disturbs(c) \subseteq disturbed'
    /\ headless' \subseteq Partner /\ headless \subseteq headless'
    /\ partner' = partner
    /\ x \notin request[c].locked
    /\ \/ contact[x] = None /\ row.partner = request[c].partner
       \/ /\ contact[x] # None
          /\ \/ contact[x].partner = request[c].partner /\ row.partner = contact[x].partner
             \/ /\ {contact[x].partner, row.partner, request[c].partner} \subseteq disturbed'
                /\ row.partner # contact[x].partner => x \notin LockedAgainst(c)

\* The rows the commit leaves, as far as who they belong to.
LEMMA CommitRows ==
    ASSUME ContactsInv, NEW c \in Clerk, NEW x, NEW row, Commits(c, x, row)
    PROVE  /\ contact' \in [Contact -> Row \cup {None}]
           /\ contact'[x] = row /\ contact'[x] # None
           /\ \A y \in Contact \ {x} : y \notin request[c].locked => contact'[y] = contact[y]
           /\ \A y \in Contact \ {x} : contact[y] # None =>
                  contact'[y] # None /\ contact'[y].partner = contact[y].partner
           /\ \A y \in Contact \ {x} : contact[y] = None => contact'[y] = None
           /\ \A y \in request[c].locked :
                  y \in Contact /\ y # x /\ contact[y] # None /\ ~contact'[y].primary
<1>1. Busy(c) /\ Tied(c) /\ request[c] \in Request /\ x \in Contact /\ row \in Row
  BY DEF Commits, ContactsInv, ContactsTypeOK, Busy
<1>2. \A y \in request[c].locked : y \in Contact /\ y # x /\ contact[y] # None
  BY <1>1 DEF Commits, Tied, Request
<1>3. Committed(c, x, row) \in [Contact -> Row \cup {None}]
  BY <1>1, <1>2, CommittedType DEF ContactsInv
<1>4. row # None
  BY <1>1, RowNotNone
<1>5. ASSUME NEW y \in request[c].locked
      PROVE  contact'[y] # None /\ contact'[y].partner = contact[y].partner /\ ~contact'[y].primary
  <2>1. contact[y] \in Row
    BY <1>2 DEF ContactsInv, ContactsTypeOK
  <2>2. contact'[y] = [contact[y] EXCEPT !.primary = FALSE]
    BY <1>2 DEF Commits, Committed
  <2>3. contact'[y] \in Row
    BY <2>1, <2>2 DEF Row
  <2> QED BY <2>1, <2>2, <2>3, RowNotNone DEF Row
<1>6. \A y \in Contact \ {x} : y \notin request[c].locked => contact'[y] = contact[y]
  BY DEF Commits, Committed
<1>7. contact'[x] = row
  BY <1>1 DEF Commits, Committed
<1> QED BY <1>2, <1>3, <1>4, <1>5, <1>6, <1>7 DEF Commits

\* Partners other than the handler's keep their contacts, unless the commit disturbs them.
LEMMA CommitOthers ==
    ASSUME ContactsInv, NEW c \in Clerk, NEW x, NEW row, Commits(c, x, row),
           NEW p \in Partner, p \notin disturbed', p # request[c].partner
    PROVE  ContactsOf(p)' = ContactsOf(p) /\ Primaries(p)' = Primaries(p)
<1>1. Busy(c) /\ Tied(c)
  BY DEF Commits, ContactsInv
<1>2. x \notin ContactsOf(p) /\ x \notin ContactsOf(p)'
  <2>0. disturbed \subseteq disturbed'
    BY DEF Commits
  <2>1. contact'[x] = row
    BY CommitRows
  <2>2. row.partner # p /\ (contact[x] # None => contact[x].partner # p)
    BY <2>0, <2>1 DEF Commits
  <2> QED BY <2>1, <2>2 DEF ContactsOf
<1>3. \A y \in Contact \ {x} : y \in ContactsOf(p)' <=> y \in ContactsOf(p)
  BY CommitRows DEF ContactsOf
<1>4. ContactsOf(p)' = ContactsOf(p)
  BY <1>2, <1>3 DEF ContactsOf
<1>5. \A y \in ContactsOf(p) : contact'[y] = contact[y]
  <2> SUFFICES ASSUME NEW y \in ContactsOf(p) PROVE contact'[y] = contact[y]
    OBVIOUS
  <2>1. y \in Contact \ {x} /\ contact[y].partner = p
    BY <1>2 DEF ContactsOf
  <2>2. y \notin request[c].locked
    BY <1>1, <2>1 DEF Tied
  <2> QED BY <2>1, <2>2, CommitRows
<1> QED BY <1>4, <1>5 DEF Primaries

\* After a commit every other handler still knows what it knew, or its partner is disturbed.
LEMMA CommitRequests ==
    ASSUME ContactsInv, NEW c \in Clerk, NEW x, NEW row, Commits(c, x, row),
           NEW d \in Clerk, Busy(d)'
    PROVE  Tied(d)' /\ AsRead(d)'
<1>1. d # c /\ request'[d] = request[d] /\ Busy(d)
  BY DEF Commits, ContactsInv, ContactsTypeOK, Busy
<1>2. Tied(d) /\ AsRead(d) /\ request[d] \in Request
  BY <1>1 DEF ContactsInv, ContactsTypeOK, Busy
<1>3. ASSUME request[d].partner \notin disturbed' PROVE request[d].partner # request[c].partner
  <2>1. ASSUME request[d].partner = request[c].partner PROVE FALSE
    <3>1. d \in Rivals(c, request[c].partner)
      BY <1>1, <2>1 DEF Rivals
    <3>2. request[c].partner \in Disturbs(c)
      BY <3>1 DEF Disturbs
    <3> QED BY <3>2, <1>3, <2>1 DEF Commits
  <2> QED BY <2>1
<1>4. ASSUME NEW y \in request[d].locked
      PROVE  contact'[y] # None /\ contact'[y].partner = request[d].partner
  <2>1. y \in Contact /\ contact[y] # None /\ contact[y].partner = request[d].partner
    BY <1>2 DEF Tied, Request
  <2>2. CASE y # x
    BY <2>1, <2>2, CommitRows
  <2>3. CASE y = x
    <3>1. y \in LockedAgainst(c)
      BY <1>1 DEF LockedAgainst
    <3>2. row.partner = contact[x].partner
      BY <2>1, <2>3, <3>1 DEF Commits
    <3> QED BY <2>1, <2>3, <3>2, CommitRows
  <2> QED BY <2>2, <2>3
<1>5. ASSUME request[d].op = "update"
      PROVE  LET t == request[d].target IN
             /\ contact'[t] # None
             /\ \/ contact'[t].partner = request[d].partner
                \/ {contact'[t].partner, request[d].partner} \subseteq disturbed'
  <2> DEFINE t == request[d].target
  <2>1. /\ t \in Contact /\ contact[t] # None
        /\ \/ contact[t].partner = request[d].partner
           \/ {contact[t].partner, request[d].partner} \subseteq disturbed
    BY <1>2, <1>5 DEF Tied
  <2>2. disturbed \subseteq disturbed'
    BY DEF Commits
  <2>3. CASE t # x
    BY <2>1, <2>2, <2>3, CommitRows
  <2>4. CASE t = x
    <3>1. contact'[t] = row /\ contact'[t] # None
      BY <2>4, CommitRows
    <3>2. CASE row.partner = contact[x].partner
      BY <2>1, <2>2, <2>4, <3>1, <3>2
    <3>3. CASE row.partner # contact[x].partner
      <4>1. {contact[x].partner, row.partner} \subseteq disturbed'
        BY <2>1, <2>4, <3>3 DEF Commits
      <4> QED BY <2>1, <2>2, <2>4, <3>1, <4>1
    <3> QED BY <3>2, <3>3
  <2> QED BY <2>3, <2>4
<1>6. Tied(d)'
  <2>1. partner' = partner
    BY DEF Commits
  <2>2. /\ request[d].partner \in partner
        /\ request[d].op = "import" \/ request[d].step = "demote" \/ ~request[d].primary
               => request[d].locked = {}
        /\ request[d].step = "demote" => request[d].primary
        /\ request[d].op = "import" => request[d].step = "write" /\ request[d].target \in Contact
        /\ request[d].op \in {"create", "fill"} => request[d].target = None
        /\ request[d].target \notin request[d].locked
        /\ request[d].op = "update" => request[d].target \in Contact
    BY <1>2 DEF Tied
  <2> QED BY <1>1, <1>4, <1>5, <2>1, <2>2 DEF Tied
<1>7. AsRead(d)'
  <2> SUFFICES ASSUME NEW p \in Partner, p \notin disturbed', request'[d].partner = p
               PROVE  LET r == request'[d] IN
       /\ r.op \in {"create", "fill"} /\ r.step = "write" /\ r.primary => r.locked = Primaries(p)'
       /\ r.op \in {"create", "fill"} /\ r.step = "write" /\ ~r.primary => Primaries(p)' # {}
       /\ r.op = "update" /\ r.step = "write" /\ r.primary => r.locked = Primaries(p)' \ {r.target}
       /\ r.op = "import" => (r.primary <=> Primaries(p)' = {})
    BY DEF AsRead
  <2>1. p # request[c].partner
    BY <1>1, <1>3
  <2>2. Primaries(p)' = Primaries(p)
    BY <2>1, CommitOthers
  <2>3. p \notin disturbed
    BY DEF Commits
  <2> QED BY <1>1, <1>2, <2>2, <2>3 DEF AsRead
<1> QED BY <1>6, <1>7

\* The primaries of the handler's own partner, when nothing has disturbed it.
LEMMA CommitOwn ==
    ASSUME ContactsInv, NEW c \in Clerk, NEW x, NEW row, Commits(c, x, row),
           NEW p \in Partner, p \notin disturbed', p = request[c].partner
    PROVE  /\ row.partner = p
           /\ x \in ContactsOf(p)'
           /\ x \in Primaries(p)' <=> row.primary
           /\ contact[x] # None => x \in ContactsOf(p)
           /\ \A y \in Contact \ {x} :
                  y \in Primaries(p)' <=> y \in Primaries(p) /\ y \notin request[c].locked
<1>1. x \in Contact /\ disturbed \subseteq disturbed'
  BY DEF Commits
<1>2. contact'[x] = row /\ contact'[x] # None
  BY CommitRows
<1>3. row.partner = p /\ (contact[x] # None => contact[x].partner = p)
  BY DEF Commits
<1>4. ASSUME NEW y \in Contact \ {x}
      PROVE  y \in Primaries(p)' <=> y \in Primaries(p) /\ y \notin request[c].locked
  <2>1. CASE y \in request[c].locked
    BY <2>1, CommitRows DEF Primaries
  <2>2. CASE y \notin request[c].locked
    <3>1. contact'[y] = contact[y]
      BY <2>2, CommitRows
    <3> QED BY <2>2, <3>1 DEF Primaries, ContactsOf
  <2> QED BY <2>1, <2>2
<1> QED BY <1>1, <1>2, <1>3, <1>4 DEF Primaries, ContactsOf

\* A commit keeps the invariant if it leaves its own partner in order.
LEMMA CommitKeeps ==
    ASSUME ContactsInv, NEW c \in Clerk, NEW x, NEW row, Commits(c, x, row),
           \A p \in Partner : p \notin disturbed' /\ p = request[c].partner =>
               /\ \A y, z \in Primaries(p)' : y = z
               /\ p \notin headless' => Primaries(p)' # {}
    PROVE  ContactsInv'
<1>1. /\ disturbed' \subseteq Partner /\ headless' \subseteq Partner /\ partner' = partner
      /\ disturbed \subseteq disturbed' /\ headless \subseteq headless'
      /\ row.partner \in partner /\ x \in Contact
      /\ request' = [request EXCEPT ![c] = Idle]
  BY DEF Commits
<1>2. ContactsTypeOK'
  BY <1>1, CommitRows DEF ContactsInv, ContactsTypeOK
<1>3. ASSUME NEW y \in Contact, contact'[y] # None PROVE contact'[y].partner \in partner'
  <2>1. CASE y = x
    BY <1>1, <2>1, CommitRows
  <2>2. CASE y # x
    <3>1. contact[y] # None /\ contact'[y].partner = contact[y].partner
      BY <1>3, <2>2, CommitRows
    <3> QED BY <1>1, <3>1 DEF ContactsInv
  <2> QED BY <2>1, <2>2
<1>4. ASSUME NEW p \in Partner, p \notin disturbed'
      PROVE  /\ \A y, z \in Primaries(p)' : y = z
             /\ p \notin headless' /\ ContactsOf(p)' # {} => Primaries(p)' # {}
  <2>1. CASE p = request[c].partner
    BY <1>4, <2>1
  <2>2. CASE p # request[c].partner
    <3>1. ContactsOf(p)' = ContactsOf(p) /\ Primaries(p)' = Primaries(p)
      BY <1>4, <2>2, CommitOthers
    <3>2. p \notin disturbed /\ (p \notin headless' => p \notin headless)
      BY <1>1, <1>4
    <3> QED BY <3>1, <3>2 DEF ContactsInv, PrimaryIsUnique, FirstContactLeads
  <2> QED BY <2>1, <2>2
<1>5. PrimaryIsUnique' /\ FirstContactLeads'
  BY <1>4 DEF PrimaryIsUnique, FirstContactLeads
<1>6. \A d \in Clerk : Busy(d)' => Tied(d)' /\ AsRead(d)'
  BY CommitRequests
<1> QED BY <1>2, <1>3, <1>5, <1>6 DEF ContactsInv

\* The insert of createContact keeps the contacts in order.
LEMMA InsertKeeps ==
    ASSUME ContactsInv, NEW c \in Clerk, Insert(c) PROVE ContactsInv'
<1> DEFINE r == request[c]
<1>1. r \in Request /\ Tied(c) /\ AsRead(c) /\ r.op \in {"create", "fill"} /\ r.step = "write" /\ Busy(c)
  BY DEF Insert, Busy, ContactsInv, ContactsTypeOK
<1>2. r.partner \in Partner /\ r.primary \in BOOLEAN
  BY <1>1 DEF Request
<1>3. PICK x \in Unused :
          contact' = Committed(c, x, [partner |-> r.partner, primary |-> r.primary])
  BY DEF Insert, Fresh
<1> DEFINE row == [partner |-> r.partner, primary |-> r.primary]
<1>4. row \in Row /\ row.partner = r.partner /\ (row.primary <=> r.primary)
  BY <1>2 DEF Row
<1>5. x \in Contact /\ contact[x] = None /\ x \notin r.locked
  BY <1>1, <1>3 DEF Unused, Tied
<1> HIDE DEF row
<1>6. Commits(c, x, row)
  <2>1. r.partner \in partner
    BY <1>1 DEF Tied
  <2>2. disturbed' = disturbed \cup Disturbs(c) /\ UNCHANGED <<partner, headless>>
    BY DEF Insert
  <2>3. Disturbs(c) \subseteq Partner
    BY <1>2 DEF Disturbs
  <2>4. disturbed \subseteq Partner /\ headless \subseteq Partner
    BY DEF ContactsInv, ContactsTypeOK
  <2>5. request' = [request EXCEPT ![c] = Idle] /\ contact' = Committed(c, x, row)
    BY <1>3 DEF Insert, row
  <2> QED BY <1>1, <1>4, <1>5, <2>1, <2>2, <2>3, <2>4, <2>5 DEF Commits
<1>7. ASSUME NEW p \in Partner, p \notin disturbed', p = request[c].partner
      PROVE  (\A y, z \in Primaries(p)' : y = z) /\ Primaries(p)' # {}
  <2>1. /\ x \in Primaries(p)' <=> row.primary
        /\ \A y \in Contact \ {x} : y \in Primaries(p)' <=> y \in Primaries(p) /\ y \notin r.locked
    BY <1>6, <1>7, CommitOwn
  <2>2. p \notin disturbed
    BY <1>6, <1>7 DEF Commits
  <2>3. Primaries(p)' \subseteq Contact /\ Primaries(p) \subseteq Contact /\ x \notin Primaries(p)
    BY <1>5 DEF Primaries, ContactsOf
  <2>4. CASE r.primary
    <3>1. r.locked = Primaries(p)
      BY <1>1, <1>7, <2>2, <2>4 DEF AsRead
    <3>2. Primaries(p)' = {x}
      BY <1>4, <2>1, <2>3, <2>4, <3>1
    <3> QED BY <3>2
  <2>5. CASE ~r.primary
    <3>1. r.locked = {} /\ Primaries(p) # {}
      BY <1>1, <1>7, <2>2, <2>5 DEF AsRead, Tied
    <3>2. Primaries(p)' = Primaries(p)
      BY <1>4, <2>1, <2>3, <2>5, <3>1
    <3> QED BY <2>2, <3>1, <3>2 DEF ContactsInv, PrimaryIsUnique
  <2> QED BY <2>4, <2>5
<1> QED BY <1>6, <1>7, CommitKeeps

\* The update of updateContact keeps the contacts in order.
LEMMA UpdateKeeps ==
    ASSUME ContactsInv, NEW c \in Clerk, Update(c) PROVE ContactsInv'
<1> DEFINE r == request[c]
           x == r.target
           row == [contact[x] EXCEPT !.primary = r.primary]
<1>1. r \in Request /\ Tied(c) /\ AsRead(c) /\ r.op = "update" /\ r.step = "write" /\ Busy(c)
  BY DEF Update, Busy, ContactsInv, ContactsTypeOK
<1>2. r.partner \in Partner /\ r.primary \in BOOLEAN
  BY <1>1 DEF Request
<1>3. /\ x \in Contact /\ contact[x] # None /\ r.partner \in partner
      /\ contact[x].partner = r.partner \/ {contact[x].partner, r.partner} \subseteq disturbed
  BY <1>1 DEF Tied
<1>4. contact[x] \in Row /\ contact[x].partner \in partner
  BY <1>3 DEF ContactsInv, ContactsTypeOK
<1>5. row \in Row /\ row.partner = contact[x].partner /\ (row.primary <=> r.primary)
  <2>1. \A o \in Row : /\ [o EXCEPT !.primary = r.primary].partner = o.partner
                       /\ [o EXCEPT !.primary = r.primary].primary = r.primary
    BY DEF Row
  <2> QED BY <1>2, <1>4, <2>1, RowUpdates
<1>6. x \notin r.locked
  BY <1>1 DEF Tied
<1>7. /\ contact' = Committed(c, x, row) /\ partner' = partner
      /\ request' = [request EXCEPT ![c] = Idle]
      /\ disturbed' = disturbed \cup Disturbs(c)
      /\ headless' = IF contact[x].primary /\ ~r.primary THEN headless \cup {contact[x].partner}
                     ELSE headless
  BY DEF Update
<1> HIDE DEF row
<1>8. Commits(c, x, row)
  <2>1. Disturbs(c) \subseteq Partner /\ disturbed \subseteq Partner /\ headless \subseteq Partner
    BY <1>2 DEF Disturbs, ContactsInv, ContactsTypeOK
  <2>2. contact[x].partner \in Partner
    BY <1>4 DEF Row
  <2>3. headless \subseteq headless' /\ headless' \subseteq Partner
    BY <1>7, <2>1, <2>2
  <2> HIDE DEF x
  <2> QED BY <1>1, <1>3, <1>4, <1>5, <1>6, <1>7, <2>1, <2>3 DEF Commits
<1>9. ASSUME NEW p \in Partner, p \notin disturbed', p = request[c].partner
      PROVE  (\A y, z \in Primaries(p)' : y = z) /\ (p \notin headless' => Primaries(p)' # {})
  <2>1. /\ x \in Primaries(p)' <=> row.primary
        /\ \A y \in Contact \ {x} : y \in Primaries(p)' <=> y \in Primaries(p) /\ y \notin r.locked
        /\ x \in ContactsOf(p)
    BY <1>3, <1>8, <1>9, CommitOwn
  <2>2. p \notin disturbed /\ (p \notin headless' => p \notin headless)
    BY <1>8, <1>9 DEF Commits
  <2>3. Primaries(p)' \subseteq Contact /\ Primaries(p) \subseteq Contact
    BY DEF Primaries, ContactsOf
  <2>4. CASE r.primary
    <3>1. r.locked = Primaries(p) \ {x}
      BY <1>1, <1>9, <2>2, <2>4 DEF AsRead
    <3>2. Primaries(p)' = {x}
      BY <1>3, <1>5, <2>1, <2>3, <2>4, <3>1
    <3> QED BY <3>2
  <2>5. CASE ~r.primary
    <3>1. r.locked = {}
      BY <1>1, <2>5 DEF Tied
    <3>2. Primaries(p)' = Primaries(p) \ {x}
      BY <1>3, <1>5, <2>1, <2>3, <2>5, <3>1
    <3>3. p \notin headless' => x \notin Primaries(p) /\ Primaries(p) # {}
      <4>1. contact[x].partner = p
        BY <2>1 DEF ContactsOf
      <4>2. p \notin headless' => ~contact[x].primary
        BY <1>7, <2>5, <4>1
      <4> QED BY <2>1, <2>2, <4>2 DEF ContactsInv, FirstContactLeads, Primaries
    <3> QED BY <2>2, <3>2, <3>3 DEF ContactsInv, PrimaryIsUnique
  <2> QED BY <2>4, <2>5
<1> QED BY <1>8, <1>9, CommitKeeps

\* An import that adds a contact keeps the contacts in order.
LEMMA ImportNewKeeps ==
    ASSUME ContactsInv, NEW c \in Clerk, ImportNew(c) PROVE ContactsInv'
<1> DEFINE r == request[c]
           x == r.target
           row == [partner |-> r.partner, primary |-> r.primary]
<1>1. r \in Request /\ Tied(c) /\ AsRead(c) /\ r.op = "import" /\ Busy(c)
  BY DEF ImportNew, Busy, ContactsInv, ContactsTypeOK
<1>2. r.partner \in Partner /\ r.primary \in BOOLEAN
  BY <1>1 DEF Request
<1>3. /\ x \in Contact /\ contact[x] = None /\ r.partner \in partner
      /\ r.locked = {} /\ r.step = "write"
  BY <1>1 DEF Tied, ImportNew
<1>4. row \in Row /\ row.partner = r.partner /\ (row.primary <=> r.primary)
  BY <1>2 DEF Row
<1>5. /\ contact' = Committed(c, x, row) /\ UNCHANGED <<partner, headless>>
      /\ request' = [request EXCEPT ![c] = Idle]
      /\ disturbed' = disturbed \cup Disturbs(c)
  BY DEF ImportNew
<1> HIDE DEF row
<1>6. Commits(c, x, row)
  <2>1. Disturbs(c) \subseteq Partner /\ disturbed \subseteq Partner /\ headless \subseteq Partner
    BY <1>2 DEF Disturbs, ContactsInv, ContactsTypeOK
  <2> HIDE DEF x
  <2> QED BY <1>1, <1>3, <1>4, <1>5, <2>1 DEF Commits
<1>7. ASSUME NEW p \in Partner, p \notin disturbed', p = request[c].partner
      PROVE  (\A y, z \in Primaries(p)' : y = z) /\ Primaries(p)' # {}
  <2>1. /\ x \in Primaries(p)' <=> row.primary
        /\ \A y \in Contact \ {x} : y \in Primaries(p)' <=> y \in Primaries(p) /\ y \notin r.locked
    BY <1>6, <1>7, CommitOwn
  <2>2. p \notin disturbed
    BY <1>6, <1>7 DEF Commits
  <2>3. Primaries(p)' \subseteq Contact /\ Primaries(p) \subseteq Contact /\ x \notin Primaries(p)
    BY <1>3 DEF Primaries, ContactsOf
  <2>4. r.primary <=> Primaries(p) = {}
    BY <1>1, <1>7, <2>2 DEF AsRead
  <2>5. CASE r.primary
    <3>1. Primaries(p)' = {x}
      BY <1>3, <1>4, <2>1, <2>3, <2>4, <2>5
    <3> QED BY <3>1
  <2>6. CASE ~r.primary
    <3>1. Primaries(p)' = Primaries(p)
      BY <1>3, <1>4, <2>1, <2>3, <2>6
    <3> QED BY <2>2, <2>4, <2>6, <3>1 DEF ContactsInv, PrimaryIsUnique
  <2> QED BY <2>5, <2>6
<1> QED BY <1>6, <1>7, CommitKeeps

\* An import that moves a contact disturbs both partners, and so keeps the rest in order.
LEMMA ImportKnownKeeps ==
    ASSUME ContactsInv, NEW c \in Clerk, ImportKnown(c) PROVE ContactsInv'
<1> DEFINE r == request[c]
           x == r.target
           row == [contact[x] EXCEPT !.partner = r.partner]
<1>1. r \in Request /\ Tied(c) /\ AsRead(c) /\ r.op = "import" /\ Busy(c)
  BY DEF ImportKnown, Busy, ContactsInv, ContactsTypeOK
<1>2. r.partner \in Partner
  BY <1>1 DEF Request
<1>3. /\ x \in Contact /\ contact[x] # None /\ r.partner \in partner
      /\ r.locked = {} /\ r.step = "write" /\ x \notin LockedAgainst(c)
  BY <1>1 DEF Tied, ImportKnown
<1>4. contact[x] \in Row /\ contact[x].partner \in Partner
  BY <1>3 DEF ContactsInv, ContactsTypeOK, Row
<1>5. row \in Row /\ row.partner = r.partner /\ row.primary = contact[x].primary
  <2>1. \A o \in Row : /\ [o EXCEPT !.partner = r.partner].partner = r.partner
                       /\ [o EXCEPT !.partner = r.partner].primary = o.primary
    BY DEF Row
  <2> QED BY <1>2, <1>4, <2>1, RowUpdates
<1>6. /\ contact' = Committed(c, x, row) /\ UNCHANGED <<partner, headless>>
      /\ request' = [request EXCEPT ![c] = Idle]
      /\ disturbed' = disturbed \cup Disturbs(c)
                          \cup (IF contact[x].partner = r.partner THEN {}
                                ELSE {contact[x].partner, r.partner})
  BY DEF ImportKnown
<1> HIDE DEF row
<1>7. Commits(c, x, row)
  <2>1. Disturbs(c) \subseteq Partner /\ disturbed \subseteq Partner /\ headless \subseteq Partner
    BY <1>2 DEF Disturbs, ContactsInv, ContactsTypeOK
  <2>2. disturbed' \subseteq Partner
    BY <1>2, <1>4, <1>6, <2>1
  <2>3. \/ contact[x].partner = r.partner
        \/ {contact[x].partner, r.partner} \subseteq disturbed'
    BY <1>6
  <2> HIDE DEF x
  <2> QED BY <1>1, <1>3, <1>5, <1>6, <2>1, <2>2, <2>3 DEF Commits
<1>8. ASSUME NEW p \in Partner, p \notin disturbed', p = request[c].partner
      PROVE  (\A y, z \in Primaries(p)' : y = z) /\ (p \notin headless' => Primaries(p)' # {})
  <2>1. /\ x \in Primaries(p)' <=> row.primary
        /\ \A y \in Contact \ {x} : y \in Primaries(p)' <=> y \in Primaries(p) /\ y \notin r.locked
        /\ x \in ContactsOf(p)
    BY <1>3, <1>7, <1>8, CommitOwn
  <2>2. p \notin disturbed /\ (p \notin headless' => p \notin headless)
    BY <1>7, <1>8 DEF Commits
  <2>3. Primaries(p)' \subseteq Contact /\ Primaries(p) \subseteq Contact
    BY DEF Primaries, ContactsOf
  <2>4. x \in Primaries(p) <=> contact[x].primary
    BY <2>1 DEF Primaries
  <2>5. Primaries(p)' = Primaries(p)
    BY <1>3, <1>5, <2>1, <2>3, <2>4
  <2> QED BY <2>1, <2>2, <2>5 DEF ContactsInv, PrimaryIsUnique, FirstContactLeads
<1> QED BY <1>7, <1>8, CommitKeeps

\* A new partner has no contacts and nobody is at work on it.
LEMMA CreatePartnerKeeps ==
    ASSUME ContactsInv, NEW p \in Partner, CreatePartner(p) PROVE ContactsInv'
<1>1. p \notin partner /\ partner' = partner \cup {p} /\ UNCHANGED <<request, disturbed, headless>>
  BY DEF CreatePartner
<1>2. ContactsOf(p) = {}
  BY <1>1 DEF ContactsInv, ContactsOf
<1> DEFINE row == [partner |-> p, primary |-> TRUE]
<1>3. row \in Row /\ row.partner = p /\ row.primary = TRUE /\ row # None
  BY RowNotNone DEF Row
<1>4. /\ contact' \in [Contact -> Row \cup {None}]
      /\ \A y \in Contact : contact[y] # None => contact'[y] = contact[y]
      /\ \A y \in Contact : contact[y] = None => contact'[y] \in {None, row}
      /\ \A y, z \in ContactsOf(p)' : y = z
  <2>1. CASE contact' = contact
    <3>1. ContactsOf(p)' = {}
      BY <1>2, <2>1 DEF ContactsOf
    <3> QED BY <2>1, <3>1 DEF ContactsInv, ContactsTypeOK
  <2>2. ASSUME NEW x \in Fresh, contact' = [contact EXCEPT ![x] = row]
        PROVE  /\ contact' \in [Contact -> Row \cup {None}]
               /\ \A y \in Contact : contact[y] # None => contact'[y] = contact[y]
               /\ \A y \in Contact : contact[y] = None => contact'[y] \in {None, row}
               /\ \A y, z \in ContactsOf(p)' : y = z
    <3> HIDE DEF row
    <3>1. x \in Contact /\ contact[x] = None /\ contact \in [Contact -> Row \cup {None}]
      BY DEF Fresh, Unused, ContactsInv, ContactsTypeOK
    <3>2. \A y \in Contact : y # x => contact'[y] = contact[y]
      BY <2>2, <3>1
    <3>3. contact'[x] = row
      BY <2>2, <3>1
    <3>4. \A y \in ContactsOf(p)' : y = x
      BY <1>2, <3>2 DEF ContactsOf
    <3> QED BY <1>3, <2>2, <3>1, <3>2, <3>3, <3>4
  <2> QED BY <2>1, <2>2 DEF CreatePartner
<1> HIDE DEF row
<1>5. ASSUME NEW q \in Partner, q # p
      PROVE  ContactsOf(q)' = ContactsOf(q) /\ Primaries(q)' = Primaries(q)
  <2>1. \A y \in Contact : contact[y] = None => y \notin ContactsOf(q)'
    BY <1>3, <1>4, <1>5 DEF ContactsOf
  <2>2. \A y \in Contact : y \in ContactsOf(q)' <=> y \in ContactsOf(q)
    BY <1>4, <2>1 DEF ContactsOf
  <2>3. ContactsOf(q)' = ContactsOf(q)
    BY <2>2 DEF ContactsOf
  <2>4. \A y \in ContactsOf(q) : contact'[y] = contact[y]
    BY <1>4 DEF ContactsOf
  <2> QED BY <2>3, <2>4 DEF Primaries
<1>6. ContactsTypeOK'
  BY <1>1, <1>4 DEF ContactsInv, ContactsTypeOK
<1>7. \A y \in Contact : contact'[y] # None => contact'[y].partner \in partner'
  BY <1>1, <1>3, <1>4 DEF ContactsInv
<1>8. \A y \in ContactsOf(p)' : contact'[y] = row
  BY <1>2, <1>4 DEF ContactsOf
<1>9. ContactsOf(p)' = Primaries(p)'
  BY <1>3, <1>8 DEF Primaries
<1>10. PrimaryIsUnique'
  BY <1>1, <1>4, <1>5, <1>9 DEF ContactsInv, PrimaryIsUnique
<1>11. FirstContactLeads'
  BY <1>1, <1>5, <1>9 DEF ContactsInv, FirstContactLeads
<1>12. ASSUME NEW d \in Clerk, Busy(d)' PROVE Tied(d)' /\ AsRead(d)'
  <2>1. Busy(d) /\ request'[d] = request[d]
    BY <1>1, <1>12 DEF Busy
  <2>2. Tied(d) /\ AsRead(d) /\ request[d] \in Request
    BY <2>1 DEF ContactsInv, ContactsTypeOK, Busy
  <2>3. request[d].partner # p
    BY <1>1, <2>2 DEF Tied
  <2>4. Tied(d)'
    <3>1. \A y \in request[d].locked : contact'[y] = contact[y]
      BY <1>4, <2>2 DEF Tied, Request
    <3>2. request[d].op = "update" => contact'[request[d].target] = contact[request[d].target]
      BY <1>4, <2>2 DEF Tied
    <3> QED BY <1>1, <2>1, <2>2, <3>1, <3>2 DEF Tied
  <2>5. AsRead(d)'
    BY <1>1, <1>5, <2>1, <2>2, <2>3 DEF AsRead
  <2> QED BY <2>4, <2>5
<1> QED BY <1>6, <1>7, <1>10, <1>11, <1>12 DEF ContactsInv

-----------------------------------------------------------------------------
\* Every behaviour keeps the invariant.
THEOREM ContactsInvariant == ContactsSpec => []ContactsInv
<1>1. ContactsInit => ContactsInv
  BY DEF ContactsInit, ContactsInv, ContactsTypeOK, Busy, PrimaryIsUnique, FirstContactLeads,
         Primaries, ContactsOf
<1>2. ContactsInv /\ [ContactsNext]_contactVars => ContactsInv'
  <2> SUFFICES ASSUME ContactsInv, [ContactsNext]_contactVars PROVE ContactsInv'
    OBVIOUS
  <2>1. CASE \E p \in Partner : CreatePartner(p)
    BY <2>1, CreatePartnerKeeps
  <2>2. ASSUME NEW c \in Clerk, StartHandler(c) PROVE ContactsInv'
    BY <2>2, AskKeeps
  <2>3. ASSUME NEW c \in Clerk, Handle(c) PROVE ContactsInv'
    BY <2>3, DemoteKeeps, InsertKeeps, UpdateKeeps, ImportNewKeeps, ImportKnownKeeps, RollBackKeeps
       DEF Handle
  <2>4. CASE UNCHANGED contactVars
    BY <2>4 DEF contactVars, ContactsInv, ContactsTypeOK, Busy, Tied, AsRead, PrimaryIsUnique,
                FirstContactLeads, Primaries, ContactsOf
  <2> QED BY <2>1, <2>2, <2>3, <2>4 DEF ContactsNext
<1> QED BY <1>1, <1>2, PTL DEF ContactsSpec

\* The partners, the contact rows and the handlers' requests keep their types.
THEOREM ContactsTypes == ContactsSpec => []ContactsTypeOK
BY ContactsInvariant, PTL DEF ContactsInv

\* Two primary contacts of one partner need handlers that overlapped or an import that moved one.
THEOREM OnePrimary == ContactsSpec => []PrimaryIsUnique
BY ContactsInvariant, PTL DEF ContactsInv

\* A partner whose handlers ran apart and never demoted by omission keeps a primary contact.
THEOREM SomePrimary == ContactsSpec => []FirstContactLeads
BY ContactsInvariant, PTL DEF ContactsInv

-----------------------------------------------------------------------------
(* Coverage                                                                *)

\* Unit u is partner p's, or was moved away from it.
WasOwned(u, p) == owner[u] = p \/ <<u, p>> \in left

CheckedRight(c) ==
    LET r == checked[c]
    IN r # NoCheck => /\ \A u \in r.units : WasOwned(u, r.partner)
                      /\ r.op = "add" => covers[r.partner][r.code] # None

CoverageInv ==
    /\ CoverageTypeOK
    /\ \A c \in Lawyer : CheckedRight(c)
    /\ CoverageWasOwned

-----------------------------------------------------------------------------
\* The units of a partner's contract are units, of that partner once.
LEMMA CoveredUnits ==
    ASSUME CoverageInv, NEW p \in Partner, NEW k \in Code, covers[p][k] # None
    PROVE  covers[p][k] \in SUBSET Unit /\ \A u \in covers[p][k] : WasOwned(u, p)
<1>1. covers[p] \in [Code -> (SUBSET Unit) \cup {None}]
  BY DEF CoverageInv, CoverageTypeOK
<1>2. covers[p][k] \in SUBSET Unit
  BY <1>1
<1>3. \A u \in covers[p][k] : WasOwned(u, p)
  BY DEF CoverageInv, CoverageWasOwned, WasOwned
<1> QED BY <1>2, <1>3

\* A step that leaves the contracts and the requests alone, and forgets no owner.
LEMMA OwnersMove ==
    ASSUME CoverageInv, UNCHANGED <<covers, checked>>,
           owner' \in [Unit -> Partner \cup {None}], left' \subseteq Unit \X Partner,
           \A u \in Unit, p \in Partner : WasOwned(u, p) => WasOwned(u, p)'
    PROVE  CoverageInv'
<1>1. CoverageTypeOK'
  BY DEF CoverageInv, CoverageTypeOK
<1>2. ASSUME NEW c \in Lawyer PROVE CheckedRight(c)'
  <2> SUFFICES ASSUME checked[c] # NoCheck PROVE CheckedRight(c)'
    BY DEF CheckedRight
  <2>1. checked[c] \in Check /\ CheckedRight(c)
    BY DEF CoverageInv, CoverageTypeOK
  <2>2. checked[c].partner \in Partner /\ checked[c].units \subseteq Unit
    BY <2>1 DEF Check
  <2> QED BY <2>1, <2>2 DEF CheckedRight
<1>3. CoverageWasOwned'
  <2> SUFFICES ASSUME NEW p \in Partner, NEW k \in Code, covers[p][k] # None, NEW u \in covers[p][k]
               PROVE  WasOwned(u, p)'
    BY DEF CoverageWasOwned, WasOwned
  <2> QED BY CoveredUnits
<1> QED BY <1>1, <1>2, <1>3 DEF CoverageInv

Writes(p, k, units) ==
    /\ covers' = [covers EXCEPT ![p] = [covers[p] EXCEPT ![k] = units]]
    /\ \A u \in units : WasOwned(u, p)

\* A step that writes the units of one contract, all of them its partner's once.
LEMMA CoverageMoves ==
    ASSUME CoverageInv, UNCHANGED <<owner, left>>,
           NEW p \in Partner, NEW k \in Code, NEW units \in SUBSET Unit,
           Writes(p, k, units),
           \A c \in Lawyer : checked'[c] \in {checked[c], NoCheck},
           checked' \in [Lawyer -> Check \cup {NoCheck}]
    PROVE  /\ CoverageInv'
           /\ covers'[p][k] = units
           /\ \A q \in Partner, j \in Code : q # p \/ j # k => covers'[q][j] = covers[q][j]
<1>0. covers' = [covers EXCEPT ![p] = [covers[p] EXCEPT ![k] = units]] /\ \A u \in units : WasOwned(u, p)
  BY DEF Writes
<1>1. covers \in [Partner -> [Code -> (SUBSET Unit) \cup {None}]]
  BY DEF CoverageInv, CoverageTypeOK
<1>2. covers' \in [Partner -> [Code -> (SUBSET Unit) \cup {None}]]
  <2>1. [covers[p] EXCEPT ![k] = units] \in [Code -> (SUBSET Unit) \cup {None}]
    BY <1>1
  <2> QED BY <1>0, <1>1, <2>1
<1>3. covers'[p][k] = units
  BY <1>0, <1>1
<1>4. ASSUME NEW q \in Partner, NEW j \in Code, q # p \/ j # k PROVE covers'[q][j] = covers[q][j]
  BY <1>0, <1>1, <1>4
<1>5. CoverageTypeOK'
  BY <1>2 DEF CoverageInv, CoverageTypeOK
<1>6. units # None
  BY CoverageAssumption
<1>7. ASSUME NEW c \in Lawyer PROVE CheckedRight(c)'
  <2> SUFFICES ASSUME checked'[c] # NoCheck PROVE CheckedRight(c)'
    BY DEF CheckedRight
  <2>1. checked'[c] = checked[c] /\ checked[c] \in Check /\ CheckedRight(c)
    BY DEF CoverageInv, CoverageTypeOK
  <2>2. checked[c].partner \in Partner /\ checked[c].code \in Code
    BY <2>1 DEF Check
  <2>3. \A q \in Partner, j \in Code : covers[q][j] # None => covers'[q][j] # None
    BY <1>3, <1>4, <1>6
  <2> QED BY <2>1, <2>2, <2>3 DEF CheckedRight, WasOwned
<1>8. CoverageWasOwned'
  <2> SUFFICES ASSUME NEW q \in Partner, NEW j \in Code, covers'[q][j] # None, NEW u \in covers'[q][j]
               PROVE  WasOwned(u, q)'
    BY DEF CoverageWasOwned, WasOwned
  <2>1. CASE q = p /\ j = k
    BY <1>0, <1>3, <2>1 DEF WasOwned
  <2>2. CASE q # p \/ j # k
    BY <1>4, <2>2, CoveredUnits DEF WasOwned
  <2> QED BY <2>1, <2>2
<1> QED BY <1>3, <1>4, <1>5, <1>7, <1>8 DEF CoverageInv

\* A step that only starts or drops a check.
LEMMA ChecksMove ==
    ASSUME CoverageInv, UNCHANGED <<owner, covers, left>>, NEW c \in Lawyer,
           NEW r \in Check \cup {NoCheck}, checked' = [checked EXCEPT ![c] = r],
           r # NoCheck => /\ \A u \in r.units : WasOwned(u, r.partner)
                          /\ r.op = "add" => covers[r.partner][r.code] # None
    PROVE  CoverageInv'
<1>1. CoverageTypeOK' /\ CoverageWasOwned'
  BY DEF CoverageInv, CoverageTypeOK, CoverageWasOwned
<1>2. \A d \in Lawyer : checked'[d] = IF d = c THEN r ELSE checked[d]
  BY DEF CoverageInv, CoverageTypeOK
<1>3. \A d \in Lawyer : CheckedRight(d)'
  BY <1>2 DEF CoverageInv, CheckedRight, WasOwned
<1> QED BY <1>1, <1>3 DEF CoverageInv

\* A write of a contract covers what was checked and takes nothing away.
LEMMA CoverageWrite ==
    ASSUME CoverageInv, NEW c \in Lawyer, CreateContract(c) \/ AddUnits(c)
    PROVE  /\ CoverageInv'
           /\ \A p \in Partner, k \in Code : covers[p][k] # None =>
                  covers'[p][k] # None /\ covers[p][k] \subseteq covers'[p][k]
<1> DEFINE r == checked[c]
           old == covers[r.partner][r.code]
<1>1. r \in Check /\ r # NoCheck
  BY DEF CreateContract, AddUnits, CoverageInv, CoverageTypeOK, NoCheck
<1>2. /\ r.partner \in Partner /\ r.code \in Code /\ r.units \in SUBSET Unit
      /\ \A u \in r.units : WasOwned(u, r.partner)
      /\ r.op = "add" => old # None
  BY <1>1 DEF Check, CoverageInv, CheckedRight
<1>3. old # None => old \in SUBSET Unit /\ \A u \in old : WasOwned(u, r.partner)
  BY <1>2, CoveredUnits
<1>4. PICK units \in SUBSET Unit :
          /\ Cover(c, units)
          /\ \A u \in units : WasOwned(u, r.partner)
          /\ old # None => old \subseteq units
  <2>1. CASE CreateContract(c)
    <3>1. CASE old = None
      BY <1>2, <2>1, <3>1 DEF CreateContract
    <3>2. CASE old # None
      BY <1>3, <2>1, <3>2 DEF CreateContract
    <3> QED BY <3>1, <3>2
  <2>2. CASE AddUnits(c)
    <3>1. old # None /\ Cover(c, old \cup r.units)
      BY <1>2, <2>2 DEF AddUnits
    <3>2. old \cup r.units \in SUBSET Unit
      BY <1>2, <1>3, <3>1
    <3> QED BY <1>2, <1>3, <3>1, <3>2
  <2> QED BY <2>1, <2>2
<1>5. /\ covers' = [covers EXCEPT ![r.partner] = [covers[r.partner] EXCEPT ![r.code] = units]]
      /\ checked' = [checked EXCEPT ![c] = NoCheck] /\ UNCHANGED <<owner, left>>
  BY <1>4 DEF Cover
<1>6. /\ checked' \in [Lawyer -> Check \cup {NoCheck}]
      /\ \A d \in Lawyer : checked'[d] \in {checked[d], NoCheck}
  BY <1>5 DEF CoverageInv, CoverageTypeOK
<1>7. PICK p \in Partner, k \in Code : p = r.partner /\ k = r.code
  BY <1>2
<1>8. /\ Writes(p, k, units)
      /\ covers[p][k] # None => covers[p][k] \subseteq units
  BY <1>4, <1>5, <1>7 DEF Writes
<1> HIDE DEF old, r
<1>9. /\ CoverageInv'
      /\ covers'[p][k] = units
      /\ \A q \in Partner, j \in Code : q # p \/ j # k => covers'[q][j] = covers[q][j]
  <2>1. UNCHANGED <<owner, left>>
    BY <1>5
  <2>2. checked' \in [Lawyer -> Check \cup {NoCheck}]
    BY <1>6
  <2>3. \A d \in Lawyer : checked'[d] \in {checked[d], NoCheck}
    BY <1>6
  <2> QED BY <1>8, <2>1, <2>2, <2>3, CoverageMoves
<1>10. units # None
  BY CoverageAssumption
<1> QED BY <1>8, <1>9, <1>10

\* Every step of units and contracts keeps every cover within what was owned.
LEMMA CoverageStep ==
    ASSUME CoverageInv, partner \subseteq Partner, [CoverageNext]_coverageVars PROVE CoverageInv'
<1>1. ASSUME NEW u \in Unit, NEW p \in Partner, CreateUnit(u, p) PROVE CoverageInv'
  <2>1. \A v \in Unit, q \in Partner : WasOwned(v, q) => WasOwned(v, q)'
    BY <1>1, CoverageAssumption DEF CreateUnit, WasOwned, CoverageInv, CoverageTypeOK
  <2>2. owner' \in [Unit -> Partner \cup {None}] /\ left' \subseteq Unit \X Partner
    BY <1>1 DEF CreateUnit, CoverageInv, CoverageTypeOK
  <2> QED BY <1>1, <2>1, <2>2, OwnersMove DEF CreateUnit
<1>2. ASSUME NEW u \in Unit, NEW p \in Partner, MoveUnit(u, p) PROVE CoverageInv'
  <2>0. owner \in [Unit -> Partner \cup {None}] /\ owner[u] \in Partner /\ left \subseteq Unit \X Partner
    BY <1>2 DEF MoveUnit, CoverageInv, CoverageTypeOK
  <2>1. \A v \in Unit, q \in Partner : WasOwned(v, q) => WasOwned(v, q)'
    BY <1>2, <2>0 DEF MoveUnit, WasOwned
  <2>2. owner' \in [Unit -> Partner \cup {None}] /\ left' \subseteq Unit \X Partner
    BY <1>2, <2>0 DEF MoveUnit
  <2> QED BY <1>2, <2>1, <2>2, OwnersMove DEF MoveUnit
<1>3. ASSUME NEW c \in Lawyer, NEW p \in Partner, NEW k \in Code, NEW units \in SUBSET Unit,
             CheckContract(c, p, k, units) \/ CheckUnits(c, p, k, units)
      PROVE  CoverageInv'
  <2>1. PICK op \in {"create", "add"} :
            /\ checked' = [checked EXCEPT ![c] =
                   [op |-> op, partner |-> p, code |-> k, units |-> units]]
            /\ op = "add" => covers[p][k] # None
    BY <1>3 DEF CheckContract, CheckUnits
  <2>2. units \subseteq Owned(p) /\ UNCHANGED <<owner, covers, left>>
    BY <1>3 DEF CheckContract, CheckUnits
  <2>3. \A u \in units : WasOwned(u, p)
    BY <2>2 DEF Owned, WasOwned
  <2> DEFINE r == [op |-> op, partner |-> p, code |-> k, units |-> units]
  <2>4. r \in Check /\ r.op = op /\ r.partner = p /\ r.code = k /\ r.units = units
    BY DEF Check
  <2> HIDE DEF r
  <2>5. checked' = [checked EXCEPT ![c] = r]
    BY <2>1 DEF r
  <2> QED BY <2>1, <2>2, <2>3, <2>4, <2>5, ChecksMove
<1>4. ASSUME NEW c \in Lawyer, CreateContract(c) \/ AddUnits(c) PROVE CoverageInv'
  BY <1>4, CoverageWrite
<1>5. ASSUME NEW c \in Lawyer, GiveUp(c) PROVE CoverageInv'
  BY <1>5, ChecksMove DEF GiveUp
<1>6. ASSUME NEW p \in Partner, NEW k \in Code, NEW u \in Unit, RemoveContractUnit(p, k, u)
      PROVE  CoverageInv'
  <2>1. covers[p][k] # None /\ UNCHANGED <<owner, checked, left>>
    BY <1>6 DEF RemoveContractUnit
  <2>2. covers[p][k] \ {u} \in SUBSET Unit /\ \A v \in covers[p][k] \ {u} : WasOwned(v, p)
    BY <2>1, CoveredUnits
  <2>3. checked' \in [Lawyer -> Check \cup {NoCheck}]
    BY <2>1 DEF CoverageInv, CoverageTypeOK
  <2>4. covers' = [covers EXCEPT ![p] = [covers[p] EXCEPT ![k] = covers[p][k] \ {u}]]
    BY <1>6 DEF RemoveContractUnit
  <2>5. Writes(p, k, covers[p][k] \ {u})
    BY <2>2, <2>4 DEF Writes
  <2> QED BY <2>1, <2>2, <2>3, <2>5, CoverageMoves
<1>7. CASE UNCHANGED coverageVars
  BY <1>7 DEF coverageVars, CoverageInv, CoverageTypeOK, CheckedRight, WasOwned, CoverageWasOwned
<1> QED BY <1>1, <1>2, <1>3, <1>4, <1>5, <1>6, <1>7 DEF CoverageNext

-----------------------------------------------------------------------------
\* A behaviour of the registry is one of the contacts: contracts and units leave them alone.
THEOREM RegistryKeepsContacts == RegistrySpec => ContactsSpec
<1>1. RegistryInit => ContactsInit
  BY DEF RegistryInit
<1>2. [RegistryNext]_registryVars => [ContactsNext]_contactVars
  BY DEF RegistryNext, registryVars, contactVars
<1> QED BY <1>1, <1>2, PTL DEF RegistrySpec, ContactsSpec

\* ... and one of the coverage: what the handlers of contacts do is a stutter there.
THEOREM RegistryKeepsCoverage == RegistrySpec => CoverageSpec
<1>1. RegistryInit => CoverageInit
  BY DEF RegistryInit
<1>2. [RegistryNext]_registryVars => [CoverageNext]_coverageVars
  BY DEF RegistryNext, registryVars, coverageVars
<1> QED BY <1>1, <1>2, PTL DEF RegistrySpec, CoverageSpec

\* Contacts, units and contracts side by side keep what each half keeps alone
\* (partners.service.ts, contracts.service.ts and units.service.ts share the partners).
THEOREM RegistryInvariant == RegistrySpec => [](ContactsInv /\ CoverageInv)
<1>1. RegistrySpec => []ContactsInv
  BY RegistryKeepsContacts, ContactsInvariant, PTL
<1>2. RegistryInit => CoverageInv
  <2> SUFFICES ASSUME RegistryInit PROVE CoverageInv
    OBVIOUS
  <2>1. partner \subseteq Partner
    BY DEF RegistryInit, ContactsInit
  <2>2. /\ owner \in [Unit -> Partner \cup {None}] /\ left = {}
        /\ covers = [p \in Partner |-> [k \in Code |-> None]]
        /\ checked = [c \in Lawyer |-> NoCheck]
    BY <2>1 DEF RegistryInit, CoverageInit
  <2>3. \A p \in Partner, k \in Code : covers[p][k] = None
    BY <2>2
  <2>4. CoverageTypeOK
    BY <2>2 DEF CoverageTypeOK
  <2> QED BY <2>2, <2>3, <2>4 DEF CoverageInv, CheckedRight, CoverageWasOwned
<1>3. ContactsInv /\ CoverageInv /\ [CoverageNext]_coverageVars => CoverageInv'
  BY CoverageStep DEF ContactsInv, ContactsTypeOK
<1> QED BY <1>1, <1>2, <1>3, RegistryKeepsCoverage, PTL DEF RegistrySpec, CoverageSpec

\* The rows of the registry and what its handlers have read keep their types.
THEOREM RegistryTypes == RegistrySpec => []RegistryTypeOK
BY RegistryInvariant, PTL DEF ContactsInv, CoverageInv, RegistryTypeOK

\* The registry as a whole keeps what the handlers of contacts promise.
THEOREM RegistryPrimaries == RegistrySpec => [](PrimaryIsUnique /\ FirstContactLeads)
BY RegistryInvariant, PTL DEF ContactsInv

\* A contract never covers a unit that was not its partner's, however old the check that let it in.
THEOREM CoveredUnitsWereOwned == RegistrySpec => []CoverageWasOwned
BY RegistryInvariant, PTL DEF CoverageInv

\* No handler of a contract undoes what another has covered.
THEOREM CoverageOnlyGrows == RegistrySpec => CoverageIsNotLost
<1>1. CoverageInv /\ [CoverageNext]_coverageVars =>
          [\A p \in Partner, k \in Code :
               checked' # checked /\ covers[p][k] # None =>
                   covers'[p][k] # None /\ covers[p][k] \subseteq covers'[p][k]]_coverageVars
  <2> SUFFICES ASSUME CoverageInv, CoverageNext, NEW p \in Partner, NEW k \in Code,
                      checked' # checked, covers[p][k] # None
               PROVE  covers'[p][k] # None /\ covers[p][k] \subseteq covers'[p][k]
    BY DEF coverageVars
  <2>1. CASE \E c \in Lawyer : CreateContract(c) \/ AddUnits(c)
    BY <2>1, CoverageWrite
  <2>2. CASE UNCHANGED covers
    BY <2>2
  <2> QED BY <2>1, <2>2 DEF CoverageNext, CreateUnit, MoveUnit, CheckContract, CheckUnits, GiveUp,
             RemoveContractUnit
<1> QED BY <1>1, RegistryInvariant, RegistryKeepsCoverage, PTL DEF CoverageSpec, CoverageIsNotLost
=============================================================================
