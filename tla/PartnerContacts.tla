--------------------------- MODULE PartnerContacts ---------------------------
(***************************************************************************)
(* Partners and their operational contacts, of which one is the primary.    *)
(* The handlers run in transactions that read committed rows: what another  *)
(* request does between two statements of a handler is visible to the later *)
(* one only.  The rows a handler demotes stay locked until it commits, and  *)
(* nothing in the schema keeps a second primary out.                        *)
(***************************************************************************)
EXTENDS FiniteSets

CONSTANTS
    Partner,      \* the codes of partners
    Contact,      \* the ids of contact rows
    Legacy,       \* those that stand for rows of the legacy file
    Clerk,        \* the requests that may be in progress at once
    None

ASSUME ContactsAssumption ==
    /\ Legacy \subseteq Contact
    /\ None \notin Contact \cup [partner : Partner, primary : BOOLEAN]

VARIABLES
    partner,      \* the partners that have a row
    contact,      \* contact[x]: its row, or None
    request,      \* request[c]: what clerk c's handler has read and decided
    disturbed,    \* history: partners whose handlers overlapped, or whose contacts an import moved
    headless      \* history: partners whose primary an update left out

contactVars == <<partner, contact, request, disturbed, headless>>

Row == [partner : Partner, primary : BOOLEAN]
Idle == [op |-> "idle"]
\* target is the row the handler writes (None: a fresh one), locked the rows it has demoted.
Request == [op : {"create", "fill", "update", "import"}, partner : Partner, target : Contact \cup {None},
            primary : BOOLEAN, step : {"demote", "write"}, locked : SUBSET Contact]

ContactsTypeOK ==
    /\ partner \subseteq Partner
    /\ contact \in [Contact -> Row \cup {None}]
    /\ request \in [Clerk -> Request \cup {Idle}]
    /\ disturbed \subseteq Partner
    /\ headless \subseteq Partner

ContactsInit ==
    /\ partner \in SUBSET Partner
    /\ contact = [x \in Contact |-> None]
    /\ request = [c \in Clerk |-> Idle]
    /\ disturbed = {}
    /\ headless = {}

ContactsOf(p) == {x \in Contact : contact[x] # None /\ contact[x].partner = p}
Primaries(p) == {x \in ContactsOf(p) : contact[x].primary}
Unused == {x \in Contact : contact[x] = None}
Fresh == Unused \ Legacy

Busy(c) == request[c] # Idle
LockedAgainst(c) == UNION {request[d].locked : d \in {e \in Clerk \ {c} : Busy(e)}}
\* The other handlers that have read the contacts of p.
Rivals(c, p) == {d \in Clerk \ {c} : Busy(d) /\ request[d].partner = p}

\* (mutant) No handler demotes the other primaries.
AskAlone(c, op, p, x, primary) ==
    /\ request' = [request EXCEPT ![c] =
           [op |-> op, partner |-> p, target |-> x, primary |-> primary, locked |-> {},
            step |-> "write"]]
    /\ UNCHANGED <<partner, contact, disturbed, headless>>

Ask(c, op, p, x, primary) ==
    /\ request' = [request EXCEPT ![c] =
           [op |-> op, partner |-> p, target |-> x, primary |-> primary, locked |-> {},
            step |-> IF primary /\ op # "import" THEN "demote" ELSE "write"]]
    /\ UNCHANGED <<partner, contact, disturbed, headless>>

\* createPartner, which may bring a first contact along, and the CSV import of a partner.
CreatePartner(p) ==
    /\ p \notin partner
    /\ partner' = partner \cup {p}
    /\ \/ UNCHANGED contact
       \/ \E x \in Fresh : contact' = [contact EXCEPT ![x] = [partner |-> p, primary |-> TRUE]]
    /\ UNCHANGED <<request, disturbed, headless>>

\* (mutant) The first contact is a primary only if asked.
StartCreateAsAsked(c, p, asked) ==
    /\ ~Busy(c) /\ p \in partner
    /\ Ask(c, "create", p, None, asked)

\* createPartnerContact looks for a primary: the first contact becomes one unasked.
StartCreate(c, p, asked) ==
    /\ ~Busy(c) /\ p \in partner
    /\ Ask(c, "create", p, None, asked \/ Primaries(p) = {})

\* updatePartner finds no primary contact and will insert one, without demoting any.  (When it finds
\* one it edits only that row's name, role and phone.)
StartFill(c, p) ==
    /\ ~Busy(c) /\ p \in partner /\ Primaries(p) = {}
    /\ request' = [request EXCEPT ![c] =
           [op |-> "fill", partner |-> p, target |-> None, primary |-> TRUE, locked |-> {},
            step |-> "write"]]
    /\ UNCHANGED <<partner, contact, disturbed, headless>>

\* updatePartnerContact finds the row under its partner; an update that does not ask leaves it out.
StartUpdate(c, x, asked) ==
    /\ ~Busy(c) /\ contact[x] # None
    /\ Ask(c, "update", contact[x].partner, x, asked)

\* importOperationalContacts, one row: whether its partner has a primary is read before the upsert.
StartImport(c, x, p) ==
    /\ ~Busy(c) /\ x \in Legacy /\ p \in partner
    /\ Ask(c, "import", p, x, Primaries(p) = {})

\* The updateMany of a handler: the other primaries it sees are demoted when it commits.
Demote(c) ==
    LET r == request[c]
        others == Primaries(r.partner) \ {r.target}
    IN /\ Busy(c) /\ r.step = "demote"
       /\ others \cap LockedAgainst(c) = {}
       /\ request' = [request EXCEPT ![c] = [r EXCEPT !.step = "write", !.locked = others]]
       /\ UNCHANGED <<partner, contact, disturbed, headless>>

\* The table when c commits: row x becomes row, the rows it demoted stop being primary.
Committed(c, x, row) ==
    [y \in Contact |->
        IF y = x THEN row
        ELSE IF y \in request[c].locked THEN [contact[y] EXCEPT !.primary = FALSE]
        ELSE contact[y]]

Disturbs(c) == {p \in {request[c].partner} : Rivals(c, p) # {}}

\* createPartnerContact may name a row of the legacy file, which the table does not hold twice.
Insert(c) ==
    LET r == request[c]
        row == [partner |-> r.partner, primary |-> r.primary]
    IN /\ Busy(c) /\ r.op \in {"create", "fill"} /\ r.step = "write"
       /\ \E x \in IF r.op = "create" THEN Unused ELSE Fresh : contact' = Committed(c, x, row)
       /\ request' = [request EXCEPT ![c] = Idle]
       /\ disturbed' = disturbed \cup Disturbs(c)
       /\ UNCHANGED <<partner, headless>>

\* The update goes by the row's id: the row may be another partner's by now.
Update(c) ==
    LET r == request[c]
        row == contact[r.target]
    IN /\ Busy(c) /\ r.op = "update" /\ r.step = "write"
       /\ r.target \notin LockedAgainst(c)
       /\ contact' = Committed(c, r.target, [row EXCEPT !.primary = r.primary])
       /\ request' = [request EXCEPT ![c] = Idle]
       /\ disturbed' = disturbed \cup Disturbs(c)
       /\ headless' = IF row.primary /\ ~r.primary THEN headless \cup {row.partner} ELSE headless
       /\ UNCHANGED partner

\* A row of the file that is new.
ImportNew(c) ==
    LET r == request[c]
    IN /\ Busy(c) /\ r.op = "import" /\ contact[r.target] = None
       /\ contact' = Committed(c, r.target, [partner |-> r.partner, primary |-> r.primary])
       /\ request' = [request EXCEPT ![c] = Idle]
       /\ disturbed' = disturbed \cup Disturbs(c)
       /\ UNCHANGED <<partner, headless>>

\* A row of the file that exists: it goes to the file's partner and stays primary if it was.
ImportKnown(c) ==
    LET r == request[c]
        row == contact[r.target]
    IN /\ Busy(c) /\ r.op = "import" /\ row # None
       /\ r.target \notin LockedAgainst(c)
       /\ contact' = Committed(c, r.target, [row EXCEPT !.partner = r.partner])
       /\ request' = [request EXCEPT ![c] = Idle]
       /\ disturbed' = disturbed \cup Disturbs(c)
                           \cup (IF row.partner = r.partner THEN {} ELSE {row.partner, r.partner})
       /\ UNCHANGED <<partner, headless>>

\* A transaction fails, loses a deadlock or inserts a row that is there: the database takes it back.
RollBack(c) ==
    /\ Busy(c)
    /\ request' = [request EXCEPT ![c] = Idle]
    /\ UNCHANGED <<partner, contact, disturbed, headless>>

StartHandler(c) ==
    \/ \E p \in Partner, asked \in BOOLEAN : StartCreate(c, p, asked)
    \/ \E p \in Partner : StartFill(c, p)
    \/ \E x \in Contact, asked \in BOOLEAN : StartUpdate(c, x, asked)
    \/ \E x \in Legacy, p \in Partner : StartImport(c, x, p)

Handle(c) == Demote(c) \/ Insert(c) \/ Update(c) \/ ImportNew(c) \/ ImportKnown(c) \/ RollBack(c)

ContactsNext ==
    \/ \E p \in Partner : CreatePartner(p)
    \/ \E c \in Clerk : StartHandler(c) \/ Handle(c)

ContactsSpec == ContactsInit /\ [][ContactsNext]_contactVars

-----------------------------------------------------------------------------
\* A partner has one primary contact at most, except when two handlers of its contacts overlapped or
\* an import moved one of its contacts: the handlers demote the others by a query of their own.
PrimaryIsUnique ==
    \A p \in Partner \ disturbed : \A x, y \in Primaries(p) : x = y

\* A partner with contacts has a primary one, except after the same two accidents or after an update
\* that did not ask for it: whoever is demoted is replaced in the same transaction.
FirstContactLeads ==
    \A p \in Partner \ (disturbed \cup headless) : ContactsOf(p) # {} => Primaries(p) # {}
=============================================================================
