-------------------------- MODULE ContractCoverage --------------------------
(***************************************************************************)
(* Units belong to a partner, and a contract of a partner covers some of    *)
(* its units.  The handlers of contracts ask whether the units are the      *)
(* partner's in one statement and write the coverage in a later one; the    *)
(* handlers of units, and the CSV import, move a unit to another partner    *)
(* without a look at the contracts.                                         *)
(***************************************************************************)
EXTENDS PartnerContacts

CONSTANTS
    Unit,         \* the codes of units
    Code,         \* the codes of contracts, unique for each partner
    Lawyer        \* the requests about contracts that may be in progress at once

ASSUME CoverageAssumption == None \notin Partner /\ \A units \in SUBSET Unit : units # None

VARIABLES
    owner,        \* owner[u]: the partner of unit u, None while u has no row
    covers,       \* covers[p][k]: the units of contract k of partner p, None while it has no row
    checked,      \* checked[c]: the coverage that c's handler has checked and not yet written
    left          \* history: <<u, p>> when unit u was moved away from partner p

coverageVars == <<owner, covers, checked, left>>

NoCheck == [op |-> "none"]
Check == [op : {"create", "add"}, partner : Partner, code : Code, units : SUBSET Unit]

CoverageTypeOK ==
    /\ owner \in [Unit -> Partner \cup {None}]
    /\ covers \in [Partner -> [Code -> (SUBSET Unit) \cup {None}]]
    /\ checked \in [Lawyer -> Check \cup {NoCheck}]
    /\ left \subseteq Unit \X Partner

CoverageInit ==
    /\ owner \in [Unit -> partner \cup {None}]
    /\ covers = [p \in Partner |-> [k \in Code |-> None]]
    /\ checked = [c \in Lawyer |-> NoCheck]
    /\ left = {}

Owned(p) == {u \in Unit : owner[u] = p}

\* createUnit and the CSV import of a new code.
CreateUnit(u, p) ==
    /\ p \in partner /\ owner[u] = None
    /\ owner' = [owner EXCEPT ![u] = p]
    /\ UNCHANGED <<covers, checked, left>>

\* updateUnit with a partnerId, and the CSV import of a known code.
MoveUnit(u, p) ==
    /\ p \in partner /\ owner[u] \notin {None, p}
    /\ owner' = [owner EXCEPT ![u] = p]
    /\ left' = left \cup {<<u, owner[u]>>}
    /\ UNCHANGED <<covers, checked>>

\* createContract: the partner exists, the code is free, the units are the partner's.
CheckContract(c, p, k, units) ==
    /\ checked[c] = NoCheck
    /\ p \in partner /\ covers[p][k] = None
    /\ units \subseteq Owned(p)
    /\ checked' = [checked EXCEPT ![c] = [op |-> "create", partner |-> p, code |-> k, units |-> units]]
    /\ UNCHANGED <<owner, covers, left>>

\* (mutant) Whose units they are is not asked.
CheckUnitsOfAnyone(c, p, k, units) ==
    /\ checked[c] = NoCheck
    /\ covers[p][k] # None /\ units # {}
    /\ checked' = [checked EXCEPT ![c] = [op |-> "add", partner |-> p, code |-> k, units |-> units]]
    /\ UNCHANGED <<owner, covers, left>>

\* addContractUnits: the contract exists, there are units and they are its partner's.
CheckUnits(c, p, k, units) ==
    /\ checked[c] = NoCheck
    /\ covers[p][k] # None /\ units # {}
    /\ units \subseteq Owned(p)
    /\ checked' = [checked EXCEPT ![c] = [op |-> "add", partner |-> p, code |-> k, units |-> units]]
    /\ UNCHANGED <<owner, covers, left>>

Cover(c, units) ==
    /\ covers' = [covers EXCEPT ![checked[c].partner] =
                      [covers[checked[c].partner] EXCEPT ![checked[c].code] = units]]
    /\ checked' = [checked EXCEPT ![c] = NoCheck]
    /\ UNCHANGED <<owner, left>>

\* The transaction of createContract; the unique key refuses the second of two.
CreateContract(c) ==
    LET r == checked[c]
    IN r.op = "create" /\ Cover(c, IF covers[r.partner][r.code] = None THEN r.units
                                   ELSE covers[r.partner][r.code])

\* The createMany of addContractUnits, which skips the units that are there.
AddUnits(c) ==
    LET r == checked[c]
    IN r.op = "add" /\ Cover(c, covers[r.partner][r.code] \cup r.units)

RemoveContractUnit(p, k, u) ==
    /\ covers[p][k] # None /\ u \in covers[p][k]
    /\ covers' = [covers EXCEPT ![p] = [covers[p] EXCEPT ![k] = covers[p][k] \ {u}]]
    /\ UNCHANGED <<owner, checked, left>>

\* A statement of the request fails after the check.
GiveUp(c) ==
    /\ checked[c] # NoCheck
    /\ checked' = [checked EXCEPT ![c] = NoCheck]
    /\ UNCHANGED <<owner, covers, left>>

CoverageNext ==
    \/ \E u \in Unit, p \in Partner : CreateUnit(u, p) \/ MoveUnit(u, p)
    \/ \E c \in Lawyer, p \in Partner, k \in Code, units \in SUBSET Unit :
           CheckContract(c, p, k, units) \/ CheckUnits(c, p, k, units)
    \/ \E c \in Lawyer : CreateContract(c) \/ AddUnits(c) \/ GiveUp(c)
    \/ \E p \in Partner, k \in Code, u \in Unit : RemoveContractUnit(p, k, u)

\* Nothing of the contracts touches the rows of partners, and the rest of the world may add some.
CoverageSpec == CoverageInit /\ [][CoverageNext]_coverageVars

-----------------------------------------------------------------------------
\* A contract covers only units that are its partner's or that were moved away from it: even a check
\* that is old when it is used never lets in a unit that was not the partner's.
CoverageWasOwned ==
    \A p \in Partner, k \in Code :
        covers[p][k] # None =>
            \A u \in covers[p][k] : owner[u] = p \/ <<u, p>> \in left

\* A handler that ends adds to the coverage of its contract and takes nothing from any: two requests
\* for one contract, whichever is first, leave the units of both or refuse the second.
CoverageIsNotLost ==
    [][\A p \in Partner, k \in Code :
           checked' # checked /\ covers[p][k] # None =>
               covers'[p][k] # None /\ covers[p][k] \subseteq covers'[p][k]]_coverageVars
=============================================================================
