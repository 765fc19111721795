----------------------------- MODULE ZabbixSync -----------------------------
(***************************************************************************)
(* The hosts of the active Zabbix integrations and the synchronisations     *)
(* that write the row of a unit into the tags of its host.  An edit of the   *)
(* unit or of an equipment starts one that nobody waits for: it reads the   *)
(* row, asks the integrations in turn which of their hosts is the unit's,   *)
(* and updates the best.  A call that times out may reach Zabbix all the     *)
(* same, later.  An edit of the unit's partner and the CSV import start     *)
(* none.                                                                    *)
(***************************************************************************)
EXTENDS Integers, Sequences, FiniteSets

CONSTANTS
    Unit, Host,
    Code,         \* the codes of units as compactToken leaves them: two units may have the same one
    Equipment,
    Editor,       \* the requests that may be editing an equipment at once
    Source,       \* the hosts of each active integration, in the order of the integrations' codes
    Named,        \* <<c, h>> when the names or addresses of host h speak of the code c
    Own,          \* the tags a host has for good, under the names that a synchronisation leaves alone
    Job,          \* the synchronisations that may be in progress at once
    MaxVersion,   \* bound: the edits of each unit
    MaxBegun,     \* bound: the requests that start synchronisations
    MaxLate,      \* bound: the updates under way after their call timed out
    Tagged,       \* <<u, h>> when somebody may have tagged host h for u beforehand
    Coded,        \* <<c, h>> when somebody may have tagged host h with the code c beforehand
    None

ASSUME SyncAssumption ==
    /\ Source \in Seq(SUBSET Host) /\ Source # <<>>
    /\ Named \subseteq Code \X Host /\ Tagged \subseteq Unit \X Host /\ Coded \subseteq Code \X Host
    /\ Own \in [Host -> [unit : Unit \cup {None}, code : Code \cup {None}]]
    /\ MaxVersion \in Nat /\ MaxBegun \in Nat /\ MaxLate \in Nat
    /\ None \notin Unit \cup Host \cup Code
                       \cup [links : SUBSET Host, code : Code, version : 0..MaxVersion, equipments : SUBSET Equipment]
                       \cup [equipment : Equipment, unit : Unit]

Threshold == 55
Gap == 12

VARIABLES
    unit,         \* unit[u]: its row with the equipments that are in it, or None
    edit,         \* edit[m]: the equipment that a request found and the unit it was in, or None
    host,         \* host[h]: what a synchronisation wrote there: the unit, its code, version and equipments
    job,          \* job[j]: a synchronisation, of one unit or of all that are ready
    late,         \* the updates under way after their call timed out
    linked,       \* history: <<u, h>> when the link of u has named h, or h was tagged for u beforehand
    had,          \* history: <<u, c>> when u has had the code c
    crossed,      \* history: units a synchronisation of which read the row while another was under way
    last,         \* history: the host that the last synchronisation of a unit said it wrote, or None
    unheard,      \* history: units not read since a change that started no synchronisation, or one whose
                  \* synchronisation could not read the row
    begun         \* history: the requests that started synchronisations

syncVars == <<unit, edit, host, job, late, linked, had, crossed, last, unheard, begun>>

\* links are the hosts that the manual host name and the manual visible name of the unit designate;
\* version stands for all else that is written to a host, the columns of its equipments included.
Row == [links : SUBSET Host, code : Code, version : 0..MaxVersion, equipments : SUBSET Equipment]
Tags == [unit : Unit \cup {None}, code : Code \cup {None}, version : 0..MaxVersion,
         equipments : SUBSET Equipment]
Late == [host : Host, unit : Unit, code : Code, version : 0..MaxVersion, equipments : SUBSET Equipment]
Edit == [equipment : Equipment, unit : Unit]
Found == [host : Host, score : Nat]
Idle == [pc |-> "idle"]
\* rows holds what was read of the units that are still to do, asked how many integrations answered.
Busy == [pc : {"read", "next", "ask", "update"}, unit : Unit \cup {None},
         rows : [Unit -> Row \cup {None}], asked : 0..Len(Source), found : SUBSET Found]
NoRows == [u \in Unit |-> None]

SyncTypeOK ==
    /\ unit \in [Unit -> Row \cup {None}]
    /\ edit \in [Editor -> Edit \cup {None}]
    /\ host \in [Host -> Tags]
    /\ job \in [Job -> Busy \cup {Idle}]
    /\ late \subseteq Late
    /\ linked \subseteq Unit \X Host
    /\ had \subseteq Unit \X Code
    /\ crossed \subseteq Unit
    /\ last \in [Unit -> Host \cup {None}]
    /\ unheard \subseteq Unit
    /\ begun \in 0..MaxBegun

Exists(u) == unit[u] # None

\* The unit of the equipment, if it exists.
Holders(e) == {u \in Unit : Exists(u) /\ e \in unit[u].equipments}

SyncInit ==
    /\ unit \in [Unit -> {None} \cup [links : {{}}, code : Code, version : {0}, equipments : SUBSET Equipment]]
    /\ \A e \in Equipment : \A u, v \in Holders(e) : u = v
    /\ edit = [m \in Editor |-> None]
    /\ host \in [Host -> [unit : Unit \cup {None}, code : Code \cup {None}, version : {0}, equipments : {{}}]]
    /\ \A h \in Host : /\ host[h].unit # None => Exists(host[h].unit) /\ <<host[h].unit, h>> \in Tagged
                       /\ host[h].code # None => <<host[h].code, h>> \in Coded
    /\ job = [j \in Job |-> Idle]
    /\ late = {}
    /\ linked = {<<host[h].unit, h>> : h \in {h \in Host : host[h].unit # None}}
    /\ had = {<<u, unit[u].code>> : u \in {u \in Unit : Exists(u)}}
    /\ crossed = {}
    /\ last = [u \in Unit |-> None]
    /\ unheard = {}
    /\ begun = 0

-----------------------------------------------------------------------------
(* scoreHostForUnit and selectHostMatch                                    *)

\* hostTagValue: the tags a host has of its own come before those a synchronisation wrote.
UnitTag(h) == IF Own[h].unit # None THEN Own[h].unit ELSE host[h].unit
CodeTag(h) == IF Own[h].code # None THEN Own[h].code ELSE host[h].code

\* The name of a host or one of its tags speaks of the code.
Speaks(h, code) == <<code, h>> \in Named \/ Own[h].code = code \/ host[h].code = code

\* (mutant) The name of a host is as good as its tags.
ReadyByName(u, row, h) == h \in row.links \/ UnitTag(h) = u \/ Speaks(h, row.code)

\* The hosts that are bound to the unit explicitly: the link, the unit's id or the unit's code.
SyncReady(u, row, h) == h \in row.links \/ UnitTag(h) = u \/ CodeTag(h) = row.code

ScoreHostForUnit(u, row, h) ==
    (IF h \in row.links THEN 1000 ELSE 0)
    + (IF UnitTag(h) = u THEN 100 ELSE 0)
    + (IF CodeTag(h) = row.code THEN 90 ELSE 0)
    + (IF Speaks(h, row.code) THEN 62 ELSE 0)

\* The host of S that matches, clear of the second, and is bound explicitly: one at most.
SelectHostMatch(u, row, S) ==
    LET score == [h \in S |-> ScoreHostForUnit(u, row, h)]
    IN {h \in S : /\ score[h] >= Threshold
                  /\ \A g \in S \ {h} : score[g] >= Threshold => score[h] - score[g] >= Gap
                  /\ SyncReady(u, row, h)}

-----------------------------------------------------------------------------
(* Starting a synchronisation                                              *)

Free(j) == job[j] = Idle
Beginning == begun < MaxBegun /\ begun' = begun + 1
At(pc, u, rows, asked, found) == [pc |-> pc, unit |-> u, rows |-> rows, asked |-> asked, found |-> found]
Start(u) == At("read", u, NoRows, 0, {})

\* Another synchronisation of u has read its row and not ended, or one of its updates is still under way.
UnderWay(j, u) ==
    \/ \E i \in Job \ {j} : ~Free(i) /\ job[i].rows[u] # None
    \/ \E l \in late : l.unit = u

Concerns(j, u) == ~Free(j) /\ (job[j].unit = u \/ job[j].rows[u] # None)

Editable(u) == Exists(u) /\ unit[u].version < MaxVersion
NewRow(code) == [links |-> {}, code |-> code, version |-> 0, equipments |-> {}]
NextRow(row, links, code, equipments) ==
    [links |-> links, code |-> code, version |-> row.version + 1, equipments |-> equipments]

\* The row after an edit of something else that is written to the unit's host.
Edited(row) == NextRow(row, row.links, row.code, row.equipments)

\* The rows when the equipment has been written in unit v.
Placed(e, v) ==
    [u \in Unit |->
        IF u = v THEN NextRow(unit[u], unit[u].links, unit[u].code, unit[u].equipments \cup {e})
        ELSE IF u \in Holders(e)
        THEN [links |-> unit[u].links, code |-> unit[u].code, version |-> unit[u].version,
              equipments |-> unit[u].equipments \ {e}]
        ELSE unit[u]]

\* createUnit, which asks for no link.
CreateUnit(u, j, code) ==
    /\ ~Exists(u) /\ Free(j)
    /\ unit' = [unit EXCEPT ![u] = NewRow(code)]
    /\ had' = had \cup {<<u, code>>}
    /\ job' = [job EXCEPT ![j] = Start(u)]
    /\ Beginning
    /\ UNCHANGED <<edit, host, late, linked, crossed, last, unheard>>

\* updateUnit, with or without a new link or a new code.
UpdateUnit(u, j, links, code) ==
    /\ Editable(u) /\ Free(j)
    /\ unit' = [unit EXCEPT ![u] = NextRow(unit[u], links, code, unit[u].equipments)]
    /\ linked' = linked \cup ({u} \X links)
    /\ had' = had \cup {<<u, code>>}
    /\ job' = [job EXCEPT ![j] = Start(u)]
    /\ Beginning
    /\ UNCHANGED <<edit, host, late, crossed, last, unheard>>

\* createEquipment
CreateEquipment(e, u, j) ==
    /\ Holders(e) = {} /\ Editable(u) /\ Free(j)
    /\ unit' = Placed(e, u)
    /\ job' = [job EXCEPT ![j] = Start(u)]
    /\ Beginning
    /\ UNCHANGED <<edit, host, late, linked, had, crossed, last, unheard>>

\* updateEquipment finds the equipment, and the unit it is in.
FindEquipment(m, e) ==
    /\ edit[m] = None
    /\ \E u \in Holders(e) : edit' = [edit EXCEPT ![m] = [equipment |-> e, unit |-> u]]
    /\ UNCHANGED <<unit, host, job, late, linked, had, crossed, last, unheard, begun>>

\* (mutant) Only the unit where the equipment is now is synchronised.
UpdateEquipmentSyncsOne(m, v, i, j) ==
    /\ edit[m] # None
    /\ i = j /\ Free(j)
    /\ Editable(v)
    /\ LET e == edit[m].equipment
       IN /\ unit' = Placed(e, v)
          /\ unheard' = unheard \cup (Holders(e) \ {edit[m].unit, v})
    /\ edit' = [edit EXCEPT ![m] = None]
    /\ job' = [job EXCEPT ![j] = Start(v)]
    /\ Beginning
    /\ UNCHANGED <<host, late, linked, had, crossed, last>>

\* updateEquipment writes it, into unit v or where it is: the unit where it was found and the one
\* where it is now are synchronised, not the one where another request had moved it meanwhile.
UpdateEquipment(m, v, i, j) ==
    /\ edit[m] # None
    /\ Free(i) /\ Free(j) /\ (i = j <=> edit[m].unit = v)
    /\ Editable(v)
    /\ LET e == edit[m].equipment
       IN /\ unit' = Placed(e, v)
          /\ unheard' = unheard \cup (Holders(e) \ {edit[m].unit, v})
    /\ edit' = [edit EXCEPT ![m] = None]
    /\ job' = [job EXCEPT ![i] = Start(edit[m].unit), ![j] = Start(v)]
    /\ Beginning
    /\ UNCHANGED <<host, late, linked, had, crossed, last>>

\* POST /units/:id/zabbix-sync
SyncUnit(u, j) ==
    /\ Exists(u) /\ Free(j)
    /\ job' = [job EXCEPT ![j] = Start(u)]
    /\ Beginning
    /\ UNCHANGED <<unit, edit, host, late, linked, had, crossed, last, unheard>>

\* (mutant) The rows come from a listing that may be older.
SyncListedUnits(j) ==
    /\ Free(j)
    /\ \E u \in Unit :
           /\ Exists(u)
           /\ \E version \in 0..unit[u].version :
                  job' = [job EXCEPT ![j] = At("next", None,
                              [NoRows EXCEPT ![u] = [links |-> unit[u].links, code |-> unit[u].code,
                                                     version |-> version,
                                                     equipments |-> unit[u].equipments]], 0, {})]
           /\ crossed' = IF UnderWay(j, u) THEN crossed \cup {u} ELSE crossed
           /\ unheard' = unheard \ {u}
    /\ Beginning
    /\ UNCHANGED <<unit, edit, host, late, linked, had, last>>

\* syncReadyUnitsToZabbix reads all the rows at once and takes those the telemetry calls ready.
SyncReadyUnits(j) ==
    /\ Free(j)
    /\ \E ready \in SUBSET {u \in Unit : Exists(u)} :
           /\ ready # {}
           /\ LET rows == [u \in Unit |-> IF u \in ready THEN unit[u] ELSE None]
              IN job' = [job EXCEPT ![j] = At("next", None, rows, 0, {})]
           /\ crossed' = crossed \cup {u \in ready : UnderWay(j, u)}
           /\ unheard' = unheard \ ready
    /\ Beginning
    /\ UNCHANGED <<unit, edit, host, late, linked, had, last>>

\* The CSV import of a unit with a new code.
ImportUnit(u, code) ==
    /\ ~Exists(u)
    /\ unit' = [unit EXCEPT ![u] = NewRow(code)]
    /\ had' = had \cup {<<u, code>>}
    /\ unheard' = unheard \cup {u}
    /\ UNCHANGED <<edit, host, job, late, linked, crossed, last, begun>>

\* updatePartner, for all the units of the partner; the CSV import of units that are there.  What is
\* written to their hosts changes, and no synchronisation starts.
EditUnheard(units) ==
    /\ units # {}
    /\ \A u \in units : Editable(u)
    /\ unit' = [u \in Unit |-> IF u \in units THEN Edited(unit[u]) ELSE unit[u]]
    /\ unheard' = unheard \cup units
    /\ UNCHANGED <<edit, host, job, late, linked, had, crossed, last, begun>>

\* The CSV import of an equipment, which may be new or in another unit.
ImportEquipment(e, v) ==
    /\ Editable(v)
    /\ unit' = Placed(e, v)
    /\ unheard' = unheard \cup Holders(e) \cup {v}
    /\ UNCHANGED <<edit, host, job, late, linked, had, crossed, last, begun>>

-----------------------------------------------------------------------------
(* syncUnitToZabbix                                                        *)

\* getUnitForZabbixSync
ReadUnit(j) ==
    LET u == job[j].unit
    IN /\ job[j].pc = "read"
       /\ job' = [job EXCEPT ![j] = At("ask", u, [NoRows EXCEPT ![u] = unit[u]], 0, {})]
       /\ crossed' = IF UnderWay(j, u) THEN crossed \cup {u} ELSE crossed
       /\ unheard' = unheard \ {u}
       /\ UNCHANGED <<unit, edit, host, late, linked, had, last, begun>>

\* The next unit of a synchronisation of all that are ready.
NextUnit(j, u) ==
    /\ job[j].pc = "next" /\ job[j].rows[u] # None
    /\ job' = [job EXCEPT ![j] = At("ask", u, job[j].rows, 0, {})]
    /\ UNCHANGED <<unit, edit, host, late, linked, had, crossed, last, unheard, begun>>

\* The synchronisation of a unit ends: the next one's turn, or the job is done.
Ended(j) ==
    LET rows == [job[j].rows EXCEPT ![job[j].unit] = None]
    IN IF rows = NoRows THEN Idle
       ELSE At("next", None, rows, 0, {})

\* The hosts found so far, when the next integration has answered or not.
FoundAfter(j, answered) ==
    LET r == job[j]
        row == r.rows[r.unit]
    IN IF answered
       THEN r.found \cup {[host |-> h, score |-> ScoreHostForUnit(r.unit, row, h)] :
                              h \in SelectHostMatch(r.unit, row, Source[r.asked + 1])}
       ELSE r.found

\* The match that is clear of the others, one at most.
Clear(found) == {m \in found : \A n \in found \ {m} : m.score - n.score >= Gap}

\* One integration is asked for its hosts; after the last, the best match is taken or none.
AskSource(j) ==
    LET r == job[j]
    IN /\ r.pc = "ask"
       /\ \E found \in {FoundAfter(j, answered) : answered \in BOOLEAN} :
              \/ /\ r.asked + 1 < Len(Source)
                 /\ job' = [job EXCEPT ![j] = At("ask", r.unit, r.rows, r.asked + 1, found)]
                 /\ UNCHANGED last
              \/ /\ r.asked + 1 = Len(Source) /\ Clear(found) # {}
                 /\ job' = [job EXCEPT ![j] = At("update", r.unit, r.rows, r.asked + 1, Clear(found))]
                 /\ UNCHANGED last
              \/ /\ r.asked + 1 = Len(Source) /\ Clear(found) = {}
                 /\ job' = [job EXCEPT ![j] = Ended(j)]
                 /\ last' = [last EXCEPT ![r.unit] = None]
       /\ UNCHANGED <<unit, edit, host, late, linked, had, crossed, unheard, begun>>

\* The tags that a row of unit u leaves on a host.
TagsOf(u, row) == [unit |-> u, code |-> row.code, version |-> row.version, equipments |-> row.equipments]

\* host.get and host.update on the host that was found: whatever tags it carries by now are replaced.
\* The call succeeds; or it fails, before or after it took effect; or it times out and is under way.
UpdateHost(j) ==
    LET u == job[j].unit
        row == job[j].rows[u]
    IN /\ job[j].pc = "update"
       /\ \E m \in job[j].found, answered \in BOOLEAN :
              \/ /\ host' = [host EXCEPT ![m.host] = TagsOf(u, row)]
                 /\ last' = [last EXCEPT ![u] = IF answered THEN m.host ELSE None]
                 /\ UNCHANGED late
              \/ /\ ~answered
                 /\ last' = [last EXCEPT ![u] = None]
                 /\ late' \in {late, late \cup {[host |-> m.host, unit |-> u, code |-> row.code,
                                                 version |-> row.version, equipments |-> row.equipments]}}
                 /\ Cardinality(late') <= MaxLate
                 /\ UNCHANGED host
       /\ job' = [job EXCEPT ![j] = Ended(j)]
       /\ UNCHANGED <<unit, edit, linked, had, crossed, unheard, begun>>

\* An update whose call timed out takes effect, or is lost.
Arrive(l) ==
    /\ l \in late
    /\ late' = late \ {l}
    /\ host' \in {host, [host EXCEPT ![l.host] = TagsOf(l.unit, l)]}
    /\ UNCHANGED <<unit, edit, job, linked, had, crossed, last, unheard, begun>>

\* The row or the list of integrations cannot be read: the job ends, whatever units it had left.
GiveUp(j) ==
    /\ job[j].pc \in {"read", "ask"}
    /\ job' = [job EXCEPT ![j] = Idle]
    /\ last' = [u \in Unit |-> IF Concerns(j, u) THEN None ELSE last[u]]
    /\ unheard' = IF job[j].pc = "read" THEN unheard \cup {job[j].unit} ELSE unheard
    /\ UNCHANGED <<unit, edit, host, late, linked, had, crossed, begun>>

\* The process dies: nothing remembers the synchronisations it had begun.
Crash ==
    /\ \E j \in Job : ~Free(j)
    /\ job' = [j \in Job |-> Idle]
    /\ edit' = [m \in Editor |-> None]
    /\ last' = [u \in Unit |-> IF \E j \in Job : Concerns(j, u)
                               THEN None ELSE last[u]]
    /\ UNCHANGED <<unit, host, late, linked, had, crossed, unheard, begun>>

Begin(j) ==
    \/ \E u \in Unit :
           \/ \E code \in Code : CreateUnit(u, j, code)
           \/ \E links \in SUBSET Host, code \in Code : UpdateUnit(u, j, links, code)
           \/ \E e \in Equipment : CreateEquipment(e, u, j)
           \/ \E m \in Editor, i \in Job : UpdateEquipment(m, u, i, j)
           \/ SyncUnit(u, j)
    \/ SyncReadyUnits(j)

Step(j) ==
    \/ ReadUnit(j)
    \/ \E u \in Unit : NextUnit(j, u)
    \/ AskSource(j)
    \/ UpdateHost(j)
    \/ GiveUp(j)

SyncNext ==
    \/ \E j \in Job : Begin(j) \/ Step(j)
    \/ \E m \in Editor, e \in Equipment : FindEquipment(m, e)
    \/ \E u \in Unit, code \in Code : ImportUnit(u, code)
    \/ \E e \in Equipment, u \in Unit : ImportEquipment(e, u)
    \/ \E units \in SUBSET Unit : EditUnheard(units)
    \/ \E l \in late : Arrive(l)
    \/ Crash

SyncSpec == SyncInit /\ [][SyncNext]_syncVars

-----------------------------------------------------------------------------
\* Somebody bound the host to the unit: by a manual link, by a tag with the unit's id, or by a tag with
\* a code the unit has had, unless a synchronisation wrote that tag.
Bound(u, h) ==
    \/ <<u, h>> \in linked \/ Own[h].unit = u
    \/ \E c \in Code : <<u, c>> \in had /\ (<<c, h>> \in Coded \/ Own[h].code = c)

\* Two units that have had the same code, in turn or one written otherwise (A-1 and A1).
Alike(u, v) == \E c \in Code : <<u, c>> \in had /\ <<v, c>> \in had

\* No unit of S, nor any like one of them, was ever bound to h.
Strangers(S, h) ==
    \A u \in S : ~Bound(u, h) /\ \A v \in Unit : Alike(u, v) => v \in S

\* A host carries the tags of a unit only if somebody bound it to the unit, or to a unit whose code it
\* came to share: no synchronisation, however old what it reads, follows a mere name, and a host passes
\* from a unit to another only by a code the two have had.
OnlyBoundHostsAreTagged ==
    \A h \in Host, S \in SUBSET Unit : Strangers(S, h) => host[h].unit \notin S

\* A host never goes back to an older row of the unit it shows, except when a synchronisation of the
\* unit read its row while an earlier one had not ended or had left an update under way.
HostsDoNotGoBack ==
    [][\A h \in Host :
           host'[h].unit = host[h].unit /\ host[h].unit \notin crossed =>
               host'[h].version >= host[h].version]_syncVars

\* When the last synchronisation of a unit said it succeeded and nothing of the unit is under way, the
\* host it wrote shows the unit's row as it is or another unit, except when two of them crossed, or
\* after a change that starts none: an import, an edit of the partner, or an equipment taken out of the
\* unit by a request that had found it in another.
QuietUnitsAreCurrent ==
    \A u \in Unit \ (crossed \cup unheard) :
        (/\ last[u] # None /\ host[last[u]].unit = u
         /\ \A j \in Job : ~Concerns(j, u)
         /\ \A l \in late : l.unit # u)
        => host[last[u]] = TagsOf(u, unit[u])
=============================================================================
