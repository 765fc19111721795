-------------------------- MODULE ZabbixSync_proofs --------------------------
(***************************************************************************)
(* For any units, codes, hosts, equipments, integrations and                *)
(* synchronisations: a host passes to a unit nobody bound it to only by a   *)
(* code it came to share, a host never goes back to an older row of its     *)
(* unit, and a unit at rest is shown as it is, the last two unless two       *)
(* synchronisations of the unit crossed, and the last one unless a change   *)
(* started none.  The invariant says what a synchronisation has read, and   *)
(* that a unit that never was crossed is read by one of them at a time.     *)
(***************************************************************************)
EXTENDS ZabbixSync, TLAPS

\* Synchronisation j has read the row of u and has not ended with it, or is about to read it.
Holds(j, u) == ~Free(j) /\ job[j].rows[u] # None
Pending(j, u) == ~Free(j) /\ job[j].pc = "read" /\ job[j].unit = u

\* The host is bound to the unit, or to one it came to share a code with, and so on.
Mine(u, h) == \A S \in SUBSET Unit : Strangers(S, h) => u \notin S

\* What a synchronisation in progress knows: the unit it is about, a row that is not newer than the
\* unit's, with a code and links that were the unit's, and hosts that are.
JobOK(j) ==
    /\ job[j].pc = "read" => /\ job[j].unit \in Unit /\ unit[job[j].unit] # None
                             /\ job[j].rows = NoRows /\ job[j].found = {}
    /\ job[j].pc = "next" => job[j].unit = None /\ job[j].found = {}
    /\ job[j].pc \in {"ask", "update"} => job[j].unit \in Unit /\ job[j].rows[job[j].unit] # None
    /\ job[j].pc \in {"read", "ask"} => job[j].asked < Len(Source)
    /\ \A u \in Unit : job[j].rows[u] # None =>
           /\ unit[u] # None /\ job[j].rows[u].version <= unit[u].version
           /\ <<u, job[j].rows[u].code>> \in had
           /\ \A h \in job[j].rows[u].links : <<u, h>> \in linked
    /\ \A m \in job[j].found : Mine(job[j].unit, m.host)

JobsOK == \A j \in Job : ~Free(j) => JobOK(j)

\* Links and codes are recorded; tagged hosts and late updates are bound; a tag with a code was there
\* beforehand or comes from the unit that the host shows.
RowsBound ==
    \A u \in Unit : unit[u] # None =>
        <<u, unit[u].code>> \in had /\ \A h \in unit[u].links : <<u, h>> \in linked
HostsBound == \A h \in Host : host[h].unit # None => Mine(host[h].unit, h)
CodesKnown ==
    \A h \in Host : host[h].code # None =>
        \/ <<host[h].code, h>> \in Coded
        \/ host[h].unit # None /\ <<host[h].unit, host[h].code>> \in had
LateBound == \A l \in late : Mine(l.unit, l.host) /\ <<l.unit, l.code>> \in had

\* The unit where a request found its equipment exists.
EditsKnown == \A m \in Editor : edit[m] # None => unit[edit[m].unit] # None

\* Nothing outside is newer than the row.
HostsKnown ==
    \A h \in Host, u \in Unit : host[h].unit = u =>
        IF unit[u] = None THEN host[h].version = 0 ELSE host[h].version <= unit[u].version
LateKnown == \A l \in late : unit[l.unit] # None /\ l.version <= unit[l.unit].version

\* A unit that was never crossed is in one pair of hands, which are not behind its hosts.
OneHolder ==
    \A u \in Unit \ crossed :
        /\ \A i, j \in Job : Holds(i, u) /\ Holds(j, u) => i = j
        /\ \A j \in Job, l \in late : Holds(j, u) => l.unit # u
        /\ \A k, l \in late : k.unit = u /\ l.unit = u => k = l
HoldersLead ==
    \A u \in Unit \ crossed, h \in Host : host[h].unit = u =>
        /\ \A j \in Job : Holds(j, u) => job[j].rows[u].version >= host[h].version
        /\ \A l \in late : l.unit = u => l.version >= host[h].version

\* A synchronisation that ended with an update under way has not said it succeeded; one that holds an
\* old row knows of another that will read the new one.
LateUnsaid == \A u \in Unit \ crossed : \A l \in late : l.unit = u => last[u] = None
HoldersCurrent ==
    \A u \in Unit \ (crossed \cup unheard), j \in Job :
        Holds(j, u) /\ (\A i \in Job : ~Pending(i, u)) => job[j].rows[u] = unit[u]

SyncInv ==
    /\ SyncTypeOK
    /\ JobsOK
    /\ RowsBound /\ HostsBound /\ CodesKnown /\ LateBound /\ EditsKnown
    /\ HostsKnown /\ LateKnown
    /\ OneHolder /\ HoldersLead
    /\ LateUnsaid /\ HoldersCurrent /\ QuietUnitsAreCurrent

-----------------------------------------------------------------------------
(* Records                                                                 *)

\* A job at work is not the idle one.
LEMMA BusyIsNotIdle ==
    ASSUME NEW b \in Busy
    PROVE  b # Idle
  BY DEF Busy, Idle

\* There is an integration to ask.
LEMMA SourceLen == Len(Source) \in Nat /\ Len(Source) > 0
  BY SyncAssumption

\* The fields of a job at work are what it was made of.
LEMMA AtFields ==
    ASSUME NEW pc, NEW u, NEW rows, NEW asked, NEW found
    PROVE  /\ At(pc, u, rows, asked, found).pc = pc /\ At(pc, u, rows, asked, found).unit = u
           /\ At(pc, u, rows, asked, found).rows = rows /\ At(pc, u, rows, asked, found).asked = asked
           /\ At(pc, u, rows, asked, found).found = found
  BY DEF At

\* A job made of the right parts is a job at work.
LEMMA AtBusy ==
    ASSUME NEW pc \in {"read", "next", "ask", "update"}, NEW u \in Unit \cup {None},
           NEW rows \in [Unit -> Row \cup {None}], NEW asked \in 0..Len(Source), NEW found \in SUBSET Found
    PROVE  At(pc, u, rows, asked, found) \in Busy /\ At(pc, u, rows, asked, found) # Idle
<1>1. At(pc, u, rows, asked, found) \in Busy
  BY DEF At, Busy
<1> QED
  BY <1>1, BusyIsNotIdle

\* A synchronisation of one unit starts with its read.
LEMMA StartFacts ==
    ASSUME NEW u \in Unit
    PROVE  /\ Start(u) \in Busy /\ Start(u) # Idle
           /\ Start(u).pc = "read" /\ Start(u).unit = u /\ Start(u).rows = NoRows
           /\ Start(u).asked = 0 /\ Start(u).found = {}
<1>1. NoRows \in [Unit -> Row \cup {None}]
  BY DEF NoRows
<1> QED
  BY <1>1, SourceLen, AtBusy, AtFields DEF Start

\* A synchronisation in progress has its fields.
LEMMA BusyFields ==
    ASSUME SyncTypeOK, NEW j \in Job, ~Free(j)
    PROVE  /\ job[j] \in Busy
           /\ job[j].pc \in {"read", "next", "ask", "update"}
           /\ job[j].unit \in Unit \cup {None}
           /\ job[j].rows \in [Unit -> Row \cup {None}]
           /\ job[j].asked \in 0..Len(Source)
           /\ job[j].found \subseteq Found
  BY DEF SyncTypeOK, Free, Busy

\* A job with a step to take is not free.
LEMMA AtWork ==
    ASSUME NEW j \in Job, job[j].pc \in {"read", "next", "ask", "update"}
    PROVE  ~Free(j)
  BY DEF Free, Idle

\* What a synchronisation is when it has ended with one unit.
LEMMA EndedFacts ==
    ASSUME SyncTypeOK, NEW j \in Job, ~Free(j), job[j].unit \in Unit
    PROVE  /\ Ended(j) \in Busy \cup {Idle}
           /\ Ended(j) = Idle => \A v \in Unit \ {job[j].unit} : job[j].rows[v] = None
           /\ Ended(j) # Idle =>
                 /\ Ended(j) \in Busy /\ Ended(j).pc = "next" /\ Ended(j).unit = None
                 /\ Ended(j).found = {}
                 /\ Ended(j).rows[job[j].unit] = None
                 /\ \A v \in Unit \ {job[j].unit} : Ended(j).rows[v] = job[j].rows[v]
<1> DEFINE rows == [job[j].rows EXCEPT ![job[j].unit] = None]
           next == At("next", None, rows, 0, {})
<1>1. /\ rows \in [Unit -> Row \cup {None}] /\ rows[job[j].unit] = None
      /\ \A v \in Unit \ {job[j].unit} : rows[v] = job[j].rows[v]
  BY BusyFields
<1>2. Ended(j) = IF rows = NoRows THEN Idle ELSE next
  BY DEF Ended
<1>3. rows = NoRows => \A v \in Unit : rows[v] = None
  BY DEF NoRows
<1> HIDE DEF rows
<1>7. None \in Unit \cup {None} /\ 0 \in 0..Len(Source) /\ {} \in SUBSET Found
  BY SourceLen
<1>8. rows \in [Unit -> Row \cup {None}]
  BY <1>1
<1>9. next \in Busy /\ next # Idle
  BY <1>7, <1>8, AtBusy
<1>10. next.pc = "next" /\ next.unit = None /\ next.found = {} /\ next.rows = rows
  BY AtFields
<1>4. /\ next \in Busy /\ next # Idle
      /\ next.pc = "next" /\ next.unit = None /\ next.found = {} /\ next.rows = rows
  BY <1>9, <1>10
<1> HIDE DEF next
<1>5. CASE rows = NoRows
  BY <1>1, <1>2, <1>3, <1>5
<1>6. CASE rows # NoRows
  BY <1>1, <1>2, <1>4, <1>6
<1> QED
  BY <1>5, <1>6

-----------------------------------------------------------------------------
(* Steps of one synchronisation                                            *)

\* What the others hold, await and concern stays when one job changes.
LEMMA OthersStay ==
    ASSUME NEW i \in Job, job'[i] = job[i], NEW v \in Unit
    PROVE  /\ Holds(i, v)' <=> Holds(i, v)
           /\ Pending(i, v)' <=> Pending(i, v)
           /\ Concerns(i, v)' <=> Concerns(i, v)
  BY DEF Holds, Pending, Concerns, Free

\* A job that has not moved is in order while the rows and the links are the same.
LEMMA JobsStay ==
    ASSUME JobsOK, NEW i \in Job, job'[i] = job[i], ~Free(i)', UNCHANGED <<unit, linked, had>>
    PROVE  JobOK(i)'
<1>1. JobOK(i) /\ job'[i] = job[i] /\ unit' = unit /\ linked' = linked /\ had' = had
  BY DEF JobsOK, Free
<1>2. \A u, h : Mine(u, h)' <=> Mine(u, h)
  BY <1>1 DEF Mine, Strangers, Bound, Alike
<1> QED
  BY <1>1, <1>2 DEF JobOK

\* What is bound stays bound.
LEMMA StrangersShrink ==
    ASSUME linked \subseteq linked', had \subseteq had', NEW S \in SUBSET Unit, NEW h \in Host, Strangers(S, h)'
    PROVE  Strangers(S, h)
<1>1. \A u \in S : ~Bound(u, h)' /\ \A v \in Unit : Alike(u, v)' => v \in S
  BY DEF Strangers
<1>2. \A u \in S : Bound(u, h) => Bound(u, h)'
  BY DEF Bound
<1>3. \A u \in S, v \in Unit : Alike(u, v) => Alike(u, v)'
  BY DEF Alike
<1> QED
  BY <1>1, <1>2, <1>3 DEF Strangers

\* A unit that came to have a host keeps the claim.
LEMMA MineStays ==
    ASSUME linked \subseteq linked', had \subseteq had', NEW u \in Unit, NEW h \in Host, Mine(u, h)
    PROVE  Mine(u, h)'
<1>1. \A S \in SUBSET Unit : Strangers(S, h)' => Strangers(S, h)
  BY StrangersShrink
<1> QED
  BY <1>1 DEF Mine

\* A host that a row calls for is the unit's.
LEMMA ReadyIsMine ==
    ASSUME SyncTypeOK, HostsBound, CodesKnown, NEW u \in Unit, NEW row \in Row, <<u, row.code>> \in had,
           \A h \in row.links : <<u, h>> \in linked,
           NEW h \in Host, SyncReady(u, row, h)
    PROVE  Mine(u, h)
<1> SUFFICES ASSUME NEW S \in SUBSET Unit, Strangers(S, h), u \in S
             PROVE  FALSE
  BY DEF Mine
<1>1. ~Bound(u, h) /\ \A v \in Unit : Alike(u, v) => v \in S
  BY DEF Strangers
<1>2. host[h].unit # None => host[h].unit \in Unit /\ host[h].unit \notin S
  BY DEF HostsBound, Mine, SyncTypeOK, Tags
<1>3. row.code \in Code /\ row.code # None /\ u # None
  BY SyncAssumption DEF Row
<1>4. CASE h \in row.links
  BY <1>1, <1>4 DEF Bound
<1>5. CASE UnitTag(h) = u
  BY <1>1, <1>2, <1>3, <1>5 DEF UnitTag, Bound
<1>6. CASE CodeTag(h) = row.code
  <2>1. Own[h].code # row.code
    BY <1>1, <1>3 DEF Bound
  <2>2. host[h].code = row.code
    BY <1>6, <2>1 DEF CodeTag
  <2>3. <<row.code, h>> \notin Coded
    BY <1>1, <1>3 DEF Bound
  <2>4. host[h].unit \in Unit /\ <<host[h].unit, row.code>> \in had
    BY <1>2, <1>3, <2>2, <2>3 DEF CodesKnown
  <2>5. Alike(u, host[h].unit)
    BY <1>3, <2>4 DEF Alike
  <2> QED
    BY <1>1, <1>2, <1>3, <2>4, <2>5, SyncAssumption
<1> QED
  BY <1>4, <1>5, <1>6 DEF SyncReady

\* What is known of hosts and rows stays when only synchronisations move on.
LEMMA BoundStays ==
    ASSUME SyncInv, UNCHANGED <<unit, edit, host, late, linked, had>>
    PROVE  RowsBound' /\ HostsBound' /\ CodesKnown' /\ LateBound' /\ EditsKnown' /\ HostsKnown' /\ LateKnown'
<1>1. \A u, h : Mine(u, h)' <=> Mine(u, h)
  BY DEF Mine, Strangers, Bound, Alike
<1>2. HostsBound' /\ LateBound'
  BY <1>1 DEF SyncInv, HostsBound, LateBound
<1> QED
  BY <1>2 DEF SyncInv, RowsBound, CodesKnown, EditsKnown, HostsKnown, LateKnown

\* Before anything is created all is in order.
LEMMA InitSync == SyncInit => SyncInv
<1> SUFFICES ASSUME SyncInit PROVE SyncInv
  OBVIOUS
<1> USE SyncAssumption DEF SyncInit
<1>1. /\ unit \in [Unit -> Row \cup {None}] /\ host \in [Host -> Tags]
      /\ edit \in [Editor -> Edit \cup {None}]
      /\ \A u \in Unit : unit[u] # None => unit[u].links = {} /\ unit[u].version = 0 /\ unit[u].code \in Code
      /\ \A h \in Host : host[h].version = 0
  BY DEF Row, Tags
<1>2. linked \subseteq Unit \X Host /\ had \subseteq Unit \X Code
  BY <1>1 DEF Tags, Exists
<1>3. SyncTypeOK
  BY <1>1, <1>2 DEF SyncTypeOK
<1>4. \A j \in Job : Free(j)
  BY DEF Free
<1>5. JobsOK /\ OneHolder /\ HoldersLead /\ LateUnsaid /\ HoldersCurrent
  BY <1>4 DEF JobsOK, OneHolder, HoldersLead, LateUnsaid, HoldersCurrent, Holds
<1>6. \A h \in Host : host[h].unit # None => <<host[h].unit, h>> \in linked
  OBVIOUS
<1>7. HostsBound
  BY <1>6 DEF HostsBound, Mine, Strangers, Bound
<1>8. RowsBound
  BY <1>1 DEF RowsBound, Exists
<1>9. CodesKnown /\ LateBound /\ EditsKnown
  BY DEF CodesKnown, LateBound, EditsKnown
<1>10. HostsKnown /\ LateKnown
  BY <1>1 DEF HostsKnown, LateKnown
<1>11. QuietUnitsAreCurrent
  BY DEF QuietUnitsAreCurrent
<1> QED
  BY <1>3, <1>5, <1>7, <1>8, <1>9, <1>10, <1>11 DEF SyncInv

\* A synchronisation reads the row of its unit: if the unit is not crossed by that, nobody else had it.
LEMMA ReadUnitStep ==
    ASSUME SyncInv, NEW j \in Job, ReadUnit(j)
    PROVE  SyncInv'
<1> DEFINE u == job[j].unit
           rows == [NoRows EXCEPT ![u] = unit[u]]
<1>1. /\ ~Free(j) /\ u \in Unit /\ unit[u] # None /\ job[j].rows = NoRows /\ job[j].pc = "read"
      /\ SyncTypeOK
  BY AtWork DEF ReadUnit, SyncInv, JobsOK, JobOK
<1>2. /\ rows \in [Unit -> Row \cup {None}]
      /\ \A v \in Unit : rows[v] = IF v = u THEN unit[u] ELSE None
      /\ \A v \in Unit : NoRows[v] = None
  BY <1>1 DEF NoRows, SyncTypeOK
<1>3. /\ job' = [job EXCEPT ![j] = At("ask", u, rows, 0, {})]
      /\ crossed' = IF UnderWay(j, u) THEN crossed \cup {u} ELSE crossed
      /\ unheard' = unheard \ {u}
      /\ UNCHANGED <<unit, edit, host, late, linked, had, last, begun>>
  BY DEF ReadUnit
<1>4. 0 \in 0..Len(Source) /\ {} \in SUBSET Found /\ u \in Unit \cup {None}
  BY <1>1, SourceLen
<1> HIDE DEF rows
<1>5. At("ask", u, rows, 0, {}) \in Busy /\ At("ask", u, rows, 0, {}) # Idle
  BY <1>2, <1>4, AtBusy
<1>6. /\ job' \in [Job -> Busy \cup {Idle}]
      /\ job'[j].pc = "ask" /\ job'[j].unit = u /\ job'[j].rows = rows /\ job'[j].asked = 0 /\ job'[j].found = {}
      /\ job'[j] # Idle
      /\ \A i \in Job \ {j} : job'[i] = job[i]
  BY <1>1, <1>3, <1>5, AtFields DEF SyncTypeOK
<1>7. SyncTypeOK'
  BY <1>1, <1>3, <1>6 DEF SyncTypeOK
<1>8. JobOK(j)'
  BY <1>1, <1>2, <1>3, <1>6, SourceLen DEF JobOK, SyncInv, RowsBound, SyncTypeOK, Row
<1>9. JobsOK'
  BY <1>3, <1>6, <1>8, JobsStay DEF SyncInv, JobsOK
<1>10. RowsBound' /\ HostsBound' /\ CodesKnown' /\ LateBound' /\ EditsKnown' /\ HostsKnown' /\ LateKnown'
  BY <1>3, BoundStays
<1>11. \A v \in Unit :
           /\ Holds(j, v)' <=> v = u
           /\ ~Holds(j, v)
           /\ ~Pending(j, v)'
           /\ Pending(j, v) => v = u
           /\ Concerns(j, v) => v = u
           /\ Concerns(j, u)'
  BY <1>1, <1>2, <1>6 DEF Holds, Pending, Concerns, Free
<1>12. crossed \subseteq crossed'
  BY <1>3
<1>13. u \notin crossed' => (\A i \in Job \ {j} : ~Holds(i, u)) /\ (\A l \in late : l.unit # u)
  BY <1>3 DEF UnderWay, Holds
<1>14. OneHolder'
  BY <1>3, <1>6, <1>11, <1>12, <1>13, OthersStay DEF SyncInv, OneHolder
<1>15. HoldersLead'
  BY <1>1, <1>2, <1>3, <1>6, <1>11, <1>12, <1>13, OthersStay DEF SyncInv, HoldersLead, HostsKnown
<1>16. LateUnsaid'
  BY <1>3, <1>12 DEF SyncInv, LateUnsaid
<1>17. HoldersCurrent'
  BY <1>1, <1>2, <1>3, <1>6, <1>11, <1>12, <1>13, OthersStay DEF SyncInv, HoldersCurrent
<1>18. QuietUnitsAreCurrent'
  BY <1>3, <1>6, <1>11, <1>12, OthersStay DEF SyncInv, QuietUnitsAreCurrent
<1> QED
  BY <1>7, <1>9, <1>10, <1>14, <1>15, <1>16, <1>17, <1>18 DEF SyncInv

\* A synchronisation of all that are ready reads their rows.
LEMMA SyncReadyUnitsStep ==
    ASSUME SyncInv, NEW j \in Job, SyncReadyUnits(j)
    PROVE  SyncInv'
<1>1. PICK ready \in SUBSET {v \in Unit : Exists(v)} :
          /\ job' = [job EXCEPT ![j] = At("next", None, [v \in Unit |-> IF v \in ready THEN unit[v] ELSE None], 0, {})]
          /\ crossed' = crossed \cup {v \in ready : UnderWay(j, v)}
          /\ unheard' = unheard \ ready
  BY DEF SyncReadyUnits
<1> DEFINE rows == [v \in Unit |-> IF v \in ready THEN unit[v] ELSE None]
<1>2. /\ job[j] = Idle /\ SyncTypeOK /\ begun' \in 0..MaxBegun
      /\ UNCHANGED <<unit, edit, host, late, linked, had, last>>
  BY SyncAssumption DEF SyncReadyUnits, Free, SyncInv, Beginning, SyncTypeOK
<1>3. /\ rows \in [Unit -> Row \cup {None}]
      /\ \A v \in Unit : rows[v] = IF v \in ready THEN unit[v] ELSE None
      /\ \A v \in ready : v \in Unit /\ unit[v] # None /\ unit[v] \in Row
  BY <1>2 DEF SyncTypeOK, Exists
<1>4. 0 \in 0..Len(Source) /\ {} \in SUBSET Found /\ None \in Unit \cup {None}
  BY SourceLen
<1> HIDE DEF rows
<1>5. At("next", None, rows, 0, {}) \in Busy /\ At("next", None, rows, 0, {}) # Idle
  BY <1>3, <1>4, AtBusy
<1>6. /\ job' \in [Job -> Busy \cup {Idle}]
      /\ job'[j].pc = "next" /\ job'[j].unit = None /\ job'[j].rows = rows /\ job'[j].found = {}
      /\ job'[j] # Idle
      /\ \A i \in Job \ {j} : job'[i] = job[i]
  BY <1>1, <1>2, <1>5, AtFields DEF SyncTypeOK, rows
<1>7. SyncTypeOK'
  BY <1>1, <1>2, <1>3, <1>6 DEF SyncTypeOK
<1>8. JobOK(j)'
  BY <1>2, <1>3, <1>6 DEF JobOK, SyncInv, RowsBound, Row
<1>9. JobsOK'
  BY <1>2, <1>6, <1>8, JobsStay DEF SyncInv, JobsOK
<1>10. RowsBound' /\ HostsBound' /\ CodesKnown' /\ LateBound' /\ EditsKnown' /\ HostsKnown' /\ LateKnown'
  BY <1>2, BoundStays
<1>11. \A v \in Unit :
           /\ Holds(j, v)' <=> v \in ready
           /\ ~Holds(j, v) /\ ~Pending(j, v) /\ ~Concerns(j, v)
           /\ ~Pending(j, v)'
  BY <1>2, <1>3, <1>6 DEF Holds, Pending, Concerns, Free
<1>19. \A v \in Unit : v \in unheard /\ v \notin unheard' => v \in ready
  BY <1>1
<1>12. \A v \in ready : v \notin crossed' => (\A i \in Job \ {j} : ~Holds(i, v)) /\ (\A l \in late : l.unit # v)
  BY <1>1 DEF UnderWay, Holds
<1>13. crossed \subseteq crossed'
  BY <1>1
<1>14. OneHolder'
  BY <1>2, <1>6, <1>11, <1>12, <1>13, OthersStay DEF SyncInv, OneHolder
<1>15. HoldersLead'
  BY <1>2, <1>3, <1>6, <1>11, <1>12, <1>13, OthersStay DEF SyncInv, HoldersLead, HostsKnown
<1>16. LateUnsaid'
  BY <1>2, <1>13 DEF SyncInv, LateUnsaid
<1>17. HoldersCurrent'
  <2> SUFFICES ASSUME NEW v \in Unit \ (crossed' \cup unheard'), NEW i \in Job, Holds(i, v)',
                      \A k \in Job : ~Pending(k, v)'
               PROVE  job'[i].rows[v] = unit'[v]
    BY DEF HoldersCurrent
  <2>1. CASE i = j
    BY <1>2, <1>3, <1>6, <1>11, <2>1
  <2>2. CASE i # j
    <3>1. Holds(i, v) /\ v \notin ready /\ job'[i] = job[i]
      BY <1>6, <1>12, <2>2, OthersStay
    <3>2. v \notin crossed \cup unheard
      BY <1>13, <1>19, <3>1
    <3>3. \A k \in Job : ~Pending(k, v)
      BY <1>6, <1>11, OthersStay
    <3> QED
      BY <1>2, <3>1, <3>2, <3>3 DEF SyncInv, HoldersCurrent
  <2> QED
    BY <2>1, <2>2
<1>20. \A v \in ready : Concerns(j, v)'
  BY <1>3, <1>6 DEF Concerns, Free
<1>18. QuietUnitsAreCurrent'
  BY <1>2, <1>6, <1>11, <1>13, <1>19, <1>20, OthersStay DEF SyncInv, QuietUnitsAreCurrent
<1> QED
  BY <1>7, <1>9, <1>10, <1>14, <1>15, <1>16, <1>17, <1>18 DEF SyncInv

\* A job that goes on with the rows it has.
LEMMA GoesOnStep ==
    ASSUME SyncInv, NEW j \in Job, ~Free(j), job[j].pc \in {"next", "ask"},
           NEW pc \in {"ask", "update"}, NEW u \in Unit, job[j].rows[u] # None,
           job[j].pc = "ask" => job[j].unit = u,
           NEW asked \in 0..Len(Source), pc = "ask" => asked < Len(Source),
           NEW found \in SUBSET Found, \A m \in found : Mine(u, m.host),
           job' = [job EXCEPT ![j] = At(pc, u, job[j].rows, asked, found)],
           UNCHANGED <<unit, edit, host, late, linked, had, crossed, last, unheard, begun>>
    PROVE  SyncInv'
<1> DEFINE rows == job[j].rows
<1>1. /\ rows \in [Unit -> Row \cup {None}] /\ SyncTypeOK
  BY BusyFields DEF SyncInv
<1>2. At(pc, u, rows, asked, found) \in Busy /\ At(pc, u, rows, asked, found) # Idle
  <2>1. pc \in {"read", "next", "ask", "update"} /\ u \in Unit \cup {None}
    OBVIOUS
  <2> HIDE DEF rows
  <2> QED
    BY <1>1, <2>1, AtBusy
<1>3. /\ job' \in [Job -> Busy \cup {Idle}]
      /\ job'[j].pc = pc /\ job'[j].unit = u /\ job'[j].rows = rows /\ job'[j].asked = asked
      /\ job'[j].found = found /\ job'[j] # Idle
      /\ \A i \in Job \ {j} : job'[i] = job[i]
  BY <1>1, <1>2, AtFields DEF SyncTypeOK
<1>4. SyncTypeOK'
  BY <1>1, <1>3 DEF SyncTypeOK
<1>12. \A v, h : Mine(v, h)' <=> Mine(v, h)
  BY DEF Mine, Strangers, Bound, Alike
<1>5. JobOK(j)'
  BY <1>3, <1>12 DEF JobOK, SyncInv, JobsOK
<1>6. JobsOK'
  BY <1>3, <1>5, JobsStay DEF SyncInv, JobsOK
<1>7. /\ RowsBound' /\ HostsBound' /\ CodesKnown' /\ LateBound' /\ EditsKnown' /\ HostsKnown' /\ LateKnown'
      /\ LateUnsaid'
  BY BoundStays DEF SyncInv, LateUnsaid
<1>8. \A v \in Unit :
           /\ Holds(j, v)' <=> Holds(j, v)
           /\ ~Pending(j, v) /\ ~Pending(j, v)'
           /\ Concerns(j, v)' <=> Concerns(j, v)
  <2>1. job[j].pc = "next" => job[j].unit = None
    BY DEF SyncInv, JobsOK, JobOK
  <2> QED
    BY <1>3, <2>1, SyncAssumption DEF Holds, Pending, Concerns, Free
<1>9. \A i \in Job, v \in Unit :
          /\ Holds(i, v)' <=> Holds(i, v)
          /\ Pending(i, v)' <=> Pending(i, v)
          /\ Concerns(i, v)' <=> Concerns(i, v)
          /\ job'[i].rows[v] = job[i].rows[v]
  BY <1>3, <1>8, OthersStay
<1>10. OneHolder' /\ HoldersLead' /\ HoldersCurrent'
  BY <1>9 DEF SyncInv, OneHolder, HoldersLead, HoldersCurrent
<1>11. QuietUnitsAreCurrent'
  BY <1>9 DEF SyncInv, QuietUnitsAreCurrent
<1> QED
  BY <1>4, <1>6, <1>7, <1>10, <1>11 DEF SyncInv

\* Going on to the next unit of a synchronisation of all keeps what is known of hosts.
LEMMA NextUnitStep ==
    ASSUME SyncInv, NEW j \in Job, NEW u \in Unit, NextUnit(j, u)
    PROVE  SyncInv'
<1>1. /\ ~Free(j) /\ job[j].pc = "next" /\ job[j].rows[u] # None
      /\ job' = [job EXCEPT ![j] = At("ask", u, job[j].rows, 0, {})]
      /\ UNCHANGED <<unit, edit, host, late, linked, had, crossed, last, unheard, begun>>
  BY AtWork DEF NextUnit
<1>2. 0 \in 0..Len(Source) /\ 0 < Len(Source) /\ {} \in SUBSET Found
  BY SourceLen
<1> QED
  BY <1>1, <1>2, GoesOnStep

\* A job that ends with one unit.
LEMMA EndsUnit ==
    ASSUME SyncInv, NEW j \in Job, job[j].pc \in {"ask", "update"}, job' = [job EXCEPT ![j] = Ended(j)]
    PROVE  /\ job' \in [Job -> Busy \cup {Idle}]
           /\ job[j].unit \in Unit
           /\ \A i \in Job, v \in Unit :
                  /\ Holds(i, v)' <=> Holds(i, v) /\ (i = j => v # job[j].unit)
                  /\ Holds(i, v)' => job'[i].rows[v] = job[i].rows[v]
                  /\ Pending(i, v)' <=> Pending(i, v)
                  /\ Concerns(i, v)' <=> Concerns(i, v) /\ (i = j => v # job[j].unit)
           /\ UNCHANGED <<unit, linked, had>> => JobsOK'
<1> DEFINE u == job[j].unit
<1>1. ~Free(j) /\ SyncTypeOK /\ u \in Unit /\ job[j].rows[u] # None
  BY AtWork DEF SyncInv, JobsOK, JobOK
<1>2. /\ job' \in [Job -> Busy \cup {Idle}] /\ job'[j] = Ended(j)
      /\ \A i \in Job \ {j} : job'[i] = job[i]
  BY <1>1, EndedFacts DEF SyncTypeOK
<1>3. \A v \in Unit :
           /\ Holds(j, v)' <=> Holds(j, v) /\ v # u
           /\ Holds(j, v)' => job'[j].rows[v] = job[j].rows[v]
           /\ ~Pending(j, v)' /\ ~Pending(j, v)
           /\ Concerns(j, v)' <=> Concerns(j, v) /\ v # u
  BY <1>1, <1>2, EndedFacts, SyncAssumption DEF Holds, Pending, Concerns, Free
<1>4. ASSUME UNCHANGED <<unit, linked, had>>
      PROVE  JobsOK'
  <2>1. ~Free(j)' => JobOK(j)'
    BY <1>1, <1>2, <1>4, EndedFacts DEF JobOK, SyncInv, JobsOK, Free
  <2> QED
    BY <1>2, <1>4, <2>1, JobsStay DEF SyncInv, JobsOK
<1> QED
  BY <1>1, <1>2, <1>3, <1>4, OthersStay

\* What an integration finds is bound to the unit.
LEMMA FoundIsBound ==
    ASSUME SyncInv, NEW j \in Job, job[j].pc = "ask", NEW answered \in BOOLEAN
    PROVE  /\ FoundAfter(j, answered) \in SUBSET Found
           /\ \A m \in FoundAfter(j, answered) : Mine(job[j].unit, m.host)
<1> DEFINE u == job[j].unit
           row == job[j].rows[u]
           S == Source[job[j].asked + 1]
<1>1. /\ ~Free(j) /\ SyncTypeOK /\ u \in Unit /\ row # None /\ job[j].asked \in Nat /\ job[j].asked < Len(Source)
      /\ job[j].found \subseteq Found
      /\ \A m \in job[j].found : Mine(u, m.host)
      /\ <<u, row.code>> \in had /\ \A h \in row.links : <<u, h>> \in linked
      /\ row \in Row
  BY AtWork, BusyFields, SourceLen DEF SyncInv, JobsOK, JobOK
<1>2. S \subseteq Host
  <2>1. job[j].asked + 1 \in 1..Len(Source)
    BY <1>1, SourceLen
  <2> QED
    BY <2>1, SyncAssumption
<1>3. \A h \in S : ScoreHostForUnit(u, row, h) \in Nat
  BY DEF ScoreHostForUnit
<1>4. \A h \in SelectHostMatch(u, row, S) : h \in S /\ Mine(u, h)
  <2>1. ASSUME NEW h \in SelectHostMatch(u, row, S)
        PROVE  h \in S /\ SyncReady(u, row, h)
    BY <2>1 DEF SelectHostMatch
  <2>2. HostsBound /\ CodesKnown /\ SyncTypeOK
    BY DEF SyncInv
  <2> HIDE DEF u, row, S
  <2> QED
    BY <1>1, <1>2, <2>1, <2>2, ReadyIsMine
<1>5. FoundAfter(j, answered) =
          IF answered THEN job[j].found \cup {[host |-> h, score |-> ScoreHostForUnit(u, row, h)] :
                                                 h \in SelectHostMatch(u, row, S)}
          ELSE job[j].found
  BY DEF FoundAfter
<1> HIDE DEF u, row, S
<1>6. \A h \in SelectHostMatch(u, row, S) :
          [host |-> h, score |-> ScoreHostForUnit(u, row, h)] \in Found
  BY <1>2, <1>3, <1>4 DEF Found
<1>7. FoundAfter(j, answered) \in SUBSET Found /\ \A m \in FoundAfter(j, answered) : Mine(u, m.host)
  BY <1>1, <1>4, <1>5, <1>6
<1> QED
  BY <1>7 DEF u

\* The answer of an integration, or its silence, keeps what is known of hosts.
LEMMA AskSourceStep ==
    ASSUME SyncInv, NEW j \in Job, AskSource(j)
    PROVE  SyncInv'
<1> DEFINE u == job[j].unit
<1>1. PICK answered \in BOOLEAN :
          LET found == FoundAfter(j, answered)
          IN \/ /\ job[j].asked + 1 < Len(Source)
                /\ job' = [job EXCEPT ![j] = At("ask", u, job[j].rows, job[j].asked + 1, found)]
                /\ UNCHANGED last
             \/ /\ job[j].asked + 1 = Len(Source)
                /\ job' = [job EXCEPT ![j] = At("update", u, job[j].rows, job[j].asked + 1, Clear(found))]
                /\ UNCHANGED last
             \/ /\ job' = [job EXCEPT ![j] = Ended(j)]
                /\ last' = [last EXCEPT ![u] = None]
  BY DEF AskSource
<1> DEFINE found == FoundAfter(j, answered)
<1>2. /\ ~Free(j) /\ job[j].pc = "ask" /\ u \in Unit /\ job[j].rows[u] # None /\ job[j].asked \in Nat
      /\ SyncTypeOK
      /\ UNCHANGED <<unit, edit, host, late, linked, had, crossed, unheard, begun>>
  BY AtWork, BusyFields, SourceLen DEF AskSource, SyncInv, JobsOK, JobOK
<1>3. found \in SUBSET Found /\ \A m \in found : Mine(u, m.host)
  BY <1>2, FoundIsBound
<1> HIDE DEF found
<1>4. Clear(found) \in SUBSET Found /\ \A m \in Clear(found) : Mine(u, m.host)
  BY <1>3 DEF Clear
<1> HIDE DEF u
<1>5. CASE /\ job[j].asked + 1 < Len(Source)
           /\ job' = [job EXCEPT ![j] = At("ask", u, job[j].rows, job[j].asked + 1, found)]
           /\ UNCHANGED last
  <2>1. job[j].asked + 1 \in 0..Len(Source)
    BY <1>2, <1>5, SourceLen
  <2> QED
    BY <1>2, <1>3, <1>5, <2>1, GoesOnStep DEF u
<1>6. CASE /\ job[j].asked + 1 = Len(Source)
           /\ job' = [job EXCEPT ![j] = At("update", u, job[j].rows, job[j].asked + 1, Clear(found))]
           /\ UNCHANGED last
  <2>1. job[j].asked + 1 \in 0..Len(Source)
    BY <1>2, <1>6, SourceLen
  <2> QED
    BY <1>2, <1>4, <1>6, <2>1, GoesOnStep DEF u
<1>7. CASE /\ job' = [job EXCEPT ![j] = Ended(j)]
           /\ last' = [last EXCEPT ![u] = None]
  <2>1. /\ job' \in [Job -> Busy \cup {Idle}]
        /\ \A i \in Job, v \in Unit :
               /\ Holds(i, v)' <=> Holds(i, v) /\ (i = j => v # u)
               /\ Holds(i, v)' => job'[i].rows[v] = job[i].rows[v]
               /\ Pending(i, v)' <=> Pending(i, v)
               /\ Concerns(i, v)' <=> Concerns(i, v) /\ (i = j => v # u)
        /\ JobsOK'
    BY <1>2, <1>7, EndsUnit DEF u
  <2>2. /\ last' \in [Unit -> Host \cup {None}] /\ last'[u] = None
        /\ \A v \in Unit \ {u} : last'[v] = last[v]
    BY <1>2, <1>7 DEF SyncTypeOK
  <2>3. SyncTypeOK'
    BY <1>2, <2>1, <2>2 DEF SyncTypeOK
  <2>4. RowsBound' /\ HostsBound' /\ CodesKnown' /\ LateBound' /\ EditsKnown' /\ HostsKnown' /\ LateKnown'
    BY <1>2, BoundStays
  <2>5. OneHolder' /\ HoldersLead' /\ HoldersCurrent'
    BY <1>2, <2>1 DEF SyncInv, OneHolder, HoldersLead, HoldersCurrent
  <2>6. LateUnsaid'
    BY <1>2, <2>2 DEF SyncInv, LateUnsaid
  <2>7. QuietUnitsAreCurrent'
    BY <1>2, <2>1, <2>2 DEF SyncInv, QuietUnitsAreCurrent
  <2> QED
    BY <2>1, <2>3, <2>4, <2>5, <2>6, <2>7 DEF SyncInv
<1> QED
  BY <1>1, <1>5, <1>6, <1>7 DEF u, found

\* The host is written, or its update is under way or lost.
LEMMA UpdateHostStep ==
    ASSUME SyncInv, NEW j \in Job, UpdateHost(j)
    PROVE  SyncInv'
<1> DEFINE u == job[j].unit
           row == job[j].rows[u]
           version == row.version
<1>1. PICK m \in job[j].found, answered \in BOOLEAN :
          \/ /\ host' = [host EXCEPT ![m.host] = TagsOf(u, row)]
             /\ last' = [last EXCEPT ![u] = IF answered THEN m.host ELSE None]
             /\ UNCHANGED late
          \/ /\ last' = [last EXCEPT ![u] = None]
             /\ late' \in {late, late \cup {[host |-> m.host, unit |-> u, code |-> row.code,
                                             version |-> row.version, equipments |-> row.equipments]}}
             /\ UNCHANGED host
  BY DEF UpdateHost
<1>2. /\ ~Free(j) /\ job[j].pc = "update" /\ u \in Unit /\ job[j].rows[u] # None /\ row \in Row
      /\ SyncTypeOK
      /\ Mine(u, m.host) /\ m.host \in Host /\ <<u, row.code>> \in had
      /\ unit[u] # None /\ unit[u] \in Row /\ version <= unit[u].version
      /\ job' = [job EXCEPT ![j] = Ended(j)]
      /\ UNCHANGED <<unit, edit, linked, had, crossed, unheard, begun>>
  <2>1. ~Free(j) /\ job[j].pc = "update" /\ SyncTypeOK
    BY AtWork DEF UpdateHost, SyncInv
  <2>2. JobOK(j) /\ job[j].found \subseteq Found /\ job[j].rows \in [Unit -> Row \cup {None}]
    BY <2>1, BusyFields DEF SyncInv, JobsOK
  <2>3. m.host \in Host
    BY <2>2 DEF Found
  <2> QED
    BY <2>1, <2>2, <2>3 DEF JobOK, UpdateHost, SyncTypeOK
<1>3. version \in 0..MaxVersion /\ Holds(j, u)
  BY <1>2 DEF Row, Holds
<1>4. /\ job' \in [Job -> Busy \cup {Idle}]
      /\ \A i \in Job, v \in Unit :
             /\ Holds(i, v)' <=> Holds(i, v) /\ (i = j => v # u)
             /\ Holds(i, v)' => job'[i].rows[v] = job[i].rows[v]
             /\ Pending(i, v)' <=> Pending(i, v)
             /\ Concerns(i, v)' <=> Concerns(i, v) /\ (i = j => v # u)
      /\ JobsOK'
  BY <1>2, EndsUnit
<1>5. \A i \in Job, v \in Unit : Pending(i, v) => Concerns(i, v) /\ i # j
  BY <1>2 DEF Pending, Concerns
<1>6. \A i \in Job, v \in Unit : Holds(i, v) => job[i].rows[v] # None
  BY DEF Holds
<1>7. RowsBound' /\ EditsKnown' /\ \A v, h : Mine(v, h)' <=> Mine(v, h)
  BY <1>2 DEF SyncInv, RowsBound, EditsKnown, Mine, Strangers, Bound, Alike
<1>8. u \notin crossed => (\A i \in Job : Holds(i, u) => i = j) /\ (\A l \in late : l.unit # u)
  BY <1>2, <1>3 DEF SyncInv, OneHolder
<1>9. \A h \in Host : u \notin crossed /\ host[h].unit = u => version >= host[h].version
  BY <1>2, <1>3 DEF SyncInv, HoldersLead
<1>10. u \notin crossed \cup unheard /\ (\A i \in Job : ~Pending(i, u)) => row = unit[u]
  BY <1>2, <1>3 DEF SyncInv, HoldersCurrent
<1>13. row.code \in Code /\ row.equipments \in SUBSET Equipment /\ row.code # None /\ u # None
  BY <1>2, SyncAssumption DEF Row
<1> DEFINE tags == TagsOf(u, row)
           new == [host |-> m.host, unit |-> u, code |-> row.code, version |-> row.version,
                   equipments |-> row.equipments]
<1>14. /\ tags \in Tags /\ tags.unit = u /\ tags.code = row.code /\ tags.version = version
       /\ new \in Late /\ new.host = m.host /\ new.unit = u /\ new.code = row.code /\ new.version = version
  BY <1>2, <1>3, <1>13 DEF TagsOf, Tags, Late
<1>15. row = unit[u] => tags = TagsOf(u, unit[u])
  OBVIOUS
<1> HIDE DEF new, tags, version, row, u
<1>11. CASE /\ host' = [host EXCEPT ![m.host] = tags]
            /\ last' = [last EXCEPT ![u] = IF answered THEN m.host ELSE None]
            /\ UNCHANGED late
  <2>1. /\ host' \in [Host -> Tags] /\ host'[m.host] = tags
        /\ host'[m.host].unit = u /\ host'[m.host].version = version
        /\ \A h \in Host \ {m.host} : host'[h] = host[h]
    BY <1>2, <1>11, <1>14 DEF SyncTypeOK
  <2>2. /\ last' \in [Unit -> Host \cup {None}] /\ last'[u] \in {m.host, None}
        /\ \A v \in Unit \ {u} : last'[v] = last[v]
        /\ late' = late
    BY <1>2, <1>11 DEF SyncTypeOK
  <2>3. SyncTypeOK'
    BY <1>2, <1>4, <2>1, <2>2 DEF SyncTypeOK
  <2>4. HostsBound' /\ LateBound'
    BY <1>2, <1>7, <2>1, <2>2 DEF SyncInv, HostsBound, LateBound
  <2>10. CodesKnown'
    BY <1>2, <1>13, <1>14, <2>1 DEF SyncInv, CodesKnown
  <2>5. HostsKnown' /\ LateKnown'
    BY <1>2, <2>1, <2>2 DEF SyncInv, HostsKnown, LateKnown
  <2>6. OneHolder'
    BY <1>2, <1>4, <2>2 DEF SyncInv, OneHolder
  <2>7. HoldersLead'
    BY <1>2, <1>4, <1>8, <2>1, <2>2 DEF SyncInv, HoldersLead
  <2>8. LateUnsaid' /\ HoldersCurrent'
    BY <1>2, <1>4, <1>8, <2>2 DEF SyncInv, LateUnsaid, HoldersCurrent
  <2>9. QuietUnitsAreCurrent'
    <3> SUFFICES ASSUME NEW v \in Unit \ (crossed' \cup unheard'), last'[v] # None, host'[last'[v]].unit = v,
                        \A i \in Job : ~Concerns(i, v)', \A l \in late' : l.unit # v
                 PROVE  host'[last'[v]] = TagsOf(v, unit'[v])
      BY DEF QuietUnitsAreCurrent
    <3>1. CASE v = u
      <4>1. \A i \in Job : ~Pending(i, u)
        BY <1>4, <1>5, <3>1, <1>2
      <4> QED
        BY <1>2, <1>10, <1>15, <2>1, <2>2, <3>1, <4>1
    <3>2. CASE v # u
      <4>1. last[v] = last'[v] /\ last[v] \in Host /\ last[v] # m.host /\ host'[last[v]] = host[last[v]]
        BY <2>1, <2>2, <3>2
      <4>2. \A i \in Job : ~Concerns(i, v)
        BY <1>4, <3>2
      <4> QED
        BY <1>2, <2>2, <4>1, <4>2 DEF SyncInv, QuietUnitsAreCurrent
    <3> QED
      BY <3>1, <3>2
  <2> QED
    BY <1>4, <1>7, <2>3, <2>4, <2>5, <2>6, <2>7, <2>8, <2>9, <2>10 DEF SyncInv
<1>12. CASE /\ last' = [last EXCEPT ![u] = None]
            /\ late' \in {late, late \cup {new}}
            /\ UNCHANGED host
  <2>1. /\ last' \in [Unit -> Host \cup {None}] /\ last'[u] = None
        /\ \A v \in Unit \ {u} : last'[v] = last[v]
        /\ host' = host
    BY <1>2, <1>12 DEF SyncTypeOK
  <2>2. late' = late \/ late' = late \cup {new}
    BY <1>12
  <2>3. \A l \in late' : l \in late \/ l = new
    BY <2>2
  <2>4. SyncTypeOK'
    BY <1>2, <1>4, <1>14, <2>1, <2>3 DEF SyncTypeOK
  <2>5. HostsBound' /\ LateBound' /\ CodesKnown'
    BY <1>2, <1>7, <1>14, <2>1, <2>3 DEF SyncInv, HostsBound, LateBound, CodesKnown
  <2>6. HostsKnown' /\ LateKnown'
    BY <1>2, <1>14, <2>1, <2>3 DEF SyncInv, HostsKnown, LateKnown
  <2>7. OneHolder'
    BY <1>2, <1>4, <1>8, <1>14, <2>3 DEF SyncInv, OneHolder
  <2>8. HoldersLead'
    BY <1>2, <1>4, <1>9, <1>14, <2>1, <2>3 DEF SyncInv, HoldersLead
  <2>9. LateUnsaid' /\ HoldersCurrent'
    BY <1>2, <1>4, <1>14, <2>1, <2>3 DEF SyncInv, LateUnsaid, HoldersCurrent
  <2>10. QuietUnitsAreCurrent'
    BY <1>2, <1>4, <2>1, <2>2 DEF SyncInv, QuietUnitsAreCurrent
  <2> QED
    BY <1>4, <1>7, <2>4, <2>5, <2>6, <2>7, <2>8, <2>9, <2>10 DEF SyncInv
<1> QED
  BY <1>1, <1>11, <1>12 DEF u, row, tags, new

-----------------------------------------------------------------------------
(* Steps of the world, of the process and of the requests                  *)

\* An update that arrives late brings no row newer than the stored one.
LEMMA ArriveStep ==
    ASSUME SyncInv, NEW l \in late, Arrive(l)
    PROVE  SyncInv'
<1>1. /\ late' = late \ {l}
      /\ host' = host \/ host' = [host EXCEPT ![l.host] = TagsOf(l.unit, l)]
      /\ UNCHANGED <<unit, edit, job, linked, had, crossed, last, unheard, begun>>
      /\ SyncTypeOK
  BY DEF Arrive, SyncInv
<1>2. /\ l.host \in Host /\ l.unit \in Unit /\ l.version \in 0..MaxVersion
      /\ l.code \in Code /\ l.equipments \in SUBSET Equipment
      /\ Mine(l.unit, l.host) /\ <<l.unit, l.code>> \in had
      /\ unit[l.unit] # None /\ l.version <= unit[l.unit].version
  BY <1>1 DEF SyncTypeOK, Late, SyncInv, LateBound, LateKnown
<1>13. /\ TagsOf(l.unit, l) \in Tags /\ TagsOf(l.unit, l).unit = l.unit
       /\ TagsOf(l.unit, l).code = l.code /\ TagsOf(l.unit, l).version = l.version
  BY <1>2 DEF TagsOf, Tags
<1>3. l.unit \notin crossed =>
          /\ \A i \in Job : ~Holds(i, l.unit)
          /\ \A k \in late' : k.unit # l.unit
          /\ last[l.unit] = None
  BY <1>1, <1>2 DEF SyncInv, OneHolder, LateUnsaid
<1>4. /\ host' \in [Host -> Tags]
      /\ \A h \in Host :
             \/ host'[h] = host[h]
             \/ /\ h = l.host /\ host'[h].unit = l.unit
                /\ host'[h].code = l.code /\ host'[h].version = l.version
  BY <1>1, <1>2, <1>13 DEF SyncTypeOK
<1>5. SyncTypeOK'
  BY <1>1, <1>4 DEF SyncTypeOK
<1>6. \A i \in Job, v \in Unit :
          /\ Holds(i, v)' <=> Holds(i, v)
          /\ Pending(i, v)' <=> Pending(i, v)
          /\ Concerns(i, v)' <=> Concerns(i, v)
          /\ job'[i].rows[v] = job[i].rows[v]
  BY <1>1, OthersStay
<1>7. JobsOK'
  BY <1>1, JobsStay DEF SyncInv, JobsOK
<1>14. \A v, h : Mine(v, h)' <=> Mine(v, h)
  BY <1>1 DEF Mine, Strangers, Bound, Alike
<1>15. l.unit # None /\ l.code # None
  BY <1>2, SyncAssumption
<1>8. RowsBound' /\ HostsBound' /\ CodesKnown' /\ LateBound' /\ EditsKnown'
  <2>1. HostsBound'
    BY <1>2, <1>4, <1>14 DEF SyncInv, HostsBound
  <2>2. CodesKnown'
    BY <1>1, <1>2, <1>4, <1>15 DEF SyncInv, CodesKnown
  <2>3. RowsBound' /\ LateBound' /\ EditsKnown'
    BY <1>1, <1>14 DEF SyncInv, RowsBound, LateBound, EditsKnown
  <2> QED
    BY <2>1, <2>2, <2>3
<1>9. HostsKnown' /\ LateKnown'
  BY <1>1, <1>2, <1>4 DEF SyncInv, HostsKnown, LateKnown
<1>10. OneHolder' /\ LateUnsaid' /\ HoldersCurrent'
  BY <1>1, <1>6 DEF SyncInv, OneHolder, LateUnsaid, HoldersCurrent
<1>11. HoldersLead'
  BY <1>1, <1>3, <1>4, <1>6 DEF SyncInv, HoldersLead
<1>12. QuietUnitsAreCurrent'
  <2> SUFFICES ASSUME NEW v \in Unit \ (crossed' \cup unheard'), last'[v] # None, host'[last'[v]].unit = v,
                      \A i \in Job : ~Concerns(i, v)', \A k \in late' : k.unit # v
               PROVE  host'[last'[v]] = TagsOf(v, unit'[v])
    BY DEF QuietUnitsAreCurrent
  <2>1. v # l.unit /\ last'[v] = last[v] /\ last[v] \in Host
    BY <1>1, <1>3 DEF SyncTypeOK
  <2>2. host'[last[v]] = host[last[v]] /\ \A k \in late : k.unit # v
    BY <1>1, <1>4, <2>1
  <2> QED
    BY <1>1, <1>6, <2>1, <2>2 DEF SyncInv, QuietUnitsAreCurrent
<1> QED
  BY <1>5, <1>7, <1>8, <1>9, <1>10, <1>11, <1>12 DEF SyncInv

\* A synchronisation that gives up leaves its units unread or its claims unsaid.
LEMMA GiveUpStep ==
    ASSUME SyncInv, NEW j \in Job, GiveUp(j)
    PROVE  SyncInv'
<1>1. /\ ~Free(j) /\ job[j].pc \in {"read", "ask"} /\ job' = [job EXCEPT ![j] = Idle]
      /\ last' = [u \in Unit |-> IF Concerns(j, u) THEN None ELSE last[u]]
      /\ unheard' = IF job[j].pc = "read" THEN unheard \cup {job[j].unit} ELSE unheard
      /\ UNCHANGED <<unit, edit, host, late, linked, had, crossed, begun>>
      /\ SyncTypeOK
  BY AtWork DEF GiveUp, SyncInv
<1>2. /\ job' \in [Job -> Busy \cup {Idle}] /\ job'[j] = Idle
      /\ \A i \in Job \ {j} : job'[i] = job[i]
  BY <1>1 DEF SyncTypeOK
<1>3. \A v \in Unit : ~Holds(j, v)' /\ ~Pending(j, v)' /\ ~Concerns(j, v)'
  BY <1>2 DEF Holds, Pending, Concerns, Free
<1>4. /\ unheard \subseteq unheard' /\ unheard' \subseteq Unit
      /\ \A v \in Unit : Pending(j, v) => v \in unheard'
  BY <1>1 DEF Pending, SyncInv, JobsOK, JobOK, SyncTypeOK
<1>5. \A u \in Unit : last'[u] # None => last'[u] = last[u] /\ ~Concerns(j, u)
  BY <1>1
<1>6. SyncTypeOK'
  BY <1>1, <1>2, <1>4 DEF SyncTypeOK
<1>7. JobsOK'
  BY <1>1, <1>2, JobsStay DEF SyncInv, JobsOK, Free
<1>8. RowsBound' /\ HostsBound' /\ CodesKnown' /\ LateBound' /\ EditsKnown' /\ HostsKnown' /\ LateKnown'
  BY <1>1, BoundStays
<1>9. OneHolder' /\ HoldersLead'
  BY <1>1, <1>2, <1>3, OthersStay DEF SyncInv, OneHolder, HoldersLead
<1>10. HoldersCurrent'
  <2> SUFFICES ASSUME NEW v \in Unit \ (crossed' \cup unheard'), NEW i \in Job, Holds(i, v)',
                      \A k \in Job : ~Pending(k, v)'
               PROVE  job'[i].rows[v] = unit'[v]
    BY DEF HoldersCurrent
  <2>1. i # j /\ Holds(i, v) /\ job'[i] = job[i] /\ v \notin crossed \cup unheard
    BY <1>1, <1>2, <1>3, <1>4, OthersStay
  <2>2. \A k \in Job : ~Pending(k, v)
    BY <1>2, <1>4, OthersStay
  <2> QED
    BY <1>1, <2>1, <2>2 DEF SyncInv, HoldersCurrent
<1>11. LateUnsaid'
  BY <1>1, <1>5 DEF SyncInv, LateUnsaid
<1>12. QuietUnitsAreCurrent'
  BY <1>1, <1>2, <1>4, <1>5, OthersStay DEF SyncInv, QuietUnitsAreCurrent
<1> QED
  BY <1>6, <1>7, <1>8, <1>9, <1>10, <1>11, <1>12 DEF SyncInv

\* A crash forgets the synchronisations and their claims.
LEMMA SyncCrashStep ==
    ASSUME SyncInv, Crash
    PROVE  SyncInv'
<1>1. /\ \A j \in Job : job'[j] = Idle
      /\ job' \in [Job -> Busy \cup {Idle}]
      /\ last' = [u \in Unit |-> IF \E j \in Job : Concerns(j, u) THEN None ELSE last[u]]
      /\ edit' = [m \in Editor |-> None]
      /\ UNCHANGED <<unit, host, late, linked, had, crossed, unheard, begun>>
      /\ SyncTypeOK
  BY DEF Crash, SyncInv
<1>2. \A i \in Job : Free(i)' /\ \A v \in Unit : ~Holds(i, v)'
  BY <1>1 DEF Free, Holds
<1>3. \A u \in Unit : last'[u] # None => last'[u] = last[u] /\ \A j \in Job : ~Concerns(j, u)
  BY <1>1
<1>4. SyncTypeOK'
  BY <1>1 DEF SyncTypeOK
<1>5. JobsOK'
  BY <1>2 DEF JobsOK
<1>10. \A v, h : Mine(v, h)' <=> Mine(v, h)
  BY <1>1 DEF Mine, Strangers, Bound, Alike
<1>6. RowsBound' /\ HostsBound' /\ CodesKnown' /\ LateBound' /\ EditsKnown' /\ HostsKnown' /\ LateKnown'
  BY <1>1, <1>10 DEF SyncInv, RowsBound, HostsBound, CodesKnown, LateBound, EditsKnown, HostsKnown, LateKnown
<1>7. OneHolder' /\ HoldersLead' /\ HoldersCurrent'
  BY <1>1, <1>2 DEF SyncInv, OneHolder, HoldersLead, HoldersCurrent
<1>8. LateUnsaid'
  BY <1>1, <1>3 DEF SyncInv, LateUnsaid
<1>9. QuietUnitsAreCurrent'
  BY <1>1, <1>3 DEF SyncInv, QuietUnitsAreCurrent
<1> QED
  BY <1>4, <1>5, <1>6, <1>7, <1>8, <1>9 DEF SyncInv

\* What the requests have in common: free jobs are started, and one of them for every unit that changes
\* unless nobody hears of it.
Queued ==
    /\ SyncTypeOK'
    /\ \A j \in Job : job'[j] = job[j] \/ (Free(j) /\ \E u \in Unit : unit'[u] # None /\ job'[j] = Start(u))
    /\ \A u \in Unit :
           \/ unit'[u] = unit[u]
           \/ /\ unit'[u] # None
              /\ unit[u] = None \/ unit[u].version <= unit'[u].version
              /\ u \in unheard' \/ \E j \in Job : Free(j) /\ job'[j] = Start(u)
    /\ linked \subseteq linked' /\ had \subseteq had' /\ unheard \subseteq unheard'
    /\ RowsBound' /\ EditsKnown'
    /\ UNCHANGED <<host, late, crossed, last>>

\* Queueing a synchronisation, with or without an edit, keeps what is known of hosts.
LEMMA QueuedStep ==
    ASSUME SyncInv, Queued
    PROVE  SyncInv'
<1>1. /\ SyncTypeOK' /\ SyncTypeOK /\ linked \subseteq linked' /\ had \subseteq had' /\ RowsBound' /\ EditsKnown'
      /\ host' = host /\ late' = late /\ crossed' = crossed /\ last' = last /\ unheard \subseteq unheard'
  BY DEF Queued, SyncInv
<1>2. \A j \in Job :
          \/ job'[j] = job[j]
          \/ /\ Free(j) /\ job'[j] # Idle /\ job'[j].pc = "read" /\ job'[j].rows = NoRows
             /\ job'[j].asked = 0 /\ job'[j].found = {}
             /\ job'[j].unit \in Unit /\ unit'[job'[j].unit] # None
  BY StartFacts DEF Queued
<1>3. \A u \in Unit :
          unit[u] # None => /\ unit'[u] # None
                            /\ unit[u].version \in Nat /\ unit'[u].version \in Nat
                            /\ unit[u].version <= unit'[u].version
  BY <1>1, SyncAssumption DEF Queued, SyncTypeOK, Row
<1>4. \A v \in Unit : NoRows[v] = None
  BY DEF NoRows
<1>5. \A j \in Job, v \in Unit :
          /\ Holds(j, v)' <=> Holds(j, v)
          /\ Holds(j, v) => job'[j].rows[v] = job[j].rows[v]
          /\ Pending(j, v) => Pending(j, v)'
          /\ Concerns(j, v) => Concerns(j, v)'
  BY <1>2, <1>4 DEF Holds, Pending, Concerns, Free
<1>6. \A u \in Unit : unit'[u] # unit[u] => u \in unheard' \/ \E j \in Job : Pending(j, u)' /\ Concerns(j, u)'
  BY StartFacts DEF Queued, Pending, Concerns, Free
<1>7. JobsOK'
  <2> SUFFICES ASSUME NEW j \in Job, ~Free(j)' PROVE JobOK(j)'
    BY DEF JobsOK
  <2>1. CASE job'[j] = job[j]
    <3>1. ~Free(j) /\ JobOK(j)
      BY <2>1 DEF Free, SyncInv, JobsOK
    <3>2. job[j].rows \in [Unit -> Row \cup {None}]
      BY <1>1, <3>1, BusyFields
    <3>3. ASSUME NEW u \in Unit, job[j].rows[u] # None
          PROVE  unit'[u] # None /\ job[j].rows[u].version <= unit'[u].version
      <4>1. job[j].rows[u] \in Row
        BY <3>2, <3>3
      <4>2. job[j].rows[u].version \in Nat
        BY <4>1, SyncAssumption DEF Row
      <4>3. unit[u] # None /\ job[j].rows[u].version <= unit[u].version
        BY <3>1, <3>3 DEF JobOK
      <4>4. /\ unit'[u] # None
            /\ unit[u].version \in Nat /\ unit'[u].version \in Nat
            /\ unit[u].version <= unit'[u].version
        BY <1>3, <4>3
      <4> QED
        BY <4>2, <4>3, <4>4
    <3>4. \A m \in job[j].found : m.host \in Host /\ job[j].unit \in Unit
      <4>1. job[j].found \subseteq Found
        BY <1>1, <3>1, BusyFields
      <4>2. job[j].found # {} => job[j].unit \in Unit
        BY <1>1, <3>1, BusyFields DEF JobOK
      <4> QED
        BY <4>1, <4>2 DEF Found
    <3>5. \A u \in Unit, h \in Host : Mine(u, h) => Mine(u, h)'
      BY <1>1, MineStays
    <3>6. ASSUME NEW m \in job[j].found, NEW S \in SUBSET Unit, Strangers(S, m.host)'
          PROVE  job[j].unit \notin S
      <4>1. PICK u \in Unit : u = job[j].unit
        BY <3>4
      <4>2. PICK h \in Host : h = m.host
        BY <3>4
      <4>3. Mine(u, h)
        BY <3>1, <4>1, <4>2 DEF JobOK
      <4>4. Mine(u, h)'
        BY <3>5, <4>3
      <4>5. Strangers(S, h)'
        BY <3>6, <4>2
      <4> QED
        BY <4>1, <4>4, <4>5 DEF Mine
    <3>7. \A m \in job'[j].found : \A S \in SUBSET Unit : Strangers(S, m.host)' => job'[j].unit \notin S
      BY <2>1, <3>6
    <3>8. /\ job'[j].pc = "read" => /\ job'[j].unit \in Unit /\ unit'[job'[j].unit] # None
                                   /\ job'[j].rows = NoRows /\ job'[j].found = {}
          /\ job'[j].pc = "next" => job'[j].unit = None /\ job'[j].found = {}
          /\ job'[j].pc \in {"ask", "update"} => job'[j].unit \in Unit /\ job'[j].rows[job'[j].unit] # None
          /\ job'[j].pc \in {"read", "ask"} => job'[j].asked < Len(Source)
      BY <1>3, <2>1, <3>1 DEF JobOK
    <3>9. \A u \in Unit : job'[j].rows[u] # None =>
              /\ unit'[u] # None /\ job'[j].rows[u].version <= unit'[u].version
              /\ <<u, job'[j].rows[u].code>> \in had'
              /\ \A h \in job'[j].rows[u].links : <<u, h>> \in linked'
      BY <1>1, <2>1, <3>1, <3>3 DEF JobOK
    <3> QED
      BY <3>7, <3>8, <3>9 DEF JobOK, Mine
  <2>2. CASE job'[j] # job[j]
    BY <1>2, <1>4, <2>2, SourceLen DEF JobOK
  <2> QED
    BY <2>1, <2>2
<1>8. HostsBound' /\ LateBound' /\ CodesKnown'
  <2>1. \A h \in Host : host[h].unit # None => host[h].unit \in Unit
    BY <1>1 DEF SyncTypeOK, Tags
  <2>2. \A l \in late : l.unit \in Unit /\ l.host \in Host
    BY <1>1 DEF SyncTypeOK, Late
  <2>3. \A u \in Unit, h \in Host : Mine(u, h) => Mine(u, h)'
    BY <1>1, MineStays
  <2>4. HostsBound'
    BY <1>1, <2>1, <2>3 DEF SyncInv, HostsBound
  <2>5. LateBound'
    BY <1>1, <2>2, <2>3 DEF SyncInv, LateBound
  <2> QED
    BY <1>1, <2>4, <2>5 DEF SyncInv, CodesKnown
<1>9. HostsKnown'
  <2> SUFFICES ASSUME NEW h \in Host, NEW u \in Unit, host'[h].unit = u
               PROVE  IF unit'[u] = None THEN host'[h].version = 0 ELSE host'[h].version <= unit'[u].version
    BY DEF HostsKnown
  <2>1. /\ unit[u] = None => host[h].version = 0
        /\ unit[u] # None => host[h].version <= unit[u].version
    BY <1>1 DEF SyncInv, HostsKnown
  <2>2. unit'[u] # None => unit'[u].version \in Nat
    BY <1>1, SyncAssumption DEF SyncTypeOK, Row
  <2> QED
    BY <1>1, <1>3, <2>1, <2>2 DEF SyncTypeOK, Tags
<1>10. LateKnown'
  <2> SUFFICES ASSUME NEW l \in late PROVE unit'[l.unit] # None /\ l.version <= unit'[l.unit].version
    BY <1>1 DEF LateKnown
  <2>1. l.unit \in Unit /\ l.version \in Nat /\ unit[l.unit] # None /\ l.version <= unit[l.unit].version
    BY <1>1, SyncAssumption DEF SyncInv, LateKnown, SyncTypeOK, Late
  <2> QED
    BY <1>3, <2>1
<1>11. OneHolder' /\ LateUnsaid'
  BY <1>1, <1>5 DEF SyncInv, OneHolder, LateUnsaid
<1>12. HoldersLead'
  BY <1>1, <1>5 DEF SyncInv, HoldersLead
<1>13. HoldersCurrent'
  BY <1>1, <1>5, <1>6 DEF SyncInv, HoldersCurrent
<1>14. QuietUnitsAreCurrent'
  BY <1>1, <1>5, <1>6 DEF SyncInv, QuietUnitsAreCurrent
<1> QED
  BY <1>1, <1>7, <1>8, <1>9, <1>10, <1>11, <1>12, <1>13, <1>14 DEF SyncInv

\* The requests stay within their bound.
LEMMA BeginningBound ==
    ASSUME begun \in 0..MaxBegun, Beginning
    PROVE  begun' \in 0..MaxBegun
  BY SyncAssumption DEF Beginning

\* A new row is a row.
LEMMA NewRowFacts ==
    ASSUME NEW code \in Code
    PROVE  NewRow(code) \in Row /\ NewRow(code).links = {} /\ NewRow(code).code = code /\ NewRow(code) # None
<1>1. NewRow(code) \in Row /\ NewRow(code).links = {} /\ NewRow(code).code = code
  BY SyncAssumption DEF Row, NewRow
<1>2. None \notin Row
  BY SyncAssumption DEF Row
<1> QED
  BY <1>1, <1>2

\* The next version of a row is a row.
LEMMA NextRowFacts ==
    ASSUME NEW row \in Row, row.version < MaxVersion, NEW links \in SUBSET Host, NEW code \in Code,
           NEW equipments \in SUBSET Equipment
    PROVE  /\ NextRow(row, links, code, equipments) \in Row
           /\ NextRow(row, links, code, equipments).links = links
           /\ NextRow(row, links, code, equipments).code = code
           /\ row.version <= NextRow(row, links, code, equipments).version
           /\ NextRow(row, links, code, equipments) # None
<1>1. row.version \in Nat /\ row.version + 1 \in 0..MaxVersion
  BY SyncAssumption DEF Row
<1>2. /\ NextRow(row, links, code, equipments) \in Row
      /\ NextRow(row, links, code, equipments).links = links
      /\ NextRow(row, links, code, equipments).code = code
      /\ NextRow(row, links, code, equipments).version = row.version + 1
  BY <1>1 DEF Row, NextRow
<1>3. None \notin Row
  BY SyncAssumption DEF Row
<1> QED
  BY <1>1, <1>2, <1>3

\* What an edit leaves of the rows: their links and their codes, unless it is of them.
RowsGrow ==
    /\ unit' \in [Unit -> Row \cup {None}]
    /\ \A w \in Unit : unit[w] # None =>
           /\ unit'[w] # None /\ unit[w].version <= unit'[w].version
           /\ unit'[w].links = unit[w].links /\ unit'[w].code = unit[w].code
    /\ \A w \in Unit : unit[w] = None => unit'[w] = None

\* The row of an equipment is written: only the units it leaves and enters change.
LEMMA PlacedFacts ==
    ASSUME SyncTypeOK, NEW e \in Equipment, NEW v \in Unit, Editable(v), unit' = Placed(e, v)
    PROVE  /\ RowsGrow
           /\ \A w \in Unit : unit'[w] = unit[w] \/ w = v \/ w \in Holders(e)
<1> DEFINE entered == NextRow(unit[v], unit[v].links, unit[v].code, unit[v].equipments \cup {e})
           left(w) == [links |-> unit[w].links, code |-> unit[w].code, version |-> unit[w].version,
                       equipments |-> unit[w].equipments \ {e}]
<1>1. /\ unit[v] \in Row /\ unit[v].version < MaxVersion
      /\ unit[v].links \in SUBSET Host /\ unit[v].code \in Code
      /\ unit[v].equipments \cup {e} \in SUBSET Equipment
  BY DEF SyncTypeOK, Editable, Exists, Row
<1>2. /\ entered \in Row /\ entered.links = unit[v].links /\ entered.code = unit[v].code
      /\ unit[v].version <= entered.version /\ entered # None
  BY <1>1, NextRowFacts
<1>3. None \notin Row
  BY SyncAssumption DEF Row
<1>4. \A w \in Unit : unit[w] # None =>
          /\ left(w) \in Row /\ left(w) # None
          /\ left(w).links = unit[w].links /\ left(w).code = unit[w].code
          /\ unit[w].version <= left(w).version
  <2> SUFFICES ASSUME NEW w \in Unit, unit[w] # None
               PROVE  /\ left(w) \in Row /\ left(w) # None
                      /\ left(w).links = unit[w].links /\ left(w).code = unit[w].code
                      /\ unit[w].version <= left(w).version
    OBVIOUS
  <2>1. unit[w] \in Row
    BY DEF SyncTypeOK
  <2>2. unit[w].version \in Nat
    BY <2>1, SyncAssumption DEF Row
  <2>3. left(w) \in Row /\ left(w).version = unit[w].version
    BY <2>1 DEF Row
  <2> QED
    BY <1>3, <2>2, <2>3
<1> HIDE DEF entered, left
<1>5. \A w \in Unit : unit'[w] = IF w = v THEN entered ELSE IF w \in Holders(e) THEN left(w) ELSE unit[w]
  BY DEF Placed, entered, left
<1>6. \A w \in Holders(e) : unit[w] # None
  BY DEF Holders, Exists
<1>7. unit' \in [Unit -> Row \cup {None}]
  <2>1. unit' = [w \in Unit |-> IF w = v THEN entered ELSE IF w \in Holders(e) THEN left(w) ELSE unit[w]]
    BY DEF Placed, entered, left
  <2> QED
    BY <1>2, <1>4, <1>6, <2>1 DEF SyncTypeOK
<1>8. \A w \in Unit : unit[w] # None => unit[w].version <= unit[w].version
  BY SyncAssumption DEF SyncTypeOK, Row
<1>9. unit[v] # None
  BY DEF Editable, Exists
<1> QED
  BY <1>2, <1>4, <1>5, <1>6, <1>7, <1>8, <1>9 DEF RowsGrow

\* Edits of that kind keep rows and requests in order.
LEMMA GrownRows ==
    ASSUME SyncInv, RowsGrow, linked' = linked, had' = had
    PROVE  RowsBound' /\ \A m \in Editor : edit[m] # None => unit'[edit[m].unit] # None
<1>1. \A m \in Editor : edit[m] # None => edit[m].unit \in Unit
  BY DEF SyncInv, SyncTypeOK, Edit
<1> QED
  BY <1>1 DEF RowsGrow, SyncInv, RowsBound, EditsKnown

\* A unit that is created, by a request or by the CSV import.
LEMMA NewUnit ==
    ASSUME SyncInv, NEW u \in Unit, NEW code \in Code, unit[u] = None, unit' = [unit EXCEPT ![u] = NewRow(code)],
           had' = had \cup {<<u, code>>}, linked' = linked, edit' = edit
    PROVE  /\ unit' \in [Unit -> Row \cup {None}] /\ unit'[u] # None
           /\ \A v \in Unit \ {u} : unit'[v] = unit[v]
           /\ had' \subseteq Unit \X Code /\ had \subseteq had'
           /\ RowsBound' /\ EditsKnown'
<1> DEFINE new == NewRow(code)
<1>1. new \in Row /\ new.links = {} /\ new.code = code /\ new # None /\ SyncTypeOK
  BY NewRowFacts DEF SyncInv
<1> HIDE DEF new
<1>2. /\ unit' \in [Unit -> Row \cup {None}] /\ unit'[u] = new
      /\ \A v \in Unit \ {u} : unit'[v] = unit[v]
  BY <1>1 DEF SyncTypeOK, new
<1>3. had' \subseteq Unit \X Code /\ had \subseteq had' /\ <<u, code>> \in had'
  BY <1>1 DEF SyncTypeOK
<1>4. RowsBound'
  BY <1>1, <1>2, <1>3 DEF SyncInv, RowsBound
<1>5. EditsKnown'
  BY <1>1, <1>2 DEF SyncInv, EditsKnown, SyncTypeOK, Edit
<1> QED
  BY <1>1, <1>2, <1>3, <1>4, <1>5

\* A unit that is created queues its synchronisation.
LEMMA CreateUnitQueues ==
    ASSUME SyncInv, NEW u \in Unit, NEW j \in Job, NEW code \in Code, CreateUnit(u, j, code)
    PROVE  Queued
<1>1. /\ unit[u] = None /\ Free(j) /\ job' = [job EXCEPT ![j] = Start(u)]
      /\ unit' = [unit EXCEPT ![u] = NewRow(code)] /\ had' = had \cup {<<u, code>>}
      /\ UNCHANGED <<edit, host, late, linked, crossed, last, unheard>>
      /\ SyncTypeOK /\ begun' \in 0..MaxBegun
  BY BeginningBound DEF CreateUnit, Exists, SyncInv, SyncTypeOK
<1>2. /\ unit' \in [Unit -> Row \cup {None}] /\ unit'[u] # None
      /\ \A v \in Unit \ {u} : unit'[v] = unit[v]
      /\ had' \subseteq Unit \X Code /\ had \subseteq had'
      /\ RowsBound' /\ EditsKnown'
  BY <1>1, NewUnit
<1>3. /\ job' \in [Job -> Busy \cup {Idle}] /\ job'[j] = Start(u)
      /\ \A i \in Job \ {j} : job'[i] = job[i]
  BY <1>1, StartFacts DEF SyncTypeOK
<1>4. SyncTypeOK'
  BY <1>1, <1>2, <1>3 DEF SyncTypeOK
<1> QED
  BY <1>1, <1>2, <1>3, <1>4 DEF Queued

\* A unit that is updated queues its synchronisation.
LEMMA UpdateUnitQueues ==
    ASSUME SyncInv, NEW u \in Unit, NEW j \in Job, NEW links \in SUBSET Host, NEW code \in Code,
           UpdateUnit(u, j, links, code)
    PROVE  Queued
<1> DEFINE new == NextRow(unit[u], links, code, unit[u].equipments)
<1>1. /\ unit[u] # None /\ unit[u].version < MaxVersion /\ Free(j) /\ job' = [job EXCEPT ![j] = Start(u)]
      /\ unit' = [unit EXCEPT ![u] = new]
      /\ linked' = linked \cup ({u} \X links) /\ had' = had \cup {<<u, code>>}
      /\ UNCHANGED <<edit, host, late, crossed, last, unheard>>
      /\ SyncTypeOK /\ RowsBound /\ begun' \in 0..MaxBegun
  BY BeginningBound DEF UpdateUnit, Editable, Exists, SyncInv, SyncTypeOK
<1>2. unit[u] \in Row /\ unit[u].equipments \in SUBSET Equipment
  BY <1>1 DEF SyncTypeOK, Row
<1>3. new \in Row /\ new.links = links /\ new.code = code /\ new # None /\ unit[u].version <= new.version
  BY <1>1, <1>2, NextRowFacts
<1> HIDE DEF new
<1>4. /\ unit' \in [Unit -> Row \cup {None}] /\ unit'[u] = new
      /\ \A v \in Unit \ {u} : unit'[v] = unit[v]
  BY <1>1, <1>3 DEF SyncTypeOK
<1>5. /\ job' \in [Job -> Busy \cup {Idle}] /\ job'[j] = Start(u)
      /\ \A i \in Job \ {j} : job'[i] = job[i]
  BY <1>1, StartFacts DEF SyncTypeOK
<1>6. /\ linked' \subseteq Unit \X Host /\ linked \subseteq linked'
      /\ had' \subseteq Unit \X Code /\ had \subseteq had' /\ <<u, code>> \in had'
      /\ \A h \in links : <<u, h>> \in linked'
  BY <1>1 DEF SyncTypeOK
<1>7. SyncTypeOK'
  BY <1>1, <1>4, <1>5, <1>6 DEF SyncTypeOK
<1>8. RowsBound'
  BY <1>1, <1>3, <1>4, <1>6 DEF RowsBound
<1>9. EditsKnown'
  BY <1>1, <1>3, <1>4 DEF SyncInv, EditsKnown, SyncTypeOK, Edit
<1> QED
  BY <1>1, <1>3, <1>4, <1>5, <1>6, <1>7, <1>8, <1>9 DEF Queued

\* An equipment that is created queues a synchronisation of its unit.
LEMMA CreateEquipmentQueues ==
    ASSUME SyncInv, NEW e \in Equipment, NEW u \in Unit, NEW j \in Job, CreateEquipment(e, u, j)
    PROVE  Queued
<1>1. /\ Holders(e) = {} /\ Editable(u) /\ Free(j) /\ unit' = Placed(e, u)
      /\ job' = [job EXCEPT ![j] = Start(u)]
      /\ UNCHANGED <<edit, host, late, linked, had, crossed, last, unheard>>
      /\ SyncTypeOK /\ begun' \in 0..MaxBegun
  BY BeginningBound DEF CreateEquipment, SyncInv, SyncTypeOK
<1>2. RowsGrow /\ \A w \in Unit : unit'[w] = unit[w] \/ w = u
  BY <1>1, PlacedFacts
<1>3. /\ job' \in [Job -> Busy \cup {Idle}] /\ job'[j] = Start(u)
      /\ \A i \in Job \ {j} : job'[i] = job[i]
  BY <1>1, StartFacts DEF SyncTypeOK
<1>4. RowsBound' /\ EditsKnown'
  BY <1>1, <1>2, GrownRows DEF EditsKnown
<1>5. SyncTypeOK'
  BY <1>1, <1>2, <1>3 DEF SyncTypeOK, RowsGrow
<1>6. unit[u] # None
  BY <1>1 DEF Editable, Exists
<1> QED
  BY <1>1, <1>2, <1>3, <1>4, <1>5, <1>6 DEF Queued, RowsGrow

\* An equipment that is updated queues a synchronisation of the unit where it was found and of the one
\* where it is now; a third one that it leaves is unheard.
LEMMA UpdateEquipmentQueues ==
    ASSUME SyncInv, NEW m \in Editor, NEW v \in Unit, NEW i \in Job, NEW j \in Job, UpdateEquipment(m, v, i, j)
    PROVE  Queued
<1> DEFINE e == edit[m].equipment
           old == edit[m].unit
<1>1. /\ edit[m] # None /\ Free(i) /\ Free(j) /\ (i = j <=> old = v) /\ Editable(v)
      /\ unit' = Placed(e, v) /\ unheard' = unheard \cup (Holders(e) \ {old, v})
      /\ edit' = [edit EXCEPT ![m] = None]
      /\ job' = [job EXCEPT ![i] = Start(old), ![j] = Start(v)]
      /\ UNCHANGED <<host, late, linked, had, crossed, last>>
      /\ SyncTypeOK /\ begun' \in 0..MaxBegun
  BY BeginningBound DEF UpdateEquipment, SyncInv, SyncTypeOK
<1>2. e \in Equipment /\ old \in Unit /\ unit[old] # None /\ unit[v] # None
  BY <1>1 DEF SyncTypeOK, Edit, SyncInv, EditsKnown, Editable, Exists
<1>3. RowsGrow /\ \A w \in Unit : unit'[w] = unit[w] \/ w = v \/ w \in Holders(e)
  BY <1>1, <1>2, PlacedFacts
<1>4. /\ job' \in [Job -> Busy \cup {Idle}] /\ job'[i] = Start(old) /\ job'[j] = Start(v)
      /\ \A k \in Job \ {i, j} : job'[k] = job[k]
  BY <1>1, <1>2, StartFacts DEF SyncTypeOK
<1>5. /\ edit' \in [Editor -> Edit \cup {None}]
      /\ \A n \in Editor : edit'[n] # None => edit'[n] = edit[n]
  BY <1>1 DEF SyncTypeOK
<1>6. RowsBound' /\ EditsKnown'
  BY <1>1, <1>3, <1>5, GrownRows DEF EditsKnown
<1>7. unheard' \subseteq Unit
  BY <1>1 DEF SyncTypeOK, Holders
<1>8. SyncTypeOK'
  BY <1>1, <1>3, <1>4, <1>5, <1>7 DEF SyncTypeOK, RowsGrow
<1>9. unit'[old] # None /\ unit'[v] # None
  BY <1>2, <1>3 DEF RowsGrow
<1> HIDE DEF e, old
<1>10. \A k \in Job : job'[k] = job[k] \/ (Free(k) /\ \E u \in Unit : unit'[u] # None /\ job'[k] = Start(u))
  BY <1>1, <1>2, <1>4, <1>9
<1>11. \A w \in Unit : unit'[w] # unit[w] => w \in unheard' \/ \E k \in Job : Free(k) /\ job'[k] = Start(w)
  BY <1>1, <1>2, <1>3, <1>4
<1> QED
  BY <1>1, <1>3, <1>6, <1>8, <1>10, <1>11 DEF Queued, RowsGrow

\* A request that finds its equipment changes nothing but what it knows.
LEMMA FindEquipmentQueues ==
    ASSUME SyncInv, NEW m \in Editor, NEW e \in Equipment, FindEquipment(m, e)
    PROVE  Queued
<1>1. PICK u \in Holders(e) : edit' = [edit EXCEPT ![m] = [equipment |-> e, unit |-> u]]
  BY DEF FindEquipment
<1>2. /\ UNCHANGED <<unit, host, job, late, linked, had, crossed, last, unheard, begun>>
      /\ SyncTypeOK /\ RowsBound
      /\ u \in Unit /\ unit[u] # None
  BY <1>1 DEF FindEquipment, SyncInv, Holders, Exists
<1>3. /\ edit' \in [Editor -> Edit \cup {None}]
      /\ \A n \in Editor : edit'[n] = edit[n] \/ edit'[n].unit = u
  BY <1>1, <1>2 DEF SyncTypeOK, Edit
<1>4. SyncTypeOK'
  BY <1>2, <1>3 DEF SyncTypeOK
<1>5. RowsBound'
  BY <1>2 DEF RowsBound
<1>6. EditsKnown'
  BY <1>2, <1>3 DEF SyncInv, EditsKnown
<1> QED
  BY <1>2, <1>4, <1>5, <1>6 DEF Queued

\* A synchronisation on request queues itself.
LEMMA SyncUnitQueues ==
    ASSUME SyncInv, NEW u \in Unit, NEW j \in Job, SyncUnit(u, j)
    PROVE  Queued
<1>1. /\ unit[u] # None /\ Free(j) /\ job' = [job EXCEPT ![j] = Start(u)]
      /\ UNCHANGED <<unit, edit, host, late, linked, had, crossed, last, unheard>>
      /\ SyncTypeOK /\ RowsBound /\ EditsKnown /\ begun' \in 0..MaxBegun
  BY BeginningBound DEF SyncUnit, Exists, SyncInv, SyncTypeOK
<1>2. /\ job' \in [Job -> Busy \cup {Idle}] /\ job'[j] = Start(u)
      /\ \A i \in Job \ {j} : job'[i] = job[i]
  BY <1>1, StartFacts DEF SyncTypeOK
<1>3. SyncTypeOK'
  BY <1>1, <1>2 DEF SyncTypeOK
<1>4. RowsBound' /\ EditsKnown'
  BY <1>1 DEF RowsBound, EditsKnown
<1> QED
  BY <1>1, <1>2, <1>3, <1>4 DEF Queued

\* A unit of the CSV import queues nothing and is unheard.
LEMMA ImportUnitQueues ==
    ASSUME SyncInv, NEW u \in Unit, NEW code \in Code, ImportUnit(u, code)
    PROVE  Queued
<1>1. /\ unit[u] = None /\ unit' = [unit EXCEPT ![u] = NewRow(code)]
      /\ had' = had \cup {<<u, code>>} /\ unheard' = unheard \cup {u}
      /\ UNCHANGED <<edit, host, job, late, linked, crossed, last, begun>>
      /\ SyncTypeOK
  BY DEF ImportUnit, Exists, SyncInv
<1>2. /\ unit' \in [Unit -> Row \cup {None}] /\ unit'[u] # None
      /\ \A v \in Unit \ {u} : unit'[v] = unit[v]
      /\ had' \subseteq Unit \X Code /\ had \subseteq had'
      /\ RowsBound' /\ EditsKnown'
  BY <1>1, NewUnit
<1>3. SyncTypeOK'
  BY <1>1, <1>2 DEF SyncTypeOK
<1> QED
  BY <1>1, <1>2, <1>3 DEF Queued

\* An edit that starts no synchronisation makes its units unheard.
LEMMA EditUnheardQueues ==
    ASSUME SyncInv, NEW units \in SUBSET Unit, EditUnheard(units)
    PROVE  Queued
<1>1. /\ \A w \in units : unit[w] # None /\ unit[w].version < MaxVersion
      /\ unit' = [w \in Unit |-> IF w \in units THEN Edited(unit[w]) ELSE unit[w]]
      /\ unheard' = unheard \cup units
      /\ UNCHANGED <<edit, host, job, late, linked, had, crossed, last, begun>>
      /\ SyncTypeOK
  BY DEF EditUnheard, Editable, Exists, SyncInv
<1>2. \A w \in units : /\ Edited(unit[w]) \in Row /\ Edited(unit[w]) # None
                       /\ Edited(unit[w]).links = unit[w].links /\ Edited(unit[w]).code = unit[w].code
                       /\ unit[w].version <= Edited(unit[w]).version
  <2> SUFFICES ASSUME NEW w \in units
               PROVE  /\ Edited(unit[w]) \in Row /\ Edited(unit[w]) # None
                      /\ Edited(unit[w]).links = unit[w].links /\ Edited(unit[w]).code = unit[w].code
                      /\ unit[w].version <= Edited(unit[w]).version
    OBVIOUS
  <2>1. /\ unit[w] \in Row /\ unit[w].links \in SUBSET Host /\ unit[w].code \in Code
        /\ unit[w].equipments \in SUBSET Equipment
    BY <1>1 DEF SyncTypeOK, Row
  <2> QED
    BY <1>1, <2>1, NextRowFacts DEF Edited
<1>3. \A w \in Unit : unit[w] # None => unit[w].version <= unit[w].version
  BY <1>1, SyncAssumption DEF SyncTypeOK, Row
<1>4. /\ unit' \in [Unit -> Row \cup {None}]
      /\ \A w \in units : unit'[w] = Edited(unit[w])
      /\ \A w \in Unit \ units : unit'[w] = unit[w]
  BY <1>1, <1>2 DEF SyncTypeOK
<1>5. RowsGrow
  BY <1>1, <1>2, <1>3, <1>4 DEF RowsGrow
<1>6. RowsBound' /\ EditsKnown'
  BY <1>1, <1>5, GrownRows DEF EditsKnown
<1>7. SyncTypeOK'
  BY <1>1, <1>4 DEF SyncTypeOK
<1> QED
  BY <1>1, <1>4, <1>5, <1>6, <1>7 DEF Queued, RowsGrow

\* An equipment of the CSV import makes the units it leaves and enters unheard.
LEMMA ImportEquipmentQueues ==
    ASSUME SyncInv, NEW e \in Equipment, NEW v \in Unit, ImportEquipment(e, v)
    PROVE  Queued
<1>1. /\ Editable(v) /\ unit' = Placed(e, v) /\ unheard' = unheard \cup Holders(e) \cup {v}
      /\ UNCHANGED <<edit, host, job, late, linked, had, crossed, last, begun>>
      /\ SyncTypeOK
  BY DEF ImportEquipment, SyncInv
<1>2. RowsGrow /\ \A w \in Unit : unit'[w] = unit[w] \/ w = v \/ w \in Holders(e)
  BY <1>1, PlacedFacts
<1>3. RowsBound' /\ EditsKnown'
  BY <1>1, <1>2, GrownRows DEF EditsKnown
<1>4. unheard' \subseteq Unit
  BY <1>1 DEF SyncTypeOK, Holders
<1>5. SyncTypeOK'
  BY <1>1, <1>2, <1>4 DEF SyncTypeOK, RowsGrow
<1> QED
  BY <1>1, <1>2, <1>3, <1>5 DEF Queued, RowsGrow

\* Whatever starts a synchronisation keeps what is known of hosts.
LEMMA BeginStep ==
    ASSUME SyncInv, NEW j \in Job, Begin(j)
    PROVE  SyncInv'
<1>1. CASE SyncReadyUnits(j)
  BY <1>1, SyncReadyUnitsStep
<1>2. CASE ~SyncReadyUnits(j)
  <2>1. PICK u \in Unit :
            \/ \E code \in Code : CreateUnit(u, j, code)
            \/ \E links \in SUBSET Host, code \in Code : UpdateUnit(u, j, links, code)
            \/ \E e \in Equipment : CreateEquipment(e, u, j)
            \/ \E m \in Editor, i \in Job : UpdateEquipment(m, u, i, j)
            \/ SyncUnit(u, j)
    BY <1>2 DEF Begin
  <2>2. Queued
    BY <2>1, CreateUnitQueues, UpdateUnitQueues, SyncUnitQueues, CreateEquipmentQueues, UpdateEquipmentQueues
  <2> QED
    BY <2>2, QueuedStep
<1> QED
  BY <1>1, <1>2

\* A step that changes nothing keeps what is known of hosts.
LEMMA SyncStutters ==
    ASSUME SyncInv, UNCHANGED syncVars
    PROVE  SyncInv'
<1>1. /\ unit' = unit /\ edit' = edit /\ host' = host /\ job' = job /\ late' = late
      /\ linked' = linked /\ had' = had
      /\ crossed' = crossed /\ last' = last /\ unheard' = unheard /\ begun' = begun
  BY DEF syncVars
<1>2. \A j \in Job, u \in Unit :
          /\ Holds(j, u)' <=> Holds(j, u)
          /\ Pending(j, u)' <=> Pending(j, u)
          /\ Concerns(j, u)' <=> Concerns(j, u)
  BY <1>1, OthersStay
<1>3. SyncTypeOK' /\ JobsOK'
  BY <1>1, JobsStay DEF SyncInv, SyncTypeOK, JobsOK
<1>4. /\ RowsBound' /\ HostsBound' /\ CodesKnown' /\ LateBound' /\ EditsKnown' /\ HostsKnown' /\ LateKnown'
      /\ LateUnsaid'
  BY <1>1, BoundStays DEF SyncInv, LateUnsaid
<1>5. OneHolder' /\ HoldersLead' /\ HoldersCurrent' /\ QuietUnitsAreCurrent'
  BY <1>1, <1>2 DEF SyncInv, OneHolder, HoldersLead, HoldersCurrent, QuietUnitsAreCurrent
<1> QED
  BY <1>3, <1>4, <1>5 DEF SyncInv

-----------------------------------------------------------------------------
\* The invariant is inductive.
THEOREM SyncInvariant == SyncSpec => []SyncInv
<1>1. ASSUME SyncInv, [SyncNext]_syncVars
      PROVE  SyncInv'
  <2>1. ASSUME NEW j \in Job, Begin(j)
        PROVE  SyncInv'
    BY <1>1, <2>1, BeginStep
  <2>2. ASSUME NEW j \in Job, Step(j)
        PROVE  SyncInv'
    BY <1>1, <2>2, ReadUnitStep, NextUnitStep, AskSourceStep, UpdateHostStep, GiveUpStep DEF Step
  <2>3. ASSUME NEW l \in late, Arrive(l)
        PROVE  SyncInv'
    BY <1>1, <2>3, ArriveStep
  <2>4. CASE Crash
    BY <1>1, <2>4, SyncCrashStep
  <2>5. CASE UNCHANGED syncVars
    BY <1>1, <2>5, SyncStutters
  <2>6. ASSUME NEW u \in Unit, NEW code \in Code, ImportUnit(u, code)
        PROVE  SyncInv'
    BY <1>1, <2>6, ImportUnitQueues, QueuedStep
  <2>7. ASSUME NEW units \in SUBSET Unit, EditUnheard(units)
        PROVE  SyncInv'
    BY <1>1, <2>7, EditUnheardQueues, QueuedStep
  <2>8. ASSUME NEW m \in Editor, NEW e \in Equipment, FindEquipment(m, e)
        PROVE  SyncInv'
    BY <1>1, <2>8, FindEquipmentQueues, QueuedStep
  <2>9. ASSUME NEW e \in Equipment, NEW u \in Unit, ImportEquipment(e, u)
        PROVE  SyncInv'
    BY <1>1, <2>9, ImportEquipmentQueues, QueuedStep
  <2> QED
    BY <1>1, <2>1, <2>2, <2>3, <2>4, <2>5, <2>6, <2>7, <2>8, <2>9 DEF SyncNext
<1> QED
  BY <1>1, InitSync, PTL DEF SyncSpec

\* Rows, tags and synchronisations keep their types.
THEOREM SyncTypes == SyncSpec => []SyncTypeOK
  BY SyncInvariant, PTL DEF SyncInv

\* Only hosts that somebody bound to a unit, or to one it came to share a code with, and so on, ever
\* carry its tags.
THEOREM TagsNeedABinding == SyncSpec => []OnlyBoundHostsAreTagged
<1>1. SyncInv => OnlyBoundHostsAreTagged
  BY SyncAssumption DEF SyncInv, HostsBound, Mine, OnlyBoundHostsAreTagged
<1> QED
  BY <1>1, SyncInvariant, PTL

\* A unit at rest is shown as it is, unless two of its synchronisations crossed or a change of it
\* started none that read it.
THEOREM RestIsCurrent == SyncSpec => []QuietUnitsAreCurrent
  BY SyncInvariant, PTL DEF SyncInv

\* A host never goes back to an older row of its unit, unless two of its synchronisations crossed.
THEOREM HostsOnlyAdvance == SyncSpec => HostsDoNotGoBack
<1>1. ASSUME SyncInv, [SyncNext]_syncVars, NEW h \in Host, host'[h].unit = host[h].unit,
             host[h].unit \notin crossed
      PROVE  host'[h].version >= host[h].version
  <2>0. host[h].version \in Nat
    BY <1>1, SyncAssumption DEF SyncInv, SyncTypeOK, Tags
  <2>1. CASE host'[h] = host[h]
    BY <2>0, <2>1
  <2>2. ASSUME NEW l \in late, Arrive(l), host'[h] # host[h]
        PROVE  host'[h].version >= host[h].version
    <3>1. l \in Late
      BY <1>1 DEF SyncInv, SyncTypeOK
    <3>2. host' = [host EXCEPT ![l.host] = TagsOf(l.unit, l)]
      BY <2>2 DEF Arrive
    <3>3. h = l.host /\ host'[h].unit = l.unit /\ host'[h].version = l.version
      BY <1>1, <2>2, <3>1, <3>2 DEF SyncInv, SyncTypeOK, TagsOf
    <3> QED
      BY <1>1, <3>1, <3>3 DEF SyncInv, HoldersLead, Late
  <2>3. ASSUME NEW j \in Job, UpdateHost(j), host'[h] # host[h]
        PROVE  host'[h].version >= host[h].version
    <3> DEFINE u == job[j].unit
    <3>1. Holds(j, u) /\ u \in Unit
      BY <1>1, <2>3, AtWork DEF UpdateHost, SyncInv, JobsOK, JobOK, Holds
    <3>2. PICK m \in job[j].found : host' = [host EXCEPT ![m.host] = TagsOf(u, job[j].rows[u])]
      BY <2>3 DEF UpdateHost
    <3>3. host'[h].unit = u /\ host'[h].version = job[j].rows[u].version
      BY <1>1, <2>3, <3>2 DEF SyncInv, SyncTypeOK, TagsOf
    <3> QED
      BY <1>1, <3>1, <3>3 DEF SyncInv, HoldersLead
  <2>4. ASSUME NEW j \in Job, Begin(j)
        PROVE  host' = host
    BY <2>4 DEF Begin, CreateUnit, UpdateUnit, CreateEquipment, UpdateEquipment, SyncUnit, SyncReadyUnits
  <2>5. ASSUME NEW j \in Job, Step(j)
        PROVE  host' = host \/ UpdateHost(j)
    BY <2>5 DEF Step, ReadUnit, NextUnit, AskSource, GiveUp
  <2>6. /\ Crash \/ UNCHANGED syncVars => host' = host
        /\ \A u \in Unit, code \in Code : ImportUnit(u, code) => host' = host
        /\ \A m \in Editor, e \in Equipment : FindEquipment(m, e) => host' = host
        /\ \A e \in Equipment, u \in Unit : ImportEquipment(e, u) => host' = host
        /\ \A units \in SUBSET Unit : EditUnheard(units) => host' = host
    BY DEF Crash, ImportUnit, FindEquipment, ImportEquipment, EditUnheard, syncVars
  <2>7. host'[h] = host[h] \/ (\E l \in late : Arrive(l)) \/ (\E j \in Job : UpdateHost(j))
    BY <1>1, <2>4, <2>5, <2>6 DEF SyncNext
  <2> QED
    BY <2>1, <2>2, <2>3, <2>7
<1>2. SyncInv /\ [SyncNext]_syncVars =>
          (\A h \in Host :
               host'[h].unit = host[h].unit /\ host[h].unit \notin crossed =>
                   host'[h].version >= host[h].version)
  BY <1>1
<1> QED
  BY <1>2, SyncInvariant, PTL DEF SyncSpec, HostsDoNotGoBack

=============================================================================
