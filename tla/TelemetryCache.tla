--------------------------- MODULE TelemetryCache ---------------------------
(***************************************************************************)
(* The cache in front of the telemetry of all units: one slot, which keeps  *)
(* the last reading whatever rows it was read for, and a table of readings  *)
(* under way, one for each key.  The key is made of some columns of the     *)
(* rows; a reading is also made of others, the names, which its request has *)
(* read.  A request reads the rows, and decides later; a stale slot is      *)
(* answered and refreshed behind the back of the request.                   *)
(***************************************************************************)
EXTENDS Naturals, FiniteSets

CONSTANTS
    Reader,       \* the requests that may be in progress at once
    Key,          \* what buildUnitHostTelemetryCacheKey may make of the rows
    MaxEdits,     \* bound: the edits of units, equipments and integrations
    MaxNews,      \* bound: the changes in Zabbix
    MaxFaults,    \* bound: the readings that fail and the restarts
    None

ASSUME CacheAssumption ==
    /\ MaxEdits \in Nat /\ MaxNews \in Nat /\ MaxFaults \in Nat
    /\ None \notin 0..MaxNews
    /\ None \notin [key : Key, names : 0..MaxEdits, value : 0..MaxNews, fresh : BOOLEAN]
                   \cup [floor : 0..MaxNews, value : 0..MaxNews]

VARIABLES
    rows,         \* the key that the rows make at present
    names,        \* how often the columns were edited that a reading uses and the key leaves out
    edits,        \* history: the edits of both kinds
    news,         \* how often Zabbix's state changed: what a reading brings
    slot,         \* unitHostTelemetryCache
    inflight,     \* unitHostTelemetryInflight: the keys of the readings under way that it knows
    reading,      \* the readings under way: for which rows, and what they have seen
    reader,       \* a request: what it has read, and whether it waits for a reading
    answer,       \* history: the answer to the last request, and the oldest news that would have done
    landed,       \* history: the newest news a reading for a key has brought
    faults        \* history: the readings that failed and the restarts

cacheVars == <<rows, names, edits, news, slot, inflight, reading, reader, answer, landed, faults>>

Names == 0..MaxEdits
News == 0..MaxNews
Slot == [key : Key, names : Names, value : News, fresh : BOOLEAN]
\* A reading has seen nothing, or Zabbix as it was at some time.
Reading == [key : Key, names : Names, seen : News \cup {None}]
Idle == [pc |-> "idle"]
\* floor is what had landed for the key when the request read the rows.
Active == [pc : {"decide", "wait"}, key : Key, names : Names, floor : News]
Answer == [floor : News, value : News]

CacheTypeOK ==
    /\ rows \in Key /\ names \in Names /\ edits \in 0..MaxEdits /\ names <= edits
    /\ news \in News /\ faults \in 0..MaxFaults
    /\ slot \in Slot \cup {None}
    /\ inflight \subseteq Key
    /\ reading \subseteq Reading
    /\ reader \in [Reader -> Active \cup {Idle}]
    /\ answer \in [Reader -> Answer \cup {None}]
    /\ landed \in [Key -> News]

CacheInit ==
    /\ rows \in Key /\ names = 0 /\ edits = 0 /\ news = 0 /\ faults = 0
    /\ slot = None /\ inflight = {} /\ reading = {}
    /\ reader = [r \in Reader |-> Idle]
    /\ answer = [r \in Reader |-> None]
    /\ landed = [k \in Key |-> 0]

-----------------------------------------------------------------------------
(* The world                                                               *)

Editing == edits < MaxEdits /\ edits' = edits + 1

\* An edit that the key shows, perhaps back to what the rows were.
EditRows ==
    /\ Editing /\ rows' \in Key \ {rows}
    /\ UNCHANGED <<names, news, slot, inflight, reading, reader, answer, landed, faults>>

\* An edit that it does not: the name, city, state or partner of a unit, the name or type of an equipment.
EditNames ==
    /\ Editing /\ names' = names + 1
    /\ UNCHANGED <<rows, news, slot, inflight, reading, reader, answer, landed, faults>>

ChangeHosts ==
    /\ news < MaxNews /\ news' = news + 1
    /\ UNCHANGED <<rows, names, edits, slot, inflight, reading, reader, answer, landed, faults>>

\* The time to live of the slot is over.
Expire ==
    /\ slot # None /\ slot.fresh
    /\ slot' = [slot EXCEPT !.fresh = FALSE]
    /\ UNCHANGED <<rows, names, edits, news, inflight, reading, reader, answer, landed, faults>>

-----------------------------------------------------------------------------
(* getUnitHostTelemetry                                                    *)

\* The transaction that reads the units and the integrations.
ReadRows(r) ==
    /\ reader[r] = Idle
    /\ reader' = [reader EXCEPT ![r] = [pc |-> "decide", key |-> rows, names |-> names, floor |-> landed[rows]]]
    /\ answer' = [answer EXCEPT ![r] = None]
    /\ UNCHANGED <<rows, names, edits, news, slot, inflight, reading, landed, faults>>

Begun(r) == [key |-> reader[r].key, names |-> reader[r].names, seen |-> None]

\* (mutant) The table is not asked.
RefreshAlways(r) ==
    /\ inflight' = inflight \cup {reader[r].key}
    /\ reading' = reading \cup {Begun(r)}

\* refreshUnitHostTelemetryCache: joins the reading of the key that is under way, though it may be of
\* other names, or starts one.
Refresh(r) ==
    IF reader[r].key \in inflight THEN UNCHANGED <<inflight, reading>>
    ELSE /\ inflight' = inflight \cup {reader[r].key}
         /\ reading' = reading \cup {Begun(r)}

AnswerWith(r, value) ==
    /\ answer' = [answer EXCEPT ![r] = [floor |-> reader[r].floor, value |-> value]]
    /\ reader' = [reader EXCEPT ![r] = Idle]

\* (mutant) The slot is taken for everybody's.
HitAny(k) == slot # None

Hit(k) == slot # None /\ slot.key = k

\* The slot has the key: it is the answer, and a reading starts unless it is fresh.
AnswerFromSlot(r) ==
    /\ reader[r].pc = "decide" /\ Hit(reader[r].key)
    /\ AnswerWith(r, slot.value)
    /\ IF slot.fresh THEN UNCHANGED <<inflight, reading>> ELSE Refresh(r)
    /\ UNCHANGED <<rows, names, edits, news, slot, landed, faults>>

\* It has not: the reading is joined or started, and a fast request answers "pending" at once.
AwaitReading(r) ==
    /\ reader[r].pc = "decide" /\ ~Hit(reader[r].key)
    /\ Refresh(r)
    /\ reader' \in {[reader EXCEPT ![r] = Idle], [reader EXCEPT ![r].pc = "wait"]}
    /\ UNCHANGED <<rows, names, edits, news, slot, answer, landed, faults>>

-----------------------------------------------------------------------------
(* A reading                                                               *)

See(x) ==
    /\ x \in reading /\ x.seen = None
    /\ reading' = (reading \ {x}) \cup {[key |-> x.key, names |-> x.names, seen |-> news]}
    /\ UNCHANGED <<rows, names, edits, news, slot, inflight, reader, answer, landed, faults>>

\* Those who wait get the reading.
Served(k) == {r \in Reader : reader[r].pc = "wait" /\ reader[r].key = k}

\* It fills the slot, is forgotten and is the answer of those who wait.
Land(x) ==
    /\ x \in reading /\ x.seen # None
    /\ slot' = [key |-> x.key, names |-> x.names, value |-> x.seen, fresh |-> TRUE]
    /\ landed' = [landed EXCEPT ![x.key] = x.seen]
    /\ reading' = reading \ {x}
    /\ inflight' = inflight \ {x.key}
    /\ reader' = [r \in Reader |-> IF r \in Served(x.key) THEN Idle ELSE reader[r]]
    /\ answer' = [r \in Reader |-> IF r \in Served(x.key) THEN [floor |-> reader[r].floor, value |-> x.seen]
                                   ELSE answer[r]]
    /\ UNCHANGED <<rows, names, edits, news, faults>>

\* (mutant) A reading that fails stays in the table.
FailAndStay(x) ==
    /\ x \in reading /\ faults < MaxFaults
    /\ faults' = faults + 1
    /\ reading' = reading \ {x}
    /\ reader' = [r \in Reader |-> IF r \in Served(x.key) THEN Idle ELSE reader[r]]
    /\ UNCHANGED <<rows, names, edits, news, slot, inflight, answer, landed>>

\* It fails: those who wait get the error, the others never hear of it.
Fail(x) ==
    /\ x \in reading /\ faults < MaxFaults
    /\ faults' = faults + 1
    /\ reading' = reading \ {x}
    /\ inflight' = inflight \ {x.key}
    /\ reader' = [r \in Reader |-> IF r \in Served(x.key) THEN Idle ELSE reader[r]]
    /\ UNCHANGED <<rows, names, edits, news, slot, answer, landed>>

\* The process restarts.
Restart ==
    /\ faults < MaxFaults /\ faults' = faults + 1
    /\ slot' = None /\ inflight' = {} /\ reading' = {}
    /\ reader' = [r \in Reader |-> Idle]
    /\ UNCHANGED <<rows, names, edits, news, answer, landed>>

Decide(r) == AnswerFromSlot(r) \/ AwaitReading(r)

CacheNext ==
    \/ EditRows \/ EditNames \/ ChangeHosts \/ Expire \/ Restart
    \/ \E r \in Reader : ReadRows(r) \/ Decide(r)
    \/ \E x \in reading : See(x) \/ Land(x) \/ Fail(x)

\* The pages poll, every call to Zabbix has a timeout, and time passes.
CacheSpec ==
    /\ CacheInit /\ [][CacheNext]_cacheVars
    /\ \A r \in Reader : WF_cacheVars(ReadRows(r)) /\ WF_cacheVars(Decide(r))
    /\ \A x \in Reading : WF_cacheVars(See(x)) /\ WF_cacheVars(Land(x))
    /\ WF_cacheVars(Expire)

-----------------------------------------------------------------------------
\* A request is never answered with older telemetry than what had landed for its key when it read the
\* rows, whoever has filled the slot since, with whatever reading that began earlier.
AnswersKeepUp == \A r \in Reader : answer[r] # None => answer[r].value >= answer[r].floor

\* One reading at most is under way for the same key, and the table knows it.
OneReadingPerKey ==
    /\ \A x, y \in reading : x.key = y.key => x = y
    /\ inflight = {x.key : x \in reading}

\* The readings for the same key land in the order in which they saw Zabbix, whichever others land in
\* between: what the slot shows of them never goes back.
ReadingsLandInOrder == [][\A k \in Key : landed'[k] >= landed[k]]_cacheVars

\* When the edits and the failures are over, the slot has the present rows, with their names as they
\* are, and Zabbix's present state again and again, though the key does not show the names and readings
\* for older rows may still take the slot.
SlotComesBack == []<>(slot = [key |-> rows, names |-> names, value |-> news, fresh |-> TRUE])
=============================================================================
