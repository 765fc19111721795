----------------------- MODULE MonitoringCaches_proofs -----------------------
(***************************************************************************)
(* The two caches of the monitoring service.                               *)
(*                                                                         *)
(* For any requests, edits and restarts, nobody is answered with older     *)
(* telemetry than what had landed for his key, a key has one reading under *)
(* way, and what the readings of a key bring never goes back.  The         *)
(* invariant adds that a reading has seen nothing older than what landed   *)
(* before it, and nothing yet to come; and that the slot shows the last    *)
(* that landed for its key, whichever keys had it before.                  *)
(*                                                                         *)
(* For any reports, requests, size and time to live, the report cache is   *)
(* bounded and recent, and drops a live report only for others as good.    *)
(* The pruning is taken apart into the places that remain.                 *)
(***************************************************************************)
EXTENDS TelemetryCache, ReportCache, FiniteSetTheorems, SequenceTheorems, TLAPS

\* Nothing has landed that Zabbix had not shown, nor will anything older for the same key.
ReadingsAreNewer ==
    /\ \A k \in Key : landed[k] <= news
    /\ \A x \in reading : x.seen # None => landed[x.key] <= x.seen /\ x.seen <= news

\* The slot has the last reading that landed for its key.
SlotIsLast == slot # None => slot.value = landed[slot.key]

\* What had landed when a request read the rows has not been unlearnt.
FloorsHold == \A r \in Reader : reader[r] # Idle => reader[r].floor <= landed[reader[r].key]

CacheInv ==
    /\ CacheTypeOK
    /\ AnswersKeepUp
    /\ OneReadingPerKey
    /\ ReadingsAreNewer
    /\ SlotIsLast
    /\ FloorsHold

-----------------------------------------------------------------------------
(* The initial state                                                       *)

\* A cache that has read nothing is in order.
LEMMA InitCache == CacheInit => CacheInv
<1> SUFFICES ASSUME CacheInit PROVE CacheInv
  OBVIOUS
<1> USE CacheAssumption DEF CacheInit
<1>1. CacheTypeOK
  BY DEF CacheTypeOK, Names, News
<1>2. AnswersKeepUp /\ OneReadingPerKey
  BY DEF AnswersKeepUp, OneReadingPerKey
<1>3. ReadingsAreNewer /\ SlotIsLast /\ FloorsHold
  BY DEF ReadingsAreNewer, SlotIsLast, FloorsHold
<1> QED
  BY <1>1, <1>2, <1>3 DEF CacheInv

-----------------------------------------------------------------------------
(* What a step does to the readings                                        *)

\* A request that is going on has read a key and names, and what had landed.
LEMMA Reads ==
    ASSUME CacheInv, NEW r \in Reader, reader[r].pc \in {"decide", "wait"}
    PROVE  /\ reader[r] \in Active /\ reader[r] # Idle
           /\ reader[r].key \in Key /\ reader[r].names \in Names /\ reader[r].floor \in News
           /\ landed[reader[r].key] \in News /\ reader[r].floor <= landed[reader[r].key]
<1>1. reader[r] # Idle
  BY DEF Idle
<1>2. reader[r] \in Active
  BY <1>1 DEF CacheInv, CacheTypeOK
<1> QED
  BY <1>1, <1>2 DEF CacheInv, CacheTypeOK, FloorsHold, Active

\* A reading that is joined or started leaves one for its key, and a new one has seen nothing.
LEMMA RefreshKeeps ==
    ASSUME CacheInv, NEW r \in Reader, reader[r].pc = "decide", Refresh(r), UNCHANGED <<news, landed>>
    PROVE  /\ OneReadingPerKey' /\ ReadingsAreNewer'
           /\ inflight' \subseteq Key /\ reading' \subseteq Reading
<1>1. PICK k \in Key : k = reader[r].key
  BY Reads
<1>2. CASE k \in inflight
  BY <1>1, <1>2 DEF Refresh, CacheInv, CacheTypeOK, OneReadingPerKey, ReadingsAreNewer
<1>3. CASE k \notin inflight
  <2>1. PICK x : x = Begun(r)
    OBVIOUS
  <2>2. inflight' = inflight \cup {k} /\ reading' = reading \cup {x}
    BY <1>1, <1>3, <2>1 DEF Refresh
  <2>3. x \in Reading /\ x.key = k /\ x.seen = None
    BY <1>1, <2>1, Reads DEF Begun, Reading
  <2>4. \A y \in reading : y.key # k
    BY <1>3 DEF CacheInv, OneReadingPerKey
  <2>5. OneReadingPerKey'
    BY <2>2, <2>3, <2>4 DEF CacheInv, OneReadingPerKey
  <2>6. ReadingsAreNewer'
    BY <2>2, <2>3 DEF CacheInv, ReadingsAreNewer
  <2> QED
    BY <2>2, <2>3, <2>5, <2>6 DEF CacheInv, CacheTypeOK
<1> QED
  BY <1>2, <1>3

\* A reading that ends is gone from both tables.
LEMMA EndedReading ==
    ASSUME CacheInv, NEW x \in reading,
           reading' = reading \ {x}, inflight' = inflight \ {x.key}
    PROVE  OneReadingPerKey' /\ inflight' \subseteq Key /\ reading' \subseteq Reading
  BY DEF CacheInv, CacheTypeOK, OneReadingPerKey

\* Requests that are served what is as new as what has landed for the key they asked for keep up.
LEMMA ServedKeepUp ==
    ASSUME CacheInv, NEW k \in Key, NEW v \in News, landed[k] <= v,
           answer' = [r \in Reader |-> IF r \in Served(k) THEN [floor |-> reader[r].floor, value |-> v]
                                       ELSE answer[r]]
    PROVE  AnswersKeepUp' /\ answer' \in [Reader -> Answer \cup {None}]
<1>1. ASSUME NEW r \in Served(k)
      PROVE  reader[r].floor \in News /\ v >= reader[r].floor
  <2>1. r \in Reader /\ reader[r].pc = "wait" /\ reader[r].key = k
    BY DEF Served
  <2>2. reader[r].floor \in News /\ landed[k] \in News /\ reader[r].floor <= landed[k]
    BY <2>1, Reads
  <2> QED
    BY <2>2, CacheAssumption DEF News
<1>2. ASSUME NEW r \in Reader, r \in Served(k)
      PROVE  answer'[r] \in Answer /\ answer'[r].value >= answer'[r].floor
  BY <1>1, <1>2 DEF Answer
<1>3. ASSUME NEW r \in Reader, r \notin Served(k)
      PROVE  answer'[r] = answer[r]
  BY <1>3
<1> QED
  BY <1>2, <1>3 DEF CacheInv, CacheTypeOK, AnswersKeepUp

-----------------------------------------------------------------------------
(* Each step keeps the invariant                                           *)

\* An edit, a change in Zabbix or the end of the time to live keeps the cache in order.
LEMMA WorldStep ==
    ASSUME CacheInv, EditRows \/ EditNames \/ ChangeHosts \/ Expire
    PROVE  CacheInv'
<1> USE DEF AnswersKeepUp, OneReadingPerKey, SlotIsLast, FloorsHold
<1>1. CASE EditRows \/ EditNames
  <2>1. edits' \in 0..MaxEdits /\ names' \in Names /\ names' <= edits' /\ rows' \in Key
    BY <1>1, CacheAssumption DEF EditRows, EditNames, Editing, CacheInv, CacheTypeOK, Names
  <2> QED
    BY <1>1, <2>1 DEF EditRows, EditNames, CacheInv, CacheTypeOK, ReadingsAreNewer
<1>2. CASE ChangeHosts
  <2>1. news' \in News /\ \A k \in Key : landed[k] <= news'
    BY <1>2, CacheAssumption DEF ChangeHosts, CacheInv, CacheTypeOK, ReadingsAreNewer, News
  <2>2. ASSUME NEW x \in reading, x.seen # None
        PROVE  x.seen <= news'
    <3>1. x.seen \in 0..MaxNews /\ x.seen <= news /\ news \in 0..MaxNews /\ news' = news + 1
      BY <1>2, <2>2 DEF ChangeHosts, CacheInv, CacheTypeOK, ReadingsAreNewer, Reading, News
    <3> QED
      BY <3>1, CacheAssumption
  <2> QED
    BY <1>2, <2>1, <2>2 DEF ChangeHosts, CacheInv, CacheTypeOK, ReadingsAreNewer
<1>3. CASE Expire
  <2>1. slot \in Slot
    BY <1>3 DEF Expire, CacheInv, CacheTypeOK
  <2>2. slot' \in Slot /\ slot'.key = slot.key /\ slot'.value = slot.value
    BY <1>3, <2>1 DEF Expire, Slot
  <2> QED
    BY <1>3, <2>2 DEF Expire, CacheInv, CacheTypeOK, ReadingsAreNewer
<1> QED
  BY <1>1, <1>2, <1>3

\* A request that has made its key has for its floor what has landed for it.
LEMMA ReadRowsStep ==
    ASSUME CacheInv, NEW r \in Reader, ReadRows(r)
    PROVE  CacheInv'
<1>1. PICK a : a = [pc |-> "decide", key |-> rows, names |-> names, floor |-> landed[rows]]
  OBVIOUS
<1>2. /\ reader' = [reader EXCEPT ![r] = a] /\ answer' = [answer EXCEPT ![r] = None]
      /\ UNCHANGED <<rows, names, edits, news, slot, inflight, reading, landed, faults>>
  BY <1>1 DEF ReadRows
<1>3. a \in Active /\ a.floor = landed[rows] /\ a.key = rows
  BY <1>1 DEF CacheInv, CacheTypeOK, Active
<1>4. landed[rows] \in News
  BY DEF CacheInv, CacheTypeOK
<1>5. /\ reader' \in [Reader -> Active \cup {Idle}] /\ answer' \in [Reader -> Answer \cup {None}]
      /\ AnswersKeepUp'
  BY <1>2, <1>3 DEF CacheInv, CacheTypeOK, AnswersKeepUp
<1>6. FloorsHold'
  BY <1>2, <1>3, <1>4, CacheAssumption DEF CacheInv, CacheTypeOK, FloorsHold, News
<1> QED
  BY <1>2, <1>5, <1>6 DEF CacheInv, CacheTypeOK, OneReadingPerKey, ReadingsAreNewer, SlotIsLast

\* A request answered from the slot gets the last that landed for its key.
LEMMA AnswerFromSlotStep ==
    ASSUME CacheInv, NEW r \in Reader, AnswerFromSlot(r)
    PROVE  CacheInv'
<1>1. /\ reader[r].pc = "decide" /\ slot # None /\ slot.key = reader[r].key
      /\ reader' = [reader EXCEPT ![r] = Idle]
      /\ UNCHANGED <<rows, names, edits, news, slot, landed, faults>>
  BY DEF AnswerFromSlot, AnswerWith, Hit
<1>2. PICK a : a = [floor |-> reader[r].floor, value |-> slot.value]
  OBVIOUS
<1>3. answer' = [answer EXCEPT ![r] = a]
  BY <1>2 DEF AnswerFromSlot, AnswerWith
<1>4. a \in Answer /\ a.value >= a.floor
  <2>1. slot.value = landed[reader[r].key]
    BY <1>1 DEF CacheInv, SlotIsLast
  <2>2. reader[r].floor \in News /\ slot.value \in News /\ reader[r].floor <= slot.value
    BY <1>1, <2>1, Reads
  <2> QED
    BY <1>2, <2>2, CacheAssumption DEF Answer, News
<1>5. /\ OneReadingPerKey' /\ ReadingsAreNewer'
      /\ inflight' \subseteq Key /\ reading' \subseteq Reading
  <2>1. CASE slot.fresh
    BY <1>1, <2>1 DEF AnswerFromSlot, CacheInv, CacheTypeOK, OneReadingPerKey, ReadingsAreNewer
  <2>2. CASE ~slot.fresh
    <3>1. Refresh(r)
      BY <2>2 DEF AnswerFromSlot
    <3> QED
      BY <1>1, <3>1, RefreshKeeps
  <2> QED
    BY <2>1, <2>2
<1>6. AnswersKeepUp' /\ answer' \in [Reader -> Answer \cup {None}]
  BY <1>3, <1>4 DEF CacheInv, CacheTypeOK, AnswersKeepUp
<1>7. SlotIsLast' /\ FloorsHold'
  BY <1>1 DEF CacheInv, CacheTypeOK, SlotIsLast, FloorsHold
<1> QED
  BY <1>1, <1>5, <1>6, <1>7 DEF CacheInv, CacheTypeOK

\* A request that starts or joins a reading waits for one of its own key.
LEMMA AwaitReadingStep ==
    ASSUME CacheInv, NEW r \in Reader, AwaitReading(r)
    PROVE  CacheInv'
<1>1. /\ reader[r].pc = "decide" /\ Refresh(r)
      /\ UNCHANGED <<rows, names, edits, news, slot, answer, landed, faults>>
  BY DEF AwaitReading
<1>2. reader[r] \in Active /\ reader[r].floor <= landed[reader[r].key]
  BY <1>1, Reads
<1>3. PICK a : a = [reader[r] EXCEPT !.pc = "wait"]
  OBVIOUS
<1>4. a \in Active /\ a.key = reader[r].key /\ a.floor = reader[r].floor
  BY <1>2, <1>3 DEF Active
<1>5. reader' = [reader EXCEPT ![r] = Idle] \/ reader' = [reader EXCEPT ![r] = a]
  BY <1>3 DEF AwaitReading
<1>6. /\ OneReadingPerKey' /\ ReadingsAreNewer'
      /\ inflight' \subseteq Key /\ reading' \subseteq Reading
  BY <1>1, RefreshKeeps
<1>7. reader' \in [Reader -> Active \cup {Idle}] /\ FloorsHold'
  BY <1>1, <1>2, <1>4, <1>5 DEF CacheInv, CacheTypeOK, FloorsHold
<1> QED
  BY <1>1, <1>6, <1>7 DEF CacheInv, CacheTypeOK, AnswersKeepUp, SlotIsLast

\* A reading that sees Zabbix has seen nothing older than what has landed.
LEMMA SeeStep ==
    ASSUME CacheInv, NEW x \in reading, See(x)
    PROVE  CacheInv'
<1> DEFINE y == [key |-> x.key, names |-> x.names, seen |-> news]
<1>1. x \in Reading /\ news \in News
  BY DEF CacheInv, CacheTypeOK
<1>2. y \in Reading /\ y.key = x.key /\ y.seen = news /\ x.key \in Key
  BY <1>1 DEF Reading
<1>3. /\ reading' = (reading \ {x}) \cup {y}
      /\ UNCHANGED <<rows, names, edits, news, slot, inflight, reader, answer, landed, faults>>
  BY DEF See
<1> HIDE DEF y
<1>4. OneReadingPerKey'
  <2>1. \A z \in reading \ {x} : z.key # x.key
    BY DEF CacheInv, OneReadingPerKey
  <2>2. \A z, w \in reading' : z.key = w.key => z = w
    BY <1>2, <1>3, <2>1 DEF CacheInv, OneReadingPerKey
  <2>3. {z.key : z \in reading'} = {z.key : z \in reading}
    BY <1>2, <1>3
  <2> QED
    BY <1>3, <2>2, <2>3 DEF CacheInv, OneReadingPerKey
<1>5. ReadingsAreNewer'
  BY <1>1, <1>2, <1>3, CacheAssumption DEF CacheInv, ReadingsAreNewer, News
<1> QED
  BY <1>2, <1>3, <1>4, <1>5 DEF CacheInv, CacheTypeOK, AnswersKeepUp, SlotIsLast, FloorsHold

\* A reading that lands has seen nothing older than what landed for its key before.
LEMMA LandStep ==
    ASSUME CacheInv, NEW x \in reading, Land(x)
    PROVE  CacheInv' /\ \A k \in Key : landed'[k] >= landed[k]
<1>1. PICK k \in Key, v \in News :
          /\ k = x.key /\ v = x.seen
          /\ landed[k] <= v /\ v <= news
  BY DEF Land, CacheInv, CacheTypeOK, Reading, ReadingsAreNewer
<1>2. /\ landed' = [landed EXCEPT ![k] = v]
      /\ reading' = reading \ {x} /\ inflight' = inflight \ {x.key}
      /\ slot' = [key |-> k, names |-> x.names, value |-> v, fresh |-> TRUE]
      /\ reader' = [r \in Reader |-> IF r \in Served(k) THEN Idle ELSE reader[r]]
      /\ UNCHANGED <<rows, names, edits, news, faults>>
  BY <1>1 DEF Land
<1>3. slot' \in Slot /\ slot'.key = k /\ slot'.value = v
  <2>1. x.names \in Names
    BY DEF CacheInv, CacheTypeOK, Reading
  <2> QED
    BY <1>2, <2>1 DEF Slot
<1>4. landed' \in [Key -> News] /\ \A c \in Key : landed'[c] >= landed[c]
  BY <1>1, <1>2, CacheAssumption DEF CacheInv, CacheTypeOK, News
<1>5. AnswersKeepUp' /\ answer' \in [Reader -> Answer \cup {None}]
  BY <1>1, ServedKeepUp DEF Land
<1>6. OneReadingPerKey' /\ inflight' \subseteq Key /\ reading' \subseteq Reading
  BY <1>2, EndedReading
<1>7. ReadingsAreNewer'
  <2>1. \A c \in Key : landed'[c] <= news'
    BY <1>1, <1>2 DEF CacheInv, CacheTypeOK, ReadingsAreNewer
  <2>2. \A y \in reading' : y \in reading /\ y.key \in Key /\ y.key # k
    BY <1>1, <1>2 DEF CacheInv, CacheTypeOK, OneReadingPerKey, Reading
  <2>3. \A y \in reading' : landed'[y.key] = landed[y.key]
    BY <1>2, <2>2 DEF CacheInv, CacheTypeOK
  <2> QED
    BY <1>2, <2>1, <2>2, <2>3 DEF CacheInv, ReadingsAreNewer
<1>8. SlotIsLast'
  BY <1>2, <1>3 DEF CacheInv, CacheTypeOK, SlotIsLast
<1>9. reader' \in [Reader -> Active \cup {Idle}] /\ FloorsHold'
  <2>1. reader' \in [Reader -> Active \cup {Idle}]
    BY <1>2 DEF CacheInv, CacheTypeOK
  <2>2. ASSUME NEW r \in Reader, reader'[r] # Idle
        PROVE  reader'[r].floor <= landed'[reader'[r].key]
    <3>1. reader'[r] = reader[r] /\ reader[r] \in Active
      BY <1>2, <2>2 DEF CacheInv, CacheTypeOK
    <3>2. PICK c \in Key, f \in News : c = reader[r].key /\ f = reader[r].floor
      BY <3>1 DEF Active
    <3>3. f <= landed[c]
      BY <2>2, <3>1, <3>2 DEF CacheInv, FloorsHold
    <3>4. landed[c] \in News /\ landed'[c] \in News /\ landed'[c] >= landed[c]
      BY <1>4 DEF CacheInv, CacheTypeOK
    <3>5. f <= landed'[c]
      BY <3>3, <3>4, CacheAssumption DEF News
    <3> QED
      BY <3>1, <3>2, <3>5
  <2> QED
    BY <2>1, <2>2 DEF FloorsHold
<1> QED
  BY <1>2, <1>3, <1>4, <1>5, <1>6, <1>7, <1>8, <1>9 DEF CacheInv, CacheTypeOK

\* A reading that fails leaves the table of readings.
LEMMA FailStep ==
    ASSUME CacheInv, NEW x \in reading, Fail(x)
    PROVE  CacheInv'
<1>1. /\ reading' = reading \ {x} /\ inflight' = inflight \ {x.key}
      /\ UNCHANGED <<rows, names, edits, news, slot, answer, landed>>
  BY DEF Fail
<1>2. OneReadingPerKey' /\ inflight' \subseteq Key /\ reading' \subseteq Reading
  BY <1>1, EndedReading
<1>3. reader' \in [Reader -> Active \cup {Idle}] /\ FloorsHold'
  BY <1>1 DEF Fail, CacheInv, CacheTypeOK, FloorsHold
<1>4. faults' \in 0..MaxFaults
  BY CacheAssumption DEF Fail, CacheInv, CacheTypeOK
<1> QED
  BY <1>1, <1>2, <1>3, <1>4 DEF CacheInv, CacheTypeOK, AnswersKeepUp, ReadingsAreNewer, SlotIsLast

\* A restart empties the slot and the table, and forgets the requests.
LEMMA RestartStep ==
    ASSUME CacheInv, Restart
    PROVE  CacheInv'
<1>1. faults' \in 0..MaxFaults
  BY CacheAssumption DEF Restart, CacheInv, CacheTypeOK
<1> QED
  BY <1>1 DEF Restart, CacheInv, CacheTypeOK, AnswersKeepUp, OneReadingPerKey, ReadingsAreNewer, SlotIsLast,
              FloorsHold

-----------------------------------------------------------------------------
\* The invariant is inductive.
THEOREM CacheInvariant == CacheSpec => []CacheInv
<1>1. ASSUME CacheInv, [CacheNext]_cacheVars
      PROVE  CacheInv'
  <2>1. CASE EditRows \/ EditNames \/ ChangeHosts \/ Expire \/ Restart
    BY <1>1, <2>1, WorldStep, RestartStep
  <2>2. ASSUME NEW r \in Reader, ReadRows(r) \/ Decide(r)
        PROVE  CacheInv'
    BY <1>1, <2>2, ReadRowsStep, AnswerFromSlotStep, AwaitReadingStep DEF Decide
  <2>3. ASSUME NEW x \in reading, See(x) \/ Land(x) \/ Fail(x)
        PROVE  CacheInv'
    BY <1>1, <2>3, SeeStep, LandStep, FailStep
  <2>4. CASE UNCHANGED cacheVars
    BY <1>1, <2>4 DEF cacheVars, CacheInv, CacheTypeOK, AnswersKeepUp, OneReadingPerKey, ReadingsAreNewer,
                      SlotIsLast, FloorsHold
  <2> QED
    BY <1>1, <2>1, <2>2, <2>3, <2>4 DEF CacheNext
<1> QED
  BY <1>1, InitCache, PTL DEF CacheSpec

\* The slot, the readings and the requests keep their types.
THEOREM CacheTypes == CacheSpec => []CacheTypeOK
  BY CacheInvariant, PTL DEF CacheInv

\* Nobody is answered with older telemetry than what had landed for his key when he read the rows.
THEOREM NobodyFallsBehind == CacheSpec => []AnswersKeepUp
  BY CacheInvariant, PTL DEF CacheInv

\* A key has one reading under way at most, and the table knows it.
THEOREM ReadingsAreShared == CacheSpec => []OneReadingPerKey
  BY CacheInvariant, PTL DEF CacheInv

\* What the readings of a key bring never goes back, whatever failed or restarted in between.
THEOREM ReadingsNeverGoBack == CacheSpec => ReadingsLandInOrder
<1>1. ASSUME CacheInv, [CacheNext]_cacheVars, NEW k \in Key
      PROVE  landed'[k] >= landed[k]
  <2>1. CASE UNCHANGED landed
    BY <1>1, <2>1, CacheAssumption DEF CacheInv, CacheTypeOK, News
  <2>2. CASE \E x \in reading : Land(x)
    BY <1>1, <2>2, LandStep
  <2> QED
    BY <1>1, <2>1, <2>2 DEF CacheNext, EditRows, EditNames, ChangeHosts, Expire, Restart, ReadRows, Decide,
                            AnswerFromSlot, AwaitReading, See, Fail, cacheVars
<1>2. CacheInv /\ [CacheNext]_cacheVars => \A k \in Key : landed'[k] >= landed[k]
  BY <1>1
<1> QED
  BY <1>2, CacheInvariant, PTL DEF CacheSpec, ReadingsLandInOrder
-----------------------------------------------------------------------------
(* Places in a Map                                                         *)

\* How many of the places come no later than i.
Rank(places, i) == Cardinality({j \in places : j <= i})

\* A set of numbers that is not empty has a smallest.
LEMMA SmallestPlace ==
    ASSUME NEW S \in SUBSET Nat, S # {}
    PROVE  \E i \in S : \A j \in S : i <= j
<1>1. PICK i \in S : \A j \in S : <<j, i>> \notin OpToRel(<, Nat)
  BY NatLessThanWellFounded, WFMin
<1>2. ASSUME NEW j \in S PROVE i <= j
  <2>1. ~(j < i)
    BY <1>1 DEF OpToRel
  <2> QED
    BY <2>1
<1> QED
  BY <1>2

\* Places among the first n are finitely many, and so is every part of them.
LEMMA FinitePlaces ==
    ASSUME NEW n \in Nat, NEW P \in SUBSET (1..n)
    PROVE  /\ IsFiniteSet(P) /\ Cardinality(P) \in 0..n
           /\ \A Q \in SUBSET P : IsFiniteSet(Q) /\ Cardinality(Q) \in 0..Cardinality(P)
<1>1. IsFiniteSet(1..n) /\ Cardinality(1..n) = n
  BY FS_Interval
<1>2. IsFiniteSet(P) /\ Cardinality(P) <= n
  BY <1>1, FS_Subset
<1>3. Cardinality(P) \in Nat
  BY <1>2, FS_CardinalityType
<1>4. ASSUME NEW Q \in SUBSET P
      PROVE  IsFiniteSet(Q) /\ Cardinality(Q) \in 0..Cardinality(P)
  <2>1. IsFiniteSet(Q) /\ Cardinality(Q) <= Cardinality(P)
    BY <1>2, FS_Subset
  <2>2. Cardinality(Q) \in Nat
    BY <2>1, FS_CardinalityType
  <2> QED
    BY <1>3, <2>1, <2>2
<1> QED
  BY <1>2, <1>3, <1>4

\* Finitely many places that are not none have a last.
LEMMA LastPlace ==
    ASSUME NEW n \in Nat, NEW P \in SUBSET (1..n), P # {}
    PROVE  \E i \in P : \A j \in P : j <= i
<1> DEFINE S == {n - i : i \in P}
<1>1. S \in SUBSET Nat /\ S # {}
  <2>1. \A i \in P : n - i \in Nat
    OBVIOUS
  <2>2. S \subseteq Nat
    BY <2>1
  <2> QED BY <2>2
<1>2. PICK s \in S : \A t \in S : s <= t
  BY <1>1, SmallestPlace
<1>3. PICK i \in P : s = n - i
  OBVIOUS
<1>4. ASSUME NEW j \in P PROVE j <= i
  <2>1. n - j \in S
    OBVIOUS
  <2> QED
    BY <1>2, <1>3, <2>1
<1> QED
  BY <1>4

\* Of two places the later has the higher rank, and every rank is taken.
LEMMA RanksInOrder ==
    ASSUME NEW n \in Nat, NEW P \in SUBSET (1..n)
    PROVE  /\ \A i \in P : Rank(P, i) \in 1..Cardinality(P)
           /\ \A i, k \in P : Rank(P, i) = Rank(P, k) => i = k
           /\ \A r \in 1..Cardinality(P) : \E i \in P : Rank(P, i) = r
<1>1. IsFiniteSet(P) /\ Cardinality(P) \in Nat
  BY FinitePlaces
<1>2. ASSUME NEW i \in P
      PROVE  Rank(P, i) \in 1..Cardinality(P)
  <2> DEFINE B == {j \in P : j <= i}
  <2>1. i \in B /\ B \in SUBSET P
    OBVIOUS
  <2>2. IsFiniteSet(B) /\ Cardinality(B) \in 0..Cardinality(P)
    BY <2>1, FinitePlaces
  <2>3. Cardinality(B) # 0
    BY <2>1, <2>2, FS_EmptySet
  <2> QED
    BY <1>1, <2>2, <2>3 DEF Rank
<1>3. ASSUME NEW i \in P, NEW k \in P, i < k
      PROVE  Rank(P, i) # Rank(P, k)
  <2> DEFINE B == {j \in P : j <= i}
             C == {j \in P : j <= k}
  <2>1. \A j \in P : j \in Int
    OBVIOUS
  <2>2. k \in C /\ k \notin B
    BY <1>3, <2>1
  <2>3. ASSUME NEW j \in B PROVE j \in C
    <3>1. j \in P /\ j <= i /\ j \in Int /\ i \in Int /\ k \in Int
      BY <2>1
    <3> QED
      BY <1>3, <3>1
  <2>4. C \in SUBSET P
    OBVIOUS
  <2>5. IsFiniteSet(C)
    BY <2>4, FinitePlaces
  <2>6. Cardinality(C) # Cardinality(B)
    BY <2>2, <2>3, <2>5, FS_Subset
  <2> QED
    BY <2>6 DEF Rank
<1>4. \A i, k \in P : Rank(P, i) = Rank(P, k) => i = k
  <2> SUFFICES ASSUME NEW i \in P, NEW k \in P, i # k PROVE Rank(P, i) # Rank(P, k)
    OBVIOUS
  <2>1. i < k \/ k < i
    OBVIOUS
  <2> QED
    BY <1>3, <2>1
<1>5. \A r \in 1..Cardinality(P) : \E i \in P : Rank(P, i) = r
  <2> DEFINE T == 1..Cardinality(P)
             f == [i \in P |-> Rank(P, i)]
  <2>1. IsFiniteSet(T) /\ Cardinality(T) = Cardinality(P)
    BY <1>1, FS_Interval
  <2>2. f \in [P -> T] /\ \A i, k \in P : f[i] = f[k] => i = k
    BY <1>2, <1>4
  <2> HIDE DEF f
  <2>3. f \in Injection(P, T)
    BY <2>2 DEF Injection, IsInjective
  <2>4. f \in Surjection(P, T)
    BY <2>1, <2>3, FS_Injection
  <2>5. \A r \in T : \E i \in P : f[i] = r
    BY <2>4 DEF Surjection
  <2> QED
    BY <2>5 DEF f
<1> QED
  BY <1>2, <1>4, <1>5

\* What remains of a Map at some places: as many entries, each from its own place.
LEMMA OnlyThose ==
    ASSUME NEW m, NEW n \in Nat, NEW P \in SUBSET (1..n)
    PROVE  /\ Len(Only(m, P)) = Cardinality(P) /\ DOMAIN Only(m, P) = 1..Cardinality(P)
           /\ \A S : (\A i \in P : m[i] \in S) => Only(m, P) \in Seq(S)
           /\ \A r \in DOMAIN Only(m, P) : \E i \in P : Only(m, P)[r] = m[i] /\ Rank(P, i) = r
           /\ \A i \in P : \E r \in DOMAIN Only(m, P) : Only(m, P)[r] = m[i]
<1> DEFINE at(r) == CHOOSE i \in P : Rank(P, i) = r
           o == Only(m, P)
<1>1. o = [r \in 1..Cardinality(P) |-> m[at(r)]]
  BY DEF Only, Rank
<1>2. ASSUME NEW r \in 1..Cardinality(P)
      PROVE  at(r) \in P /\ Rank(P, at(r)) = r
  BY RanksInOrder
<1>3. ASSUME NEW i \in P
      PROVE  Rank(P, i) \in 1..Cardinality(P) /\ at(Rank(P, i)) = i
  <2>1. Rank(P, i) \in 1..Cardinality(P)
    BY RanksInOrder
  <2>2. at(Rank(P, i)) \in P /\ Rank(P, at(Rank(P, i))) = Rank(P, i)
    BY <1>2, <2>1
  <2> HIDE DEF at
  <2> QED
    BY <2>1, <2>2, RanksInOrder
<1>4. Cardinality(P) \in Nat
  BY FinitePlaces
<1> HIDE DEF at, o
<1>5. DOMAIN o = 1..Cardinality(P) /\ \A r \in 1..Cardinality(P) : o[r] = m[at(r)]
  BY <1>1
<1>6. ASSUME NEW S, \A i \in P : m[i] \in S
      PROVE  o \in Seq(S)
  <2>1. o \in [1..Cardinality(P) -> S]
    BY <1>1, <1>2, <1>6
  <2> QED
    BY <1>4, <2>1, IsASeq
<1>7. Len(o) = Cardinality(P)
  <2>1. o \in Seq({m[i] : i \in P})
    BY <1>6
  <2> QED
    BY <1>4, <1>5, <2>1
<1>8. \A r \in DOMAIN o : \E i \in P : o[r] = m[i] /\ Rank(P, i) = r
  BY <1>2, <1>5
<1>9. \A i \in P : \E r \in DOMAIN o : o[r] = m[i]
  BY <1>3, <1>5
<1> QED
  BY <1>5, <1>6, <1>7, <1>8, <1>9 DEF o
\* Of any places, those that remain are maxEntries at most, and exactly as many when some go.
LEMMA LastOnesRemain ==
    ASSUME NEW n \in Nat, NEW P \in SUBSET (1..n)
    PROVE  /\ LastOf(P) \in SUBSET P /\ Cardinality(LastOf(P)) <= MaxEntries
           /\ LastOf(P) # P => Cardinality(LastOf(P)) = MaxEntries
<1> DEFINE From(i) == {j \in P : j >= i}
           K == LastOf(P)
<1>1. /\ MaxEntries \in Nat /\ MaxEntries > 0
      /\ K = {i \in P : Cardinality(From(i)) <= MaxEntries}
      /\ \A i \in P : i \in Nat
  BY ReportAssumption DEF LastOf
<1> HIDE DEF K
<1>2. K \in SUBSET P /\ IsFiniteSet(K) /\ Cardinality(K) \in Nat
  <2>1. K \in SUBSET P
    BY <1>1
  <2>2. IsFiniteSet(K) /\ Cardinality(K) \in 0..Cardinality(P) /\ Cardinality(P) \in 0..n
    BY <2>1, FinitePlaces
  <2> QED
    BY <2>1, <2>2
<1>3. Cardinality(K) <= MaxEntries
  <2>1. CASE K = {}
    <3>1. Cardinality(K) = 0
      BY <2>1, FS_EmptySet
    <3> QED
      BY <1>1, <3>1
  <2>2. CASE K # {}
    <3>1. PICK i \in K : \A j \in K : i <= j
      BY <1>1, <1>2, <2>2, SmallestPlace
    <3>2. K \in SUBSET From(i) /\ From(i) \in SUBSET P
      BY <1>1, <1>2, <3>1
    <3>3. IsFiniteSet(From(i)) /\ Cardinality(From(i)) \in Nat
      BY <3>2, FinitePlaces
    <3>4. Cardinality(K) <= Cardinality(From(i))
      BY <3>2, <3>3, FS_Subset
    <3>5. Cardinality(From(i)) <= MaxEntries
      BY <1>1, <3>1
    <3> HIDE DEF From
    <3> QED
      BY <1>1, <1>2, <3>3, <3>4, <3>5
  <2> QED
    BY <2>1, <2>2
<1>4. ASSUME K # P
      PROVE  Cardinality(K) >= MaxEntries
  <2>1. PICK d \in P \ K : \A j \in P \ K : j <= d
    <3>1. P \ K # {} /\ P \ K \in SUBSET (1..n)
      BY <1>2, <1>4
    <3> HIDE DEF K
    <3> QED
      BY <3>1, LastPlace
  <2> DEFINE B == From(d) \ {d}
  <2>2. \A j \in B : j \in P /\ j > d
    BY <1>1, <2>1
  <2>3. ASSUME NEW j \in B PROVE j \in K
    <3>1. j \in P /\ j > d /\ j \in Nat /\ d \in Nat
      BY <1>1, <2>1, <2>2
    <3>2. ~(j <= d)
      BY <3>1
    <3> QED
      BY <2>1, <3>1, <3>2
  <2>4. From(d) \in SUBSET P /\ d \in From(d)
    BY <1>1, <2>1
  <2>5. IsFiniteSet(From(d)) /\ Cardinality(From(d)) \in Nat
    BY <2>4, FinitePlaces
  <2>6. Cardinality(B) = Cardinality(From(d)) - 1
    BY <2>4, <2>5, FS_RemoveElement
  <2>7. Cardinality(From(d)) > MaxEntries
    BY <1>1, <2>1, <2>5
  <2>8. Cardinality(B) <= Cardinality(K)
    BY <1>2, <2>3, FS_Subset
  <2> HIDE DEF From, B
  <2> QED
    BY <1>1, <1>2, <2>5, <2>6, <2>7, <2>8
<1> QED
  BY <1>1, <1>2, <1>3, <1>4 DEF K

-----------------------------------------------------------------------------
(* The report cache                                                        *)

OneEntryPerKey(m) == \A i, j \in DOMAIN m : m[i].key = m[j].key => i = j

\* Map.set replaces the entry of its key where it is, or adds one at the end.
LEMMA PutIsOne ==
    ASSUME NEW m \in Seq(Entry), NEW e \in Entry, OneEntryPerKey(m)
    PROVE  /\ Put(m, e) \in Seq(Entry) /\ OneEntryPerKey(Put(m, e))
           /\ \A i \in DOMAIN Put(m, e) : Put(m, e)[i] = e \/ (i \in DOMAIN m /\ Put(m, e)[i] = m[i])
           /\ \A i \in DOMAIN m : m[i].key # e.key => i \in DOMAIN Put(m, e) /\ Put(m, e)[i] = m[i]
           /\ e.key \in KeysOf(m) => Len(Put(m, e)) = Len(m)
           /\ e.key \in KeysOf(Put(m, e))
<1>1. DOMAIN m = 1..Len(m) /\ Len(m) \in Nat /\ \A i \in DOMAIN m : m[i] \in Entry
  OBVIOUS
<1>2. CASE e.key \in KeysOf(m)
  <2> DEFINE p == [i \in DOMAIN m |-> IF m[i].key = e.key THEN e ELSE m[i]]
  <2>1. Put(m, e) = p
    BY <1>2 DEF Put
  <2>2. p \in [1..Len(m) -> Entry] /\ DOMAIN p = DOMAIN m
        /\ \A i \in DOMAIN m : p[i] = IF m[i].key = e.key THEN e ELSE m[i]
    BY <1>1
  <2> HIDE DEF p
  <2>3. p \in Seq(Entry) /\ Len(p) = Len(m)
    BY <1>1, <2>2, IsASeq
  <2>4. \A i \in DOMAIN m : p[i].key = m[i].key
    BY <2>2
  <2>5. OneEntryPerKey(p)
    BY <2>2, <2>4 DEF OneEntryPerKey
  <2>6. e.key \in KeysOf(p)
    BY <1>2, <2>2, <2>4 DEF KeysOf
  <2> QED
    BY <2>1, <2>2, <2>3, <2>5, <2>6
<1>3. CASE e.key \notin KeysOf(m)
  <2>1. Put(m, e) = Append(m, e)
    BY <1>3 DEF Put
  <2>2. /\ Append(m, e) \in Seq(Entry) /\ DOMAIN Append(m, e) = 1..(Len(m) + 1)
        /\ \A i \in DOMAIN m : Append(m, e)[i] = m[i]
        /\ Append(m, e)[Len(m) + 1] = e
    BY <1>1
  <2>3. \A i \in DOMAIN Append(m, e) : i \in DOMAIN m \/ i = Len(m) + 1
    BY <1>1, <2>2
  <2>4. \A i \in DOMAIN m : m[i].key # e.key
    BY <1>3 DEF KeysOf
  <2>5. OneEntryPerKey(Append(m, e))
    BY <2>2, <2>3, <2>4 DEF OneEntryPerKey
  <2>6. DOMAIN m \subseteq DOMAIN Append(m, e) /\ Len(m) + 1 \in DOMAIN Append(m, e)
    BY <1>1, <2>2
  <2> QED
    BY <1>3, <2>1, <2>2, <2>3, <2>5, <2>6 DEF KeysOf
<1> QED
  BY <1>2, <1>3

\* The pruned Map is as big as it may be at most, its entries were there, and where a live one is
\* missing it is full of live ones.
LEMMA PruneIsFair ==
    ASSUME NEW m \in Seq(Entry), OneEntryPerKey(m)
    PROVE  /\ Prune(m) \in Seq(Entry) /\ Len(Prune(m)) <= MaxEntries /\ OneEntryPerKey(Prune(m))
           /\ \A r \in DOMAIN Prune(m) : \E i \in DOMAIN m : Prune(m)[r] = m[i]
           /\ \A i \in Live(m) : m[i].key \notin KeysOf(Prune(m)) =>
                  Len(m) > MaxEntries /\ Len(Prune(m)) = MaxEntries
                  /\ \A r \in DOMAIN Prune(m) : Prune(m)[r].expires > clock
<1>1. DOMAIN m = 1..Len(m) /\ Len(m) \in Nat /\ \A i \in DOMAIN m : m[i] \in Entry
  OBVIOUS
<1>2. CASE Len(m) <= MaxEntries
  <2>1. Prune(m) = m
    BY <1>2 DEF Prune
  <2> QED
    BY <1>2, <2>1 DEF KeysOf, Live
<1>3. CASE ~(Len(m) <= MaxEntries)
  <2> DEFINE L == Live(m)
             K == LastOf(L)
             o == Only(m, K)
  <2>1. Prune(m) = o
    BY <1>3 DEF Prune
  <2>2. L \in SUBSET (1..Len(m)) /\ \A i \in L : m[i].expires > clock
    BY <1>1 DEF Live
  <2> HIDE DEF L
  <2>3. K \in SUBSET L /\ Cardinality(K) <= MaxEntries /\ (K # L => Cardinality(K) = MaxEntries)
    BY <1>1, <2>2, LastOnesRemain
  <2> HIDE DEF K
  <2>4. K \in SUBSET (1..Len(m)) /\ \A i \in K : m[i] \in Entry
    BY <1>1, <2>2, <2>3
  <2>5. /\ Len(o) = Cardinality(K) /\ o \in Seq(Entry)
        /\ \A r \in DOMAIN o : \E i \in K : o[r] = m[i] /\ Rank(K, i) = r
        /\ \A i \in K : \E r \in DOMAIN o : o[r] = m[i]
    BY <1>1, <2>4, OnlyThose
  <2> HIDE DEF o
  <2>6. OneEntryPerKey(o)
    <3> SUFFICES ASSUME NEW q \in DOMAIN o, NEW r \in DOMAIN o, o[q].key = o[r].key
                 PROVE  q = r
      BY DEF OneEntryPerKey
    <3>1. PICK i \in K : o[q] = m[i] /\ Rank(K, i) = q
      BY <2>5
    <3>2. PICK j \in K : o[r] = m[j] /\ Rank(K, j) = r
      BY <2>5
    <3>3. i = j
      BY <1>1, <2>4, <3>1, <3>2 DEF OneEntryPerKey
    <3> QED
      BY <3>1, <3>2, <3>3
  <2>7. ASSUME NEW i \in L, m[i].key \notin KeysOf(o)
        PROVE  Len(o) = MaxEntries /\ \A r \in DOMAIN o : o[r].expires > clock
    <3>1. i \notin K
      BY <2>5, <2>7 DEF KeysOf
    <3> QED
      BY <2>2, <2>3, <2>5, <3>1
  <2>8. Len(m) > MaxEntries
    BY <1>1, <1>3, ReportAssumption
  <2> QED
    BY <1>1, <2>1, <2>3, <2>4, <2>5, <2>6, <2>7, <2>8 DEF L
<1> QED
  BY <1>2, <1>3
Requesting == [pc : {"read", "store"}, key : Report, now : Time, value : Time]

\* An entry expires at most a time to live after the reading it holds, which is past.
EntriesAreTimed == \A i \in DOMAIN entries :
    entries[i].expires <= entries[i].value + Ttl /\ entries[i].value <= clock

\* A request looked at the clock before its reading.
RequestsAreTimed == \A c \in Client : client[c] # NoRequest =>
    client[c].now <= client[c].value /\ client[c].value <= clock

ReportInv == ReportTypeOK /\ CacheIsBounded /\ CachedReportsAreRecent /\ EntriesAreTimed /\ RequestsAreTimed

\* A request in progress is told from none.
LEMMA RequestIsOne ==
    ASSUME ReportTypeOK, NEW c \in Client, client[c].pc \in {"read", "store"}
    PROVE  client[c] \in Requesting /\ client[c] # NoRequest
<1>1. NoRequest.pc = "none"
  BY DEF NoRequest
<1> QED
  BY <1>1 DEF ReportTypeOK, Requesting

\* What storing a report does to the cache: the new entry is in order, and the pruning fair.
LEMMA Stored ==
    ASSUME ReportInv, NEW c \in Client, StoreReport(c)
    PROVE  \E e \in Entry :
               /\ e.key = client[c].key /\ e.expires <= e.value + Ttl /\ e.value <= clock
               /\ OneEntryPerKey(Put(entries, e)) /\ Put(entries, e) \in Seq(Entry)
               /\ entries' = Prune(Put(entries, e))
<1> DEFINE e == [key |-> client[c].key, expires |-> Expires(c), value |-> client[c].value]
<1>1. client[c] \in Requesting /\ client[c] # NoRequest
  BY RequestIsOne DEF StoreReport, ReportInv
<1>2. client[c].now <= client[c].value /\ client[c].value <= clock
  BY <1>1 DEF ReportInv, RequestsAreTimed
<1>3. /\ client[c].key \in Report /\ client[c].now \in 0..MaxClock /\ client[c].value \in 0..MaxClock
      /\ clock \in 0..MaxClock
  BY <1>1 DEF Requesting, Time, ReportInv, ReportTypeOK
<1>4. Expires(c) \in 0..(MaxClock + Ttl) /\ Expires(c) <= client[c].value + Ttl
  BY <1>2, <1>3, ReportAssumption DEF Expires
<1>5. e \in Entry /\ e.key = client[c].key /\ e.expires <= e.value + Ttl /\ e.value <= clock
  BY <1>2, <1>3, <1>4 DEF Entry, Time
<1>6. entries' = Prune(Put(entries, e))
  BY DEF StoreReport
<1> HIDE DEF e
<1>7. entries \in Seq(Entry) /\ OneEntryPerKey(entries)
  BY DEF ReportInv, ReportTypeOK, CacheIsBounded, OneEntryPerKey
<1> QED
  BY <1>5, <1>6, <1>7, PutIsOne

\* Storing a report keeps the cache bounded, its keys apart and its entries timed.
LEMMA StoreReportStep ==
    ASSUME ReportInv, NEW c \in Client, StoreReport(c)
    PROVE  ReportInv'
<1>1. PICK e \in Entry :
          /\ e.key = client[c].key /\ e.expires <= e.value + Ttl /\ e.value <= clock
          /\ OneEntryPerKey(Put(entries, e)) /\ Put(entries, e) \in Seq(Entry)
          /\ entries' = Prune(Put(entries, e))
  BY Stored
<1> DEFINE m == Put(entries, e)
<1>2. /\ m \in Seq(Entry) /\ OneEntryPerKey(m) /\ entries' = Prune(m)
      /\ \A i \in DOMAIN m : m[i] = e \/ (i \in DOMAIN entries /\ m[i] = entries[i])
  BY <1>1, PutIsOne DEF ReportInv, ReportTypeOK, CacheIsBounded, OneEntryPerKey
<1> HIDE DEF m
<1>3. /\ entries' \in Seq(Entry) /\ Len(entries') <= MaxEntries /\ OneEntryPerKey(entries')
      /\ \A r \in DOMAIN entries' : \E i \in DOMAIN m : entries'[r] = m[i]
  BY <1>2, PruneIsFair
<1>4. clock' = clock /\ age' = age /\ client' = [client EXCEPT ![c] = NoRequest]
  BY DEF StoreReport
<1>5. EntriesAreTimed'
  BY <1>1, <1>2, <1>3, <1>4 DEF EntriesAreTimed, ReportInv
<1>6. ReportTypeOK'
  BY <1>3, <1>4 DEF ReportInv, ReportTypeOK
<1>7. RequestsAreTimed'
  BY <1>4 DEF ReportInv, ReportTypeOK, RequestsAreTimed
<1>8. CacheIsBounded' /\ CachedReportsAreRecent'
  BY <1>3, <1>4 DEF ReportInv, CacheIsBounded, OneEntryPerKey, CachedReportsAreRecent
<1> QED
  BY <1>5, <1>6, <1>7, <1>8 DEF ReportInv

\* A report from the cache is younger than the time to live: it expires later than now.
LEMMA GetCachedStep ==
    ASSUME ReportInv, NEW c \in Client, NEW k \in Report, GetCached(c, k)
    PROVE  ReportInv'
<1>1. PICK i \in DOMAIN entries : entries[i].expires > clock /\ age' = clock - entries[i].value
  BY DEF GetCached
<1>2. UNCHANGED <<clock, entries, client>>
  BY DEF GetCached
<1>3. entries[i] \in Entry /\ clock \in 0..MaxClock
  BY <1>1 DEF ReportInv, ReportTypeOK, Time
<1>4. entries[i].expires <= entries[i].value + Ttl /\ entries[i].value <= clock
  BY <1>1 DEF ReportInv, EntriesAreTimed
<1>5. entries[i].expires \in Nat /\ entries[i].value \in 0..MaxClock
  BY <1>3, ReportAssumption DEF Entry, Time
<1>6. age' < Ttl /\ age' \in 0..MaxClock
  BY <1>1, <1>3, <1>4, <1>5, ReportAssumption
<1> QED
  BY <1>2, <1>6
     DEF ReportInv, ReportTypeOK, CacheIsBounded, CachedReportsAreRecent, EntriesAreTimed, RequestsAreTimed

\* A miss and the reading that follows it are at the time of the clock.
LEMMA ReadingStep ==
    ASSUME ReportInv, NEW c \in Client,
           (\E k \in Report : Miss(c, k)) \/ ReadReport(c) \/ ReadFails(c)
    PROVE  ReportInv'
<1>1. clock \in Time /\ clock \in 0..MaxClock
  BY DEF ReportInv, ReportTypeOK, Time
<1>2. ASSUME NEW r \in Requesting \cup {NoRequest}, client' = [client EXCEPT ![c] = r],
             r # NoRequest => r.now <= r.value /\ r.value <= clock,
             UNCHANGED <<clock, entries, age>>
      PROVE  ReportInv'
  <2>1. ReportTypeOK'
    BY <1>2 DEF ReportInv, ReportTypeOK, Requesting
  <2>2. RequestsAreTimed'
    BY <1>2 DEF ReportInv, ReportTypeOK, RequestsAreTimed
  <2> QED
    BY <1>2, <2>1, <2>2 DEF ReportInv, CacheIsBounded, CachedReportsAreRecent, EntriesAreTimed
<1>3. ASSUME NEW k \in Report, Miss(c, k) PROVE ReportInv'
  <2> DEFINE r == [pc |-> "read", key |-> k, now |-> clock, value |-> clock]
  <2>1. r \in Requesting /\ r.now <= r.value /\ r.value <= clock
    BY <1>1 DEF Requesting
  <2>2. client' = [client EXCEPT ![c] = r] /\ UNCHANGED <<clock, entries, age>>
    BY <1>3 DEF Miss
  <2> HIDE DEF r
  <2> QED
    BY <1>2, <2>1, <2>2
<1>4. ASSUME ReadReport(c) PROVE ReportInv'
  <2> DEFINE r == [client[c] EXCEPT !.pc = "store", !.value = clock]
  <2>1. client[c] \in Requesting /\ client[c] # NoRequest
    BY <1>4, RequestIsOne DEF ReadReport, ReportInv
  <2>2. client[c].now <= client[c].value /\ client[c].value <= clock
    BY <2>1 DEF ReportInv, RequestsAreTimed
  <2>3. client[c].now \in 0..MaxClock /\ client[c].value \in 0..MaxClock
    BY <2>1 DEF Requesting, Time
  <2>4. r \in Requesting /\ r.now = client[c].now /\ r.value = clock
    BY <1>1, <2>1 DEF Requesting
  <2>5. client' = [client EXCEPT ![c] = r] /\ UNCHANGED <<clock, entries, age>>
    BY <1>4 DEF ReadReport
  <2>6. r.now <= r.value /\ r.value <= clock
    BY <1>1, <2>2, <2>3, <2>4
  <2> HIDE DEF r
  <2> QED
    BY <1>2, <2>4, <2>5, <2>6
<1>5. ASSUME ReadFails(c) PROVE ReportInv'
  BY <1>2, <1>5 DEF ReadFails
<1> QED
  BY <1>3, <1>4, <1>5

\* A minute more, or a restart, keeps the report cache in order.
LEMMA TickOrRestart ==
    ASSUME ReportInv, Tick \/ RestartEmpty
    PROVE  ReportInv'
<1>1. CASE Tick
  <2>1. clock \in 0..MaxClock /\ clock' = clock + 1 /\ clock' \in Time /\ UNCHANGED <<entries, client, age>>
    BY <1>1, ReportAssumption DEF Tick, ReportInv, ReportTypeOK, Time
  <2>2. EntriesAreTimed'
    <3> SUFFICES ASSUME NEW i \in DOMAIN entries
                 PROVE  entries[i].expires <= entries[i].value + Ttl /\ entries[i].value <= clock'
      BY <2>1 DEF EntriesAreTimed
    <3>1. entries[i] \in Entry
      BY DEF ReportInv, ReportTypeOK
    <3> QED
      BY <2>1, <3>1 DEF Entry, Time, ReportInv, EntriesAreTimed
  <2>3. RequestsAreTimed'
    <3> SUFFICES ASSUME NEW c \in Client, client[c] # NoRequest
                 PROVE  client[c].now <= client[c].value /\ client[c].value <= clock'
      BY <2>1 DEF RequestsAreTimed
    <3>1. client[c] \in Requesting
      BY DEF ReportInv, ReportTypeOK, Requesting
    <3> QED
      BY <2>1, <3>1 DEF Requesting, Time, ReportInv, RequestsAreTimed
  <2>4. ReportTypeOK'
    BY <2>1 DEF ReportInv, ReportTypeOK
  <2>5. CacheIsBounded' /\ CachedReportsAreRecent'
    BY <2>1 DEF ReportInv, CacheIsBounded, CachedReportsAreRecent
  <2> QED
    BY <2>2, <2>3, <2>4, <2>5 DEF ReportInv
<1>2. CASE RestartEmpty
  <2>1. entries' = <<>> /\ clock' = clock /\ age' = age /\ client' = [c \in Client |-> NoRequest]
    BY <1>2 DEF RestartEmpty
  <2>2. entries' \in Seq(Entry) /\ Len(entries') = 0 /\ DOMAIN entries' = {}
    BY <2>1
  <2>3. ReportTypeOK' /\ RequestsAreTimed'
    BY <2>1, <2>2 DEF ReportInv, ReportTypeOK, RequestsAreTimed
  <2>4. CacheIsBounded' /\ EntriesAreTimed' /\ CachedReportsAreRecent'
    BY <2>1, <2>2, ReportAssumption DEF ReportInv, CacheIsBounded, EntriesAreTimed, CachedReportsAreRecent
  <2> QED
    BY <2>3, <2>4 DEF ReportInv
<1> QED
  BY <1>1, <1>2

\* The invariant is inductive, for any size and any time to live.
THEOREM ReportsInvariant == ReportSpec => []ReportInv
<1>1. ReportInit => ReportInv
  <2> SUFFICES ASSUME ReportInit PROVE ReportInv
    OBVIOUS
  <2>1. clock = 0 /\ age = 0 /\ client = [c \in Client |-> NoRequest]
        /\ entries \in Seq(Entry) /\ Len(entries) = 0 /\ DOMAIN entries = {}
    BY DEF ReportInit
  <2> QED
    BY <2>1, ReportAssumption DEF ReportInv, ReportTypeOK, CacheIsBounded, CachedReportsAreRecent,
                                  EntriesAreTimed, RequestsAreTimed, Time
<1>2. ReportInv /\ [ReportNext]_reportVars => ReportInv'
  <2> SUFFICES ASSUME ReportInv, [ReportNext]_reportVars PROVE ReportInv'
    OBVIOUS
  <2>1. CASE Tick \/ RestartEmpty
    BY <2>1, TickOrRestart
  <2>2. ASSUME NEW c \in Client, NEW k \in Report, GetCached(c, k)
        PROVE  ReportInv'
    BY <2>2, GetCachedStep
  <2>3. ASSUME NEW c \in Client, (\E k \in Report : Miss(c, k)) \/ ReadReport(c) \/ ReadFails(c)
        PROVE  ReportInv'
    BY <2>3, ReadingStep
  <2>4. ASSUME NEW c \in Client, StoreReport(c)
        PROVE  ReportInv'
    BY <2>4, StoreReportStep
  <2>5. CASE UNCHANGED reportVars
    BY <2>5 DEF reportVars, ReportInv, ReportTypeOK, CacheIsBounded, CachedReportsAreRecent,
                EntriesAreTimed, RequestsAreTimed
  <2> QED
    BY <2>1, <2>2, <2>3, <2>4, <2>5 DEF ReportNext
<1> QED
  BY <1>1, <1>2, PTL DEF ReportSpec

\* The entries, the requests and the clock keep their types.
THEOREM ReportTypes == ReportSpec => []ReportTypeOK
  BY ReportsInvariant, PTL DEF ReportInv

\* Between two requests the cache holds maxEntries reports at most, each key once.
THEOREM ReportsAreBounded == ReportSpec => []CacheIsBounded
  BY ReportsInvariant, PTL DEF ReportInv

\* A cached report shows the integration as it was less than the time to live ago.
THEOREM ReportsAreRecent == ReportSpec => []CachedReportsAreRecent
  BY ReportsInvariant, PTL DEF ReportInv

\* prunePrtgStyleReportCache drops a live report only from a cache that is full of live ones.
THEOREM PruningIsFair == ReportSpec => LiveReportsGoForRoom
<1>1. ASSUME ReportInv, [ReportNext]_reportVars, NEW i \in DOMAIN entries,
             entries[i].expires > clock, entries[i].key \notin KeysOf(entries'), entries' # <<>>
      PROVE  Len(entries') = MaxEntries /\ \A j \in DOMAIN entries' : entries'[j].expires > clock
  <2>1. entries' # entries
    BY <1>1 DEF KeysOf
  <2>2. PICK c \in Client : StoreReport(c)
    BY <1>1, <2>1 DEF ReportNext, reportVars, Tick, RestartEmpty, GetCached, Miss, ReadReport, ReadFails
  <2>3. PICK e \in Entry :
            /\ OneEntryPerKey(Put(entries, e)) /\ Put(entries, e) \in Seq(Entry)
            /\ entries' = Prune(Put(entries, e))
    BY <1>1, <2>2, Stored
  <2> DEFINE m == Put(entries, e)
  <2>4. entries \in Seq(Entry) /\ OneEntryPerKey(entries) /\ Len(entries) <= MaxEntries /\ Len(entries) \in Nat
    BY <1>1 DEF ReportInv, ReportTypeOK, CacheIsBounded, OneEntryPerKey
  <2>5. /\ entries[i].key # e.key => i \in DOMAIN m /\ m[i] = entries[i]
        /\ e.key \in KeysOf(entries) => Len(m) = Len(entries)
        /\ e.key \in KeysOf(m)
    BY <1>1, <2>4, PutIsOne
  <2> HIDE DEF m
  <2>6. CASE entries[i].key = e.key
    <3>1. Len(m) <= MaxEntries
      BY <1>1, <2>4, <2>5, <2>6 DEF KeysOf
    <3>2. entries' = m
      BY <2>3, <3>1 DEF Prune, m
    <3> QED
      BY <1>1, <2>5, <2>6, <3>2
  <2>7. CASE entries[i].key # e.key
    <3>1. i \in Live(m) /\ m[i].key \notin KeysOf(Prune(m)) /\ entries' = Prune(m)
      BY <1>1, <2>3, <2>5, <2>7 DEF Live, m
    <3> QED
      BY <2>3, <3>1, PruneIsFair DEF m
  <2> QED
    BY <2>6, <2>7
<1>2. ReportInv /\ [ReportNext]_reportVars =>
        [\A i \in DOMAIN entries :
           entries[i].expires > clock /\ entries[i].key \notin KeysOf(entries') /\ entries' # <<>> =>
               /\ Len(entries') = MaxEntries
               /\ \A j \in DOMAIN entries' : entries'[j].expires > clock]_reportVars
  BY <1>1
<1> QED
  BY <1>2, ReportsInvariant, PTL DEF ReportSpec, LiveReportsGoForRoom
=============================================================================
