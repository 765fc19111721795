---------------------------- MODULE ReportCache ----------------------------
(***************************************************************************)
(* The cache of finished reports: a Map, which keeps its keys in the order  *)
(* in which they were first added, pruned when it holds too many.  The      *)
(* report of a request that misses is read with nothing held, so several    *)
(* requests for one report may read it and store it one after the other.    *)
(***************************************************************************)
EXTENDS Integers, Sequences, FiniteSets

CONSTANTS
    Report,       \* the keys: a unit and a period
    Client,       \* the requests that may be in progress at once
    MaxEntries,   \* maxEntries
    Ttl,          \* NOVA_ZABBIX_REPORT_CACHE_MS
    MaxClock      \* bound: the time

\* A time to live of zero switches the cache off.
ASSUME ReportAssumption == MaxEntries \in Nat \ {0} /\ Ttl \in Nat \ {0} /\ MaxClock \in Nat

VARIABLES
    clock,
    entries,      \* prtgStyleReportCache, in the order of the Map
    client,       \* a request: the report it reads, when it looked, when the report was read
    age           \* history: how old the report was that a request last got from the cache

reportVars == <<clock, entries, client, age>>

Time == 0..MaxClock
Entry == [key : Report, expires : 0..(MaxClock + Ttl), value : Time]
NoRequest == [pc |-> "none"]

ReportTypeOK ==
    /\ clock \in Time
    /\ entries \in Seq(Entry)
    /\ client \in [Client -> [pc : {"read", "store"}, key : Report, now : Time, value : Time]
                             \cup {NoRequest}]
    /\ age \in 0..MaxClock

ReportInit ==
    /\ clock = 0
    /\ entries = <<>>
    /\ client = [c \in Client |-> NoRequest]
    /\ age = 0

KeysOf(m) == {m[i].key : i \in DOMAIN m}

Tick == clock < MaxClock /\ clock' = clock + 1 /\ UNCHANGED <<entries, client, age>>

\* The report is in the cache and has not expired.
GetCached(c, k) ==
    /\ client[c] = NoRequest
    /\ \E i \in DOMAIN entries :
           /\ entries[i].key = k /\ entries[i].expires > clock
           /\ age' = clock - entries[i].value
    /\ UNCHANGED <<clock, entries, client>>

Miss(c, k) ==
    /\ client[c] = NoRequest
    /\ \A i \in DOMAIN entries : entries[i].key = k => entries[i].expires <= clock
    /\ client' = [client EXCEPT ![c] = [pc |-> "read", key |-> k, now |-> clock, value |-> clock]]
    /\ UNCHANGED <<clock, entries, age>>

\* readPrtgStyleReportForUnit sees the integration some time after the request looked.
ReadReport(c) ==
    /\ client[c].pc = "read"
    /\ client' = [client EXCEPT ![c] = [client[c] EXCEPT !.pc = "store", !.value = clock]]
    /\ UNCHANGED <<clock, entries, age>>

ReadFails(c) ==
    /\ client[c].pc = "read"
    /\ client' = [client EXCEPT ![c] = NoRequest]
    /\ UNCHANGED <<clock, entries, age>>

\* Map.set: a key that is there keeps its place.
Put(m, e) ==
    IF e.key \in KeysOf(m) THEN [i \in DOMAIN m |-> IF m[i].key = e.key THEN e ELSE m[i]]
    ELSE Append(m, e)

\* (mutant) The oldest go, expired or not.
PruneOldest(m) ==
    IF Len(m) <= MaxEntries THEN m ELSE SubSeq(m, Len(m) - MaxEntries + 1, Len(m))

\* (mutant) One is dropped too few.
PruneLate(m) == IF Len(m) <= MaxEntries + 1 THEN m ELSE Tail(m)

\* The entries at some places, in the order in which they were.
Only(m, places) ==
    [n \in 1..Cardinality(places) |->
        m[CHOOSE i \in places : Cardinality({j \in places : j <= i}) = n]]

Live(m) == {i \in DOMAIN m : m[i].expires > clock}

\* The places that remain when the first keys go until maxEntries are left.
LastOf(places) == {i \in places : Cardinality({j \in places : j >= i}) <= MaxEntries}

\* prunePrtgStyleReportCache: the expired ones go, then those that were added first.
Prune(m) == IF Len(m) <= MaxEntries THEN m ELSE Only(m, LastOf(Live(m)))

\* (mutant) The time to live counts from the end of the reading.
ExpiresFromStore(c) == clock + Ttl

\* The time to live counts from before the reading.
Expires(c) == client[c].now + Ttl

StoreReport(c) ==
    /\ client[c].pc = "store"
    /\ entries' = Prune(Put(entries, [key |-> client[c].key, expires |-> Expires(c),
                                      value |-> client[c].value]))
    /\ client' = [client EXCEPT ![c] = NoRequest]
    /\ UNCHANGED <<clock, age>>

\* The process restarts.
RestartEmpty ==
    /\ entries # <<>>
    /\ entries' = <<>>
    /\ client' = [c \in Client |-> NoRequest]
    /\ UNCHANGED <<clock, age>>

ReportNext ==
    \/ Tick \/ RestartEmpty
    \/ \E c \in Client :
           \/ \E k \in Report : GetCached(c, k) \/ Miss(c, k)
           \/ ReadReport(c) \/ ReadFails(c) \/ StoreReport(c)

ReportSpec == ReportInit /\ [][ReportNext]_reportVars

-----------------------------------------------------------------------------
\* The cache holds maxEntries reports at most between two requests, each key once.
CacheIsBounded ==
    /\ Len(entries) <= MaxEntries
    /\ \A i, j \in DOMAIN entries : entries[i].key = entries[j].key => i = j

\* A report from the cache shows the integration as it was less than the time to live ago, however long
\* it took to read and whoever stored it last.
CachedReportsAreRecent == age < Ttl

\* A report that has not expired goes only to make room, when the cache is full of reports as good, or
\* with the whole cache.
LiveReportsGoForRoom ==
    [][\A i \in DOMAIN entries :
           entries[i].expires > clock /\ entries[i].key \notin KeysOf(entries') /\ entries' # <<>> =>
               /\ Len(entries') = MaxEntries
               /\ \A j \in DOMAIN entries' : entries'[j].expires > clock]_reportVars
=============================================================================
