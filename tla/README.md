# A verification of nova-gestao-ativos-operacoes

NOVA is an operations centre for network assets: a NestJS API over PostgreSQL
(`src/apps/api`), and a Next.js front end without state of its own (`src/apps/web`).
This directory holds TLA+ models of the parts of the API where several actors write the
same rows, the TLC runs that check them on small instances, and TLAPS proofs of what
holds for every instance. `PROJECT.json` lists the runs, the source lines each definition
models, the hazards and the findings.

    tlc -workers 2 -config CasesRace.cfg MCExceptionCases      # model-check
    tlapm ExceptionCases_proofs.tla                            # prove

## 1. Inventory

| Component | State | Operations | What is hard | Modelled by |
|---|---|---|---|---|
| Exception cases and their queue (`exceptions.service.ts`) | `ExceptionCase` rows: status, stamps, assignee, severity, and stored columns derived from them (triage, deadlines, breach, score) | create, update, bulk update, recalculate, upsert by automation, recovery | no transaction: read, await, write, log; stored derived columns; deadlines nobody watches | `ExceptionCases`, `OperationalState` |
| SLA policies (same file) | `SlaPolicy` rows; terms copied into cases | create, update, defaults put back at every use, selection, recalculation | check-then-write of the interval; selection of several queries | `SlaPolicies` |
| Automation engine (`automations.service.ts`) | `AutomationRule` with `nextRunAt`, `AutomationRun` | create and edit rules, minute tick, run-now | tick and run-now overlap; snapshots of rules; errors in the middle; crashes | `AutomationEngine` (over `ExceptionCases`) |
| Report export queue (`monitoring.service.ts` 891-1157) | `AutomationRun` rows as jobs, the request in `summary` | enqueue, callback, minute cron with a lease | two kinds of worker, expired leases, crashes | `ReportExportQueue`, `ExportJob` |
| Partners and contacts (`partners.service.ts`) | `Partner`, `PartnerOperationalContact` with `isPrimary` | create, update, import of the legacy file | one primary contact without a unique key, at read committed | `PartnerContacts`, `Registry` |
| Contracts (`contracts.service.ts`) | `Contract`, `ContractUnit` | create, add and remove units | whose units they are is checked in an earlier statement | `ContractCoverage`, `Registry` |
| Units, equipments (`units`, `equipments`) | one row each; the tags of the unit's host in Zabbix | create, update, move, synchronise one or all | synchronisations nobody waits for, and edits that start none | `ZabbixSync`, `ContractCoverage` |
| Integrations (`integrations.service.ts`) | one row each; remote calls | host matching, synchronisation, telemetry, snapshots | several integrations, some silent; calls that time out and arrive late | `ZabbixSync` |
| Attachments (`attachments.service.ts`) | a file and a row | create, download, remove | file and row are not one transaction | `AttachmentStore`, `DocumentShelf` |
| Monitoring caches (`monitoring.service.ts`) | one telemetry slot, readings in flight, report cache | read through, refresh in the background, prune | readings finishing out of order; a bounded Map | `TelemetryCache`, `ReportCache` |
| CSV import, legacy data | rows of other components | import, reconcile | rows of others change without their handlers | its rows in `ContractCoverage` and `ZabbixSync` |
| Authentication, users | reset tokens, users | login, forgot, reset | a token used twice at the same time | no |
| Starlinks, occurrences, maintenances, activities, audits, settings, dashboard, health | one row per request, or read-only views | create, update, list | nothing that outlives a request | no |
| Report documents, web pages, scripts, generated client | none | formatting | none | no |

The components meet in these places. The engine calls the case service for every hit and
for the recovery, so the writers of a case are requests AND runs. The engine and the
export queue share the `AutomationRun` table, but not its rows: the queue works only on
runs of its own disabled rule. Everything that writes a case selects a policy first.
Contacts and contracts hang on the same partners, and units on partners and contracts.
Units, equipments and partners are what a synchronisation writes to Zabbix and what a
telemetry reading matches on; some columns of units, equipments and integrations are what
the telemetry cache makes its key of. All of it runs in one Node process, whose handlers
interleave at every `await`.

What makes each part correct:

- cases: stamps agree with the status; the queue shows what the case calls for; a
  resolved case stays resolved unless somebody reopens it; transitions are logged;
- policies: no interval out of order; cases follow the policy in force;
- engine: conditions that last are open, conditions that have gone are closed; a success
  handled everything; runs end;
- export queue: one worker and one document per job; a final verdict; every job ends;
- registry: a partner with contacts has exactly one primary contact; a contract covers
  units that are, or once were, its partner's;
- Zabbix: only a host somebody bound to a unit, or to one whose code it came to share,
  carries its tags; a host never goes back to an older row; the host of a unit at rest is
  current;
- attachments: a row has its whole file; a file without a row has a cause;
- caches: no answer is older than what its request could have had; what is cached is
  bounded and recent, and comes back after failures and edits.

## 2. The modules and the code

**`OperationalState`**: the pure part of `buildOperationalState`. A timestamp the code
only tests for null is a Boolean; the columns copied from the policy are one field, the
severity they were computed for. Minutes are clock ticks.

**`ExceptionCases`**: `cases` is the table, `op` what each request or run is in the middle
of. An operation is a read step that remembers what it read (`seen`), a write step that
computes everything from it (`CommitUpdate`, `ConfirmHit`, `InsertHit`,
`RecalculateCase`, `ResolveCase`) and a step that logs. Two history variables carry the
exceptions that properties make: `raced` (the last full write was computed from an
outdated read) and `owed` (status changes without an activity). `NamedColumns` and
`ConfirmedColumns` keep the difference between columns an update names and columns it
leaves alone. A rule without `createActivities` opts out of the log, which is why
`CasesBulk` gives rules `createActivities = TRUE`. `UpToDate` is about the columns the
derived ones depend on.

**`AutomationEngine`** extends it: `job` is what the tick or a run-now is executing, on the
snapshot `snap` of the rules read at its start. `StartUpsert`, `ConfirmHit`, `ListRecovered`
and the other case actions are used as they are, so the engine composes with the case
table instead of copying it. `dueIn` is the time left to `nextRunAt`. Most detectors are
one query (`ResolveHits`); `integration_failure` tests one connection after the other
(`ListIntegrations`, `TestConnection`, rules in `ProbeRule`). A report rule exports a
document (`ReportRule`). The catch block is `FailRun` and then `Reschedule`; `StepThrows` is
a call that throws inside the try, `JobThrows` one that throws where nothing catches it.

**`ReportExportQueue`**: a job's callback and the cron run the same handler
(`Claim`, `Export`, `Attach`, `Finish`/`FailJob`), the cron after `Reopen` and `ListQueued`.
`disturbed` remembers the jobs whose lease ran out or whose claim threw in the cron.
**`ExportJob`** is the promise to the user of the report centre, and the queue is shown to
implement it with the row's status as the phase.

**`SlaPolicies`**: the policies in the order of `createdAt`. Requests that write cases put
the defaults back one by one, select a policy query by query and write the terms they
found. An edit finds the row, reads the minutes again to check the interval, and writes
the columns it was sent. Kind and severity of a case are fixed here, while
`ExceptionCases` fixes the policies and lets the severity change; a policy's queue, name
and other text travel with its identity. `crossed` and `outdated` are history.

**`PartnerContacts`**: every handler that writes `isPrimary` is a transaction of a read
(`StartCreate`, `StartFill`, `StartUpdate`, `StartImport`), the `updateMany` that demotes
the others (`Demote`) and the write that commits. What it demotes stays locked until then
(`locked`), which is all that PostgreSQL keeps others from; a transaction may fail at any
point (`RollBack`). `disturbed` are the partners whose handlers overlapped, or one of whose
contacts an import moved; `headless` those whose primary contact was demoted by an update
that leaves `isPrimary` out. `updatePartner` writes a contact only when it finds no primary
one (when its `data` is empty Prisma issues no UPDATE, so nothing is locked).
**`ContractCoverage`** extends it with units and contracts: `createContract` and
`addContractUnits` check the owner in one statement (`CheckContract`, `CheckUnits`) and
write in another (`CreateContract`, `AddUnits`), while `updateUnit` and the import move
units (`MoveUnit`); `left` remembers from whom. **`Registry`** interleaves the two halves.

**`ZabbixSync`**: `unit` is the row with its code, its links and its equipments; `host` the
tags a synchronisation has left on each host; `job` a synchronisation of one unit or of all
that are ready. It reads the row (`ReadUnit`, or `SyncReadyUnits` for all at once), asks every
integration in turn (`AskSource`, which may get no answer) with the scores of
`scoreHostForUnit` and the rules of `selectHostMatch`, and updates the best host
(`UpdateHost`): the call succeeds, fails, or times out and may arrive `late`. A read that
fails ends it (`GiveUp`), as a crash does. `version` stands for all else that is written and
changes.

- *Binding.* `SyncReady` goes by a manual link, the tag with the unit's id, or a tag whose
  compacted value equals the unit's compacted code. A `Code` is what `compactToken` leaves:
  units whose codes are A-1 and A1 have the same one, and `updateUnit` may change a code to
  one that another unit has had. So a host passes from a unit to another by the code alone,
  with nobody binding it: `OnlyBoundHostsAreTagged` follows that (`Alike`) and says that
  there is no other way. `hostTagValue` takes the first tag of a name: those a host has for
  good under other names (`Own`, such as `unit_code`) come before those a synchronisation
  wrote. A tag inherited from a template comes after, and counts as one the host had at first.
- *Equipments.* `updateEquipment` finds the equipment in one unit (`FindEquipment`) and writes
  it later (`UpdateEquipment`), then synchronises the unit it had found and the one where the
  equipment is now. Another request, or an import, may have moved it in between: the unit it is
  then taken out of hears nothing.
- *History.* `crossed` remembers the units of which a synchronisation read the row while
  another was under way; `unheard` those that changed with no synchronisation that reads them: an
  edit of the partner, a row of the CSV import (`EditUnheard`, `ImportUnit`,
  `ImportEquipment`), an equipment taken out as above, or a synchronisation that could not
  read its row; `linked` and `had`, the links and codes of units so far.

**`AttachmentStore`**: `row` is the table, `file` the disk; each handler is a step per
await, any of which may fail, and the process may crash between two. **`DocumentShelf`** is
what its readers are promised, that a document is put up and taken off in one step, and the
store implements it with the row, and the file it leads to, as what is seen (`Seen`); the stray
files of failed uploads and removals are no part of it. **`TelemetryCache`**:
`slot`, `inflight` and the readings themselves, which belong to nobody once started;
`rows` is the key that the units, equipments and integrations make at present, and edits may
bring an earlier one back; `names` counts the edits of the columns a reading matches on and
returns but the key leaves out (name, city, state and partner of a unit, name and type of an
equipment); `news` counts the changes in Zabbix. A request that hits the slot, or joins a reading, gets
the names that another request had read: they may be older than its own, and even older
than those of the answer before. What is promised is that the telemetry is no older than
what had landed for the key when the request read the rows (its `floor`), and that in the
end, the slot expiring again and again, it has the present names as well. **`ReportCache`**:
`prtgStyleReportCache` as the sequence that a Map is, with `Put` as `Map.set`.

The `MC*` modules give constants their values. Operators marked `(mutant)` are not part of
any specification: each is a definition with a plausible bug in it, and under it the
property it is paired with in `PROJECT.json` fails.

## 3. The runs

| Run | Question | Bounds |
|---|---|---|
| `CasesRace` | do stamps, queue columns and resolutions survive a request racing a run, and a failure? | 1 case, 1 operator, 1 run, 2 severities, all payloads, 1 tick, 1 failure |
| `CasesBulk` | is every transition logged when nothing fails? | 2 cases, bulk requests, 1 operator, 2 runs (symmetric) |
| `CasesBreach` | does a missed deadline surface? It does not | the smallest instance with the case |
| `EngineOverlap` | what can a tick, a run-now and a failure do to each other, and is a success whole? | 1 fingerprint, 2 workers, a detection rule and a report rule, 1 failure |
| `EngineEdits` | do cases follow the conditions for ever, under edits, throws and a crash? | 1 probed fingerprint, tick, operator, 1 admin who switches the rule off or changes its cadence, 1 failure |
| `QueueJobs` | one worker, one document, one verdict, and does every job end? | 2 jobs, batch of 1, lease of 1 tick, 2 failures |
| `SlaRules` | do cases follow the policy in force, and can an interval get out of order? | 1 default, 2 created policies, 2 rows, 2 admins (symmetric), 3 edits, 1 request, 1 case |
| `RegistryBook` | who breaks the primary contact, and whose units does a contract cover? | 2 partners, 3 contacts (1 of the file), 2 units, 1 contract code, 2 requests of each kind (symmetric) |
| `ZabbixBridge` | which host is written, with which row? | 2 units, 2 codes, 1 equipment, 2 hosts in 2 integrations, 2 jobs and 2 editing requests (symmetric), 2 requests that start synchronisations, 1 edit per unit, 1 late update, `Focus` |
| `AttachmentStore` | do rows and files agree at every failure and crash, and is it all one step to a reader? | 2 attachments, 2 entities, 3 requests |
| `TelemetrySlot` | how old may an answer be, and does the slot recover? | 2 requests, 2 keys, 2 edits (of the key or of the names), 1 change, 1 failure or restart |
| `ReportEntries` | is the cache bounded and recent? | 3 reports, 2 requests, 2 entries, ttl of 2, 3 ticks |

Why the bounds are enough: a race here needs two writers and one row, so one case (or
job, policy, partner, host) with two workers shows every order of their steps; a second one
is there where operations range over several (bulk, a tick with two rules, a batch that
leaves a job waiting, a competing policy, an import that moves a contact, two units that
claim one host). After one tick a critical case has missed both its deadlines and a medium
one its first response only, so every combination of triage and breach occurs. Failures are
bounded at one or two per behaviour because each only drops a worker's memory, and a second
on another worker changes nothing a first one did not; attachments have no such bound. The
lease has one tick, so that it can run out while its worker is alive. The two requests of `ZabbixBridge` start up to three synchronisations, since a move of an
equipment starts two, and the synchronisation of all units reads two rows. Its constraint
`Focus` keeps apart what would only multiply: behaviours with an equipment that moves, in which
codes and links stay and nothing crosses or comes late, and behaviours without, in which codes
and links change and synchronisations cross; of a unit that is unheard only the first kind, or
behaviours without links, are followed. In the run the code c1 is on the host h1 until a synchronisation
writes another one there, the code c2 on h2 for good, and both names speak of c1. The report
cache has the two entries of which one is
dropped, in place of the 80 of the code. `RegistryBook` has the constraint `OneDesk`: a
behaviour works on contacts or on contracts, since the two write no row in common.
The safety of larger instances rests on the theorems below, which depend on no bound.

**Fairness.** `FairSpec` and `FairEngineSpec` assume weak fairness of the clock, of the
scheduler (`@Cron` fires every minute, `waitForCompletion`) and of every step of a handler
that has begun (the event loop serves every pending await). `StoreSpec` assumes that file
system and database answer, if only with an error; `CacheSpec` that the pages poll, that
readings end, since every call to Zabbix has a timeout, and that time passes (`Expire`). Nothing is assumed of users,
of administrators, or of the conditions in the world: the liveness properties end in "or
the condition has changed", and hold however often it does. Failures are never obliged
to happen. The liveness of the engine is checked with the tick as its only worker;
`EngineOverlap`, with run-now beside it, checks safety.

Deadlock is checked except in the runs of the registry, Zabbix, attachments and caches,
where the behaviour really stops when the identities or the bounded edits are used up.

### What the code does not do

- *A breach that nobody writes down* (`CasesBreach`): `slaBreached` is stored, and nothing
  writes an open case when its deadline passes. `PROJECT.json` quotes the page it departs from.
- *The queue after a race.* `updateException` derives the queue columns from the case it
  read; `QueueShowsTheCase` therefore excuses cases in `raced`. Without the excuse TLC shows
  an update and a confirmation that overlap and leave triage and status in disagreement
  until the next write.
- *A silence without end.* `silencedUntil` is written and never read again, so the case stays
  silenced until somebody changes it.
- *A crash between the update and its activity* loses the activity: they are two statements
  without a transaction. `TransitionsAreLogged` is checked without failures.
- *Two edits of one policy* that each check their interval against the old row can store it
  out of order: `IntervalsOrdered` excuses the policies in `crossed`.
- *Two primary contacts, or none*: overlapping handlers, an import that moves a contact, and an
  update of the primary contact that does not mention `isPrimary`.
- *A moved unit* stays in the contracts of its old partner; `CoverageWasOwned` says "or was".
- *Zabbix is not told* of an edit of a partner or of a CSV import, and two synchronisations
  that cross may leave the older row there, for good. Of two requests that move one equipment
  at once the second takes it out of a unit that neither synchronises:
  `QuietUnitsAreCurrent` excuses all of these, and says that there are no others.
- *A host goes to whoever has its code.* When a unit's code changes, or another unit takes a code
  that compacts to the same, the host tagged with that code is the new unit's at its next
  synchronisation, although nobody linked it.
- *Old names in the telemetry.* An edit of a name, a city or a partner does not change the key
  of the telemetry cache: until the slot has expired and another reading has landed, the pages
  show, and match hosts by, the old ones.

## 4. The proofs

Each `*_proofs` module extends its component's module; the assumptions are the named
`ASSUME`s there, on the types of the constants alone. Five theorems assume more, and say
so. `ActivitiesFollow` and `EngineLogsTransitions`: that no call fails and that every rule
writes activities. `SerialQueueIsExact`, `EngineAloneIsExact` and
`ApartEditsKeepIntervals`: that in the behaviour no two handlers (edits of one policy) are
under way at once, as a hypothesis `[]OneAtATime` or `[]EditsApart` beside `Spec`. Nothing
in the code enforces that; they say that the excuses of the properties, which history
variables grant, have no other cause.

| Theorem | For every instance |
|---|---|
| `ExceptionCases_proofs!TypeCorrect` | types of the table, the score within 0..100 |
| `StampsCorrect` | stamps agree with the status however the writers interleave |
| `QueueCorrect` | the queue shows the case, except after a write from an outdated read |
| `ActivitiesFollow` | every change of status has its activity, or a worker about to write it |
| `SerialQueueIsExact` | while handlers come one at a time no write is from an outdated read, and the queue is exact |
| `RecalculationEscalates` | a recalculation never clears a breach, lowers a score or moves an open case in the triage, unless it was raced |
| `ResolutionsStand` | a resolved case comes back only through an operator, a detection or a stale write |
| `AutomationEngine_proofs!EngineTypeCorrect` | types of rules, jobs and snapshots |
| `EngineUsesTheCaseTable` | every step of the engine is a step of `ExceptionCases`, or leaves the cases alone |
| `EngineKeepsCases`, `EngineLogsTransitions`, `EngineAloneIsExact` | so what is proved of the case table holds in the engine |
| `SuccessOfRuns`, `HandlersStayInRuns` | a success has stored every hit of its list; no handler works outside a run |
| `ErrorsComeFromOverlap` | while no call fails, a detection run ends in error only beside another run of its rule |
| `ReportExportQueue_proofs!QueueTypeCorrect`, `RequestIsKeptCorrect` | types; a job in the queue keeps its request |
| `OneWorkerPerJobCorrect`, `VerdictStandsCorrect` | one worker, one document, a final verdict, unless disturbed |
| `QueueImplementsExportJob` | the queue refines `ExportJob` |
| `JobsEndWhole` | an ended job carries no request; undisturbed, a success has one document and an error its message |
| `SlaPolicies_proofs!PoliciesTyped`, `IntervalsCorrect` | types; intervals in order unless two edits overlapped |
| `ApartEditsKeepIntervals` | while no two edits of a policy overlap, every interval is in order |
| `QueueFollows`, `NewPoliciesYieldAlways` | a case carries the terms in force; a new policy takes over only from a less specific one |
| `Registry_proofs!RegistryTypes`, `RegistryPrimaries`, `SomePrimary` | types; one primary contact at most and one at least, with the excuses of the properties |
| `CoveredUnitsWereOwned`, `CoverageOnlyGrows` | a contract covers what was its partner's; a request that ends takes no unit away |
| `AttachmentStore_proofs!StoreTypes`, `EveryRowHasItsFile`, `NoStrayWithoutCause`, `DownloadsBreakOnRemoval`, `RemovalsFitTheEntity` | the store's promises at every failure and crash |
| `StoreImplementsShelf` | the store refines `DocumentShelf` |
| `ZabbixSync_proofs!SyncTypes`, `TagsNeedABinding` | types; no host is tagged for its name alone, and none passes between units that never had a code in common |
| `HostsOnlyAdvance`, `RestIsCurrent` | no host goes back; the host of a unit at rest is current, unless synchronisations crossed or a change started none that read it |
| `MonitoringCaches_proofs!CacheTypes`, `NobodyFallsBehind`, `ReadingsAreShared`, `ReadingsNeverGoBack` | no answer is older than what had landed for its key when the rows were read; one reading for a key; readings land in order |
| `ReportTypes`, `ReportsAreBounded`, `ReportsAreRecent`, `PruningIsFair` | the report cache is bounded, its entries are recent, and a live one goes only for room |

The arguments:

- *Stamps.* `StampsFollowStatus` is not inductive: a handler writes stamps computed from
  what it read, so the invariant adds that what every handler has read was itself in
  order (`OperationOK`, in the inductive `IInv`). That is enough because the three columns
  are always written together, or, for a recovery, in a way that cannot disagree.
- *Queue.* Agreement is a property of one row and the clock (`CoherentAt`). A row just
  derived agrees, time cannot undo it because a breach is never early, and a write that
  is not raced writes what a fresh derivation of the stored row would.
- *One at a time.* What the handler under way has read and is about to write over is what
  the table has (`ReadsCurrent`): it read that itself, nobody else writes, and its own writes
  are to rows it is done with. So no write is raced, and *Queue* gives the rest.
- *Recalculation.* Between two writes only the clock moves; a row that agreed with its stored
  breach at some earlier time can only gain one (`DerivedAgain`), and the score grows with it.
- *Activities.* `LogInv`: a handler that has changed a status is at its log step on that
  case, and owes nothing for any other; each log step pays exactly what is owed.
- *Resolutions.* `RolesOK` says which tasks an operator and a run can have. Then each write
  that leaves a resolved case unresolved is an operator's, opens it, or used an old row.
- *Engine.* Every action is a step of `ExceptionCases` for its worker, or leaves `vars`
  unchanged; the invariant ties a job to the rule it runs and to its snapshot. `WInv` adds
  that the handler works on the run's own hits, and that a hit gone from the run's list is
  stored or in the handler's hands: at the end of the list all are stored. For errors,
  `SharedOK` says that two runs of one rule at the same time are both marked, `RefusalOK` that
  a fingerprint which has appeared since a run looked for it was inserted by another run of
  the rule (a fingerprint belongs to one rule, and nobody deletes a case), and `VerdictOK`
  that an error without a failure is of a marked run.
- *Export queue.* `Exclusive` says that a job not disturbed has at most one active worker
  and that then its status is running; `DocumentsOK` and `WorkersOK` relate the documents
  to where the worker is. Refinement and the verdict follow step by step. `MarksOK` adds that
  a message is written with an error and never without, and that only a disturbed job
  leaves its error.
- *Policies.* `ChecksHold` remembers that an edit past its check would leave the row it
  READ in order; a write whose silent column did not move carries that to the stored row.
  `FreshIn` says of a selection under way since the policies last changed what its queries have
  excluded; when one answers, the row is the one in force. A row is appended when it is
  created, so it is never the oldest of a query that had an answer (`OldestStays`).
  For edits that stay apart, `ChecksCurrent`: the interval an edit has checked is still the
  stored one, because nobody else edits that policy and putting a default back adds a row.
- *Contacts.* `Tied` is what holds of a handler whatever others do, `AsRead` that what it
  has read of an undisturbed partner is still so: a commit in between would have made the
  partner disturbed. Then the commit replaces exactly the primaries it demotes.
- *Coverage.* `CheckedRight`: a check was right when made, and `left` records every move
  since. A behaviour of the registry is one of each half, so both invariants carry over.
- *Attachments.* `Knows` says what each request knows of its attachment at each step, and
  `UploadsAlone` that an upload has its attachment to itself; both survive a crash. The refinement follows:
  whatever happens to a file happens while it has no row, so it is no step to a reader
  (`UnseenStep`), and the insert and the deletion of the row are the two steps there are.
- *Zabbix.* Binding: `Mine` says that a host is out of every set of strangers that contains
  the unit; it only grows with links and codes (`MineStays`), and what a row calls for is the
  unit's (`ReadyIsMine`), by a link, its id, or a code that the unit and whoever tagged the
  host have had (`CodesKnown`). Hence hosts, late updates and hosts found (`HostsBound`,
  `LateBound`, `JobsOK`). Rows: `HostsKnown` and `LateKnown` say that no host and no late
  update is ahead of the stored row; `OneHolder`, that of a unit not crossed one
  synchronisation at most holds the row; `HoldersLead`, that what it holds is no older than any
  host; `HoldersCurrent`, that a row held is the stored one unless a change has started another
  synchronisation or the unit is `unheard`; `LateUnsaid`, that after a timeout nobody claims a
  written host. All actions that change rows and start synchronisations are instances of one
  step (`Queued`), which is shown to keep the invariant once.
- *Telemetry.* `ReadingsAreNewer`: a reading under way has seen nothing older than what has
  landed for its key, because the key has no other reading. `SlotIsLast`: what the slot shows
  is the last that landed for its key, whichever keys had it before. `FloorsHold`: what had
  landed when a request read the rows is still no newer than what has landed now.
- *Reports.* A prune keeps entries at places of the Map: those that live, then the last
  `maxEntries` of them. That the places kept are as many as the entries of the new Map, and
  in the old order, is shown with ranks (how many kept places lie before one), a bijection by
  facts about finite sets, in place of an induction. `EntriesAreTimed` and `RequestsAreTimed`
  say between which ticks an entry, or a reading under way, was generated.

Only model-checked: all liveness, which is beyond this prover (cases closing and opening, runs
and jobs ending, removed files going, the slot coming back).

## 5. What the models leave out

Free text, formatting and every column no property is about; listings and summaries;
comments; an edit of a case's kind; an edit of a rule's detector or template; the
detectors' queries (a detector finds what is true when it asks); the order in which a
tick takes due rules. A code generated for a case, and a rule's code, are taken to be
unused. The database is PostgreSQL at read committed, a single statement is atomic and a
unique column refuses a second insert. `RunsEnd` excuses runs a crash abandoned: nothing
in the code ends those, and their rows keep saying "running".

In the registry: the contacts, services and billings of a contract, the edit of its code and
dates, the other columns of partners and contacts. A contact that `createPartnerContact` inserts may name any row of the legacy
file; one that `updatePartner` inserts never does. In Zabbix: the smaller scores (names of
units, cities, states and partners, the hits of equipments) and mentions of a code inside other
words, which never bind a host (they decide between hosts that are bound, where the models
let the larger scores decide), a change of `isActive`, the removal of tags after a new link
(there is none in the code), the edit of an integration. In the caches: a time to live of
zero, with which every request reads for itself, the figures of a report. In the imports: counters and messages.

### Not modelled

Authentication and users, starlinks, occurrences, maintenances, activities, audits, settings,
dashboard and health are one row per request or read-only: no two steps of theirs meet in
a way that could go wrong, with the exception of a reset token that two requests use at once
(in the hazards). Report documents, the web pages and the scripts keep no state. Most of the
lines of the repository are the generated Prisma client and the pages of the front end, which
no model translates: the map covers the handlers, which are a small part of the text.
