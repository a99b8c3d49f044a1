# Formal model of the Silver/Gold market-data pipeline

This directory models the part of the pipeline whose correctness depends on order: which task may
move which persisted state, in which sequence, and what is left when a task stops half way. The
models are written from `src/pipeline`; line references are in `PROJECT.json` (`map`), the hazards
they are aimed at under `hazards`.

## 1. The system

One container image runs a handful of entry points as short-lived ECS tasks. They share one S3
bucket (immutable *Bronze* objects, published snapshots), one EFS directory, and one PostgreSQL
database (*Silver* and *Gold* tables, quality runs, the return contract). Nothing spans the stores
in one transaction; PostgreSQL session advisory locks are the only mutual exclusion.

| Component | State it keeps | Operations | Interacts with |
|---|---|---|---|
| Daily task (`daily_full.py`) | target day, the label readiness it has read | guard, collection, inherited closure, load, closure, follow-ups | epoch lock, collectors, snapshot, load, contract |
| Gap replay (`gap_replay.py`) | list of days | entry checks, one `_main_locked` per day, deferred follow-ups | same, under one lock |
| Epoch lock and closing sequence (`dart_silver_backfill_ecs.py`) | advisory lock K2, local evidence, snapshot pointer | acquire/assert/release, prepare, publish, restore, close, `dart-extras` | S3, PostgreSQL |
| Action collector (`bronze/corporate_actions.py`) | key index, thread pool, completion markers | discovery, structured rows, documents, asynchronous PUT | S3, `before_change` callback |
| Official families (`bronze/dart_viewer_corrections.py`, `dart_support_action_families.py`) | a manifest each, reused page by page | collect, derive terminals, publish, verify | DART selector pages, snapshot |
| Action snapshot manifest (`silver/dart_action_snapshot.py`) | manifest, body hashes | build, verify | local evidence |
| Return contract (`silver/return_contract.py`, `total_return_rebuild.py`, `dart_extra_load.py`) | `price_return_contract`, `dart_action_snapshot_contract` | demote, publish actions, mark building, certify | load, closing sequence |
| Cash-scale evidence (`silver/cash_adjustment_scale_*.py`, `publish_cash_scale_*.py`) | manifest on disk, its seed in S3, the persisted run | classify, publish, verify, seed, migrate, bind for a day | official files, rebuild |
| Silver load (`silver/load.py`, `prices.py`, `corporate_actions.py`) | `price_daily`, `corporate_action`, `dq_run` | one day per transaction | contract |
| Financial, dividend and alternative sources (`bronze/financials.py`, `dividends.py`, `alternative_data_*.py`) | deferred requirements, pending inputs, receipts, pointers | incremental collection, bootstrap, publication | daily task |
| FMP (`bronze/fmp*.py`, `silver/fmp*.py`, `fmp_backfill_ecs.py`) | bodies and manifests of a day, identities, backfill parent run | five feeds, bridge of identities, load, partitioned backfill | daily task |
| KIS flows and Gold (`kis_*.py`, `gold/*`) | reference checkpoint, partition checkpoints, observations, factor partitions, approvals | prefetch, publish, verify, list, factors, promotion | daily task, gap replay |
| Quality runs (`silver_quality/repository.py`) | `dq_run`, results, warning state | start, finish, sync warnings, acknowledge | load, backfills |
| One-off backfills and repairs | staging, candidates | disabled or bound to one recorded state | locks K1, K2 |

Hard behaviours: a task may stop between any two steps; the PostgreSQL session (and the lock with
it) may die while the process and its worker threads go on; a later task of another kind finds what
was left; every entry point refuses some of the states the others leave; the inputs of one step are
what an *earlier, interrupted* step stored; providers publish late, revise what they published and
change a page while it is read.

## 2. Modules

| Module | Models |
|---|---|
| `ReturnLabel` | abstract specification: what a reader of the total-return label is promised |
| `CertificationEpoch` | the tasks `daily`, `gap` and `extras` over S3 and PostgreSQL, with stops and lost sessions |
| `CertificationEpochRefinement` | the refinement mapping from `CertificationEpoch` to `ReturnLabel` |
| `ActionSnapshot` | abstract specification: what a reader of the published action snapshot is promised |
| `SnapshotPublication` | the action snapshot on its way from the shared disk to S3: checkpoints, bundle, pointer |
| `SnapshotPublicationRefinement` | the refinement mapping from `SnapshotPublication` to `ActionSnapshot` |
| `ReturnRebuild` | what the label holds: full and incremental computation, decisions, audit, baseline recovery |
| `OfficialFamilies` | the two manifests of official DART families and their reuse |
| `ScaleClassification`, `ScaleEvidence` | which rows official inputs give an adjustment; the life of the evidence manifest made of them |
| `FilingIntake` | reports, dividends and alternative inputs from the provider into Silver: daily task and bootstrap |
| `FmpIntake` | the American leg: objects of a day, identities of renamed securities, load and backfill |
| `MarketFollowups` | KIS flows, Gold factors and promotion behind the daily task and a deferred gap replay |
| `WarningWorklist` | the reviewer's list of data-quality warnings beside the immutable run history |
| `CertificationProofs` | theorems about `CertificationEpoch`, its refinement and `WarningWorklist` |
| other `...Proofs` | theorems about the module they are named after |
| `MC...` | instances for TLC (`SnapshotPublication` needs none) |

Every module takes the other side of a seam as an environment. `CertificationEpoch` treats the
evidence a task applies as local, because `verify_snapshot_manifest` derives path set and hashes
again before it applies anything; the disk all tasks share, and what reaches S3 from it, is
`SnapshotPublication`, in which a component's manifest is one version; how such a version comes
about is `OfficialFamilies`. In `CertificationEpoch` a rebuild either certifies or does not; what it
writes, and that it can always succeed again, is `ReturnRebuild`, whose `PublishActions`, `Mark` and
`Certify` are the same three transactions as `Apply`, `Mark` and `Certify` there; the external
evidence it needs on an ambiguous day is `ScaleEvidence`. One daily task is cut in three:
`CertificationEpoch` has its prices, actions and label, `FilingIntake` the inputs it collects and
publishes on the way, `MarketFollowups` and `FmpIntake` what runs after the core. They touch
disjoint tables, and the epoch lock lets one task run at a time, so the only thing one sees of
another is whether the core of a day is certified.

### CertificationEpoch

*State.* `epochLock` is the owner of `DAILY_CERTIFICATION_LOCK_KEY`. `bronze`, `listed` and
`collected` are the durable action bodies, discovery manifests and completion markers in S3;
`pointer` is the published snapshot pointer. `lastPrice`, `priced`, `daily`, `snapshots` and
`contract` are committed PostgreSQL state: the certified KRX price horizon and its days, the target
days with a CERTIFIED daily run, the newest certified action run reaching each day, and the
`price_return_contract` row. A contract row keeps old coverage and metadata when it is demoted;
`seen` and `by` are the two pieces of metadata that a resumed replay reads. `task` is the local
state of a process (`pc` is the place in `_main_locked`), `inflight` its scheduled PUTs.

*Actions.* `Guard` to `NextDay` are the steps of `_main_locked` and `close_total_return_contract`,
one per store access: the transactions (`LoadDay`, `Apply`, `Mark`, `Certify`) are atomic, because
the code runs them in one PostgreSQL transaction on the session that owns the epoch. `Put` is
`_BronzeWriter._submit` (demote, then schedule), `Land` the worker's PUT. `Raise` is every check
that fails, `Stop` a crash or a failed call at any point, `LoseSession`/`FailOnLostSession` a dead
PostgreSQL session.

*Abstractions.* A day is a number, and the 14-day discovery window covers all of them. A disclosure
is a value with a receipt date; its body is either a document or a structured row, which differ in
one thing: the snapshot build checks that every promised document exists. DART answers a completed
day the same way every time. Prices, actions and quality rules are not computed: a load or a
rebuild may succeed, and `Stop` covers its failure. `refiled` and `touched` are nondeterministic:
whether financial inputs of the day changed, and whether the published action frame holds an issuer
event.

### SnapshotPublication

*State.* `disk` is `/app/data`, one EFS that all tasks mount: the Bronze filings on it, the generated
files at fixed paths (`ActionFile`, one `ComponentFile` per component) and the cache index of what
was downloaded. A generated file is determined by the day it covers and the filings it was made
from, so its content is a *version*; leaves have their hash in their path and, once on the disk,
stay. `checkpoint`, `leaves`, `bundles` and `pointer` are S3. `task[t]` is a program with what it has
read: LIST result, pointer, ETag, the built snapshot id and the files its pool still has to upload.
`overlapped` is a history variable: two programs have been at work at once.

*Actions.* `Prepare`, `Restore`, `Warm` start `prepare_total_return_snapshot`,
`restore_published_total_return_snapshot` and the cache warmer; `List` to `SwitchPointer` are their
steps, one per S3 or disk access; `KeepObject`, `CopyObject`, `SendObject` and `AcceptObject` are the
four ways an object of the bundle comes about; `FenceCheckpoint` and `FencePointer` prove the epoch.
`Raise`, `Stop` and `LoseSession` are as above.

*Abstract specification.* `ActionSnapshot` is a register: what a reader who restores the current
snapshot gets (`answer`) is that snapshot or, once writers have overlapped (`serial` is false), possibly
a refusal. A snapshot appears whole, covers no less than its predecessor, is made from durable filings
only and is left alone afterwards. The mapping answers with `pointer` when every object of its bundle is
as its entry says, because `_restore_published_snapshot` hashes what it reads and raises otherwise.

### ReturnRebuild

*State.* A day is a session of the market, `Date[d]` its calendar day; an episode ends with a gap of
more than `Gap` calendar days. `session`, `trade` and `splits` are the certified prices, `price` the
*level* of each row's `adj_close`, the number of splits it is adjusted for (two values of one level
give a true return); `total` is `total_return_close` with its lineage, abstracted to what tells right
from wrong: its level and the set of dividends reinvested since its episode began. `disclosed`,
`stored`, `snapshot` are the dividends in Bronze, the rows of `corporate_action` with the run that
wrote them last, and the newest certified action run; `contract`, `resolution` the contract row and
the decisions of the last certified rebuild; `task` the closure in progress.

*Actions.* `LoadSession` publishes a new session; a split rescales the price history of its stock and
leaves the values alone. `ReloadSession` publishes a stored one again: its row is as loaded for that
day alone, `_rescale_history_for_events` lifts the rows before it when the last of them lacks the split
(`Lift`), and the row must follow the one before it (`Follows`): the first row of a listing that has
later ones is refused, a row that opens a later episode is compared with nothing. `Disclose` and
`PublishOther` change actions, `PublishActions`, `Mark`, `Certify`/`Reject` are the three transactions
of `close_total_return_contract`. A value that `Certify` appends changes as the price does.

*Abstractions.* Cash amounts, revisions of a disclosure and the yield and viewer checks are data and
left out. `_rebuild` refuses a snapshot without any cash action; the model takes one to exist on
another stock. A split on the very day a dividend is applied needs external scale evidence, without
which the rebuild raises; that evidence is taken to be there (`ScaleEvidence`). Bronze only grows or
is corrected: an action withdrawn from it is not modelled (section 5).

### OfficialFamilies

*State.* `product` says which of the two collectors a behaviour is about. `filed` is DART itself: the
kind and the original filing of each receipt; `listed` how many receipts the complete disclosure
lists hold. `scope` is the coverage range asked for today, `manifest` the collector's file, `run` the
collection in progress with the pages it has reused and fetched.

*Actions.* `File` files a receipt at any moment, also between two page reads of one collection; `Day`
completes the lists and asks for a range. The support collector reads the main pages of new families
(`ReadMain`), derives their terminals (`Derive`), reads them a second time (`Recheck`) and publishes;
the viewer probes provisional corrections outside the range (`Probe`), lists what it needs
(`Require`), fetches (`Fetch`, `FetchEconomic`), refreshes reused families and closes the
dependencies (`RefreshFamilies`, `Close`). `Verify` is the verification that follows. `Fail` and
`Stop` are failed requests and stopped processes.

*Abstractions.* A receipt is its number, which is its order, its date and its place in the selector.
A viewer body is the receipt whose economics it carries. Issuer identity and ticker ambiguity,
document numbers that DART reissues, HTML bodies and the parity of structured rows with viewer rows
are left out. The collection is modelled as the daily task calls it, a verification first; the gap
replay collects without one.

### ScaleClassification, ScaleEvidence

`ScaleClassification` has no state: it gives the rows that the builder writes for one overlap event
from the official inputs (families, prepared rows, KIND decisions, notices) and what the verifier
demands of such rows. One parent event of one issuer, so a semantic group is named by the action of
its component.

*State of ScaleEvidence.* `bronze` is the official content, `base` the manifest in the operator's
directory, `dir` the directory of the running job with `touched`, the files of it written since they
were frozen; `job` is a builder, a verification (two passes in a publication), a seed, a migration or
a daily binding. `s3` is the seed in five objects: `bodies` (the first KIND body), `kind` (the KIND
manifest), `requests` (the last of the content, identity and request objects that it names), the
evidence `manifest` and `prices` (the price receipt). `db` is the manifest of the newest persisted run.
`built` is a history variable.

*Actions.* `FreezeManifests`, `ValidateRows`, `BindUpstream`, `FreezeClosure`, `Sweep` and `Rebind`
are the phases of `verify_source_evidence_manifest`, between which files may be collected again
(`Refetch`); around them the builder (`BuildFamilies`, `BuildManifest`), the publication, which
verifies twice and restores the predecessor of a refused manifest, the migration of a display list and
the daily binding (`PersistRun`). The seed writes the run out again (`StartSeed`) and puts what is
missing path by path, KIND in its sorted order, the receipt last (`PutOnce`). Any object under the KIND
prefix counts as a finished KIND seed, and an absent KIND manifest reads as one without rows, as in
`_restore_kind_seed` and `verify_kind_reference_manifest`; a manifest that names absent objects is
refused (`KindRestores`). With no KIND rows only the bodies bundled with the code are put. `Stop` ends
a job anywhere.

*Abstractions.* Bodies are version numbers. Staging and rollback of downloaded price and KIND bodies
and all parsing are left out; the KIND requests are constant. A manifest without DART components is
accepted without its families being verified, as in the code.

### FilingIntake

*State.* `filed` is what is filed on each day and `exposed` the version the provider returns; `lists`,
`deferred`, `major`, `resp`, `mani`, `pointer` and `pending` are the objects of Bronze, `done`,
`krxKnown`, `cache` and `batch` the recorded progress of increment and bootstrap, `silver` and
`certified` PostgreSQL. `task` is the daily task with its local lists of what it changed, `boot` the
bootstrap; `lost` is a history variable, the inputs whose storing task stopped.

*Actions.* The daily task: `ReadLists`, `FetchStatement` for one scope at a time, `SaveDeferred`, the
dividend pair (`PutResponse`, `PutManifest`), the gated `LoadDay`, then the three collectors of the
alternative increment (`Reuse` or `Collect`, `FetchInput`, `SavePending`), its publication and its
marks (`PublishFiles`, `MarkKrx`, `CompleteDay`). The bootstrap: `BootSelect` or `BootResume`, which
read the inventory and the previous pointers once, then `BootFetch` for each scope without a pointer,
whatever the daily task has stored of it since, `BootCollected`, `BootPublish`, `BootMark`. The daily
`FetchInput` reads the previous pointer and the answer in one step: only the bootstrap could move the
pointer in between, and then the daily task takes its own answer for a changed one, which both keep. `Stop` is a stopped process, a quota error or
a refused gate; it loses the local lists and nothing else.

*Abstractions.* An input is a scope in some version, and content is the version number. Yearly sweeps,
the initial sweep of dividends and the call budget are left out. The set of listed companies is a
constant, as `corpCode.xml` is never downloaded again.

### FmpIntake

*State.* `history` is the ticker of each security on each day, of which the provider shows the active
list, the delisted list and the renames. `body` and `sealed` are the objects and manifests of a day;
`ids`, `prices`, `facts` are PostgreSQL; `task` is the daily step with its place in the list of feeds,
`fill` and `parent` the backfill and its parent run.

*Actions.* The feeds in the order of the daily step (`Reuse`, `Fetch`, `Seal`), where a lenient one
fetches a body without a manifest again and a strict one refuses it (`RefuseOrphan`); `LoadDaily` with
the bridge from tickers to assets; the backfill (`StartFill`, `FillAssets`, `FillPrices`,
`FinishFill`), new or resumed, and the targeted `Repair`, which drops assets outside the universe.

*Abstractions.* Numbers of a price, CIK, CUSIP, ISIN, currencies and commodities are left out; each
security files one statement and pays one dividend. A security is not listed again once it has been
delisted (`ListedOnce`): `_all_snapshot_files` unites the delisted lists of all snapshots because "a
delisted company never un-delists", and a security that did would be given two assets.

### MarketFollowups

*State.* `flow` is what the provider shows now, `delivered` and `posted` the days it has published;
`ref` the reference checkpoint, `pending` captured references, `checks` the partition checkpoints,
`obs` the versions of an observation, `gold` and `approved` the partitions and the status of factors,
`task` and `plans` the running follow-up.

*Actions.* `Prepare`, `Resume` or `Refuse` the reference of the window; `Read` up to `Workers`
partitions ahead, `Publish` and `Mark` them in order; `Certify` or `Incomplete` verifies the window and
moves the reference; `ListFactors`, `RunFactor`, `Finish`. `Daily` and `GapReplay` launch the tail,
`Promote` approves the factors, the provider revises, delivers and posts at any moment.

*Abstractions.* A flow is the number of its value. The refresh mode, the command line of the backfill
and the coalescing of the history cache are left out, and a finished day is not run again.

### WarningWorklist

*State.* `run` is `dq_run` with its result of one WARNING rule, in the order of `started_at` (one
result a row, as every rule of the repository reports once per dataset and partition);
`commits` numbers certifications; `row` is `dq_warning_state`, `Scope[b]` the row that a run on batch
`b` updates; `found` is what the projection's query saw before its upsert wrote; `tracking` says that
the deployed code projects live.

*Actions.* Start, certify, stop of a run, deployment of live tracking, the reviewer's
acknowledgement, and the projection as two steps, `Query` and `Upsert`.

## 3. Runs

| Run | Instance | Shows | States |
|---|---|---|---|
| `EpochGap` | all entry points, four days with a holiday, two faults | `DailyNeverSkips`, `DemoteBeforeVisible`, refinement of `ReturnLabel`; liveness: `Repaired` | 333,180 |
| `EpochSessionLoss` | two tasks whose sessions die, three days | `CertifiedCoversPrices`, `PointInTimeComplete` | 1.1 million |
| `SnapshotEpoch` | publish, inherit, restore, warm over two days, one fault | `NamedStored` (every object a checkpoint or the pointer names is stored as named), refinement of `ActionSnapshot`; liveness: `Published` | 350,126 |
| `RebuildClosure` | four sessions, a stock that may be suspended, split and pay | `LabelTrue`, `AuditTrue`, `OneLevel` (while prices are level and baselines reach, section 4); liveness: `Recertified` | 401,498 |
| `FamilyDays` | four receipts in up to two families, two ranges | `Covered`, `PublishedVerifies`, `WindowClosed`, `NeverRevived`; liveness: `CaughtUp` | 2.0 million |
| `ScaleDaily` | one event in five official situations | `AcceptedTogether`, `PublishedOrRestored`, `OneEntitlement`, `ReceiptBacked`, `KindStored`; liveness: `ListRebound` | 990,189 |
| `FilingIntake` | two days, one company, daily task beside bootstrap | `FilingKept`, `InputsAccounted`, `MarksTrue` | 3.6 million |
| `FmpIntake` | three days, two securities, three histories | `OneAsset`, `PricesOfDay`, `PointInTime`, `FactOnce`, `FillComplete` | 369,252 |
| `FollowupTail` | three sessions, two assets, two factors | `ReferenceCovered`, `LatestAsFetched`, `FollowupsComplete`; liveness: `CaughtUp` | 853,449 |
| `WorklistSerial` | three runs on three batches, two of which share a row | `WorklistCurrent`, `ReviewsStand` | 53,744 |
| `EpochStaleLabel`, `FilingRetained` | | disagreements between the code and its own words (section 5) | |

Every module that theorems are about has its type invariant among them; the runs of
`OfficialFamilies` and `FmpIntake` check theirs as well.

*Bounds, CertificationEpoch.* 3-4 days with a holiday between two sessions, two disclosures received
on different days, at most two faults, one task at a time except where sessions die (two). Two
disclosures suffice to have one before and one after any horizon; a holiday is what separates "next
day" from "next session"; two faults reach every state that an interrupted repair of an interrupted
task leaves. Deadlock is checked: a task can always be launched.

*Bounds, SnapshotPublication.* Two days, two components, one filing that arrives at any time, one
stop or lost session: the first published snapshot, its successor with one more leaf per component,
and a retry over what either left half done.

*Bounds, ReturnRebuild.* Four sessions on the calendar days 1, 4, 5 and 6 with a gap limit of three
days: a stock that misses the second session starts a new episode, one that misses the third does not.
One stock trades on every session, the other may be suspended, split once and pay one dividend whose
ex-date is inferred, the case that waits. One stop, reload, correction or publication by another run,
at any point; with two of them (1.3 million states) both invariants hold as well.

*Bounds, OfficialFamilies.* Four receipts make an original with a correction, an attachment and a
withdrawal in every order, or two families of two. Ranges start at the first or the third receipt, so
that a correction may lie outside the range its family reaches into; a range may end one filing
behind the lists, as in a gap replay. One stop or failed request.

*Bounds, ScaleEvidence.* One change of the official content, one file collected again while it is
verified, one stop: enough to leave a seed behind any of its objects and run the next one over it. The five situations are those in which the builder takes different branches: a
stock dividend with its notice, two components with a combined one, a KIND decision beside a
cross-class family, paid rights that need no notice, and paid rights that are refused.

*Bounds, FilingIntake.* Two days: an annual report amended the next day, and a report beside a
profile followed by an ownership disclosure. Two shards of profiles, bootstrap batches of one scope,
one stop, quota error or refused gate.

*Bounds, FmpIntake.* Three days: a security renamed on each of them beside one that is delisted; two
securities renamed and listed later; a security that takes over the ticker of one that has gone. Two
backfills and one stop.

*Bounds, MarketFollowups.* Three sessions with a window of three; an asset that enters NXT on the
second, one delisted on the third; two revisions of the first day's flows, two partitions ahead, one
stop or failed read.

*Bounds, WarningWorklist.* Three runs on three batches with two failing values: a row is opened,
acknowledged and reopened, or resolved and reopened, by one batch or by the two that share it, while
another row is worked on.

`CHECK_DEADLOCK FALSE` is set where the bounded environment ends (no further run, session, filing or
fault) and nothing is left to do.

*Evidence is documents* in `EpochGap` and `EpochSessionLoss`. A structured row whose body is lost
behind a durable marker is detected by nothing; if a later window collects it again and a gap replay
then restores an older published pointer, a label can be certified without it, and so it can when a
session dies. These two ways are the only ones: without gap replays and dead sessions the theorem
`AnyEvidence` covers structured rows too. The loss of a document is refused by the snapshot build,
and then repeated refusals last until a later window lists the receipt again; `Repaired` excepts
that case (`DocumentLost`), since the horizon of the model is shorter than the 14-day window.

*Fairness.* Weak fairness is given only to the steps of a live process, strong fairness only to
launches, since a launch is enabled only between two tasks, and only to those that a schedule or the
repository's README prescribes:

- `EpochGap`: a live process runs on and its PUTs complete, time passes, EventBridge starts the daily
  task again and again, and the operator uses the two repairs the README of the repository names while
  they are needed. Each of the three entry points is needed: without any of them TLC finds a state the
  other two cannot leave.
- `SnapshotEpoch`: a live task runs on, and the preparation of the last day is tried again; nothing is
  assumed of filings, stops or the other programs.
- `RebuildClosure`: weak fairness of `Close` alone, the closure that the daily task and `dart-extras`
  repeat.
- `FamilyDays`: the collection of what is listed today is asked for again and again (`Today`, strongly,
  as it waits for the running one), starts and goes on; nothing is assumed of filings.
- `ScaleDaily`: a live job goes on, and seed, migration and daily task are started again. The seed and
  the migration are started by an operator: `ListRebound` says what follows if they are.
- `FollowupTail`: days pass, the provider delivers and posts, the daily task is started for the next
  day or again for a failed last one, and a live task goes on; gap replays and promotions may happen
  or not.

## 4. Proofs

Constants are arbitrary; each theorem assumes only the named assumption of its module and the
hypotheses that its statement shows.

`CertificationProofs`, of the epoch:

- `TypeCorrect`: `TypeOK` is not inductive, because `NextDay` increments the day; `InRange`
  (a running task's day is at most its last day) makes it so.
- `CoversPrices`: inductive beside the type invariant: prices grow only in the transaction that
  demotes the label.
- `PointInTime`, for document evidence: `FullInv`. What a build collects is *full* (nothing received
  by its end is missing from it) and fullness follows the evidence through pointer, local manifest
  and certified run into the label. `ReadyStands` and `LoadPrepared` are the part that needs the
  epoch fence: a task that skipped the preparation did so on a reading of the label that nobody else
  can change while it owns the epoch, so its unprepared evidence is never applied.
- `AnyEvidence`: the same for structured rows, while sessions survive and no gap replay runs. What fails
  for a row is `FullInv`'s account of bodies, as nobody checks that a row promised by a marker is there.
  `SeenInv` replaces it by an account of days: every completed collection, pointer and certified run has
  *seen* the bodies that were durable when it was made, and a body lands only in a collection of a day
  beyond every published pointer (`PointerCollected`, `BodiesBeyond`), so what a task applies it has
  either built in its own epoch or restored from the pointer of its own target day. A gap replay collects
  an older window under a newer pointer, which is how TLC loses a row (three days, `Documented = {}`).
- `DailyContiguous`, `Contiguous`: `TargetOnly`, the guard's verdict stays true until the load.
- `DemotedFirst`: `Fenced`; needs that sessions survive (section 5 has the other case).
- `Refinement`, with `Durable` (evidence in any store is in Bronze) and `Marked` (the label is BUILDING
  when the rebuild certifies it). Its hypotheses are surviving sessions and either of the two conditions
  under which a label is complete: documents, or no gap replays.

`ReturnRebuildProofs`: `TypeCorrect`, `Audit`, `Label` and `Level` need nothing but the constants. A rebuild that
certifies has recomputed every stock with a current dividend, because an action run owns the rows of
all its actions (section 5, "The comparison"); what is left to append has no dividend in any row, since
a value holds only dividends of the newest snapshot (`CashKnown`) and no dividend ever leaves it; and a
decision that is copied is `NoDecision` (`Undecided`). The lemma `Paid` turns the dividends reinvested
in a row, which the code finds from the row of payment onwards, into the condition on ex-date, record
date and listing that `CashPaid` states. `Level` proves `OneLevel` with the two conditions that the property
itself states, `PricesLevel` and `BaselineReaches` (section 5 shows both being broken). Under the second
the appended rows follow all certified ones and a row restarts an episode exactly where the listing does
(`RestartsOpen`); under the first an appended value differs from the one it continues by nothing
(`AppendedLevels`). `Reached` says when the second condition holds: whenever a rebuild is incremental,
some stock that trades on every session has a dividend in the newest action run (`MarketPays`, the state
of the Korean market, not of the code). Then every run recomputes such a stock, so the last run leaves
a value on every day that any run has left one (`ReachInv`), and even a recovered baseline ends at or
after every certified value.

`OfficialFamiliesProofs`: `Typed`, `Coverage`, `Published`, `Window` and `Revival`. Every page that is
held anywhere is `PageAt(f, n)`: the family of `f` on the day that receipt `n` was the last one filed, so
DART's new filings never change what it says (`SamePage`), and a page is complete up to `n` whatever was
requested in between. What the inductive invariant `Inv` adds is how old a page may be: an entry or an
evidence reaches to the end of the range but for the receipts that the running collection is still to
read (the last argument of `EntryOK` and `Sees`). Reading them closes the gap in two ways. The support
collector compares two readings of every member (`WindowOK`, hence `Window`); the viewer re-reads the
older members of each family that has a new one, after which every newest member is covered
(`NothingPending`) and what it requires is what the verifier will derive (`NoPlain => required = Wanted`,
hence `Published`).

`SnapshotPublicationProofs`: `TypeCorrect` (`TypeInv` adds that a task between two components has one
left) and `Monotone`. `MonoInv`: what a task has read as `previous` or `etag` is what it will
compare-and-swap against, and a snapshot it has built is no older. It holds for any number of tasks
that overlap, stop or lose their session. `Named` is about tasks that do not overlap, wherever they
stop: while one task is at work, what it has still to do and what is stored together cover the files
of the snapshot it will name, and every object of every bundle has the body its key promises
(`NamedInv`); two tasks at once break the second part on the shared disk (section 5). `Refinement` puts
the three invariants together with a fourth (`DurableInv`: what a task has listed, has on the disk and
has built from is durable in Bronze): every step of any number of tasks is a step of `ActionSnapshot` or
a stutter. A switch is a `Publish`, since the comparison that preceded the upload is about the pointer
that the compare-and-swap still finds; an upload is invisible while tasks do not overlap, since the
bodies it stores are those the key promises, and a `Touch` when they do.

`CertificationProofs`, of the worklist that certified quality runs leave (its specification there is
`WorklistSpec`): `WorklistTyped`; `Current`, `Reviewed` and `Cleared` when no projection overlaps a run
(`ProjectsAlone`), for every assignment of batches to rows. The invariant `IInv` relates every row to the last certified report of its scope, and the result of a query that is still
to be written to the same report.

`FilingIntakeProofs`: `TypeCorrect` (`TypeInv`: each local list of a task lies in the scopes of its
day); `FilingsKept`, where `KeptInv` follows a requirement of the day from the lists through the
fetches, whose open ones and answered ones cover it, to the deferred list that the load leaves;
`MarksBacked`, with an invariant per mark (`DividendInv`, `DayInv`, `BatchInv`): what a task is about
to mark has been published from the very list it holds; `InputsKept`, with `StatementsInv`,
`CollectInv` and `PointerInv`: the version a pointer names is always in a set of places that only
grow, the local list among them, and a stop records what that list held in `lost`.

`ScaleEvidenceProofs`: `Typed`, `Accepted`, `Restored`, `Receipt`, `KindBound`, `Entitled`. `VerifyInv` says when a frozen file can be
trusted: one that nobody has collected again since it was frozen had the same content when the
upstream was bound, when the closure was frozen and now; the final sweep compares every frozen file
with the directory, so each file it lets through was there together with all others. `PublishInv`
follows the predecessor that a refused publication restores. `Entitled` follows each persisted run to
a verification of files that a builder wrote from official content (`BuiltSingle`: what the builder
gives one event it gives once; `SingleStep`: no collection, migration or seed adds to it). It counts
rows, so it assumes that a situation has finitely many official files (`FiniteFiles`). `Receipt` is the
promise of the price receipt (`ReceiptBacked`) over seeds that stop behind any object and are taken up
again: `StoredInv` orders the objects in S3, `RunningInv` compares what the running seed read at its
start with what earlier ones left. `KindBound` (`KindStored`) adds `DailyInv`: a daily task works on the
KIND manifest as it is stored, and nothing takes a stored object away, so a row bound to KIND proves
that all of it is there. `Typed`
follows the roles and kinds of rows from the classification into every manifest (`ComponentRole`,
`DartRole`, `KindRole`).

`MarketFollowupsProofs`: `Typed`, whose parts (`WorldInv`, `ReachInv`, `PartitionInv`) bound how far
reference, factors and prices reach; `TailComplete`, where `TailInv` says that a task which has left the KIS
phase has moved the reference to its own last session, because what it prepares or resumes ends
there (`CaptureOK`), and that each factor no longer to do has its range; `LatestFetched`, where
`ReadInv` types what is read ahead and keeps repeated versions out; and `ReferenceKept`: the partitions
a window has checkpointed and those still in its plan are together the keys that the window's listings
and NXT pages ask for, in every resumption of it.

`FmpIntakeProofs`, for every number of days, tickers, securities and histories, every invocation of the
backfill and every stop: `Typed`, `OneAssetEach`, `DayPriced`, `PastAnswered`, `FactsOnce`,
`FillsComplete`, and `Separated`, the half of `OneAsset` that needs no schedule. One publication
rewrites the identifiers of a whole universe, whose rows come out of a walk over all renames so far.
The argument has four layers.

1. *The operators.* `Renamed` and `PublishAssets` are recursive functions over a range of numbers.
   `RunExists` builds the values of such a function up to each number of the range (induction over a
   finite range by `Least`, which needs no theorem with an operator parameter), and so what a step
   keeps holds of the last value: which tickers are admitted and which changes are legs after every
   turn, and that publishing the keys one after the other is publishing each on what was stored of
   its tickers (`Published`).
2. *Whose an asset is* (`Apart`, `Booked`): all identifiers of an asset are tickers of one security
   that owns its tickers alone, or none is, and a price or a fact is booked on an asset of its own
   security. A publication keeps this whatever day its universe is of and whatever is stored, so this
   part, `Base`, is inductive with a backfill beside the daily task (`Separated`).
3. *What the identifiers say* (`Shape(history, ids, s, D)`): as of one common day `D`, the latest day
   published, the identifiers of a security are of one asset, the last ticker has its own dates and alone
   may be open, and those of a security renamed at most once cover all its days. A publication as
   of `D` or a later day takes `Shape` from `D` to that day, since with at most one rename in between
   (`OneMove`; that is what `Linked` is for) the old ticker leads to the asset (`PublishShape`). A
   repair as of a later day keeps `Shape` as of `D` (`RepairShape`).
4. *The schedule* (`Scheduled`: `Serial`, `Filling`, `Priced`, `Level`): nothing is published as of a day
   before `D`, certified days and partitions have their prices, and a partition that a resumed backfill
   passes over was done from the same objects.

The third and the fourth layer assume `~ Beside`: a backfill that publishes from an older download
takes `ids` back behind certified days, and TLC then refutes `OneAsset`, `PointInTime` and `FactOnce`.

*Only model-checked:* every liveness property (`Repaired`, `Published`, `Recertified`, both `CaughtUp`,
`ListRebound`), as `ENABLED` and fairness are beyond the prover. All other properties of the passing
runs are theorems. Not true, and therefore in no theorem: point-in-time completeness of structured
rows beside gap replays (section 2), and one level per episode without the conditions of `OneLevel`
(section 5).

## 5. What the models found

Runs that TLC refutes, each against a sentence of the repository (quoted in `PROJECT.json`):

- `EpochStaleLabel`: a task that inherits a BUILDING label certifies the older horizon after it has
  already observed a new action; if it then fails, the label stays CERTIFIED without that action.
- `FilingRetained`: an input whose pointer has moved before a stop looks unchanged to the retry and is
  never published.

Seen while modelling. A property named as refuted is defined in the module and checked by no run; TLC
refutes it on the instance that the MC module still has, or on the one given:

*Certification.*
- The completion marker is PUT by the pool that PUTs the bodies, in no order (`MarkersProveBodies`).
- A gap replay resumed on a weekday holiday steps over one missed session (`ResumeNeverSkips`).
- The last day of an interrupted gap replay can have its source run certified without a published
  snapshot for it.
- PUTs that are queued when the epoch is lost land after it: `DemoteBeforeVisible` needs sessions
  that survive.

*Snapshots.* Two tasks can share the disk when a session dies: one rewrites a component between the
other's hashing and upload, and the published bundle does not match its entries (`PointerBinds`, two
tasks). The cache warmer takes no lock and can do the same. A retry downloads its component
checkpoints and then overlays the older published snapshot over them, so they are collected again.

*Label.*
- After a split the certified label of a stock without dividends stays on the old price level; its
  returns are right, its first row is no longer `adj_close` (`Anchored`).
- The comparison of an incremental rebuild degenerates. `corporate_action` has one row per action
  and every action run takes all rows over, so the baseline's run has none left and each stock with
  a current cash dividend counts as changed. The models show this is what keeps the label right: with
  a comparison by content (the mutant `ChangedByContent`) `LabelTrue`, `AuditTrue` and `Recertified`
  all fail, through dividends of suspended stocks and through splits.
- Episodes are not always on one level (`Levelled`), for two reasons that `OneLevel` states as its
  conditions. A reload of an episode's first row behind a later split is compared with nothing and
  leaves `adj_close`, and with it the label, on two levels (`PricesLevel`): a stock that trades on the
  sessions 1, 3 and 4, a split on 4, a reload of 3. And the baseline that a run recovers after a stopped
  rebuild ends at the last row of the last run; if that run recomputed only suspended stocks it ends too
  early (`BaselineReaches`, violated in states of `RebuildClosure`), and once the price of a session in
  between has been loaded again the appended rows continue the wrong one (two faults, `Date`
  `<<1, 2, 3, 4>>`, `Gap` 1, both stocks split at most once).
- An action that disappears from the snapshot after a failed rebuild leaves its copied decision
  behind, and the audit would refuse every later closure.

*Official families.*
- The README says the viewer's selector is read again on every run; reused evidence is not
  (`SelectorsCurrent`, with plain terminals).
- Chained plain terminals, or a seed that has turned into an outside probe with old evidence, make the
  viewer collector refuse for good; so does, for the support collector, a recorded attachment of a
  family that receives a new filing, and an attachment outside the range. `Blocked` names these
  states, and `CaughtUp` is about the others.
- The cached probe of a correction before the range stays unselected although a later filing links
  its family to the range.

*Cash-scale evidence.* A seed that stopped behind its first KIND body is taken for a whole one: the next
finds an object under the prefix, reads the missing manifest as one without rows and publishes the price
receipt without KIND (`SeedComplete`; what stays true is `ReceiptBacked`, and `KindStored` says that no
persisted run is misled). A stop between the KIND manifest and the objects it names blocks every later
seed and every daily task (`KindRestores`) until `rebuild_kind_support_manifest.py`, which is not
modelled, or an operator helps. Evidence rebuilt after an economic correction can never be seeded, since the
seed puts an object once and refuses another content. A crash between the writing and the verification
of a manifest leaves an unverified one, which its next reader verifies itself.

*Filings.*
- The two codes of a quarterly requirement stand for each other: the answer for the quarter that is
  already out satisfies the one that is not (`QuarterKept`, schedules `MCQuarters`).
- The full statements of a filing that was deferred are never collected by a later day. A refused gate
  loses the changed inputs for its retry. A dividend answer without data is never asked for again until
  its statement changes. An alternative increment that failed is not retried once the next day has run,
  unless an operator names its day.

*FMP.*
- A ticker that another security takes over on the same day merges both (`NotMerged`, histories
  `MCReused`); a fetch whose body is stored but not sealed makes every retry of a strict feed fail
  (`RetrySucceeds`, histories `MCPlain`).
- A backfill beside a daily step (`Beside = TRUE`) republishes identities from an older download and
  `OneAsset`, `PointInTime` and `FactOnce` fail (`Separated` is what remains); nothing says which of the
  two was meant, so the run keeps them apart.
- Only the newest page of delisted companies is read. A dividend around a rename is stored under both
  keys. `Repair` drops a security renamed twice when the latest universe shows neither ticker.

*Follow-ups.*
- A failed KIS day leaves the Gold factors and the FMP load of that day undone once the next day's
  task has begun; a resumed deferred gap replay loses Gold dates without `--gold-from`.
- A NXT page restated between two attempts leaves an unexpected row that blocks the verification.
- An older day run again after a newer one raises, and a gap of more than forty days needs the
  operator's catch-up. The backfill of `kis_flows` takes no lock. A factor whose SQL changed with a
  deployment raises until an operator rebuilds it.

*Worklist.*
- Runs on different batches without date or partition (`alternative_data.publish_files`,
  `research_backfill`) share the row of their dataset, and the PASS of one resolves the warning of the
  other: `ResolvedByRecheck`. A row says what the last run on any of its batches said
  (`WorklistCurrent`) and nothing about the others.
- A retroactive projection that overlaps a run can reopen a warning that the run has resolved, and a
  reviewer may acknowledge a value that was replaced after it was shown.

## 6. Not modelled

`PROJECT.json` lists every component with its reason. In short: parsing, account selection, quality
rules and factor formulas are computations over data frames without state; collectors of research
data write one immutable object per request; the two destructive rebuilds are disabled in the code;
schema, storage helpers and deployment appear only through the guarantees the other modules use.

Within modelled components: several results of one WARNING rule for one row, which the live projection
would join and no rule produces; the split of the action collector into phases and shards and its API
retries; yearly and initial sweeps of an operator on an empty target; the staging and rollback of
downloaded price and KIND bodies; the refresh mode and command lines of the KIS backfill; issuer
identity and reissued documents in DART families. The pieces of one daily task are in three modules
whose product is beyond TLC; section 2 says why they can be looked at apart.

## 7. What is left

1. Abstract specifications of the worklist and of the filing inputs (a set of pending inputs that only
   publication empties), with `WarningWorklist` and `FilingIntake` shown to implement them.
2. The research backfill with its content checkpoints, and the order in which one-off programs take
   the epoch lock, the return-writer lock and the publication lock.
3. Pure algorithms (listing episodes, native interval union) against reference definitions, in one
   module for TLC.
