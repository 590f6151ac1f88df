# TenantLess: specifications, model checking and proofs

TenantLess serves a synthetic Azure tenant. A Rust server (`mock-server/`) answers ARM
requests from the `synthetic.*` tables of one PostgreSQL database; a Python pipeline
(`src/tenantless/`) fills those tables and makes them drift. This directory models the parts
of it that run concurrently, fail half-way and hold state between requests. Paths below are
relative to the repository root.

## 1. Inventory

| Component | State it keeps | Operations | Interacts through |
|---|---|---|---|
| ARM write plane: `handlers/resource_write.rs`, `etag.rs`, `write_merge.rs` | rows of `arm_overlay` it owns (`source='user'`) | PUT, PATCH, DELETE with cascade, conditional headers | one advisory lock, row locks, the revision sequence |
| Overlay substrate: `sql/009`, `sql/010`, `sql/011` | `arm_overlay`, `arm_overlay_revision_seq`, resolver view and functions | the revision trigger, the CHECKs, the resolved view | every reader and both families of writers |
| Drift engine: `generator/drift.py`, `cli.py` | `drift_batches`, `drift_records`, its own overlay rows | `apply-drift`, `revert-drift`, `reset` | its own advisory lock, the same rows as the ARM writes |
| Control plane: `control.rs`, `job.rs`, `snapshot.rs` | job registry, write gate, signer, snapshot files | generate, analyze, reset, save, restore, delete, poll | child processes, the database, the file system, the signer |
| Estate writer and provisioning: `generator/writer.py`, `cli.py`, `sql/*` | schema, baseline tables, generate lock | provisioning, audit, gate, truncate and write, index build, identity cutover | session advisory locks, DDL and table locks |
| Generator pipeline: `generator/*.py` | the tenant under construction, the pool's chunks | build of each subscription, seven passes over the tenant | a pool of processes; returns rows to the writer |
| Analyzer: `analyzer/*.py` | the tables of a scan, derived terms, the profile | paging, extraction, leak gate, review | DuckDB or Azure Resource Graph |
| Identity folding: `arm_id.rs`, `casing.rs`, `identity.py`, `sql/011` | none | fold, parse, containment | all readers and writers |
| ARM reads: `handlers/resources.rs`, ..., `filter.rs`, `pagination.rs` | none (the page cursor is in the client) | list, get, filter, page | the resolver |
| RBAC, cost and drift reads: `handlers/authorization.rs`, `cost.rs`, `drift.rs` | none | queries | tables of generate and drift |
| Tokens and authentication: `jwt.rs`, `auth.rs`, `token.rs` | the shared signer | issue, verify, swap | the runners swap the signer |
| Simulator and metrics: `sim.rs`, `metrics.rs` | counters | record, summarise | the console polls them |
| Boot and assembly: `main.rs`, `lib.rs`, `config.rs`, `serve.py` | the pool, the router | schema preflights, arming the control plane | everything |
| Console, scripts, packaging | none the server depends on | | HTTP |

What is hard, and what makes each part correct:

* **Write plane against write plane.** Each handler runs up to six statements under READ
  COMMITTED. No ARM write may be lost to another, no user-owned child may survive its parent.
* **Write plane against drift.** The two families take *different* advisory locks and write the
  same rows, so every pair of statements of the two may interleave. User rows must be latched
  against drift, a batch must record only what its records explain, and an ETag must never
  name two representations.
* **Batches reverted in any order.** `revert-drift` recomputes rows by replaying the batches
  that remain; what is then served must be what those batches alone would have produced.
* **Jobs.** One permit, several kinds of runner, children that fail, hang or are killed at any
  point, a non-transactional `setval`, an identity held in memory, files renamed into place.
* **Restarts** forget the registry and the gate; files and tables stay.
* **Commands on one volume.** generate runs four transactions and an unlogged index pass,
  init-db one transaction and the same pass, and both may die between any two. The check of
  `--only-if-empty` and the identity audit are committed long before the TRUNCATE they justify;
  CREATE INDEX CONCURRENTLY leaves invalid indexes behind; the lower() indexes must not go first.
* **A tenant made in passes.** The subscriptions come from processes that finish in any order.
  Then seven passes hold ids of rows that later ones trim, add, retag or rename: what one pass
  wrote must still be true of the tenant at the end, and the trim and pad rounds must settle.
* **A scan of a tenant that does not hold still.** Three paged queries see three tenants. No
  identifier and no rare value may reach a profile, through any of a dozen sections.

`PROJECT.json` lists each hazard at its line with the properties that watch it.

## 2. Modules

```
AtomicOverlay       what the two writers promise: one table, changed in whole steps
OverlayStore        arm_overlay, its trigger and view, READ COMMITTED, row locks
  ArmWritePlane     resource_write.rs: one action per SQL statement
  DriftEngine       apply-drift, revert-drift, reset: one action per SQL statement
    OverlayWriters  the composition, its fairness, and the properties of both
      MCOverlayWriters, OverlayWriters_proofs
      DriftLedger_proofs  the ledger and the refinement, over the invariant of
                          OverlayWriters_proofs
ControlPlane        control.rs, job.rs, snapshot.rs
  MCControlPlane, ControlPlane_proofs
EstateProvisioning  writer.py and the generate and init-db commands of cli.py
  MCEstateProvisioning, EstateProvisioning_proofs
SequentialSubscriptions   what the pool promises: the loop over the subscriptions
SubscriptionPool          the process pool of pipeline.py, which implements it
  SubscriptionPool_proofs
Archetypes                archetypes.py: the label of a template, its confirmation
  SubscriptionBuild       resources.py: the estates a subscription may come out as
    TenantPipeline        pool and passes: calibrate.py ... identity.py
      MCTenantPipeline, TenantPipeline_proofs
ProfileExtract      the extractors of analyzer/
  ProfileBuild      profile.py, the live scan of azure/, the leak gate, review.py
    MCProfileBuild, ProfileBuild_proofs
InductionLemmas     induction and recursion over naturals, lemmas for the proofs
```

### OverlayStore

A row is `[source, present, body, revision]`; `source = "none"` stands for no row. `committed`
is what a new statement sees, `pending[i]` the uncommitted version of the transaction
`owner[i]` that holds the row lock; `View(t)` is what a statement of `t` sees under READ
COMMITTED. `WriteRow` is an INSERT or UPDATE with the revision trigger of `sql/009`; a rollback
gives the row back but not the revision. `LockRow` is `ON CONFLICT DO UPDATE ... WHERE false`,
which locks without writing. `Resolved` is the view of `sql/010`: any overlay row shadows the
baseline.

### ArmWritePlane

`Submit` is a request reaching its handler, with no conditional header, a wildcard, or the ETag
a GET would return at that moment. `TakeWriteLock` is the advisory lock; `ReadOverlay`,
`ReadView` and `ReadTombstone` are the three statements of `read_current`; `Settle` evaluates
the precondition and goes on, or ends the request with 412 or 404. Then PUT and PATCH upsert, and
DELETE gathers its descendants in two statements and tombstones them one by one. `AbortWrite`
is a dropped connection or an error at any of these points.

### DriftEngine

`StartDrift` takes the drift lock. `ApplyRead`, `ApplyMint`, `ApplyOwners`, `ApplyUpsert`,
`ApplyVerify`, `ApplyCommit` follow `apply_drift` in `cli.py`: the scoped read with the seeded
choice of deltas as an arbitrary choice, minted leaves, the deltas dropped on owned ids, the
three passes of upserts, the comparison of predicted and re-read fingerprint, the ledger.
`RevertRead`, `RevertRow`, `RevertCommit` recompute each id of the batch with `Replay`, a
recursive function over the ledger. `ResetScan`, `ResetRow`, `ResetCommit` are the row-by-row
DELETE of `reset`.

### OverlayWriters

The clients and drift commands side by side. `DetectDeadlock` is PostgreSQL's detector: the
cascade locks rows in gather order and apply in delta order, so cycles do happen. `lastRev` is a
history variable for the ETag property.

`AtomicOverlay` is the abstract specification: a table of resources with the stamp each last got,
what each client has asked, and which batches are undone. A request or a command is one step of
it. `Ask` remembers the resource that the request's decision is about; `PutOrPatch` and `Delete`
take effect only if a resource that a user owns is still that one, so towards users a request is
compare-and-swap; towards drift it is not, and the specification says so: a drift resource may
change between the decision and the write, and the request takes what it finds (`Stored`). A
drift command changes nothing but resources that no user owns; `Apply`, `Revert` and `Reset` differ
in what becomes of `undone`. Under every step a resource that changes gets a new stamp.
`OverlayIsAtomic` is its `Spec` with the committed rows for the table, `lastRev` for the stamps,
`req` for what was asked and the reverted flags of the ledger for what is undone. Row locks, the
two reads of `read_current`, the gathers and sweeps of a DELETE and all uncommitted versions are
absent from it: they implement it.

### ControlPlane

`gate` is the semaphore (the job that holds it, or `Free`), `status` the registry, `pc` and
`work` the runners. `Accept` is `try_acquire_owned`, `register_job` with its eviction, and the
spawn. The steps of a runner are those of `job.rs` and `snapshot.rs` in their order, and those
of a child are the points where its effect becomes visible: `GenerateCommit` (then generate goes
on to build indexes), `DumpStart` and `DumpEnd`, `LoadStart`, `LoadSequence` and `LoadCommit`.
`ChildFails`, a spawn error, a nonzero exit or the kill at the timeout, may happen at any of
these. A restore asks for its artifact before it has the permit (`AskRestore`,
`RestoreSnapshot`) and looks again after (`CheckFile`). `ArmPut` is a write of the ARM plane,
which never takes the gate but waits for the TRUNCATE lock of a restore. `Restart` empties
memory and keeps the database and the files. `peak` is a history variable.

### EstateProvisioning

`catalog` is what DDL changes: the base objects, the identity CHECK, the lower() indexes and the
two fold indexes. `rows[t]` is the command whose rows table group `t` holds, and `clashes` says
that ids of the earlier baseline diverge or collide under the fold. `lock` holds the advisory
locks and the table locks of the transactions; a step that needs one (`Needs`) waits for it.
`pc[p]` walks through `generate` or `init_db` in their order: session lock, base schema (bare,
partial or complete), the migrations, the audit, the gate with its prompt, the CPU phase,
TRUNCATE and the COPYs, the commit (`open_writer`), then the index pass: create, validate,
repair, retire the lower() indexes. Every step may `Fail`; `TimeOut` is `lock_timeout` where the code
sets it, `Deadlock` PostgreSQL's detector, `Kill` a killed process. `ArmPut` is the server
beside them.

### SubscriptionPool and SequentialSubscriptions

`sample[i]` is the outcome that substream `i` determines, chosen in `PoolInit` because the child
seeds are spawned before any process runs. A process takes a chunk (`Claim`), builds its indices
(`_pool_worker`) and hands it back whole (`Deliver`); the caller reads in index order (`Read`).
`Crash` is a BrokenProcessPool. With one job or one subscription the caller builds by itself.
`SequentialSubscriptions` is the abstract specification: the loop that appends `sample[i]` in
order, or fails as a whole. `PoolRefines` is its `Spec` under `built <- merged`.

### Archetypes, SubscriptionBuild, TenantPipeline

`Archetypes` is the catalog of the source, with its scores doubled to stay integers, the import
check `validate_catalog` as an assumption, and `match_template` and `confirm_token`. In
`SubscriptionBuild` every seeded draw is a choice, so `_build_one_subscription(i)` is the set of
estates its function may return: groups named for their templates, rows of the drawn types, and
the wiring of machines, interfaces, disks, networks and subnets with the companions it mints.
`TenantPipeline` puts the pool in front and runs the passes in `PassOrder`, one action each but
for calibrate, which trims and pads in rounds (`TrimRound`, `TrimPass`, `PadRound`, `Calibrated`).
An id is the path it stands for and so names its group: the rename of `ConfirmAndRename` has to
rewrite it in every table, as the sweeps of the source do.

### ProfileExtract, ProfileBuild

`ProfileExtract` has one operator per extractor: the set of strings that a section repeats, with
the counts, allowlists and shapes that decide it. `ProfileBuild` is one call of `build_profile`: a
file read in one piece, or the three paged queries, each page answered from the tenant of that
moment with any continuation token; then the terms, the gate, the extraction with any
clustering of the subscriptions, the last scan for terms, and the two files.

## 3. What each run checks

| Run | Specification and bounds | Properties |
|---|---|---|
| `races` | 2 clients, 2 requests, 1 drift command, a parent and a child | `TypeOK`, `NoLostUserUpdate`, `CascadeSweepsUserRows`, `EtagNeverReused`, `OverlayIsAtomic` |
| `undo` | 1 request against 2 drift commands, 1 field, fairness | `UserOwnershipIsLatched`, `EveryTransactionEnds` |
| `ledger` | 1 request, 3 drift commands, 1 field, a baseline id and a mintable one | `LedgerExplainsServedState`, `RecordsExplainResult` |
| `control` | 3 jobs, 2 names, 2 tenants, 1 ARM write, 1 restart, fairness | the ten properties of ControlPlane |
| `provision` | 2 commands of any kind, every kind of volume, 1 ARM write, 1 kill, fairness | the seven properties of EstateProvisioning |
| `generation` | 3 subscriptions, 4 templates, 2 processes or none, a target of 6, fairness | the nine properties of TenantPipeline |
| `analyzer` | 6 rows of 2 subscriptions, 3 groups, 2 tokens, a floor of 2, fairness | the five properties of ProfileBuild |
| `ifmatch`, `phantom` | claims of the code about the two writers | violated, see section 4 |
| `rewind`, `identity`, `hang` | claims of the code about jobs | violated, see section 4 |

The properties, in words:

* `NoLostUserUpdate`: a request about to commit over a user-owned row overwrites the very row
  its `read_current` returned.
* `CascadeSweepsUserRows`: a DELETE about to commit leaves no user-owned resource live below
  its target, with creations, deletions and aborts racing it.
* `EtagNeverReused`: a committed version of a row carries a higher revision than any earlier
  version of that id, through reverts, resets and rollbacks that removed the row meanwhile.
* `UserOwnershipIsLatched`: a committed user-owned row changes only by the request that locked
  it, or by a reset.
* `OverlayIsAtomic`: the statements of requests and drift commands, interleaved as they may be,
  have the effect of one atomic step each on one table (`AtomicOverlay`).
* `RecordsExplainResult`: a batch in the ledger recorded as its result exactly its parent rows
  with its own records applied, whatever ARM writes committed between its statements. There is
  one exception, which the property names: a client that creates the very body of a leaf before
  the batch mints it takes the record away, and the batch still verifies with that body.
* `LedgerExplainsServedState`: the incremental snapshots of apply and the recomputation of
  revert agree, for batches that overlap and are reverted in any order.
* `EveryTransactionEnds`: requests and drift commands never wait on each other for good.
* `GateFreeMeansSettled`: when the gate is free no poll shows a job in flight, so no job's tail
  overlaps the next job.
* `RegistryBounded`: the registry stays within its retention and keeps the job in flight.
* `SuccessServesTenant`: when a job that changes the tenant is published as succeeded, the
  served identity is the tenant of the estate.
* `SuccessPublishesDump`, `SnapshotsAreWhole`: a save is published only when the artifact is the
  dump it took; no artifact is ever a dump cut short.
* `ArchiveHeld`, `RestoreIsAtomic`, `RestoreKeepsRevision`: a restore's artifact stays put from
  check to decode; the tenant changes only when its load commits, and to the archive's; a
  restore that succeeds leaves the sequence no lower than it found it.
* `JobsEnd`: every accepted job reaches a terminal status and gives the permit back.
* `DoneMeansSwitched`: once any generate or init-db has reported success, both fold indexes are
  valid and no lower() index is left, whatever the others do then.
* `NoLeakedRows`: after a re-seed no table holds rows of an earlier estate.
* `OnlyIfEmptyNeverReplaces`: when the write of `--only-if-empty` commits, the tables are empty
  still, not only when its gate looked.
* `RetiredOnlyWhenReplaced`: a lower() index is dropped only while both fold indexes are valid
  and no baseline id diverges or collides.
* `DivergentEstateKept`: during the switchover a baseline the audit refuses is never replaced.
* `CommandsEnd`: every command ends if its prompts are answered: no session lock is held for good.
* `PoolRefines`: whatever the number of processes and the order they finish in, the
  subscriptions are those of the sequential loop; this is the byte identity `--jobs` promises.
* `UniqueIds`, `NoDanglingReference`: after every pass, the rename included, ids are unique, and
  every id that a row, violation, dependency, cost row or role assignment holds names something.
* `NamesAreHonest`: a finished group bears its template's token only if the rows it ended up
  with confirm it. `ViolationsHold`: what `synthetic.violations` says is true of the finished
  tenant; of a public address, that the interface has one, be it not the one recorded
  (section 4). `DependenciesCross`: a dependency is about two subscriptions, those of its ends.
* `CalibrationSettles`: the total ends in its band, or nothing more can be trimmed or grown, or
  it is at the rounded aim of the trim, which lies outside the band of a small target.
* `GenerationEnds`: the call returns, with a tenant or failed as a whole.
* `NoIdentifierPublished`: no string of a written profile, and no token of one, is a term of the
  denylist or the name, group or subscription of a row it was made from.
* `RareValuesHidden`: what a section that counts rows publishes was seen on at least as many rows
  as the floor, and a cost distribution was fitted to at least as many samples. A sample is a
  billing month of a resource, so the latter does not bound the resources (section 4).
* `EveryRowHasItsGroup`: when a live scan closes, each row's group is counted, once.
* `AnalysisEnds`: the call returns, however the service repeats its tokens or hands them round in
  a circle. `Tokens` is finite: the code limits no query to a number of pages, and a service that
  always had a fresh token would keep it reading.

Each property has a mutant: a plausible bug in the modelled code (a lock not taken, a trigger
on INSERT only, a guard dropped from a DELETE, a rename skipped, a child that nothing kills)
under which the same run finds it violated.

### The bounds, and why they are enough

Two ids suffice for the overlay: the interactions are between a target and a descendant, and
between a row and its baseline. Two clients and one drift command make every pair of actors
race; the advisory locks serialize the members of a family, so a third adds queueing and no
new pair. `undo` has two drift commands so that an apply and its revert or reset both meet a write,
and `ledger` has three so that two batches can be applied and either
reverted, the first under the second; the theorem about it covers any number of them.
In `races` a PATCH names no field or every field, so that what it keeps can be told from what it
sets; one batch is applied there, and its revert is left to `undo` and to the theorems.
`Val` has two values, so a change can be seen and undone. In `control`, three jobs give a save, a
restore and a job between or after them, and one more than the retention of 2, so eviction
happens. `MaxRequests`, `MaxOps`, `MaxJobs`, `MaxPuts` and `MaxRestarts` are the only
artificial bounds; each is a guard on the arrival of work and none is on its completion. With
the bounds reached the model stops, so these runs switch deadlock checking off.

In `provision` two commands make every pair of steps race, of the same kind and of different
ones; a third adds queueing. `Volume` lists the kinds of volume the code tells apart. One kill is
enough beside the failures, which are unbounded; `CHECK_DEADLOCK FALSE` because an unanswered
prompt may be all that is left.

In `generation` the three subscriptions are chosen so that each pass has work: two groups in one
subscription, machines that share interfaces and disks, networks, an address, a cluster that pulls
from a shared registry, a miscellaneous group, groups that come out empty. The target of six
lies between the smallest and the largest estate, so calibrate trims in some behaviours and
pads in others; the band of 5% around it holds 6 alone, so both overshoot. `Chunk = 1` stands for 8 so that both processes get work. `MaxPerCode` and
`Targets` bound the two passes that would otherwise multiply the states most. Deadlock is checked: a run stops only in `Returned`.

In `analyzer` `MIN_BUCKET_FLOOR = 2` stands for 5, with sizes on both sides of it; six rows give
buckets above, at and below it; one resource has two months of costs, so the samples of a type
reach the floor on one row too. The rows have the cases the extractors treat apart: two
spellings of a group and of a type, a group named like a kind, a resource like a part of a type
or like a tag value, identifier-shaped keys. Two tokens give a circle of tokens. A page may be any set of rows
not read yet, so rows appear and vanish between pages and queries. Deadlock is checked.

### Fairness

`OverlayWriters!FairSpec`: strong fairness for each transaction's next statement, because
PostgreSQL queues lock waiters in order and tokio polls ready tasks; weak fairness for the
deadlock detector, which runs after `deadlock_timeout`. Arrivals and failures have none.

`ControlPlane!KillSpec`: weak fairness for the server's own steps, whose SQL has a
`statement_timeout`, and for the failure of a child, which the timeout of `job.rs` forces; none
for a child's progress, so a child may hang at every point. `FairSpec` adds that `pg_restore`,
which the server awaits with no timeout, ends; the `hang` run drops that assumption.

`EstateProvisioning!FairSpec`: weak fairness of each command's next step, failures and the
deadlock detector included; none for the answer to a prompt, for kills or for ARM writes.
`CommandsEnd` therefore assumes that prompts are answered, and is otherwise about locks.

`TenantPipeline!Spec`: weak fairness of the pool's processes and of the passes, which run in one
thread of control. The latter is written `[]<>~Running \/ []<><<Pass>>_vars`: `Running` says when
a pass can step, which spares TLC an ENABLED over the choices of a pass. Crashes have none.
`ProfileBuild!Spec`: weak fairness of the call's own steps: every query is answered or fails,
because the client has a timeout. `ScanAssumption` on ids is what ordering by id needs.

## 4. Where the code says more than it does

* `ifmatch`: `resource_write.rs` calls the ETag read and the dependent upsert one atomic unit.
  Drift commands do not take its lock, and an apply can commit in between.
* `phantom`: `cli.py` says a delta over a user-owned id never persists. The owners are read
  before the writes; a DELETE that commits in between leaves a record for an owned id.
* `rewind`: `snapshot.rs` says the revision counter can never rewind. `setval` is not
  transactional and the forward clamp runs only after a success: a psql killed after it leaves
  the older counter. An ARM write between the reading of `pre_revision` and the TRUNCATE has
  the same effect on a restore that succeeds, and until the clamp has run, ARM writes after
  the load draw from the older counter.
* `identity`: `job.rs` says the served identity tracks the tenant once a job commits. A generate
  that fails after its commit, in its index build or by the timeout, changes the tenant and
  skips the refresh.
* `hang`: `job.rs` says a job that exceeds the timeout is killed. The two `pg_restore` children
  of a restore are awaited without it.

Other remarks and code met on the way, which no run is about:

* The comment over `save` (`snapshot.rs:170-172`) has the permit released before the rename; the
  code below it holds the permit through the rename.
* `resource_write.rs` calls the gathered set of a DELETE snapshot-consistent with its tombstones.
  A revert can un-hide a drift-owned child in between, which is then live below a deleted
  parent; `CascadeSweepsUserRows` is about user-owned rows.
* Overlay rows that an ARM PUT commits between the gate of `--only-if-empty` and the TRUNCATE
  are lost (`cli.py:744-748` speaks of the check and the write as one step); hence
  `OnlyIfEmptyNeverReplaces` leaves the overlay out.
* `cost.py:22-25` drops a type with fewer than `min_bucket_size` samples "so no low-count type can
  fingerprint a real tenant", which does not follow: a sample is a resource in a billing month
  (`reader.py:404-417`), so one resource billed for five months has its type published, with a
  distribution fitted to that resource alone. `MCRows` has such a resource; counted in rows instead
  of samples, `RareValuesHidden` fails on a file that holds no other.
* Tag keys, the types of the misc template and those with an untagged rate have no minimum,
  although the docstring of `cooccurrence.py` says that every distribution is gated.
* `resource_types.extract` overwrites an entry when two spellings share a key; its docstring
  has the shares sum to about 1. `type_shapes` then asks for one of the spellings only.
* The review shows six of the sections; `review.py:42` says that it collects them all. A crash
  between the two writes leaves a profile with no review.
* An interface that two machines share keeps the address of the later violation
  (`violations.py:415`). Trimming treats a nested parent like any row (`calibrate.py:105`).
* The loop for a free group name (`pipeline.py:783`) has no bound; numbers do not run out, in the
  model either.
* A target of 13 has a band without an integer but 13 itself, and `AimHigh` is 14: calibrate ends
  at 14, outside its band, with rows left that may be trimmed. Hence the last case of
  `CalibrationSettles`.

## 5. What is proved

TLAPS checks eight modules of proofs: one for each modelled component, `DriftLedger_proofs` for
the ledger and the refinement, and `InductionLemmas`. All of them take the assumptions that the modules name for
their constants, and nothing else.

`OverlayWriters_proofs` holds for all values of the constants: any sets of ids, clients, drift
commands, fields and values, any baseline and containment relation, any number of requests, under
`StoreAssumption`, `WriteAssumption`, `DriftAssumption` and `InputAssumption` only.

| Theorem | Statement |
|---|---|
| `TypeCorrect` | `Spec => []TypeOK` |
| `UserUpdatesNotLost` | `Spec => []NoLostUserUpdate` |
| `CascadeComplete` | `Spec => []CascadeSweepsUserRows` |
| `UserOwnershipLatched` | `Spec => UserOwnershipIsLatched` |
| `EtagsUnique` | `Spec => EtagNeverReused` |

None of the invariants is inductive by itself. The inductive invariant is
`IInv == TypeInv /\ LockOK /\ ReadsOK /\ RevOK /\ SweepOK`:

* `TypeInv`: the types, and `PhaseOK`, what a request and a plan hold at each of their
  statements (a PATCH that reached its upsert has read a body, a field delta has a parent row).
* `LockOK`: a request past the queue is the holder of the write lock, which excludes two of
  them; a row lock belongs to a transaction in its writing statements; a request's uncommitted
  rows are user-owned; and a drift command leaves a user-owned row as committed unless it is a
  reset. This is what latches user ownership.
* `ReadsOK`: as long as a request runs, if the committed row of its target is user-owned then it
  is the one the request's reads remember. Drift may change a drift row under it, never a user
  one, and other requests are kept out by the lock.
* `SweepOK`: from the first gather on, every descendant that is user-owned and live, as the
  DELETE sees it, is still in `sweep`.
* `RevOK`: `lastRev` is at most `seq` and is the revision of the committed row when there is
  one; an uncommitted version that differs from the committed row is newer than `lastRev`.

There is one lemma per action for the types. For the other conjuncts the actions are first
reduced to what they do to the store (`DriftMove`, `ClientMove`), and preservation is proved per
kind of move; the action properties follow because a committed row changes only in a commit
(`ChangeIsCommit`).

`DriftLedger_proofs` goes on from `IInv` to what the ledger explains, and to the refinement.

| Theorem | Statement |
|---|---|
| `LedgerExplains` | `Spec => []LedgerExplainsServedState` |
| `RecordsExplain` | `Spec => []RecordsExplainResult` |
| `OverlayImplementsAtomic` | `Spec => OverlayIsAtomic` |

`Replay` is a recursive function over the ledger. `ReplayOf` is its value as a fold of `Take`,
and induction on the number of batches shows that two ledgers whose batches do the same to an id
replay to the same row (`SameTakes`), that a batch more is replayed last, and that a batch which
does not mention an id may be left out for it. The invariant `LInv` adds to `IInv` what the
running command knows (`StageOK`): an apply's parent rows are still what is served, except where
a user took the row (`ScanOK`); it writes only rows it has a record of (`WritesOK`); at its
commit the verified rows are the predicted ones (`VerifiedOK`); a revert has brought every id it
is done with to the replay of the remaining batches (`RevertOK`); a reset has cleared or will
clear each drift row (`ResetOK`). The drift lock lets one command run at a time (`OneCommand`), so
each step touches the part of one command.

`OverlayImplementsAtomic` maps every step of the two writers to a step of `AtomicOverlay` or to a
stutter. Its invariant `RefineInv` adds to `LInv` the way of each request from its decision to
its commit: the decision was permitted over the row its reads remember (`Decided`), and the rows
it holds uncommitted are the ones the abstract request may leave (`Intends`). By
`ReadsOK` a user-owned row at the commit is the row remembered, so the decision still stands:
this is where compare-and-swap comes from, and why it ends at the drift rows. No row that
an apply has pending is a removal (`Adds`). The commits are then the abstract steps
(`CommitIsAtomic`, `ApplyIsAtomic`, `RevertIsAtomic`, `ResetIsAtomic`); `StepRestamps` serves all
of them with the new stamps.

`ControlPlane_proofs` does the same for the control plane, for any names, tenants, retention and
number of jobs, ARM writes and restarts, under `ControlAssumption` and `DumpAssumption` only.

| Theorem | Statement |
|---|---|
| `TypeCorrect` | `Spec => []TypeOK` |
| `GateGuardsJobs` | `Spec => []GateFreeMeansSettled` |
| `PublishedIdentity` | `Spec => []SuccessServesTenant` |
| `PublishedDump` | `Spec => []SuccessPublishesDump` |
| `NoTornSnapshot` | `Spec => []SnapshotsAreWhole` |
| `ClampWorks` | `Spec => []RestoreKeepsRevision` |
| `ArchiveIsHeld` | `Spec => ArchiveHeld` |
| `RestoreAtomic` | `Spec => RestoreIsAtomic` |
| `RetentionHolds` | `Spec => []RegistryBounded` |

Its inductive invariant is `TypeOK /\ Held /\ (\A j : JobOK(j)) /\ SnapshotsAreWhole`. `Held` is
the core: a runner that is not idle is the holder's, so there is at most one. `JobOK(j)` says
what the place of a runner implies: of the status and kind of its job (`PlaceOK`: a settled job
is past its last status change, a `clamp` belongs to a restore), and of what it has achieved
(`ResultOK`: the partial file is its dump until the promotion and the artifact after it, the
signer is the estate's tenant from the refresh on, the sequence is at least `pre` from the clamp
on). A step of a runner needs `JobOK` of its own job only (`HolderSteps`), a step outside the
runners is an instance of `OutsideStep`. The two action properties follow from the steps that
can change a snapshot or the tenant at all (`SnapChanges`, `TenantChanges`). `RetentionHolds`
counts what eviction leaves: a full registry always has a settled job to evict, because the gate
was free.

`EstateProvisioning_proofs` is for any number of concurrent commands, ARM writes and kills, under
`ProvisioningAssumption` only.

| Theorem | Statement |
|---|---|
| `TypeCorrect` | `Spec => []TypeOK` |
| `SuccessIsLasting` | `Spec => []DoneMeansSwitched` |
| `ReseedLeaksNothing` | `Spec => []NoLeakedRows` |
| `IfEmptyIsCritical` | `Spec => OnlyIfEmptyNeverReplaces` |
| `RetirementIsSafe` | `Spec => RetiredOnlyWhenReplaced` |
| `DivergenceIsKept` | `Spec => DivergentEstateKept` |

Its `IInv` adds to the types and invariants `BaseOK` (only a complete base diverges, the base is
created under its lock), `RowsOK` (rows of a command came with its tenant) and, for each command,
`ProcOK`: the session lock and the builder lock are held where they should be, what the audit
and the gate found is still true (`AuditOK`, `GateOK`), and the indexes struck off are valid
(`IndexOK`). That last part holds a fact the properties do not show: a builder about to repair an
index knows that no command has reported success. The argument is rely and guarantee: `Quiet(p)`
is what a step of `p` leaves to the others, `OthersKept` that their `ProcOK` outlives a quiet
step, so each action needs only its own command's part (`Assemble`, `Moves`). The action
properties then follow from the steps that can change rows (`RowsChange`) or drop an index
(`LegacyShrinks`).

`SubscriptionPool_proofs` is for any number of subscriptions, jobs and processors and any chunk
size, under `PoolAssumption` only: `PoolImplementsLoop`, every step of the pool is a step of
`SequentialSubscriptions` or a stutter (the safety half of `PoolRefines`), and
`MergedInIndexOrder`, what has been merged is `sample` in index order. The invariant says that
a delivered result is the sample of its index, and that with no pool the caller builds alone.

`TenantPipeline_proofs` is about the pool with all the passes behind it: for any profile,
catalog of templates, number of subscriptions, target, draws and schedule, under
`PipelineAssumption`, `ProfileAssumption` and `PoolAssumption` only.

| Theorem | Statement |
|---|---|
| `PipelineTyped` | `Spec => []TypeOK` |
| `ReferencesResolve` | `Spec => []NoDanglingReference` |
| `IdsStayUnique` | `Spec => []UniqueIds` |
| `NamesConfirmedHonest` | `Spec => []NamesAreHonest` |
| `DependenciesAlwaysCross` | `Spec => []DependenciesCross` |
| `ViolationsStayTrue` | `Spec => []ViolationsHold` |
| `AssertionNeverFails` | `Spec => [](phase # "failed")` |
| `CalibrationAlwaysSettles` | `Rounds >= 3` implies `Spec => []CalibrationSettles` |
| `FourRoundsSuffice` | `Spec => [](round <= 4)` |
| `PipelineReadsLoop` | `Spec => Sequential!Init /\ [][Sequential!Next]_Sequential!vars` |

The inductive invariant is `PipelineInv`, one predicate on the tenant for each stretch of
passes, and one on the tables:

* `Sound(T, {})` and `Wired(T)` until `inject`: ids are unique, every row lies in a group,
  references resolve (`Solid`); a row with a child's name belongs to a network that remembers it
  (`ChildrenOwned`), which is why a second wiring mints no second subnet; groups are named for
  their templates (`Labelled`); `generate_resource` knows every id there is (`Known`); every
  machine has its interface (`Wired`), which `VM_PUBLIC_IP` needs.
* `Sound(T, {T_PIP})` until the rename: the addresses that `inject` mints by hand are not in
  `seen`. Nothing after it mints an address, so no id can repeat. This is the one place where
  uniqueness rests on the order of the passes.
* `Solid(T)` and `Honest(T)` from the rename on: `seen` and the labels are out of date by then.
* `TablesSound`: a table is empty before its pass, then about the rows of the tenant, and true
  of them (`ViolationsTrue`, `DepsTrue` with the hubs as a witness).

Every pass is a nest of folds. A fold is shown to preserve a set of tenants (`Grown`, `Trimmed`,
`PublicSoFar`, `Linked`, `HeldByOthers`) by induction on its length, with `RecursionDefined` of
`InductionLemmas` to unfold its recursive function. The proof of the rename shows first that no
two groups of a subscription get one name, whatever is vacated meanwhile (`Confirmed`), hence
that `Moved` is injective on rows, and then that the sweep keeps everything that was true.

The two theorems about calibrate need to know how far a fold goes, not only what it keeps.
`PassTrimmed` says of a pass of `_trim` that it never goes below the rounded aim and that it removes
nothing just when the total is there already or nothing may be trimmed; `BatchPadded` says that a
round of padding adds at least the rows asked for, unless no group can grow. `RoundsInv` counts
with these: at most two rounds pad, because the first ends at the lower aim or above and one more
row is then enough; no trim falls back below the band (`AimFacts`), so none pads after it; and a
trim that does not end in the band cannot be improved by another (`Exhausted`), so the second one
ends calibrate. `calibrate.py:226-227` caps the loop at twelve "so a pathological profile
can never spin forever (it accepts the closest)": no profile makes it begin a fifth round
(`FourRoundsSuffice`), and after three it has settled already. With one round TLC
finds a batch whose overshoot stays untrimmed. Two are enough for the instance checked, but not for
the argument, which cannot exclude that both pad (the lower aim of a target of 13 is below its
band), whence the assumption of `CalibrationAlwaysSettles`.

`ProfileBuild_proofs` is for any tenant, pages, tokens, tables of patterns and clustering, under
`ScanAssumption` only: finitely many rows with an id each, and finitely many months of costs.

| Theorem | Statement |
|---|---|
| `TypeCorrect` | `Spec => []TypeOK` |
| `DataBoundary` | `Spec => []NoIdentifierPublished` |
| `MinimumAggregation` | `Spec => []RareValuesHidden` |
| `GroupsComplete` | `Spec => EveryRowHasItsGroup` |

For `DataBoundary` the invariant says that the terms hold the identifiers of every row read so
far (`ScanOK`), which each page has to keep, and that neither terms nor profile change once the
last gate was passed (`GateOK`). `MinimumAggregation` is a lemma per section about the counts of
rows, or samples (`SeenOn`), behind it; `GroupsComplete` follows from what the closing step adds.

`InductionLemmas` has what several of these need. The induction theorems of the standard library
take an operator as a parameter, which the installed provers cannot instantiate; here induction is
stated for a set of naturals (`NatSetInduction`, `BoundedInduction`) or a function
(`RecursionDefined`), which they can. Recursion in the modules proved about is by functions,
never by RECURSIVE operators.

Only model-checked: the liveness properties (`EveryTransactionEnds`, `JobsEnd`, `CommandsEnd`,
`GenerationEnds`, `AnalysisEnds` and the liveness half of `PoolRefines`), because fairness and
ENABLED are out of the prover's reach. Every invariant and every action property of the runs, and
the safety half of both refinements, is stated by a theorem.

## 6. Abstractions

* An id is an identity class of `sql/011`; raw casing and folding are not in the overlay
  modules. A body is a function from one or two fields to two values.
* A field delta per id and batch stands for several: apply writes one snapshot per id anyway.
* A SHA-256 fingerprint is the set of rows it hashes, a baseline ETag the body it hashes.
* The trigger draws its revision when the row lock is obtained; gaps in the sequence are left
  out. A GET of two statements is one read for the ETag a client holds.
* In `ControlPlane`, synthetic tables are a tenant and the revision of the last ARM write. The
  load of psql is one step, its `setval` another, in the order pg_dump writes them.
* In `EstateProvisioning` tables are grouped by who writes them together, and a table's rows are
  the command that wrote them. The twin migrations of a group of tables are one step; so is each
  COPY. The Rust server's boot, which applies the same migrations, is not among the commands.
* In the generator a name is its token and number: one business unit and environment, so names
  collide as soon as tokens and numbers do. Where the code orders by id or name, the model
  takes the order of the rows. A network has one subnet. Properties, tags but one, costs and
  principals have no content; a pass's draws are any subset up to a bound.
* In the analyzer a section is the set of strings it holds; a resource's costs are the months with
  a positive amount, its id spelled one way in them; the numbers beside them, top-N cuts
  and k-means are left out (any partition of the subscriptions may be the clustering), and
  patterns, words and case folding are tables given as constants. `Init` chooses the arguments.
* A job's log, phase and parsed result, argument validation and safe names are left out. A
  panic of a runner is not modelled; nor are grandchildren of the pipeline command, which the
  kill may not reach, and children that outlive a killed server.

## 7. Not modelled

The read handlers hold no state and the console is a client of them; the page cursor is the last
id, and the id a row is served under does not change while it is there. The fold of ids, the
filter and the pager are pure functions on strings with unit tests. Cryptography, TLS, routing
and configuration parsing have unit tests that fit them better. Of the modelled parts: the Rust
twin of the provisioning and its preflights, argument validation and the job log; the contents
of generated rows and the random number contract of `rng.py`; the numbers of a profile; and
the build, release and benchmark scripts.

## 8. Plan

1. The booting server as a third command of `EstateProvisioning`: it applies the same migrations
   with other timeouts, and may start while generate runs.
2. `ControlPlane` with orphaned children and the profiles directory.
3. The pure algorithms that carry rules rather than data: the OData filter, token validation
   and its clock edges, the simulator's windows, each an operator checked against a reference
   definition over bounded inputs; a page walk over the changing overlay.
