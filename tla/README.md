# Shadow Relay in TLA+

A verification project for Shadow Relay, the Go control plane that collects media
source configurations, reviews their revisions, checks their health, compiles
source sets into immutable publications and serves these to client devices. The
modules here are translated from the code in `src/`; file and line numbers below
and in `PROJECT.json` ("map") refer to it.

## 1. Inventory of the system

One binary runs an HTTP API, a pool of worker goroutines, or both
(`cmd/relay/main.go`); several processes may share one PostgreSQL database. All
state lives in JSONB rows there and in an encrypted snapshot directory. A second
binary, `relay-bridge`, polls one published artifact and installs plugins beside
a Hub.

| Component | State | Operations | Talks to |
|---|---|---|---|
| Store (`store.go`) | one table per entity | `Write` (a transaction under one advisory lock), `Get`, `List`, `Put`, `Insert`, `Delete` | everything |
| Job queue (`service/jobs.go`) | `jobs` rows: status, attempts, available_at, lease, token | `Enqueue`, `schedule`, `RetryJob`, claim, heartbeat, finish | sources, sets, catalogs, runtimes as targets |
| Source review and health (`service.go`, `content.go`, `steward.go`) | source row (policy, health, failures, active and staged pointers), revisions, tombstones | `Import`, `EditSource`, `SetHeaders`, `SourceAction` (seven actions), `SoftDeleteSource`, `UndoDeleteSource`, `DeleteSource`, `SyncSource`, `StageContent`, `Probe` | fetcher, adapters, aggregates |
| Source sets and publications (`publisher.go`) | set rows (members, current and previous publication, signature), publications | `SaveSet`, `Publish`, automatic publish, `RollbackPublication` | sources, revisions, runtimes |
| Aggregates (`aggregate.go`) | one system set and binding per kind of media | upsert and remove after enable and disable, strip on delete, withdraw, `ReconcileAggregates` | source actions, publisher, queue |
| Bindings (`publisher.go`, `steward.go`) | token hash, generation, revoked, expiry | `CreateBinding`, `BindingAction`, `Resolve`, `Feedback`, `ResetPersonalCredential` | publications |
| Catalogs (`catalog.go`) | catalog rows, candidates | `SaveCatalog`, `SyncCatalog`, `CandidateAction` | fetcher, sources |
| Runtimes and Hub (`runtime.go`, `hub.go`) | runtime rows | `SaveRuntime`, `TestRuntime`, `ProbeHub`, `ReloadHub` | fetcher, probes |
| Hub bridge (`cmd/relay-bridge`, `bookplugin/sync.go`) | plugin directories with receipts, a lock directory, ETag and `reloadPending` in memory | poll, `Install`, reload | subscription, Hub |
| Outbound fetcher (`fetch/`) | slots and circuit per host | `Get`, `PostJSON`, address policy | everything remote |
| Transfer (`transfer/`, `httpapi/transfer.go`) | archives, staging and seed directories | `Prepare`, `Import`, `Export` | all tables and snapshots |
| Compilation (`publisher.go`, `exports.go`, `bookplugin/convert.go`) | none; its result is a publication | order, filters, overrides, merges, manifest, Bundle | publisher |
| Other pure parts | none | adapters, texts of the artifacts, rule translation, `play.go` | |
| HTTP API, web console | sessions, rate limits | routing | service |

**What is hard about it.**

* *Interleaving.* `DB.Write` serialises write transactions, and nothing else is
  serialised: a sync reads a row, fetches for up to 95 s and commits; a probe
  does the same at the same time; an operator's enable is three transactions;
  heartbeats and finishes of jobs bypass the lock.
* *Crashes and pauses.* A process may stop between a claim and its finish,
  between the two transactions of an import, between a source's row and its
  aggregate. A paused machine resumes with a lease that is no longer its own.
* *Time.* Leases, backoffs and a transaction clock that stands still while the
  transaction waits for the advisory lock.
* *Retries.* Jobs are retried with a bounded number of attempts, coalesced per
  target, and reopened by operators.
* *Staleness.* Results are guarded by `updatedAt`; publications by a signature of
  their inputs.

**What makes each component correct.** Queue: one active job per target, one live
worker per job, bounded attempts, no lost or resurrected job. Review: what is
served was approved, no stale background result overrides a later decision,
rejected content stays out. Health: agrees with the checks that were made, and
only operators lift a quarantine. Aggregates and publications: members are the
enabled sources, what is served follows, and a bad day does not empty it.
Bindings: a revoked token stays revoked. Bridge: every installed change is
followed by a reload. Fetcher: slots are never exceeded and are given back.
Transfer: an import is all or nothing.

The full list of hazards, each at its line with the properties that cover it, is
in `PROJECT.json` ("hazards").

## 2. Modules

| Module | Models |
|---|---|
| `JobQueue` | the queue: rows, scheduler, operators, worker loops, leases, relative time |
| `JobBoard` | what the queue promises its clients, without workers, leases or time |
| `JobQueueProofs` | the inductive invariant of the queue and its theorems |
| `SourceLifecycle` | one source: revisions, review, health, tombstone, background runs |
| `SourceReview` | what a source's review promises, by contents alone: no revision ids, runs or versions |
| `SourceQuarantine` | the same with a history variable for the quarantine |
| `SourceLifecycleProofs` | the inductive invariant of the source, its theorems and the refinement of `SourceReview` |
| `Aggregates` | sets, members, publications, and the calls that run over several transactions |
| `AggregatesProofs` | the theorems about sets and publications |
| `Bindings` | the tokens of a set's bindings, the vault's token of an aggregate, personal resets, `Resolve`'s two reads |
| `Credentials` | what a token is to its holder: issued once, live for a while, then ended for good |
| `BindingsProofs` | the theorems about tokens and the refinement of `Credentials` |
| `BridgeSync` | bridges on one plugin root: polling, the lock directory, each file step of `Install`, reloads, failures and crashes |
| `BridgeSyncProofs` | exclusion of installs, what they leave alone, and what ETags and reloads say of the disk |
| `Catalogs` | catalogs with their validators, candidates, overlapping syncs and accepts |
| `Runtimes` | one runtime's row and credential, and the tests that judge them |
| `FetchGate` | circuit and slots of the hosts, redirects from one to another |
| `OutboundProofs` | the theorems of `Catalogs`, `Runtimes` and `FetchGate`: what the relay asks of others |
| `Transfer` | export and import over database, vault and seed directory, with failures and crashes |
| `TransferProofs` | the theorems about rows, snapshots and seeds |
| `Compilation` | what is published from which member: order, filters, overrides, merges, plugin manifest, Bundle |
| `CompilationProofs` | lemmas about sorting, filtering and merging, and the theorem of what is published |
| `Services` | the seven modules above as one specification, for one run |
| `MCSourceLifecycle`, `MCSource`, `MCAggregates`, `MCServices`, `MCBridgeSync`, `MCBindings`, `MCCompilation` | instances and symmetry sets for TLC; `MCSource` explores a source within two sets of bounds |

Definitions keep the code's names where they have one. Each handler or
transaction is one action. Operators whose comment says what they forget
(`RetryJobUnchecked`, `NoCheck`, `CompileEmptied`, ...) stand before the
definition they are a plausible bug of; no behaviour of a specification uses
them, and `PROJECT.json` ("mutants") lists the property each one breaks.

### JobQueue

One row of the model is one row of table `jobs`; `target` stands for the pair
(kind, target_id) of the partial unique index. `Insert` is `enqueue()`: the
target's row must exist, and `ON CONFLICT DO NOTHING` leaves an active job alone.
`Claim` and `ClaimNothing` are the two ends of the claim transaction: the second
keeps the rollback that `ErrNoRows` causes. `Heartbeat` and `Finish` are single
UPDATE statements guarded by the lease token. `Finish` writes the status computed
from the attempts the worker scanned, and forces the last attempt when the target
is gone. `LoseWorker` is a process that stops, or a finishing UPDATE that fails
(its error is ignored). `Stall` is a suspended process: its context's deadline is
not noticed until it runs again.

Time is relative: `leaseLeft` is `lease_until - now()`, and `age` is the time
since a worker made its 95 s context. A claim that waits for the advisory lock
computes both the expiry test and the new lease from the start of its
transaction, `age` ago. The handlers themselves are other modules; here they
return nil, an error, or "not found", which fails the job at once: it is the answer
about a target that is gone and also about a revision or a member that is.

`JobBoard` is the abstract specification: jobs are posted, started at most
`MaxAttempts` times while open, settled once after a start, and reopened by an
operator. `ImplementsBoard` is the refinement, with the rows as the jobs.

### SourceLifecycle

A source, its revisions, and a set of background runs in flight. Operators'
calls are one action each. A background run is three: it reads the source
(`BeginSync`, `BeginProbe`, `BeginContent`), works (`Fetch`, `Compose`), and
commits if `updatedAt` is what it read. `updatedAt` is a nanosecond timestamp
that does not repeat, so a run keeps `fresh`: whether no write has bumped it
since the read. `SyncCommit`, `ContentCommit` and `ProbeCommit` are the three
commits; `SaveInvalid` is the transaction before a structure failure, which does
not look at `updatedAt`. `FinishImport` is the second transaction of `Import`.
`Abandon` is every way a run ends without effect.

A content is a number, later contents of a URL being larger: equality stands for
the SHA-256 hash. `RequiresReview`, the verdict of `adapter.Difference`, is a
choice. Update policies `review` and `manual` are one: only the scheduler tells
them apart. The score, caching headers and probe rows are left out.

`SourceReview` is the abstract specification: what is served, what waits, and the
contents filed, approved and rejected so far, changed by an operator's decisions
and by content that arrives. A sync's content arrives only at a source that is not
pinned, not against a rejection and not older than what was filed; it takes the
place of what is served only at an automatic source that serves something and is
not in quarantine; only what waits is approved and enabled at once. The refinement
`ImplementsReview` reads these sets from the revisions' statuses and the two
pointers. It is looser than the code in one place: one content may have several
revisions (an operator may compose it again after a rejection), so that an
approval may or may not leave another revision's rejection of it standing.

### Aggregates

Several sources, the aggregates (one per kind), the manual sets, and operator
calls. `calls[c]` records where a call stands between its transactions: the
sources it still has to add, with the kind *it read*, and the aggregates it still
has to publish. `Enable`, `Disable`, `Delete` and `Reconcile` are the first
transactions; `Clear`, `Upsert`, `Remove`, `Check` and `Finish` the following
ones. `Compile` is `preparePublication`, `Withdraw` is
`withdrawAggregatePublication`. A publication is the set of sources it serves, a
signature the members with the reason each is in or out, `None` the empty string
and `{}` the signature "empty-aggregate". `EditSource` may change a source's kind
without touching the aggregates (`Edit`).

Bounds of this module: exclusions other than "disabled" and "health" are left
out; every set publishes automatically; a rollback goes to the previous
publication only; operators save their own sets only, though `SaveSet` would
accept an aggregate, whose description tells them not to; the retired aggregate
`aggregate-legado`, which can only be emptied, is not a bucket.

### Bindings

A row is a binding; `tokenOf` is the token whose hash it has, since a hash has no
inverse that matters here. `Revoke` and `Rotate` are `BindingAction`; both write
the vault's token of the *aggregate*, whichever of its bindings they are about, and
a rotate ends a revocation. `EnsureBinding` is `ensureAggregateBindingTx`.
`ResetReads` and `ResetRotates` are one turn of `ResetPersonalCredential`'s loop,
whose read lies outside the transaction of the rotate. `Lookup` and `Resolve` are
the two reads of `Resolve`: the id by the token's hash, then the row by its id.
`Credentials` is the abstract specification; the refinement takes the live tokens
of the rows for `live` and the other tokens issued for `ended`.

### BridgeSync

Several bridges share one plugin root; `pc` is the point a bridge has reached in
`run()` and `Install`, and each file operation that others can see is an action. A
directory is told apart by the set in its receipt, by the version of its files that
the receipt keeps a hash of, and by whether all of those files are there (`whole`).
`Unlink` is `os.RemoveAll` on its way: some files are gone, the receipt among them
(`Remains`) or not, and only `Clean` ends it. A failure or a crash in between
(`CutShort`) leaves either: the remains are nobody's and fail every install that
wants the plugin; a directory with its receipt and without its files is still its
set's, and `Scan`, which compares the receipt's hash only (`sync.go:108`), takes it
for the plugin. Moving aside and placing are renames, one step each, and deleting a
directory moved aside changes nothing inside the root.
`Fail` is Install returning an error: the deferred `Remove` takes the lock,
whosoever it is, and the counts are lost. `IOError` is a failing operation,
`Crash` a process killed between two. `dropped`, `recovered` and `cut` are
history: an install failed after it changed something; a stale lock was removed; a
removal of these plugins was once cut short. `SetsApart` is
what the properties of the disk need to promise anything: two bridges of one set
exclude one another by the lock alone, and after a stale lock was removed they may
overlap (see findings). A bridge has a
Hub to reload (without one it prints a line instead). A fault counts against
`MaxFaults`.

### Catalogs

`ReadCatalog`, `AskCatalog` and `CommitSync` are the three parts of `SyncCatalog`;
`StartAccept` and `CommitAccept` the two ends of an accept, which fetches in
between. Two validators of the HTTP protocol are one. Versions of *different* URLs
share their validators, so that a kept validator could be taken for another URL's.

### Runtimes

A test reads the row, then the credential, asks for the status and perhaps the
state, and commits if address and `updatedAt` are what it read. `stamp` is
`updatedAt`, which each edit changes.

### FetchGate

`taken` counts the tokens in a host's channel of two. A request passes the circuit
(`Enter`), waits (`TakeSlot`, `GiveUp`), is answered or not (`Answer`, `Break`), and
gives its slot back when the body is closed (`Close`) or the client follows a
redirect (`Follow`; four of them in the code, one in the run). The minute of an open
circuit ends at any time (`Passes`).

### Transfer

A row is an id with the hash of its snapshot. An import holds the advisory lock
from `Merge` to `Commit`; it writes the snapshots, exchanges the seed directory by
two renames and commits. `FailEarly`, `FailPlace`, `PlaceRefused` and `FailCommit`
are its error returns. `RemoveSeeds` and `PutBack` are the deferred restore, which
runs after the lock is free. `CrashImport` may happen at any step. An API process
does one transfer at a time (`transferMu`); there may be several processes.
`mishaps` notes what the code promises nothing after: a crash, a commit whose
answer is lost, a restore that fails, or that another process's import overtakes.
An export with no seed directory takes the seeds of the release.

### Compilation

A draft says which sources are members and with what priority, role, restriction
and languages. `CompilePublication` takes the admitted members (the admission by
health and state is in `Aggregates`), puts them in order, filters and overrides
their items, and merges them. Three kinds stand for the formats: a playlist
(channel rules, key is the URL), a guide (no filters on items, elements keyed by
their attributes), book sources (http only, key is the hash of the rule). Regions
are as languages, media types as a member's admission; sources whose own copy is
published too ("compiled" mode) are left out, and so are the failures of a document
that does not validate or is over 32 MiB, which only refuse a publication.
`Manifest` is `hub/plugins.json`: a plugin is told apart by its source and its site,
and a rule takes its site whether or not it converts (`convert.go:138-144`).
The code's sort and its filtering loops are `InOrder` and `Keep`, defined by where
an element comes to stand; the library's folds say the same, but nothing can be
proved of them.
`PublishedFromTheBest` says with sets and quantifiers what the artifacts must hold
and does not use the definitions of the pipeline. Of the manifest it says what is
not in dispute: a plugin for each site whose rules all convert, none for a site of
which no rule does. What `convert.go` says of the others is `SiblingsAreSupported`,
which the run `hidden_sibling` refutes.

## 3. Runs

| Run | Instance | Question and answer |
|---|---|---|
| `job_queue` | 2 jobs, 2 targets of which one is deletable, 2 workers, 2 attempts, lease 2 = 1 + 1, with fairness | Do leases and tokens keep one live worker per job, and clients the job board? Is every ready job started, and a job lost before its last attempt recovered? Yes: the invariants, `OnlyHolderSettles`, the refinement and both liveness properties hold. |
| `job_queue_stuck` | 1 job, 2 workers | Is *every* lost job recovered, as `docs/design.md:82` says? No, see findings. |
| `source_review` | 2 runs; either 3 revisions of 3 contents with syncs that do not fail, or 2 revisions of 2 contents, one of them malformed, with syncs, probes and composed content and up to 3 failures | Can a stale run override a review decision or an operator's protection? Do health and counter agree? No and yes: ten properties, the refinement `ImplementsReview` among them. |
| `source_quarantine` | 2 revisions, 1 run | Does a quarantine last until it is released, as `docs/design.md:66` says? No, see findings. |
| `third_failure` | 2 revisions, 1 run, 3 failures | Does the third failure in a row quarantine, as `docs/design.md:65` says? No, see findings. |
| `aggregates` | 1 source, 2 kinds, 1 manual set, 2 calls that may be lost, rollbacks of aggregates | What survives overlapping and lost calls? One aggregate per source, members of manual sets exist, a good publication is never emptied but by an emptied aggregate or a rollback. |
| `aggregates_serial` | 2 sources, 2 kinds, 1 call | Do calls that run to their end, one at a time, keep the members equal to the enabled sources, and is a disabled source withdrawn? Yes. |
| `aggregates_race` | 1 source, 2 calls | Does a disable take a source out of its aggregate for good, as `docs/client-contract.md:119` says? No, see findings. |
| `services` | see below | Seven components, one at a time: fifteen properties hold. |
| `bridge_converges` | 1 bridge, 2 manifests, 1 fault | Does the sync after a failed one converge, as `docs/hub-bridge.md:45` says? No, see findings. |
| `credential_listed` | 1 aggregate, its own and 1 more binding, 3 tokens | Does the list show the system binding's token, as `docs/client-contract.md:119` says? No, see findings. |
| `hidden_sibling` | 1 source, 3 rules of 2 sites | Does a rule that does not convert never hide one of its site that does, as `convert.go:16` says? No, see findings. |

**The run `services`.** The components share no state in these models, so a
behaviour of `Services` is one of one component, chosen in `Init`: nothing is lost
by not interleaving them, and one run checks all. It answers:

* *Bridges* (2 bridges of 2 sets on one root, 2 plugins, one of which an operator
  may make by hand, 1 failure or crash, a removal in any number of steps): do
  installs exclude one another and leave
  other plugins alone until a stale lock is removed? Is a kept ETag that of what is
  installed, with all its files but for removals cut short? Is every change on disk
  followed by a reload or still due? The last
  two, and that other plugins are left alone, hold after a takeover too where no set
  has two bridges, as here.
* *Bindings* (an aggregate with its own and an operator's binding, 4 tokens, a reset
  and a request under way): does a token that ended stay ended
  (the refinement `CredentialsEnd`), and is a request with one refused?
* *Catalogs* (1 catalog, 2 URLs of 2 versions, 2 calls under way): are a validator's
  entries recorded, an entry one candidate, a candidate accepted once?
* *Runtimes* (2 tests, 2 edits): is a health a verdict on the present configuration?
* *Gate* (3 requests, 2 hosts, 1 redirect): are the slots taken those in flight?
  Three requests overfill the two slots, and a redirect to the other host or to the
  same one shows each hand-over.
* *Transfer* (2 processes, 2 archives and what was exported, 2 failures or crashes):
  are seeds kept, in step with the rows, and snapshots there? One archive clashes
  with a row that may be saved meanwhile and one lacks a snapshot.
* *Compilation* (every draft of 4 sources with 6 memberships, 3 lists of rules): is
  every item published once, from the best of the members that offer it, and no
  other? The two book sources together have more plugins than the manifest's limit,
  which is 1 here.

The types of these components are theorems (section 5) and not invariants of the
run. `Alike` exchanges the names of calls, requests and processes under way; no
definition tells these apart.

**Why the bounds are enough.** Races in the queue need two workers on one row and
another row that competes for its target (`job_queue`). Two attempts make first,
last and exhausted attempts all occur; the lease is as tight as the code's
inequality 95 s + 5 s <= 120 s allows. A stale commit needs one run that reads
and one that commits in between: two runs, and contents enough to tell newest,
newer and old apart. Health thresholds are 1, 2 and 3 failures: three reach them
all, and further ones repeat the third. `MCSource` chooses at the start whether a
behaviour is about the review of many contents, with runs that do not fail, or about
health, with two contents and every kind of run; the product of both bounds is out
of reach, and the theorems are for all of them.
The aggregate runs interleave a call with a second one and with the scheduler;
memberships are kept per source, so one source shows every order of them, and two
sources are used where sources matter to each other (which member is left
eligible). Symmetry is used for interchangeable ids and never under liveness.

Deadlock is checked in the queue and the aggregates. It is not in the source
modules, whose instances stop legitimately once the source is deleted for good.

**Fairness.** `JobQueue!Fairness`: time passes; worker loops poll each second and
a claim gets the advisory lock; a handler returns, since its context ends after
95 s; and a job that is claimable again and again is claimed, because claims take
the oldest `available_at` first (strong fairness). Losing or suspending workers
is never required and never forbidden. `Aggregates!Fairness`: a call that is
under way goes on, and each set is published again and again, since `schedule()`
enqueues `set.publish` every 15 minutes and the queue starts ready jobs
(`ReadyJobStarts`). `BridgeSync!BridgeFairness`: a bridge that is running goes on
and a stopped one is started again; of a Hub that is asked for a reload again and
again some answer arrives; a lock that stays becomes stale. It is as generous as a
deployment can be, and `NextSyncConverges` fails all the same.

## 4. Findings

* **A job lost on its last attempt stays `running` for ever** (`jobs.go:203-211`).
  The claim transaction first takes back expired leases, failing the jobs that
  have no attempt left, then claims a job. If there is none to claim, the scan
  fails and the whole transaction rolls back. While nothing else is ready, the
  row is never failed, cannot be retried, and blocks its target.
* **A quarantine ends without a release** (`service.go:415-420`): disable
  overwrites it, enable clears what disable wrote.
* **A disabled source can stay in its aggregate** (`aggregate.go:298`): the second
  transaction of an enable does not look at the source again.
* **A failed install can leave the Hub on old plugins for ever** (`cmd/relay-bridge/
  main.go:93`): an error of `Install` drops the counts of what it had replaced. The
  next sync finds that unchanged, so no reload is due, and its ETag ends the
  matter. A restart of the bridge, which always reloads, repairs it.
* **The aggregates' list can show another binding's token, or none**
  (`publisher.go:681`): the vault keeps one token for each aggregate, and
  `BindingAction` on *any* binding of the aggregate overwrites or deletes it.

* **The third failure does not quarantine** (`service.go:636`): `docs/design.md:65`
  and `docs/hub-bridge.md:65` say that it does; `saveProbe` makes the source
  `avoid`, as its own comment and `docs/client-contract.md:134` want. The documents
  disagree among themselves, and `ThirdFailureQuarantines` states the first.
* **A rule that does not convert hides its sibling** (`bookplugin/convert.go:143`):
  it takes the plugin id of its site all the same, so that a later rule of the site
  that does convert is refused as a duplicate.

Seen while reading and not given a run: `docs/design.md` says every import is
disabled, and the code approves and enables imports of trusted or reviewed origin;
a soft-deleted source can be enabled.

* `os.RemoveAll` of a plugin that is not wanted any more (`sync.go:153`) may fail or
  be killed halfway with the receipt still there. If a later manifest wants the
  plugin with the same content, `Install` counts it as unchanged (`sync.go:108`),
  the ETag is kept and no sync ever repairs it, though `docs/hub-bridge.md:45` says
  the next syncs converge. `EtagMeansInstalled` excepts such plugins (`cut`);
  without the exception TLC finds the case in `services`, with one crash.
* `docs/hub-bridge.md:45` leaves a stale install lock to the operator; the code
  removes one after 15 minutes, also under an install that is only slow.
* `service.RecoverSyncLock`, `fetch`'s host table (which never shrinks) and the
  `.transfer-*` directories of a crashed import (which nothing cleans up, and whose
  seeds a later import does not look at) have no user or no end.
* After a stale lock is removed, two bridges of *one* set may install at once, and
  any third bridge with them: plugins are then lost, or installed and never loaded
  (`SetsApart` excepts it; TLC shows it with three bridges, two of them of one set).
* An import of another process that begins during the deferred restore of a failed
  one can lose seeds; two API processes on one data directory are needed.
* `ResetPersonalCredential` may rotate a binding that was revoked between its read
  and its write: the binding lives again, under a new token.
* `Resolve` does not compare the hash on its second read, so that a request whose
  binding is rotated in between is answered.

## 5. Proofs

TLAPS checks every theorem for all values of the constants that satisfy the named
assumptions. `QueueAssumption` says that the placeholders are not ids and that
`RunTimeout + FinishTimeout <= Lease`; `SourceAssumption` that there is a
revision id, that `NoRev` is none, and that first contents are well formed.

*Queue* (`JobQueueProofs`). None of the safety properties is inductive alone. A
finish must not touch a row that another worker claimed: that needs every running
row's token to name a worker, and every working worker to hold its own row. A
claim must not take a live worker's row: that needs the lease left to be at least
`Lease - age`, which with the time bounds and the claimer's own stale clock is
`LiveLeaseNotExpired`. `IInv` joins these with the type invariant, the coalescing
of targets and the attempts. Each group of actions has a lemma, `NextIInv` puts
them together, and the theorems follow: `TypeCorrect`, `Coalescing`,
`AttemptsBounded`, `LeaseOutlivesWork`, `HandlersExclusive`, the action property
`HolderSettles`, and the refinement `QueueImplementsBoard`, whose step lemma maps
every transaction row by row.

*Source* (`SourceLifecycleProofs`). `IInv` adds to the type invariant that the
active revision is approved, the staged one undecided, the pointers therefore
different, and that what a run brought has a content number. A new revision takes
an unused id and so disturbs neither pointer; a decision changes one revision.
The theorems are `TypeCorrect`, `ServedIsApproved`, `ReviewIsOpen`, `EnabledServes`
and `HealthCounts`; `ReviewIsOpen`, that a staged revision was not decided on, is
proved only: the refinement below fails where it does.

The action properties are about runs that began in an earlier state, so they need
what a run still knows of the row: `RunsKnow`. Only a source without a URL has its
content composed by hand and only one with a URL is synced; a fresh sync is one of a source that is not pinned, as
every call that pins it bumps `updatedAt`; nothing brought is newer than the URL,
and what a fresh sync brought is not older than any decided revision, as a commit
that adds a newer one outdates the others. From it follow `PinnedIsKept`,
`ContentNeverAges` and `RejectedIsKeptOut`, the last two by `NewIsBrought`: a
revision that appears staged or approved was brought by a sync that is fresh and
whose content was not known. `ProtectionIsKept` and `ApprovalIsEarned` follow from
the types and the pointers.

`SourceImplementsReview` rests on how each kind of write changes the sets of
contents (`ApproveContents`, `RejectContents`, `InsertContents`) and where the
pointers refer to afterwards (`Refer`, `KeepsReference`); then each action is one
step of the review. `BroughtMayArrive` is where `RunsKnow` is needed: what a sync
commits may arrive *now*, though it was fetched against an earlier row. A decision
is on a revision with a content because statuses and pointers agree: a rejection
of a revision that is approved as well would take an approval back.

The assumptions of the other modules say what their constants are, and of the
gate's requests that they are finitely many, which counting them needs.

*Aggregates* (`AggregatesProofs`). `OneAggregateEach` and `ManualMembersExist` are
inductive with the type invariant alone: `upsertAggregateMember` takes the source
out of every aggregate before it adds it to one, so nothing has to be known of
what other calls read, and a row goes only in a transaction that has looked at
the manual sets. `AggregateAssumption` (aggregates and manual sets are different)
is what keeps the two apart. `LastGoodIsKept` needs the types only: of all
transactions, compiling or withdrawing an aggregate without members and a
rollback are those that can leave an empty bundle in the place of a good one.

`SerialMembersAreEnabled` is `MembersAreEnabled` for calls made one after the other
and never lost (`Calls = {c}`, `Losable = {}`), for any sources, kinds, sets and
edits: with overlapping calls it is false, as `aggregates_race` shows. Its
invariant `Agrees` says at each transaction of a call that what the call has left
to do is exactly what tells the aggregates from the enabled sources.

*Bindings* (`BindingsProofs`). Every token of a row or of the vault was issued, and
no two rows have the same; so a fresh token disturbs nothing that ended. A request
that found a dead binding still finds it dead unless a rotate marked it. The
refinement `TokensAreCredentials` maps each action to the tokens that leave `Live`
and the one that enters it, as the two alternatives of `Credentials!Next` say.
`VaultShowsUnrevoked`, which no run states, is proved beside it.

*Bridges* (`BridgeSyncProofs`). `InstallsExclude` needs that a bridge inside the
lock means the lock is there, that there is one such bridge, and that none has
passed the recovery: all of them until a stale lock is removed. From it,
`ForeignStaysPut`: who renames or removes a directory is inside the lock, and no
other install of the set can have made it in between; a backup that is put back goes
to a path that was empty; and what a removal has left without its receipt (`Remains`)
is nobody's. `RemoverInv` says who is in the middle of a removal: one bridge of a set
at most, of a directory that is its set's or what is left of it.

`EtagIsInstalled` and `UnloadedIsKnown` are about the end of an install and so need
what holds at each of its points, `Course`. `PlanInv`: every directory
of the set is one that the install found or one that the manifest wants and that has
been placed, and all that it is done with are placed, whatever a removal has taken of
the one at hand. `WholeInv`: a directory of some set has all its files, unless its
removal is under way (`Unlinking`) or was once cut short. `CountInv`: only
an install under way has a count of changes. `EtagInv`: the directories are those
of the ETag unless an install of that bridge has changed one or failed after it did
(`Behind`). `LoadedInv`: the Hub has what is on disk, or some bridge of the set has
a reload due or is behind. `Done` turns the finished plan into the new ETag and the
count into a reload that is due, which is also `InstallCompletes`: whatever failed,
crashed or overlapped before it, an install that ends well leaves exactly its
manifest, each plugin with all its files unless a removal of it was once cut short
(`Installed`). That exception is the code's: the premise cannot be dropped. The
attempt to prove these as they first stood found the case of three
bridges in section 4, and the properties now carry its premise.

*Runtimes and the gate* (`OutboundProofs`). A test that would commit has read a
credential that was there with its stamp: after the row was read no edit can come
without changing the stamp. A host's slots are counted by `Holders`; each action
moves one request in or out of that set, which the cardinality lemmas follow.

*Catalogs* (also `OutboundProofs`). Entries of a candidate never leave the box, so what
a validator acknowledges stays recorded; an answer is of the URL that was asked,
and the commit compares it. An accept in flight remembers a status that was open.

*Transfer* (`TransferProofs`). The invariant describes each phase of an import: who
is inside the transaction is alone there; what is staged contains the seeds there
were; what is moved aside holds the seeds of the imports that succeeded, the
promised ones among them. `SeedsKept` and `SeedsFollowRows`
follow for as long as no mishap excepts them.

*Compilation* (`CompilationProofs`). A publication is compiled in one step, so the
invariant only says from what; the work is in `CompiledFromTheBest`, which shows
that the pipeline of sorts, filters and merges computes what `PublishedFromTheBest`
says with sets and quantifiers, for any sources, items, languages, priorities and
rules. The lemmas come in the order of the pipeline. `Sorted`: an element of a finite
set in a strict total order stands at the place given by the number of those before
it, a bijection because a proper subset has fewer elements. `Kept`: filtering is
sorting of the places kept. `HidesBy`: the last rule that applies is the greatest
place kept. `Flattened`: in a concatenation each element stands after all those of
the earlier sequences (`InSequence`). `UniqueItems`: of equal keys the first stays.
Together (`MergedItems`): the item that stays is of the first member that has its
key, and members stand by rank. `ManifestSites` does the same for the first rule of
each site.

Two of these need induction over the length of a sequence. The library's induction
theorems take an operator, which the provers cannot instantiate; `Least` and
`Counting` get the induction for *sets* of numbers from `WFMin`, and a set can
be given by a formula.

Only model-checked: liveness (`ReadyJobStarts`, `EarlyLossRecovers`,
`DisabledIsWithdrawn`), as ENABLED and fairness are out of the prover's reach, and
that the seven documented statements fail. Every invariant and every action property
of a passing run is a theorem.

## 6. Not modelled

* Adapters: parsers without state; what they return is a value the models choose.
* The texts of the artifacts, the translation of a book rule to a plugin, playback
  (`play.go`) and music lookups: string handling without state.
* `ProbeHub`: a chain of requests; its verdict is an outcome of a probe.
* Address policy, proxies and limits of a fetch: they decide one request from its
  own data. Unpacking an archive, and the re-encryption of its credentials.
* Encryption; HTTP routing, sessions and rate limits; the web console, whose calls
  are the operators' actions; flags and wiring of the processes.
* A bridge without a Hub, which prints a line in the place of the reload.
* `Feedback`, which only adds a record.
* What a handler of a job has read before the change that enqueued it again
  (`jobs.go:41`): the queue and the components it works for are not composed.

## 7. What is left

1. The queue composed with the aggregates, for jobs that coalesce onto one that
   has already read.
2. The review verdict of `adapter.Difference`, checked against a definition on
   bounded inputs.
