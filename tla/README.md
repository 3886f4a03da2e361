# A TLA+ verification of dam.rs

dam.rs is a multi-tenant digital asset manager: a Rust API server (`damd`), a
worker (`dam-worker`), a CLI (`damctl`), Postgres for every row and an
S3-compatible store for every byte. This directory holds TLA+ modules of the
parts whose correctness depends on interleavings and failures, the TLC
configurations that check them, and TLAPS proofs about the job queue and the chains
on it, ingest, bulk operations, the search index, the webhook outbox, restores,
distribution under rights, orders, the audit chain, memberships, the access policy,
metadata, proofing and versions. Paths are relative to the repository; `PROJECT.json` maps every
definition to the lines it models and lists runs, hazards, findings and theorems.

To run anything: `tlc -config X.cfg M` checks, `tlapm M.tla` proves; the table of
runs below pairs configurations with modules.
Leaves of the proofs that cite `SMTT(60)` or `ZenonT(60)` are the ones a prover needs more
than about a second for; the pragma names that prover and leaves room for a slower machine.

## 1. The system

### How the parts interact

An HTTP request (`dam-api`) authenticates a caller, opens a transaction in the
tenant's schema, changes rows (`dam-db`), perhaps calls the store (`dam-store`),
and asks for background work by inserting a row into the one global table
`dam_global.jobs`. Worker processes (`dam-pipeline/src/worker.rs`) claim rows from
it, run a handler per kind, and mark the row. There is no other scheduler, no
broker and no leader: the job table is what orders, retries and deduplicates all
background work, and everything behind it runs *at least once*, possibly twice
at the same time. Postgres runs at READ COMMITTED; the store is not
transactional; nothing spans the two. Hence the shape of nearly every hard
behaviour here: a step in the store, a step in the database, and a process that
can die in between, or be overtaken by another one working from an older read.

### Inventory

| component | state | operations | hard behaviours | correct when |
|---|---|---|---|---|
| **Job queue** (`dam-db/jobs.rs`, loop in `dam-pipeline/worker.rs`) | `jobs` rows: state, attempts, lease, run_after, dedupe key; per worker: its batch | enqueue, claim, heartbeat, complete, fail, reclaim_expired | overlapping claims, lapsed leases of live workers, crashes, late settlements by id | one in flight per key; bounded deliveries; no double claim; every job settles |
| **Claim fairness** (`jobs.rs`, claim's CTEs) | the queued rows, the clock | choose a batch | floods by one tenant, streams of urgent work | full batches; a quiet tenant and background work are served |
| **Resumable uploads** (`dam-store/resumable.rs`, `dam-db/uploads.rs`, `dam-api/tus.rs`) | session row, tail object, multipart upload, staging object | PATCH, DELETE, complete, terminate | crash between store call and row, concurrent requests with stale copies, part-size boundaries | what is assembled is the file; an acknowledged byte is stored; an upload can be resumed |
| **Ingest** (`dam-pipeline/finalise.rs`, `abandoned.rs`) | session row, staging and content objects, asset row | finalise, sweep of expired uploads, rescue | overlapping and repeated runs, sweep against finalise, lost enqueue, expiry | bytes are never lost; one asset; an upload ends |
| **Bulk operations** (`dam-db/bulk.rs`, `bulk_exec.rs`) | operation, items, counters | create, run in pages, record outcome, finish | overlapping runs, crash between pages, per-item failures | counters match items; verdict is honest; changed assets are indexed |
| **Job chains** (worker.rs `requeue_*`, `start_missing_*`) | queued jobs of the self-perpetuating kinds | re-queue, start | crash between re-queue and complete, a second start | exactly one chain per tenant and kind |
| **Search index** (`dam-search`, worker `INDEX`) | documents, asset rows | index, delete, reindex | a change while its index job runs | the index eventually shows the last change |
| **Webhook outbox** (`dam-db/webhooks.rs`, `dam-pipeline/webhooks.rs`) | outbox rows per subscription and asset | publish, claim, send, record, reclaim, revive | ordering, duplicate send after a crash, stalled claims | in order per asset, one in flight, delivered or dead |
| **Tiering and restores** (`restores.rs`, `tiering.rs`) | requests, placements, tier of each object | request, poll, lapse, sweep | a paid call issued twice, a placement that disagrees with the store | at most one charge; placement follows the store |
| **Enrichment, backfill** (`enrichment.rs`, `backfill.rs`, `dam-ai`) | settings, spend | describe, settle | spend charged for work that failed, repeated | spend within the limit plus what is in flight |
| **Quotas and metering** (`quotas.rs`, `metering.rs`) | usage, carried remainder | check, charge, roll up | check-then-act, rounding | bounded overshoot, nothing lost to rounding |
| **Audit chain** (`audit.rs`) | hash chain per tenant | record, verify | concurrent appends | one chain, in order of commit; no false alarm |
| **Orders, shares, portals** | orders, share tokens, portal sessions | place, approve, reject, cancel, consume | concurrent decisions | the order says what its links are good for; a limit of downloads holds |
| **Proofing, comments, worklists** | rounds, verdicts, threads | open, decide, cancel; comment | last verdicts at once, a changed mind beside a closing one | a round is over exactly when it has come to something; a closed round does not change |
| **Delivery, signed URLs, conversions** | none of its own | resolve, check rights, stream | rights that change while a URL is valid | a refusal holds from then on |
| **Rights and access policy** (`dam-core`, `dam-db/rights.rs`, `access.rs`) | cached verdicts, usage ledger, grants | evaluate, cache, hold, compile, render | a cached verdict past a term, a cap under overlapping downloads, roles that combine | nothing is served out of term; caps hold; a role more never shows less |
| **Query language, facets** | pure | translate to SQL, to the engine | the two must select the same | agreement |
| **Assets, versions, metadata, taxonomy** | rows: the document, provenance, tags, terms | edit, enrich, suggest, decide, file, version, merge terms | concurrent edits, a model writing beside reviewers, merges under what is filed, versions added to a stale screen | an edit survives another; a decision stands; a filed meaning is kept; a history has one row in the library |
| **Derivatives, sandbox, similarity** | derivative rows, scratch files | derive, hash | external tools under limits | outcomes only |
| **Object store client** (`s3.rs`, `pool.rs`, `multipart.rs`) | remote objects | put, get, copy, multipart | retries | modelled by effect where it is used |
| **Imports, transfers, scrub** | rows with progress | copy, verify | as bulk | as bulk |
| **Members, SCIM, auth** | memberships, administrators, keys, identities | add, set roles, remove, provision, deprovision, issue a key | requests that judge the same set, directory against hand, operator without the lock | a tenant keeps an administrator; a directory makes none; other customers' access is untouched |
| **Keys, secrets, signing identities** | wrapped keys | seal, rotate | rotation while reading | every record is readable |
| **Tenant routing, migrations** | `search_path`, schema version | begin, migrate | connection reuse | a transaction sees one tenant |
| **HTTP API, MCP, binaries, telemetry, backup, web, Drupal** | presentation, I/O | | | not modelled |

`PROJECT.json` repeats the list with status and reason, and its "hazards" name
the lines at which each of these behaviours bites.

## 2. The modules

```
 AtLeastOnce  what the job table promises          OrderedDelivery  what a receiver is promised
   ^  implements: JobQueue                             ^  implements: WebhookOutbox
   |  EXTENDED BY (handlers that run on the promise):
   |    Ingest, BulkOperation, JobChains, IndexRefresh
 RightsEval   the evaluator, pure
   ^  EXTENDED BY Distribution
 on their own: ClaimOrder, UploadSession, Restores, Orders, Backfill, AuditChain,
               Members, Access, Metadata, Proofing, Taxonomy, Versions
 proofs: JobQueueProofs (JobQueue, ClaimOrder), ChainProofs (JobChains),
         WebhookOutboxProofs, RecordProofs (UploadSession, AuditChain),
         DistributionProofs (Distribution, Orders),
         TenantProofs (Members, Access, Metadata),
         ServiceProofs (the parts of MCServices),
         LibraryProofs (the parts of MCLibrary)
```

The MC modules give a run its behaviours. Where one holds several components, a
behaviour is one of them, chosen at the start by `part`, and the others stay as
they start: the components do not interact there, and share only the run.

| MC module | components |
|---|---|
| MCLibrary | BulkOperation, IndexRefresh, Proofing, Taxonomy, Versions, Backfill |
| MCBackground | JobQueue under fairness, JobChains |
| MCServices | Ingest, Restores |
| MCProtocols | JobQueue, ClaimOrder, Members, Access, Metadata |
| MCDistribution | Distribution over small portfolios |
| MCRecords | UploadSession (removed, or finalised twice), MCDistribution, AuditChain, Orders |

**AtLeastOnce** is the abstract specification of the queue: a job is queued,
handed to workers, taken back, settled. It says what a handler's author may
assume and no more: a delivery can overlap another, any worker that was handed
the job may settle it, deliveries are at most `MaxAttempts`, and two jobs of one
key are not in flight together. It has no leases, no time and no statements.

**JobQueue** is the table and the worker loop. One action is one SQL statement,
since that is what Postgres makes atomic, with one exception: the claiming
`UPDATE ... FROM picked` is two actions. Its CTEs read a snapshot (`ClaimSelect`),
and the update locks each row and re-evaluates only the conditions on it, here
`state = 'queued'` (`ClaimUpdate`). Time is two flags per row, `lapsed` for
`lease_expires_at < now()` and `due` for `run_after <= now()`; the environment
sets them when it likes, so a lease may lapse under a working process. `pc` is
where a worker's loop is, `ticket` is the batch it holds with the value
`attempts` had in the returned row, `cur` the job being handled. Every statement
may fail, a process may crash at any step and start again under the same
identity (`locked_by` is host and pid). `HandlerReturns` chooses freely between
success, a permanent error (which first writes `attempts = max_attempts`, its
own statement, `Burn`) and a transient one. `claims` is a history variable.
`JobQueue` maps to `AtLeastOnce` with `working` = the pairs whose ticket is not 0.

**ClaimOrder** is the choice the claim's CTEs make, as operators over the set of
queued rows: the rank within the tenant, the reserve for background work, the
order of what is left. Arrivals, clock ticks and claims drive it. `JobQueue`
leaves the choice open (any batch of the right size), so its safety results hold
for any order; its liveness assumes that a due job is eventually in a selected
batch, which is what `QuietTenantServed` and `BackgroundAdvances` establish here.

**UploadSession** is one resumable upload at the grain of single store calls and
statements. A byte is its position in the client's file; an object is the
sequence of its bytes; an etag is the part's content. A request loads the row
(`LoadPatch`), reads the tail, appends, and puts a new tail or a part according
to `MIN_PART_SIZE`, then saves *its copy* over the row. The finalise job's
assembly, DELETE and the sweep are processes of the same kind. `Stop` is a crash,
a disconnect or a failed call, at any step.

**Ingest** is what happens from the last byte to the asset. The finalise handler
is a sequence of steps, each a statement or a store call, taken by any worker the
queue handed the job; the sweep of expired uploads is a process of its own;
presigned uploads (`via`) put the object directly. Where the bytes are is three
flags, since only their whereabouts matter here. `good` says whether a scanner
or policy will refuse them, chosen at the start.

**BulkOperation** is one operation over numbered assets: `NextBatch` pages the
pending items, `Apply` is the per-item transaction with its bookkeeping, `Renew`
the heartbeat between pages, `Finish` the verdict from the counters, `Index` the
requests for the touched assets. What applying comes to for each asset is `fate`;
a second application of a delete or restore is skipped, of a metadata edit is not
(`Outcome`).

**JobChains** is one self-perpetuating kind of one tenant. A worker is handed the
job, does the pass, queues the successor (`Requeue`, without a key, because the
running job holds it) and completes. `repaired` says whether the workers' sweep
starts the kind where it is missing (`Look`, `Repair`: the check and the enqueue
are two statements) or the API starts it once for what a tenant asked (`Ask`).
Ids are used again when nothing refers to them (`Recycle`), so that a chain may
run for ever in a finite model.

**IndexRefresh** is one asset's row as a count of its changes, and the document as
the count it was made from. A change by enrichment, derivation or a bulk
operation goes on to request an index job; an edit through the API does not. A
request is a new job or the answer that one is in flight. The handler reads the
row, opens the writer, which one process at a time can have and keeps
(`IndexPool`), and writes what it read; `damctl reindex` takes the writer first.

**OrderedDelivery** is the abstract stream a receiver may rely on: the first time
an event arrives, every earlier event of the asset has arrived or been abandoned.
**WebhookOutbox** is one subscription's rows, the dispatchers and the receiver. A
pass is `Look` (the snapshots of `reclaim_stalled` and `claim`), `Take` (the
commit, with the rechecks on the rows' own columns only), one `Answer` per event,
and one record per answer, by id. The receiver may have an event whose answer was
lost. `due` and `old` are the two instants a row waits for.

**Restores** is one archived object: the requests for it, the polls that issue and
follow them, the store's own class and temporary copy, the placement row with its
badge, and the sweep that moves the object to a colder class. A poll claims and
commits before it asks the store, asks for each, lists, heads each, marks, and
lapses what is due.

**Orders** is one order, the requests that decide it and make pickups for it, and
the recipients. A request's read and its write by id are separate steps, because
at READ COMMITTED what it read may be gone; `revoke_on`'s row lock is kept
(`RevokeWaits`).

**Backfill** is the description of a library by a paid model: a slice is listed,
a run row opened per asset, the batch posted, the collection queued; the
collection polls, applies result by result, charges once, and asks for the next
slice. Single descriptions (`enrich.rs`) go through the same rows. Money is the
charged unit and its fraction of `MICRO` parts, so that the carried remainder is
an integer.

**RightsEval** is `dam-core`'s evaluator as operators: coverage by territory and
channel, dates, caps, releases, the verdict, the end of it, and the scope a
download counts against. **Distribution** is everything that asks it: members'
downloads, share links, pickups, deliveries by signed URL, with the cached
verdict, the usage ledger, the link's counter, the legal hold and a clock. A step
ends with the read that decides or with a commit.

**AuditChain** is the governance log: `record` inside its caller's transaction
(advisory lock, number and predecessor in one statement, insert, commit or
rollback), `verify` page by page, and the hand of a superuser on the table. The
digest is the tuple of what it covers.

**Members** is who belongs to which tenant, who administers it, whom a directory
owns, whose keys are good, and the identity that is one for all tenants. A change
that could take an administrator away is three steps: take the tenant's advisory
lock, judge, write and commit. The lock is the set of its holders, so that it is the
guard of `LockMemberships`, and nothing in the shape of the model, that keeps them
to one. Arrivals (`Add`, `Provision`) and a directory's `SetActive` take no lock;
`damctl issue-key` runs each statement in a transaction of its own (`Operated`).

**Access** turns a membership into an answer: role rows in force are loaded as
grants, narrowed by the key's scopes, compiled into a predicate per action, and the
predicate is either rendered into a query (`Sees`) or evaluated on one asset (`May`).
Roles, the flag, the scopes, the asset and the clock are the state.

**Metadata** is one asset's document, the provenance of what a model wrote, its tags
and the feedback about them. A request is two steps, what it reads and what it writes
from that, since nothing locks the row in between; after its first write it holds
the row to its commit. `settled` and `reverted` are history.

**Proofing** is one round: the reviewers' verdicts as committed, the column that says it
is over, and the requests that give a verdict. `decide` is three steps: the read of
`closed_at`, the update of its own row followed by the count of all rows as they are
committed at that moment (`WriteVerdict`), and the commit with the close if the count
said so. `cancel` is one conditional statement. What a round came to is derived, as in
`decide_outcome`. `crowded` and `doubled` are history.

**Taxonomy** is a vocabulary and what is filed under it. Adding, retiring, merging and
filing are two steps, what is read and what is written from it; suggestions, decisions
and unfiling are single statements. `Reach` is where merges lead a stored reference.
`filed` is what people put there and nobody took out.

**Versions** is which assets the library lists: groups with a current version, numbers,
attached paperwork and deletions. `add`, `restore` and `attach` read, then write; the two
unique indexes are a guard on what is written (`Indexed`). `hidden` is history.

Definitions with a comment that begins "The bug:" are not part of the model:
they are the plausible mistakes each property is shown to detect.


## 3. What the runs check

`pass` runs finish without an error; a `violation` run checks one sentence of the
repository's own documentation or tests, and TLC exhibits a behaviour of the code
that contradicts it (section 5).

| run | module, configuration | properties |
|---|---|---|
| library | MCLibrary, Library.cfg | CountersMatch, TerminalIsHonest, ChangeIsRecorded; AskedIsIndexed, NeverGoesBack; RoundIsTrue, WordStands; MeaningKept, VocabularyIsSound; RowPerGroup; OpenIsWatched, SpendIsSeen, OneSubmission |
| outbox | WebhookOutbox, Outbox.cfg | KeepsOrder, EventuallyOver |
| background | MCBackground, Background.cfg | EventuallySettled; StopsOnlyByDeath, RestartsBounded, ComesBack |
| services | MCServices, Services.cfg | NothingLost, SucceededIsChained, EventuallyEnds; BadgeIsTrue, Answered |
| protocols | MCProtocols, Protocols.cfg | NewestHolds, ImplementsPromise; QuietTenantServed, BackgroundAdvances; AdminRemains, NoManagedAdmin; MoreRolesSeeMore; DecisionStands |
| records | MCRecords, Records.cfg | StagedIsFile, OffsetIsStored; ServedInTerm, LimitsHold; NoFork, NoFalseAlarm, Vouched; OrderIsTrue |
| upload_wedged | UploadSession, UploadWedged.cfg | Resumable (violated) |
| restore_stranded | Restores, RestoreStranded.cfg | NeverStranded (violated) |
| held_served | MCDistribution, HeldServed.cfg | HoldStopsDelivery (violated) |
| last_download | MCDistribution, LastDownload.cfg | PaidForIsServed (violated) |
| run_left_open | Backfill, RunLeftOpen.cfg | NoneInvisible (violated) |
| edit_reverted | Metadata, EditReverted.cfg | EditSurvives (violated) |

The parts of a combined run, with their bounds and why these are enough:

**Queue** (protocols). Two workers and two jobs that may share one key, batches of
two, three attempts. That is the smallest instance in which a lease lapses under a
live worker, another takes over, the key is reused by a second job meanwhile, and
the first worker then fails it with attempts left (which is refused, `FailRejected`).
`NewestHolds` is that `locked_by` always names the latest delivery, so that comparing it in `heartbeat`
identifies the holder, and `ImplementsPromise` that all of it refines `AtLeastOnce`.
Workers and jobs are interchangeable and no property of the run is about more than a
step, so the run uses symmetry (`background`, which checks liveness, uses none).
Deduplication (which the promise has as well), bounded delivery and the exclusiveness of
claims are theorems (section 6).

**Claim order** (protocols). Two customers, an interactive and a background priority
(30 and 50), batches of three of which one slot is reserved, five jobs, arrivals due
now or one tick later. Three slots and five jobs let one customer overfill a batch
alone, let background work queue up behind itself, and let a job fall due behind the
others. `BackgroundAdvances` compares each row's wait with the backlog counted when
it fell due (history variables `ahead` and `waited`), not with a constant.

**Members** (protocols). One tenant with a directory and an operator, two people,
two requests, each of them any request about anybody. Two people are enough for two
administrators to step down or remove each other at once. `AdminRemains` and
`NoManagedAdmin` except tenants an operator changed, because the operator takes no
lock.

**Access** (protocols). Four role rows that differ in kind: behind terms of use,
ending, starting with a wildcard over all groups, read-only; two groups of which one
carries a rule; three scopings of a key; a clock that passes each term. Every
membership and every asset over them is a state.

**Edits** (protocols). One field, one tag, a person's edit, a model and two
reviewers: a reviewer may decide, unfile or file between the model's reads and its
writes, and the other reviewer in between that.

**Uploads** (records). A part has at least three positions, so tails of the same file differ in
length, and a tail put by a request that died can be longer than the row says. Of the two parts,
`upload` has one patcher, one DELETE, one finalise run and one sweep over files of up to four
(`Shorter`); `finals` has two overlapping finalise runs over files of up to seven, hence two full
parts with and without a short last one, and nobody who removes anything (`Second` is the
finalisation that takes part here alone); a crash is possible after every call. At most two multipart uploads are begun, one abandoned and one in use. One PATCH at a time is
what a TUS client does; section 5 says what the code does with two.

**Distribution** (records). Two requests for one asset, at most three downloads
asked for, a link of one download, three portfolios: a licence that ends; two capped
scopes of which one ends, under a release that lapses with it; a capped scope under a
release that lapses first. The clock has an instant before, at and after each term, a
URL lives two ticks, and one hold is set or lifted. `CapHolds` gives the exact
overshoot: as many as other requests can be between the evaluation and the ledger.

**Audit** (records). Two transactions, four numbers, pages of two, one body and one
forged body, one act of tampering: the walk meets a page boundary, a row committed
behind and one ahead of it, and a number lost to a rollback.

**Orders** (records). Two requests and three links, so that one pickup replaces another
while a decision is under way.

**Bulk** (library). Three assets, pages of two, two overlapping runs and three
attempts; every assignment of outcomes to assets, for a metadata edit and for a
delete. A page boundary falls inside the operation, and a run may hold a page that
another has finished.

**Index** (library). Two workers, three index jobs and a reindex, two changes, one fault.

**Proofing** (library). Two reviewers and two requests under way at once, each of any
reviewer with any verdict, any number in all: two last verdicts, a changed mind beside
a closing one and a reviewer beside himself all happen.

**Taxonomy** (library). Three terms of which any are there at first, one asset, two
requests at a time and three in all: a chain of merges, a merge under a filing, a merge
of a term merged before.

**Versions** (library). Three assets, two requests at a time and four in all, deletions
at any moment: a version added to a group while an earlier one is put back, a member of
one group taken into another.

**Backfill** (library). Two assets in slices of two, two workers, two batches and two
runs; a cap of one unit, a unit of three parts, one crash. `FillFits` cuts the product:
either there is one asset so far, or one worker at a time and one batch; so two workers
overlap on one asset, and a slice of two is answered one by one.

**Ingest** (services). Two workers and two jobs of one key (the second is what the
sweep queues once the first has ended), two attempts, both ways in: two runs of the
handler overlap at any pair of steps, die anywhere, and run against the sweep and the
expiry. `NothingLost` is limited to what the system means to keep: bytes that are
acceptable and not expired. `EventuallyEnds`: an upload completely sent becomes an
asset, or is reclaimed after it expires, or its job is dead and therefore visible.

**Outbox.** Two dispatchers, two events of one asset, two attempts, a subscription
disabled after two failures, one crash and one revival: a stalled claim can be
reclaimed under the live dispatcher that holds it, a late record can hit a row
another dispatcher has, and a dead event can be revived after its successor arrived.

**Chains** (background). Three jobs (with ids that are used again), two workers, two
attempts, two starts, one fault. The same run has the **queue** under fairness: one job,
two workers and two attempts.

**Restores** (services). Two restores of an object and two overlapping polls with an
outage long enough for a copy to lapse unseen (`LongOutage`), and one fault.

Deadlock is not checked: every model with a bound has an end (the bound on time, ids
or requests reached, an operation over, an upload terminated).

Each property of a passing run has a mutant in `PROJECT.json`: a definition of the
model replaced by one of "The bug:" forms, under which TLC finds that property
violated in the same configuration. `PROJECT.json` also lists the hazards, line by
line, with the property that watches each.

## 4. Fairness

Fairness belongs to a component (`Fairness`, `FairSpec` in its module); a combined
run takes that of the part chosen.

- `JobQueue`: time passes (a lease lapses, a back-off ends: WF); a worker process is
  restarted and its loop keeps moving (WF on `Progress`, which leaves out heartbeats
  so that a handler which only renews does not count as progress); and the three
  statements of a claim are not failed every single time (SF). Nothing is assumed of
  what comes after a claim: the handler may crash, and every settlement may fail,
  each time, because a claim already spends an attempt and `reclaim_expired` finishes
  what is exhausted. That a given due job is selected again and again (SF on
  `ClaimSelect` with j in the batch) is the claim order's doing, and
  `QuietTenantServed` and `BackgroundAdvances` are what justifies it.
- `Ingest`: a worker and the queue's reclaim keep going (WF), uploads expire (WF), and
  the periodic sweep is not deferred by an unreachable store for ever (SF). The client need
  not do anything, jobs may be lost at enqueue, handlers may fail and crash until
  their attempts are spent.
- `JobChains`: a worker process that is up looks and runs what it was handed, leases
  lapse, and settled rows make room (WF each).
- `WebhookOutbox`: a dispatcher's pass goes on, and a row's back-off and its age come
  (WF each). Receivers may refuse every time.
- `Restores`: a poll goes on and the store delivers a copy it promised (WF each).
- The other components are checked for safety only and have none.

## 5. Where the code and its documentation disagree

Each is a run with expectation `violation`; `PROJECT.json` quotes the line it contradicts.

- *upload_wedged*: the tail object is overwritten before the row is saved. A crash
  between leaves them disagreeing, and the length check refuses every later chunk.
- *restore_stranded*: a request claimed by a poll that died is re-issued only if the store
  reports no restore at all; where an earlier copy has lapsed it reports an expired one.
- *held_served*: setting a legal hold does not invalidate cached verdicts, and delivery
  serves from them.
- *last_download*: the download a link has just paid for makes it dead, and delivery
  asks whether it lives, so the last permitted URL serves nothing.
- *run_left_open*: a description that starts before its proxy exists opens a run and
  returns an error; the open run keeps the asset off every later work list.
- *edit_reverted*: `merge` reads the document without a lock and writes it back whole.

### What the passing runs except

A property that holds only outside a named situation says so in its history variables
(`absorbed`, `raced`, `crossed`, `doubled`, `cut`, `lapsed`, `lost`, `died`,
`byOperator`). These are the situations, and two that are constants of a run:

- *Queue.* `complete` and `fail` test only the id (worker.rs:667-670), so a worker that
  lost its lease settles the job under the new holder; even a dead job becomes
  succeeded. `AtLeastOnce` therefore lets any worker that was handed a job settle it.
  A second worker process spends attempts on refused index writers (`LockBusy`).
- *Uploads.* `uploads::save` writes the whole copy a request loaded: with
  `Patcher = {p1, p2}` the parts and tails of two requests mix and `AssembledIsFile`
  fails. The sweep's look at the store and its deletion are separate: with a reaper
  beside `finals`, `CompletedIsStaged` fails. A DELETE beside a PATCH can leave a
  multipart upload that no row names.
- *Ingest.* Two overlapping finalise runs insert two assets (finalise.rs:430-433). A
  finalise job lost at its enqueue (tus.rs:523-531) is not recovered: the bytes are in
  parts and tail, not in staging, and the upload is reclaimed. A presigned upload has no
  offset, so the job the sweep queues for it is refused as incomplete.
- *Bulk.* The touched assets are a variable of the run and do not survive it, so a run
  dying before its index requests leaves them unindexed (worker.rs:693,
  bulk_exec.rs:125). Skipped items count in neither counter.
- *Chains.* A successor is queued without a dedupe key (worker.rs:881), so a start finds
  no incumbent and there can be two chains; a redelivered job queues a second successor.
- *Index.* A request made while an index job runs is answered with that job, though it may
  have read the row already. A PATCH through the API never requests an index job.
- *Restores.* A request's window may end while another's copy is out, and a slow poll may
  mark a request an overlapping one failed: the badge is then wrong (`crossed`).
- *Orders.* Overlapping decisions leave a rejected or cancelled order with a live link;
  two pickups at once leave two live links (orders.rs:409, against its comment at 414-416).
- *Backfill.* Overlapping collections charge twice; a crash between a batch's collection
  and the next slice's enqueue ends the backfill (worker.rs:643); assets the model
  declined are submitted again by every slice, though enrich.rs says "never retried"; the
  quota's check and its charge are two statements.
- *Distribution.* Overlapping downloads overshoot a cap by one each (`CapHolds` states
  the bound).
- *Audit.* Removing the newest rows, or resealing the tail and appending to it, cannot be
  told from inside. `verify` reads its anchor and its first page in two statements, so a
  `from_seq` beyond the next number can report a false break (`ahead`).
- *Members.* `damctl issue-key` without `--admin` demotes the last administrator and takes
  no lock; its statements commit one by one and can leave a key without a membership.

### Other observations

- Rights: `share` downloads never write the usage ledger, though downloads.rs:28 says every
  download is; only one consuming scope is charged where several licences have one
  (rights_eval.rs:438-441); a ledger row stays spent when minting refuses; an evaluation
  that started earlier may overwrite a newer cached verdict; verdicts that refuse are cached
  without an end, until a member's next evaluation; `invalidate` and `stale` have no caller.
- Members: a removal looks for the person's other memberships under its own tenant's lock
  (members.rs:547), and disables the identity if it found none; a membership added elsewhere
  in between is lost with it, against members.rs:40-41. `Members!OthersKeepAccess` states it,
  and fails with two tenants, two people, two requests and neither directory nor operator. Two
  concurrent removals in two tenants leave an identity active that belongs to none; SCIM's `set_active(false)` disables the identity in every tenant; `admin_count`
  counts disabled identities; a connector's registration is several transactions
  (dam-api/src/connectors.rs:335-375).
- Access: `policy::evaluate` has no caller outside tests, though access.rs:59-61 says the
  download path calls it; nothing writes `release_at` or `roles.requires_eula`; a group
  with a rule in any role refuses the whole caller's listing, so a further role can refuse;
  an ungated role lifts the gate of a gated one for assets only the gated one covers; a
  key's scope is compared literally with a role's wildcard and retains nothing.
- Metadata: a model's write may overwrite a person's value that came between, or restore a
  machine's value unmarked; two reviewers both succeed and leave two verdicts; a decision on
  a tag unfiled meanwhile succeeds without a row; `suggest_tags` suggests retired terms.
- Proofing: two last approvals at once each count the other as pending, and the round is
  approved by all and never closed (`SaysSo` fails), against proofing.rs:258-263; a reviewer's
  two overlapping requests can close a round that counts as open; a changed mind beside the
  closing approval turns a closed, approved round into one with changes requested. A round
  one of whose assets is deleted can no longer be read, though proofing.rs:164 says its
  count shrinks.
- Taxonomy: `merge` drops a confirmed tag where the target's row is only suggested or rejected
  (`StillFound` fails; taxonomy.rs:288-299); merging a term again leaves behind what its first
  merge carried away; merges of A into B and B into A can race into a cycle; `merge` retires a
  term with live children, though taxonomy.rs:197-201 says why no live terms may hang under a retired one; categories' `create` accepts a
  retired parent.
- Versions: taking the current version of one group into another leaves the first with none
  (`NeverNone` fails), against versions.rs:14-19; attaching a document that has paperwork makes
  paperwork of paperwork (`NoPaperworkOfPaperwork` fails; attachments.rs:64-69); once an
  earlier version is restored, the next number is taken, and `add` fails until the library's
  current one is the last again (`CanBeSuperseded` fails).
- Queries, read and not modelled: search answered by the index does not hide superseded
  versions and attached paperwork, which SQL listings do (versions.rs:21-23); negated
  ranges on absent fields, `Exists` on an empty list and substring matches differ between
  SQL and the index.

## 6. What is proved

Every theorem holds for any values of the constants that satisfy the module's
assumption and the hypotheses the theorem names, with no bound on the length of a
behaviour. The hypotheses are: a dedupe key is not the value that stands for
none (`K # NoKey`), for counting, jobs and workers are finite, and for the index the
names of the processes and of nobody differ (`Apart`); the numbers of runs, batches and
assets of a backfill are any natural numbers (`Bounded`); for its costs a credit's `MICRO`
is a number and workers are finite (`Metered`); for the claim order the batch and the ids are
numbers and priorities integers (`Sizes`); for the taxonomy there are finitely many
terms and the value that stands for none is not a term (`Vocabulary`); for an upload there is one
client, which sends one request at a time, and the requests of the four kinds are different
processes (`OneClient`). A theorem is about one
component's specification also where its module extends an MC module that holds
several: so it names the very definition that the run checks.

| module | theorem | statement |
|---|---|---|
| JobQueueProofs | TypeCorrect, Invariance | `Spec => []TypeOK`, `Spec => []IndInv` |
| | Deduplication, HolderIsNewest | `Spec => []OneInFlight`, `Spec => []NewestHolds` |
| | DeliveriesBounded, ClaimsExclusive | `Spec => []BoundedDelivery`, `Spec => NoDoubleClaim` |
| | ClaimInvariance, QuietTenantServedAlways, BackgroundAdvancesAlways | `ClaimInv`, `QuietTenantServed`, `BackgroundAdvances` are invariants |
| | KeepsPromise | `Spec => ImplementsPromise`, the refinement of AtLeastOnce |
| ChainProofs | ChainInvariance, StopsOnlyByDeathAlways, RestartsBoundedAlways | `ChainInv`, `StopsOnlyByDeath`, `RestartsBounded` are invariants |
| WebhookOutboxProofs | OutboxInvariance, StateIsTrueAlways | `IndInv`, `StateIsTrue` are invariants |
| | KeepsOrderAlways | `Spec => KeepsOrder`, the refinement of OrderedDelivery |
| ServiceProofs | IngestInvariance, NothingLostAlways, SucceededIsChainedAlways | `IngestInv`, `NothingLost`, `SucceededIsChained` are invariants |
| | BadgeIsTrueAlways | `BadgeIsTrue` is an invariant |
| LibraryProofs | CountsAgree, VerdictIsHonest, ChangesRecorded | `CountersMatch`, `TerminalIsHonest`, `ChangeIsRecorded` are invariants |
| | RoundInvariance, RoundIsTrueAlways, WordStandsAlways | `RoundInv`, `RoundIsTrue` are invariants; `WordStands` holds of every step |
| | RowPerGroupAlways, UnseenStaysAlways | `RowPerGroup` is an invariant; `UnseenStays` holds of every step |
| | WriterInvariance, AskedIsIndexedAlways, NeverGoesBackAlways | `WriterInv`, `AskedIsIndexed` are invariants; `NeverGoesBack` holds of every step |
| | WatchInvariance, OpenIsWatchedAlways, OneSubmissionAlways | `WatchInv`, `OpenIsWatched`, `OneSubmission` are invariants |
| | SpendIsSeenAlways | `SpendIsSeen` is an invariant |
| | MeaningKeptAlways, VocabularyIsSoundAlways | `MeaningKept`, `VocabularyIsSound` are invariants |
| DistributionProofs | PermitsUntil, MoreNeverPermits | a verdict that permits holds up to the end it gives; attaching one more licence or release permits nothing that was not permitted |
| | ServedInTermAlways, CapAlways, LinkLimitAlways, LimitsAlways | `ServedInTerm`, `CapHolds`, `LinkLimitHolds`, hence `LimitsHold`, are invariants |
| | OrderIsTrueAlways | `OrderIsTrue` is an invariant |
| RecordProofs | StagedIsFileAlways, OffsetIsStoredAlways | `StagedIsFile`, `OffsetIsStored` are invariants |
| | NoForkAlways, NoFalseAlarmAlways, VouchedAlways | `NoFork`, `NoFalseAlarm`, `Vouched` are invariants |
| TenantProofs | MembersInvariance, AdminRemainsAlways, NoManagedAdminAlways | `MemberInv`, `AdminRemains`, `NoManagedAdmin` are invariants |
| | VisibleIsReadableAlways, ScopesOnlyRemoveAlways, MoreRolesSeeMoreAlways | what is shown is what may be read; a scope only removes; a role more never removes |
| | DecisionStandsAlways | `DecisionStands` is an invariant |

**JobQueue.** One inductive invariant, `IndInv`, in named parts, each preserved by a
lemma of its own:

- `LeaseCoherent`: a row is locked exactly while it runs. `NoDoubleClaim` rests on it:
  the update's recheck of `state = 'queued'` is a check that nobody holds the row.
- `BatchCoherent`: a worker settles a job of its batch and has no batch while it
  claims. So a settlement hits a row that has been in flight, whose key is the one it
  was queued with, and the refinement has its `working` pair.
- `Charged`: deliveries never exceed `attempts`, and a row that can be claimed has one
  left. Without it nothing says that a queued row has an attempt to spend, since `fail`
  and `reclaim_expired` decide on `attempts`, which `Burn` moves independently.
- `TicketsBehind`: no worker's ticket is ahead of a row that can still be claimed, or
  has attempts left, so that the next delivery's ticket is larger than any stale one,
  which is what `NewestHolds` needs when a claim goes through.

The refinement is step by step: a claim's update is `Deliver`, a reclaim `TakeBack`, the
settlements `Settle`, a settlement that errors and a crash `Forget`, the rest stutters.

**Claim order.** A query's `LIMIT` takes those with fewer than that many before them. For any
order without ties (`Orders`) these are no more than the limit (`FirstAreFew`), so one that is
left out has at least so many before it. The first job of a tenant has rank one, those before
it are of rank one too and each of another tenant, hence fewer than the tenants with work: it
cannot have been left out. `Advances` counts for the background: the claims that passed a due
job over and what is still before it are together no more than was before it when it fell due,
since a claim that passes it over takes at least one of those, and nothing later gets before it.

**Chains.** A chain that was asked for and lost no job has a head, a job in flight that
has not queued its successor (`HasHead`). That survives a completion because a run
queues the successor, or finds one there, before it can complete (`SuccessorFirst`), and
survives a crash between the two because the job stays in flight; `OneEach` says a
worker has one job at a time. `RestartsBounded` is a count: the jobs that are or may
become a head (`Prospects`) and the workers that have seen none and may start one
(`Lookers`) are together no more than the workers (`Counted`). When a worker looks and
sees none in flight, each prospect is in the hands of a worker of its own, which is no
looker: an injection gives the bound afresh (`LooksAfresh`); every other step replaces a
prospect or turns a looker into one.

**Outbox.** The claim reads the siblings of a row in a snapshot that may be old when the
row is sent. `StateIsTrue`, a row says delivered only of an event that was received and
dead only of one given up, makes the snapshot's verdict one about the receiver;
neither is ever undone, so an event found `Ready` stays so, as a candidate (`Candidates`)
and while it is being sent (`Sending`), though rows are reclaimed, revived and recorded
late meanwhile. `InSequence` and `RowsThere` say which rows there are. In the refinement
an enqueue is a publication, an answer a receipt, a dead-letter an abandonment.

**Ingest.** Another run may overtake a run at any step, so that what a step relies on must
be something no run undoes. `StepsKnow` lists it: past the promotion the content is
there, past the insert the asset, before success the derivatives were asked for; and a
run that has assembled and is about to drop the parts knows the bytes to be staged or
promoted. `SweepsExpired`: a sweep that is under way deals with an expired session, which
`NothingLost` says nothing of.

**Restores.** `BadgeInv` adds to `BadgeIsTrue` only that a poll which is about to mark has a
request in hand: what makes a request available, or ends that, touches the badge in the
same transaction.

**Bulk.** `FirstOutcomeStays`: an item that is not pending holds what its asset came to
the first time; without it a second application could be a change whose item says
something else. `RunCoherent`: a run about to finish has seen an empty page, and pending
items never come back. The verdict is drawn from counters, so `TerminalIsHonest` needs
`CountersMatch`, and a counter is zero exactly when no item has that outcome (`Counting`).

**Proofing.** What a request counted may be old when it commits. While no reviewer overlaps
himself verdicts only become more severe: who asked for changes has closed the round
(`ChangesClose`), nobody under way takes it back (`NoneTakenBack`), so a count that found
the round at an end is right at the commit (`CountsLast`). The converse needs that no other
request came between (`CountIsNew`), which is what `crowded` records.

**Versions.** `RowPerGroup` is inductive with the types alone: the unique index and the
`UPDATE`s keep a current row in every group that is not in the history set `hidden`.
`Deletes` is `TRUE` in the theorem, as in the run; without deletes there are fewer behaviours.

**Index.** `WriterInv`: nothing is newer than the row (`RowIsNewest`), who writes holds the
writer (`Locked`), while the writer has not changed hands a document is its holder's
own (`FirstHand`), and without overlapping runs there is one run, not overtaken
(`Unrivalled`). `AskedInv`: the key lets one index job be in flight (`OneAtATime`), a run
has its job, which stays in flight until it settles it (`HasItsJob`), and what it has read
is not older than what was asked for (`ReadsAsked`).

**Backfill.** `WatchInv` says who has an open run. Before it is in a batch a worker at one of
the steps that will close or send it does (`AloneIsHeld`); after that the queued collection
does, or the worker about to queue it (`BatchedIsHeld`). A collection may be finished, and
its job go, because what it read was all that is open of its batch and it has closed that
(`GatheredAll`); that nothing joins a batch behind its back rests on the order of three steps:
a batch has no collection before it is sent (`UnsentUnknown`), nor before its runs have its
number (`AttachedFirst`). Most steps are `Plain`: four frame lemmas about what a step does to
the runs and to what is held give them all parts of the invariant. For `OneSubmission` a slice
has an asset once (`SliceIsApart`), and nothing in it has been in a batch that counts
(`SliceIsNew`), because there is one worker to the submission (`OneWorkerEach`); workers that
still write to runs hold different ones (`HandsApart`), so that what one closes stays closed.

**Spend.** What the runs cost is a sum over all of them, what is not yet charged one over the
workers. `Total` is the fold that both are, and `TotalMoves` says that it moves by what one
term moves. `SpendInv`: a worker has something in hand only between a result and its charge
(`SpendsAtOnce`), so that what a crash loses is known; an open run has cost nothing
(`OpenIsFree`), so that closing it adds its whole cost.

**Taxonomy.** Where a reference leads is a closure along `into`. It is the least set that holds
the term and follows the chain: as many hops as there are terms close it, by counting up
(`LeadsIs`). A merge adds one link, so what led to the source now leads where the target does as
well, and nothing else changes (`MergedReach`): a tag is moved along with it, which is
`MeaningKept`, however requests overlap. A link closes no loop when its target does not lead back
to it (`NoLoop`); while requests do not overlap, what one has read is still so when it writes
(`StillTrue`), which gives `VocabularyIsSound`.

**Distribution.** `TermInv` says of every cached verdict, and of what each request was
told, that it permits only while the portfolio's dates do (`HoldsFrom`); that the
evaluator's end of a verdict is never later than the first date that could change it
is `PermitsUntil`, a lemma about the pure module. `CapInv` counts: URLs handed out plus
those paid for and not yet handed out are in the ledger, and the ledger plus the requests
about to write it stays below the cap plus the other requests. `LinkInv` needs the row's
`download_count` to be tested and raised in one statement.

**Orders.** A request writes by id what it had read. It still holds because the request is
the only one of its kind, unless history says otherwise (`OneMaker`, `OneDecision`), and
because no step makes an order submitted again.

**Uploads.** A sequence of parts spells what its parts spell one after the other: `FlattenSeq` of
one part more is the join (`FlatGrows`, by counting up), and pieces of the file that meet make a
piece (`FileJoins`). `UploadInv` says of every copy of the session, the row's and each process's,
that its parts and its tail spell the file up to its offset (`Fine`); of the tail object only that
it starts where the copy's parts end and is not shorter than the copy believes (`TailFrom`), since
a PATCH that died may have left more there. `ChunkFits` says it of what is in a PATCH's hands
at each step, `RowWaits` that the row has not moved on meanwhile, `Assembles` that a
finalisation has all of the file; beside one a PATCH has nothing left to send (`AllSent`).
Removals only take objects away, which none of this minds.

Where nothing is removed, `FinalInv` adds that nothing acknowledged goes missing. Until something
is in staging (`Kept`), the parts a copy names are in an open multipart upload (`PartsHeld`) and
stay there when a part is put under a number that no saved row names; a tail the row relies on is
in the tail object, or in the part it was just moved to (`Moved`), which no row names before the
save. A second finalisation has loaded the same row, so it replaces nothing that counts; once one of
them has assembled the file it stays in staging (`HasStaged`).

**Audit.** `LogInv` (`Shape`, `Held`, `Pending`, `LogLinked`): only the holder of the lock has
drawn a number or has rows uncommitted, these come after everything committed, and each
is linked to what was before it; so a commit appends a chain to a chain. `WalkInv`:
what a walk expects next is what comes next in the log and nothing will come before it any
more (`InStep`), and what it read ends in what it expects (`ReadEnds`). `Vouched` is inductive
because the digest is injective: a genuine row the walk accepts names the row it was
linked to, that is the last one read, and what vouched for that vouches for the rest.

**Members.** A rule about the set of administrators is judged in one statement and relied
on in a later one. `Held`: who has judged holds its tenant's lock; `OneHolder`: a lock has
one holder; hence `Judged`: what it judged is still so when it writes. Those who take no
lock only add members, so administrators and a directory's people have to be known to be
members (`Inside`).

**Access.** One lemma: grants that outdo others, one by one, allow all that those allow.
A role more, the flag, and a key without scopes each outdo what is there without them.

**Metadata.** `Stands` of each term is inductive once the tables are functions: a
suggestion is inserted only where no row is, and seconding one keeps its state.

Every invariant and every action property that a passing run checks is proved, and both
refinements are. Only model-checked:

- liveness (`EventuallySettled`, `ComesBack`, `EventuallyEnds`, `Answered`, `EventuallyOver`):
  fairness is stated with ENABLED, which the prover does not handle.

Induction over data is done here without the library's induction theorems, whose operator
parameter the provers cannot instantiate: one takes the set of counterexamples and its least
element (`CountingUp` in LibraryProofs and RecordProofs).

## 7. Abstractions and what is left out

- A job's payload, kind and priority do not appear in `JobQueue`; back-off lengths are any
  delay. `max_attempts` is one number, since no caller overrides the default.
- Heartbeats that renew and never end are allowed; only bulk's handler renews.
- A store call is atomic and its failure has no effect; an upload part replaced under its
  number is the newer content, as in S3. Store versions are not modelled.
- The client of an upload sends its own file's bytes at the offset it claims. Offsets that
  do not match are refused and change nothing, hence are not actions.
- `Upload-Defer-Length` uploads (no declared length) are left out: no PATCH gives them one,
  so the comparison in `tus.rs:520` never queues their finalisation.
- Hashing, sniffing and scanning are outcomes (`good`). Two uploads of the same bytes meet
  only as `content` being there at the start.
- Bulk's `set_paused` and `cancel` (`dam-db/src/bulk.rs`) have no caller.
- A digest is the tuple it is computed from; a signature is a URL nobody can make up.
- Instants are small numbers, and a value that is optional is a set of at most one.
- Components in one run do not share state. Where they interact in the code (a handler and
  its job) they are composed through `AtLeastOnce`, which `JobQueue` implements.
- Bounds: jobs, workers, attempts, file positions, multipart uploads, ids, clock ticks,
  events, faults and requests are constants of the configurations, as argued in section 3.

### Not modelled

| component | why |
|---|---|
| Comments, worklists, relevance judgements | each a single insert or conditional update of a row of its own, which no other row's meaning rests on |
| Query language and facets | a translation of an expression, without state; read for section 5 |
| Collections, moving terms, field validation, paths | the same read-then-write as `Taxonomy` and `Metadata`, whose hazard is modelled there; validation is a pure check of one value |
| Derivatives, sandbox, similarity | external processes under limits; only their outcomes reach the rows, in Ingest |
| Object store client | a client of S3; its operations appear by their effect where they are used |
| Imports, transfers, scrub | long-running copies with a row per item, the shape of bulk operations |
| Metering roll-up, tiering policies and costs | aggregation and arithmetic over rows that do not change meanwhile |
| Keys, secrets, signing identities | cryptography |
| Tenant routing and migrations | the search path of one connection, and schema changes at start; sequential |
| HTTP API, MCP server, binaries | routing and presentation of the operations above; the handlers that drive modelled state are in their modules |
| Telemetry, backup, web client, Drupal module | I/O and user interfaces, without state the server's correctness rests on |

The map covers roughly a tenth of the implementation's lines. What remains is for the most
part the list above: request parsing and rendering, SQL that reads, command-line code,
adapters to external tools; its control is sequential.
