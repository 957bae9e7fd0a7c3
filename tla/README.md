# A formal model of Mahoroba

Mahoroba is a local, single-user dialogue program: messages arrive over HTTP, a
resident answers through an external text generator, and everything that matters is
kept in one SQLite database and a directory of content-addressed blobs. This
directory holds TLA+ modules that model it, TLC configurations that check them
on small instances, and TLAPS proofs for every value of the constants.
`PROJECT.json` maps every definition to the lines it models.

    tlc -config CanonicalWriter.cfg MCCanonicalWriter     # one run
    tlapm CanonicalWriterProofs.tla                       # one proof module

## 1. Inventory

| Part | State it keeps | Operations | What makes it hard | What makes it correct |
|---|---|---|---|---|
| Canonical Writer (`internal/canonical`, `store/sqlite/canonical_backend.go`) | a bounded queue, slots, admission counter, resident activity registry, cached head, poison; durable: `canonical_commits` | Submit, PauseAdmissions, ResumeAdmissions, Close, the goroutine | many submitters, cancellation at every point, close against late senders, ambiguous commit errors, crash | the ledger is dense, ordered and append-only; answers are true; nothing is lost or waits for ever |
| Dialogue obligations (`app/dialogue.go`, `app/recovery_terminalizer.go`, `store/sqlite/dialogue_mutations.go`) | the attempt rows of each message's run, the status and selection of residents | ingress, discover, prepare, call, land, fail, cancel, archive, stop, recover | the provider call takes minutes; archive, unselection, erasure, stop and crash happen meanwhile | every message is answered, failed or cancelled exactly once, within the retry budget |
| Dialogue scan (`store/sqlite/canonical_reads.go`, `app/application.go`) | scan cycle (epoch and cursor), foreground epoch, clean proof | discover by window and pages, record proof, preempt | the window slides while the cycle keeps its place | a proof means that no message is open; old messages are reached |
| Background leases and boundaries (`app/application.go`, `app/bootstrap.go`) | epoch, clean proof, fences, one call slot and one landing lock per resident | begin, land, fail; ingress; SelectResident; ArchiveResident | three kinds of lock and checks that are stale as soon as they are made | no durable step outside its lease, no call survives its epoch uncancelled, boundaries end |
| Memory work (`app/memory_*.go`, `store/sqlite/memory_work_reads.go`) | extraction obligations, cursors, cycles, ceilings, dirty flags and scan proofs of the worker | extract, re-extract, align, revise a persona, derive | bounded sweeps over several turns, preempted and restarted at any point | nothing mandatory is lost, and optional work waits for it |
| Claim ledger (`internal/memory`, `store/sqlite/memory_*.go`, `claim_replay.go`) | claims, evidence, stage, status and scope rows, relations, replacement intents, policy | land an extraction, derivation, alignment or replacement; the owner's decisions; integrity findings | a run lands long after its inputs were frozen; five kinds of command append to the same claim | the rows can be folded, what is derived rests on what is present |
| Autonomy (`app/autonomy.go`, `internal/autonomy`, `store/sqlite/autonomy_*.go`) | self-talk and initiative runs | discover a trigger, decide, prepare, land, retry | the decision is stale when the answer comes | the resident speaks in turn, within its limits |
| Dialogue prompt (`store/sqlite/dialogue_assembly_reads.go`, `dialogue_prepare_writer.go`) | the frozen prompt of a run and the claims it used | assemble, prepare, land | assembled outside the writer | nothing erased reaches a reply |
| Write gate (`store/sqlite/write_gate.go`) | active, number of high waiters, broadcast channel | acquireHigh, acquireProjection, release | cancellation of waiters | mutual exclusion, priority, no lost wake-up |
| Projections (`internal/projection`, `store/sqlite/projection_adapter.go`) | watermarks, failures, retry timers | start-up, hint, retry, tick, rebuild | commits during an update, stale timers, a clock set back | a watermark says what it describes, and comes back to the head |
| Blobs (`internal/blob`, `internal/blobgc`) | staged, final and marker files | stage, finalize, acknowledge, recover, collect | crash between file system and database | every reference has its object |
| Erasure (`internal/erasure`, `store/sqlite/erasure_*.go`) | plans, erased contents | plan, decide, quiesce, apply | plan and head may drift apart | no copy survives, no claim stays without support |
| Publication, backup, restore, export (`internal/durablepublish`, `backup`, `restore`, `export`) | staging names, markers inside and beside, locks | publish, discover, recover | crash between any two renames | all or nothing, and only of its own input |
| Start-up and shutdown (`cmd/mahoroba`, `internal/runtimegate`, `internal/readiness`) | phases, the one-shot gate, locks, workers and handlers | open, the phases in order, drain, close, the administration controller | a failure in any phase, time-outs | nothing serves before the checks hold at one head; nothing writes beside it |
| Event hub, speech (`internal/httpui/hub.go`, `internal/tts`) | bounded queues, high-water mark | publish, subscribe, enqueue, synthesize | slow readers, two callbacks at once | no duplicate speech, freshest event kept |

The remaining packages (configuration, diagnostics, metrics, encodings, schema text)
keep no state the properties are about; `PROJECT.json` lists each
with its reason.

*How they interact.* Every durable change goes through `Writer.Submit`; the
Application's workers, its recovery passes, ingress and the administration commands
are its callers. An ingress commits a message and then advances the resident's
foreground epoch; the dialogue worker of the resident discovers the message, pays the
obligation and, when a complete scan found nothing open, publishes a clean proof of
the epoch its scan began with. Only that proof admits background work, which in turn
takes a lease that an ingress or a resident boundary can cancel. A commit hints the
projection coordinator, whose transactions yield to the Writer's in the write gate.
After a crash the start-up passes close what no worker owns any more. Administration
processes and the server meet in the host lock of a data directory, in the namespace
lock of a target and in the files they leave behind.

## 2. Modules

| Module | Models |
|---|---|
| `CanonicalWriter` | the Writer and its SQLite backend, one action per critical section |
| `AtomicLedger` | what callers of the Writer rely on: an append-only list and truthful replies |
| `DialogueObligations` | the obligations, their workers, archive, stop, crash and recovery |
| `DialogueScan` | one resident's scan, epoch and clean proof |
| `BackgroundLease` | leases, fences, landing locks, selections and archives |
| `BlobStore` | blob files beside their references: requests, `blob recover`, `blob gc` |
| `WriteGate` | the gate as a monitor with broadcast wake-ups |
| `Projection` (extends `WriteGate`) | the coordinator and its transactions beside other writers |
| `MemoryWork` | the worker turn: mandatory sweeps, optional work, restarts |
| `MemoryRules` | the pure rules of `internal/memory`: policies, evidence, maturity, recall |
| `ClaimLedger` (extends `MemoryRules`) | claims and the commands that append to them |
| `Autonomy` (extends `ClaimLedger`) | self-talk and initiatives |
| `DialoguePrompt` (extends `Autonomy`) | the prompt of a reply: assembly, preparation, landing |
| `ClaimErasure` (extends `DialoguePrompt`) | erasure plans, logical erasure, integrity findings; the specification and the properties of the whole ledger |
| `Readiness` | the captured facts of a directory and the ordered readiness contract |
| `Publication` (extends `Readiness`) | the commands of a process, their locks, files and recoveries |
| `EventHub` | the hub's queues and the speech dispatcher |
| `ServeLifecycle` (extends `Publication`, `EventHub`) | start-up, gate, serving, shutdown, controller |
| `Operations` (extends `ServeLifecycle`) | the composition: processes, commands, servers, listeners |
| `*Proofs` | the proofs about `CanonicalWriter`, the two dialogue modules (`DialogueProofs`), `BackgroundLease`, `BlobStore`, `WriteGate` with `Projection`, `MemoryWork`, the claim ledger (`ClaimErasureProofs`) and `Operations` |
| `MC*` | the instances for TLC |

The modules cut the system at its own seams. `DialogueObligations` uses the Writer as
`AtomicLedger` promises it: a submission commits, is refused, or fails and may have
committed, after which the Writer is poisoned. It takes discovery as "the oldest
message that needs attention", which is what `DialogueScan` justifies.
`BackgroundLease` abstracts a dialogue turn to "close an open message or prove there
is none", the guarantee of `DialogueScan`; `MemoryWork` in turn takes an admission and
a landing as one step each, the guarantee of `BackgroundLease`. In `BlobStore` and in
the modules from `ClaimLedger` on a commit is one step, again as `AtomicLedger`
promises.

### CanonicalWriter

`pc[r]` is where the goroutine of the `Submit` call `r` stands; the points are the
gaps between two critical sections, and the three `un...` points are the clean-up of
an early return in the order of the code. `admissionActive`/`admissionDrained` are the
pause bookkeeping, `entry`/`contended`/`fences` the activity registry,
`pendingEnqueue`/`enqueueDone` the close gate, `wpc`, `cur`, `meta`, `result` the
Writer goroutine with the request in its hands, `ledger` the table
`canonical_commits`. A commit error may or may not leave the row (`AfterCommitError`);
either way the Writer is poisoned. A crash forgets everything but `ledger`. Integers
keep their limit: the cursor and the ledger time have maxima, and `nextMetadata` checks
both.

### DialogueObligations

`rows[e]` is the list of `generation_run_outcomes` of the run of message `e`; `worker`
holds what a turn read before its next transaction (the message, the attempt number,
the reason), so that everything it acts on may be stale. Each Canonical transaction is
one action with the guards the SQLite mutation checks inside it (`LandAllowed`,
`CancelAllowed`, `StartAllowed`, ...). `phase` walks through start (both recovery
passes), serving, stop and the recovery after it. Error classes are reduced to those
that the code treats differently. `unresolvable` are the messages whose event-time
revisions are gone (`LoseRevision`, the state that `mandatory_recovery_integration_test.go`
sets up): if such a message has no run yet, its cancellation cannot be built. A recovery
passes over it and keeps it as a candidate (`UnresolvedCandidates`), a shutdown ends all
the same, and the start ends before it serves, because the integrity candidate blocks
readiness; a turn or an archive that has to cancel it fails each time. The start is the
sequence `serve` executes; `Application.Start`, which runs both passes without the
readiness between them, has no caller in production.

### DialogueScan

Messages are numbered `1 .. n`; `open` is the set of those that need attention. A
discovery is the recent window, then one action per older page; `turn` is its local
state, `cycle` the process-local `dialogueScanCycles` entry. `OlderCandidates` is
taken to be `OlderPages * OlderPageSize`, as in production (1024 = 8 * 128).

### BackgroundLease

`epoch`, `clean`, `blocked`, `selectionBlocked` and `slot` are the maps under
`backgroundMu`; each critical section of it is one action. `lock[r]` is the landing
lock of a resident. `work` holds the residents whose `residentLock` exists, because
`SelectResident` consults that map when it cannot read the former selection. A worker
record carries its lease; `seen` is a history field, the number of messages accepted
when its epoch was captured. One worker per resident is faithful: dialogue, memory and
autonomy turns of a resident all hold `residentLock`.

### BlobStore

`process` is the holder of the host lock: the serving process, `blob recover`, `blob
gc`, or nobody; an erasure is one transaction of a process that holds the lock alone.
`req[r]` is the point at which a content command of the serving process stands and
which of its contents it works on. The file system is `marker` (what is left of each
staged file, and under which kind of name), `object` (the content-addressed objects),
`doomed` and `evidence` (the two kinds of quarantined objects) and `litter` (a
temporary file of a dead publication in a shard). The database is `rows` (`blobs`),
`present` (the content objects that are not erased), `head` and `projected` (whether
the `content_references` watermark is at the head); `committed` is a history variable.
`plan`, `job` and `batch` are what a dry run printed and what a recovery or a
collection holds in memory.

Every file operation that is atomic is one step, so that a crash can fall between any
two of them. Steps of requests interleave except where `finalizeMu` is held (`Locked`).
An I/O error inside `blob recover` ends the command like a crash. `ListOrphans` sorts
by names that are hashes and nonces, so recovery takes the orphans in any order. The
store, the reference check and the collection are scoped by resident; the model has
one. The identity checks of `fssecure` are taken to succeed: nobody but the process
holding the lock renames files, and `Damage` changes the bytes of an object in place.

### WriteGate and Projection

`at[p]` says where a caller of the gate is: outside, asleep on the channel it saw,
awake, or inside. Closing the channel wakes every sleeper; each one looks again.
`Projection` puts the transactions of the coordinator and those of a Canonical and an
operational writer through that gate. `mark` and `body` are a watermark and what the
rows were evaluated from, `job` the holder of the resident lock, `timers` the retry
goroutines with the signal they will deliver. Two projections depend on time and form a
cohort; `Plain` are the others. A pass is capture, plan, evaluation and a gated
transaction, each a step, and the wall clock moves between passes. The time zone of a
target, `Status` and `RequireCurrent` (reads), `Drop` (part of a restore) and the second
try after a lost comparison (nobody else moves a watermark under the resident lock) are
left out.

### MemoryWork

One turn of the resident's worker under `residentLock`. `fair`, `normal`, `complete`,
`rx` and `scans` are the Operational maps of the Application; `run` holds the latest
outcome of each obligation. `turn` is the local state of the code that runs:
which phase, which page, which lease. `uncovered` is a history variable: the events the
present sweep says nothing about. A boundary and an ingress interleave with every step.
Assembly of an available source is taken to succeed; a persistent assembly error would
keep the normal cycle dirty at its ceiling.

### MemoryRules, ClaimLedger, Autonomy, DialoguePrompt, ClaimErasure

The memory of one resident as the ledger keeps it. A claim is a record with its
evidence rows, its append-only stage and status rows, its scope, its usages and the
claim it depends on. Each command is one commit, with every check its transaction makes;
a generation run is two commits with anything in between, so `work`, `autos` and `talk`
hold what the first froze and the second checks again.

`lineage` has the two hops of the code. The first commit of a run freezes its inputs:
content objects of their own, a `Copy` of an event or of a statement with the same
bytes, or, for a claim that a dialogue recalls, a `Wire`, the JSON that `RenderClaim`
makes of it, whose bytes differ from the statement's (`Rendered`). The second commit joins
every input to the product. An edge is exact when its ends have equal bytes; the closure
of an erasure follows exact edges only, over both hops, and leaves what was derived
without being copied, and equal bytes without an edge, to the owner's review, who may
retain it. So the wire of an erased claim may stay, and a prepared dialogue may still hold
it; the landing then finds the claim without its statement. What runs at the moment of a
plan is known by its inputs, not by their sources (`captureErasureRunning`). A persona
revision goes only with its resident: an erasure of contents whose closure meets one is
blocked (`ResidentOnly`). The edge from a recall query to the reply
(`erasure_snapshot.go:383-411`) adds nothing here, since the query is the message that the
same run holds as a copy. The other contents of a run (the reason of a status change, the
raw output, error details, frozen revisions, the runtime projection in the prompt) are
left out.

`MemoryRules` keeps the numbers of the shipped policies in
thousandths. Texts are names: a statement is a member of `Statements`, the answer of a
provider a member of `Outputs`, and `TextOf` says which event has the bytes of which
statement, so that a claim may be a copy of an event. The preparation of a reply assembles the
prompt once more and compares it with the one it was given; the apply of an erasure
works out every effect of the plan again and reads its result back before the commit. A
recall that falls back because its projection is behind is left out: such a prompt holds
no claims. The erasure commands run in a process of their own under the host lock, so
only durable runs survive them; the model therefore states the contract of the store,
with commands in any order, and not the schedule of one process.

### Readiness, Publication, EventHub, ServeLifecycle, Operations

`dirs` are two data directories, the source and one to restore into; a bundle, an export
and a plan are entries of `pubs` with the place of their payload, their two markers and
the input they were made from. `job[p]` is the command a process executes, one step per
file operation of `PublishDirectory`, `PublishSingleFile` and their recoveries. A crash
ends a process between two steps and keeps what was done before. `PublishDirectory` puts
one barrier behind two operations twice (`publish.go:91-111`, `128-134`); that a loss of
power there undoes the first of two and not the second is not modelled. `runtime[p]` is the server in the same process: its
start-up step, gate, workers, handlers and what a time-out left behind; `hub[p]` its
event stream. `head` counts the commits since the behaviour began. Which commands a
behaviour may contain, and how often the environment acts, is its `budget`. The option
`--include-projections` of a backup, the manifest, digests and file identities are left
out: a bundle is whole or not. The two captures of an erasure plan (`CheckPlan`,
`erasure/service/service.go:145-158`) are one step, since under the host lock nothing can
commit between them. The branch of an export for a marker that turns out stale has no
step, because no sequence of the commands leaves such a marker. `AllowCommand` refuses
every command while the process serves; the code refuses the offline ones, and
`backup.restore` is not one of them (`admin_serve.go:386-388`): a restore beside a server is
what the other process does.

A publication takes the hub's mutex and then, for each subscriber, up to three channel
operations: a send; if the queue is full, a receive that drops the oldest event; and a
second send. The browser takes from the queue without the mutex. `offer` is where the
producer stands with a subscriber, each operation is a step (`Offer`, `DropOldest`,
`Resend`), and `Receive` comes between any two. So a producer may drop an event from a queue
in which the browser has just made room, or find it empty: one event more is lost than
had to be. No statement of the code rules that out. `Underway` is the mutex: nothing else
is published, subscribed or closed until the last of the three is done.

## 3. Runs

| Run | States | What it checks |
|---|---|---|
| `canonical_writer` | 0.2 M | `LedgerOrdered`, `FenceExclusive`, `PausedLedgerStable`, the refinement `RefinesLedger`, `SubmitReturns`, `ClosedWriterStops` |
| `dialogue_obligations` | 0.5 M | `HistoryWellFormed`, `ProviderBounded`, `BoundaryHolds`, `ArchiveClosed`, `RecoveryComplete`, `ObligationCloses` |
| `dialogue_scan` | 0.2 M | `CleanProofSound`, `MessageReached` |
| `background_lease` | 0.5 M | `StepsInsideLease`, `PreemptionReaches`, `FenceReleased`, `BoundaryReturns` |
| `blob_store` | 0.7 M | `ReferencesStored`, `Discoverable`, `GcComplete`, `MarkerOutlives` |
| `memory_work` | 0.4 M | `MandatoryFirst`, `MemoryReached`, `ScansComplete` |
| `claim_ledger` | 0.3 M | `ReplaySound`, `CopiesErased`, `ErasureReviewed`, `SupportKept`, `ParentsPresent`, `SettlesGrounded`, `SpeaksInTurn` |
| `projection` | 0.2 M | `WatermarkSound`, `CohortTogether`, `Converges` |
| `operations` | 0.8 M | `PublicationSound`, `SourceHeld`, `OpensProven`, `AudioFollowsText`, `FreshestKept` |
| `blob_store_collision` | - | `RecoveryResumes`, violated: see section 6 |
| `memory_work_deferred` | - | `NoOlderMandatory`, violated: see section 6 |
| `autonomy_stuck` | - | `IdleReached`, violated: see section 6 |

*Bounds.* All bounds are constants named in the modules: they limit how often the
environment acts, never what the code does.

* Writer: an ordinary, cancellable request and a fence of the same resident, a queue of
  one, a pause, a close, one crash; two cursors and two instants. The limit of the time is
  reached; that of the cursor is not, since two requests take two cursors, and is covered
  by `LedgerAlwaysOrdered`. Instances with three requests and no crash were checked earlier.
* Obligations: two attempts are the smallest budget in which a retry and an exhausted
  budget differ; two disruptions (crashes, stops, errors of the Writer and lost revisions
  together) allow a crash in the recovery of a crash, and a stop that leaves a message
  whose cancellation cannot be built; one move is a selection, an archive or an erasure
  between any two steps.
* Scan: five messages with a window of one and pages of two give a cycle of two
  discoveries whose window slides while it is under way.
* Leases: two residents are needed for a selection to move; the boundary is the only
  actor that takes more than one landing lock, so one of them with work is enough (an
  instance with work for both, without faults, was checked as well).
* Blobs: two requests that share a content, one of them with a second content, are
  needed for an object with two markers and for a command that fails after its first
  content; two faults allow a crash in the recovery of a crash; one erasure is what
  makes a committed content collectable.
* Memory work: two evidence events and a re-extraction put a sweep over several turns;
  one message, one boundary, one fault (failure, preemption or restart) disturb it at
  any step; all four kinds of optional work wait behind it. With two faults and two
  kinds `MandatoryFirst` was checked over two million states.
* Claim ledger: nine starting points, each a ledger the commands produce (the empty
  one, a pair ready to be aligned, a settled pair, the same with an initiative that waits
  for its next attempt, a replacement, a conflict, a waiting reply, an unextracted
  message, an old policy), and three more commits in any order: the shortest sequences in
  which a run is prepared, disturbed and landed. One message says a statement word for
  word and the reply repeats another, so that there are exact edges on both hops and
  equal bytes without an edge.
* Projection: two commits, two instants, one activation of a policy, an operational
  transaction and one fault out of errors, cancellations, a clock set back, a stop and a
  crash.
* Operations: two processes, two directories, two listeners. The scenarios of
  `MCOperations` divide the budget: up to four publishing commands with two crashes;
  the maintenance commands; a server beside commands; the owner's commands on a
  directory that is not ready; two servers; a server with listeners and voice. Processes
  and listeners are symmetric.

*Deadlock* is not checked where the submissions, messages, moves or budgets of an
instance are used up, or a Writer that was closed has stopped. What must not stop is
stated as liveness. `memory_work` checks it.

*Fairness.* Goroutines that can run do run: weak fairness on every `Submit` call, on
the Writer goroutine, on a pause that waits for quiescence and on reopening the Writer
(`CanonicalWriter`); on the turn, on archive cancellation and on recovery
(`DialogueObligations`); on the turn and on the preemption that follows an ingress
(`DialogueScan`); on the steps of a turn, of a preemption, of a boundary, of the archive
clean-up and on the restart of a stopped process (`MemoryWork`); on the holder of the
resident lock and the writers in the gate (`Projection`). Strong fairness appears where
a step waits for a mutex that a busy goroutine takes again and again, because a
`sync.Mutex` hands itself to a waiter that starves: three steps of `BackgroundLease`,
the start of a turn in `MemoryWork`, the retries and tickers of `Projection` (whose
timers fire again and again). No provider has to answer except by its deadline, no
caller has to cancel, and nobody has to close or crash the program. `ObligationCloses`
speaks of the time the process serves with a healthy Writer and somebody selected: with
no resident selected the safety scan returns before it lists the unavailable residents
(`application.go`, `cancelUnavailableResidentWork`). It says nothing either once a message
is owed a cancellation that cannot be built: its turn fails each time
(`dialogue.go:292`), which holds up the later messages of its resident, and the scan of
the unavailable residents ends at the first that fails (`application.go:814-816`).

## 4. Proofs

The theorems hold for every value of the constants that the named `ASSUME`s of the
modules allow: any number of requests, residents, processes, messages or listeners, any
limits, any number of crashes and failures. TLC evaluates the assumptions in the runs,
and it checked each inductive invariant on the run's instance before the proof.

`CanonicalWriterProofs`:

* `TypeCorrect`: `Spec => []TypeOK`.
* `LedgerAlwaysOrdered` (dense cursors, increasing times, both in range) and `HeadAlwaysCurrent`: by
  `LedgerInv`. Order alone is not inductive: the next row is built from the cached
  `head`, so the invariant adds `HeadCurrent` (a Writer that is up and not poisoned has
  the ledger's last row cached) and `WorkInv` (a Writer with a unit of work in hand has
  a request, is not poisoned, and `meta` is a successor of the head).
* `FenceAlwaysExclusive`: by `FenceInv`, which adds `SentInv` to the above: a request in
  the queue or in the Writer's hands belongs to a submitter that has sent it. Without
  it the Writer could finish the registry entry of a command that is still being
  admitted.
* `PauseHoldsLedger`: between a granted pause and the resume the ledger does not move.
  `PauseInv` says why: `admissionActive` is the number of requests between
  `beginAdmission` and `endAdmission`, wherever they are, a granted pause finds it at
  zero, and (`QueueInv`) a request is in the queue or in the Writer's hands only once.
* `WriterImplementsLedger`: every step is one step of `AtomicLedger` or a stutter, under
  the mapping of `CanonicalWriter`. `TruthInv` says that caller, response channel and
  Writer agree with the ledger about each request: nothing is answered before the call
  leaves, a row is never contradicted by a rejection, and "committed" is said of rows.

`DialogueProofs`, first about `DialogueScan`:

* `ScanTypeCorrect`, `ScanAlwaysCovers` and `CleanProofAlwaysSound`, all from
  `ScanInv`. Soundness of the proof needs `ScanCoverage` (what a cycle of the current
  epoch has passed is closed), which holds while no ingress is between its commit and
  its epoch; `Bookkeeping` adds how the epochs and cursors of the cycle, of the proof
  and of the turn relate.

and about `DialogueObligations`, all from `ObligationInv`:

* `ObligationTyped`, `HistoriesWellFormed`, `ArchivesStayClosed`,
  `ProviderAlwaysBounded`, and the action properties `BoundaryAlwaysHolds` and
  `RecoveryAlwaysComplete`. A history is written from what a worker, the archive or a
  recovery read some steps before, so the invariant says of each of them what is still
  true of the history when it lands (`WorkersFit`, `ArchiverFits`): the attempt that a
  turn retries is still the latest one unless the resident was archived meanwhile, a
  turn at the provider is within the budget, and no attempt is running when the second
  pass of a recovery begins (`NoneRunning`). `RecoveryAlwaysComplete` has the exception the
  code has: what has no run and cannot be given one stays open over a shutdown, and no
  start ends in service over it.

`BackgroundLeaseProofs`, all from `LeaseInv`:

* `LeaseTyped`, `CallsPreempted`, `FencesReleased` and the action property
  `LandsInsideLease`. The invariant relates each lease to the epoch, the slot and the
  fences at the step its holder stands at, and each boundary to the locks and fences it
  has taken, which is what its error paths have to give back.

`BlobStoreProofs`:

* `BlobTypeCorrect` and `ReferencesAlwaysStored`, by `StoreInv`. That references keep
  their objects is not inductive: a commit makes references of what its request
  finalized long before, and a recovery or a collection deletes what it found
  unreferenced earlier. The invariant adds `FinalizedStored` (what a request has
  finalized is under its name or was kept as evidence), `OneHolder` (a recovery or a
  collection is never under way while a request is), `JobSound` (the reference check
  in the hands of a recovery is still true) and `BatchSound` (the candidate in the
  hands of a collection is not referenced).
* `MarkerAlwaysOutlives`, an action property, by `UnlinkInv`, which adds `UnlinkSafe`:
  at most one request is inside `finalizeMu`, and a marker about to be deleted has its
  object in place if its content is referenced.
* `CollectionAlwaysComplete`, by `CollectionInv`: every unreferenced content of which a
  row or an object is left is still in the plan of the collection that is under way.
* `OrphansDiscoverable`, by `MarkersInv`: what a request has stored and not committed
  has a sealed marker until the object is gone or a commit refers to it.

`ProjectionProofs`, about the gate and about the coordinator that uses it:

* `GateAlwaysSound`: at most one caller is inside, and `active` and `highWaiting` are
  exact.
* `NobodySleepsInVain`, by `SleepersHeld`: whoever sleeps on the present channel is kept
  out by somebody who will signal. No wake-up is lost, which is why a cancelled high
  waiter has to signal.
* `GateSoundInUse`: the gate's invariants hold in the use `Projection` makes of it,
  crashes included; for this `GateSides` says which callers are on which side.
* `WatermarksAlwaysSound`, by `MarksInv`. The transaction writes what was planned and
  evaluated before it queued at the gate. The invariant says of the request in the
  holder's hands that it is still true when it lands: commits only append, so what was
  evaluated through a cursor stays what an evaluation through that cursor gives, and
  only the holder of the resident lock moves a watermark.
* `CohortAlwaysTogether`, by `TogetherInv` beside `MarksInv`. While a pass is under way
  the members of the cohort may stand apart, so the invariant says what each of them is
  owed (`CohortInv`): a pass that has the cohort in it will still come to the member, has
  failed at it and put that on record, or has left it at the cohort's target; and a pass
  without the cohort leaves both alone. Which members are still to come is read off the
  sequence of the pass: `reconcileGroups` is shown to keep the members together in it.

`MemoryWorkProofs`:

* `MandatoryAlwaysFirst`, by `SweepInv`. That the mandatory work is done is decided many
  turns before the optional call it protects, from cursors that were moved at different
  epochs. The invariant says what each record of the Application vouches for: a cursor of
  the present epoch has the last event as its ceiling, and behind a cursor that is not
  dirty everything is covered (`NormalInv`; `RxInv` the same for the requests, which no
  epoch outdates, until one arrives that sets `pending`); a sweep recorded as complete at
  the present epoch covers everything (`CompleteInv`); a clean proof of the present epoch
  means that every dialogue is closed (`CleanInv`). All of it only until the next message
  is durable (`arriving`): between that commit and the epoch that outdates the proofs
  they are false, and the admission of a call is what waits for both. For a turn it
  says what the answer of a pass will make of the cursor it is about to move
  (`NormalAnswer`, `RxAnswer`), that a turn in the queue began at the epoch of the proof
  or later (`QueueTurn`), and that both proofs stand behind every point of optional work
  (`OptionalInv`). `World` are the parts about the Application's maps and the tables,
  `Turn` those about the turn that runs; each action has a lemma for both.

`ClaimErasureProofs`, about the whole claim ledger (`ClaimLedger`, `Autonomy`,
`DialoguePrompt` and `ClaimErasure` together), all from `LedgerInvariant`:

* `ReplayAlwaysSound` and `CopiesAlwaysErased`, and the action properties
  `ErasureAlwaysReviewed`, `SupportAlwaysKept`, `ParentsAlwaysPresent`, `SettlesAlwaysGrounded` and
  `SpeaksAlwaysInTurn`. They hold for any events, statements, answers of a provider,
  limits and number of commits, and from every history that `SeedsAssumption` admits:
  claims whose rows can be replayed, a settled claim that names a meta claim, edges and
  intents that name what exists, runs that are numbered up to the present commit and hold
  the inputs their steps need, limits on speech that were kept. The empty history is
  one, so the theorems cover every ledger that grows from nothing; the other seeds of
  the run are evaluated against the assumption by TLC. `LedgerAssumption` says that
  events and claim ids are different things and what an answer is; `AutonomyAssumption`
  that limits are numbers.
* Replaying is inductive only together with the shape of a claim (`ClaimsInv`: rows are
  sequences, there is a first stage, a dependency names a meta claim that exists). Runs
  are prepared from one ledger and landed on a later one, so `WorkInv`, `AutosInv` and
  `IntentsInv` say what their references still point to; the proofs need that a claim
  never leaves and keeps its kind (`Grown`). The limits of speech are counts over the
  log (`LogInv`): the landing decides again, and only a message resets the count.
  `LineageInv` says that every edge is one of the two hops, `RunsInv` that a run holds
  copies of its own, and wires only of the claims in its prompt; `ErasedInv`, that no input
  of a run to come is erased, keeps fresh inputs present. `RunningInv` says that an erasure
  took nothing a running attempt reads, for which `PlanInv` carries the planner's check
  to the apply (and that a plan quarantines active claims). From these the landing's
  sources follow although only the inputs are read back: a copy is erased with its source,
  and of a wire the landing asks for the claim.
* `CopiesErased` is its own inductive invariant because an erasure is applied against
  the ledger of that moment: `ErasureApplied` derives it, and `SupportKept`, from the
  checks of the apply (no commit came since the plan was built, and its targets, lineage,
  candidates and support breaks are worked out again), and `ErasureReviewed` as well. That the planner's closure was computed correctly is not needed; a
  plan with a wrong closure is refused.
* No induction over data is used. A row that is appended continues the last one, so
  `ReplayClaimStates` of the longer sequence follows from that of the shorter one; stage
  and status are read off the last row.

`OperationsProofs`, about the composition of processes, commands, servers and streams:

* `SourcesHeld` and the action property `OpensOnProof`, by `HoldInv`. It says which lock
  each process holds at the step it stands at (`JobFits`, `RunFits`), that nobody else
  is inside that lock, and, at start-up, what the proof in hand says about the present
  head. The steps of one process are shown to leave the others' part alone (`Alone`)
  and to restore its own (`Held`).
* `PublicationsHold`, by `PubInv` on top of `HoldInv`. What is reported is true of files
  that a command left many steps ago and that other commands, recoveries and failures
  have worked beside since. The invariant says what the publication at hand is at each
  step (`WorkFits`: the payload is whole before the first marker, the marker inside is
  gone before the one beside goes), that the namespace lock keeps two commands off one
  target (`WorkersApart`), that nothing touches what a restore or a decision works from
  (`FromFits`), and what may still happen to a reported publication (`ReportFits`: only
  a second run over the markers of a restored directory). The bundle needs more than
  its name: `BundleTraces` has at most one member, because a recovery identifies a
  bundle by markers inside and beside it.
* `VoiceFollows` and `SubscribersFollow`, by `HubInv` of every process. The order of
  text and voice spans four steps of two goroutines, so `VoiceInv` says of each callback
  and each request what has been published; `Follows` says that a queue, with the event
  that a producer has in hand for it, is a tail of what its subscriber should hear, and
  that a producer that dropped an event finds room, because only the browser works on the
  queue in between.

*Only model-checked.* Liveness (`SubmitReturns`, `ClosedWriterStops`,
`ObligationCloses`, `MessageReached`, `BoundaryReturns`, `MemoryReached`,
`ScansComplete`, `Converges`) and `ENABLED` are outside the prover's reach. Every
invariant and every action property of the passing runs has a theorem. What a fold over
data computes is out of reach as well: that the starting points of the claim ledger's
run, which folds build, are histories as `SeedsAssumption` describes them is evaluated by
TLC, and that the planner finds a closure which the apply accepts is seen in the run
only, where erasures are applied.

*What the proofs found.* `MandatoryFirst` was first stated for a sweep within one turn
and passed its run. The proof failed at a sweep that spans turns: a pass crosses a
message whose dialogue is open, the dialogue is closed and its extraction fails before
the sweep ends, and nothing comes back to it at this epoch. TLC confirms it with two
messages and two faults. It is a second way to what `memory_work_deferred` shows;
`uncovered` therefore collects what every pass of a sweep crossed (`Crossed`).

## 5. Not modelled

* Texts, prompts, hashes, JSON, digests, file identities and permissions; the schema,
  its migrations and SQLite's settings; configuration, secrets and release assets;
  printing and parsing of the command line; metrics, health and diagnostics reports (only
  what diagnostics does to a directory is an action).
* SQLite itself: a transaction is atomic and durable once it commits. Likewise a
  rename or an unlink, once its step was taken.
* Quiet hours, time zones and the enabled flags of autonomy; the trigger on volatile
  aging, which differs from future-to-current in its boundary only.
* The fixed-point arithmetic of salience decay and of currentness between its limits.
* Rules of the integrity scanner that only read rows, and the encoder of an export.
* Lifecycle commands from a second process against the Application's locks:
  `BackgroundLease` has `SelectResident` and `ArchiveResident` as calls in the serving
  process, for which those locks are written; the commands of other processes are in
  `Operations`, where the host lock keeps them apart.
* A memory extraction whose cancellation envelope cannot be rebuilt
  (`memory_extraction.go:1432`); `MemoryWork` takes the cancellation of an extraction to
  succeed. `DialogueObligations` has the same case for replies.
* HTTP handlers other than the event stream: each is I/O around one submission.

## 6. Findings

`memory_work_deferred`. `processMemoryExtractionQueue` captures the foreground epoch
after the dialogue scan recorded its clean proof. The trace: the scan is clean; a
message arrives and moves the epoch; the sweep captures the new epoch, skips the message
because its reply is open, and is recorded as complete; its re-extraction pass is
interrupted; the next turn answers the message and does one fair extraction without a
sweep; the turn after it resumes the re-extraction pass, finds the normal sweep complete
at the present epoch and lets optional work start while the extraction of that message
is pending. `autonomy.go:144-147` says that an empty page "is not proof that no older
mandatory memory work remains". The extraction is not lost (`MemoryReached` holds);
`MandatoryFirst` states what does hold.

`autonomy_stuck`. `DiscoverReevaluationTriggers` lists a settled claim whose meta claim
changed status without asking whether the claim itself is still active. If it is not,
the preparation is refused, the scan ends with that error before it looks at the idle
period or at initiatives, and nothing is stored, so that every later scan ends there.
With discovery restricted to active claims the property holds. A second way to the same
result: a retry-pending idle run whose message is no longer the last one is refused by
every scan.

`blob_store_collision`. `CleanupOrphan` deletes an unreferenced object by moving it to
`quarantine/delete-object-<resident>-<digest>` and deleting it there; a recovery that
finds no object looks for that name and resumes. The trace: a recovery dies after the
move; the same content is staged and finalized again by a request that does not
commit; now object and quarantined copy both exist, the next recovery sees the object,
does not look at the quarantine, and its rename, which replaces nothing, fails. Each
`blob recover` stops at this orphan with an error, until a `blob gc` has removed the
object. No reference is ever lost
(`ReferencesStored` holds), but the clean-up cannot be finished.

### Observations

Met while modelling; no run states them, because the repository promises nothing
definite or because they need no model.

* Leases: when `SelectResident` cannot read the former selection it fences the residents
  it finds in the worker map. A former resident whose first turn has not begun is not in
  that map, so it can register a lease after the selection committed and start an
  attempt although it is no longer selected. Its landing is refused.
* Blobs: the temporary file of a publication that died in a shard is never removed, and
  `blob gc` refuses to run while it is there (`litter`); the quarantined copy of a
  content that was stored again and then referenced is never deleted.
* Projection: the comment at `coordinator.go:535-538` says that exact-target updates
  also heal "the equal-as_of/different-timezone case"; `validateProjectionApplyPlan`
  refuses a re-evaluation at an equal instant.
* Memory work: the preparation of an autonomous run is not fenced; a preempted
  derivation stays retry-pending. The commands `admin memory reextract`, `abstract`,
  `split` and `persona` run in a process that has made no scan, so the proof they ask
  for is missing.
* Claims: a derivation inherits evidence without asking whether the event's content is
  present; the greedy choice of sources may take a lighter row of an event whose
  heaviest row's source was full, and is then always refused; the owner's reactivation
  of a quarantined claim does not look at its support; a prepared dialogue keeps its
  frozen prompt after the owner restricts a claim in it; a replacement intent recorded
  after the alignment of its new claim was prepared is never applied, and one whose old
  claim is no longer settled fails every alignment. An erasure whose closure meets
  generated content that is already erased cannot be planned any more
  (`planner.go:440-445`).
* Publication: a restore does not look at pending markers beside its target, and two of
  them leave its durability unknown for good; recovery of a backup or an export refuses
  once the source has moved; opening the target of an interrupted restore, also by
  `admin diagnostics`, creates `.mahoroba.lock` and so changes the digest its recovery
  compares, although `hostlock/lock.go:28-30` calls that file "a harmless rendezvous
  point"; a failure after the markers were removed deletes a published export or plan
  with the staging handle; `backup verify` and the server do not look at markers; a
  crash leaves a journal that makes backup, export and plan refuse until somebody opens
  the directory for writing; a backup refuses when commits have not been projected.
  The branch of `RecoverSingleFile` for a stale marker and the refusal of the final
  rename are reached by no sequence of the commands.
* Shutdown: a speech queue that outlives its time-out asks for a restart but gives up
  the host lock (it writes nothing).
* Events: a producer may drop an event from a queue that is no longer full, when the
  browser received between its failed send and its drop (`hub.go:191-204`); a subscriber with audio may receive a voice whose text was dropped from its
  queue; of two utterances whose callbacks overtake each other the earlier one is not
  spoken (high-water mark).

## 7. Plan

Done: every component that keeps state the properties are about is modelled, most of
them wholly; `PROJECT.json` lists what is left of each. Eight modules have proofs, and
every safety property of the passing runs has a theorem.

Next, in this order:

1. `claim_ledger` with a fourth commit; `projection` with two residents.
2. Pure algorithms that are still abstracted (salience, maturation at its limits) as
   operators against reference definitions.
