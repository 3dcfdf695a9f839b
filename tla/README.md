# ProofRay durable memory: TLA+ specifications

The repository's own core is a durable memory engine (`src/src/horizon_memory/_engine/`): facts
with versions, written through a group-commit WAL, published by replacing one `CURRENT` pointer,
replayed after a crash. This project models that engine, checks it with TLC and proves its main
promises with TLAPS. Line numbers below are of `horizon_*.py` in that directory.

## The system

| Part | State | Operations | Hard behaviour | Correct when |
|---|---|---|---|---|
| Commit rules (`horizon_store`, `prepare_batch`) | index of facts, index of operation ids, base | preflight, deduplicate, apply | retries, equal versions, a base that abstains | replay decides as the writer did |
| Group-commit writer (`horizon_batch`) | queue, batch, snapshot and cursor, descriptor, lease | submit, result, cancel, drain, commit, poison, close, fence, rotate, compact | client threads against the worker, timeouts, a failure at each step | an answer is true and stays true |
| WAL and reducer (`horizon_wal`, `horizon_walstore`) | segments | append, seal, scan, replay | torn tails and footers, limits | what was published replays |
| Manifest, publication (`horizon_manifest`, `horizon_publication`) | objects, `CURRENT` | open, compare-and-swap | a rename before its fsync, stale publishers | `CURRENT` always opens |
| Recovery (`horizon_recovery`) | writer lease, plan | recover, resume, truncate | reads under no lock, two processes, crash while truncating | a resumed writer knows what the disk says |
| Rotation (`horizon_rotation`) | next ACTIVE, prepared packet | seal, publish, create, activate | a crash at each step, an orphan next file | nothing is lost or forked |
| Compaction (`horizon_compaction`) | new base | drain, build, publish, activate | deduplication memory moved to a base | retries remain retries |
| Garbage collection (`horizon_gc`) | roots, pins, prepared packets, quarantine, journals | scan, plan, move, recover, pin | a root gained during collection, a stop half way | what is reachable stays |
| Linearizability tools (`horizon_linearizability`, `horizon_lin_recorder`) | histories | record, decide | search limits | the verdict is the definition's |
| Facade (`api.py`, `_bootstrap.py`) | genesis store, writer, seen facts, cache of generations | create, open, put, delete, get, views, compact, audit, close | lazy activation, readers beside writers, failures of compaction | audit and reads agree with the log |
| Sidecars, open-text memory | payload files beside the log | write, repair, read | two stores updated in order | payload and fact agree |
| Answer engine, resolvers, adapters | none | text in, answer out | none of the above | outside these models |
| HTTP and MCP servers (`api/`) | tokens, buckets | requests | concurrency in the rate limiter | outside these models |
| App (`apps/proofray`) | conversation store, outbox, bridge | send, retry, reconnect | late and duplicate answers | outside these models |

Clients call the facade or the writer; the writer appends to the ACTIVE segment
(`horizon_walstore`), publishes through `horizon_publication`, and answers. Rotation and compaction
stop a writer, take its lease, and start its successor. Recovery reads `CURRENT` and the objects it
names, and starts a writer in a new process. `horizon_gc` moves what nothing reaches to a
quarantine. Between processes there are the lease (`.writer.lock`), `.publish.lock`, `.gc.lock`
(the collector and the preparation of packets) and `pin.lock` (the collector's moves and captures).

## Modules

| Module | Models |
|---|---|
| `CommitRules` | canonical commands, preflight, deduplication, the decision per command |
| `WalReplay` | the reducer that rebuilds the indexes from frames or segments |
| `GroupCommit` | one writer in one process: clients, worker, lifecycle calls, file and CURRENT; implements `MemoryLog` |
| `GroupCommitReplay` | the writer's file as `resume_existing` reads it: writer and reducer side by side |
| `MemoryLog` | what a scope promises: an append-only history, a stable part, acknowledged operations; and the proof that it does |
| `ScopeRecovery` | one scope on disk, several processes: recovery, commits, rotation, stops, power loss; implements `MemoryLog` |
| `ScopePower` | two instances of a scope under power loss, with deaths and without; its theorems |
| `Compaction` | generations of one scope: what moves from the WAL to a base and its deduplication table, failures, restarts |
| `Collector` | the garbage collector and its recovery against a publishing writer and pinning readers |
| `HorizonMemory` | the facade: handles and threads over one scope, the first write, cache, audit, close |
| `MCGroupCommit`, `MCScopeRecovery`, `MCScopePower`, `MCCompaction`, `MCHorizonMemory` | instances for TLC |
| `GroupCommitProofs`, `WalReplayProofs`, `ScopeRecoveryProofs`, `CompactionProofs`, `CollectorProofs`, `HorizonMemoryProofs` | theorems |

`GroupCommit` and `WalReplay` EXTEND `CommitRules`, and `GroupCommitReplay` EXTENDS both to compare
the writer with its replay; `ScopeRecovery` EXTENDS `WalReplay`. Both `GroupCommit` and
`ScopeRecovery` INSTANCE `MemoryLog`, the first with batches of up to `MaxBatchCommands`, the second
with one command at a time. `ScopePower` EXTENDS `ScopeRecovery` and takes it once more, by
INSTANCE of its proofs, with `ProcessesDie <- FALSE`.
`Compaction`, `Collector` and `HorizonMemory` each take their neighbours as those modules leave
them: `Compaction` lets a writer commit one frame at a step and publish it, `Collector` keeps of a
publication only what it reaches, and `HorizonMemory` calls a writer whose retry memory after a
compaction is what `Compaction` says. `PROJECT.json` names, for each definition, the lines it
stands for.

**GroupCommit.** `pc` is where the worker stands in `_run`, `_drain_locked` and `_commit_batch_*`;
`queue`, `batch`, `plan`, `snap`, `cursor`, `lease`, `stop` and `poisoned` are the attributes of
`GroupCommitStore`; `state`, `status`, `cancelled` belong to a request, `told` records what its
client has heard. A block under `_cv` is one action; whatever another thread can see between two
blocks is a state. `wal`, `synced` and `current` are the file, its fsynced length and the
published sequence. A write may stop after any prefix of the batch; each call that can raise has a
failing action. Two calls have no `try` around them, and end the worker thread with the store
neither stopped nor poisoned (`pc = "died"`): the telemetry callback, and the planning of a command
whose version no u32 holds (`PrepareRaises`). `Published` selects the activated or the legacy path.

**ScopeRecovery.** `current` and `onDisk` are CURRENT as a process sees it and as a power loss may
leave it; `files` and `stored` the same for ACTIVE files; `objects` and `unsynced` for the object
store. `pc[p]` is the step of a process in `resume_from_recovery`, `_commit_batch_published` and
`publish_batch`, or `prepare_rotation`, `publish_rotation` and `activate_prepared`. `Ends` is a
process that dies, a writer that is poisoned or closed, an attempt that raises: in each case its
lease goes and the disk stays. Abstractions: one command per batch (`GroupCommit` has the
batching); equal digests are equal contents; a partly written frame is a whole one, since readers
only see bytes after the published prefix; a manifest and its record are one object, because the
record is linked after the manifest in the same directory; a file's fsync keeps its name; base
empty; nothing collected. The initial state is the one `create_genesis` leaves. Two branches of the
code cannot be reached when the parts are put together: `seal_active`'s repair (a failed rotation
gives up its lease, and the recovery that follows truncates the footer) and `ALREADY_PUBLISHED` (a
writer whose publication failed is poisoned, and its successor starts from CURRENT).

**Compaction.** A generation is its absorbed sequence number, its facts with tombstones, its
deduplication entries and, per client, the highest txid seen and the lowest retained. `log` holds
every frame ever committed; `base`, `index` and `tx` are the writer's memory. `Prepare` is
`prepare_compaction` with its drain, its refusals (u8, a client that falls back, a full generation
id) and its merge; `Publish` the MAINTENANCE publication, `Activate` `activate_compacted`. A step
may fail with the process alive (the facade's writer is stopped) or with it dead, and `Resume`
rebuilds the indexes from CURRENT alone. Retention is by distance of txids, not by number of
operations (`horizon_compaction.py:99`): a client that skips txids is forgotten sooner, which is
what `RetriesRemembered` states.

**Collector.** `objects`, `quarantine`, `journals`, `prepared`, `named` and `chain` are the disk;
`gc` is where `run_gc` or `recover_gc` stands and what it has read so far, `writer` a publication,
rotation or compaction under way, `reader` and `pin` a capture and its ephemeral file. The steps of
the collector are those between which another process can matter: reaping, the scan of pins and
packets, the reading of CURRENT and its ancestors, the first signature, the plan, `pin.lock`, the
second signature, the journal and each move; in a recovery each restored object, the scan, the
reading of CURRENT, the plan and each return. Every process can die, or a call fail, between any two
steps. A put that raises in `prepare_rotation` keeps `.gc.lock` until its process ends
(`PrepareRaises`). A pin whose file a scan cannot open or lock looks dead (`PinUnreadable`), and is
lost to the collector if it is reaped while it does; one that is created and not yet locked looks
dead too.

Each signature and each scan is one step although it reads several files. The parts of a first
signature may be of different moments: if a root was added in between, it is either missing from the
signature, which the second one then does not equal (CURRENT never returns to an earlier value), or
in it and not among the roots read before, which is what `RootIsMissed` looks at. A packet is only
removed while a collection runs, `.gc.lock` keeps new ones out, and a removal after or before the
scan gives the same plan or a stale one. The second signature is read under both locks, so that only
CURRENT can gain a root. The listing of `objects/` comes after the closure is read; others only add
objects meanwhile, so it is one step with it, placed where the listing is.

Nothing excludes a publication from any of these steps, and nothing tells a scan that a pin is
unreadable. `exposed` records that this has happened where it can matter: a publication puts its
objects while a collection moves, or after a recovery has read CURRENT, or has put them before and
not renamed yet (`PutIsMissed`, `PublicationIsMissed`); a held pin is not seen by the last scan of it
(`PinIsMissed`); CURRENT or a pin has appeared between the reading of the roots and the signature that
is to compare them (`RootIsMissed`). It is history: no step of a process reads it, and no step is kept
from happening. A recovery that found every root clears it.

**HorizonMemory.** `at[t]` is where a thread stands in `_submit`, `_read`, `compact`, `audit` or
`close`; `lock[h]` is the handle's lock, `cache[h]` its generations. The first write seeds the genesis
store, publishes, rotates and activates the writer in three steps, whatever the store answered; each
may fail. An empty segment is "not needed" and leaves the genesis store as it was, so that the next
write tries again, unless a command that was taken back still waits in its queue: then the store is
fenced for nothing. A write whose wait expired may still be committed (`late`). A version no u32 holds
leaves a worker that is gone (`"dead"`): later writes wait and are answered OVERLOAD, and `compact()`,
where there is a published writer, installs a new one. The log, CURRENT and the views are what is on
disk.

## Runs

| Run | Instance | Shows |
|---|---|---|
| `GroupCommit` | three requests over conflicting commands, `close` | the safety properties of the writer; each batch is one step of the abstract log |
| `GroupCommitLegacy` | two requests, the path that publishes nothing, a base with entries, expired ids and abstentions, a sink that raises | deduplication through the base; replay, retries and refinement against the WAL alone |
| `GroupCommitLive` | two requests, every lifecycle call, two puts that do not fit one batch, a version no u32 holds, a sink that raises | each admitted request is answered and a fence drains, or the worker died; the lease has one owner |
| `RotationNotNeeded` | expects a violation | finding 1 |
| `ScopeRecovery` | two processes, three segments, two frames, two stops | publications open, one writer, agreement, refinement |
| `ScopePower` | one process, four stops or power losses; and, without deaths, three segments | agreement and refinement when bytes and names are lost; without deaths publications open and replays survive: every fsync is in its place |
| `ReplayNotDurable` | expects a violation | finding 2 |
| `PublicationLost` | expects a violation | finding 3 |
| `Compaction` | two facts, two clients with three txids, two compactions, three frames | no answer changes, nothing is applied twice, what is forgotten stays so |
| `Collector` | one reader, one publication after genesis, three runs, one stop | the golden rule unless overlapped, whole packets, journaled quarantine, exact recovery |
| `CollectorRace` | a writer and a collector, no reader, no stop; expects a violation | finding 4 |
| `HorizonMemory` | one handle, two threads, a delete and a newer put, one failure | reads, audit and close against everything another thread does |

*Bounds.* Two frames give a published prefix with a frame after it, a rotation with frames on both
sides, and a retry of an older write. Three segments give a chain with a sealed predecessor. Two
processes are enough for a stale plan and for a second writer, since the lease admits one at a time.
A stop leaves traces on disk that a second, a third and a fourth can meet: that is `MaxStops`. In
`GroupCommit` three requests give a batch with a retry and a conflict and a request left in the
queue; in `GroupCommitLegacy` and `GroupCommitLive` the byte limit closes a batch before its count
does. `ScopePower` chooses between its two instances in the initial state (`mode`); where processes
die its bound is one rotation. `U8Max`, `U32Max`, `TxidMax` and `MaxGen` stand for 255, 2^32 - 1,
2^64 - 1 and 2^32 - 1 and are met by commands and compactions at them and just beyond. In
`Compaction` two generations let the second compaction merge a base that already has a floor and a
tombstone. In `Collector` one publication after genesis is a batch, a rotation or a compaction: each
leaves something unreachable, and three runs are a collection, a recovery that stops and a recovery
that ends; the one stop is a death, a failed call or a pin that cannot be read. The proofs are for
any number of readers, runs and stops. `HorizonMemory` caches one generation so that two threads
evict each other's; two of its commands are each other's worst case for the audit, the third is the
put that ends a worker. Deadlock is checked for `ScopeRecovery` alone: the requests, frames, runs
and failures of the other instances are finite.

*Fairness.* `GroupCommitLive` assumes weak fairness of the worker and of the end of a lifecycle
call: the worker is a live thread (`_run`, 1130) waiting with timeouts, its disk calls return or
raise, and a caller in `close` waits for nothing but the worker. A thread that an exception has ended
takes no more steps, and fairness asks none of it: what it leaves is never answered, so the two
properties end in "or `pc = "died"`". They are about every other way a request could be forgotten;
the two exceptions themselves are in the runs. No fairness is put on clients.

## Findings

1. `RotationNotNeeded`. A rotation of a writer whose queue holds only retries drains, finds
   nothing to seal and answers `ROTATION_NOT_NEEDED` (`horizon_rotation.py:155`) with the worker
   stopped and the lease closed; `horizon_batch.py:773` and `:782` and the rotation test say the
   writer is left alone.
2. `ReplayNotDurable`. A process that stops between the rename of CURRENT and the fsync of its
   directory (`horizon_publication.py:756-761`) leaves a CURRENT that recovery counts as durable.
   The resumed writer answers a retry `DEDUP_REPLAY`; a power loss brings the old CURRENT back.
3. `PublicationLost`. `put_object` does not sync the directory when the name is already there
   (`horizon_artifacts.py:189`). A process that stops after linking a record, the same command
   retried, and a power loss leave a CURRENT whose record is gone: recovery abstains. The next
   ACTIVE that `prepare_rotation` finds in place (`:209`) is open to the same.
4. `CollectorRace`. `horizon_gc.py:5-7` promises that what CURRENT reaches is never collected.
   `publish_batch` puts its manifest and record before it renames CURRENT and takes no lock the
   collector knows. In the trace CURRENT is renamed after the collector has read it as a root and
   before it signs the roots for the first time (`horizon_gc.py:920`, `:928`): both signatures have
   the new CURRENT, the plan does not, and the record CURRENT names is moved. A rename after the
   second signature ends the same way, as do, in `recover_gc`, a put or a rename between the reading
   of the roots and the moves back (`:1043-1066`), and a pin that a scan takes for dead (`:630-639`,
   or created at `:564` and not locked yet). `Collector` has all of these; its golden rule says that
   nothing else breaks it.

`ScopePower` shows findings 2 and 3 need a process to stop between a name and its fsync: without
that, every publication opens and every answer survives. `PublicationsAlwaysOpen` and `ReplayedStays`
prove it for every scope.

Met while modelling the facade and kept as steps of `HorizonMemory`:
`get` may raise `KeyError` when another thread evicts the entry between lookup and `move_to_end`
(`api.py:185`); a first write that applies nothing (version 0, say) publishes an empty prefix, finds
the rotation not needed and is answered OVERLOAD, and the next one starts over
(`_bootstrap.py:101-107`); a memory that was reopened has no genesis store and cannot write
(`api.py:129`); `audit` reads `_seen_facts` while writers change it. And of the writer:
`_command_is_canonical` (`horizon_wal.py:196-211`) puts no upper bound on the version,
`content_digest` (`:101`) packs it as u32, and `prepare_batch` is called outside any `try`
(`horizon_batch.py:1143`, `:1261`, `:1352`), so a put with version 2^32 ends the worker thread and
every later request waits for its timeout (`PrepareRaises`, `SubmitKills`).

## Proofs

`GroupCommitProofs` proves, for any sets of requests, commands and facts, any base and any limits:

- `TypeCorrect`: `Spec => []TypeOK`
- `NotAcceptedSafe`: `Spec => []NotAcceptedIsSafe`
- `AckDurable`: `Spec => []AckIsDurable`
- `AnswersConsistent`: `Spec => []AnswersAgree`

They follow from `Invariant`, `Spec => []IInv`. None of the properties is inductive: a request is
kept out of the WAL because it is never in two of queue, batch and pending poison, because a
claimed request is not cancelled, because the plan's receipts and frames name the batch's requests
in order, and because the file holds frames only of requests claimed by this or an earlier batch.
`IInv` is the type invariant with those facts. The proof has one step per action and under it
one per conjunct the action touches. It rests on the named assumptions of `CommitRules` and
`GroupCommit` (types of the constants, positive limits), which TLC evaluates in every run.

The other properties of `GroupCommit`, under the same assumptions, each follow from an invariant of
their own that is inductive together with `IInv`:

- `WriterOwns`: `Spec => []WriterOwnsScope`. Lifecycle calls close or hand over only when the worker
  has left, and only a poisoned worker gives its lease away; leaving is final (`OwnInv`).
- `StateCoherent`: `Spec => []PublishedStateCoherent`. `IInv` has it except after a poison; a
  publication, whole or cut off, names only fsynced frames and the file never shrinks (`CurrentInv`).
- `TicketOrder`: `Spec => []WalInTicketOrder`. Tickets rise along the file, then the batch, then the
  queue, and a plan's frames come from the part of the batch already decided (`OrderInv`).
- `ReplayDurable` and `SnapshotMonotone`: `Spec => []ReplayIsDurable`, `Spec => SnapshotAdvances`.
  What the snapshot remembers of an operation is a frame of the durable file, what a plan remembers
  is that or one of its own frames, a plan only adds to the memory and raises versions, and a replayed
  receipt repeats an entry (`MemoryInv`). `AppliedIsNew` and `ReplayRepeats` say what the admission
  rules guarantee of a command they apply or replay.
- `ReplaysAgree`: `Spec => []ReplayAgrees`, of `GroupCommitReplay`. `ReplayInv` says there is a trace
  of the reducer along the file and the frames the current plan is about to write: each of them is
  accepted, the trace stands at the snapshot's memory after the visible frames, and at the plan's
  memory after the plan's. What the admission rules apply, the reducer accepts (`WalReplayProofs`);
  a cut or failed write leaves a prefix of such a trace.
- `Implements`: `Spec => ImplementsMemoryLog`. The abstract log is the commands of the file up to
  CURRENT, or of the whole file where nothing is published; its stable part is the commands up to
  the snapshot's visible seq, its acknowledged operations those of the requests answered `APPLIED`.
  A batch takes effect in one step: when CURRENT is replaced, in a legacy writer when its frames are
  in the file, and a write or publication that failed commits what it left behind. The swap hardens,
  an `APPLIED` receipt acknowledges, everything else stutters: cancellations, retries, answers of a
  poisoned writer, lifecycle calls. It needs that a batch never exceeds `MaxBatchCommands` and that a
  frame carries the command of its request (`BatchInv`), and that no operation id is twice in the
  file: the reducer refuses such a frame (`IdsOnce`), and `ReplayInv` says it refuses none.
- `AcknowledgedStays`: a command answered `APPLIED` is in the visible history at every later moment,
  and no two committed frames carry one operation id. This is `Promise` of `MemoryLog` carried over.

`WalReplayProofs` has the lemmas about the reducer that the two components share. `Accepts(start, w,
g)` says that `g` is the trace of a reducer over the frames `w`, none of which it refuses. A command
that the ingress applies extends a trace; a flat replay of `w` and a replay of the same frames cut
into segments end at the end of the trace, with the counts of frames and segments that the reducer
keeps, unless a limit of the reducer stops it. Each is shown without induction over data: the replay
is a recursive function over the prefixes of the file, and of the prefixes on which it differs from
the trace there is a least one, which the step before it contradicts. In the same way an operation
that is remembered at the end of a trace was fed from one of its frames (`RememberedAlong`), and a
frame that was fed is remembered (`RecordedAlong`).

`ScopeRecoveryProofs` proves, for any processes, commands, lengths and numbers of segments, stops
and power losses:

- `TypeCorrect`: `Spec => []TypeOK`
- `ServingAgrees`: `WithinLimits => (Spec => []ServingWriterAgrees)`
- `Implements`: `Spec => ImplementsMemoryLog`
- `AcknowledgedStays`: a command answered `APPLIED` is in the history of the CURRENT on disk at every
  moment, and no two frames of CURRENT carry one operation id.
- `PublicationsAlwaysOpen`: `WithinLimits /\ OneKindOfStop => (Spec => []PublicationsOpen)`
- `ReplayedStays`: `OneKindOfStop => (Spec => []ReplayedSurvives)`

The invariant of the first four is `IInv`. `Disk`: both CURRENTs are manifests whose segments chain
and whose frames have a reducer trace (`Good`), and files and objects are of their types.
`LocalInv`: what each process knows at its step. A process is past its lease exactly if it is the
holder; a writer's cursor is CURRENT until its own rename; its memory is the end of the trace of its
cursor (`Knows`); the tail of its ACTIVE file is the published prefix, with the planned frame after
it once written. It is needed because agreement speaks only of a writer that serves, and a writer is
right to serve only if recovery, truncation, commit and rotation left the file and the cursor so. A
step of one process leaves `Local` of the others alone, because only the lease's holder touches
CURRENT and the files (`Elsewhere`, `Confined`). The refinement is step by step: the rename of
CURRENT commits, the fsync of its directory hardens, an answer acknowledges, a rotation only moves
frames to a sealed segment, a power loss keeps or loses the rename, and everything else stutters.
`AcknowledgedStays` is `Promise` of `MemoryLog` carried over. `WithinLimits` says that the segments
and frames a scope gets to are within the limits of the reducer. The model lets a scope outgrow
them, as the code does; past them a replay ends in a terminal state and agreement with it, or
opening it, means nothing. `ServingAgrees` and `PublicationsAlwaysOpen` assume it, nothing else
does.

`OneKindOfStop`, `~(PowerFails /\ ProcessesDie)`, is what the last two need beside it: with both,
findings 2 and 3 refute them. A process dies between a name and its fsync, the next one builds on
that name, and power takes it away. The invariant of `PublicationsAlwaysOpen` is `OpenInv`, on top
of `IInv`. `Published`: both CURRENTs are `Backed` by their record, their sealed objects and an
ACTIVE file that holds what they publish, and the one on disk `Leads` to the other. `Ready`: so is
what a process has read or is about to publish; it stays so because files change in place only
behind what CURRENT publishes (`Safe`), and a publication that comes before CURRENT is then safe
too (`BackedKept`). `Secure`, if power fails: what is fsynced backs both CURRENTs by itself, and a
name is unsynced, or a CURRENT not yet on disk, only while a process stands right after its link,
rename or creation, which is where a death would break it. `ReplayedInv` says that an operation
answered as a replay is in CURRENT, and in the CURRENT on disk if power fails.

`MemoryLog` ends with the proof of `Promise`: the abstract log keeps what it acknowledged on stable
storage and applies each operation id once, however many operations a step commits. By the two
theorems `Implements`, so do every writer and every scope.

`ScopePower` proves `PowerAloneLosesNothing` and `PowerAloneKeepsReplays`, the two invariants of its
run's instance without deaths, for any processes, commands and power losses. A behaviour that starts
in that mode stays in it and is one of `ScopeRecovery` with `ProcessesDie` FALSE, where
`OneKindOfStop` holds: `PublicationsAlwaysOpen` and `ReplayedStays` of the instance say the rest. The
first keeps the hypothesis `WithinLimits`; in the other mode the two invariants say nothing, and the
runs of findings 2 and 3 show why.

`CompactionProofs` proves, for any facts, clients, txids, retentions and generations: `Typed`,
`NothingIsForgotten`, `AppliedAtMostOnce`, `ForgetsOnce`, `RetriesAreRemembered` and
`TablesAreCanonical`. Its `IInv` says what a generation tells of the log it absorbed (`Tells`: the
last write of each fact, the highest txid and the floor of each client, an entry for each txid at
or above the floor), that the WAL of the current generation holds only txids its base has not seen
(`WalIsNew`), that a packet under way tells of the whole log (`PacketFollows`) and that a serving
writer's memory is the replay of CURRENT (`WriterTells`). It is needed because no property speaks
of the packet or of a writer's memory, and a compaction is right only if both are. The replay of a
WAL is a choice of the greatest index below a bound, so no induction over the log is needed.

`CollectorProofs` proves, for any number of readers, publications, runs and stops, and with nothing
assumed about what overlaps what: `Typed`, `PacketsAreWhole`, `QuarantineJournaled`,
`NothingIsDeleted`, `GoldenRuleHolds` (`Spec => []GoldenRuleUnlessOverlapped`) and `RecoveryExact`
(`Spec => RecoveryIsExact`). `AnyInv` has who holds which lock, that a registered packet is whole
and is covered by what a collection has scanned or is out of its plan, and that what will be moved
is in a journal, and how far a recovery has come (`Recovering`). `SafeInv`, which `IInv` asks for as
long as nothing is `exposed`, says that what is or may become a root is whole (`RootsAreWhole`),
that the roots and what the collector has read of them stay related from scan to move
(`PlanIsSafe`), and that a recovery has only what its roots do not reach left to take back
(`ReturnIsExact`). The golden rule alone is not inductive: it says nothing of a plan under way,
whose moves break it several steps after the reading that was wrong. That a recovery with every root
in view clears `exposed` is part of the theorem: after it the rule holds again, whatever happened
before.

`HorizonMemoryProofs` proves, for any handles, threads, commands, cache sizes and failures:
`TypeCorrect`, `ReadsFollow` (`Spec => []ReadsFollowWrites`), `AuditSafe` (`Spec =>
[]AuditFindsNoLostDelete`) and `ClosedIsEmpty` (`Spec => []ClosedHoldsNothing`). The conjuncts of
its `IInv`, beside types and `ClosedHoldsNothing`: `LockHeld` and `Shielded` (a thread inside a
handle's lock holds it, so a write that activates the writer finds the store a genesis, its worker
gone or not, and no writer, and a compaction a stopped one), `Born` (one handle makes the scope, and
until it has, there is no log), `Counts` (CURRENT covers every write that was acknowledged or is
about to be), `Reads` (the manifest a reader holds is of a prefix of the log, at least as long as
what was acknowledged when it started, and what it found is what that prefix says) and `Deletes` (a
fact marked deleted has a DELETE in the log, and a fact the audit names has a later PUT or a DELETE
that its view does not cover). A read sees a manifest some time before it answers, and an audit
reads marks while writers change them: that is why the properties alone are not inductive.

The theorems about `ScopeRecovery` and `HorizonMemory` rest on the named assumptions of those modules:
types of the constants, an operation that is PUT or DELETE, a scope whose base is empty, and that
`Nil` is none of the values it is compared with. TLC evaluates them in every run.

Every invariant and every action and refinement property that a passing run checks has its theorem.
`activate_prepared` without a base after a compaction (`horizon_batch.py:955`) is in no model: nothing
in `src/` rotates a generation that was compacted.

*Only model-checked.* Liveness: `AdmittedIsAnswered` and `FenceDrains`, since TLAPS has no rules here
for fairness and ENABLED. The bounds of the instances are no hypotheses of any theorem, except where
`WithinLimits` and `OneKindOfStop` are named.
What a recursive definition computes cannot be proved by induction over its input here, since the
induction theorems take an operator. The modules declare no RECURSIVE operator: a replay is a
recursive function on the prefixes of the file, and what it computes is proved along a trace, as
`WalReplayProofs` does.

## Not modelled

Byte formats, MACs, digests and key ids (a digest is its content); resource budgets of opening a
generation; the artefacts a base is encoded in (`Compaction` has what they answer); file types and
symlinks; telemetry values; `query`, `export`, `recover` and the ledger of the facade, which read a
generation as `get` does; the linearizability checker and the sharded index (pure functions, left
for later); sidecars; text processing, adapters, servers, website, lab; the app; vendored code.
`PROJECT.json` has the reason for each.

Most of the repository's lines are not protocol: dictionaries (10 875 lines in one file), resolvers
and readers of text, encoders, servers and widgets, all functions from text to text with no state
that survives a call. The models cover the engine's control, a few thousand of its lines; a larger
share of the whole would mean modelling tables of words.

## Plan

1. Done: the writer, the scope on disk and its abstract log, compaction, the collector, the facade;
   proofs of their safety properties and of both refinements.
2. Two lifecycle calls at once on one writer (`horizon_batch.py:744`).
3. The linearizability decision procedure against its definition on bounded histories.
4. Sidecars, the rate limiter, the app's outbox and bridge.
