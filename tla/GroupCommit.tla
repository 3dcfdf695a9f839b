---------------------------- MODULE GroupCommit ----------------------------
(* GroupCommitStore (horizon_batch.py): many client threads submit commands,   *)
(* one worker thread claims them in batches, plans, writes and fsyncs the WAL,  *)
(* publishes CURRENT, swaps the visible snapshot and only then answers.         *)
(* Clients wait with a timeout, may cancel, and may ask again; one lifecycle    *)
(* caller closes, fences, rotates or compacts the store.                       *)
(*                                                                            *)
(* The queue lock _cv is held by the worker while pc = "draining"; every other  *)
(* critical section is one action.  Everything the code does outside the lock   *)
(* (planning one command, each disk call, each answer) is a step of its own.    *)
(*                                                                            *)
(* Abstractions.  A frame is its command with its seq and, as history, the      *)
(* request it came from; the file is the sequence of its complete frames (a torn *)
(* frame is dropped by every scan).  CURRENT is the read_seq it publishes.       *)
(* Timestamps, statistics and the grouping window are left out: the window only  *)
(* delays the drain, and the worker may start draining at any time.              *)
EXTENDS CommitRules, Sequences, FiniteSets

CONSTANTS
    Requests,          \* calls of submit()
    Commands,          \* the commands clients may submit
    FirstSeq,          \* first seq of the ACTIVE segment
    MaxQueueCommands, MaxQueueBytes, MaxBatchCommands, MaxBatchBytes,  \* Limits
    Published,         \* TRUE: activated writer (pubctx); FALSE: legacy writer
    SinkMayRaise,      \* the telemetry callback may raise in the worker thread
    Calls              \* the lifecycle calls made: close, fence, rotation, compaction

ASSUME GroupCommitAssumption ==
    /\ Commands \subseteq Command
    /\ FirstSeq \in Nat \ {0}
    /\ MaxQueueCommands \in Nat /\ MaxQueueBytes \in Nat
    /\ MaxBatchCommands \in Nat \ {0} /\ MaxBatchBytes \in Nat
    /\ Published \in BOOLEAN /\ SinkMayRaise \in BOOLEAN
    /\ Nil \notin Commands /\ Nil \notin Entry /\ Nil \notin TxEntry

VARIABLES
    cmd, state, status, wseq, cancelled, tkt,  \* _Request, one per call of submit()
    told,                                      \* what result() has returned so far
    queue, queueBytes, ticket,                 \* _queue, _queue_bytes, _ticket
    stop, poisoned, fdOpen, lease,             \* _stop, _poisoned, _fd_open, _lease
    snap, cursor,                              \* _published_state
    pc, batch, batchBytes, plan,               \* the worker and its local variables
    todo, poisonAs,                            \* requests a poisoned worker still answers
    wal, synced, current,                      \* ACTIVE file, its durable prefix, CURRENT
    ctl, outcome                               \* the lifecycle call under way and its result

clientVars == <<cmd, state, status, wseq, cancelled, tkt, told>>
queueVars == <<queue, queueBytes, ticket>>
ctrlVars == <<stop, poisoned, fdOpen, lease>>
memVars == <<snap, cursor>>
workVars == <<batch, batchBytes, plan, todo, poisonAs>>
diskVars == <<wal, synced, current>>
lifeVars == <<ctl, outcome>>
vars == <<clientVars, queueVars, ctrlVars, memVars, pc, workVars, diskVars, lifeVars>>

Receipts == {"APPLIED", "IDEMPOTENT", "STALE_REJECTED", "VERSION_CONFLICT", "DEDUP_REPLAY",
             "TXID_CONFLICT", "IDEMPOTENCY_EXPIRED", "INVALID_ARGUMENT", "ABSTAIN_BASE"}
Statuses == Receipts \cup {"NOT_ACCEPTED", "COMMIT_UNKNOWN", "OVERLOADED"}

ASSUME NilAssumption == Nil \notin Statuses /\ Nil \notin Int

Frame == [req : Requests, cmd : Commands, seq : Nat]
Receipt == [status : Receipts, seq : Nat \cup {Nil}]
Plan == [source : Nat, frames : Seq(Frame), receipts : Seq(Receipt),
         index : Indexes, tx : TxIndexes]

Size(c) == 76 + (IF c.value = Nil THEN 0 ELSE 4)

(* Position of a seq in the ACTIVE file. *)
Pos(seq) == seq - FirstSeq + 1

NoPlan == [source |-> FirstSeq - 1, frames |-> <<>>, receipts |-> <<>>,
           index |-> EmptyIndex, tx |-> EmptyTx]

LockFree == pc # "draining"

Init ==
    /\ cmd = [r \in Requests |-> Nil]
    /\ state = [r \in Requests |-> "NEW"]
    /\ status = [r \in Requests |-> Nil]
    /\ wseq = [r \in Requests |-> Nil]
    /\ cancelled = [r \in Requests |-> FALSE]
    /\ tkt = [r \in Requests |-> 0]
    /\ told = [r \in Requests |-> {}]
    /\ queue = <<>> /\ queueBytes = 0 /\ ticket = 0
    /\ stop = FALSE /\ poisoned = FALSE /\ fdOpen = TRUE
    /\ lease = IF Published THEN "OWNED_BY_STORE" ELSE "NONE"
    /\ snap = [index |-> EmptyIndex, tx |-> EmptyTx, through |-> FirstSeq - 1]
    /\ cursor = FirstSeq - 1
    /\ pc = "idle" /\ batch = <<>> /\ batchBytes = 0 /\ plan = NoPlan
    /\ todo = <<>> /\ poisonAs = "COMMIT_UNKNOWN"
    /\ wal = <<>> /\ synced = 0 /\ current = FirstSeq - 1
    /\ ctl = "idle" /\ outcome = "none"

-----------------------------------------------------------------------------
(* Clients. *)

(* _Request._finish *)
Finish(r, s, n) ==
    /\ state' = [state EXCEPT ![r] = "DONE"]
    /\ status' = [status EXCEPT ![r] = s]
    /\ wseq' = [wseq EXCEPT ![r] = n]

QueueFull(c) ==
    \/ Len(queue) >= MaxQueueCommands
    \/ queueBytes + Size(c) > MaxQueueBytes

SubmitRefused(r, c) ==
    /\ LockFree /\ state[r] = "NEW"
    /\ \/ (poisoned \/ stop) /\ Finish(r, "NOT_ACCEPTED", Nil)
       \/ ~(poisoned \/ stop) /\ (Size(c) > MaxBatchBytes \/ QueueFull(c))
            /\ Finish(r, "OVERLOADED", Nil)
    /\ cmd' = [cmd EXCEPT ![r] = c]
    /\ UNCHANGED <<cancelled, tkt, told, queueVars, ctrlVars, memVars, pc, workVars,
                   diskVars, lifeVars>>

(* Mutant: the newest request goes first. *)
EnqueueFirst(r, c) == queue' = <<r>> \o queue /\ queueBytes' = queueBytes + Size(c)

Enqueue(r, c) == queue' = Append(queue, r) /\ queueBytes' = queueBytes + Size(c)

SubmitAdmitted(r, c) ==
    /\ LockFree /\ state[r] = "NEW"
    /\ ~(poisoned \/ stop) /\ Size(c) <= MaxBatchBytes /\ ~QueueFull(c)
    /\ ticket' = ticket + 1
    /\ cmd' = [cmd EXCEPT ![r] = c]
    /\ tkt' = [tkt EXCEPT ![r] = ticket + 1]
    /\ state' = [state EXCEPT ![r] = "ADMITTED"]
    /\ Enqueue(r, c)
    /\ UNCHANGED <<status, wseq, cancelled, told, ctrlVars, memVars, pc, workVars,
                   diskVars, lifeVars>>

(* result() when the event is set: no lock is taken. *)
ResultReady(r) ==
    /\ state[r] = "DONE"
    /\ told' = [told EXCEPT ![r] = @ \cup {status[r]}]
    /\ UNCHANGED <<cmd, state, status, wseq, cancelled, tkt, queueVars, ctrlVars, memVars,
                   pc, workVars, diskVars, lifeVars>>

(* Mutant: the flag is not set. *)
CancelQueuedNot(r) == UNCHANGED cancelled

CancelQueued(r) == cancelled' = [cancelled EXCEPT ![r] = TRUE]

(* result() whose wait expired: decided under the lock against the claim. *)
ResultTimeout(r) ==
    /\ LockFree
    /\ \/ /\ state[r] = "ADMITTED"
          /\ CancelQueued(r)
          /\ told' = [told EXCEPT ![r] = @ \cup {"NOT_ACCEPTED"}]
       \/ /\ state[r] = "CLAIMED"
          /\ told' = [told EXCEPT ![r] = @ \cup {"COMMIT_UNKNOWN"}]
          /\ UNCHANGED cancelled
    /\ UNCHANGED <<cmd, state, status, wseq, tkt, queueVars, ctrlVars, memVars, pc,
                   workVars, diskVars, lifeVars>>

(* cancel() that returns True; on a claimed or finished request it does nothing. *)
Cancel(r) ==
    /\ LockFree /\ state[r] = "ADMITTED"
    /\ CancelQueued(r)
    /\ UNCHANGED <<cmd, state, status, wseq, tkt, told, queueVars, ctrlVars, memVars, pc,
                   workVars, diskVars, lifeVars>>

-----------------------------------------------------------------------------
(* The worker: claim a batch, under the lock. *)

(* Mutant: a stopped worker leaves the queue alone. *)
StartDrainUnlessStopped ==
    /\ pc = "idle" /\ queue # <<>> /\ ~stop
    /\ pc' = "draining" /\ batch' = <<>> /\ batchBytes' = 0
    /\ UNCHANGED <<clientVars, queueVars, ctrlVars, memVars, plan, todo, poisonAs,
                   diskVars, lifeVars>>

StartDrain ==
    /\ pc = "idle" /\ queue # <<>>
    /\ pc' = "draining" /\ batch' = <<>> /\ batchBytes' = 0
    /\ UNCHANGED <<clientVars, queueVars, ctrlVars, memVars, plan, todo, poisonAs,
                   diskVars, lifeVars>>

(* The worker leaves only when stopped with an empty queue. *)
WorkerExit ==
    /\ pc = "idle" /\ queue = <<>> /\ stop
    /\ pc' = "exited"
    /\ UNCHANGED <<clientVars, queueVars, ctrlVars, memVars, workVars, diskVars, lifeVars>>

PopQueue ==
    /\ queue' = Tail(queue)
    /\ queueBytes' = queueBytes - Size(cmd[Head(queue)])
    /\ UNCHANGED ticket

MoreToDrain == queue # <<>> /\ Len(batch) < MaxBatchCommands

HeadCancelled == cancelled[Head(queue)]

DrainCancelled ==
    /\ pc = "draining" /\ MoreToDrain /\ HeadCancelled
    /\ PopQueue
    /\ Finish(Head(queue), "NOT_ACCEPTED", Nil)
    /\ UNCHANGED <<cmd, cancelled, tkt, told, ctrlVars, memVars, pc, workVars, diskVars,
                   lifeVars>>

FitsInBatch(r) == batch = <<>> \/ batchBytes + Size(cmd[r]) <= MaxBatchBytes

DrainClaim ==
    /\ pc = "draining" /\ MoreToDrain
    /\ ~HeadCancelled /\ FitsInBatch(Head(queue))
    /\ PopQueue
    /\ state' = [state EXCEPT ![Head(queue)] = "CLAIMED"]
    /\ batch' = Append(batch, Head(queue))
    /\ batchBytes' = batchBytes + Size(cmd[Head(queue)])
    /\ UNCHANGED <<cmd, status, wseq, cancelled, tkt, told, ctrlVars, memVars, pc, plan,
                   todo, poisonAs, diskVars, lifeVars>>

DrainEnd ==
    /\ pc = "draining"
    /\ MoreToDrain => ~HeadCancelled /\ ~FitsInBatch(Head(queue))
    /\ pc' = IF batch = <<>> THEN "idle" ELSE "prepare"
    /\ plan' = [source |-> snap.through, frames |-> <<>>, receipts |-> <<>>,
                index |-> snap.index, tx |-> snap.tx]
    /\ UNCHANGED <<clientVars, queueVars, ctrlVars, memVars, batch, batchBytes, todo,
                   poisonAs, diskVars, lifeVars>>

-----------------------------------------------------------------------------
(* The worker: plan the batch in shadow indexes, one command at a time. *)

(* The request of the batch that is planned next. *)
Preparing == batch[Len(plan.receipts) + 1]

(* content_digest raises on a version wider than u32.  No try encloses the planning,  *)
(* in the commit path or in _run: the worker thread dies with the batch CLAIMED and     *)
(* the store neither stopped nor poisoned.                                              *)
PrepareRaises ==
    /\ pc = "prepare" /\ Len(plan.receipts) < Len(batch)
    /\ PlanRaises(cmd[Preparing])
    /\ pc' = "died" /\ batch' = <<>> /\ plan' = NoPlan
    /\ UNCHANGED <<clientVars, queueVars, ctrlVars, memVars, batchBytes, todo, poisonAs,
                   diskVars, lifeVars>>

PrepareOne ==
    LET r == Preparing
        c == cmd[r]
        s == Decide(plan.index, plan.tx, c)
        n == plan.source + Len(plan.frames) + 1
    IN
    /\ pc = "prepare" /\ Len(plan.receipts) < Len(batch)
    /\ ~PlanRaises(c)
    /\ plan' =
         IF s = "APPLIED"
           THEN [plan EXCEPT !.receipts = Append(@, [status |-> s, seq |-> n]),
                             !.frames = Append(@, [req |-> r, cmd |-> c, seq |-> n]),
                             !.index = ApplyIndex(@, c),
                             !.tx = RecordTx(@, c, n)]
           ELSE [plan EXCEPT !.receipts =
                    Append(@, [status |-> s,
                               seq |-> IF s = "DEDUP_REPLAY" THEN DedupSeq(plan.tx, c)
                                                             ELSE Nil])]
    /\ UNCHANGED <<clientVars, queueVars, ctrlVars, memVars, pc, batch, batchBytes, todo,
                   poisonAs, diskVars, lifeVars>>

PrepareEnd ==
    /\ pc = "prepare" /\ Len(plan.receipts) = Len(batch)
    /\ pc' = "planned"
    /\ UNCHANGED <<clientVars, queueVars, ctrlVars, memVars, workVars, diskVars, lifeVars>>

PlanThrough == plan.source + Len(plan.frames)

-----------------------------------------------------------------------------
(* Poison: under the lock refuse new work and take the queue; then answer the   *)
(* batch (uncertain, or safe when no byte was written) and the queue (safe);     *)
(* then give up the lease.                                                       *)

(* Mutant: the queue is cleared and nobody answers it. *)
UnansweredBatch == batch

Unanswered == batch \o queue

Poison(s) ==
    /\ poisoned' = TRUE /\ stop' = TRUE
    /\ todo' = Unanswered
    /\ poisonAs' = s
    /\ queue' = <<>> /\ queueBytes' = 0
    /\ pc' = "poisoning"
    /\ UNCHANGED <<clientVars, ticket, fdOpen, lease, batch, batchBytes, plan, lifeVars>>

PoisonFinish ==
    /\ pc = "poisoning" /\ todo # <<>>
    /\ Finish(Head(todo),
              IF state[Head(todo)] = "CLAIMED" THEN poisonAs ELSE "NOT_ACCEPTED", Nil)
    /\ todo' = Tail(todo)
    /\ UNCHANGED <<cmd, cancelled, tkt, told, queueVars, ctrlVars, memVars, pc, batch,
                   batchBytes, plan, poisonAs, diskVars, lifeVars>>

ReleaseWriterLease == lease' = IF lease = "OWNED_BY_STORE" THEN "CLOSED" ELSE lease

PoisonEnd ==
    /\ pc = "poisoning" /\ todo = <<>>
    /\ ReleaseWriterLease
    /\ pc' = "idle" /\ batch' = <<>>
    /\ UNCHANGED <<clientVars, queueVars, stop, poisoned, fdOpen, memVars, batchBytes,
                   plan, todo, poisonAs, diskVars, lifeVars>>

-----------------------------------------------------------------------------
(* The worker: commit the plan. *)

(* _check_batch_preconditions: the plan belongs to the published cursor. *)
BatchPreconditions ==
    /\ plan.source = snap.through
    /\ snap.through = cursor
    /\ [k \in DOMAIN plan.frames |-> plan.frames[k].seq]
         = [k \in 1..(PlanThrough - cursor) |-> cursor + k]

(* Nothing applied: no WAL, no publication, no swap; the answers only. *)
NothingToPublish ==
    /\ pc = "planned" /\ Published /\ BatchPreconditions
    /\ plan.frames = <<>>
    /\ pc' = "receipts"
    /\ UNCHANGED <<clientVars, queueVars, ctrlVars, memVars, workVars, diskVars, lifeVars>>

(* Mutant: the batch is told OVERLOADED. *)
FailBeforeWalOverloaded ==
    /\ pc = "planned" /\ Published
    /\ plan.frames # <<>> \/ ~BatchPreconditions
    /\ Poison("OVERLOADED")
    /\ UNCHANGED <<memVars, diskVars>>

(* Refused before any byte is written: a broken precondition, no intent, an      *)
(* injected fault, or a file that does not end at the published prefix.          *)
FailBeforeWal ==
    /\ pc = "planned" /\ Published
    /\ plan.frames # <<>> \/ ~BatchPreconditions
    /\ Poison("NOT_ACCEPTED")
    /\ UNCHANGED <<memVars, diskVars>>

(* A legacy writer answers any failure from here on as uncertain. *)
FailBeforeWalLegacy ==
    /\ pc = "planned" /\ ~Published
    /\ Poison("COMMIT_UNKNOWN")
    /\ UNCHANGED <<memVars, diskVars>>

NothingToWriteLegacy ==
    /\ pc = "planned" /\ ~Published /\ plan.frames = <<>>
    /\ pc' = "swapped"
    /\ UNCHANGED <<clientVars, queueVars, ctrlVars, memVars, workVars, diskVars, lifeVars>>

MayWrite ==
    /\ pc = "planned" /\ plan.frames # <<>>
    /\ Published => BatchPreconditions /\ Len(wal) = Pos(plan.source)

WriteWal ==
    /\ MayWrite
    /\ wal' = wal \o plan.frames
    /\ pc' = "written"
    /\ UNCHANGED <<clientVars, queueVars, ctrlVars, memVars, workVars, synced, current,
                   lifeVars>>

(* Mutant: a failed write is answered as if no byte had been written. *)
WriteWalFailsSafe ==
    /\ MayWrite
    /\ \E k \in 0..Len(plan.frames) : wal' = wal \o SubSeq(plan.frames, 1, k)
    /\ Poison("NOT_ACCEPTED")
    /\ UNCHANGED <<memVars, synced, current>>

(* The write stops part of the way: some complete frames are in the file. *)
WriteWalFails ==
    /\ MayWrite
    /\ \E k \in 0..Len(plan.frames) : wal' = wal \o SubSeq(plan.frames, 1, k)
    /\ Poison("COMMIT_UNKNOWN")
    /\ UNCHANGED <<memVars, synced, current>>

(* Mutant: the fsync is taken for granted. *)
FsyncWalSkipped ==
    /\ pc = "written"
    /\ pc' = IF Published THEN "synced" ELSE "published"
    /\ UNCHANGED <<clientVars, queueVars, ctrlVars, memVars, workVars, diskVars, lifeVars>>

FsyncWal ==
    /\ pc = "written"
    /\ synced' = Len(wal)
    /\ pc' = IF Published THEN "synced" ELSE "published"
    /\ UNCHANGED <<clientVars, queueVars, ctrlVars, memVars, workVars, wal, current, lifeVars>>

(* fsync reports an error: how much reached the disk is unknown. *)
FsyncWalFails ==
    /\ pc = "written"
    /\ \E n \in synced..Len(wal) : synced' = n
    /\ Poison("COMMIT_UNKNOWN")
    /\ UNCHANGED <<memVars, wal, current>>

(* publish_batch: compare-and-swap of CURRENT from the cursor the plan was made   *)
(* against, with the store's lease as authority.                                   *)
MayPublish == current = cursor /\ lease = "OWNED_BY_STORE"

PublishBatch ==
    /\ pc = "synced" /\ MayPublish
    /\ current' = PlanThrough
    /\ pc' = "published"
    /\ UNCHANGED <<clientVars, queueVars, ctrlVars, memVars, workVars, wal, synced, lifeVars>>

(* A refused or failed publication; CURRENT may already have been replaced. *)
PublishBatchFails ==
    /\ pc = "synced"
    /\ current' \in {current} \cup (IF MayPublish THEN {PlanThrough} ELSE {})
    /\ Poison("COMMIT_UNKNOWN")
    /\ UNCHANGED <<memVars, wal, synced>>

(* Mutant: the snapshot keeps its old retry memory. *)
CandidateOldMemory == [index |-> plan.index, tx |-> snap.tx, through |-> PlanThrough]

(* Mutant: the snapshot keeps the visible seq it was planned from. *)
CandidateNotAdvanced == [index |-> plan.index, tx |-> plan.tx, through |-> plan.source]

CandidateSnapshot == [index |-> plan.index, tx |-> plan.tx, through |-> PlanThrough]

(* Mutant: the snapshot advances without its cursor. *)
SwapSnapshotOnly ==
    /\ pc = "published"
    /\ snap' = CandidateSnapshot
    /\ pc' = "swapped"
    /\ UNCHANGED <<clientVars, queueVars, ctrlVars, cursor, workVars, diskVars, lifeVars>>

(* The single swap: snapshot and cursor advance together. *)
Swap ==
    /\ pc = "published"
    /\ snap' = CandidateSnapshot
    /\ cursor' = IF Published THEN PlanThrough ELSE cursor
    /\ pc' = "swapped"
    /\ UNCHANGED <<clientVars, queueVars, ctrlVars, workVars, diskVars, lifeVars>>

(* A fault between the durable commit and the swap, or before the answers. *)
FailAroundSwap ==
    /\ pc \in {"published", "swapped"}
    /\ Poison("COMMIT_UNKNOWN")
    /\ UNCHANGED <<memVars, diskVars>>

StartReceipts ==
    /\ pc = "swapped"
    /\ pc' = "receipts"
    /\ UNCHANGED <<clientVars, queueVars, ctrlVars, memVars, workVars, diskVars, lifeVars>>

(* The answers, one client at a time, in batch order. *)
Answered == {k \in DOMAIN batch : state[batch[k]] = "DONE"}

FinishReceipt ==
    /\ pc = "receipts"
    /\ \E k \in DOMAIN batch :
         /\ Answered = 1..(k - 1)
         /\ Finish(batch[k], plan.receipts[k].status, plan.receipts[k].seq)
    /\ UNCHANGED <<cmd, cancelled, tkt, told, queueVars, ctrlVars, memVars, pc, workVars,
                   diskVars, lifeVars>>

BatchEnd ==
    /\ pc = "receipts" /\ Answered = DOMAIN batch
    /\ pc' = "idle" /\ batch' = <<>> /\ plan' = NoPlan
    /\ UNCHANGED <<clientVars, queueVars, ctrlVars, memVars, batchBytes, todo, poisonAs,
                   diskVars, lifeVars>>

(* The telemetry callback raises after the answers: nothing catches it and the    *)
(* worker thread dies, with the store neither stopped nor poisoned.  A batch that  *)
(* published nothing reports no metric in an activated writer.                     *)
SinkRaises ==
    /\ SinkMayRaise
    /\ pc = "receipts" /\ Answered = DOMAIN batch
    /\ Published => plan.frames # <<>>
    /\ pc' = "died" /\ batch' = <<>> /\ plan' = NoPlan
    /\ UNCHANGED <<clientVars, queueVars, ctrlVars, memVars, batchBytes, todo, poisonAs,
                   diskVars, lifeVars>>

-----------------------------------------------------------------------------
(* Lifecycle: each call fences admission under the lock, joins the worker with a   *)
(* timeout, then closes the descriptor and closes or detaches the lease.            *)

(* The worker thread is not alive: it left its loop, or an exception ended it. *)
WorkerGone == pc \in {"exited", "died"}

BeginFence(call) ==
    /\ stop' = TRUE
    /\ ctl' = call /\ outcome' = "none"
    /\ UNCHANGED <<clientVars, queueVars, poisoned, fdOpen, lease, memVars, pc, workVars,
                   diskVars>>

LifecycleReturns(result) ==
    /\ ctl' = "idle" /\ outcome' = result
    /\ UNCHANGED <<clientVars, queueVars, stop, poisoned, memVars, pc, workVars, diskVars>>

CloseBegin == LockFree /\ ctl = "idle" /\ "close" \in Calls /\ BeginFence("close")

CloseEnd ==
    /\ ctl = "close" /\ WorkerGone
    /\ fdOpen' = FALSE
    /\ ReleaseWriterLease
    /\ LifecycleReturns("closed")

FenceBegin ==
    LockFree /\ ctl = "idle" /\ "fence" \in Calls /\ ~poisoned /\ BeginFence("fence")

FenceEnd ==
    /\ ctl = "fence" /\ WorkerGone
    /\ fdOpen' = (fdOpen /\ poisoned)
    /\ UNCHANGED lease
    /\ LifecycleReturns(IF poisoned THEN "poisoned" ELSE "fenced")

SegmentEmpty == snap.through < FirstSeq

(* begin_rotation with nothing to seal: no fence, the lease stays. *)
RotationNotNeeded ==
    /\ LockFree /\ ctl = "idle" /\ "rotation" \in Calls /\ ~poisoned
    /\ SegmentEmpty /\ queue = <<>>
    /\ UNCHANGED <<fdOpen, lease>>
    /\ LifecycleReturns("ROTATION_NOT_NEEDED")

RotationBegin ==
    /\ LockFree /\ ctl = "idle" /\ "rotation" \in Calls /\ ~poisoned
    /\ ~(SegmentEmpty /\ queue = <<>>)
    /\ BeginFence("rotation")

(* After the drain the lease is detached; prepare_rotation gives up, closing the  *)
(* lease, when the drain left nothing to seal.                                     *)
RotationEnd ==
    /\ ctl = "rotation" /\ WorkerGone
    /\ fdOpen' = (fdOpen /\ poisoned)
    /\ \/ poisoned /\ UNCHANGED lease /\ LifecycleReturns("poisoned")
       \/ /\ ~poisoned /\ SegmentEmpty
          /\ ReleaseWriterLease
          /\ LifecycleReturns("ROTATION_NOT_NEEDED")
       \/ /\ ~poisoned /\ ~SegmentEmpty
          /\ lease' = IF lease = "OWNED_BY_STORE" THEN "OWNED_BY_ROTATION" ELSE lease
          /\ LifecycleReturns("ROTATION_FENCED")

CompactionBegin ==
    LockFree /\ ctl = "idle" /\ "compaction" \in Calls /\ ~poisoned /\ BeginFence("compaction")

(* Mutant: the lease is detached without waiting for the worker. *)
CompactionEndNoJoin ==
    /\ ctl = "compaction" /\ ~poisoned
    /\ fdOpen' = FALSE
    /\ lease' = IF lease = "OWNED_BY_STORE" THEN "OWNED_BY_COMPACTION" ELSE lease
    /\ LifecycleReturns("compaction_fenced")

CompactionEnd ==
    /\ ctl = "compaction" /\ WorkerGone
    /\ fdOpen' = (fdOpen /\ poisoned)
    /\ \/ poisoned /\ UNCHANGED lease /\ LifecycleReturns("poisoned")
       \/ /\ ~poisoned
          /\ lease' = IF lease = "OWNED_BY_STORE" THEN "OWNED_BY_COMPACTION" ELSE lease
          /\ LifecycleReturns("compaction_fenced")

(* The join expires: nothing is closed, admission stays fenced. *)
JoinTimeout ==
    /\ ctl # "idle" /\ ~WorkerGone
    /\ UNCHANGED <<fdOpen, lease>>
    /\ LifecycleReturns("ShutdownTimeout")

(* After an expired fence: close the descriptor once the worker is gone. *)
AwaitFencedShutdown ==
    /\ ctl = "idle" /\ stop /\ WorkerGone /\ fdOpen
    /\ fdOpen' = FALSE
    /\ UNCHANGED lease
    /\ LifecycleReturns("encerrado")

-----------------------------------------------------------------------------
Client ==
    \E r \in Requests :
        \/ \E c \in Commands : SubmitRefused(r, c) \/ SubmitAdmitted(r, c)
        \/ ResultReady(r) \/ ResultTimeout(r) \/ Cancel(r)

CommitFails ==
    \/ FailBeforeWal \/ FailBeforeWalLegacy \/ WriteWalFails \/ FsyncWalFails
    \/ PublishBatchFails \/ FailAroundSwap

Worker ==
    \/ StartDrain \/ WorkerExit \/ DrainCancelled \/ DrainClaim \/ DrainEnd
    \/ PrepareOne \/ PrepareRaises \/ PrepareEnd
    \/ NothingToPublish \/ NothingToWriteLegacy
    \/ WriteWal \/ FsyncWal \/ PublishBatch \/ Swap \/ StartReceipts
    \/ FinishReceipt \/ BatchEnd \/ SinkRaises
    \/ PoisonFinish \/ PoisonEnd
    \/ CommitFails

LifecycleEnd == CloseEnd \/ FenceEnd \/ RotationEnd \/ CompactionEnd

Lifecycle ==
    \/ CloseBegin \/ FenceBegin \/ RotationNotNeeded \/ RotationBegin \/ CompactionBegin
    \/ LifecycleEnd \/ JoinTimeout \/ AwaitFencedShutdown

Next == Client \/ Worker \/ Lifecycle

Spec == Init /\ [][Next]_vars

(* The worker thread runs until it exits or an exception ends it, and its disk calls  *)
(* return, with success or error.                                                     *)
FairSpec == Spec /\ WF_vars(Worker) /\ WF_vars(LifecycleEnd)
-----------------------------------------------------------------------------
(* Properties. *)

WriterStates == {"idle", "draining", "prepare", "planned", "written", "synced",
                 "published", "swapped", "receipts", "poisoning", "exited", "died"}

LeaseStates == {"NONE", "OWNED_BY_STORE", "OWNED_BY_ROTATION", "OWNED_BY_COMPACTION", "CLOSED"}

TypeOK ==
    /\ cmd \in [Requests -> Commands \cup {Nil}]
    /\ state \in [Requests -> {"NEW", "ADMITTED", "CLAIMED", "DONE"}]
    /\ status \in [Requests -> Statuses \cup {Nil}]
    /\ wseq \in [Requests -> Nat \cup {Nil}]
    /\ cancelled \in [Requests -> BOOLEAN]
    /\ tkt \in [Requests -> Nat]
    /\ told \in [Requests -> SUBSET Statuses]
    /\ queue \in Seq(Requests) /\ queueBytes \in Int /\ ticket \in Nat
    /\ stop \in BOOLEAN /\ poisoned \in BOOLEAN /\ fdOpen \in BOOLEAN
    /\ lease \in LeaseStates
    /\ snap \in [index : Indexes, tx : TxIndexes, through : Nat]
    /\ cursor \in Nat
    /\ pc \in WriterStates
    /\ batch \in Seq(Requests) /\ batchBytes \in Nat /\ plan \in Plan
    /\ todo \in Seq(Requests) /\ poisonAs \in {"NOT_ACCEPTED", "COMMIT_UNKNOWN"}
    /\ wal \in Seq(Frame) /\ synced \in Nat /\ current \in Nat
    /\ ctl \in {"idle", "close", "fence", "rotation", "compaction"}
    /\ outcome \in {"none", "closed", "fenced", "poisoned", "ROTATION_NOT_NEEDED",
                    "ROTATION_FENCED", "compaction_fenced", "ShutdownTimeout", "encerrado"}

InWal(r) == \E k \in DOMAIN wal : wal[k].req = r

SaidNotAccepted(r) ==
    \/ status[r] \in {"NOT_ACCEPTED", "OVERLOADED"}
    \/ told[r] \cap {"NOT_ACCEPTED", "OVERLOADED"} # {}
    \/ cancelled[r]

(* NOT_ACCEPTED, by refusal, timeout, cancellation or a poisoned queue, is "safe to   *)
(* resend" (horizon_batch.py:90), and OVERLOADED is a refusal at the queue's limit:     *)
(* no frame of that request is ever in the file, not even unpublished.                  *)
NotAcceptedIsSafe == \A r \in Requests : SaidNotAccepted(r) => ~InWal(r)

(* An acknowledged write is durable, published and visible: when a request has been    *)
(* answered APPLIED, its frame is in the file at its seq, inside the fsynced prefix,    *)
(* below CURRENT (activated writer) and below the snapshot readers capture.            *)
AckIsDurable ==
    \A r \in Requests : status[r] = "APPLIED" =>
        /\ Pos(wseq[r]) \in DOMAIN wal /\ wal[Pos(wseq[r])].req = r
        /\ Pos(wseq[r]) <= synced
        /\ Published => wseq[r] <= current
        /\ wseq[r] <= snap.through

(* A retry answered DEDUP_REPLAY points at the very write it repeats: a durable, visible *)
(* frame with the same operation id and the same content, or an entry of the base.       *)
ReplayIsDurable ==
    \A r \in Requests : status[r] = "DEDUP_REPLAY" =>
        \/ /\ BaseDedup[cmd[r].opid].kind = "entry"
           /\ BaseDedup[cmd[r].opid].digest = ContentDigest(cmd[r])
           /\ wseq[r] = BaseDedup[cmd[r].opid].seq
        \/ /\ Pos(wseq[r]) \in 1..synced /\ wal[Pos(wseq[r])].cmd = cmd[r]
           /\ wseq[r] <= snap.through

(* Two answers to the same request never contradict each other: besides "unknown", a    *)
(* caller that asks again hears one outcome, the one the request ends with.              *)
AnswersAgree ==
    \A r \in Requests : \A s \in told[r] \ {"COMMIT_UNKNOWN"} :
        \/ state[r] = "DONE" /\ status[r] = s
        \/ state[r] = "ADMITTED" /\ cancelled[r] /\ s = "NOT_ACCEPTED"

(* Commands reach the file in ticket order: batching, cancelling and poisoning never     *)
(* let a later submit overtake an earlier one.                                            *)
WalInTicketOrder ==
    \A i, j \in DOMAIN wal : i < j => tkt[wal[i].req] < tkt[wal[j].req]

(* Snapshot and cursor advance together, never ahead of CURRENT or of the fsynced file,  *)
(* and CURRENT leads them only between its replacement and the swap or after a poison.    *)
PublishedStateCoherent ==
    Published =>
        /\ snap.through = cursor
        /\ cursor <= current
        /\ Pos(current) <= synced
        /\ cursor # current => poisoned \/ pc = "published"

(* A writer that touches the file or CURRENT still owns the scope: the descriptor is      *)
(* open and the lease has been neither closed nor handed to a rotation or compaction.      *)
WriterOwnsScope ==
    pc \in {"planned", "written", "synced", "published", "swapped"} =>
        fdOpen /\ lease \in {"NONE", "OWNED_BY_STORE"}

(* ROTATION_NOT_NEEDED means that nothing was touched: begin_rotation promises to return it *)
(* with no fence and the lease left in the store, so a healthy writer keeps its descriptor    *)
(* and its lease (horizon_batch.py:774 and 782).                                              *)
NotNeededKeepsWriter ==
    outcome = "ROTATION_NOT_NEEDED" /\ ~poisoned => fdOpen /\ lease # "CLOSED"

(* What readers see never goes back: the visible seq, the version of each fact, and the    *)
(* memory of each operation id only grow.                                                  *)
SnapshotAdvances ==
    [][/\ snap'.through >= snap.through
       /\ \A f \in Facts : snap.index[f] # Nil =>
            snap'.index[f] # Nil /\ snap'.index[f].ver >= snap.index[f].ver
       /\ \A o \in OpIds : snap.tx[o] # Nil => snap'.tx[o] = snap.tx[o]]_vars

(* The commands of the first n frames of the file. *)
History(n) == [k \in 1..n |-> wal[k].cmd]

(* How much of the file a recovery would take: what CURRENT publishes, all of it in a    *)
(* legacy writer.                                                                         *)
Committed == IF Published THEN Pos(current) ELSE Len(wal)

Abstract == INSTANCE MemoryLog WITH
    Ops <- Commands, MaxBatch <- MaxBatchCommands,
    log <- History(Committed), stable <- History(Pos(snap.through)),
    acked <- {cmd[r] : r \in {q \in Requests : status[q] = "APPLIED"}}

(* The store keeps the promise of a scope: each batch takes effect at once and behind the  *)
(* ones before it, no operation id twice, and APPLIED is answered only for what the          *)
(* snapshot shows, which no fault takes back (_commit_batch).                               *)
ImplementsMemoryLog == Abstract!Spec

(* Every request the store admits is answered, unless an exception that nothing catches *)
(* ends the worker first: one raised by the telemetry callback, or by a version no u32    *)
(* holds (_run).                                                                         *)
AdmittedIsAnswered ==
    \A r \in Requests :
        state[r] \in {"ADMITTED", "CLAIMED"} ~> state[r] = "DONE" \/ pc = "died"

(* Once admission is fenced the worker drains what it admitted and exits, unless an       *)
(* exception ended it: then the fence joins a dead thread (_run, fence_and_stop).          *)
FenceDrains == stop ~> (pc = "exited" /\ queue = <<>>) \/ pc = "died"
=============================================================================
