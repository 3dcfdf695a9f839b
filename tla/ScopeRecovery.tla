--------------------------- MODULE ScopeRecovery ---------------------------
(* One scope on disk and the processes that open it: recovery from CURRENT      *)
(* (horizon_recovery.py), the writer lease (horizon_batch.py), publication by    *)
(* compare-and-swap (horizon_publication.py) and segment rotation                *)
(* (horizon_rotation.py, horizon_walstore.py).  Processes die, writers are       *)
(* poisoned, power is lost, at any step.                                          *)
(*                                                                            *)
(* Abstractions.  A publication is its manifest, a segment its header and frames: *)
(* equal digests mean equal contents.  A batch is one command (GroupCommit has     *)
(* the batching), so the revision is a function of the manifest.  A half-written   *)
(* frame counts as a whole one: every reader treats both as bytes after the        *)
(* published prefix.  publish.lock makes the check and the replacement of CURRENT   *)
(* one step; the fsync of its directory is another.  A file's fsync keeps its name   *)
(* too.  A publication's manifest and record are one object.  Old ACTIVE files and   *)
(* objects stay: collecting them is the garbage collector's work.                   *)
EXTENDS WalReplay, FiniteSets, SequencesExt

CONSTANTS
    Procs,         \* processes that open the scope
    Commands,      \* what their clients submit
    MaxSegmentId,  \* bound: segments the scope gets to
    MaxLog,        \* bound: frames ever published
    MaxStops,      \* bound: ends of a process and power losses
    PowerFails,    \* power may be lost
    ProcessesDie   \* a process, or its writer, may stop between any two steps

ASSUME ScopeAssumption ==
    /\ Commands \subseteq Command
    /\ MaxSegmentId \in Nat \ {0}
    /\ MaxLog \in Nat /\ MaxStops \in Nat
    /\ PowerFails \in BOOLEAN /\ ProcessesDie \in BOOLEAN
    /\ \A f \in Facts : BaseFacts[f] = BaseAbsent
    /\ \A o \in OpIds : BaseDedup[o].kind = "new"

ASSUME NilAssumption == Nil \notin Procs /\ Nil \notin TxEntry

VARIABLES
    current, onDisk,     \* the CURRENT a process reads, the one a power loss leaves
    files,               \* ACTIVE files: their visible contents
    stored,              \* ACTIVE files: their contents at the last fsync
    objects,             \* the object store: sealed segments and publications
    unsynced,            \* objects linked since its directory was last fsynced
    holder,              \* who holds .writer.lock
    pc, seen,            \* each process: its step, the publication it recovered
    cursor, index, tx,   \* each process: what its writer knows
    job,                 \* each process: the command its writer commits
    applied, replayed,   \* history: frames answered APPLIED, DEDUP_REPLAY
    stops                \* bounded by MaxStops

diskVars == <<files, stored, objects, unsynced>>
memVars == <<cursor, index, tx, job>>
ackVars == <<applied, replayed>>
vars == <<current, onDisk, diskVars, holder, pc, seen, memVars, ackVars, stops>>

SegmentIds == 1..MaxSegmentId

TornFooter == [footer |-> "torn"]
Footer == [footer |-> "whole"]

Header(id, first, prev) == [id |-> id, first |-> first, prev |-> prev]

(* A segment of a manifest: its header, its status, its durable prefix. *)
Segment(h, status, frames) == [header |-> h, status |-> status, frames |-> frames]

NoFile == [header |-> Nil, tail |-> <<>>]

(* create_genesis: a published generation with an empty ACTIVE, and no writer. *)
Genesis == <<Segment(Header(1, 1, Nil), "ACTIVE", <<>>)>>
GenesisFile == [header |-> Header(1, 1, Nil), tail |-> <<>>]

Publication(man) == [publication |-> man]

Init ==
    /\ current = Genesis /\ onDisk = Genesis
    /\ files = [id \in SegmentIds |-> IF id = 1 THEN GenesisFile ELSE NoFile]
    /\ stored = files
    /\ objects = {Publication(Genesis)} /\ unsynced = {}
    /\ holder = Nil
    /\ pc = [p \in Procs |-> "idle"]
    /\ seen = [p \in Procs |-> Nil]
    /\ cursor = [p \in Procs |-> Nil]
    /\ index = [p \in Procs |-> EmptyIndex]
    /\ tx = [p \in Procs |-> EmptyTx]
    /\ job = [p \in Procs |-> Nil]
    /\ applied = {} /\ replayed = {} /\ stops = 0

Active(man) == Last(man)
ActiveId(man) == Active(man).header.id

(* The frames a manifest publishes, in order. *)
LogPrefixes(man) ==
    LET log[n \in 0..Len(man)] == IF n = 0 THEN <<>> ELSE log[n - 1] \o man[n].frames
    IN log

Log(man) == LogPrefixes(man)[Len(man)]
ReadSeq(man) == Len(Log(man))

(* read_validated_segment: an ACTIVE is read up to its durable prefix, whatever  *)
(* follows it; a SEALED comes from the object store.                              *)
SegmentReads(s) ==
    IF s.status = "SEALED" THEN s \in objects
    ELSE LET f == files[s.header.id] IN
         /\ f.header = s.header
         /\ IsPrefix(s.frames, f.tail)

ReplayInput(man) ==
    [k \in DOMAIN man |-> [ordinal |-> k - 1, id |-> man[k].header.id,
                           firstSeq |-> man[k].header.first, records |-> Len(man[k].frames),
                           frames |-> man[k].frames]]

Replay(man) == ReplaySegments(ReplayInput(man), 0, ReadSeq(man))

(* check_coverage: only the last segment is ACTIVE, only it may be empty, and each *)
(* names the one before.  The sequence numbers are checked again by the replay.    *)
Covers(man) ==
    \A k \in DOMAIN man :
        /\ (man[k].status = "ACTIVE") = (k = Len(man))
        /\ man[k].frames = <<>> => k = Len(man)
        /\ man[k].header.prev = IF k = 1 THEN Nil ELSE man[k - 1]

(* open_generation *)
Opens(man) ==
    /\ Covers(man)
    /\ \A k \in DOMAIN man : SegmentReads(man[k])
    /\ Replay(man).class = "OK"

(* recover(): the publication is in the object store, and its generation opens. *)
Recovers(man) == Publication(man) \in objects /\ Opens(man)

Step(p, from, to) == pc[p] = from /\ pc' = [pc EXCEPT ![p] = to]

-----------------------------------------------------------------------------
(* The end of a process, of its writer, or of its attempt: it dies, is poisoned,  *)
(* closes, or is refused.  The flock goes with it; the disk stays as it is.        *)
Forget(p) ==
    /\ pc' = [pc EXCEPT ![p] = "idle"]
    /\ seen' = [seen EXCEPT ![p] = Nil]
    /\ holder' = IF holder = p THEN Nil ELSE holder
    /\ cursor' = [cursor EXCEPT ![p] = Nil]
    /\ index' = [index EXCEPT ![p] = EmptyIndex]
    /\ tx' = [tx EXCEPT ![p] = EmptyTx]
    /\ job' = [job EXCEPT ![p] = Nil]

(* Where stopping leaves nothing half done. *)
AtRest == {"reading", "recovered", "leased", "validated", "serving"}

Ends(p) ==
    /\ pc[p] # "idle" /\ (ProcessesDie \/ pc[p] \in AtRest)
    /\ Forget(p)
    /\ UNCHANGED <<current, onDisk, diskVars, ackVars>>

-----------------------------------------------------------------------------
(* Recovery: recover() reads, under no lock; resume_from_recovery takes the lease,  *)
(* recovers again, truncates what was never published, and starts a writer.         *)

ReadCurrent(p) ==
    /\ Step(p, "idle", "reading")
    /\ seen' = [seen EXCEPT ![p] = current]
    /\ UNCHANGED <<current, onDisk, diskVars, holder, memVars, ackVars>>

Recover(p) ==
    /\ Step(p, "reading", IF Recovers(seen[p]) THEN "recovered" ELSE "idle")
    /\ UNCHANGED <<current, onDisk, diskVars, holder, seen, memVars, ackVars>>

(* Mutant: the lock is not exclusive. *)
LeaseAlwaysFree == TRUE

LeaseFree == holder = Nil

AcquireLease(p) ==
    /\ Step(p, "recovered", "leased")
    /\ LeaseFree
    /\ holder' = p
    /\ UNCHANGED <<current, onDisk, diskVars, seen, memVars, ackVars>>

WriterActive(p) ==
    /\ pc[p] = "recovered" /\ ~LeaseFree
    /\ Forget(p)
    /\ UNCHANGED <<current, onDisk, diskVars, ackVars>>

(* Mutant: the plan is used as it was made, before the lease. *)
NeverStale(p) == TRUE

StillCurrent(p) == Recovers(current) /\ current = seen[p]

Revalidate(p) ==
    /\ Step(p, "leased", "validated")
    /\ StillCurrent(p)
    /\ UNCHANGED <<current, onDisk, diskVars, holder, seen, memVars, ackVars>>

StaleRecovery(p) ==
    /\ pc[p] = "leased" /\ ~StillCurrent(p)
    /\ Forget(p)
    /\ UNCHANGED <<current, onDisk, diskVars, ackVars>>

(* Mutant: the resumed writer starts with no memory. *)
BootEmpty(p) ==
    /\ pc' = [pc EXCEPT ![p] = "serving"]
    /\ cursor' = [cursor EXCEPT ![p] = seen[p]]
    /\ UNCHANGED <<index, tx, job>>

(* The writer starts from the generation the recovery rebuilt. *)
Boot(p) ==
    /\ pc' = [pc EXCEPT ![p] = "serving"]
    /\ cursor' = [cursor EXCEPT ![p] = seen[p]]
    /\ index' = [index EXCEPT ![p] = Replay(seen[p]).index]
    /\ tx' = [tx EXCEPT ![p] = Replay(seen[p]).tx]
    /\ UNCHANGED job

(* The ACTIVE file of a manifest, and what the manifest publishes of it. *)
FileTail(man) == files[ActiveId(man)].tail
Prefix(man) == Active(man).frames

(* Mutant: the last published frame goes too. *)
KeptByTruncationShort(man) == SubSeq(Prefix(man), 1, Len(Prefix(man)) - 1)

KeptByTruncation(man) == Prefix(man)

TruncateTail(p) ==
    /\ Step(p, "validated", "truncated")
    /\ FileTail(seen[p]) # Prefix(seen[p])
    /\ files' = [files EXCEPT ![ActiveId(seen[p])].tail = KeptByTruncation(seen[p])]
    /\ UNCHANGED <<current, onDisk, stored, objects, unsynced, holder, seen, memVars, ackVars>>

SyncTruncated(p) ==
    /\ pc[p] = "truncated"
    /\ stored' = [stored EXCEPT ![ActiveId(seen[p])] = files[ActiveId(seen[p])]]
    /\ Boot(p)
    /\ UNCHANGED <<current, onDisk, files, objects, unsynced, holder, seen, ackVars>>

(* The file already ends at the published prefix: nothing is written or synced. *)
TailAbsent(p) ==
    /\ pc[p] = "validated" /\ FileTail(seen[p]) = Prefix(seen[p])
    /\ Boot(p)
    /\ UNCHANGED <<current, onDisk, diskVars, holder, seen, ackVars>>

-----------------------------------------------------------------------------
(* A writer commits one command: WAL, fsync, CURRENT, fsync of its directory, swap  *)
(* and answer.                                                                      *)

(* A command that prepare_batch raises on ends the worker with nothing written     *)
(* (GroupCommit has it): no step of this module.                                     *)
Submit(p, c) ==
    /\ Step(p, "serving", "planned")
    /\ ~PlanRaises(c)
    /\ Decide(index[p], tx[p], c) = "APPLIED"
    /\ ReadSeq(cursor[p]) < MaxLog
    /\ job' = [job EXCEPT ![p] = c]
    /\ UNCHANGED <<current, onDisk, diskVars, holder, seen, cursor, index, tx, ackVars>>

(* A retry is answered from memory: no WAL, no publication. *)
SubmitReplay(p, c) ==
    /\ pc[p] = "serving" /\ ~PlanRaises(c)
    /\ Decide(index[p], tx[p], c) = "DEDUP_REPLAY"
    /\ replayed' = replayed \cup {[cmd |-> c, seq |-> DedupSeq(tx[p], c)]}
    /\ UNCHANGED <<current, onDisk, diskVars, holder, pc, seen, memVars, applied>>

NewFrame(p) == [cmd |-> job[p], seq |-> ReadSeq(cursor[p]) + 1]

(* The file must end where the published prefix ends. *)
WriteFrame(p) ==
    /\ Step(p, "planned", "written")
    /\ Len(FileTail(cursor[p])) = Len(Prefix(cursor[p]))
    /\ files' = [files EXCEPT ![ActiveId(cursor[p])].tail = Append(@, NewFrame(p))]
    /\ UNCHANGED <<current, onDisk, stored, objects, unsynced, holder, seen, memVars, ackVars>>

(* Mutant: the frame is published before it is synced. *)
SyncFrameSkipped(p) ==
    /\ Step(p, "written", "synced")
    /\ UNCHANGED <<current, onDisk, diskVars, holder, seen, memVars, ackVars>>

SyncFrame(p) ==
    /\ Step(p, "written", "synced")
    /\ stored' = [stored EXCEPT ![ActiveId(cursor[p])] = files[ActiveId(cursor[p])]]
    /\ UNCHANGED <<current, onDisk, files, objects, unsynced, holder, seen, memVars, ackVars>>

(* The manifest with one more frame in its ACTIVE. *)
BatchCandidate(p) ==
    [cursor[p] EXCEPT ![Len(cursor[p])].frames = Append(@, NewFrame(p))]

(* put_object: link the object's name, then fsync the directory.  A name that is    *)
(* there already is taken as it is.                                                 *)
PutObject(p, o, linked, done) ==
    /\ \/ o \in objects /\ Step(p, pc[p], done) /\ UNCHANGED <<objects, unsynced>>
       \/ /\ o \notin objects /\ Step(p, pc[p], linked)
          /\ objects' = objects \cup {o} /\ unsynced' = unsynced \cup {o}
    /\ UNCHANGED <<current, onDisk, files, stored, holder, seen, memVars, ackVars>>

SyncObjects(p) ==
    /\ \/ Step(p, "record_linked", "recorded")
       \/ Step(p, "sealed_linked", "sealed_published")
       \/ Step(p, "rotation_linked", "rotation_recorded")
    /\ unsynced' = {}
    /\ UNCHANGED <<current, onDisk, files, stored, objects, holder, seen, memVars, ackVars>>

(* The writer's lease and the compare-and-swap; publish.lock is held from here to   *)
(* the fsync of CURRENT's directory.                                                *)
MaySwap(p) == holder = p /\ current = cursor[p]

(* publish_batch checks the transition, not the files. *)
PutBatch(p) ==
    /\ pc[p] = "synced" /\ MaySwap(p)
    /\ PutObject(p, Publication(BatchCandidate(p)), "record_linked", "recorded")

ReplaceCurrent(p) ==
    /\ Step(p, "recorded", "replaced")
    /\ current' = BatchCandidate(p)
    /\ UNCHANGED <<onDisk, diskVars, holder, seen, memVars, ackVars>>

(* Mutant: the directory is not synced. *)
CurrentNotSynced == UNCHANGED onDisk

CurrentSynced == onDisk' = current

SyncCurrent(p) ==
    /\ \/ Step(p, "replaced", "published")
       \/ Step(p, "rotation_replaced", "rotation_published")
    /\ CurrentSynced
    /\ UNCHANGED <<current, diskVars, holder, seen, memVars, ackVars>>

Answer(p) ==
    /\ Step(p, "published", "serving")
    /\ cursor' = [cursor EXCEPT ![p] = current]
    /\ index' = [index EXCEPT ![p] = ApplyIndex(@, job[p])]
    /\ tx' = [tx EXCEPT ![p] = RecordTx(@, job[p], NewFrame(p).seq)]
    /\ job' = [job EXCEPT ![p] = Nil]
    /\ applied' = applied \cup {NewFrame(p)}
    /\ UNCHANGED <<current, onDisk, diskVars, holder, seen, replayed>>

-----------------------------------------------------------------------------
(* Rotation: seal the ACTIVE, put it in the object store, create the next ACTIVE,    *)
(* publish both, go on in the new one with the memory carried over.                  *)

NextId(p) == ActiveId(cursor[p]) + 1

BeginRotation(p) ==
    /\ pc[p] = "serving" /\ Prefix(cursor[p]) # <<>> /\ NextId(p) \in SegmentIds
    /\ pc' = [pc EXCEPT ![p] = "fenced"]
    /\ UNCHANGED <<current, onDisk, diskVars, holder, seen, memVars, ackVars>>

(* seal_active: only a footer may follow the prefix; a torn one is written again. *)
SealWrite(p) ==
    LET whole == Append(Prefix(cursor[p]), Footer)
        torn == Append(Prefix(cursor[p]), TornFooter)
        tail == FileTail(cursor[p])
    IN
    /\ Step(p, "fenced", IF tail = whole THEN "sealed" ELSE "sealing")
    /\ tail \in {Prefix(cursor[p]), torn, whole}
    /\ files' = [files EXCEPT ![ActiveId(cursor[p])].tail = IF tail = whole THEN whole ELSE torn]
    /\ UNCHANGED <<current, onDisk, stored, objects, unsynced, holder, seen, memVars, ackVars>>

SealSync(p) ==
    LET sealed == [files EXCEPT ![ActiveId(cursor[p])].tail = Append(Prefix(cursor[p]), Footer)]
    IN
    /\ Step(p, "sealing", "sealed")
    /\ files' = sealed
    /\ stored' = [stored EXCEPT ![ActiveId(cursor[p])] = sealed[ActiveId(cursor[p])]]
    /\ UNCHANGED <<current, onDisk, objects, unsynced, holder, seen, memVars, ackVars>>

(* Mutant: the descriptor keeps the status it had. *)
SealedSegmentAsActive(p) == Active(cursor[p])

SealedSegment(p) == [Active(cursor[p]) EXCEPT !.status = "SEALED"]

(* publish_sealed: the whole file, which must end with a footer. *)
PublishSealed(p) ==
    /\ pc[p] = "sealed" /\ Last(FileTail(cursor[p])) = Footer
    /\ PutObject(p, SealedSegment(p), "sealed_linked", "sealed_published")

NextHeader(p) == Header(NextId(p), ReadSeq(cursor[p]) + 1, SealedSegment(p))
NextFile(p) == [header |-> NextHeader(p), tail |-> <<>>]
PartialFile == [header |-> Header(0, 0, Nil), tail |-> <<>>]

(* create_active: O_EXCL, then the header and its fsync. *)
CreateNext(p) ==
    /\ Step(p, "sealed_published", "creating")
    /\ files[NextId(p)] = NoFile
    /\ files' = [files EXCEPT ![NextId(p)] = PartialFile]
    /\ UNCHANGED <<current, onDisk, stored, objects, unsynced, holder, seen, memVars, ackVars>>

WriteHeader(p) ==
    /\ Step(p, "creating", "header_written")
    /\ files' = [files EXCEPT ![NextId(p)] = NextFile(p)]
    /\ UNCHANGED <<current, onDisk, stored, objects, unsynced, holder, seen, memVars, ackVars>>

SyncHeader(p) ==
    /\ Step(p, "header_written", "prepared")
    /\ stored' = [stored EXCEPT ![NextId(p)] = files[NextId(p)]]
    /\ UNCHANGED <<current, onDisk, files, objects, unsynced, holder, seen, memVars, ackVars>>

(* The header cannot be written: the file is removed and the rotation fails. *)
WriteHeaderFails(p) ==
    /\ pc[p] \in {"creating", "header_written"}
    /\ files' = [files EXCEPT ![NextId(p)] = NoFile]
    /\ Forget(p)
    /\ UNCHANGED <<current, onDisk, stored, objects, unsynced, ackVars>>

SameNextFile(p) == files[NextId(p)] = NextFile(p)

NextExists(p) ==
    /\ Step(p, "sealed_published", "prepared")
    /\ SameNextFile(p)
    /\ UNCHANGED <<current, onDisk, diskVars, holder, seen, memVars, ackVars>>

NextDiverges(p) ==
    /\ pc[p] = "sealed_published" /\ files[NextId(p)] # NoFile /\ ~SameNextFile(p)
    /\ Forget(p)
    /\ UNCHANGED <<current, onDisk, diskVars, ackVars>>

RotationCandidate(p) ==
    Front(cursor[p]) \o <<SealedSegment(p), Segment(NextHeader(p), "ACTIVE", <<>>)>>

(* publish_rotation opens the candidate before it publishes it. *)
PutRotation(p) ==
    /\ pc[p] = "prepared" /\ Opens(RotationCandidate(p)) /\ MaySwap(p)
    /\ PutObject(p, Publication(RotationCandidate(p)), "rotation_linked", "rotation_recorded")

ReplaceByRotation(p) ==
    /\ Step(p, "rotation_recorded", "rotation_replaced")
    /\ current' = RotationCandidate(p)
    /\ UNCHANGED <<onDisk, diskVars, holder, seen, memVars, ackVars>>

(* activate_prepared: CURRENT is the rotation's, the next ACTIVE is header-only. *)
Activate(p) ==
    /\ Step(p, "rotation_published", "serving")
    /\ current = RotationCandidate(p) /\ files[NextId(p)] = NextFile(p)
    /\ cursor' = [cursor EXCEPT ![p] = current]
    /\ UNCHANGED <<current, onDisk, diskVars, holder, seen, index, tx, job, ackVars>>

-----------------------------------------------------------------------------
(* Power loss: every process dies.  CURRENT's rename may or may not have reached the *)
(* disk; so may every byte written to a file, or cut from it, since its last fsync.   *)
CommonLength(s, t) ==
    CHOOSE n \in 0..Len(s) :
        /\ n <= Len(t) /\ SubSeq(s, 1, n) = SubSeq(t, 1, n)
        /\ n < Len(s) /\ n < Len(t) => s[n + 1] # t[n + 1]

Survivors(id) ==
    IF stored[id] = NoFile THEN {NoFile, files[id]}
    ELSE LET n == CommonLength(files[id].tail, stored[id].tail) IN
         UNION {{[files[id] EXCEPT !.tail = SubSeq(t, 1, m)] : m \in n..Len(t)} :
                   t \in {files[id].tail, stored[id].tail}}

PowerLoss ==
    /\ PowerFails
    /\ current' \in {current, onDisk}
    /\ onDisk' = current'
    /\ files' \in {fs \in [SegmentIds -> UNION {Survivors(id) : id \in SegmentIds}] :
                      \A id \in SegmentIds : fs[id] \in Survivors(id)}
    /\ stored' = files'
    /\ holder' = Nil
    /\ pc' = [p \in Procs |-> "idle"]
    /\ seen' = [p \in Procs |-> Nil]
    /\ cursor' = [p \in Procs |-> Nil]
    /\ index' = [p \in Procs |-> EmptyIndex]
    /\ tx' = [p \in Procs |-> EmptyTx]
    /\ job' = [p \in Procs |-> Nil]
    /\ objects' \in {objects \ lost : lost \in SUBSET unsynced} /\ unsynced' = {}
    /\ UNCHANGED ackVars

-----------------------------------------------------------------------------
Resume(p) ==
    \/ ReadCurrent(p) \/ Recover(p) \/ AcquireLease(p) \/ WriterActive(p)
    \/ Revalidate(p) \/ StaleRecovery(p)
    \/ TruncateTail(p) \/ SyncTruncated(p) \/ TailAbsent(p)

Commit(p) ==
    \/ \E c \in Commands : Submit(p, c) \/ SubmitReplay(p, c)
    \/ WriteFrame(p) \/ SyncFrame(p) \/ PutBatch(p) \/ ReplaceCurrent(p) \/ Answer(p)
    \/ SyncObjects(p) \/ SyncCurrent(p)

Rotate(p) ==
    \/ BeginRotation(p) \/ SealWrite(p) \/ SealSync(p) \/ PublishSealed(p)
    \/ CreateNext(p) \/ WriteHeader(p) \/ SyncHeader(p) \/ WriteHeaderFails(p)
    \/ NextExists(p) \/ NextDiverges(p)
    \/ PutRotation(p) \/ ReplaceByRotation(p) \/ Activate(p)

Stop == (\E p \in Procs : Ends(p)) \/ PowerLoss

Next ==
    \/ (\E p \in Procs : Resume(p) \/ Commit(p) \/ Rotate(p)) /\ UNCHANGED stops
    \/ stops < MaxStops /\ stops' = stops + 1 /\ Stop

Spec == Init /\ [][Next]_vars
-----------------------------------------------------------------------------
(* Properties. *)

Steps == {"idle", "reading", "recovered", "leased", "validated", "truncated", "serving",
          "planned", "written", "synced", "record_linked", "recorded", "replaced", "published",
          "fenced", "sealing", "sealed", "sealed_linked", "sealed_published",
          "creating", "header_written", "prepared", "rotation_linked", "rotation_recorded",
          "rotation_replaced", "rotation_published"}

IsFrame(x) == DOMAIN x = {"cmd", "seq"} /\ x.cmd \in Commands /\ x.seq \in Nat

IsManifest(man) ==
    /\ man # <<>>
    /\ \A k \in DOMAIN man :
        /\ man[k].header.id \in SegmentIds /\ man[k].header.first \in Nat
        /\ man[k].status \in {"ACTIVE", "SEALED"}
        /\ \A i \in DOMAIN man[k].frames : IsFrame(man[k].frames[i])

TypeOK ==
    /\ IsManifest(current) /\ IsManifest(onDisk)
    /\ DOMAIN files = SegmentIds /\ DOMAIN stored = SegmentIds
    /\ \A id \in SegmentIds : \A i \in DOMAIN files[id].tail :
          IsFrame(files[id].tail[i]) \/ files[id].tail[i] \in {Footer, TornFooter}
    /\ unsynced \subseteq objects
    /\ \A o \in objects :
          IF DOMAIN o = {"publication"} THEN IsManifest(o.publication)
          ELSE IsManifest(<<o>>) /\ o.status = "SEALED"
    /\ holder \in Procs \cup {Nil}
    /\ pc \in [Procs -> Steps]
    /\ \A p \in Procs : seen[p] = Nil \/ IsManifest(seen[p])
    /\ \A p \in Procs : cursor[p] = Nil \/ IsManifest(cursor[p])
    /\ index \in [Procs -> Indexes] /\ tx \in [Procs -> TxIndexes]
    /\ job \in [Procs -> Commands \cup {Nil}]
    /\ \A fr \in applied \cup replayed : IsFrame(fr)
    /\ stops \in 0..MaxStops

(* What was published always opens: CURRENT, in memory and on disk, and the publication  *)
(* a recovery in progress has read, while another process truncates, seals, rotates or    *)
(* dies (horizon_recovery.py:20, "é seguro chamá-lo de qualquer processo").                *)
PublicationsOpen ==
    /\ Recovers(current)
    /\ \A p \in Procs : pc[p] \in {"reading", "recovered"} => Recovers(seen[p])

(* A writer that serves is the only one, and what it knows is what a recovery would       *)
(* rebuild: its cursor is CURRENT, its memory is the replay of CURRENT, its file ends at   *)
(* the published prefix.  Holds through recovery, truncation, rotation and crashes.        *)
ServingWriterAgrees ==
    \A p \in Procs : pc[p] = "serving" =>
        /\ holder = p
        /\ cursor[p] = current
        /\ index[p] = Replay(current).index /\ tx[p] = Replay(current).tx
        /\ FileTail(current) = Prefix(current)

History(man) == [k \in DOMAIN Log(man) |-> Log(man)[k].cmd]

Abstract == INSTANCE MemoryLog WITH
    Ops <- Commands, MaxBatch <- 1, log <- History(current), stable <- History(onDisk),
    acked <- {fr.cmd : fr \in applied}

(* The scope keeps its promise: an append-only history in which an operation id takes      *)
(* effect once, and APPLIED only for what no power loss can take back.                      *)
ImplementsMemoryLog == Abstract!Spec

(* A retry answered DEDUP_REPLAY names a write that is there (horizon_recovery.py:5: the    *)
(* only recovered state is the one of the durable CURRENT).                                  *)
ReplayedSurvives ==
    \A fr \in replayed : \E k \in DOMAIN Log(current) : Log(current)[k] = fr
=============================================================================
