------------------------------- MODULE Collector -------------------------------
(***************************************************************************)
(* Garbage collection of one scope (horizon_gc.py) against the processes   *)
(* that give it roots: a writer that publishes, rotates and compacts       *)
(* (horizon_publication, horizon_rotation, horizon_compaction), and        *)
(* readers that capture and pin a snapshot (capture_snapshot).             *)
(*                                                                         *)
(* The collector moves what no root reaches from objects/ to a quarantine, *)
(* after it has journaled what it will move; recover_gc brings back what   *)
(* a root reaches again.  Nothing is deleted.                              *)
(*                                                                         *)
(* Abstracted: an object is its content, so equal attempts put equal       *)
(* objects; a record and its manifest are one object, put one after the    *)
(* other by the publication; the five artefacts of a base are one; MACs,   *)
(* names and limits; ACTIVE files, which the collector never moves.  A     *)
(* publication is its revision, the revision its base was built at and     *)
(* the revisions whose segment it has sealed.                              *)
(*                                                                         *)
(* Every read of the roots is a step, the others go on in between, and      *)
(* nothing keeps a publication, which takes none of the collector's locks, *)
(* from overlapping it.  exposed records the overlaps that can defeat it,  *)
(* from the first one to a recovery that sees every root.                  *)
(***************************************************************************)
EXTENDS Naturals, FiniteSets, Sequences

CONSTANTS
    Readers,      \* processes that capture snapshots
    Retentions,   \* the retention arguments of run_gc and recover_gc
    MaxRevision,  \* bound on publications
    MaxRuns,      \* bound on the runs of the collector
    MaxStops      \* bound on processes that die, calls and locks that fail

ASSUME ReadersAssumption == "collector" \notin Readers
ASSUME RetentionsAssumption == Retentions # {} /\ Retentions \subseteq Nat \ {0}
ASSUME BoundsAssumption ==
    MaxRevision \in Nat \ {0} /\ MaxRuns \in Nat /\ MaxStops \in Nat

VARIABLES
    objects,      \* content-addressed objects in objects/
    quarantine,   \* those in gc-quarantine/
    journals,     \* the sets of items the journals list
    chain,        \* the publications CURRENT has named, the last is CURRENT
    prepared,     \* gc-prepared/: the publications whose packet is registered
    writer,       \* the writing process: its step, what it is publishing
    reader,       \* each reader: its step, the publication it has read
    pin,          \* each reader's ephemeral pin file
    named,        \* publications with a named pin
    gcLock,       \* holder of .gc.lock
    pinLock,      \* holders of pin.lock: shared by readers, or the collector
    gc,           \* the collector: its step and what it has read
    runs,
    stops,
    exposed       \* history: an overlap has happened and nothing has mended it

disk == <<objects, quarantine, journals>>
roots == <<chain, prepared, named>>
readers == <<reader, pin>>
vars == <<disk, roots, writer, readers, gcLock, pinLock, gc, runs, stops, exposed>>
--------------------------------------------------------------------------------
Revisions == 1 .. MaxRevision

Publications ==
    [kind : {"record"}, revision : Revisions, base : 0 .. MaxRevision, sealed : SUBSET Revisions]

Base(n) == [kind |-> "base", revision |-> n, base |-> 0, sealed |-> {}]
Sealed(n) == [kind |-> "sealed", revision |-> n, base |-> 0, sealed |-> {}]

Items == Publications \cup {Base(n) : n \in 0 .. MaxRevision} \cup {Sealed(n) : n \in Revisions}

Genesis == [kind |-> "record", revision |-> 1, base |-> 0, sealed |-> {}]

\* What a process must find in objects/ to open a publication.
Contents(p) == {Base(p.base)} \cup {Sealed(n) : n \in p.sealed}
Reach(p) == {p} \cup Contents(p)
ReachAll(ps) == UNION {Reach(p) : p \in ps}

Current == chain[Len(chain)]

\* The successors of a publication: a batch of writes, a rotation that seals
\* its segment, a compaction that folds it in a new base.
\* Mutant: a revision is skipped.
CommittedTwice(p) == [p EXCEPT !.revision = @ + 2]

Committed(p) == [p EXCEPT !.revision = @ + 1]
Rotated(p) == [p EXCEPT !.revision = @ + 1, !.sealed = @ \cup {p.revision}]
Compacted(p) == [p EXCEPT !.revision = @ + 1, !.base = p.revision, !.sealed = {}]

\* What a packet adds to the store before it is published.
Packet(p) ==
    IF p.sealed = {} THEN {Base(p.base)}
    ELSE {Sealed(n) : n \in {m \in p.sealed : \A k \in p.sealed : k <= m}}

\* Pins that a scan sees: named ones, and ephemeral files that it can open and
\* finds locked.
LivePins == named \cup {reader[r].pub : r \in {q \in Readers : pin[q] = "locked"}}

PreparedItems == UNION {Packet(p) : p \in prepared}

\* CURRENT and the ancestors that a retention keeps.
Kept(n) == {chain[k] : k \in {j \in DOMAIN chain : j > Len(chain) - n}}

Idle == [pc |-> "idle", retention |-> 1, pins |-> {}, prepared |-> {}, pubs |-> {},
         signature |-> <<>>, reach |-> {}, todo |-> {}]

NoWriter == [pc |-> "idle", next |-> Genesis]
NoReader == [pc |-> "idle", pub |-> Genesis]

Init ==
    /\ objects = Reach(Genesis)
    /\ quarantine = {}
    /\ journals = {}
    /\ chain = <<Genesis>>
    /\ prepared = {}
    /\ writer = NoWriter
    /\ reader = [r \in Readers |-> NoReader]
    /\ pin = [r \in Readers |-> "none"]
    /\ named = {}
    /\ gcLock = "free"
    /\ pinLock = {}
    /\ gc = Idle
    /\ runs = 0
    /\ stops = 0
    /\ exposed = FALSE
--------------------------------------------------------------------------------
(* What exposes the roots: the overlaps that neither a lock nor the second *)
(* signature rules out.                                                    *)

\* The publications a reader holds or has pinned, whether a scan sees the pin
\* or not.
Held ==
    named \cup {reader[r].pub : r \in {q \in Readers : pin[q] \in {"locked", "unreadable", "lost"}}}

\* A publication puts its objects while objects are moved, or after a recovery
\* has read CURRENT; or has put them before that, and not renamed CURRENT yet.
Sweeping == {"journal", "moving", "rerooted", "returning"}
PutIsMissed == gc.pc \in Sweeping
PublicationIsMissed == writer.pc = "putting"

\* The last scan of the pins does not see one that is held.
PinIsMissed == Held # LivePins

\* The roots have changed between their reading and the first signature, which
\* is taken after it: the second one then finds no change.
RootIsMissed == ~({Current} \cup LivePins \subseteq gc.pubs)

\* A recovery has found everything below CURRENT and every pin that is held,
\* and no publication is under way.
RootsAreSeen == {Current} \cup Held \subseteq gc.pubs /\ writer.pc # "putting"
--------------------------------------------------------------------------------
(* The writer.                                                             *)

\* publish_batch, up to the rename: the manifest and its record are objects.
PutBatch ==
    /\ writer.pc = "idle"
    /\ Current.revision < MaxRevision
    /\ writer' = [pc |-> "putting", next |-> Committed(Current)]
    /\ objects' = objects \cup {Committed(Current)}
    /\ exposed' = (exposed \/ PutIsMissed)
    /\ UNCHANGED <<quarantine, journals, roots, readers, gcLock, pinLock, gc, runs, stops>>

\* Mutant: a packet is prepared without .gc.lock.
PrepareAtOnce ==
    /\ writer.pc = "idle"
    /\ Current.revision < MaxRevision
    /\ \E p \in {Rotated(Current), Compacted(Current)} :
          writer' = [pc |-> "locked", next |-> p]
    /\ UNCHANGED <<disk, roots, readers, gcLock, pinLock, gc, runs, stops, exposed>>

\* prepare_rotation and prepare_compaction wait for .gc.lock ...
PrepareLock ==
    /\ writer.pc = "idle"
    /\ Current.revision < MaxRevision
    /\ gcLock = "free"
    /\ gcLock' = "writer"
    /\ \E p \in {Rotated(Current), Compacted(Current)} :
          writer' = [pc |-> "locked", next |-> p]
    /\ UNCHANGED <<disk, roots, readers, pinLock, gc, runs, stops, exposed>>

\* ... put the sealed segment, or the new base ...
PreparePut ==
    /\ writer.pc = "locked"
    /\ objects' = objects \cup Packet(writer.next)
    /\ writer' = [writer EXCEPT !.pc = "put"]
    /\ UNCHANGED <<quarantine, journals, roots, readers, gcLock, pinLock, gc, runs, stops, exposed>>

\* (a put that raises leaves the lock with the process, which lives on)
PrepareRaises ==
    /\ writer.pc = "locked"
    /\ writer' = [writer EXCEPT !.pc = "raised"]
    /\ UNCHANGED <<disk, roots, readers, gcLock, pinLock, gc, runs, stops, exposed>>

\* ... and register the packet before they let the collector in.
PrepareRegister ==
    /\ writer.pc = "put"
    /\ prepared' = prepared \cup {writer.next}
    /\ gcLock' = "free"
    /\ writer' = [writer EXCEPT !.pc = "prepared"]
    /\ UNCHANGED <<disk, chain, named, readers, pinLock, gc, runs, stops, exposed>>

\* publish_rotation, publish_maintenance: the candidate must open in full.
PutMaintenance ==
    /\ writer.pc = "prepared"
    /\ Contents(writer.next) \subseteq objects
    /\ objects' = objects \cup {writer.next}
    /\ writer' = [writer EXCEPT !.pc = "putting"]
    /\ exposed' = (exposed \/ PutIsMissed)
    /\ UNCHANGED <<quarantine, journals, roots, readers, gcLock, pinLock, gc, runs, stops>>

\* The rename of CURRENT, the linearization point of every publication.
RenameCurrent ==
    /\ writer.pc = "putting"
    /\ chain' = Append(chain, writer.next)
    /\ writer' = IF writer.next \in prepared THEN [writer EXCEPT !.pc = "published"] ELSE NoWriter
    /\ UNCHANGED <<disk, prepared, named, readers, gcLock, pinLock, gc, runs, stops, exposed>>

\* Only after it: a packet is unregistered when CURRENT reaches it.
Unregister ==
    /\ writer.pc = "published"
    /\ prepared' = prepared \ {writer.next}
    /\ writer' = NoWriter
    /\ UNCHANGED <<disk, chain, named, readers, gcLock, pinLock, gc, runs, stops, exposed>>

\* The process dies or the step fails; what is on disk stays, registered
\* packets included, and another writer starts from CURRENT.
WriterStops ==
    /\ writer.pc # "idle"
    /\ stops < MaxStops
    /\ stops' = stops + 1
    /\ writer' = NoWriter
    /\ gcLock' = IF gcLock = "writer" THEN "free" ELSE gcLock
    /\ UNCHANGED <<disk, roots, readers, pinLock, gc, runs, exposed>>
--------------------------------------------------------------------------------
(* Readers: capture_snapshot under the shared pin.lock.                    *)

CaptureRead(r) ==
    /\ reader[r].pc = "idle"
    /\ "collector" \notin pinLock
    /\ Reach(Current) \cap Publications \subseteq objects
    /\ pinLock' = pinLock \cup {r}
    /\ reader' = [reader EXCEPT ![r] = [pc |-> "read", pub |-> Current]]
    /\ UNCHANGED <<disk, roots, writer, pin, gcLock, gc, runs, stops, exposed>>

\* pin_named: the record is durable, and outlives the process.
PinNamed(r) ==
    /\ reader[r].pc = "read"
    /\ named' = named \cup {reader[r].pub}
    /\ reader' = [reader EXCEPT ![r].pc = "pinned"]
    /\ UNCHANGED <<disk, chain, prepared, writer, pin, gcLock, pinLock, gc, runs, stops, exposed>>

\* pin_ephemeral: the file is created, and then locked.
PinCreate(r) ==
    /\ reader[r].pc = "read"
    /\ pin' = [pin EXCEPT ![r] = "created"]
    /\ reader' = [reader EXCEPT ![r].pc = "pinning"]
    /\ UNCHANGED <<disk, roots, writer, gcLock, pinLock, gc, runs, stops, exposed>>

PinFlock(r) ==
    /\ reader[r].pc = "pinning"
    /\ pin' = [pin EXCEPT ![r] = IF @ = "created" THEN "locked" ELSE "lost"]
    /\ reader' = [reader EXCEPT ![r].pc = "pinned"]
    /\ UNCHANGED <<disk, roots, writer, gcLock, pinLock, gc, runs, stops, exposed>>

\* A scan cannot open the file, or its flock fails for want of something: the
\* pin it belongs to is held, and looks dead for as long as that lasts.
PinUnreadable(r) ==
    /\ pin[r] = "locked"
    /\ stops < MaxStops
    /\ stops' = stops + 1
    /\ pin' = [pin EXCEPT ![r] = "unreadable"]
    /\ UNCHANGED <<disk, roots, writer, reader, gcLock, pinLock, gc, runs, exposed>>

PinReadable(r) ==
    /\ pin[r] = "unreadable"
    /\ pin' = [pin EXCEPT ![r] = "locked"]
    /\ UNCHANGED <<disk, roots, writer, reader, gcLock, pinLock, gc, runs, stops, exposed>>

\* open_generation: on failure an ephemeral pin is closed, a named one stays.
CaptureOpen(r) ==
    LET opens == Contents(reader[r].pub) \subseteq objects
    IN  /\ reader[r].pc = "pinned"
        /\ reader' = [reader EXCEPT ![r] = IF opens THEN [@ EXCEPT !.pc = "open"] ELSE NoReader]
        /\ pin' = IF opens THEN pin ELSE [pin EXCEPT ![r] = "none"]
        /\ pinLock' = pinLock \ {r}
        /\ UNCHANGED <<disk, roots, writer, gcLock, gc, runs, stops, exposed>>

\* EphemeralPin.close, or the end of a reader that holds a named pin.
CloseView(r) ==
    /\ reader[r].pc = "open"
    /\ reader' = [reader EXCEPT ![r] = NoReader]
    /\ pin' = [pin EXCEPT ![r] = "none"]
    /\ UNCHANGED <<disk, roots, writer, gcLock, pinLock, gc, runs, stops, exposed>>

UnpinNamed(p) ==
    /\ p \in named
    /\ named' = named \ {p}
    /\ UNCHANGED <<disk, chain, prepared, writer, readers, gcLock, pinLock, gc, runs, stops, exposed>>

\* The kernel drops the locks of a process that dies; its ephemeral file is
\* dead from then on, whether it is reaped or not.
ReaderDies(r) ==
    /\ reader[r].pc # "idle"
    /\ stops < MaxStops
    /\ stops' = stops + 1
    /\ reader' = [reader EXCEPT ![r] = NoReader]
    /\ pin' = [pin EXCEPT ![r] = "none"]
    /\ pinLock' = pinLock \ {r}
    /\ UNCHANGED <<disk, roots, writer, gcLock, gc, runs, exposed>>
--------------------------------------------------------------------------------
(* The collector: run_gc.                                                  *)

Release ==
    /\ gc' = Idle
    /\ gcLock' = "free"
    /\ pinLock' = pinLock \ {"collector"}

\* CURRENT, pins and prepared packets, as _root_signature reads them.
Signature == <<Current, LivePins, prepared>>

\* What becomes of a pin when the files of dead pins are removed: one that its
\* owner has not locked yet, or that cannot be read, looks dead.
Reaped(status) ==
    CASE status = "created" -> "unlinked"
      [] status = "unreadable" -> "lost"
      [] OTHER -> status

\* .gc.lock without waiting, and the reaping.
GcStart(n) ==
    /\ gc.pc = "idle"
    /\ runs < MaxRuns
    /\ gcLock = "free"
    /\ runs' = runs + 1
    /\ gcLock' = "collector"
    /\ pin' = [r \in Readers |-> Reaped(pin[r])]
    /\ gc' = [Idle EXCEPT !.pc = "reaped", !.retention = n]
    /\ UNCHANGED <<disk, roots, writer, reader, pinLock, stops, exposed>>

\* _gather_roots scans the pins and the prepared packets ...
GcScan ==
    /\ gc.pc = "reaped"
    /\ gc' = [gc EXCEPT !.pc = "scanned", !.pins = LivePins, !.prepared = PreparedItems]
    /\ UNCHANGED <<disk, roots, writer, readers, gcLock, pinLock, runs, stops, exposed>>

\* ... and compute_roots reads CURRENT and its ancestors, which must open.
GcRoots ==
    /\ gc.pc = "scanned"
    /\ IF Kept(gc.retention) \subseteq objects
         THEN /\ gc' = [gc EXCEPT !.pc = "rooted", !.pins = {},
                                      !.pubs = Kept(gc.retention) \cup gc.pins]
              /\ UNCHANGED <<gcLock, pinLock>>
         ELSE Release
    /\ UNCHANGED <<disk, roots, writer, readers, runs, stops, exposed>>

GcSign ==
    /\ gc.pc = "rooted"
    /\ gc' = [gc EXCEPT !.pc = "signed", !.signature = Signature]
    /\ exposed' = (exposed \/ RootIsMissed)
    /\ UNCHANGED <<disk, roots, writer, readers, gcLock, pinLock, runs, stops>>

\* plan_reachability: anything missing below a root aborts; what is present
\* is listed after what is reachable, when the others have only added objects.
GcPlan ==
    LET reach == ReachAll(gc.pubs) \cup gc.prepared
    IN  /\ gc.pc = "signed"
        /\ IF ReachAll(gc.pubs) \subseteq objects
             THEN /\ gc' = [gc EXCEPT !.pc = "planned", !.pubs = {}, !.prepared = {},
                                           !.todo = objects \ reach]
                  /\ UNCHANGED <<gcLock, pinLock>>
             ELSE Release
        /\ UNCHANGED <<disk, roots, writer, readers, runs, stops, exposed>>

\* pin.lock, exclusive: no capture from here to the end.
GcLockPins ==
    /\ gc.pc = "planned"
    /\ pinLock = {}
    /\ pinLock' = {"collector"}
    /\ gc' = [gc EXCEPT !.pc = "reading"]
    /\ UNCHANGED <<disk, roots, writer, readers, gcLock, runs, stops, exposed>>

\* Mutant: the plan is executed without the second signature.
GcRereadNothing ==
    /\ gc.pc = "reading"
    /\ IF gc.todo # {}
         THEN /\ gc' = [gc EXCEPT !.pc = "journal", !.signature = <<>>]
              /\ exposed' = (exposed \/ PinIsMissed \/ PublicationIsMissed)
              /\ UNCHANGED <<gcLock, pinLock>>
         ELSE Release /\ UNCHANGED exposed
    /\ UNCHANGED <<disk, roots, writer, readers, runs, stops>>

\* The second signature: a plan that is stale, or empty, moves nothing.
GcReread ==
    /\ gc.pc = "reading"
    /\ IF Signature = gc.signature /\ gc.todo # {}
         THEN /\ gc' = [gc EXCEPT !.pc = "journal", !.signature = <<>>]
              /\ exposed' = (exposed \/ PinIsMissed \/ PublicationIsMissed)
              /\ UNCHANGED <<gcLock, pinLock>>
         ELSE Release /\ UNCHANGED exposed
    /\ UNCHANGED <<disk, roots, writer, readers, runs, stops>>

\* Mutant: the move begins without a journal.
GcJournalSkipped ==
    /\ gc.pc = "journal"
    /\ gc' = [gc EXCEPT !.pc = "moving"]
    /\ UNCHANGED <<disk, roots, writer, readers, gcLock, pinLock, runs, stops, exposed>>

GcJournal ==
    /\ gc.pc = "journal"
    /\ journals' = journals \cup {gc.todo}
    /\ gc' = [gc EXCEPT !.pc = "moving"]
    /\ UNCHANGED <<objects, quarantine, roots, writer, readers, gcLock, pinLock, runs, stops, exposed>>

\* Mutant: what is unreachable is unlinked.
GcUnlink(i) ==
    /\ gc.pc = "moving"
    /\ i \in gc.todo \cap objects
    /\ objects' = objects \ {i}
    /\ gc' = [gc EXCEPT !.todo = @ \ {i}]
    /\ UNCHANGED <<quarantine, journals, roots, writer, readers, gcLock, pinLock, runs, stops, exposed>>

GcMove(i) ==
    /\ gc.pc = "moving"
    /\ i \in gc.todo \cap objects
    /\ objects' = objects \ {i}
    /\ quarantine' = quarantine \cup {i}
    /\ gc' = [gc EXCEPT !.todo = @ \ {i}]
    /\ UNCHANGED <<journals, roots, writer, readers, gcLock, pinLock, runs, stops, exposed>>

GcDone ==
    /\ gc.pc = "moving"
    /\ gc.todo = {}
    /\ Release
    /\ UNCHANGED <<disk, roots, writer, readers, runs, stops, exposed>>

\* The process dies, or a write, a rename or a sync fails (MOVE_FAILED).
GcStops ==
    /\ gc.pc # "idle"
    /\ stops < MaxStops
    /\ stops' = stops + 1
    /\ Release
    /\ UNCHANGED <<disk, roots, writer, readers, runs, exposed>>
--------------------------------------------------------------------------------
(* recover_gc.                                                             *)

Journaled == UNION journals

RecoverStart(n) ==
    /\ gc.pc = "idle"
    /\ runs < MaxRuns
    /\ gcLock = "free"
    /\ journals # {}
    /\ runs' = runs + 1
    /\ gcLock' = "collector"
    /\ gc' = [Idle EXCEPT !.pc = "recovering", !.retention = n]
    /\ UNCHANGED <<disk, roots, writer, readers, pinLock, stops, exposed>>

\* Under pin.lock, every journaled item that is in the quarantine comes back.
RecoverLockPins ==
    /\ gc.pc = "recovering"
    /\ pinLock = {}
    /\ pinLock' = {"collector"}
    /\ gc' = [gc EXCEPT !.pc = "restoring", !.todo = Journaled \cap quarantine]
    /\ UNCHANGED <<disk, roots, writer, readers, gcLock, runs, stops, exposed>>

RecoverRestore(i) ==
    /\ gc.pc = "restoring"
    /\ i \in gc.todo
    /\ objects' = objects \cup {i}
    /\ quarantine' = quarantine \ {i}
    /\ gc' = [gc EXCEPT !.todo = @ \ {i}]
    /\ UNCHANGED <<journals, roots, writer, readers, gcLock, pinLock, runs, stops, exposed>>

\* Mutant: every journaled item goes back to the quarantine.
ReturnedAll(reach) == Journaled

\* What a recovery takes back: the journaled items no root reaches.
Returned(reach) == Journaled \ reach

\* Then the roots are read as a collection reads them, but once ...
RecoverScan ==
    /\ gc.pc = "restoring"
    /\ gc.todo = {}
    /\ gc' = [gc EXCEPT !.pc = "rescanned", !.pins = LivePins, !.prepared = PreparedItems]
    /\ exposed' = (exposed \/ PinIsMissed)
    /\ UNCHANGED <<disk, roots, writer, readers, gcLock, pinLock, runs, stops>>

RecoverRoots ==
    /\ gc.pc = "rescanned"
    /\ IF Kept(gc.retention) \subseteq objects
         THEN /\ gc' = [gc EXCEPT !.pc = "rerooted", !.pins = {},
                                      !.pubs = Kept(gc.retention) \cup gc.pins]
              /\ exposed' = (exposed \/ PublicationIsMissed)
              /\ UNCHANGED <<gcLock, pinLock>>
         ELSE Release /\ UNCHANGED exposed
    /\ UNCHANGED <<disk, roots, writer, readers, runs, stops>>

\* ... and a plan made from them, with no second signature.
RecoverPlan ==
    LET reach == ReachAll(gc.pubs) \cup gc.prepared
    IN  /\ gc.pc = "rerooted"
        /\ IF ReachAll(gc.pubs) \subseteq objects
             THEN /\ gc' = [gc EXCEPT !.pc = "returning", !.pubs = {}, !.prepared = {},
                                           !.reach = reach, !.todo = Returned(reach)]
                  /\ exposed' = (exposed /\ ~RootsAreSeen)
                  /\ UNCHANGED <<gcLock, pinLock>>
             ELSE Release /\ UNCHANGED exposed
        /\ UNCHANGED <<disk, roots, writer, readers, runs, stops>>

\* Each one is looked for when its turn comes.
RecoverReturn(i) ==
    /\ gc.pc = "returning"
    /\ i \in gc.todo
    /\ objects' = objects \ {i}
    /\ quarantine' = quarantine \cup ({i} \cap objects)
    /\ gc' = [gc EXCEPT !.todo = @ \ {i}]
    /\ UNCHANGED <<journals, roots, writer, readers, gcLock, pinLock, runs, stops, exposed>>

RecoverDone ==
    /\ gc.pc = "returning"
    /\ gc.todo = {}
    /\ Release
    /\ UNCHANGED <<disk, roots, writer, readers, runs, stops, exposed>>
--------------------------------------------------------------------------------
Write ==
    \/ PutBatch \/ PrepareLock \/ PreparePut \/ PrepareRaises \/ PrepareRegister
    \/ PutMaintenance \/ RenameCurrent \/ Unregister \/ WriterStops

Read ==
    \/ \E r \in Readers :
          \/ CaptureRead(r) \/ PinNamed(r) \/ PinCreate(r) \/ PinFlock(r)
          \/ CaptureOpen(r) \/ CloseView(r) \/ ReaderDies(r)
          \/ PinUnreadable(r) \/ PinReadable(r)
    \/ \E p \in named : UnpinNamed(p)

Collect ==
    \/ \E n \in Retentions : GcStart(n) \/ RecoverStart(n)
    \/ GcScan \/ GcRoots \/ GcSign \/ GcPlan \/ GcLockPins \/ GcReread \/ GcJournal
    \/ GcDone \/ GcStops
    \/ RecoverLockPins \/ RecoverScan \/ RecoverRoots \/ RecoverPlan \/ RecoverDone
    \/ \E i \in gc.todo : GcMove(i) \/ RecoverRestore(i) \/ RecoverReturn(i)

Next == Write \/ Read \/ Collect

Spec == Init /\ [][Next]_vars
--------------------------------------------------------------------------------
GcSteps ==
    {"idle", "reaped", "scanned", "rooted", "signed", "planned", "reading", "journal", "moving",
     "recovering", "restoring", "rescanned", "rerooted", "returning"}

GcStates ==
    [pc : GcSteps, retention : Nat \ {0},
     pins : SUBSET Publications, pubs : SUBSET Publications,
     prepared : SUBSET Items, reach : SUBSET Items, todo : SUBSET Items,
     signature : {<<>>} \cup (Publications \X (SUBSET Publications) \X (SUBSET Publications))]

\* Types.
TypeOK ==
    /\ objects \subseteq Items
    /\ quarantine \subseteq Items
    /\ journals \subseteq SUBSET Items
    /\ chain \in Seq(Publications) /\ chain # <<>>
    /\ prepared \subseteq Publications
    /\ named \subseteq Publications
    /\ writer \in [pc : {"idle", "locked", "put", "raised", "prepared", "putting", "published"},
                   next : Publications]
    /\ reader \in [Readers -> [pc : {"idle", "read", "pinning", "pinned", "open"}, pub : Publications]]
    /\ pin \in [Readers -> {"none", "created", "locked", "unreadable", "unlinked", "lost"}]
    /\ gcLock \in {"free", "writer", "collector"}
    /\ pinLock \subseteq Readers \cup {"collector"}
    /\ gc \in GcStates
    /\ runs \in 0 .. MaxRuns
    /\ stops \in 0 .. MaxStops
    /\ exposed \in BOOLEAN

(* The golden rule of horizon_gc.py:6: what CURRENT, a pinned snapshot or   *)
(* a registered packet reaches is in objects/, at every step of a           *)
(* collection, of a recovery, and after either stops half way.              *)
GoldenRule ==
    ReachAll({Current} \cup Held) \cup PreparedItems \subseteq objects

(* The rule as the code keeps it (horizon_gc.py:908-967, 1020-1067): it     *)
(* breaks by one of the three overlaps, a recovery that sees every root     *)
(* restores it, and registered packets are never at risk.                   *)
GoldenRuleUnlessOverlapped ==
    /\ ~exposed => GoldenRule
    /\ PreparedItems \subseteq objects

(* Until it is published, or its writer stops, a packet finds its objects,  *)
(* registered or not yet (horizon_rotation.py:177, horizon_compaction.py:   *)
(* 371: the collector never sees them as orphans).                          *)
PacketIsWhole ==
    writer.pc \in {"put", "prepared"} => Packet(writer.next) \subseteq objects

(* Every quarantined object is in a journal, whatever step stopped: the     *)
(* journal alone says what recover_gc may bring back (horizon_gc.py:978).   *)
QuarantineIsJournaled == quarantine \subseteq Journaled

(* A recovery that ends has brought back every journaled object its roots   *)
(* reach, and taken back every other one (horizon_gc.py:1020), but for a    *)
(* record that a publication under way has put again.                       *)
RecoveryIsExact ==
    [][RecoverDone => /\ Journaled \cap gc.reach \subseteq objects
                      /\ (Journaled \ gc.reach) \cap objects
                           \subseteq (IF exposed THEN Publications ELSE {})]_vars

(* Nothing is ever deleted: an object leaves objects/ only for the          *)
(* quarantine, and the quarantine only for objects/ (horizon_gc.py:901).    *)
NothingDeleted ==
    [][objects \cup quarantine \subseteq objects' \cup quarantine']_vars
================================================================================
