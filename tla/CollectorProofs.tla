-------------------------- MODULE CollectorProofs --------------------------
(***************************************************************************)
(* Proofs about Collector, for any readers and retentions and any number   *)
(* of publications, runs and stops.                                        *)
(*                                                                         *)
(* AnyInv is inductive under every overlap: a registered packet keeps its  *)
(* objects, the quarantine is journaled, a recovery restores what its      *)
(* roots reach.  SafeInv is kept by every step that does not expose the    *)
(* roots, and holds again after a recovery that has seen them all.         *)
(***************************************************************************)
EXTENDS Collector, TLAPS

Listing == {"planned", "reading", "journal", "moving", "returning"}

(* Who holds which lock. *)
Locks ==
    /\ gcLock = "collector" <=> gc.pc # "idle"
    /\ writer.pc \in {"locked", "put", "raised"} => gcLock = "writer"
    /\ gc.pc \in {"reading", "journal", "moving", "restoring", "rescanned", "rerooted", "returning"}
         => pinLock = {"collector"}
    /\ \A r \in Readers : reader[r].pc \in {"read", "pinning", "pinned"} => r \in pinLock

(* Registered packets, and the collection that must not see them as orphans. *)
Packets ==
    /\ PreparedItems \subseteq objects
    /\ writer.pc = "put" => Packet(writer.next) \subseteq objects
    /\ writer.pc = "prepared" => writer.next \in prepared
    /\ gc.pc \in {"scanned", "rooted", "signed", "rescanned", "rerooted"}
         => PreparedItems \subseteq gc.prepared
    /\ gc.pc \in Listing => gc.todo \cap PreparedItems = {}

(* What is moved, or about to be, is in a journal. *)
Journals ==
    /\ quarantine \subseteq Journaled
    /\ gc.pc \in {"moving", "returning"} => gc.todo \subseteq Journaled

(* A reader that captures nothing has no pin file. *)
Pins == \A r \in Readers : reader[r].pc = "idle" => pin[r] = "none"

(* A recovery under way. *)
Recovering ==
    /\ Journaled \subseteq objects \cup quarantine
    /\ gc.pc \in {"planned", "reading", "journal", "moving"} => gc.todo \subseteq objects
    /\ gc.pc = "restoring" => Journaled \cap quarantine \subseteq gc.todo
    /\ gc.pc \in {"rescanned", "rerooted"} => Journaled \subseteq objects
    /\ gc.pc = "returning" =>
         /\ Journaled \cap gc.reach \subseteq objects
         /\ gc.todo \cap gc.reach = {}
         /\ (Journaled \ gc.reach) \cap objects \subseteq gc.todo \cup Publications

AnyInv == TypeOK /\ Locks /\ Packets /\ Journals /\ Pins /\ Recovering

(* What is, or may yet become, a root is whole. *)
RootsAreWhole ==
    /\ Reach(Current) \subseteq objects
    /\ ReachAll(Held) \subseteq objects
    /\ \A r \in Readers : reader[r].pc \in {"read", "pinning", "pinned"}
                            => Reach(reader[r].pub) \subseteq objects
    /\ writer.pc = "putting" => Reach(writer.next) \subseteq objects

(* What the collector has read covers the roots, up to the end of its moves. *)
PlanIsSafe ==
    /\ gc.pc \in Sweeping => writer.pc # "putting"
    /\ gc.pc = "signed" => {gc.signature[1]} \cup gc.signature[2] \subseteq gc.pubs
    /\ gc.pc \in {"signed", "planned", "reading"} => gc.signature # <<>>
    /\ gc.pc \in {"planned", "reading"} =>
         ReachAll({gc.signature[1]} \cup gc.signature[2]) \cap gc.todo = {}
    /\ gc.pc = "rescanned" => Held \subseteq gc.pins
    /\ gc.pc = "rerooted" => {Current} \cup Held \subseteq gc.pubs
    /\ gc.pc \in {"journal", "moving", "returning"} =>
         ReachAll({Current} \cup Held) \cap gc.todo = {}

(* What a recovery has still to take back is all that its roots do not reach. *)
ReturnIsExact ==
    gc.pc = "returning" => (Journaled \ gc.reach) \cap objects \subseteq gc.todo

SafeInv == RootsAreWhole /\ PlanIsSafe /\ ReturnIsExact

IInv == AnyInv /\ (~exposed => SafeInv)
--------------------------------------------------------------------------------
(* Types. *)

\* A publication reaches items, and so do the successors the writer makes of one.
LEMMA Reaches ==
    ASSUME NEW p \in Publications
    PROVE  /\ Contents(p) \subseteq Items
           /\ Reach(p) \subseteq Items
           /\ Packet(p) \subseteq Items
           /\ p \in Items
<1>1. Contents(p) \subseteq Items
  BY DEF Contents, Items, Publications, Base, Sealed
<1>2. Packet(p) \subseteq Items
  BY DEF Packet, Items, Publications, Base, Sealed
<1>3. p \in Items
  BY DEF Items
<1> QED
  BY <1>1, <1>2, <1>3 DEF Reach

LEMMA Successors ==
    ASSUME NEW p \in Publications, p.revision < MaxRevision
    PROVE  Committed(p) \in Publications /\ Rotated(p) \in Publications
           /\ Compacted(p) \in Publications
<1>1. p.revision + 1 \in Revisions /\ p.revision \in 0 .. MaxRevision /\ p.revision \in Revisions
  BY BoundsAssumption DEF Publications, Revisions
<1>2. Committed(p) \in Publications
  BY <1>1 DEF Committed, Publications
<1>3. Rotated(p) \in Publications
  BY <1>1 DEF Rotated, Publications
<1>4. Compacted(p) \in Publications
  BY <1>1 DEF Compacted, Publications
<1> QED
  BY <1>2, <1>3, <1>4

\* The parts of the roots are typed.
LEMMA RootsTyped ==
    ASSUME TypeOK
    PROVE  /\ Current \in Publications
           /\ LivePins \subseteq Publications
           /\ PreparedItems \subseteq Items
           /\ \A n \in Nat : Kept(n) \subseteq Publications
           /\ \A p \in Publications : Append(chain, p) \in Seq(Publications) \ {<<>>}
<1>1. Current \in Publications
  BY DEF TypeOK, Current
<1>2. LivePins \subseteq Publications
  BY DEF TypeOK, LivePins
<1>3. PreparedItems \subseteq Items
  BY Reaches DEF TypeOK, PreparedItems
<1>4. \A n \in Nat : Kept(n) \subseteq Publications
  BY DEF TypeOK, Kept
<1>5. \A p \in Publications : Append(chain, p) \in Seq(Publications) \ {<<>>}
  BY DEF TypeOK
<1> QED
  BY <1>1, <1>2, <1>3, <1>4, <1>5

LEMMA GenesisTyped ==
    Genesis \in Publications /\ Reach(Genesis) \subseteq Items
<1>1. Genesis \in Publications
  BY BoundsAssumption DEF Genesis, Publications, Revisions
<1> QED
  BY <1>1, Reaches

LEMMA InitTyped == Init => TypeOK
<1> SUFFICES ASSUME Init PROVE TypeOK
  OBVIOUS
<1>1. chain \in Seq(Publications) /\ chain # <<>>
  BY GenesisTyped DEF Init
<1>2. gc \in GcStates
  BY DEF Init, Idle, GcSteps, GcStates
<1>3. exposed \in BOOLEAN
  BY Zenon DEF Init
<1> QED
  BY <1>1, <1>2, <1>3, GenesisTyped, BoundsAssumption DEF Init, TypeOK, NoWriter, NoReader

LEMMA WriteTyped ==
    ASSUME TypeOK, Write
    PROVE  TypeOK'
<1> USE DEF TypeOK, disk, roots, readers
<1>1. CASE PutBatch
  BY RootsTyped, Successors, Reaches, <1>1 DEF PutBatch
<1>2. CASE PrepareLock
  BY RootsTyped, Successors, <1>2 DEF PrepareLock
<1>3. CASE PreparePut
  BY Reaches, <1>3 DEF PreparePut
<1>4. CASE PrepareRaises
  BY <1>4 DEF PrepareRaises
<1>5. CASE PrepareRegister
  BY <1>5 DEF PrepareRegister
<1>6. CASE PutMaintenance
  BY Reaches, <1>6 DEF PutMaintenance
<1>7. CASE RenameCurrent
  BY RootsTyped, GenesisTyped, <1>7 DEF RenameCurrent, NoWriter
<1>8. CASE Unregister
  BY GenesisTyped, <1>8 DEF Unregister, NoWriter
<1>9. CASE WriterStops
  BY BoundsAssumption, GenesisTyped, <1>9 DEF WriterStops, NoWriter
<1> QED
  BY <1>1, <1>2, <1>3, <1>4, <1>5, <1>6, <1>7, <1>8, <1>9 DEF Write

LEMMA ReadTyped ==
    ASSUME TypeOK, Read
    PROVE  TypeOK'
<1> USE DEF TypeOK, disk, roots, readers
<1>1. ASSUME NEW p \in named, UnpinNamed(p) PROVE TypeOK'
  BY <1>1 DEF UnpinNamed
<1>2. ASSUME NEW r \in Readers,
             \/ CaptureRead(r) \/ PinNamed(r) \/ PinCreate(r) \/ PinFlock(r)
             \/ CaptureOpen(r) \/ CloseView(r) \/ ReaderDies(r)
             \/ PinUnreadable(r) \/ PinReadable(r)
      PROVE  TypeOK'
  <2>1. CASE CaptureRead(r)
    BY RootsTyped, <2>1 DEF CaptureRead
  <2>2. CASE PinNamed(r)
    BY <2>2 DEF PinNamed
  <2>3. CASE PinCreate(r)
    BY <2>3 DEF PinCreate
  <2>4. CASE PinFlock(r)
    BY <2>4 DEF PinFlock
  <2>5. CASE CaptureOpen(r)
    BY GenesisTyped, <2>5 DEF CaptureOpen, NoReader
  <2>6. CASE CloseView(r)
    BY GenesisTyped, <2>6 DEF CloseView, NoReader
  <2>7. CASE ReaderDies(r)
    BY BoundsAssumption, GenesisTyped, <2>7 DEF ReaderDies, NoReader
  <2>8. CASE PinUnreadable(r)
    BY BoundsAssumption, <2>8 DEF PinUnreadable
  <2>9. CASE PinReadable(r)
    BY BoundsAssumption, <2>9 DEF PinReadable
  <2> QED
    BY <1>2, <2>1, <2>2, <2>3, <2>4, <2>5, <2>6, <2>7, <2>8, <2>9
<1> QED
  BY <1>1, <1>2 DEF Read

\* An idle collector is typed.
LEMMA IdleTyped ==
    ASSUME NEW n \in Nat \ {0}, NEW s \in GcSteps
    PROVE  Idle \in GcStates /\ [Idle EXCEPT !.pc = s, !.retention = n] \in GcStates
<1>1. Idle \in GcStates
  BY DEF Idle, GcStates, GcSteps
<1>2. \A g \in GcStates : [g EXCEPT !.pc = s, !.retention = n] \in GcStates
  BY DEF GcStates
<1> QED
  BY <1>1, <1>2

\* What publications reach is typed.
LEMMA ReachTyped ==
    \A ps \in SUBSET Publications : ReachAll(ps) \in SUBSET Items
  BY Reaches DEF ReachAll

\* A plan that a recovery completes.
LEMMA PlanMade ==
    ASSUME gc \in GcStates, RecoverPlan, ~Release
    PROVE  /\ gc'.pc = "returning"
           /\ gc'.reach = ReachAll(gc.pubs) \cup gc.prepared
           /\ gc'.todo = Journaled \ (ReachAll(gc.pubs) \cup gc.prepared)
           /\ ReachAll(gc.pubs) \subseteq objects
           /\ UNCHANGED <<disk, roots, writer, readers, gcLock, pinLock>>
<1> DEFINE reach == ReachAll(gc.pubs) \cup gc.prepared
<1>1. /\ gc' = [gc EXCEPT !.pc = "returning", !.pubs = {}, !.prepared = {}, !.reach = reach,
                          !.todo = Returned(reach)]
      /\ ReachAll(gc.pubs) \subseteq objects
      /\ UNCHANGED <<gcLock, pinLock>>
      /\ UNCHANGED <<disk, roots, writer, readers>>
  BY DEF RecoverPlan
<1>2. gc'.pc = "returning" /\ gc'.reach = reach /\ gc'.todo = Journaled \ reach
  <2> HIDE DEF reach
  <2> QED
    BY <1>1 DEF GcStates, Returned
<1> QED
  BY <1>1, <1>2

\* Where each other step of the collector leaves it.
LEMMA NextStep ==
    ASSUME gc \in GcStates
    PROVE  /\ GcScan => gc'.pc = "scanned"
           /\ GcRoots => gc'.pc \in {"rooted", "idle"}
           /\ GcSign => gc'.pc = "signed"
           /\ GcPlan => gc'.pc \in {"planned", "idle"}
           /\ GcLockPins => gc'.pc = "reading"
           /\ GcReread => gc'.pc \in {"journal", "idle"}
           /\ GcJournal => gc'.pc = "moving"
           /\ RecoverLockPins => gc'.pc = "restoring"
           /\ RecoverScan => gc'.pc = "rescanned"
           /\ RecoverRoots => gc'.pc \in {"rerooted", "idle"}
<1>r. Release => gc'.pc = "idle"
  BY DEF Release, Idle
<1>1. GcScan => gc'.pc = "scanned"
  BY DEF GcScan, GcStates
<1>2. GcRoots => gc'.pc \in {"rooted", "idle"}
  BY <1>r DEF GcRoots, GcStates
<1>3. GcSign => gc'.pc = "signed"
  BY DEF GcSign, GcStates
<1>4. GcPlan => gc'.pc \in {"planned", "idle"}
  BY <1>r DEF GcPlan, GcStates
<1>5. GcLockPins => gc'.pc = "reading"
  BY DEF GcLockPins, GcStates
<1>6. GcReread => gc'.pc \in {"journal", "idle"}
  BY <1>r DEF GcReread, GcStates
<1>7. GcJournal => gc'.pc = "moving"
  BY DEF GcJournal, GcStates
<1>8. RecoverLockPins => gc'.pc = "restoring"
  BY DEF RecoverLockPins, GcStates
<1>9. RecoverScan => gc'.pc = "rescanned"
  BY DEF RecoverScan, GcStates
<1>10. RecoverRoots => gc'.pc \in {"rerooted", "idle"}
  BY <1>r DEF RecoverRoots, GcStates
<1> QED
  BY <1>1, <1>2, <1>3, <1>4, <1>5, <1>6, <1>7, <1>8, <1>9, <1>10

\* The updates that the steps of the collector make.
LEMMA GcUpdates ==
    ASSUME gc \in GcStates
    PROVE  /\ Idle \in GcStates
           /\ \A s \in GcSteps :
                [gc EXCEPT !.pc = s] \in GcStates
           /\ \A is \in SUBSET Items :
                [gc EXCEPT !.todo = is] \in GcStates
           /\ \A s \in GcSteps, is \in SUBSET Items :
                [gc EXCEPT !.pc = s, !.todo = is] \in GcStates
           /\ \A s \in GcSteps :
                [gc EXCEPT !.pc = s, !.signature = <<>>] \in GcStates
           /\ \A s \in GcSteps, c \in Publications, ps, qs \in SUBSET Publications :
                [gc EXCEPT !.pc = s, !.signature = <<c, ps, qs>>] \in GcStates
           /\ \A s \in GcSteps, ps \in SUBSET Publications, is \in SUBSET Items :
                [gc EXCEPT !.pc = s, !.pins = ps, !.prepared = is] \in GcStates
           /\ \A s \in GcSteps, ps, qs \in SUBSET Publications :
                [gc EXCEPT !.pc = s, !.pins = ps, !.pubs = qs] \in GcStates
           /\ \A s \in GcSteps, ps \in SUBSET Publications, is, js \in SUBSET Items :
                [gc EXCEPT !.pc = s, !.pubs = ps, !.prepared = is, !.todo = js] \in GcStates
           /\ \A s \in GcSteps, ps \in SUBSET Publications, hs, is, js \in SUBSET Items :
                [gc EXCEPT !.pc = s, !.pubs = ps, !.prepared = hs, !.reach = is, !.todo = js]
                  \in GcStates
           /\ gc.pins \subseteq Publications /\ gc.pubs \subseteq Publications
           /\ gc.prepared \subseteq Items /\ gc.reach \subseteq Items /\ gc.todo \subseteq Items
           /\ gc.retention \in Nat \ {0}
<1>1. \A s \in GcSteps :
        [gc EXCEPT !.pc = s] \in GcStates
  BY DEF GcStates
<1>2. \A is \in SUBSET Items :
        [gc EXCEPT !.todo = is] \in GcStates
  BY DEF GcStates
<1>3. \A s \in GcSteps, is \in SUBSET Items :
        [gc EXCEPT !.pc = s, !.todo = is] \in GcStates
  BY DEF GcStates
<1>4. \A s \in GcSteps :
        [gc EXCEPT !.pc = s, !.signature = <<>>] \in GcStates
  BY DEF GcStates
<1>5. \A s \in GcSteps, c \in Publications, ps, qs \in SUBSET Publications :
        [gc EXCEPT !.pc = s, !.signature = <<c, ps, qs>>] \in GcStates
  BY DEF GcStates
<1>6. \A s \in GcSteps, ps \in SUBSET Publications, is \in SUBSET Items :
        [gc EXCEPT !.pc = s, !.pins = ps, !.prepared = is] \in GcStates
  BY DEF GcStates
<1>7. \A s \in GcSteps, ps, qs \in SUBSET Publications :
        [gc EXCEPT !.pc = s, !.pins = ps, !.pubs = qs] \in GcStates
  BY DEF GcStates
<1>8. \A s \in GcSteps, ps \in SUBSET Publications, is, js \in SUBSET Items :
        [gc EXCEPT !.pc = s, !.pubs = ps, !.prepared = is, !.todo = js] \in GcStates
  BY DEF GcStates
<1>9. \A s \in GcSteps, ps \in SUBSET Publications, hs, is, js \in SUBSET Items :
        [gc EXCEPT !.pc = s, !.pubs = ps, !.prepared = hs, !.reach = is, !.todo = js]
          \in GcStates
  BY DEF GcStates
<1>10. /\ gc.pins \subseteq Publications /\ gc.pubs \subseteq Publications
       /\ gc.prepared \subseteq Items /\ gc.reach \subseteq Items /\ gc.todo \subseteq Items
       /\ gc.retention \in Nat \ {0}
  BY DEF GcStates
<1>11. Idle \in GcStates
  BY DEF Idle, GcStates, GcSteps
<1> QED
  BY <1>1, <1>2, <1>3, <1>4, <1>5, <1>6, <1>7, <1>8, <1>9, <1>10, <1>11

LEMMA CollectTyped ==
    ASSUME TypeOK, Collect
    PROVE  TypeOK'
<1> USE DEF disk, roots, readers
<1>0. /\ gc \in GcStates
      /\ objects \subseteq Items
      /\ quarantine \subseteq Items
      /\ prepared \subseteq Publications
      /\ Journaled \subseteq Items
  BY DEF TypeOK, Journaled
<1>1. ASSUME NEW n \in Retentions, GcStart(n) PROVE TypeOK'
  <2>1. gc' \in GcStates
    BY <1>1, IdleTyped, RetentionsAssumption DEF GcStart, GcSteps
  <2> QED
    BY <2>1, <1>1, BoundsAssumption DEF GcStart, Reaped, TypeOK
<1>2. ASSUME NEW n \in Retentions, RecoverStart(n) PROVE TypeOK'
  <2>1. gc' \in GcStates
    BY <1>2, IdleTyped, RetentionsAssumption DEF RecoverStart, GcSteps
  <2> QED
    BY <2>1, <1>2, BoundsAssumption DEF RecoverStart, TypeOK
<1>3. CASE GcScan
  <2>1. gc' \in GcStates
    BY RootsTyped, GcUpdates, <1>0, <1>3 DEF GcScan, GcSteps
  <2> QED
    BY <2>1, <1>0, <1>3 DEF GcScan, TypeOK
<1>4. CASE GcRoots
  <2>1. gc' \in GcStates
    <3>1. {} \in SUBSET Publications /\ Kept(gc.retention) \cup gc.pins \in SUBSET Publications
      BY RootsTyped, GcUpdates, <1>0
    <3>2. [gc EXCEPT !.pc = "rooted", !.pins = {}, !.pubs = Kept(gc.retention) \cup gc.pins]
            \in GcStates
      BY <3>1, <1>0, GcUpdates DEF GcSteps
    <3> QED
      BY <3>2, GcUpdates, <1>0, <1>4 DEF GcRoots, Release
  <2> QED
    BY <2>1, <1>0, <1>4 DEF GcRoots, Release, TypeOK
<1>5. CASE GcSign
  <2>1. gc' \in GcStates
    BY RootsTyped, GcUpdates, <1>0, <1>5 DEF GcSign, Signature, GcSteps
  <2> QED
    BY <2>1, <1>0, <1>5 DEF GcSign, TypeOK
<1>6. CASE GcPlan
  <2>1. gc' \in GcStates
    <3>1. \A t \in SUBSET Items :
            [gc EXCEPT !.pc = "planned", !.pubs = {}, !.prepared = {}, !.todo = t] \in GcStates
      BY <1>0, GcUpdates DEF GcSteps
    <3> QED
      BY <3>1, GcUpdates, <1>0, <1>6 DEF GcPlan, Release
  <2> QED
    BY <2>1, <1>0, <1>6 DEF GcPlan, Release, TypeOK
<1>7. CASE GcLockPins
  <2>1. gc' \in GcStates
    BY GcUpdates, <1>0, <1>7 DEF GcLockPins, GcSteps
  <2> QED
    BY <2>1, <1>0, <1>7 DEF GcLockPins, TypeOK
<1>8. CASE GcReread
  <2>1. gc' \in GcStates
    BY GcUpdates, <1>0, <1>8 DEF GcReread, Release, GcSteps
  <2>2. exposed' \in BOOLEAN
    BY <1>8, Zenon DEF GcReread, TypeOK
  <2>3. UNCHANGED <<objects, quarantine, journals, chain, prepared, named, writer, reader, pin,
                    runs, stops>>
    BY <1>8 DEF GcReread, disk, roots, readers
  <2>4. gcLock' \in {gcLock, "free"} /\ pinLock' \subseteq pinLock
    BY <1>8 DEF GcReread, Release
  <2>5. gcLock' \in {"free", "writer", "collector"} /\ pinLock' \subseteq Readers \cup {"collector"}
    BY <2>4 DEF TypeOK
  <2> QED
    BY <2>1, <2>2, <2>3, <2>5 DEF TypeOK
<1>9. CASE GcJournal
  <2>1. gc' \in GcStates
    BY GcUpdates, <1>0, <1>9 DEF GcJournal, GcSteps
  <2>2. journals' \subseteq SUBSET Items
    BY <1>0, GcUpdates, <1>9 DEF GcJournal, TypeOK
  <2>3. UNCHANGED <<objects, quarantine, chain, prepared, named, writer, reader, pin, gcLock,
                    pinLock, runs, stops, exposed>>
    BY <1>9 DEF GcJournal
  <2> QED
    BY <2>1, <2>2, <2>3 DEF TypeOK
<1>10. CASE GcDone
  <2>1. gc' \in GcStates
    BY GcUpdates, <1>0, <1>10 DEF GcDone, Release, GcSteps
  <2> QED
    BY <2>1, <1>0, <1>10 DEF GcDone, Release, TypeOK
<1>11. CASE GcStops
  <2>1. gc' \in GcStates
    BY GcUpdates, <1>0, <1>11 DEF GcStops, Release, GcSteps
  <2> QED
    BY <2>1, <1>0, <1>11, BoundsAssumption DEF GcStops, Release, TypeOK
<1>12. CASE RecoverLockPins
  <2>1. gc' \in GcStates
    BY GcUpdates, <1>0, <1>12 DEF RecoverLockPins, GcSteps
  <2> QED
    BY <2>1, <1>0, <1>12 DEF RecoverLockPins, TypeOK
<1>13. CASE RecoverPlan
  <2>1. gc' \in GcStates
    <3> DEFINE reach == ReachAll(gc.pubs) \cup gc.prepared
    <3>1. reach \in SUBSET Items /\ Returned(reach) \in SUBSET Items
      BY ReachTyped, GcUpdates, <1>0 DEF Returned
    <3>2. [gc EXCEPT !.pc = "returning", !.pubs = {}, !.prepared = {}, !.reach = reach,
                     !.todo = Returned(reach)] \in GcStates
      <4> HIDE DEF reach
      <4>1. {} \in SUBSET Publications /\ {} \in SUBSET Items /\ "returning" \in GcSteps
        BY DEF GcSteps
      <4> QED
        BY <3>1, <4>1, <1>0, GcUpdates
    <3> QED
      BY <3>2, GcUpdates, <1>0, <1>13 DEF RecoverPlan, Release
  <2>2. exposed' \in BOOLEAN
    BY <1>13 DEF RecoverPlan, TypeOK
  <2> QED
    BY <2>1, <2>2, <1>0, <1>13 DEF RecoverPlan, Release, TypeOK
<1>14. CASE RecoverDone
  <2>1. gc' \in GcStates
    BY GcUpdates, <1>0, <1>14 DEF RecoverDone, Release, GcSteps
  <2> QED
    BY <2>1, <1>0, <1>14 DEF RecoverDone, Release, TypeOK
<1>15. ASSUME NEW i \in gc.todo, GcMove(i) PROVE TypeOK'
  <2>1. gc' \in GcStates /\ i \in Items
    BY GcUpdates, <1>0, <1>15 DEF GcMove
  <2> QED
    BY <2>1, <1>15 DEF GcMove, TypeOK
<1>16. ASSUME NEW i \in gc.todo, RecoverRestore(i) PROVE TypeOK'
  <2>1. gc' \in GcStates /\ i \in Items
    BY GcUpdates, <1>0, <1>16 DEF RecoverRestore
  <2> QED
    BY <2>1, <1>16 DEF RecoverRestore, TypeOK
<1>17. ASSUME NEW i \in gc.todo, RecoverReturn(i) PROVE TypeOK'
  <2>1. gc' \in GcStates /\ i \in Items
    BY GcUpdates, <1>0, <1>17 DEF RecoverReturn
  <2> QED
    BY <2>1, <1>17 DEF RecoverReturn, TypeOK
<1>18. CASE RecoverScan
  <2>1. gc' \in GcStates
    BY RootsTyped, GcUpdates, <1>0, <1>18 DEF RecoverScan, GcSteps
  <2> QED
    BY <2>1, <1>0, <1>18 DEF RecoverScan, TypeOK
<1>19. CASE RecoverRoots
  <2>1. gc' \in GcStates
    <3>1. {} \in SUBSET Publications /\ Kept(gc.retention) \cup gc.pins \in SUBSET Publications
      BY RootsTyped, GcUpdates, <1>0
    <3>2. [gc EXCEPT !.pc = "rerooted", !.pins = {}, !.pubs = Kept(gc.retention) \cup gc.pins]
            \in GcStates
      BY <3>1, <1>0, GcUpdates DEF GcSteps
    <3> QED
      BY <3>2, GcUpdates, <1>0, <1>19 DEF RecoverRoots, Release
  <2>2. exposed' \in BOOLEAN
    BY <1>19 DEF RecoverRoots, TypeOK
  <2> QED
    BY <2>1, <2>2, <1>0, <1>19 DEF RecoverRoots, Release, TypeOK
<1> QED
  BY <1>1, <1>2, <1>3, <1>4, <1>5, <1>6, <1>7, <1>8, <1>9, <1>10, <1>11, <1>12, <1>13, <1>14,
     <1>15, <1>16, <1>17, <1>18, <1>19 DEF Collect

(* Every variable keeps its type: no schedule, stop or raise leaves a lock, a pin or  *)
(* the collector in a step the code does not have.                                   *)
THEOREM Typed == Spec => []TypeOK
<1>1. TypeOK /\ [Next]_vars => TypeOK'
  <2> SUFFICES ASSUME TypeOK, [Next]_vars PROVE TypeOK'
    OBVIOUS
  <2>1. CASE UNCHANGED vars
    BY <2>1 DEF vars, disk, roots, readers, TypeOK
  <2> QED
    BY <2>1, WriteTyped, ReadTyped, CollectTyped DEF Next
<1> QED
  BY <1>1, InitTyped, PTL DEF Spec
--------------------------------------------------------------------------------
(* Locks. *)

LEMMA LocksStep ==
    ASSUME TypeOK, Locks, [Next]_vars
    PROVE  Locks'
<1> USE DEF disk, roots, readers
<1>0. /\ gc \in GcStates
      /\ writer \in [pc : {"idle", "locked", "put", "raised", "prepared", "putting", "published"},
                     next : Publications]
      /\ DOMAIN reader = Readers
      /\ \A r \in Readers : reader[r] = [pc |-> reader[r].pc, pub |-> reader[r].pub]
  BY DEF TypeOK
<1>r. ASSUME Release, gc.pc # "idle", UNCHANGED <<writer, reader>> PROVE Locks'
  BY <1>0, <1>r, ReadersAssumption DEF Release, Idle, Locks
<1>1. ASSUME Write PROVE Locks'
  <2>1. CASE PutBatch
    BY <1>0, ReadersAssumption, <2>1 DEF PutBatch, Locks, GcStates
  <2>2. CASE PrepareLock
    BY <1>0, ReadersAssumption, <2>2 DEF PrepareLock, Locks, GcStates
  <2>3. CASE PreparePut
    BY <1>0, ReadersAssumption, <2>3 DEF PreparePut, Locks, GcStates
  <2>4. CASE PrepareRaises
    BY <1>0, ReadersAssumption, <2>4 DEF PrepareRaises, Locks, GcStates
  <2>5. CASE PrepareRegister
    BY <1>0, ReadersAssumption, <2>5 DEF PrepareRegister, Locks, GcStates
  <2>6. CASE PutMaintenance
    BY <1>0, ReadersAssumption, <2>6 DEF PutMaintenance, Locks, GcStates
  <2>7. CASE RenameCurrent
    BY <1>0, ReadersAssumption, <2>7 DEF RenameCurrent, NoWriter, Locks, GcStates
  <2>8. CASE Unregister
    BY <1>0, ReadersAssumption, <2>8 DEF Unregister, NoWriter, Locks, GcStates
  <2>9. CASE WriterStops
    BY <1>0, ReadersAssumption, <2>9 DEF WriterStops, NoWriter, Locks, GcStates
  <2> QED
    BY <1>1, <2>1, <2>2, <2>3, <2>4, <2>5, <2>6, <2>7, <2>8, <2>9 DEF Write
<1>2. ASSUME NEW p \in named, UnpinNamed(p) PROVE Locks'
  BY <1>0, ReadersAssumption, <1>2 DEF UnpinNamed, Locks, GcStates
<1>3. ASSUME NEW r \in Readers,
             \/ CaptureRead(r) \/ PinNamed(r) \/ PinCreate(r) \/ PinFlock(r)
             \/ CaptureOpen(r) \/ CloseView(r) \/ ReaderDies(r)
             \/ PinUnreadable(r) \/ PinReadable(r)
      PROVE  Locks'
  <2>1. CASE CaptureRead(r)
    BY <1>0, ReadersAssumption, <2>1 DEF CaptureRead, Locks, GcStates
  <2>2. CASE PinNamed(r)
    BY <1>0, ReadersAssumption, <2>2 DEF PinNamed, Locks, GcStates
  <2>3. CASE PinCreate(r)
    BY <1>0, ReadersAssumption, <2>3 DEF PinCreate, Locks, GcStates
  <2>4. CASE PinFlock(r)
    BY <1>0, ReadersAssumption, <2>4 DEF PinFlock, Locks, GcStates
  <2>5. CASE CaptureOpen(r)
    BY <1>0, ReadersAssumption, <2>5 DEF CaptureOpen, NoReader, Locks, GcStates
  <2>6. CASE CloseView(r)
    BY <1>0, ReadersAssumption, <2>6 DEF CloseView, NoReader, Locks, GcStates
  <2>7. CASE ReaderDies(r)
    BY <1>0, ReadersAssumption, <2>7 DEF ReaderDies, NoReader, Locks, GcStates
  <2>8. CASE PinUnreadable(r)
    BY <1>0, ReadersAssumption, <2>8 DEF PinUnreadable, Locks, GcStates
  <2>9. CASE PinReadable(r)
    BY <1>0, ReadersAssumption, <2>9 DEF PinReadable, Locks, GcStates
  <2> QED
    BY <1>3, <2>1, <2>2, <2>3, <2>4, <2>5, <2>6, <2>7, <2>8, <2>9
<1>4. ASSUME Collect PROVE Locks'
  <2>1. ASSUME NEW n \in Retentions, GcStart(n) PROVE Locks'
    BY <1>0, ReadersAssumption, <2>1 DEF GcStart, Idle, Locks, GcStates
  <2>2. ASSUME NEW n \in Retentions, RecoverStart(n) PROVE Locks'
    BY <1>0, ReadersAssumption, <2>2 DEF RecoverStart, Idle, Locks, GcStates
  <2>3. CASE GcScan
    BY <1>0, ReadersAssumption, <2>3 DEF GcScan, Locks, GcStates
  <2>4. CASE GcRoots
    <3>1. CASE Release
      BY <1>r, <3>1, <2>4 DEF GcRoots
    <3>2. CASE ~Release
      <4>1. gc'.pc = "rooted" /\ UNCHANGED <<gcLock, pinLock>>
        BY <1>0, <3>2, <2>4 DEF GcRoots, GcStates
      <4> QED
        BY <4>1, <1>0, ReadersAssumption, <2>4 DEF GcRoots, Locks
    <3> QED
      BY <3>1, <3>2
  <2>5. CASE GcSign
    BY <1>0, ReadersAssumption, <2>5 DEF GcSign, Locks, GcStates
  <2>6. CASE GcPlan
    <3>1. CASE Release
      BY <1>r, <3>1, <2>6 DEF GcPlan
    <3>2. CASE ~Release
      <4>1. gc'.pc = "planned" /\ UNCHANGED <<gcLock, pinLock>>
        BY <1>0, <3>2, <2>6 DEF GcPlan, GcStates
      <4> QED
        BY <4>1, <1>0, ReadersAssumption, <2>6 DEF GcPlan, Locks
    <3> QED
      BY <3>1, <3>2
  <2>7. CASE GcLockPins
    BY <1>0, ReadersAssumption, <2>7 DEF GcLockPins, Locks, GcStates
  <2>8. CASE GcReread
    <3>1. CASE Release
      BY <1>r, <3>1, <2>8 DEF GcReread
    <3>2. CASE ~Release
      <4>1. gc'.pc = "journal" /\ UNCHANGED <<gcLock, pinLock>>
        BY <1>0, <3>2, <2>8 DEF GcReread, GcStates
      <4> QED
        BY <4>1, <1>0, ReadersAssumption, <2>8 DEF GcReread, Locks
    <3> QED
      BY <3>1, <3>2
  <2>9. CASE GcJournal
    BY <1>0, ReadersAssumption, <2>9 DEF GcJournal, Locks, GcStates
  <2>10. CASE GcDone
    BY <1>0, ReadersAssumption, <2>10 DEF GcDone, Release, Idle, Locks, GcStates
  <2>11. CASE GcStops
    BY <1>0, ReadersAssumption, <2>11 DEF GcStops, Release, Idle, Locks, GcStates
  <2>12. CASE RecoverLockPins
    BY <1>0, ReadersAssumption, <2>12 DEF RecoverLockPins, Locks, GcStates
  <2>13. CASE RecoverPlan
    <3>1. CASE Release
      BY <1>r, <3>1, <2>13 DEF RecoverPlan
    <3>2. CASE ~Release
      <4>1. gc'.pc = "returning" /\ UNCHANGED <<gcLock, pinLock>>
        BY <1>0, <3>2, <2>13 DEF RecoverPlan, GcStates
      <4> QED
        BY <4>1, <1>0, ReadersAssumption, <2>13 DEF RecoverPlan, Locks
    <3> QED
      BY <3>1, <3>2
  <2>14. CASE RecoverDone
    BY <1>0, ReadersAssumption, <2>14 DEF RecoverDone, Release, Idle, Locks, GcStates
  <2>15. ASSUME NEW i \in gc.todo, GcMove(i) PROVE Locks'
    BY <1>0, ReadersAssumption, <2>15 DEF GcMove, Locks, GcStates
  <2>16. ASSUME NEW i \in gc.todo, RecoverRestore(i) PROVE Locks'
    BY <1>0, ReadersAssumption, <2>16 DEF RecoverRestore, Locks, GcStates
  <2>17. ASSUME NEW i \in gc.todo, RecoverReturn(i) PROVE Locks'
    BY <1>0, ReadersAssumption, <2>17 DEF RecoverReturn, Locks, GcStates
  <2>18. CASE RecoverScan
    BY <1>0, ReadersAssumption, <2>18 DEF RecoverScan, Locks, GcStates
  <2>19. CASE RecoverRoots
    <3>1. CASE Release
      BY <1>r, <3>1, <2>19 DEF RecoverRoots
    <3>2. CASE ~Release
      <4>1. gc'.pc = "rerooted" /\ UNCHANGED <<gcLock, pinLock>>
        BY <1>0, <3>2, <2>19 DEF RecoverRoots, GcStates
      <4> QED
        BY <4>1, <1>0, ReadersAssumption, <2>19 DEF RecoverRoots, Locks
    <3> QED
      BY <3>1, <3>2
  <2> QED
    BY <1>4, <2>1, <2>2, <2>3, <2>4, <2>5, <2>6, <2>7, <2>8, <2>9, <2>10, <2>11, <2>12, <2>13,
       <2>14, <2>15, <2>16, <2>17, <2>18, <2>19 DEF Collect
<1>5. CASE UNCHANGED vars
  BY <1>0, ReadersAssumption, <1>5 DEF vars, Locks, GcStates
<1> QED
  BY <1>1, <1>2, <1>3, <1>4, <1>5 DEF Next, Read
--------------------------------------------------------------------------------
(* Packets. *)

LEMMA PacketsStep ==
    ASSUME TypeOK, Locks, Packets, [Next]_vars
    PROVE  Packets'
<1> USE DEF disk, roots, readers
<1>0. /\ gc \in GcStates
      /\ writer \in [pc : {"idle", "locked", "put", "raised", "prepared", "putting", "published"},
                     next : Publications]
  BY DEF TypeOK
<1>p. /\ prepared' = prepared => PreparedItems' = PreparedItems
      /\ prepared' \subseteq prepared => PreparedItems' \subseteq PreparedItems
  BY DEF PreparedItems
<1>r. ASSUME Release, UNCHANGED <<objects, prepared, writer>> PROVE Packets'
  BY <1>0, <1>p, <1>r DEF Release, Idle, Packets, Listing
<1>1. ASSUME Write PROVE Packets'
  <2>1. CASE PutBatch
    BY <1>0, <1>p, <2>1 DEF PutBatch, Packets, Locks, Listing, GcStates
  <2>2. CASE PrepareLock
    BY <1>0, <1>p, <2>2 DEF PrepareLock, Packets, Locks, Listing, GcStates
  <2>3. CASE PreparePut
    BY <1>0, <1>p, <2>3 DEF PreparePut, Packets, Locks, Listing, GcStates
  <2>4. CASE PrepareRaises
    BY <1>0, <1>p, <2>4 DEF PrepareRaises, Packets, Locks, Listing, GcStates
  <2>5. CASE PrepareRegister
    <3>1. PreparedItems' = PreparedItems \cup Packet(writer.next)
      BY <2>5 DEF PrepareRegister, PreparedItems
    <3>2. gc.pc = "idle"
      BY <2>5, <1>0 DEF PrepareRegister, Locks
    <3> QED
      BY <1>0, <3>1, <3>2, <2>5 DEF PrepareRegister, Packets, Listing
  <2>6. CASE PutMaintenance
    BY <1>0, <1>p, <2>6 DEF PutMaintenance, Packets, Locks, Listing, GcStates
  <2>7. CASE RenameCurrent
    BY <1>0, <1>p, <2>7 DEF RenameCurrent, NoWriter, Packets, Locks, Listing, GcStates
  <2>8. CASE Unregister
    BY <1>0, <1>p, <2>8 DEF Unregister, NoWriter, Packets, Locks, Listing, GcStates
  <2>9. CASE WriterStops
    BY <1>0, <1>p, <2>9 DEF WriterStops, NoWriter, Packets, Locks, Listing, GcStates
  <2> QED
    BY <1>1, <2>1, <2>2, <2>3, <2>4, <2>5, <2>6, <2>7, <2>8, <2>9 DEF Write
<1>2. ASSUME NEW p \in named, UnpinNamed(p) PROVE Packets'
  BY <1>0, <1>p, <1>2 DEF UnpinNamed, Packets, Locks, Listing, GcStates
<1>3. ASSUME NEW r \in Readers,
             \/ CaptureRead(r) \/ PinNamed(r) \/ PinCreate(r) \/ PinFlock(r)
             \/ CaptureOpen(r) \/ CloseView(r) \/ ReaderDies(r)
             \/ PinUnreadable(r) \/ PinReadable(r)
      PROVE  Packets'
  <2>1. CASE CaptureRead(r)
    BY <1>0, <1>p, <2>1 DEF CaptureRead, Packets, Locks, Listing, GcStates
  <2>2. CASE PinNamed(r)
    BY <1>0, <1>p, <2>2 DEF PinNamed, Packets, Locks, Listing, GcStates
  <2>3. CASE PinCreate(r)
    BY <1>0, <1>p, <2>3 DEF PinCreate, Packets, Locks, Listing, GcStates
  <2>4. CASE PinFlock(r)
    BY <1>0, <1>p, <2>4 DEF PinFlock, Packets, Locks, Listing, GcStates
  <2>5. CASE CaptureOpen(r)
    BY <1>0, <1>p, <2>5 DEF CaptureOpen, NoReader, Packets, Locks, Listing, GcStates
  <2>6. CASE CloseView(r)
    BY <1>0, <1>p, <2>6 DEF CloseView, NoReader, Packets, Locks, Listing, GcStates
  <2>7. CASE ReaderDies(r)
    BY <1>0, <1>p, <2>7 DEF ReaderDies, NoReader, Packets, Locks, Listing, GcStates
  <2>8. CASE PinUnreadable(r)
    BY <1>0, <1>p, <2>8 DEF PinUnreadable, Packets, Locks, Listing, GcStates
  <2>9. CASE PinReadable(r)
    BY <1>0, <1>p, <2>9 DEF PinReadable, Packets, Locks, Listing, GcStates
  <2> QED
    BY <1>3, <2>1, <2>2, <2>3, <2>4, <2>5, <2>6, <2>7, <2>8, <2>9
<1>4. ASSUME Collect PROVE Packets'
  <2>1. ASSUME NEW n \in Retentions, GcStart(n) PROVE Packets'
    BY <1>0, <1>p, <2>1 DEF GcStart, Idle, Packets, Locks, Listing, GcStates
  <2>2. ASSUME NEW n \in Retentions, RecoverStart(n) PROVE Packets'
    BY <1>0, <1>p, <2>2 DEF RecoverStart, Idle, Packets, Locks, Listing, GcStates
  <2>3. CASE GcScan
    BY <1>0, <1>p, <2>3 DEF GcScan, Packets, Locks, Listing, GcStates
  <2>4. CASE GcRoots
    <3>1. CASE Release
      BY <1>r, <3>1, <2>4 DEF GcRoots
    <3>2. CASE ~Release
      <4>1. gc'.pc = "rooted" /\ UNCHANGED <<gcLock, pinLock>>
        BY <1>0, <3>2, <2>4 DEF GcRoots, GcStates
      <4> QED
        BY <3>2, <4>1, <1>0, <1>p, <2>4 DEF GcRoots, Packets, Listing, GcStates
    <3> QED
      BY <3>1, <3>2
  <2>5. CASE GcSign
    BY <1>0, <1>p, <2>5 DEF GcSign, Packets, Locks, Listing, GcStates
  <2>6. CASE GcPlan
    <3>1. CASE Release
      BY <1>r, <3>1, <2>6 DEF GcPlan
    <3>2. CASE ~Release
      <4>1. gc'.pc = "planned" /\ UNCHANGED <<gcLock, pinLock>>
        BY <1>0, <3>2, <2>6 DEF GcPlan, GcStates
      <4>2. gc'.todo \cap gc.prepared = {}
        <5>1. gc' = [gc EXCEPT !.pc = "planned", !.pubs = {}, !.prepared = {},
                       !.todo = objects \ (ReachAll(gc.pubs) \cup gc.prepared)]
          BY <3>2, <2>6 DEF GcPlan
        <5> QED
          BY <5>1, <1>0 DEF GcStates
      <4> QED
        BY <3>2, <4>1, <4>2, <1>0, <1>p, <2>6 DEF GcPlan, Packets, Listing, GcStates
    <3> QED
      BY <3>1, <3>2
  <2>7. CASE GcLockPins
    BY <1>0, <1>p, <2>7 DEF GcLockPins, Packets, Locks, Listing, GcStates
  <2>8. CASE GcReread
    <3>1. CASE Release
      BY <1>r, <3>1, <2>8 DEF GcReread
    <3>2. CASE ~Release
      <4>1. gc'.pc = "journal" /\ UNCHANGED <<gcLock, pinLock>>
        BY <1>0, <3>2, <2>8 DEF GcReread, GcStates
      <4> QED
        BY <3>2, <4>1, <1>0, <1>p, <2>8 DEF GcReread, Packets, Listing, GcStates
    <3> QED
      BY <3>1, <3>2
  <2>9. CASE GcJournal
    BY <1>0, <1>p, <2>9 DEF GcJournal, Packets, Locks, Listing, GcStates
  <2>10. CASE GcDone
    BY <1>0, <1>p, <2>10 DEF GcDone, Release, Idle, Packets, Locks, Listing, GcStates
  <2>11. CASE GcStops
    BY <1>0, <1>p, <2>11 DEF GcStops, Release, Idle, Packets, Locks, Listing, GcStates
  <2>12. CASE RecoverLockPins
    BY <1>0, <1>p, <2>12 DEF RecoverLockPins, Packets, Locks, Listing, GcStates
  <2>13. CASE RecoverPlan
    <3>1. CASE Release
      BY <1>r, <3>1, <2>13 DEF RecoverPlan
    <3>2. CASE ~Release
      <4>1. /\ gc'.pc = "returning" /\ UNCHANGED <<gcLock, pinLock>>
            /\ gc'.todo \cap gc.prepared = {}
        BY <1>0, <3>2, <2>13, PlanMade DEF RecoverPlan, Packets
      <4> QED
        BY <4>1, <1>0, <1>p, <2>13 DEF RecoverPlan, Packets, Listing
    <3> QED
      BY <3>1, <3>2
  <2>14. CASE RecoverDone
    BY <1>0, <1>p, <2>14 DEF RecoverDone, Release, Idle, Packets, Locks, Listing, GcStates
  <2>15. ASSUME NEW i \in gc.todo, GcMove(i) PROVE Packets'
    BY <1>0, <1>p, <2>15 DEF GcMove, Packets, Locks, Listing, GcStates
  <2>16. ASSUME NEW i \in gc.todo, RecoverRestore(i) PROVE Packets'
    BY <1>0, <1>p, <2>16 DEF RecoverRestore, Packets, Locks, Listing, GcStates
  <2>17. ASSUME NEW i \in gc.todo, RecoverReturn(i) PROVE Packets'
    BY <1>0, <1>p, <2>17 DEF RecoverReturn, Packets, Locks, Listing, GcStates
  <2>18. CASE RecoverScan
    BY <1>0, <1>p, <2>18 DEF RecoverScan, Packets, Locks, Listing, GcStates
  <2>19. CASE RecoverRoots
    <3>1. CASE Release
      BY <1>r, <3>1, <2>19 DEF RecoverRoots
    <3>2. CASE ~Release
      <4>1. gc'.pc = "rerooted" /\ UNCHANGED <<gcLock, pinLock>>
        BY <1>0, <3>2, <2>19 DEF RecoverRoots, GcStates
      <4> QED
        BY <3>2, <4>1, <1>0, <1>p, <2>19 DEF RecoverRoots, Packets, Listing, GcStates
    <3> QED
      BY <3>1, <3>2
  <2> QED
    BY <1>4, <2>1, <2>2, <2>3, <2>4, <2>5, <2>6, <2>7, <2>8, <2>9, <2>10, <2>11, <2>12, <2>13,
       <2>14, <2>15, <2>16, <2>17, <2>18, <2>19 DEF Collect
<1>5. CASE UNCHANGED vars
  BY <1>0, <1>p, <1>5 DEF vars, Packets, Locks, Listing, GcStates
<1> QED
  BY <1>1, <1>2, <1>3, <1>4, <1>5 DEF Next, Read
--------------------------------------------------------------------------------
(* Journals. *)

LEMMA JournalsStep ==
    ASSUME TypeOK, Journals, [Next]_vars
    PROVE  Journals'
<1> USE DEF disk, roots, readers
<1>0. gc \in GcStates
  BY DEF TypeOK
<1>p. journals' = journals => Journaled' = Journaled
  BY DEF Journaled
<1>r. ASSUME Release, UNCHANGED <<journals, quarantine>> PROVE Journals'
  BY <1>0, <1>p, <1>r DEF Release, Idle, Journals
<1>1. ASSUME Write PROVE Journals'
  <2>1. CASE PutBatch
    BY <1>0, <1>p, <2>1 DEF PutBatch, Journals, GcStates
  <2>2. CASE PrepareLock
    BY <1>0, <1>p, <2>2 DEF PrepareLock, Journals, GcStates
  <2>3. CASE PreparePut
    BY <1>0, <1>p, <2>3 DEF PreparePut, Journals, GcStates
  <2>4. CASE PrepareRaises
    BY <1>0, <1>p, <2>4 DEF PrepareRaises, Journals, GcStates
  <2>5. CASE PrepareRegister
    BY <1>0, <1>p, <2>5 DEF PrepareRegister, Journals, GcStates
  <2>6. CASE PutMaintenance
    BY <1>0, <1>p, <2>6 DEF PutMaintenance, Journals, GcStates
  <2>7. CASE RenameCurrent
    BY <1>0, <1>p, <2>7 DEF RenameCurrent, NoWriter, Journals, GcStates
  <2>8. CASE Unregister
    BY <1>0, <1>p, <2>8 DEF Unregister, NoWriter, Journals, GcStates
  <2>9. CASE WriterStops
    BY <1>0, <1>p, <2>9 DEF WriterStops, NoWriter, Journals, GcStates
  <2> QED
    BY <1>1, <2>1, <2>2, <2>3, <2>4, <2>5, <2>6, <2>7, <2>8, <2>9 DEF Write
<1>2. ASSUME NEW p \in named, UnpinNamed(p) PROVE Journals'
  BY <1>0, <1>p, <1>2 DEF UnpinNamed, Journals, GcStates
<1>3. ASSUME NEW r \in Readers,
             \/ CaptureRead(r) \/ PinNamed(r) \/ PinCreate(r) \/ PinFlock(r)
             \/ CaptureOpen(r) \/ CloseView(r) \/ ReaderDies(r)
             \/ PinUnreadable(r) \/ PinReadable(r)
      PROVE  Journals'
  <2>1. CASE CaptureRead(r)
    BY <1>0, <1>p, <2>1 DEF CaptureRead, Journals, GcStates
  <2>2. CASE PinNamed(r)
    BY <1>0, <1>p, <2>2 DEF PinNamed, Journals, GcStates
  <2>3. CASE PinCreate(r)
    BY <1>0, <1>p, <2>3 DEF PinCreate, Journals, GcStates
  <2>4. CASE PinFlock(r)
    BY <1>0, <1>p, <2>4 DEF PinFlock, Journals, GcStates
  <2>5. CASE CaptureOpen(r)
    BY <1>0, <1>p, <2>5 DEF CaptureOpen, NoReader, Journals, GcStates
  <2>6. CASE CloseView(r)
    BY <1>0, <1>p, <2>6 DEF CloseView, NoReader, Journals, GcStates
  <2>7. CASE ReaderDies(r)
    BY <1>0, <1>p, <2>7 DEF ReaderDies, NoReader, Journals, GcStates
  <2>8. CASE PinUnreadable(r)
    BY <1>0, <1>p, <2>8 DEF PinUnreadable, Journals, GcStates
  <2>9. CASE PinReadable(r)
    BY <1>0, <1>p, <2>9 DEF PinReadable, Journals, GcStates
  <2> QED
    BY <1>3, <2>1, <2>2, <2>3, <2>4, <2>5, <2>6, <2>7, <2>8, <2>9
<1>4. ASSUME Collect PROVE Journals'
  <2>1. ASSUME NEW n \in Retentions, GcStart(n) PROVE Journals'
    BY <1>0, <1>p, <2>1 DEF GcStart, Idle, Journals, GcStates
  <2>2. ASSUME NEW n \in Retentions, RecoverStart(n) PROVE Journals'
    BY <1>0, <1>p, <2>2 DEF RecoverStart, Idle, Journals, GcStates
  <2>3. CASE GcScan
    BY <1>0, <1>p, <2>3 DEF GcScan, Journals, GcStates
  <2>4. CASE GcRoots
    <3>1. CASE Release
      BY <1>r, <3>1, <2>4 DEF GcRoots
    <3>2. CASE ~Release
      <4>1. gc'.pc = "rooted" /\ UNCHANGED <<gcLock, pinLock>>
        BY <1>0, <3>2, <2>4 DEF GcRoots, GcStates
      <4> QED
        BY <3>2, <4>1, <1>0, <1>p, <2>4 DEF GcRoots, Journals, GcStates
    <3> QED
      BY <3>1, <3>2
  <2>5. CASE GcSign
    BY <1>0, <1>p, <2>5 DEF GcSign, Journals, GcStates
  <2>6. CASE GcPlan
    <3>1. CASE Release
      BY <1>r, <3>1, <2>6 DEF GcPlan
    <3>2. CASE ~Release
      <4>1. gc'.pc = "planned" /\ UNCHANGED <<gcLock, pinLock>>
        BY <1>0, <3>2, <2>6 DEF GcPlan, GcStates
      <4> QED
        BY <3>2, <4>1, <1>0, <1>p, <2>6 DEF GcPlan, Journals, GcStates
    <3> QED
      BY <3>1, <3>2
  <2>7. CASE GcLockPins
    BY <1>0, <1>p, <2>7 DEF GcLockPins, Journals, GcStates
  <2>8. CASE GcReread
    <3>1. CASE Release
      BY <1>r, <3>1, <2>8 DEF GcReread
    <3>2. CASE ~Release
      <4>1. gc'.pc = "journal" /\ UNCHANGED <<gcLock, pinLock>>
        BY <1>0, <3>2, <2>8 DEF GcReread, GcStates
      <4> QED
        BY <3>2, <4>1, <1>0, <1>p, <2>8 DEF GcReread, Journals, GcStates
    <3> QED
      BY <3>1, <3>2
  <2>9. CASE GcJournal
    <3>1. Journaled' = Journaled \cup gc.todo
      BY <2>9 DEF GcJournal, Journaled
    <3> QED
      BY <1>0, <3>1, <2>9 DEF GcJournal, Journals, GcStates
  <2>10. CASE GcDone
    BY <1>0, <1>p, <2>10 DEF GcDone, Release, Idle, Journals, GcStates
  <2>11. CASE GcStops
    BY <1>0, <1>p, <2>11 DEF GcStops, Release, Idle, Journals, GcStates
  <2>12. CASE RecoverLockPins
    BY <1>0, <1>p, <2>12 DEF RecoverLockPins, Journals, GcStates
  <2>13. CASE RecoverPlan
    <3>1. CASE Release
      BY <1>r, <3>1, <2>13 DEF RecoverPlan
    <3>2. CASE ~Release
      <4>1. gc'.pc = "returning" /\ gc'.todo \subseteq Journaled
        BY <1>0, <3>2, <2>13, PlanMade
      <4> QED
        BY <4>1, <1>0, <1>p, <2>13 DEF RecoverPlan, Journals
    <3> QED
      BY <3>1, <3>2
  <2>14. CASE RecoverDone
    BY <1>0, <1>p, <2>14 DEF RecoverDone, Release, Idle, Journals, GcStates
  <2>15. ASSUME NEW i \in gc.todo, GcMove(i) PROVE Journals'
    BY <1>0, <1>p, <2>15 DEF GcMove, Journals, GcStates
  <2>16. ASSUME NEW i \in gc.todo, RecoverRestore(i) PROVE Journals'
    BY <1>0, <1>p, <2>16 DEF RecoverRestore, Journals, GcStates
  <2>17. ASSUME NEW i \in gc.todo, RecoverReturn(i) PROVE Journals'
    BY <1>0, <1>p, <2>17 DEF RecoverReturn, Journals, GcStates
  <2>18. CASE RecoverScan
    BY <1>0, <1>p, <2>18 DEF RecoverScan, Journals, GcStates
  <2>19. CASE RecoverRoots
    <3>1. CASE Release
      BY <1>r, <3>1, <2>19 DEF RecoverRoots
    <3>2. CASE ~Release
      <4>1. gc'.pc = "rerooted" /\ UNCHANGED <<gcLock, pinLock>>
        BY <1>0, <3>2, <2>19 DEF RecoverRoots, GcStates
      <4> QED
        BY <3>2, <4>1, <1>0, <1>p, <2>19 DEF RecoverRoots, Journals, GcStates
    <3> QED
      BY <3>1, <3>2
  <2> QED
    BY <1>4, <2>1, <2>2, <2>3, <2>4, <2>5, <2>6, <2>7, <2>8, <2>9, <2>10, <2>11, <2>12, <2>13,
       <2>14, <2>15, <2>16, <2>17, <2>18, <2>19 DEF Collect
<1>5. CASE UNCHANGED vars
  BY <1>0, <1>p, <1>5 DEF vars, Journals, GcStates
<1> QED
  BY <1>1, <1>2, <1>3, <1>4, <1>5 DEF Next, Read

--------------------------------------------------------------------------------
(* Steps, by what they leave alone. *)

\* A step only adds to the store, or moves between it and the quarantine.
LEMMA KeepsAll ==
    ASSUME [Next]_vars
    PROVE  objects \cup quarantine \subseteq objects' \cup quarantine'
<1> USE DEF disk, roots, readers
<1>1. CASE Write
  BY <1>1 DEF Write, PutBatch, PrepareLock, PreparePut, PrepareRaises, PrepareRegister,
     PutMaintenance, RenameCurrent, Unregister, WriterStops
<1>2. CASE Read
  BY <1>2 DEF Read, CaptureRead, PinNamed, PinCreate, PinFlock, CaptureOpen, CloseView,
     ReaderDies, PinUnreadable, PinReadable, UnpinNamed
<1>3. CASE Collect
  BY <1>3 DEF Collect, GcStart, RecoverStart, GcScan, GcRoots, GcSign, GcPlan, GcLockPins,
     GcReread, GcJournal, GcDone, GcStops, RecoverLockPins, RecoverScan, RecoverRoots, RecoverPlan, RecoverDone, GcMove,
     RecoverRestore, RecoverReturn
<1>4. CASE UNCHANGED vars
  BY <1>4 DEF vars
<1> QED
  BY <1>1, <1>2, <1>3, <1>4 DEF Next

Capturing(r) == reader[r].pc \in {"read", "pinning", "pinned"}

\* The writer adds to the store, only publications while a collector runs, and
\* moves CURRENT only to the publication it has put.
LEMMA WriteMoves ==
    ASSUME TypeOK, Locks, Write
    PROVE  /\ UNCHANGED <<quarantine, journals, readers, named, gc>>
           /\ objects \subseteq objects'
           /\ gc.pc # "idle" => objects' \subseteq objects \cup Publications
           /\ writer'.pc # "putting" /\ gc.pc # "idle" => objects' = objects
           /\ Current' = Current \/ (writer.pc = "putting" /\ Current' = writer.next)
           /\ writer'.pc = "putting" => Current' = Current
           /\ writer'.pc = "putting" /\ Reach(Current) \subseteq objects
                => Reach(writer'.next) \subseteq objects'
           /\ ~exposed' => ~exposed /\ (writer'.pc = "putting" => gc.pc \notin Sweeping)
<1> USE DEF disk, roots, readers
<1>0. /\ writer \in [pc : {"idle", "locked", "put", "raised", "prepared", "putting", "published"},
                     next : Publications]
      /\ Current \in Publications
      /\ UNCHANGED chain => Current' = Current
  BY RootsTyped DEF TypeOK, Current
<1>1. CASE PutBatch
  <2>1. Committed(Current) \in Publications
    BY <1>0, <1>1, Successors DEF PutBatch
  <2>2. Reach(Committed(Current)) = {Committed(Current)} \cup Contents(Current)
    BY <1>0 DEF Committed, Reach, Contents, Publications
  <2> QED
    BY <1>0, <1>1, <2>1, <2>2 DEF PutBatch, PutIsMissed, Reach
<1>2. CASE PrepareLock
  BY <1>0, <1>2 DEF PrepareLock
<1>3. CASE PreparePut
  BY <1>0, <1>3 DEF PreparePut, Locks
<1>4. CASE PrepareRaises
  BY <1>0, <1>4 DEF PrepareRaises
<1>5. CASE PrepareRegister
  BY <1>0, <1>5 DEF PrepareRegister
<1>6. CASE PutMaintenance
  BY <1>0, <1>6 DEF PutMaintenance, PutIsMissed, Reach
<1>7. CASE RenameCurrent
  <2>1. Current' = writer.next
    BY <1>0, <1>7 DEF RenameCurrent, Current, TypeOK
  <2> QED
    BY <1>0, <1>7, <2>1 DEF RenameCurrent, NoWriter
<1>8. CASE Unregister
  BY <1>0, <1>8 DEF Unregister, NoWriter
<1>9. CASE WriterStops
  BY <1>0, <1>9 DEF WriterStops, NoWriter
<1> QED
  BY <1>1, <1>2, <1>3, <1>4, <1>5, <1>6, <1>7, <1>8, <1>9 DEF Write

\* A reader captures CURRENT, and comes to hold no more than what it captures.
LEMMA ReadMoves ==
    ASSUME TypeOK, Pins, Read
    PROVE  /\ UNCHANGED <<disk, chain, writer, gc, exposed>>
           /\ \/ Held' \subseteq Held
              \/ \E r \in Readers : Capturing(r) /\ Held' \subseteq Held \cup {reader[r].pub}
           /\ \A q \in Readers : Capturing(q)' =>
                \/ reader'[q].pub = Current
                \/ Capturing(q) /\ reader'[q].pub = reader[q].pub
<1> USE DEF roots, readers
<1>0. /\ reader \in [Readers -> [pc : {"idle", "read", "pinning", "pinned", "open"},
                                 pub : Publications]]
      /\ pin \in [Readers -> {"none", "created", "locked", "unreadable", "unlinked", "lost"}]
  BY DEF TypeOK
<1>1. ASSUME NEW p \in named, UnpinNamed(p)
      PROVE  /\ UNCHANGED <<disk, chain, writer, gc, exposed, reader>>
             /\ Held' \subseteq Held
  BY <1>1 DEF UnpinNamed, Held
<1>2. ASSUME NEW r \in Readers,
             \/ CaptureRead(r) \/ PinCreate(r) \/ CaptureOpen(r) \/ CloseView(r) \/ ReaderDies(r)
             \/ PinUnreadable(r) \/ PinReadable(r)
      PROVE  /\ UNCHANGED <<disk, chain, writer, gc, exposed>>
             /\ Held' \subseteq Held
             /\ \A q \in Readers : Capturing(q)' =>
                  \/ reader'[q].pub = Current
                  \/ Capturing(q) /\ reader'[q].pub = reader[q].pub
  <2>1. /\ UNCHANGED <<disk, chain, writer, gc, exposed, named>>
        /\ pin'[r] \in {"locked", "unreadable", "lost"}
             => pin[r] \in {"locked", "unreadable", "lost"} /\ reader'[r].pub = reader[r].pub
        /\ reader'[r].pc \in {"read", "pinning", "pinned"} =>
             \/ reader'[r].pub = Current
             \/ reader[r].pc \in {"read", "pinning", "pinned"} /\ reader'[r].pub = reader[r].pub
        /\ \A q \in Readers \ {r} : pin'[q] = pin[q] /\ reader'[q] = reader[q]
    <3>1. CASE CaptureRead(r)
      BY <1>0, <3>1 DEF CaptureRead, Pins
    <3>2. CASE PinCreate(r)
      BY <1>0, <3>2 DEF PinCreate
    <3>3. CASE CaptureOpen(r)
      BY <1>0, <3>3 DEF CaptureOpen, NoReader
    <3>4. CASE CloseView(r)
      BY <1>0, <3>4 DEF CloseView, NoReader
    <3>5. CASE ReaderDies(r)
      BY <1>0, <3>5 DEF ReaderDies, NoReader
    <3>6. CASE PinUnreadable(r)
      BY <1>0, <3>6 DEF PinUnreadable
    <3>7. CASE PinReadable(r)
      BY <1>0, <3>7 DEF PinReadable
    <3> QED
      BY <1>2, <3>1, <3>2, <3>3, <3>4, <3>5, <3>6, <3>7
  <2>2. Held' \subseteq Held
    BY <2>1 DEF Held
  <2> QED
    BY <2>1, <2>2 DEF Capturing
<1>3. ASSUME NEW r \in Readers, PinNamed(r) \/ PinFlock(r)
      PROVE  /\ UNCHANGED <<disk, chain, writer, gc, exposed>>
             /\ Capturing(r) /\ Held' \subseteq Held \cup {reader[r].pub}
             /\ \A q \in Readers : Capturing(q)' => Capturing(q) /\ reader'[q].pub = reader[q].pub
  <2>1. /\ UNCHANGED <<disk, chain, writer, gc, exposed>>
        /\ named' \subseteq named \cup {reader[r].pub}
        /\ reader'[r].pub = reader[r].pub /\ reader[r].pc \in {"read", "pinning", "pinned"}
        /\ \A q \in Readers \ {r} : pin'[q] = pin[q] /\ reader'[q] = reader[q]
    BY <1>0, <1>3 DEF PinNamed, PinFlock
  <2>2. Held' \subseteq Held \cup {reader[r].pub}
    BY <2>1 DEF Held
  <2> QED
    BY <2>1, <2>2 DEF Capturing
<1>4. CASE \E p \in named : UnpinNamed(p)
  BY <1>1, <1>4 DEF Capturing
<1>5. CASE \E r \in Readers : PinNamed(r) \/ PinFlock(r)
  BY <1>3, <1>5
<1>6. CASE \E r \in Readers :
             \/ CaptureRead(r) \/ PinCreate(r) \/ CaptureOpen(r) \/ CloseView(r) \/ ReaderDies(r)
             \/ PinUnreadable(r) \/ PinReadable(r)
  BY <1>2, <1>6
<1> QED
  BY <1>4, <1>5, <1>6 DEF Read

\* The collector leaves the roots alone; it takes from the store only what it
\* has to move.
LEMMA CollectMoves ==
    ASSUME TypeOK, Collect
    PROVE  /\ UNCHANGED <<chain, writer, reader, named>>
           /\ Current' = Current /\ Held' = Held
           /\ \/ objects \subseteq objects'
              \/ /\ gc.pc \in {"moving", "returning"}
                 /\ \E i \in gc.todo : objects' = objects \ {i}
<1> USE DEF disk, roots, readers
<1>0. /\ UNCHANGED chain => Current' = Current
      /\ UNCHANGED <<named, reader, pin>> => Held' = Held
      /\ pin \in [Readers -> {"none", "created", "locked", "unreadable", "unlinked", "lost"}]
  BY DEF TypeOK, Current, Held
<1>1. ASSUME NEW n \in Retentions, GcStart(n)
      PROVE  UNCHANGED <<chain, writer, reader, named, objects>> /\ Held' = Held
  <2>1. /\ UNCHANGED <<chain, writer, reader, named, objects>>
        /\ \A r \in Readers : pin'[r] = Reaped(pin[r])
    BY <1>1 DEF GcStart
  <2>2. \A r \in Readers : pin'[r] \in {"locked", "unreadable", "lost"}
                            <=> pin[r] \in {"locked", "unreadable", "lost"}
    BY <1>0, <2>1 DEF Reaped
  <2> QED
    BY <2>1, <2>2 DEF Held
<1>2. ASSUME NEW i \in gc.todo, GcMove(i) \/ RecoverReturn(i)
      PROVE  /\ UNCHANGED <<chain, writer, reader, named, pin>>
             /\ gc.pc \in {"moving", "returning"} /\ objects' = objects \ {i}
  BY <1>2 DEF GcMove, RecoverReturn
<1>3. ASSUME Collect, ~\E n \in Retentions : GcStart(n),
             ~\E i \in gc.todo : GcMove(i) \/ RecoverReturn(i)
      PROVE  UNCHANGED <<chain, writer, reader, named, pin>> /\ objects \subseteq objects'
  BY <1>3 DEF Collect, RecoverStart, GcScan, GcRoots, GcSign, GcPlan, GcLockPins, GcReread,
     GcJournal, GcDone, GcStops, RecoverLockPins, RecoverScan, RecoverRoots, RecoverPlan,
     RecoverDone, RecoverRestore
<1> QED
  BY <1>0, <1>1, <1>2, <1>3
--------------------------------------------------------------------------------
(* Pins and recoveries. *)

LEMMA PinsStep ==
    ASSUME TypeOK, Pins, [Next]_vars
    PROVE  Pins'
<1> USE DEF disk, roots, readers
<1>0. /\ reader \in [Readers -> [pc : {"idle", "read", "pinning", "pinned", "open"},
                                 pub : Publications]]
      /\ pin \in [Readers -> {"none", "created", "locked", "unreadable", "unlinked", "lost"}]
  BY DEF TypeOK
<1>1. ASSUME Write PROVE Pins'
  <2>1. CASE PutBatch
    BY <1>0, <2>1 DEF PutBatch, Pins
  <2>2. CASE PrepareLock
    BY <1>0, <2>2 DEF PrepareLock, Pins
  <2>3. CASE PreparePut
    BY <1>0, <2>3 DEF PreparePut, Pins
  <2>4. CASE PrepareRaises
    BY <1>0, <2>4 DEF PrepareRaises, Pins
  <2>5. CASE PrepareRegister
    BY <1>0, <2>5 DEF PrepareRegister, Pins
  <2>6. CASE PutMaintenance
    BY <1>0, <2>6 DEF PutMaintenance, Pins
  <2>7. CASE RenameCurrent
    BY <1>0, <2>7 DEF RenameCurrent, NoWriter, Pins
  <2>8. CASE Unregister
    BY <1>0, <2>8 DEF Unregister, NoWriter, Pins
  <2>9. CASE WriterStops
    BY <1>0, <2>9 DEF WriterStops, NoWriter, Pins
  <2> QED
    BY <1>1, <2>1, <2>2, <2>3, <2>4, <2>5, <2>6, <2>7, <2>8, <2>9 DEF Write
<1>2. ASSUME NEW p \in named, UnpinNamed(p) PROVE Pins'
  BY <1>0, <1>2 DEF UnpinNamed, Pins
<1>3. ASSUME NEW r \in Readers,
             \/ CaptureRead(r) \/ PinNamed(r) \/ PinCreate(r) \/ PinFlock(r)
             \/ CaptureOpen(r) \/ CloseView(r) \/ ReaderDies(r)
             \/ PinUnreadable(r) \/ PinReadable(r)
      PROVE  Pins'
  <2>1. CASE CaptureRead(r)
    BY <1>0, <2>1 DEF CaptureRead, Pins
  <2>2. CASE PinNamed(r)
    BY <1>0, <2>2 DEF PinNamed, Pins
  <2>3. CASE PinCreate(r)
    BY <1>0, <2>3 DEF PinCreate, Pins
  <2>4. CASE PinFlock(r)
    BY <1>0, <2>4 DEF PinFlock, Pins
  <2>5. CASE CaptureOpen(r)
    BY <1>0, <2>5 DEF CaptureOpen, NoReader, Pins
  <2>6. CASE CloseView(r)
    BY <1>0, <2>6 DEF CloseView, NoReader, Pins
  <2>7. CASE ReaderDies(r)
    BY <1>0, <2>7 DEF ReaderDies, NoReader, Pins
  <2>8. CASE PinUnreadable(r)
    BY <1>0, <2>8 DEF PinUnreadable, Pins
  <2>9. CASE PinReadable(r)
    BY <1>0, <2>9 DEF PinReadable, Pins
  <2> QED
    BY <1>3, <2>1, <2>2, <2>3, <2>4, <2>5, <2>6, <2>7, <2>8, <2>9
<1>4. ASSUME Collect PROVE Pins'
  <2>1. ASSUME NEW n \in Retentions, GcStart(n) PROVE Pins'
    BY <1>0, <2>1 DEF GcStart, Reaped, Pins
  <2>2. ASSUME NEW n \in Retentions, RecoverStart(n) PROVE Pins'
    BY <1>0, <2>2 DEF RecoverStart, Idle, Pins
  <2>3. CASE GcScan
    BY <1>0, <2>3 DEF GcScan, Pins
  <2>4. CASE GcRoots
    BY <1>0, <2>4 DEF GcRoots, Pins
  <2>5. CASE GcSign
    BY <1>0, <2>5 DEF GcSign, Pins
  <2>6. CASE GcPlan
    BY <1>0, <2>6 DEF GcPlan, Pins
  <2>7. CASE GcLockPins
    BY <1>0, <2>7 DEF GcLockPins, Pins
  <2>8. CASE GcReread
    BY <1>0, <2>8 DEF GcReread, Pins
  <2>9. CASE GcJournal
    BY <1>0, <2>9 DEF GcJournal, Pins
  <2>10. CASE GcDone
    BY <1>0, <2>10 DEF GcDone, Pins
  <2>11. CASE GcStops
    BY <1>0, <2>11 DEF GcStops, Pins
  <2>12. CASE RecoverLockPins
    BY <1>0, <2>12 DEF RecoverLockPins, Pins
  <2>13. CASE RecoverPlan
    BY <1>0, <2>13 DEF RecoverPlan, Pins
  <2>14. CASE RecoverDone
    BY <1>0, <2>14 DEF RecoverDone, Pins
  <2>15. ASSUME NEW i \in gc.todo, GcMove(i) PROVE Pins'
    BY <1>0, <2>15 DEF GcMove, Pins
  <2>16. ASSUME NEW i \in gc.todo, RecoverRestore(i) PROVE Pins'
    BY <1>0, <2>16 DEF RecoverRestore, Pins
  <2>17. ASSUME NEW i \in gc.todo, RecoverReturn(i) PROVE Pins'
    BY <1>0, <2>17 DEF RecoverReturn, Pins
  <2>18. CASE RecoverScan
    BY <1>0, <2>18 DEF RecoverScan, Pins
  <2>19. CASE RecoverRoots
    BY <1>0, <2>19 DEF RecoverRoots, Pins
  <2> QED
    BY <1>4, <2>1, <2>2, <2>3, <2>4, <2>5, <2>6, <2>7, <2>8, <2>9, <2>10, <2>11, <2>12, <2>13,
       <2>14, <2>15, <2>16, <2>17, <2>18, <2>19 DEF Collect
<1>5. CASE UNCHANGED vars
  BY <1>0, <1>5 DEF vars, Pins
<1> QED
  BY <1>1, <1>2, <1>3, <1>4, <1>5 DEF Next, Read

LEMMA RecoveringStep ==
    ASSUME TypeOK, Locks, Pins, Journals, Recovering, [Next]_vars
    PROVE  Recovering'
<1> USE DEF disk, roots, readers
<1>0. /\ gc \in GcStates
      /\ objects \cup quarantine \subseteq objects' \cup quarantine'
      /\ UNCHANGED journals => Journaled' = Journaled
  BY KeepsAll DEF TypeOK, Journaled
<1>r. ASSUME gc'.pc \in {"idle", "reaped", "scanned", "rooted", "signed", "recovering"},
             UNCHANGED journals
      PROVE  Recovering'
  BY <1>0, <1>r DEF Recovering
<1>t. ASSUME UNCHANGED <<gc, journals, quarantine>>, objects \subseteq objects',
             gc.pc = "returning" => objects' \subseteq objects \cup Publications
      PROVE  Recovering'
  BY <1>0, <1>t DEF Recovering
<1>1. ASSUME Write PROVE Recovering'
  BY <1>1, <1>t, WriteMoves
<1>2. ASSUME Read PROVE Recovering'
  BY <1>2, <1>t, ReadMoves
<1>4. ASSUME Collect PROVE Recovering'
  <2>1. ASSUME NEW n \in Retentions, GcStart(n) PROVE Recovering'
    BY <1>r, <2>1 DEF GcStart, Idle
  <2>2. ASSUME NEW n \in Retentions, RecoverStart(n) PROVE Recovering'
    BY <1>r, <2>2 DEF RecoverStart, Idle
  <2>3. CASE GcScan
    BY <1>0, <1>r, <2>3 DEF GcScan, GcStates
  <2>4. CASE GcRoots
    <3>1. CASE Release
      BY <1>r, <3>1, <2>4 DEF GcRoots, Release, Idle
    <3>2. CASE ~Release
      <4>1. gc' = [gc EXCEPT !.pc = "rooted", !.pins = {}, !.pubs = Kept(gc.retention) \cup gc.pins]
        BY <3>2, <2>4 DEF GcRoots
      <4> QED
        BY <1>0, <1>r, <4>1, <2>4 DEF GcRoots, GcStates
    <3> QED
      BY <3>1, <3>2
  <2>5. CASE GcSign
    BY <1>0, <1>r, <2>5 DEF GcSign, GcStates
  <2>6. CASE GcPlan
    <3>1. CASE Release
      BY <1>r, <3>1, <2>6 DEF GcPlan, Release, Idle
    <3>2. CASE ~Release
      <4>1. gc' = [gc EXCEPT !.pc = "planned", !.pubs = {}, !.prepared = {},
                      !.todo = objects \ (ReachAll(gc.pubs) \cup gc.prepared)]
        BY <3>2, <2>6 DEF GcPlan
      <4>2. gc'.pc = "planned" /\ gc'.todo \subseteq objects
        BY <4>1, <1>0 DEF GcStates
      <4> QED
        BY <1>0, <4>2, <2>6 DEF GcPlan, Recovering
    <3> QED
      BY <3>1, <3>2
  <2>7. CASE GcLockPins
    BY <1>0, <2>7 DEF GcLockPins, Recovering, GcStates
  <2>8. CASE GcReread
    <3>1. CASE Release
      BY <1>r, <3>1, <2>8 DEF GcReread, Release, Idle
    <3>2. CASE ~Release
      <4>1. gc' = [gc EXCEPT !.pc = "journal", !.signature = <<>>]
        BY <3>2, <2>8 DEF GcReread
      <4>2. gc'.pc = "journal" /\ gc'.todo = gc.todo
        BY <4>1, <1>0 DEF GcStates
      <4> QED
        BY <1>0, <4>2, <2>8 DEF GcReread, Recovering
    <3> QED
      BY <3>1, <3>2
  <2>9. CASE GcJournal
    <3>1. Journaled' = Journaled \cup gc.todo
      BY <2>9 DEF GcJournal, Journaled
    <3> QED
      BY <1>0, <3>1, <2>9 DEF GcJournal, Recovering, GcStates
  <2>10. CASE GcDone
    BY <1>r, <2>10 DEF GcDone, Release, Idle
  <2>11. CASE GcStops
    BY <1>r, <2>11 DEF GcStops, Release, Idle
  <2>12. CASE RecoverLockPins
    BY <1>0, <2>12 DEF RecoverLockPins, Recovering, GcStates
  <2>13. CASE RecoverPlan
    <3> DEFINE reach == ReachAll(gc.pubs) \cup gc.prepared
    <3>1. CASE Release
      BY <1>r, <3>1, <2>13 DEF RecoverPlan, Release, Idle
    <3>2. CASE ~Release
      <4>1. gc' = [gc EXCEPT !.pc = "returning", !.pubs = {}, !.prepared = {}, !.reach = reach,
                             !.todo = Returned(reach)]
        BY <3>2, <2>13 DEF RecoverPlan
      <4> HIDE DEF reach
      <4>2. gc'.pc = "returning" /\ gc'.reach = reach /\ gc'.todo = Journaled \ reach
        BY <4>1, <1>0 DEF GcStates, Returned
      <4>3. Journaled \subseteq objects
        BY <1>0, <2>13 DEF RecoverPlan, Recovering
      <4>4. UNCHANGED <<objects, journals, quarantine>>
        BY <2>13 DEF RecoverPlan
      <4> QED
        BY <1>0, <4>2, <4>3, <4>4 DEF Recovering
    <3> QED
      BY <3>1, <3>2
  <2>14. CASE RecoverDone
    BY <1>r, <2>14 DEF RecoverDone, Release, Idle
  <2>15. ASSUME NEW i \in gc.todo, GcMove(i) PROVE Recovering'
    BY <1>0, <2>15 DEF GcMove, Recovering, GcStates
  <2>16. ASSUME NEW i \in gc.todo, RecoverRestore(i) PROVE Recovering'
    BY <1>0, <2>16 DEF RecoverRestore, Recovering, GcStates
  <2>17. ASSUME NEW i \in gc.todo, RecoverReturn(i) PROVE Recovering'
    BY <1>0, <2>17 DEF RecoverReturn, Recovering, GcStates
  <2>18. CASE RecoverScan
    <3>1. gc'.pc = "rescanned" /\ gc.pc = "restoring" /\ gc.todo = {}
      BY <1>0, <2>18 DEF RecoverScan, GcStates
    <3> QED
      BY <1>0, <3>1, <2>18 DEF RecoverScan, Recovering
  <2>19. CASE RecoverRoots
    <3>1. CASE Release
      BY <1>r, <3>1, <2>19 DEF RecoverRoots, Release, Idle
    <3>2. CASE ~Release
      <4>1. gc' = [gc EXCEPT !.pc = "rerooted", !.pins = {}, !.pubs = Kept(gc.retention) \cup gc.pins]
        BY <3>2, <2>19 DEF RecoverRoots
      <4>2. gc'.pc = "rerooted" /\ gc.pc = "rescanned"
        BY <4>1, <1>0, <2>19 DEF RecoverRoots, GcStates
      <4> QED
        BY <1>0, <4>2, <2>19 DEF RecoverRoots, Recovering
    <3> QED
      BY <3>1, <3>2
  <2> QED
    BY <1>4, <2>1, <2>2, <2>3, <2>4, <2>5, <2>6, <2>7, <2>8, <2>9, <2>10, <2>11, <2>12, <2>13,
       <2>14, <2>15, <2>16, <2>17, <2>18, <2>19 DEF Collect
<1>5. CASE UNCHANGED vars
  BY <1>0, <1>t, <1>5 DEF vars
<1> QED
  BY <1>1, <1>2, <1>4, <1>5 DEF Next
--------------------------------------------------------------------------------
(* What holds under every overlap. *)

LEMMA InitAny == Init => AnyInv
<1> SUFFICES ASSUME Init PROVE AnyInv
  OBVIOUS
<1>1. PreparedItems = {} /\ Journaled = {}
  BY DEF Init, PreparedItems, Journaled
<1> QED
  BY <1>1, InitTyped DEF Init, AnyInv, Locks, Packets, Journals, Pins, Recovering, Listing,
     Idle, NoWriter, NoReader

LEMMA AnyStep == AnyInv /\ [Next]_vars => AnyInv'
<1> SUFFICES ASSUME AnyInv, [Next]_vars PROVE AnyInv'
  OBVIOUS
<1>1. TypeOK'
  <2>1. CASE UNCHANGED vars
    BY <2>1 DEF vars, disk, roots, readers, TypeOK, AnyInv
  <2> QED
    BY <2>1, WriteTyped, ReadTyped, CollectTyped DEF Next, AnyInv
<1> QED
  BY <1>1, LocksStep, PacketsStep, JournalsStep, PinsStep, RecoveringStep DEF AnyInv

LEMMA AnyHolds == Spec => []AnyInv
  BY InitAny, AnyStep, PTL DEF Spec

(* Until it is published, or its writer stops, a packet finds its objects, whatever     *)
(* the collector does: .gc.lock keeps it out until the packet is registered, and then   *)
(* a scan that precedes any plan has seen the packet.                                     *)
THEOREM PacketsAreWhole == Spec => []PacketIsWhole
<1>1. AnyInv => PacketIsWhole
  BY DEF AnyInv, Packets, PacketIsWhole, PreparedItems
<1> QED
  BY <1>1, AnyHolds, PTL

(* The quarantine holds only what a journal lists, at every stop of a collection or of   *)
(* a recovery.                                                                             *)
THEOREM QuarantineJournaled == Spec => []QuarantineIsJournaled
<1>1. AnyInv => QuarantineIsJournaled
  BY DEF AnyInv, Journals, QuarantineIsJournaled
<1> QED
  BY <1>1, AnyHolds, PTL

(* Nothing is ever deleted, whatever overlaps, stops or raises: no step of the writer,   *)
(* of a reader, of the collector or of a recovery takes an object out of both places.      *)
THEOREM NothingIsDeleted == Spec => NothingDeleted
<1>1. [Next]_vars => [objects \cup quarantine \subseteq objects' \cup quarantine']_vars
  BY KeepsAll
<1> QED
  BY <1>1, PTL DEF Spec, NothingDeleted
--------------------------------------------------------------------------------
(* Roots. *)

LEMMA ReachAllOver ==
    /\ \A ps, qs : ps \subseteq qs => ReachAll(ps) \subseteq ReachAll(qs)
    /\ \A ps, p : ReachAll(ps \cup {p}) = ReachAll(ps) \cup Reach(p)
    /\ \A ps, p : ReachAll({p} \cup ps) = ReachAll(ps) \cup Reach(p)
  BY DEF ReachAll

LEMMA RootsStep ==
    ASSUME AnyInv, SafeInv, [Next]_vars
    PROVE  RootsAreWhole'
<1>0. TypeOK /\ Locks /\ Pins /\ RootsAreWhole /\ PlanIsSafe
  BY DEF AnyInv, SafeInv
<1>1. ASSUME Write PROVE RootsAreWhole'
  <2>1. UNCHANGED <<reader, pin, named>> /\ objects \subseteq objects'
    BY <1>0, <1>1, WriteMoves DEF readers
  <2>2. Held' = Held
    BY <2>1 DEF Held
  <2>3. /\ Current' = Current \/ (writer.pc = "putting" /\ Current' = writer.next)
        /\ writer'.pc = "putting" /\ Reach(Current) \subseteq objects
             => Reach(writer'.next) \subseteq objects'
    BY <1>0, <1>1, WriteMoves
  <2>4. Reach(Current') \subseteq objects'
    BY <1>0, <2>1, <2>3 DEF RootsAreWhole
  <2> QED
    BY <1>0, <2>1, <2>2, <2>3, <2>4 DEF RootsAreWhole
<1>2. ASSUME Read PROVE RootsAreWhole'
  <2>1. UNCHANGED <<objects, writer>> /\ Current' = Current
    BY <1>0, <1>2, ReadMoves DEF disk, Current
  <2>2. ReachAll(Held') \subseteq objects
    <3>1. CASE Held' \subseteq Held
      BY <1>0, <3>1, ReachAllOver DEF RootsAreWhole
    <3>2. ASSUME NEW r \in Readers, Capturing(r), Held' \subseteq Held \cup {reader[r].pub}
          PROVE  ReachAll(Held') \subseteq objects
      <4>1. Reach(reader[r].pub) \subseteq objects
        BY <1>0, <3>2 DEF RootsAreWhole, Capturing
      <4>2. ReachAll(Held') \subseteq ReachAll(Held) \cup Reach(reader[r].pub)
        BY <3>2 DEF ReachAll
      <4> QED
        BY <1>0, <4>1, <4>2 DEF RootsAreWhole
    <3> QED
      BY <1>0, <1>2, <3>1, <3>2, ReadMoves
  <2>3. \A r \in Readers : Capturing(r)' => Reach(reader'[r].pub) \subseteq objects
    <3>1. \A r \in Readers : Capturing(r) => Reach(reader[r].pub) \subseteq objects
      BY <1>0 DEF RootsAreWhole, Capturing
    <3>2. Reach(Current) \subseteq objects
      BY <1>0 DEF RootsAreWhole
    <3> QED
      BY <1>0, <1>2, <3>1, <3>2, ReadMoves
  <2> QED
    BY <1>0, <2>1, <2>2, <2>3 DEF RootsAreWhole, Capturing
<1>3. ASSUME Collect PROVE RootsAreWhole'
  <2>1. UNCHANGED <<writer, reader>> /\ Current' = Current /\ Held' = Held
    BY <1>0, <1>3, CollectMoves
  <2>2. CASE objects \subseteq objects'
    BY <1>0, <2>1, <2>2 DEF RootsAreWhole
  <2>3. ASSUME NEW i \in gc.todo, gc.pc \in {"moving", "returning"}, objects' = objects \ {i}
        PROVE  RootsAreWhole'
    <3>1. i \notin Reach(Current) /\ i \notin ReachAll(Held)
      BY <1>0, <2>3, ReachAllOver DEF PlanIsSafe
    <3>2. writer.pc # "putting"
      BY <1>0, <2>3 DEF PlanIsSafe, Sweeping
    <3>3. \A r \in Readers : reader[r].pc \notin {"read", "pinning", "pinned"}
      BY <1>0, <2>3, ReadersAssumption DEF Locks
    <3> QED
      BY <1>0, <2>1, <2>3, <3>1, <3>2, <3>3 DEF RootsAreWhole
  <2> QED
    BY <1>0, <1>3, <2>2, <2>3, CollectMoves
<1>4. CASE UNCHANGED vars
  <2>1. UNCHANGED <<objects, chain, named, writer, reader, pin>>
    BY <1>4 DEF vars, disk, roots, readers
  <2>2. Current' = Current /\ Held' = Held
    BY <2>1 DEF Current, Held
  <2> QED
    BY <1>0, <2>1, <2>2 DEF RootsAreWhole
<1> QED
  BY <1>1, <1>2, <1>3, <1>4 DEF Next
--------------------------------------------------------------------------------
(* Plans. *)

\* CURRENT is always kept: a retention is at least one.
LEMMA CurrentKept == TypeOK => Current \in Kept(gc.retention)
<1> SUFFICES ASSUME TypeOK PROVE Current \in Kept(gc.retention)
  OBVIOUS
<1>1. Len(chain) \in DOMAIN chain /\ Len(chain) \in Nat
  BY DEF TypeOK
<1>2. gc.retention \in Nat \ {0}
  BY DEF TypeOK, GcStates
<1>3. Len(chain) > Len(chain) - gc.retention
  BY <1>1, <1>2
<1> QED
  BY <1>1, <1>3 DEF Current, Kept

LEMMA PlanStep ==
    ASSUME AnyInv, SafeInv, [Next]_vars, ~exposed'
    PROVE  PlanIsSafe'
<1>0. /\ gc \in GcStates
      /\ TypeOK /\ Locks /\ Pins /\ PlanIsSafe
  BY DEF TypeOK, AnyInv, SafeInv
<1>s. ASSUME UNCHANGED gc, Current' = Current, Held' \subseteq Held,
             gc.pc \in Sweeping => writer'.pc # "putting"
      PROVE  PlanIsSafe'
  <2>1. ReachAll({Current'} \cup Held') \subseteq ReachAll({Current} \cup Held)
    BY <1>s DEF ReachAll
  <2> QED
    BY <1>0, <2>1, <1>s DEF PlanIsSafe
<1>1. ASSUME Write PROVE PlanIsSafe'
  <2>1. UNCHANGED <<gc, named, reader, pin>>
    BY <1>0, <1>1, WriteMoves DEF readers
  <2>2. Held' = Held
    BY <2>1 DEF Held
  <2>3. gc.pc \in Sweeping => Current' = Current /\ writer'.pc # "putting"
    BY <1>0, <1>1, WriteMoves DEF PlanIsSafe
  <2> QED
    BY <1>0, <2>1, <2>2, <2>3 DEF PlanIsSafe, Sweeping
<1>2. ASSUME Read PROVE PlanIsSafe'
  <2>1. UNCHANGED <<gc, writer>> /\ Current' = Current
    BY <1>0, <1>2, ReadMoves DEF Current
  <2>2. CASE Held' \subseteq Held
    BY <1>0, <1>s, <2>1, <2>2 DEF PlanIsSafe
  <2>3. ASSUME NEW r \in Readers, Capturing(r) PROVE PlanIsSafe'
    <3>1. gc.pc \notin {"reading", "journal", "moving", "rescanned", "rerooted", "returning"}
      BY <1>0, <2>3, ReadersAssumption DEF Locks, Capturing
    <3> QED
      BY <1>0, <2>1, <3>1 DEF PlanIsSafe, Sweeping
  <2> QED
    BY <1>0, <1>2, <2>2, <2>3, ReadMoves
<1>3. ASSUME Collect PROVE PlanIsSafe'
  <2>0. /\ Held' = Held /\ Current' = Current /\ writer' = writer
        /\ Current \in Kept(gc.retention)
    BY <1>0, <1>3, CollectMoves, CurrentKept
  <2>r. ASSUME gc'.pc \in {"idle", "reaped", "scanned", "rooted", "recovering", "restoring"}
        PROVE  PlanIsSafe'
    BY <2>r DEF PlanIsSafe, Sweeping
  <2>1. ASSUME NEW n \in Retentions, GcStart(n) \/ RecoverStart(n) PROVE PlanIsSafe'
    BY <2>r, <2>1 DEF GcStart, RecoverStart, Idle
  <2>2. CASE GcScan
    BY <1>0, <2>r, <2>2 DEF GcScan, GcStates
  <2>3. CASE GcRoots
    BY <1>0, <2>r, <2>3, NextStep
  <2>4. CASE GcSign
    <3>1. gc'.pc = "signed" /\ gc'.signature = Signature /\ gc'.pubs = gc.pubs
      BY <1>0, <2>4 DEF GcSign, GcStates
    <3>2. {Current} \cup LivePins \subseteq gc.pubs
      BY <2>4 DEF GcSign, RootIsMissed
    <3> QED
      BY <3>1, <3>2 DEF PlanIsSafe, Sweeping, Signature
  <2>5. CASE GcPlan
    <3>1. CASE Release
      BY <2>r, <3>1 DEF Release, Idle
    <3>2. CASE ~Release
      <4>1. gc' = [gc EXCEPT !.pc = "planned", !.pubs = {}, !.prepared = {},
                      !.todo = objects \ (ReachAll(gc.pubs) \cup gc.prepared)]
        BY <3>2, <2>5 DEF GcPlan
      <4>2. /\ gc'.pc = "planned" /\ gc'.signature = gc.signature
            /\ gc'.todo \cap ReachAll(gc.pubs) = {}
        BY <4>1, <1>0 DEF GcStates
      <4>3. ReachAll({gc.signature[1]} \cup gc.signature[2]) \subseteq ReachAll(gc.pubs)
        BY <1>0, <2>5, ReachAllOver DEF GcPlan, PlanIsSafe
      <4>4. gc.signature # <<>>
        BY <1>0, <2>5 DEF GcPlan, PlanIsSafe
      <4> QED
        BY <4>2, <4>3, <4>4 DEF PlanIsSafe, Sweeping
    <3> QED
      BY <3>1, <3>2
  <2>6. CASE GcLockPins
    <3>1. /\ gc.pc = "planned" /\ gc'.pc = "reading"
          /\ gc'.signature = gc.signature /\ gc'.todo = gc.todo
      BY <1>0, <2>6 DEF GcLockPins, GcStates
    <3> QED
      BY <1>0, <3>1 DEF PlanIsSafe, Sweeping
  <2>7. CASE GcReread
    <3>1. CASE Release
      BY <2>r, <3>1 DEF Release, Idle
    <3>2. CASE ~Release
      <4>1. /\ gc' = [gc EXCEPT !.pc = "journal", !.signature = <<>>]
            /\ Signature = gc.signature
            /\ Held = LivePins /\ writer.pc # "putting"
        BY <3>2, <2>7 DEF GcReread, PinIsMissed, PublicationIsMissed
      <4>2. gc'.pc = "journal" /\ gc'.todo = gc.todo
        BY <4>1, <1>0 DEF GcStates
      <4>3. gc.signature[1] = Current /\ gc.signature[2] = Held
        BY <4>1 DEF Signature
      <4>4. ReachAll({Current} \cup Held) \cap gc.todo = {}
        BY <1>0, <4>3, <2>7 DEF GcReread, PlanIsSafe
      <4> QED
        BY <2>0, <4>1, <4>2, <4>4 DEF PlanIsSafe, Sweeping
    <3> QED
      BY <3>1, <3>2
  <2>8. CASE GcJournal
    <3>1. gc.pc = "journal" /\ gc'.pc = "moving" /\ gc'.todo = gc.todo
      BY <1>0, <2>8 DEF GcJournal, GcStates
    <3> QED
      BY <1>0, <2>0, <3>1 DEF PlanIsSafe, Sweeping
  <2>9. CASE GcDone \/ GcStops \/ RecoverDone
    BY <2>r, <2>9 DEF GcDone, GcStops, RecoverDone, Release, Idle
  <2>10. CASE RecoverLockPins
    BY <1>0, <2>r, <2>10 DEF RecoverLockPins, GcStates
  <2>11. CASE RecoverScan
    <3>1. gc'.pc = "rescanned" /\ gc'.pins = LivePins
      BY <1>0, <2>11 DEF RecoverScan, GcStates
    <3>2. Held = LivePins
      BY <2>11 DEF RecoverScan, PinIsMissed
    <3> QED
      BY <2>0, <3>1, <3>2 DEF PlanIsSafe, Sweeping
  <2>12. CASE RecoverRoots
    <3>1. CASE Release
      BY <2>r, <3>1 DEF Release, Idle
    <3>2. CASE ~Release
      <4>1. gc' = [gc EXCEPT !.pc = "rerooted", !.pins = {}, !.pubs = Kept(gc.retention) \cup gc.pins]
        BY <3>2, <2>12 DEF RecoverRoots
      <4>2. gc'.pc = "rerooted" /\ gc'.pubs = Kept(gc.retention) \cup gc.pins
        BY <4>1, <1>0 DEF GcStates
      <4>3. Held \subseteq gc.pins
        BY <1>0, <2>12 DEF RecoverRoots, PlanIsSafe
      <4>4. writer.pc # "putting"
        BY <3>2, <2>12 DEF RecoverRoots, PublicationIsMissed
      <4> QED
        BY <2>0, <4>2, <4>3, <4>4 DEF PlanIsSafe, Sweeping
    <3> QED
      BY <3>1, <3>2
  <2>13. CASE RecoverPlan
    <3> DEFINE reach == ReachAll(gc.pubs) \cup gc.prepared
    <3>1. CASE Release
      BY <2>r, <3>1 DEF Release, Idle
    <3>2. CASE ~Release
      <4>1. gc' = [gc EXCEPT !.pc = "returning", !.pubs = {}, !.prepared = {}, !.reach = reach,
                             !.todo = Returned(reach)]
        BY <3>2, <2>13 DEF RecoverPlan
      <4>2. gc'.pc = "returning" /\ gc'.todo \cap reach = {}
        <5> HIDE DEF reach
        <5> QED
          BY <4>1, <1>0 DEF GcStates, Returned
      <4>3. {Current} \cup Held \subseteq gc.pubs /\ writer.pc # "putting"
        BY <1>0, <2>13 DEF RecoverPlan, PlanIsSafe, Sweeping
      <4>4. ReachAll({Current} \cup Held) \subseteq reach
        BY <4>3, ReachAllOver
      <4> QED
        BY <2>0, <4>2, <4>3, <4>4 DEF PlanIsSafe, Sweeping
    <3> QED
      BY <3>1, <3>2
  <2>14. ASSUME NEW i \in gc.todo, GcMove(i) \/ RecoverReturn(i) PROVE PlanIsSafe'
    <3>1. /\ gc.pc \in {"moving", "returning"}
          /\ gc'.pc = gc.pc /\ gc'.todo \subseteq gc.todo
      BY <1>0, <2>14 DEF GcMove, RecoverReturn, GcStates
    <3> QED
      BY <1>0, <2>0, <3>1 DEF PlanIsSafe, Sweeping
  <2>15. ASSUME NEW i \in gc.todo, RecoverRestore(i) PROVE PlanIsSafe'
    BY <1>0, <2>r, <2>15 DEF RecoverRestore, GcStates
  <2> QED
    BY <1>3, <2>1, <2>2, <2>3, <2>4, <2>5, <2>6, <2>7, <2>8, <2>9, <2>10, <2>11, <2>12, <2>13,
       <2>14, <2>15 DEF Collect
<1>4. CASE UNCHANGED vars
  <2>1. UNCHANGED <<gc, chain, named, writer, reader, pin>>
    BY <1>4 DEF vars, roots, readers
  <2>2. Current' = Current /\ Held' = Held
    BY <2>1 DEF Current, Held
  <2> QED
    BY <1>0, <1>s, <2>1, <2>2 DEF PlanIsSafe
<1> QED
  BY <1>1, <1>2, <1>3, <1>4 DEF Next
--------------------------------------------------------------------------------
(* Recoveries. *)

\* Only two steps lead to, or stay in, the return of what no root reaches.
LEMMA Returning ==
    ASSUME TypeOK, Collect, gc'.pc = "returning"
    PROVE  RecoverPlan \/ \E i \in gc.todo : RecoverReturn(i)
<1>0. gc \in GcStates
  BY DEF TypeOK
<1>1. \A n \in Retentions : ~GcStart(n) /\ ~RecoverStart(n)
  BY DEF GcStart, RecoverStart, Idle
<1>2. ~GcScan /\ ~GcRoots /\ ~GcSign /\ ~GcPlan /\ ~GcLockPins /\ ~GcReread /\ ~GcJournal
  BY <1>0, NextStep
<1>3. ~GcDone /\ ~GcStops /\ ~RecoverDone
  BY DEF GcDone, GcStops, RecoverDone, Release, Idle
<1>4. ~RecoverLockPins /\ ~RecoverScan /\ ~RecoverRoots
  BY <1>0, NextStep
<1>5. \A i \in gc.todo : ~GcMove(i) /\ ~RecoverRestore(i)
  BY <1>0 DEF GcMove, RecoverRestore, GcStates
<1> QED
  BY <1>1, <1>2, <1>3, <1>4, <1>5 DEF Collect

\* A plan takes back all that it does not reach.
LEMMA PlanIsExact ==
    ASSUME TypeOK, RecoverPlan, gc'.pc = "returning"
    PROVE  /\ ReturnIsExact'
           /\ gc'.todo \cap ReachAll(gc.pubs) = {}
           /\ ReachAll(gc.pubs) \subseteq objects
           /\ exposed' = (exposed /\ ~RootsAreSeen)
<1> DEFINE reach == ReachAll(gc.pubs) \cup gc.prepared
<1>0. gc \in GcStates
  BY DEF TypeOK
<1>1. ~Release
  BY DEF Release, Idle
<1>2. /\ gc' = [gc EXCEPT !.pc = "returning", !.pubs = {}, !.prepared = {}, !.reach = reach,
                          !.todo = Returned(reach)]
      /\ ReachAll(gc.pubs) \subseteq objects
      /\ exposed' = (exposed /\ ~RootsAreSeen)
  BY <1>1 DEF RecoverPlan
<1>3. gc'.reach = reach /\ gc'.todo = Journaled \ reach
  <2> HIDE DEF reach
  <2> QED
    BY <1>0, <1>2 DEF GcStates, Returned
<1>4. UNCHANGED <<objects, journals>>
  BY DEF RecoverPlan, disk
<1>5. Journaled' = Journaled
  BY <1>4 DEF Journaled
<1> QED
  BY <1>2, <1>3, <1>4, <1>5 DEF ReturnIsExact

LEMMA ExactStep ==
    ASSUME AnyInv, SafeInv, [Next]_vars, ~exposed'
    PROVE  ReturnIsExact'
<1>0. /\ gc \in GcStates
      /\ TypeOK /\ Locks /\ Pins /\ ReturnIsExact
      /\ UNCHANGED journals => Journaled' = Journaled
  BY DEF TypeOK, AnyInv, SafeInv, Journaled
<1>t. ASSUME UNCHANGED <<gc, journals>>, gc.pc = "returning" => objects' = objects
      PROVE  ReturnIsExact'
  BY <1>0, <1>t DEF ReturnIsExact
<1>1. ASSUME Write PROVE ReturnIsExact'
  BY <1>0, <1>1, <1>t, WriteMoves DEF Sweeping
<1>2. ASSUME Read PROVE ReturnIsExact'
  BY <1>0, <1>2, <1>t, ReadMoves DEF disk
<1>3. ASSUME Collect PROVE ReturnIsExact'
  <2>1. CASE gc'.pc # "returning"
    BY <2>1 DEF ReturnIsExact
  <2>2. CASE RecoverPlan /\ gc'.pc = "returning"
    BY <1>0, <2>2, PlanIsExact
  <2>3. ASSUME NEW i \in gc.todo, RecoverReturn(i) PROVE ReturnIsExact'
    BY <1>0, <2>3 DEF RecoverReturn, ReturnIsExact, GcStates
  <2> QED
    BY <1>0, <1>3, <2>1, <2>2, <2>3, Returning
<1>4. CASE UNCHANGED vars
  BY <1>t, <1>4 DEF vars, disk
<1> QED
  BY <1>1, <1>2, <1>3, <1>4 DEF Next

\* Only a recovery that has seen every root ends the exposure of the roots.
LEMMA OnlyAPlanHeals ==
    ASSUME AnyInv, [Next]_vars, exposed, ~exposed'
    PROVE  RecoverPlan /\ gc'.pc = "returning" /\ RootsAreSeen
<1>0. gc \in GcStates /\ TypeOK /\ Locks /\ Pins
  BY DEF AnyInv, TypeOK
<1>1. ~Write /\ ~Read
  BY <1>0, WriteMoves, ReadMoves
<1>2. ~UNCHANGED vars
  BY DEF vars
<1>3. Collect
  BY <1>1, <1>2 DEF Next
<1>4. \A n \in Retentions : ~GcStart(n) /\ ~RecoverStart(n)
  BY DEF GcStart, RecoverStart
<1>5. ~GcScan /\ ~GcRoots /\ ~GcSign /\ ~GcPlan /\ ~GcLockPins /\ ~GcReread /\ ~GcJournal
  BY DEF GcScan, GcRoots, GcSign, GcPlan, GcLockPins, GcReread, GcJournal
<1>6. ~GcDone /\ ~GcStops /\ ~RecoverDone
  BY DEF GcDone, GcStops, RecoverDone
<1>7. ~RecoverLockPins /\ ~RecoverScan /\ ~RecoverRoots
  BY DEF RecoverLockPins, RecoverScan, RecoverRoots
<1>8. \A i \in gc.todo : ~GcMove(i) /\ ~RecoverRestore(i) /\ ~RecoverReturn(i)
  BY DEF GcMove, RecoverRestore, RecoverReturn
<1>9. RecoverPlan
  BY <1>3, <1>4, <1>5, <1>6, <1>7, <1>8 DEF Collect
<1> QED
  BY <1>0, <1>9 DEF RecoverPlan, GcStates

\* ... and after it what CURRENT and the pins reach is there, and stays.
LEMMA HealStep ==
    ASSUME AnyInv, [Next]_vars, exposed, ~exposed'
    PROVE  SafeInv'
<1>0. /\ TypeOK /\ Locks
      /\ RecoverPlan /\ gc'.pc = "returning" /\ RootsAreSeen
  BY OnlyAPlanHeals DEF AnyInv
<1>1. /\ UNCHANGED <<objects, writer, reader>> /\ Current' = Current /\ Held' = Held
  BY <1>0, CollectMoves DEF Collect, RecoverPlan, disk
<1>2. /\ ReturnIsExact'
      /\ gc'.todo \cap ReachAll(gc.pubs) = {}
      /\ ReachAll(gc.pubs) \subseteq objects
  BY <1>0, PlanIsExact
<1>3. {Current} \cup Held \subseteq gc.pubs /\ writer.pc # "putting"
  BY <1>0 DEF RootsAreSeen
<1>4. /\ ReachAll({Current} \cup Held) \subseteq ReachAll(gc.pubs)
      /\ ReachAll({Current} \cup Held) = ReachAll(Held) \cup Reach(Current)
  BY <1>3, ReachAllOver
<1>5. \A r \in Readers : reader[r].pc \notin {"read", "pinning", "pinned"}
  BY <1>0, ReadersAssumption DEF Locks, RecoverPlan
<1>6. RootsAreWhole'
  BY <1>1, <1>2, <1>3, <1>4, <1>5 DEF RootsAreWhole
<1>7. PlanIsSafe'
  BY <1>0, <1>1, <1>2, <1>3, <1>4 DEF PlanIsSafe, Sweeping
<1> QED
  BY <1>2, <1>6, <1>7 DEF SafeInv
--------------------------------------------------------------------------------
(* What holds while nothing has exposed the roots. *)

LEMMA InitSafe == Init => SafeInv
<1> SUFFICES ASSUME Init PROVE SafeInv
  OBVIOUS
<1>1. Current = Genesis /\ Held = {}
  BY DEF Init, Current, Held
<1>2. ReachAll(Held) = {}
  BY <1>1 DEF ReachAll
<1>3. PlanIsSafe /\ ReturnIsExact
  BY <1>1 DEF Init, PlanIsSafe, ReturnIsExact, Sweeping, Idle
<1>4. RootsAreWhole
  BY <1>1, <1>2 DEF Init, RootsAreWhole, NoReader, NoWriter
<1> QED
  BY <1>3, <1>4 DEF SafeInv

LEMMA IInvHolds == Spec => []IInv
<1>1. Init => IInv
  BY InitAny, InitSafe DEF IInv
<1>2. IInv /\ [Next]_vars => IInv'
  <2> SUFFICES ASSUME IInv, [Next]_vars PROVE AnyInv' /\ (~exposed' => SafeInv')
    BY DEF IInv
  <2>1. AnyInv'
    BY AnyStep DEF IInv
  <2>2. ASSUME ~exposed', ~exposed PROVE SafeInv'
    BY <2>2, RootsStep, PlanStep, ExactStep DEF IInv, SafeInv
  <2>3. ASSUME ~exposed', exposed PROVE SafeInv'
    BY <2>3, HealStep DEF IInv
  <2> QED
    BY <2>1, <2>2, <2>3
<1> QED
  BY <1>1, <1>2, PTL DEF Spec

(* The golden rule, with publications, captures and failures in any order: what CURRENT,  *)
(* a pin or a registered packet reaches is in objects/ unless a scan has missed a pin, a   *)
(* signature a root, or the moves a publication, and again after a recovery that misses    *)
(* none; what a packet reaches always is.                                                    *)
THEOREM GoldenRuleHolds == Spec => []GoldenRuleUnlessOverlapped
<1>1. IInv => GoldenRuleUnlessOverlapped
  <2> SUFFICES ASSUME IInv PROVE GoldenRuleUnlessOverlapped
    OBVIOUS
  <2>1. PreparedItems \subseteq objects
    BY DEF IInv, AnyInv, Packets
  <2>2. ASSUME ~exposed PROVE ReachAll({Current} \cup Held) \subseteq objects
    BY <2>2, ReachAllOver DEF IInv, SafeInv, RootsAreWhole
  <2> QED
    BY <2>1, <2>2 DEF GoldenRuleUnlessOverlapped, GoldenRule
<1> QED
  BY <1>1, IInvHolds, PTL

(* A recovery that ends has left in objects/ the journaled objects its roots reach,       *)
(* however often it was stopped before, and no other but a record put under way.            *)
THEOREM RecoveryExact == Spec => RecoveryIsExact
<1>1. IInv /\ [Next]_vars
        => [RecoverDone => /\ Journaled \cap gc.reach \subseteq objects
                           /\ (Journaled \ gc.reach) \cap objects
                                \subseteq (IF exposed THEN Publications ELSE {})]_vars
  BY DEF IInv, AnyInv, SafeInv, Recovering, ReturnIsExact, RecoverDone
<1> QED
  BY <1>1, IInvHolds, PTL DEF Spec, RecoveryIsExact
=============================================================================
