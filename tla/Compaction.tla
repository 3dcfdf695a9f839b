----------------------------- MODULE Compaction -----------------------------
(* Compaction of one scope (horizon_compaction.py): the state a generation G has  *)
(* in its base and its WAL moves into the base of a new generation G+1 that starts *)
(* with an empty WAL, and the retry memory is merged and trimmed.  A writer serves  *)
(* before, from G, and after, from G+1; the steps between may fail or stop.          *)
(*                                                                            *)
(* A generation is what its manifest names: the absorbed sequence number, the base   *)
(* registry with its tombstones (facts) and the DedupTable (entries, clients).  The    *)
(* log holds every frame ever committed; the WAL of a generation is the part of it     *)
(* after its seq.  Every committed frame is published here (GroupCommit has the         *)
(* commits, their batches and their failures), so CURRENT reads the whole log.          *)
EXTENDS Integers, Sequences, FiniteSets, FiniteSetsExt

CONSTANTS
    Facts, Clients, Txids,      \* an operation id is a client and its txid
    Nil, BaseAbsent, BaseAbstain,
    TxidMax,                    \* the largest txid (2^64 - 1 in the code)
    U8Max, U32Max,
    Retentions,                 \* the retentions compactions are called with
    Values, MaxVersion,         \* bound: the values and versions commands carry
    MaxGen,                     \* the largest generation id (2^32 - 1 in the code)
    MaxLog                      \* bound: frames

OpIds == Clients \X Txids

ASSUME CompactionAssumption ==
    /\ TxidMax \in Nat /\ Txids \subseteq 0..TxidMax
    /\ Retentions \subseteq Nat \ {0} /\ Retentions # {}
    /\ U8Max \in Nat /\ U32Max \in Nat /\ U8Max < U32Max
    /\ Values \subseteq 0..U32Max
    /\ MaxVersion \in Nat /\ MaxGen \in Nat /\ MaxLog \in Nat

(* What a table remembers of a client: the highest txid seen, the lowest retained. *)
ClientState == [hi : Txids, lo : Nat]

VARIABLES
    log,       \* every frame committed so far; frame i has sequence number i
    current,   \* the generation CURRENT publishes
    base,      \* the generation the writer was opened on (BundleBaseView)
    index, tx, \* the writer's L0 and TxIdIndex
    u8,        \* the writer refuses values outside u8
    packet,    \* CompactionPrepared, Nil without one
    phase      \* serving, prepared, published; stopped: no writer, its lease free;
               \* stuck: no writer, its lease held until the process ends

vars == <<log, current, base, index, tx, u8, packet, phase>>

(* DedupTable.probe, for every operation id. *)
Probe(gen) ==
    [o \in OpIds |->
        IF gen.entries[o] # Nil
            THEN [kind |-> "entry", digest |-> gen.entries[o].digest, seq |-> gen.entries[o].seq]
        ELSE IF gen.clients[o[1]] = Nil \/ o[2] > gen.clients[o[1]].hi
            THEN [kind |-> "new"]
        ELSE [kind |-> "expired"]]

Rules == INSTANCE CommitRules WITH
    BaseFacts <- base.facts, BaseDedup <- Probe(base), U8Domain <- u8

Generation ==
    [gen : 0..MaxGen, seq : 0..MaxLog, facts : [Facts -> Rules!Entry \cup {BaseAbsent}],
     entries : [OpIds -> Rules!TxEntry \cup {Nil}],
     clients : [Clients -> ClientState \cup {Nil}]]

(* The sentinels are none of the values they stand beside. *)
ASSUME SentinelAssumption ==
    /\ Nil \notin Int /\ Nil \notin ClientState
    /\ Nil \notin Rules!Entry /\ Nil \notin Rules!TxEntry /\ Nil \notin Generation
    /\ BaseAbsent \notin Rules!Entry /\ BaseAbstain \notin Rules!Entry
    /\ BaseAbsent # Nil /\ BaseAbstain # Nil /\ BaseAbsent # BaseAbstain

Commands ==
    {c \in [op : {"PUT", "DELETE"}, fact : Facts, ver : 1..MaxVersion,
            value : Values \cup {Nil}, opid : OpIds] : c.op = "DELETE" <=> c.value = Nil}

Genesis == [gen |-> 0, seq |-> 0, facts |-> [f \in Facts |-> BaseAbsent],
            entries |-> [o \in OpIds |-> Nil], clients |-> [k \in Clients |-> Nil]]

Init ==
    /\ log = <<>>
    /\ current = Genesis /\ base = Genesis
    /\ index = Rules!EmptyIndex /\ tx = Rules!EmptyTx
    /\ u8 = FALSE
    /\ packet = Nil /\ phase = "serving"
-----------------------------------------------------------------------------
(* What a replay of the frames of l after sequence number s leaves in L0 and in *)
(* the TxIdIndex (open_generation).                                               *)
EntryOf(c) == [ver |-> c.ver, op |-> c.op, value |-> c.value]

WritesTo(l, f, s) == {i \in s + 1 .. Len(l) : l[i].fact = f}

ReplayIndex(l, s) ==
    [f \in Facts |-> IF WritesTo(l, f, s) = {} THEN Nil ELSE EntryOf(l[Max(WritesTo(l, f, s))])]

FramesOf(l, o, s) == {i \in s + 1 .. Len(l) : l[i].opid = o}

ReplayTx(l, s) ==
    [o \in OpIds |->
        IF FramesOf(l, o, s) = {} THEN Nil
        ELSE LET i == Max(FramesOf(l, o, s))
             IN [digest |-> Rules!ContentDigest(l[i]), seq |-> i]]

(* What a reader of CURRENT finds (GenerationHandle.read_fact): L0, else the base. *)
ReadFact(f) ==
    IF ReplayIndex(log, current.seq)[f] # Nil THEN ReplayIndex(log, current.seq)[f] ELSE current.facts[f]
-----------------------------------------------------------------------------
(* A command that the rules apply becomes the next frame; one that prepare_batch raises  *)
(* on ends the worker instead, as WriterStops does, with nothing written.                   *)
Commit(c) ==
    /\ phase = "serving" /\ Len(log) < MaxLog
    /\ ~Rules!PlanRaises(c)
    /\ Rules!Decide(index, tx, c) = "APPLIED"
    /\ log' = Append(log, c)
    /\ index' = Rules!ApplyIndex(index, c)
    /\ tx' = Rules!RecordTx(tx, c, Len(log) + 1)
    /\ UNCHANGED <<current, base, u8, packet, phase>>

(* The writer is closed, poisoned or dies with its process. *)
WriterStops ==
    /\ phase = "serving"
    /\ phase' = "stopped"
    /\ UNCHANGED <<log, current, base, index, tx, u8, packet>>

(* Mutant: the base wins over the WAL. *)
MaterializeBaseFirst(gen, l0) ==
    [f \in Facts |-> IF gen.facts[f] # BaseAbsent \/ l0[f] = Nil THEN gen.facts[f] ELSE l0[f]]

(* _materialize_state: every known fact with its version, deleted ones too; the WAL *)
(* wins over the base.                                                                *)
Materialize(gen, l0) == [f \in Facts |-> IF l0[f] # Nil THEN l0[f] ELSE gen.facts[f]]

(* _merge_dedup: what the table of G+1 remembers of client k. *)
Absorbed(txindex, k) == {t \in Txids : txindex[<<k, t>>] # Nil}

HiSeen(gen, txindex, k) ==
    Max(Absorbed(txindex, k) \cup {gen.clients[x].hi : x \in {y \in {k} : gen.clients[y] # Nil}})

LoBound(gen, txindex, k) ==
    Min(Absorbed(txindex, k) \cup {gen.clients[x].lo : x \in {y \in {k} : gen.clients[y] # Nil}})

(* Mutant: the floor follows this compaction's retention alone. *)
FloorOfForgets(gen, txindex, r, k) == HiSeen(gen, txindex, k) - r + 1

(* Mutant: the retention keeps one txid less than it says. *)
FloorOfHigh(gen, txindex, r, k) == HiSeen(gen, txindex, k) - r + 2

FloorOf(gen, txindex, r, k) ==
    LET lo == LoBound(gen, txindex, k)
        kept == HiSeen(gen, txindex, k) - r + 1
    IN IF lo > kept THEN lo ELSE kept

(* Mutant: a client is kept only while one of its entries is. *)
MergeClientsWithEntries(gen, txindex, r) ==
    [k \in Clients |->
        IF Absorbed(txindex, k) = {} THEN Nil
        ELSE [hi |-> HiSeen(gen, txindex, k), lo |-> FloorOf(gen, txindex, r, k)]]

MergeClients(gen, txindex, r) ==
    [k \in Clients |->
        IF gen.clients[k] = Nil /\ Absorbed(txindex, k) = {} THEN Nil
        ELSE [hi |-> HiSeen(gen, txindex, k), lo |-> FloorOf(gen, txindex, r, k)]]

MergeEntries(gen, txindex, r) ==
    [o \in OpIds |->
        LET e == IF txindex[o] # Nil THEN txindex[o] ELSE gen.entries[o] IN
        IF e # Nil /\ o[2] >= FloorOf(gen, txindex, r, o[1]) THEN e ELSE Nil]

Collision(gen, txindex) == \E o \in OpIds : gen.entries[o] # Nil /\ txindex[o] # Nil

(* Mutant: the generation id is not checked against its width. *)
CompactableAnyGen(facts, txindex) ==
    /\ \A f \in Facts : facts[f] # BaseAbsent /\ facts[f].op = "PUT" => facts[f].value \in 0..U8Max
    /\ ~Collision(current, txindex)

(* Artifacts exist for values in u8 only; an operation id in both memories and a *)
(* generation id past its width are refused too.                                   *)
Compactable(facts, txindex) ==
    /\ \A f \in Facts : facts[f] # BaseAbsent /\ facts[f].op = "PUT" => facts[f].value \in 0..U8Max
    /\ ~Collision(current, txindex)
    /\ current.gen + 1 <= MaxGen

Candidate(r) ==
    LET txindex == ReplayTx(log, current.seq) IN
    [gen |-> current.gen + 1, seq |-> Len(log),
     facts |-> Materialize(current, ReplayIndex(log, current.seq)),
     entries |-> MergeEntries(current, txindex, r),
     clients |-> MergeClients(current, txindex, r)]

(* prepare_compaction: the writer is fenced and drained, its lease taken over, and *)
(* the packet built from what CURRENT opens to.                                       *)
Prepare(r) ==
    /\ phase = "serving"
    /\ Compactable(Materialize(current, ReplayIndex(log, current.seq)), ReplayTx(log, current.seq))
    /\ packet' = Candidate(r)
    /\ phase' = "prepared"
    /\ UNCHANGED <<log, current, base, index, tx, u8>>

(* Each refusal after the drain closes the lease: the scope is left with no writer. *)
PrepareFails ==
    /\ phase = "serving"
    /\ phase' = "stopped"
    /\ UNCHANGED <<log, current, base, index, tx, u8, packet>>

(* put_object raises: nothing closes the lease. *)
PrepareRaises ==
    /\ phase = "serving"
    /\ phase' = "stuck"
    /\ UNCHANGED <<log, current, base, index, tx, u8, packet>>

(* publish_maintenance: the compare-and-swap on the generation the packet came from. *)
Publish ==
    /\ phase = "prepared" /\ packet.gen = current.gen + 1
    /\ current' = packet
    /\ phase' = "published"
    /\ UNCHANGED <<log, base, index, tx, u8, packet>>

(* It may fail before or after CURRENT moves; its caller drops the packet and the *)
(* lease in it stays held.                                                          *)
PublishFails ==
    /\ phase = "prepared"
    /\ current' \in {current, packet}
    /\ packet' = Nil /\ phase' = "stuck"
    /\ UNCHANGED <<log, base, index, tx, u8>>

(* Mutant: the new writer keeps the old base view. *)
ActivateOldBase ==
    /\ phase = "published"
    /\ index' = Rules!EmptyIndex /\ tx' = Rules!EmptyTx
    /\ u8' = TRUE /\ packet' = Nil /\ phase' = "serving"
    /\ UNCHANGED <<log, current, base>>

(* activate_compacted: an empty L0 over the generation that CURRENT opens to. *)
Activate ==
    /\ phase = "published"
    /\ base' = current
    /\ index' = Rules!EmptyIndex /\ tx' = Rules!EmptyTx
    /\ u8' = TRUE /\ packet' = Nil /\ phase' = "serving"
    /\ UNCHANGED <<log, current>>

(* It closes the lease when it fails. *)
ActivateFails ==
    /\ phase = "published"
    /\ packet' = Nil /\ phase' = "stopped"
    /\ UNCHANGED <<log, current, base, index, tx, u8>>

(* The process ends between two steps of a compaction, or after a leaked lease. *)
ProcessEnds ==
    /\ phase \in {"prepared", "published", "stuck"}
    /\ packet' = Nil /\ phase' = "stopped"
    /\ UNCHANGED <<log, current, base, index, tx, u8>>

(* resume_from_recovery: the caller chooses the value domain again. *)
Resume(domain) ==
    /\ phase = "stopped"
    /\ base' = current
    /\ index' = ReplayIndex(log, current.seq) /\ tx' = ReplayTx(log, current.seq)
    /\ u8' = domain /\ phase' = "serving"
    /\ UNCHANGED <<log, current, packet>>

Next ==
    \/ \E c \in Commands : Commit(c)
    \/ \E r \in Retentions : Prepare(r)
    \/ WriterStops \/ PrepareFails \/ PrepareRaises
    \/ Publish \/ PublishFails \/ Activate \/ ActivateFails \/ ProcessEnds
    \/ \E domain \in BOOLEAN : Resume(domain)

Spec == Init /\ [][Next]_vars
-----------------------------------------------------------------------------
(* Every variable has the shape its comment gives it. *)
TypeOK ==
    /\ log \in Seq(Commands) /\ Len(log) <= MaxLog
    /\ current \in Generation /\ base \in Generation
    /\ index \in Rules!Indexes /\ tx \in Rules!TxIndexes
    /\ u8 \in BOOLEAN
    /\ packet \in Generation \cup {Nil}
    /\ phase \in {"serving", "prepared", "published", "stopped", "stuck"}

(* A compaction changes no answer: what CURRENT opens to, and what a serving writer *)
(* compares versions with, is the last frame of each fact, deletions included, and    *)
(* no fact appears that was never written (_materialize_state, activate_compacted).     *)
InForce(f) == IF WritesTo(log, f, 0) = {} THEN BaseAbsent ELSE EntryOf(log[Max(WritesTo(log, f, 0))])

NothingForgotten ==
    \A f \in Facts :
        /\ ReadFact(f) = InForce(f)
        /\ phase = "serving" =>
             Rules!CurrentOf(index, f) = IF InForce(f) = BaseAbsent THEN Nil ELSE InForce(f)

(* No operation id takes effect twice, and a fact's versions only rise, across any *)
(* number of compactions and restarts.                                               *)
AppliedOnce ==
    \A i, j \in 1..Len(log) : i < j =>
        /\ log[i].opid # log[j].opid
        /\ log[i].fact = log[j].fact => log[i].ver < log[j].ver

(* A retry of a write that took effect is answered with its own sequence number, or *)
(* as expired; expired never while its txid is within every retention of the newest  *)
(* one its client has in the log (_merge_dedup's floor, DedupTable.probe).              *)
RetryOf(i) == Rules!ClassifyDedup(tx, log[i])

RetriesRemembered ==
    phase = "serving" => \A i \in 1..Len(log) :
        \/ RetryOf(i) = "dedup_replay" /\ Rules!DedupSeq(tx, log[i]) = i
        \/ /\ RetryOf(i) = "idempotency_expired"
           /\ \E j \in 1..Len(log), r \in Retentions :
                log[j].opid[1] = log[i].opid[1] /\ log[i].opid[2] <= log[j].opid[2] - r

(* DedupTable.build never refuses what a compaction gives it: a refusal would raise *)
(* out of prepare_compaction with the lease held.                                     *)
Canonical(gen) ==
    /\ \A k \in Clients : gen.clients[k] # Nil => gen.clients[k].lo <= gen.clients[k].hi
    /\ \A o \in OpIds : gen.entries[o] # Nil =>
         /\ gen.clients[o[1]] # Nil
         /\ o[2] \in gen.clients[o[1]].lo .. gen.clients[o[1]].hi
         /\ gen.entries[o].seq \in 1..gen.seq

TablesCanonical == Canonical(current) /\ (packet # Nil => Canonical(packet))

(* What the published table has let go stays gone: an expired operation id never *)
(* comes back as new, nor a client's floor down (retained_floor is monotone).       *)
KeepsForgotten(g, h) ==
    \A o \in OpIds :
        /\ Probe(g)[o].kind = "expired" => Probe(h)[o].kind = "expired"
        /\ g.clients[o[1]] # Nil =>
             h.clients[o[1]] # Nil /\ h.clients[o[1]].lo >= g.clients[o[1]].lo

ForgetsForGood == [][KeepsForgotten(current, current')]_vars
=============================================================================
