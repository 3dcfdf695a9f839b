---------------------------- MODULE CommitRules ----------------------------
(* The admission rules of a versioned fact store with retry memory: what the  *)
(* writer decides for one command against the state it sees.  Pure operators, *)
(* shared by the commit path (prepare_batch, WalWriter.append) and by replay   *)
(* (ReducerState._apply_one), as horizon_store.py shares them.                  *)
(*                                                                            *)
(* Abstractions.  A fact id and an operation id are opaque names.  The 16-byte *)
(* content digest is the content itself (no collisions).  The base generation  *)
(* is two constant functions: a writer never changes the base it was opened on. *)
EXTENDS Integers

CONSTANTS
    Facts,        \* fact ids
    OpIds,        \* operation ids (client_id || txid)
    Nil,          \* Python's None
    BaseAbsent,   \* BASE_ABSENT: the base does not know the fact
    BaseAbstain,  \* BASE_ABSTAIN: the base cannot be read
    BaseFacts,    \* fact -> entry, BaseAbsent or BaseAbstain
    BaseDedup,    \* operation id -> what the base's DedupTable remembers of it
    U8Domain,     \* the writer freezes values to u8 at ingress
    U8Max, U32Max \* the largest value of each width

(* fact_id -> (version, op, value) of the version in force *)
Entry == [ver : Nat, op : {"PUT", "DELETE"}, value : Int \cup {Nil}]

Contents == [op : {"PUT", "DELETE"}, fact : Facts, ver : Nat, value : Int \cup {Nil}]

(* operation_id -> (content_digest, seq) *)
TxEntry == [digest : Contents, seq : Nat]

Command == [op : {"PUT", "DELETE"}, fact : Facts, ver : Nat, value : Int \cup {Nil},
            opid : OpIds]

Indexes == [Facts -> Entry \cup {Nil}]
TxIndexes == [OpIds -> TxEntry \cup {Nil}]

(* What a probe of the base can find: an entry with its digest, a known client *)
(* whose entry is gone, a table of another generation, or nothing.             *)
BaseDedupEntry ==
    [kind : {"entry"}, digest : Contents, seq : Nat]
        \cup [kind : {"expired", "abstain", "new"}]

ASSUME BaseAssumption ==
    /\ BaseFacts \in [Facts -> Entry \cup {BaseAbsent, BaseAbstain}]
    /\ BaseDedup \in [OpIds -> BaseDedupEntry]
    /\ U8Domain \in BOOLEAN
    /\ U8Max \in Nat /\ U32Max \in Nat /\ U8Max < U32Max

ContentDigest(c) == [op |-> c.op, fact |-> c.fact, ver |-> c.ver, value |-> c.value]

(* content_digest packs the version as u32 and raises on a wider one, which        *)
(* _command_is_canonical lets through.                                              *)
HasDigest(c) == c.ver <= U32Max

IsU8(v) == v # Nil /\ v \in 0..U8Max

CommandIsCanonical(c) ==
    /\ c.ver >= 1
    /\ c.op = "PUT" => c.value # Nil /\ c.value \in 0..U32Max
    /\ c.op = "DELETE" => c.value = Nil

(* Mutant: an older version is applied over a newer one. *)
PreflightNoStale(cur, c) ==
    IF cur = Nil \/ c.ver # cur.ver THEN "applied"
    ELSE IF c.op = cur.op /\ c.value = cur.value THEN "idempotent"
    ELSE "conflict"

(* The version rule: a newer version applies, an equal one is either the same  *)
(* write again or a conflict, an older one is stale.                            *)
Preflight(cur, c) ==
    IF cur = Nil \/ c.ver > cur.ver THEN "applied"
    ELSE IF c.ver < cur.ver THEN "stale"
    ELSE IF c.op = cur.op /\ c.value = cur.value THEN "idempotent"
    ELSE "conflict"

(* Mutant: any reuse of an operation id is a retry, whatever its content. *)
TxCheckNoDigest(tx, c) == IF tx[c.opid] = Nil THEN "new" ELSE "dedup_replay"

(* Mutant: an operation id with another content is taken for a new one. *)
TxCheckByContent(tx, c) ==
    IF tx[c.opid] # Nil /\ tx[c.opid].digest = ContentDigest(c) THEN "dedup_replay" ELSE "new"

TxCheck(tx, c) ==
    IF tx[c.opid] = Nil THEN "new"
    ELSE IF tx[c.opid].digest = ContentDigest(c) THEN "dedup_replay"
    ELSE "txid_conflict"

(* Mutant: the base's digest is not compared. *)
DedupProbeNoDigest(c) ==
    IF BaseDedup[c.opid].kind = "entry" THEN "replay" ELSE BaseDedup[c.opid].kind

DedupProbe(c) ==
    LET e == BaseDedup[c.opid] IN
    IF e.kind # "entry" THEN e.kind
    ELSE IF e.digest = ContentDigest(c) THEN "replay" ELSE "conflict"

(* The writer's own WAL answers first, the base only on a miss. *)
ClassifyDedup(tx, c) ==
    IF TxCheck(tx, c) # "new" THEN TxCheck(tx, c)
    ELSE CASE DedupProbe(c) = "replay"   -> "dedup_replay"
           [] DedupProbe(c) = "conflict" -> "txid_conflict"
           [] DedupProbe(c) = "expired"  -> "idempotency_expired"
           [] DedupProbe(c) = "abstain"  -> "abstain_base"
           [] OTHER                      -> "new"

DedupSeq(tx, c) == IF tx[c.opid] # Nil THEN tx[c.opid].seq ELSE BaseDedup[c.opid].seq

(* The version in force: the writer's L0 first, else the base. *)
CurrentOf(index, f) ==
    IF index[f] # Nil THEN index[f]
    ELSE IF BaseFacts[f] = BaseAbsent THEN Nil ELSE BaseFacts[f]

InvalidArgument(c) ==
    ~CommandIsCanonical(c) \/ (U8Domain /\ c.op = "PUT" /\ ~IsU8(c.value))

(* prepare_batch raises: a command it takes for valid has no digest. *)
PlanRaises(c) == ~InvalidArgument(c) /\ ~HasDigest(c)

(* The receipt one command gets against (index, tx), when planning it does not raise. *)
Decide(index, tx, c) ==
    IF InvalidArgument(c) THEN "INVALID_ARGUMENT"
    ELSE CASE ClassifyDedup(tx, c) = "dedup_replay"        -> "DEDUP_REPLAY"
           [] ClassifyDedup(tx, c) = "txid_conflict"       -> "TXID_CONFLICT"
           [] ClassifyDedup(tx, c) = "idempotency_expired" -> "IDEMPOTENCY_EXPIRED"
           [] ClassifyDedup(tx, c) = "abstain_base"        -> "ABSTAIN_BASE"
           [] OTHER ->
                IF CurrentOf(index, c.fact) = BaseAbstain THEN "ABSTAIN_BASE"
                ELSE CASE Preflight(CurrentOf(index, c.fact), c) = "stale"      -> "STALE_REJECTED"
                       [] Preflight(CurrentOf(index, c.fact), c) = "idempotent" -> "IDEMPOTENT"
                       [] Preflight(CurrentOf(index, c.fact), c) = "conflict"   -> "VERSION_CONFLICT"
                       [] OTHER -> "APPLIED"

(* WalIndex.apply and TxIdIndex.record on an applied command. *)
ApplyIndex(index, c) ==
    [index EXCEPT ![c.fact] = [ver |-> c.ver, op |-> c.op, value |-> c.value]]

RecordTx(tx, c, seq) ==
    [tx EXCEPT ![c.opid] = [digest |-> ContentDigest(c), seq |-> seq]]

EmptyIndex == [f \in Facts |-> Nil]
EmptyTx == [o \in OpIds |-> Nil]
=============================================================================
