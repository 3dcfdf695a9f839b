--------------------------- MODULE HorizonMemory ---------------------------
(* The public memory (api.py over _bootstrap.py): handles that create or open one   *)
(* scope, threads that call put, delete, get, audit, compact and close on them, the  *)
(* first writer activated inside the first write, and the cache of opened              *)
(* generations.                                                                        *)
(*                                                                            *)
(* What the facade calls is taken as its own module leaves it: a published writer     *)
(* commits one command at a time and publishes it (GroupCommit), its retry memory       *)
(* after a compaction is the frames absorbed down to a floor (Compaction), CURRENT       *)
(* opens to the log up to its read_seq (ScopeRecovery).  A manifest is that read_seq      *)
(* and its generation's floor: a rotation republishes the same contents.                   *)
(* Operation ids are those of one client.                                                   *)
EXTENDS Integers, Sequences, FiniteSets, FiniteSetsExt, SequencesExt

CONSTANTS
    Handles, Threads, Facts, Txids,
    Nil, BaseAbsent, BaseAbstain, U8Max, U32Max,
    Commands,    \* what put and delete are called with; the facade checks no version
    Retention,   \* prepare_compaction's default
    CacheSize,   \* _GENERATION_CACHE_SIZE
    MaxLog,      \* bound: frames
    MaxGen,      \* the largest generation id
    MaxFails,    \* bound: failures, timeouts and ends of a process
    MaxViews     \* bound: read views captured

VARIABLES
    made,      \* the genesis ACTIVE file exists
    log,       \* the frames in the WAL
    current,   \* what CURRENT publishes, Nil before the genesis publication
    captured,  \* the read views captured so far
    life,      \* each handle: none, making, open, closed
    store,     \* each handle: its genesis store: none, genesis, dead, fenced
    writer,    \* each handle: its writer: none, serving, dead, stopped
    late,      \* each handle: a command its worker holds after its caller timed out
    lock,      \* each handle: the thread in its lock
    seen,      \* each handle: _seen_facts
    cache,     \* each handle: _generation_cache, oldest first
    at, call,  \* each thread: its step, and what it is calling
    acked,     \* history: the highest sequence number a write has returned
    fails      \* bounded by MaxFails

scopeVars == <<made, log, current, captured>>
writerVars == <<store, writer, late>>
vars == <<scopeVars, life, writerVars, lock, seen, cache, at, call, acked, fails>>

ASSUME FacadeAssumption ==
    /\ Txids \subseteq Nat /\ Retention \in Nat \ {0} /\ CacheSize \in Nat \ {0}
    /\ MaxLog \in Nat /\ MaxGen \in Nat /\ MaxFails \in Nat /\ MaxViews \in Nat
    /\ \A c \in Commands : c.opid \in Txids /\ c.fact \in Facts /\ c.op \in {"PUT", "DELETE"}

(* None is no thread, no status, no mark, no entry and no manifest. *)
ASSUME NoneAssumption ==
    /\ Nil \notin Threads \cup {"live", "deleted", "APPLIED", "DEDUP_REPLAY"}
    /\ Nil \notin [gen : 0..MaxGen, seq : Nat, absorbed : Nat, floor : Nat]
    /\ \A c \in Commands : Nil # [ver |-> c.ver, op |-> c.op, value |-> c.value]

Genesis == [gen |-> 0, seq |-> 0, absorbed |-> 0, floor |-> 0]

(* The write of fact f in force in the first n frames. *)
Entry(c) == [ver |-> c.ver, op |-> c.op, value |-> c.value]

WritesOf(f, n) == {i \in 1..n : log[i].fact = f}

InForce(f, n) == IF WritesOf(f, n) = {} THEN Nil ELSE Entry(log[Max(WritesOf(f, n))])

(* The base's deduplication table and the writer's own memory. *)
Absorbed == IF current = Nil THEN 0 ELSE current.absorbed

FrameOf(o, from, to) == {i \in from..to : log[i].opid = o}

Digest(c) == [op |-> c.op, fact |-> c.fact, ver |-> c.ver, value |-> c.value]

Remembered ==
    [o \in Txids |->
        IF FrameOf(o, 1, Absorbed) # {} /\ o >= current.floor
            THEN LET i == Max(FrameOf(o, 1, Absorbed))
                 IN [kind |-> "entry", digest |-> Digest(log[i]), seq |-> i]
        ELSE IF \A i \in 1..Absorbed : log[i].opid < o THEN [kind |-> "new"]
        ELSE [kind |-> "expired"]]

Tx ==
    [o \in Txids |->
        IF FrameOf(o, Absorbed + 1, Len(log)) = {} THEN Nil
        ELSE LET i == Max(FrameOf(o, Absorbed + 1, Len(log)))
             IN [digest |-> Digest(log[i]), seq |-> i]]

Index == [f \in Facts |-> InForce(f, Len(log))]

NoBaseFacts == [f \in Facts |-> BaseAbsent]

Rules == INSTANCE CommitRules WITH
    OpIds <- Txids, BaseFacts <- NoBaseFacts, BaseDedup <- Remembered, U8Domain <- FALSE

Status(c) == Rules!Decide(Index, Tx, c)

(* _WRITE_MAP: whatever else the writer answers is an overload to the caller. *)
WriteMap(status) ==
    IF status \in {"APPLIED", "DEDUP_REPLAY", "VERSION_CONFLICT", "STALE_REJECTED", "IDEMPOTENT"}
        THEN status ELSE "OVERLOAD"

NoCall == [kind |-> "none"]

Init ==
    /\ made = FALSE /\ log = <<>> /\ current = Nil /\ captured = {}
    /\ life = [h \in Handles |-> "none"]
    /\ store = [h \in Handles |-> "none"]
    /\ writer = [h \in Handles |-> "none"]
    /\ late = [h \in Handles |-> Nil]
    /\ lock = [h \in Handles |-> Nil]
    /\ seen = [h \in Handles |-> [f \in Facts |-> Nil]]
    /\ cache = [h \in Handles |-> <<>>]
    /\ at = [t \in Threads |-> "idle"]
    /\ call = [t \in Threads |-> NoCall]
    /\ acked = 0 /\ fails = 0

Go(t, from, to) == at[t] = from /\ at' = [at EXCEPT ![t] = to]
Fails == fails < MaxFails /\ fails' = fails + 1
H(t) == call[t].h
-----------------------------------------------------------------------------
(* Handles.  The genesis ACTIVE is created with O_EXCL: a second create raises.     *)
Create(h) ==
    /\ life[h] = "none" /\ ~made
    /\ made' = TRUE
    /\ life' = [life EXCEPT ![h] = "making"]
    /\ UNCHANGED <<log, current, captured, writerVars, lock, seen, cache, at, call, acked, fails>>

(* create_genesis does not look at what its publication answers. *)
CreateEnds(h) ==
    /\ life[h] = "making"
    /\ \/ current' = Genesis /\ UNCHANGED fails
       \/ UNCHANGED current /\ Fails
    /\ life' = [life EXCEPT ![h] = "open"]
    /\ store' = [store EXCEPT ![h] = "genesis"]
    /\ UNCHANGED <<made, log, captured, writer, late, lock, seen, cache, at, call, acked>>

(* open(): no writer and no genesis store, whatever the scope holds. *)
Open(h) ==
    /\ life[h] = "none"
    /\ life' = [life EXCEPT ![h] = "open"]
    /\ UNCHANGED <<scopeVars, writerVars, lock, seen, cache, at, call, acked, fails>>

(* The handle's process ends, with its threads and its lease. *)
Dies(h) ==
    /\ life[h] # "none" /\ Fails
    /\ life' = [life EXCEPT ![h] = "none"]
    /\ store' = [store EXCEPT ![h] = "none"]
    /\ writer' = [writer EXCEPT ![h] = "none"]
    /\ late' = [late EXCEPT ![h] = Nil]
    /\ lock' = [lock EXCEPT ![h] = Nil]
    /\ seen' = [seen EXCEPT ![h] = [f \in Facts |-> Nil]]
    /\ cache' = [cache EXCEPT ![h] = <<>>]
    /\ LET gone == {t \in Threads : at[t] # "idle" /\ H(t) = h} IN
       /\ at' = [t \in Threads |-> IF t \in gone THEN "idle" ELSE at[t]]
       /\ call' = [t \in Threads |-> IF t \in gone THEN NoCall ELSE call[t]]
    /\ UNCHANGED <<scopeVars, acked>>
-----------------------------------------------------------------------------
(* Calls that take the lock: put, delete, compact, close.  The handle is checked to  *)
(* be open before, not under, the lock.                                                *)
Enter(t, h, c) ==
    /\ at[t] = "idle" /\ life[h] = "open"
    /\ at' = [at EXCEPT ![t] = "entering"]
    /\ call' = [call EXCEPT ![t] = c]
    /\ UNCHANGED <<scopeVars, life, writerVars, lock, seen, cache, acked, fails>>

BeginWrite(t, h, c) == Enter(t, h, [kind |-> "write", h |-> h, cmd |-> c, state |-> Nil, seq |-> 0])
BeginCompact(t, h) == Enter(t, h, [kind |-> "compact", h |-> h])
BeginClose(t, h) == Enter(t, h, [kind |-> "close", h |-> h])

TakeLock(t) ==
    /\ Go(t, "entering", "locked") /\ lock[H(t)] = Nil
    /\ lock' = [lock EXCEPT ![H(t)] = t]
    /\ UNCHANGED <<scopeVars, life, writerVars, seen, cache, call, acked, fails>>

(* A write leaves the lock with its result. *)
Leave(t, state, seq) ==
    /\ at' = [at EXCEPT ![t] = "returning"]
    /\ call' = [call EXCEPT ![t].state = state, ![t].seq = seq]
    /\ lock' = [lock EXCEPT ![H(t)] = Nil]

InWrite(t, step) == at[t] = step /\ call[t].kind = "write"

(* The frame a command becomes, and the sequence number a receipt carries. *)
Committed(c) == IF Status(c) = "APPLIED" THEN Append(log, c) ELSE log

ReceiptSeq(c) ==
    CASE Status(c) = "APPLIED" -> Len(log) + 1
      [] Status(c) = "DEDUP_REPLAY" -> Rules!DedupSeq(Tx, c)
      [] OTHER -> 0

(* The caller gives up after 5 s.  It takes the command back, as it always does when no  *)
(* worker is left, or the worker has claimed it and commits it later.                      *)
TakesBack(worker) == UNCHANGED late /\ IF worker = "dead" THEN UNCHANGED fails ELSE Fails

LeavesBehind(h, c) ==
    /\ late[h] = Nil /\ ~Rules!PlanRaises(c)
    /\ late' = [late EXCEPT ![h] = c]
    /\ Fails

(* The first write, in the genesis store: a frame no CURRENT covers yet. *)
Seed(t) ==
    LET c == call[t].cmd IN
    /\ InWrite(t, "locked") /\ writer[H(t)] = "none" /\ store[H(t)] = "genesis"
    /\ late[H(t)] = Nil /\ Len(Committed(c)) <= MaxLog /\ ~Rules!PlanRaises(c)
    /\ log' = Committed(c)
    /\ at' = [at EXCEPT ![t] = "seeded"]
    /\ call' = [call EXCEPT ![t].state = WriteMap(Status(c)), ![t].seq = ReceiptSeq(c)]
    /\ UNCHANGED <<made, current, captured, life, writerVars, lock, seen, cache, acked, fails>>

(* Whatever the store answers, the activation goes on: with nothing in time ... *)
SeedTimesOut(t) ==
    LET h == H(t) IN
    /\ InWrite(t, "locked") /\ writer[h] = "none" /\ store[h] \in {"genesis", "dead"}
    /\ at' = [at EXCEPT ![t] = "seeded"]
    /\ \/ call' = [call EXCEPT ![t].state = "NOT_ACCEPTED", ![t].seq = 0] /\ TakesBack(store[h])
       \/ /\ store[h] = "genesis" /\ LeavesBehind(h, call[t].cmd)
          /\ call' = [call EXCEPT ![t].state = "COMMIT_UNKNOWN", ![t].seq = 0]
    /\ UNCHANGED <<scopeVars, life, store, writer, lock, seen, cache, acked>>

(* ... and with a command whose planning ends the worker. *)
SeedKills(t) ==
    LET h == H(t) IN
    /\ InWrite(t, "locked") /\ writer[h] = "none" /\ store[h] = "genesis"
    /\ late[h] = Nil /\ Rules!PlanRaises(call[t].cmd)
    /\ store' = [store EXCEPT ![h] = "dead"]
    /\ at' = [at EXCEPT ![t] = "seeded"]
    /\ call' = [call EXCEPT ![t].state = "COMMIT_UNKNOWN", ![t].seq = 0]
    /\ UNCHANGED <<scopeVars, life, writer, late, lock, seen, cache, acked, fails>>

(* The publication that covers it; its answer is not looked at.  Without a genesis *)
(* publication there is no CURRENT to swap, and the activation raises.               *)
PublishSeed(t) ==
    /\ Go(t, "seeded", "seed published") /\ current # Nil
    /\ \/ current' = [Genesis EXCEPT !.seq = Len(log)] /\ UNCHANGED fails
       \/ UNCHANGED current /\ Fails
    /\ UNCHANGED <<made, log, captured, life, writerVars, lock, seen, cache, call, acked>>

SeedUnpublished(t) ==
    /\ at[t] = "seeded" /\ current = Nil
    /\ Leave(t, "OVERLOAD", 0)
    /\ UNCHANGED <<scopeVars, life, writerVars, seen, cache, acked, fails>>

(* The genesis store is drained, by its worker or after it, and its segment sealed; a *)
(* rotation must come from the CURRENT it replaces.                                      *)
ActivateFirst(t) ==
    /\ at[t] = "seed published" /\ late[H(t)] = Nil
    /\ Len(log) > 0 /\ current.seq = Len(log)
    /\ store' = [store EXCEPT ![H(t)] = "none"]
    /\ writer' = [writer EXCEPT ![H(t)] = "serving"]
    /\ Leave(t, WriteMap(call[t].state), call[t].seq)
    /\ UNCHANGED <<scopeVars, life, late, seen, cache, acked, fails>>

(* An empty store with nothing queued is "not needed" and stays as it was.  A command    *)
(* taken back is queued until a worker skips it: the store is then fenced for nothing.      *)
NotNeeded(t) ==
    LET h == H(t) IN
    /\ at[t] = "seed published" /\ Len(log) = 0
    /\ \/ /\ call[t].state = "NOT_ACCEPTED" => store[h] = "genesis"
          /\ UNCHANGED store
       \/ /\ call[t].state = "NOT_ACCEPTED"
          /\ store' = [store EXCEPT ![h] = "fenced"]
    /\ Leave(t, "OVERLOAD", 0)
    /\ UNCHANGED <<scopeVars, life, writer, late, seen, cache, acked, fails>>

(* Whatever fails after the fence leaves a store that takes no more commands. *)
ActivateFails(t) ==
    /\ at[t] = "seed published" /\ Len(log) > 0
    /\ IF current.seq = Len(log) /\ late[H(t)] = Nil THEN Fails ELSE UNCHANGED fails
    /\ store' = [store EXCEPT ![H(t)] = "fenced"]
    /\ Leave(t, "OVERLOAD", 0)
    /\ UNCHANGED <<scopeVars, life, writer, late, seen, cache, acked>>

(* A published writer's commit: CURRENT covers the frame before the receipt. *)
Submit(t) ==
    LET c == call[t].cmd IN
    /\ InWrite(t, "locked") /\ writer[H(t)] = "serving"
    /\ late[H(t)] = Nil /\ Len(Committed(c)) <= MaxLog /\ ~Rules!PlanRaises(c)
    /\ log' = Committed(c)
    /\ current' = [current EXCEPT !.seq = Len(log')]
    /\ Leave(t, WriteMap(Status(c)), ReceiptSeq(c))
    /\ UNCHANGED <<made, captured, life, writerVars, seen, cache, acked, fails>>

SubmitTimesOut(t) ==
    LET h == H(t) IN
    /\ InWrite(t, "locked") /\ writer[h] \in {"serving", "dead"}
    /\ \/ TakesBack(writer[h])
       \/ writer[h] = "serving" /\ LeavesBehind(h, call[t].cmd)
    /\ Leave(t, "OVERLOAD", 0)
    /\ UNCHANGED <<scopeVars, life, store, writer, seen, cache, acked>>

SubmitKills(t) ==
    LET h == H(t) IN
    /\ InWrite(t, "locked") /\ writer[h] = "serving"
    /\ late[h] = Nil /\ Rules!PlanRaises(call[t].cmd)
    /\ writer' = [writer EXCEPT ![h] = "dead"]
    /\ Leave(t, "OVERLOAD", 0)
    /\ UNCHANGED <<scopeVars, life, store, late, seen, cache, acked, fails>>

(* Nothing to submit to: a reopened or closed memory, a store or writer that stopped. *)
SubmitRaises(t) ==
    /\ InWrite(t, "locked")
    /\ \/ writer[H(t)] = "stopped"
       \/ writer[H(t)] = "none" /\ store[H(t)] \in {"none", "fenced"}
    /\ Leave(t, "OVERLOAD", 0)
    /\ UNCHANGED <<scopeVars, life, writerVars, seen, cache, acked, fails>>

(* The worker of the store commits the command whose caller gave up. *)
LateCommit(h) ==
    /\ late[h] # Nil /\ Len(Committed(late[h])) <= MaxLog
    /\ log' = Committed(late[h])
    /\ current' = IF writer[h] = "serving" THEN [current EXCEPT !.seq = Len(log')] ELSE current
    /\ late' = [late EXCEPT ![h] = Nil]
    /\ UNCHANGED <<made, captured, life, store, writer, lock, seen, cache, at, call, acked, fails>>

(* The writer is poisoned: what it had queued is answered, not committed. *)
WriterPoisoned(h) ==
    /\ writer[h] = "serving" /\ Fails
    /\ writer' = [writer EXCEPT ![h] = "stopped"]
    /\ late' = [late EXCEPT ![h] = Nil]
    /\ UNCHANGED <<scopeVars, life, store, lock, seen, cache, at, call, acked>>

(* Mutant: every delete is taken for one that took effect. *)
TookEffectAlways(c) == TRUE

TookEffect(c) == c.state \in {"APPLIED", "DEDUP_REPLAY"}

(* put and delete mark the fact after they left the lock. *)
Return(t) ==
    LET c == call[t] IN
    /\ Go(t, "returning", "idle")
    /\ call' = [call EXCEPT ![t] = NoCall]
    /\ seen' = IF TookEffect(c)
               THEN [seen EXCEPT ![c.h][c.cmd.fact] = IF c.cmd.op = "PUT" THEN "live" ELSE "deleted"]
               ELSE seen
    /\ acked' = IF c.seq > acked THEN c.seq ELSE acked
    /\ UNCHANGED <<scopeVars, life, writerVars, lock, cache, fails>>
-----------------------------------------------------------------------------
(* compact(): without a writer there is nothing to do; with one, it is drained first. *)
EndCall(t) ==
    /\ at' = [at EXCEPT ![t] = "idle"]
    /\ call' = [call EXCEPT ![t] = NoCall]
    /\ lock' = [lock EXCEPT ![H(t)] = Nil]

InCompact(t, step) == at[t] = step /\ call[t].kind = "compact"

NothingToDo(t) ==
    /\ InCompact(t, "locked") /\ writer[H(t)] = "none"
    /\ EndCall(t)
    /\ UNCHANGED <<scopeVars, life, writerVars, seen, cache, acked, fails>>

CompactDrains(t) ==
    /\ InCompact(t, "locked") /\ writer[H(t)] \in {"serving", "dead"}
    /\ late[H(t)] = Nil
    /\ at' = [at EXCEPT ![t] = "drained"]
    /\ writer' = [writer EXCEPT ![H(t)] = "stopped"]
    /\ UNCHANGED <<scopeVars, life, store, late, lock, seen, cache, call, acked, fails>>

Highest == Max({log[i].opid : i \in 1..Len(log)})

CompactPublishes(t) ==
    /\ InCompact(t, "drained") /\ current.gen < MaxGen
    /\ current' = [gen |-> current.gen + 1, seq |-> Len(log), absorbed |-> Len(log),
                   floor |-> Max({current.floor, Highest - Retention + 1})]
    /\ at' = [at EXCEPT ![t] = "compacted"]
    /\ UNCHANGED <<made, log, captured, life, writerVars, lock, seen, cache, call, acked, fails>>

CompactActivates(t) ==
    /\ InCompact(t, "compacted")
    /\ writer' = [writer EXCEPT ![H(t)] = "serving"]
    /\ EndCall(t)
    /\ UNCHANGED <<scopeVars, life, store, late, seen, cache, acked, fails>>

(* A step fails, at the largest generation id for one: the handle keeps the writer *)
(* that stopped.                                                                      *)
CompactFails(t) ==
    /\ call[t].kind = "compact"
    /\ \/ at[t] = "locked" /\ writer[H(t)] = "stopped" /\ UNCHANGED fails
       \/ at[t] = "drained" /\ current.gen = MaxGen /\ UNCHANGED fails
       \/ at[t] \in {"drained", "compacted"} /\ Fails
    /\ EndCall(t)
    /\ UNCHANGED <<scopeVars, life, writerVars, seen, cache, acked>>

(* Mutant: close() does not wait for the lock. *)
MayCloseAtOnce(t) == at[t] \in {"entering", "locked"}

MayClose(t) == at[t] = "locked"

(* close(): the writer drains what it holds and gives its lease back. *)
Close(t) ==
    LET h == H(t) IN
    /\ call[t].kind = "close" /\ MayClose(t) /\ late[h] = Nil
    /\ life' = [life EXCEPT ![h] = "closed"]
    /\ store' = [store EXCEPT ![h] = "none"]
    /\ writer' = [writer EXCEPT ![h] = "none"]
    /\ at' = [at EXCEPT ![t] = "idle"]
    /\ call' = [call EXCEPT ![t] = NoCall]
    /\ lock' = [lock EXCEPT ![h] = IF lock[h] = t THEN Nil ELSE lock[h]]
    /\ UNCHANGED <<scopeVars, late, seen, cache, acked, fails>>
-----------------------------------------------------------------------------
(* get() and audit() read a manifest through the cache, under no lock. *)
CaptureReadView(h) ==
    /\ life[h] = "open" /\ current # Nil
    /\ current \notin captured /\ Cardinality(captured) < MaxViews
    /\ captured' = captured \cup {current}
    /\ UNCHANGED <<made, log, current, life, writerVars, lock, seen, cache, at, call, acked, fails>>

BeginGet(t, h, f, man) ==
    /\ at[t] = "idle" /\ life[h] = "open" /\ current # Nil
    /\ man = current \/ man \in captured
    /\ at' = [at EXCEPT ![t] = "reading"]
    /\ call' = [call EXCEPT ![t] =
            [kind |-> "get", h |-> h, fact |-> f, man |-> man, found |-> Nil,
             since |-> IF man = current THEN acked ELSE 0]]
    /\ UNCHANGED <<scopeVars, life, writerVars, lock, seen, cache, acked, fails>>

(* Mutant: generations are cached by their id alone. *)
CacheKeyGeneration(man) == man.gen

(* A generation is cached by its manifest, which never changes. *)
CacheKey(man) == man

Cached(h, man) == {i \in DOMAIN cache[h] : CacheKey(cache[h][i]) = CacheKey(man)}

Answer(t, man) == call' = [call EXCEPT ![t].found = InForce(call[t].fact, man.seq)]

Lookup(t) ==
    /\ at[t] = "reading"
    /\ at' = [at EXCEPT ![t] = IF Cached(H(t), call[t].man) = {} THEN "missed" ELSE "hit"]
    /\ call' = IF Cached(H(t), call[t].man) = {} THEN call
               ELSE [call EXCEPT ![t].found =
                        InForce(call[t].fact,
                                cache[H(t)][Max(Cached(H(t), call[t].man))].seq)]
    /\ UNCHANGED <<scopeVars, life, writerVars, lock, seen, cache, acked, fails>>

(* move_to_end: the entry may have been evicted since; then it raises. *)
Touch(t) ==
    LET h == H(t)
        hits == Cached(h, call[t].man)
    IN
    /\ at[t] = "hit"
    /\ IF hits = {}
         THEN /\ at' = [at EXCEPT ![t] = "raised"] /\ UNCHANGED cache
         ELSE /\ at' = [at EXCEPT ![t] = "answered"]
              /\ LET i == Max(hits) IN
                 cache' = [cache EXCEPT ![h] = Append(RemoveAt(@, i), @[i])]
    /\ UNCHANGED <<scopeVars, life, writerVars, lock, seen, call, acked, fails>>

(* Mutant: one entry too many is kept. *)
EvictLate(entries) == IF Len(entries) > CacheSize + 1 THEN Tail(entries) ELSE entries

Evict(entries) == IF Len(entries) > CacheSize THEN Tail(entries) ELSE entries

(* The generation is opened, cached, and the oldest entry evicted. *)
Insert(t) ==
    LET h == H(t)
        grown == IF Cached(h, call[t].man) = {} THEN Append(cache[h], call[t].man) ELSE cache[h]
    IN
    /\ Go(t, "missed", "answered")
    /\ cache' = [cache EXCEPT ![h] = Evict(grown)]
    /\ Answer(t, call[t].man)
    /\ UNCHANGED <<scopeVars, life, writerVars, lock, seen, acked, fails>>

GetReturns(t) ==
    /\ at[t] \in {"answered", "raised"} /\ call[t].kind = "get"
    /\ at' = [at EXCEPT ![t] = "idle"]
    /\ call' = [call EXCEPT ![t] = NoCall]
    /\ UNCHANGED <<scopeVars, life, writerVars, lock, seen, cache, acked, fails>>

(* audit(): one cursor, then the facts this handle has seen deleted. *)
BeginAudit(t, h) ==
    /\ at[t] = "idle" /\ life[h] = "open" /\ current # Nil
    /\ at' = [at EXCEPT ![t] = "auditing"]
    /\ call' = [call EXCEPT ![t] =
            [kind |-> "audit", h |-> h, man |-> current, todo |-> Facts, keys |-> Nil,
             fact |-> Nil, found |-> Nil, bad |-> {}]]
    /\ UNCHANGED <<scopeVars, life, writerVars, lock, seen, cache, acked, fails>>

Keys(h) == {f \in Facts : seen[h][f] # Nil}

(* The loop runs over the dictionary itself: it raises when a fact was added. *)
AuditNext(t) ==
    LET c == call[t]
        keys == IF c.keys = Nil THEN Keys(c.h) ELSE c.keys
    IN
    /\ at[t] = "auditing" /\ c.todo # {}
    /\ \E f \in c.todo :
        /\ at' = [at EXCEPT ![t] = IF keys # Keys(c.h) THEN "raised"
                                   ELSE IF seen[c.h][f] = "deleted" THEN "reading" ELSE "auditing"]
        /\ call' = [call EXCEPT ![t].keys = keys, ![t].fact = f, ![t].todo = @ \ {f}]
    /\ UNCHANGED <<scopeVars, life, writerVars, lock, seen, cache, acked, fails>>

AuditChecks(t) ==
    /\ at[t] = "answered" /\ call[t].kind = "audit"
    /\ at' = [at EXCEPT ![t] = "auditing"]
    /\ call' = [call EXCEPT ![t].bad =
            IF call[t].found # Nil /\ call[t].found.op = "DELETE" THEN @ ELSE @ \cup {call[t].fact}]
    /\ UNCHANGED <<scopeVars, life, writerVars, lock, seen, cache, acked, fails>>

AuditReturns(t) ==
    /\ call[t].kind = "audit"
    /\ (at[t] = "auditing" /\ call[t].todo = {}) \/ at[t] = "raised"
    /\ at' = [at EXCEPT ![t] = "idle"]
    /\ call' = [call EXCEPT ![t] = NoCall]
    /\ UNCHANGED <<scopeVars, life, writerVars, lock, seen, cache, acked, fails>>
-----------------------------------------------------------------------------
Write(t) ==
    \/ Seed(t) \/ SeedTimesOut(t) \/ SeedKills(t) \/ PublishSeed(t) \/ SeedUnpublished(t)
    \/ ActivateFirst(t) \/ NotNeeded(t) \/ ActivateFails(t)
    \/ Submit(t) \/ SubmitTimesOut(t) \/ SubmitKills(t) \/ SubmitRaises(t) \/ Return(t)

Compact(t) ==
    \/ NothingToDo(t) \/ CompactDrains(t) \/ CompactPublishes(t) \/ CompactActivates(t)
    \/ CompactFails(t)

Read(t) ==
    \/ Lookup(t) \/ Touch(t) \/ Insert(t) \/ GetReturns(t)
    \/ AuditNext(t) \/ AuditChecks(t) \/ AuditReturns(t)

Calls(t, h) ==
    \/ \E c \in Commands : BeginWrite(t, h, c)
    \/ BeginCompact(t, h) \/ BeginClose(t, h) \/ BeginAudit(t, h)
    \/ \E f \in Facts, man \in {current} \cup captured : BeginGet(t, h, f, man)

Next ==
    \/ \E h \in Handles :
        \/ Create(h) \/ CreateEnds(h) \/ Open(h) \/ Dies(h)
        \/ LateCommit(h) \/ WriterPoisoned(h) \/ CaptureReadView(h)
        \/ \E t \in Threads : Calls(t, h)
    \/ \E t \in Threads : TakeLock(t) \/ Write(t) \/ Compact(t) \/ Close(t) \/ Read(t)

Spec == Init /\ [][Next]_vars
-----------------------------------------------------------------------------
Steps == {"idle", "entering", "locked", "seeded", "seed published", "returning", "drained",
          "compacted", "reading", "hit", "missed", "answered", "raised", "auditing"}

(* Every variable has the shape its comment gives it. *)
TypeOK ==
    /\ made \in BOOLEAN /\ log \in Seq(Commands) /\ Len(log) <= MaxLog
    /\ \A man \in captured \cup ({current} \ {Nil}) :
         /\ man.gen \in 0..MaxGen /\ man.seq \in 0..Len(log)
         /\ man.absorbed \in 0..man.seq /\ man.floor \in Nat
    /\ life \in [Handles -> {"none", "making", "open", "closed"}]
    /\ store \in [Handles -> {"none", "genesis", "dead", "fenced"}]
    /\ writer \in [Handles -> {"none", "serving", "dead", "stopped"}]
    /\ late \in [Handles -> Commands \cup {Nil}]
    /\ lock \in [Handles -> Threads \cup {Nil}]
    /\ seen \in [Handles -> [Facts -> {"live", "deleted", Nil}]]
    /\ \A h \in Handles : Len(cache[h]) <= CacheSize
    /\ at \in [Threads -> Steps]
    /\ \A t \in Threads : at[t] = "idle" <=> call[t] = NoCall
    /\ acked \in 0..Len(log) /\ fails \in 0..MaxFails

(* A get answers what is in force at its manifest, whoever cached what in between; and *)
(* without a view that manifest covers every write that had returned before the call,    *)
(* the first write of the scope and those of other handles included (_read, _submit).     *)
ReadsFollowWrites ==
    \A t \in Threads : at[t] = "answered" /\ call[t].kind = "get" =>
        /\ call[t].found = InForce(call[t].fact, call[t].man.seq)
        /\ call[t].man.seq >= call[t].since

(* audit() never finds a delete that was lost: whenever it reports "delete não-terminal" *)
(* the delete is after its cursor, or a later put replaced it.  The handle's own record    *)
(* of what it wrote is updated outside the lock, by retries too, so it may be behind.        *)
AuditFindsNoLostDelete ==
    \A t \in Threads : call[t].kind = "audit" =>
        \A f \in call[t].bad : \E i \in 1..Len(log) :
            /\ log[i].fact = f /\ log[i].op = "DELETE"
            /\ \/ i > call[t].man.seq
               \/ \E j \in i + 1 .. call[t].man.seq : log[j].fact = f /\ log[j].op = "PUT"

(* A closed memory holds no writer and no genesis store, even when close() meets a first *)
(* write half way through its activation, or a compaction (close, _submit, compact).        *)
ClosedHoldsNothing ==
    \A h \in Handles : life[h] = "closed" => writer[h] = "none" /\ store[h] = "none"
=============================================================================
