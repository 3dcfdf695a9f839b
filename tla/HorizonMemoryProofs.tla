------------------------ MODULE HorizonMemoryProofs ------------------------
(* Proofs about HorizonMemory, for any handles, threads, facts and commands: a get    *)
(* answers what is in force at its manifest and covers the writes that had returned,    *)
(* an audit accuses no delete that took effect, and a closed memory holds nothing.        *)
EXTENDS HorizonMemory, WellFoundedInduction, TLAPS

-----------------------------------------------------------------------------
(* The shapes of what a thread is calling, and at which steps it has each. *)

Manifests == [gen : 0..MaxGen, seq : Nat, absorbed : Nat, floor : Nat]

WriteStates == {"APPLIED", "DEDUP_REPLAY", "VERSION_CONFLICT", "STALE_REJECTED", "IDEMPOTENT",
                "NOT_ACCEPTED", "COMMIT_UNKNOWN", "OVERLOAD", Nil}

Founds == {Entry(c) : c \in Commands} \cup {Nil}

WriteCalls == [kind : {"write"}, h : Handles, cmd : Commands, state : WriteStates, seq : Nat]
CompactCalls == [kind : {"compact"}, h : Handles]
CloseCalls == [kind : {"close"}, h : Handles]
GetCalls == [kind : {"get"}, h : Handles, fact : Facts, man : Manifests, found : Founds,
             since : Nat]
AuditCalls == [kind : {"audit"}, h : Handles, man : Manifests, todo : SUBSET Facts,
               keys : (SUBSET Facts) \cup {Nil}, fact : Facts \cup {Nil}, found : Founds,
               bad : SUBSET Facts]

Activating == {"seeded", "seed published"}
Compacting == {"drained", "compacted"}
Seeding == {"genesis", "dead"}
Reading == {"reading", "hit", "missed", "answered", "raised"}
InLock == {"locked"} \cup Activating \cup Compacting

ShapeOf(step, c) ==
    /\ step \in Steps
    /\ step = "idle" => c = NoCall
    /\ step \in {"entering", "locked"} => c \in WriteCalls \cup CompactCalls \cup CloseCalls
    /\ step \in Activating \cup {"returning"} => c \in WriteCalls
    /\ step \in Compacting => c \in CompactCalls
    /\ step \in Reading => c \in GetCalls \cup AuditCalls
    /\ step = "auditing" => c \in AuditCalls

Shapes ==
    /\ at \in [Threads -> Steps] /\ DOMAIN call = Threads
    /\ \A t \in Threads : ShapeOf(at[t], call[t])
    /\ current \in Manifests \cup {Nil}
    /\ cache \in [Handles -> Seq(Manifests)]

(* A manifest is within the log, its absorbed frames within it. *)
Within(man) == man \in Manifests /\ man.seq <= Len(log) /\ man.absorbed <= man.seq

Scope ==
    /\ made \in BOOLEAN /\ log \in Seq(Commands) /\ Len(log) <= MaxLog
    /\ \A man \in captured \cup ({current} \ {Nil}) : Within(man)

PerHandle ==
    /\ life \in [Handles -> {"none", "making", "open", "closed"}]
    /\ store \in [Handles -> {"none", "genesis", "dead", "fenced"}]
    /\ writer \in [Handles -> {"none", "serving", "dead", "stopped"}]
    /\ late \in [Handles -> Commands \cup {Nil}]
    /\ lock \in [Handles -> Threads \cup {Nil}]
    /\ seen \in [Handles -> [Facts -> {"live", "deleted", Nil}]]
    /\ \A h \in Handles : Len(cache[h]) <= CacheSize
    /\ fails \in 0..MaxFails

Typing == Shapes /\ Scope /\ PerHandle /\ acked \in 0..Len(log)

-----------------------------------------------------------------------------
(* The invariant: who holds the lock of a handle and what that shields, what the scope  *)
(* holds before it is made, which writes CURRENT covers, and what the threads have read.   *)

LockHeld == \A t \in Threads : at[t] \in InLock => lock[H(t)] = t

Shielded ==
    /\ \A t \in Threads : at[t] \in Activating =>
         store[H(t)] \in Seeding /\ writer[H(t)] = "none"
    /\ \A t \in Threads : at[t] \in Compacting => writer[H(t)] = "stopped"
    /\ \A t \in Threads : at[t] = "seed published" => current \in Manifests
    /\ \A h \in Handles : late[h] # Nil => store[h] # "none" \/ writer[h] # "none"
    /\ \A h \in Handles : writer[h] # "none" => current \in Manifests /\ log # <<>>

Unborn ==
    /\ log = <<>> /\ current = Nil
    /\ \A h \in Handles : store[h] = "none" /\ writer[h] = "none"

Born ==
    /\ ~made => Unborn /\ \A h \in Handles : life[h] # "making"
    /\ \A h \in Handles : life[h] = "making" =>
         made /\ Unborn /\ \A g \in Handles : life[g] = "making" => g = h

Covered(n) == n > 0 => current \in Manifests /\ n <= current.seq

CountOK(step, c) ==
    /\ step = "returning" => Covered(c.seq)
    /\ step \in Activating => c.seq <= Len(log)

Counts == Covered(acked) /\ \A t \in Threads : CountOK(at[t], call[t])

ReadAt(step, c) ==
    /\ step \in Reading \cup {"auditing"} => c.man.seq <= Len(log)
    /\ step \in Reading /\ c.kind = "get" => c.since <= c.man.seq
    /\ step \in {"hit", "answered"} => c.found = InForce(c.fact, c.man.seq)

Reads == \A t \in Threads : ReadAt(at[t], call[t])

Written(f, op) == \E i \in 1..Len(log) : log[i].fact = f /\ log[i].op = op

DeleteLost(f, n) ==
    \E i \in 1..Len(log) :
        /\ log[i].fact = f /\ log[i].op = "DELETE"
        /\ i > n \/ \E j \in i + 1 .. n : log[j].fact = f /\ log[j].op = "PUT"

AuditOK(step, c) ==
    c.kind = "audit" =>
        /\ step \in Reading \ {"raised"} => c.fact \in Facts /\ Written(c.fact, "DELETE")
        /\ \A f \in c.bad : DeleteLost(f, c.man.seq)

Deletes ==
    /\ \A h \in Handles, f \in Facts : seen[h][f] = "deleted" => Written(f, "DELETE")
    /\ \A t \in Threads :
         at[t] \in Activating \cup {"returning"} /\ TookEffect(call[t]) =>
             Written(call[t].cmd.fact, call[t].cmd.op)
    /\ \A t \in Threads : AuditOK(at[t], call[t])

IInv == Typing /\ LockHeld /\ Shielded /\ Born /\ Counts /\ Reads /\ Deletes /\ ClosedHoldsNothing
-----------------------------------------------------------------------------
(* A set of naturals that is not empty has a least element. *)
LEMMA LeastNat ==
    ASSUME NEW S \in SUBSET Nat, S # {}
    PROVE  \E x \in S : \A y \in S : x <= y
<1> DEFINE R == OpToRel(<, Nat)
<1>1. IsWellFoundedOn(R, Nat)
  BY NatLessThanWellFounded
<1>2. \A y, z \in Nat : y < z => <<y, z>> \in R
  BY DEF OpToRel
<1> HIDE DEF R
<1>3. PICK x \in S : \A y \in S : ~ (<<y, x>> \in R)
  BY <1>1, WFMin
<1>4. ASSUME NEW y \in S PROVE x <= y
  <2>1. x \in Nat /\ y \in Nat
    OBVIOUS
  <2>2. ~ (y < x)
    BY <1>2, <1>3, <2>1, Zenon
  <2> QED
    BY <2>1, <2>2
<1> QED
  BY <1>4

(* And a greatest one when it is bounded: Max is that one. *)
LEMMA MaxOfNats ==
    ASSUME NEW S \in SUBSET Nat, S # {}, NEW n \in Nat, \A x \in S : x <= n
    PROVE  Max(S) \in S /\ \A y \in S : Max(S) >= y
<1> DEFINE T == {n - x : x \in S}
<1>1. T \in SUBSET Nat /\ T # {}
  <2>1. \A x \in S : x \in Nat /\ n - x \in Nat
    OBVIOUS
  <2> QED
    BY <2>1
<1> HIDE DEF T
<1>2. PICK k \in T : \A y \in T : k <= y
  BY <1>1, LeastNat
<1> USE DEF T
<1>3. PICK m \in S : k = n - m
  BY <1>2
<1>4. ASSUME NEW y \in S PROVE m >= y
  <2>1. n - y \in T
    OBVIOUS
  <2>2. n - m <= n - y
    BY <1>2, <1>3, <2>1
  <2> QED
    BY <2>2
<1> QED
  BY <1>4 DEF Max

(* The largest index of a part of 1..n. *)
LEMMA MaxOfIndices ==
    ASSUME NEW n \in Nat, NEW S \in SUBSET (1..n), S # {}
    PROVE  Max(S) \in S /\ \A y \in S : y <= Max(S)
<1>1. S \in SUBSET Nat /\ \A x \in S : x <= n
  OBVIOUS
<1> QED
  BY <1>1, MaxOfNats

-----------------------------------------------------------------------------
(* What is in force in the first n frames is the last write among them. *)
LEMMA InForceIs ==
    ASSUME log \in Seq(Commands), NEW f, NEW n \in 0..Len(log)
    PROVE  \/ InForce(f, n) = Nil /\ \A i \in 1..n : log[i].fact # f
           \/ \E i \in 1..n : /\ log[i].fact = f /\ InForce(f, n) = Entry(log[i])
                              /\ \A j \in i + 1 .. n : log[j].fact # f
<1> DEFINE W == WritesOf(f, n)
<1>1. CASE W = {}
  BY <1>1 DEF InForce, WritesOf
<1>2. CASE W # {}
  <2>1. W \in SUBSET (1..n) /\ n \in Nat
    BY DEF WritesOf
  <2>2. Max(W) \in W /\ \A y \in W : y <= Max(W)
    <3> HIDE DEF W
    <3> QED
      BY <1>2, <2>1, MaxOfIndices
  <2>3. ASSUME NEW j \in Max(W) + 1 .. n PROVE log[j].fact # f
    <3>1. j \in 1..n /\ ~ (j <= Max(W))
      BY <2>1, <2>2
    <3> QED
      BY <2>2, <3>1 DEF WritesOf
  <2>4. Max(W) \in 1..n /\ log[Max(W)].fact = f
    BY <2>2 DEF WritesOf
  <2>5. InForce(f, n) = Entry(log[Max(W)])
    BY <1>2 DEF InForce
  <2> HIDE DEF W
  <2> QED
    BY <2>3, <2>4, <2>5
<1> QED
  BY <1>1, <1>2

LEMMA InForceType ==
    ASSUME log \in Seq(Commands), NEW f, NEW n \in 0..Len(log)
    PROVE  InForce(f, n) \in Founds
<1>1. \A i \in 1..n : log[i] \in Commands
  OBVIOUS
<1> QED
  BY <1>1, InForceIs DEF Founds

(* The log only grows, and CURRENT never covers less of it. *)
LogGrows ==
    /\ log' \in Seq(Commands) /\ Len(log) <= Len(log')
    /\ \A i \in 1..Len(log) : log'[i] = log[i]

Grows ==
    /\ LogGrows
    /\ current \in Manifests => current' \in Manifests /\ current.seq <= current'.seq

(* What was in force in the frames of the past stays so. *)
LEMMA InForceKept ==
    ASSUME log \in Seq(Commands), LogGrows, NEW f, NEW n \in 0..Len(log)
    PROVE  InForce(f, n)' = InForce(f, n)
<1>1. \A i \in 1..n : log'[i] = log[i]
  BY DEF LogGrows
<1>2. WritesOf(f, n)' = WritesOf(f, n)
  BY <1>1 DEF WritesOf
<1>3. CASE WritesOf(f, n) = {}
  BY <1>2, <1>3 DEF InForce
<1>4. CASE WritesOf(f, n) # {}
  <2>1. Max(WritesOf(f, n)) \in 1..n
    <3>1. WritesOf(f, n) \in SUBSET (1..n) /\ n \in Nat
      BY DEF WritesOf
    <3> QED
      BY <1>4, <3>1, MaxOfIndices
  <2> QED
    BY <1>1, <1>2, <1>4, <2>1 DEF InForce, Entry
<1> QED
  BY <1>3, <1>4

LEMMA WrittenKept ==
    ASSUME log \in Seq(Commands), LogGrows, NEW f, NEW op, Written(f, op)
    PROVE  Written(f, op)'
BY DEF Written, LogGrows

LEMMA DeleteLostKept ==
    ASSUME log \in Seq(Commands), LogGrows, NEW f, NEW n \in 0..Len(log), DeleteLost(f, n)
    PROVE  DeleteLost(f, n)'
<1>1. PICK i \in 1..Len(log) :
        /\ log[i].fact = f /\ log[i].op = "DELETE"
        /\ i > n \/ \E j \in i + 1 .. n : log[j].fact = f /\ log[j].op = "PUT"
  BY DEF DeleteLost
<1>2. i \in 1..Len(log') /\ log'[i] = log[i]
  BY DEF LogGrows
<1>3. \A j \in i + 1 .. n : log'[j] = log[j]
  BY DEF LogGrows
<1> QED
  BY <1>1, <1>2, <1>3 DEF DeleteLost
-----------------------------------------------------------------------------
(* The frames of an operation id between two places. *)
LEMMA FrameFound ==
    ASSUME log \in Seq(Commands), NEW o, NEW from \in Nat \ {0}, NEW to \in Nat, to <= Len(log),
           FrameOf(o, from, to) # {}
    PROVE  Max(FrameOf(o, from, to)) \in 1..Len(log)
<1>1. FrameOf(o, from, to) \in SUBSET (1..to)
  BY DEF FrameOf
<1> HIDE DEF FrameOf
<1>2. Max(FrameOf(o, from, to)) \in 1..to
  BY <1>1, MaxOfIndices
<1> QED
  BY <1>2

LEMMA AbsorbedType ==
    ASSUME Shapes, Scope
    PROVE  Absorbed \in 0..Len(log)
<1>1. CASE current = Nil
  BY <1>1 DEF Absorbed, Scope
<1>2. CASE current # Nil
  <2>1. Within(current)
    BY <1>2 DEF Scope
  <2> QED
    BY <1>2, <2>1 DEF Absorbed, Within, Manifests, Scope
<1> QED
  BY <1>1, <1>2

(* A retry is answered with a frame of the log that says the same. *)
LEMMA RetryFound ==
    ASSUME Shapes, Scope, NEW c \in Commands, Status(c) = "DEDUP_REPLAY"
    PROVE  /\ Rules!DedupSeq(Tx, c) \in 1..Len(log)
           /\ Written(c.fact, c.op)
<1>0. c.opid \in Txids /\ log \in Seq(Commands) /\ Absorbed \in 0..Len(log)
  BY FacadeAssumption, AbsorbedType DEF Scope
<1>1. Rules!ClassifyDedup(Tx, c) = "dedup_replay"
  BY DEF Status, Rules!Decide
<1>2. CASE Rules!TxCheck(Tx, c) # "new"
  <2>1. Tx[c.opid] # Nil /\ Tx[c.opid].digest = Rules!ContentDigest(c)
    BY <1>1, <1>2 DEF Rules!ClassifyDedup, Rules!TxCheck
  <2> DEFINE F == FrameOf(c.opid, Absorbed + 1, Len(log))
             i == Max(F)
  <2>2. F # {} /\ Tx[c.opid] = [digest |-> Digest(log[i]), seq |-> i]
    BY <1>0, <2>1 DEF Tx
  <2>3. i \in 1..Len(log)
    BY <1>0, <2>2, FrameFound
  <2>4. log[i].fact = c.fact /\ log[i].op = c.op
    BY <2>1, <2>2 DEF Digest, Rules!ContentDigest
  <2> QED
    BY <2>1, <2>2, <2>3, <2>4 DEF Rules!DedupSeq, Written
<1>3. CASE Rules!TxCheck(Tx, c) = "new"
  <2>1. /\ Remembered[c.opid].kind = "entry"
        /\ Remembered[c.opid].digest = Rules!ContentDigest(c)
    <3>1. Rules!DedupProbe(c) = "replay"
      BY <1>1, <1>3 DEF Rules!ClassifyDedup
    <3>2. Remembered[c.opid].kind \in {"entry", "new", "expired"}
      BY <1>0 DEF Remembered
    <3> QED
      BY <3>1, <3>2 DEF Rules!DedupProbe
  <2> DEFINE F == FrameOf(c.opid, 1, Absorbed)
             i == Max(F)
  <2>2. F # {} /\ Remembered[c.opid] = [kind |-> "entry", digest |-> Digest(log[i]), seq |-> i]
    BY <1>0, <2>1 DEF Remembered
  <2>3. i \in 1..Len(log)
    BY <1>0, <2>2, FrameFound
  <2>4. log[i].fact = c.fact /\ log[i].op = c.op
    BY <2>1, <2>2 DEF Digest, Rules!ContentDigest
  <2>5. Tx[c.opid] = Nil
    BY <1>3 DEF Rules!TxCheck
  <2> QED
    BY <2>2, <2>3, <2>4, <2>5 DEF Rules!DedupSeq, Written
<1> QED
  BY <1>2, <1>3

(* What a commit does to the log, and the receipt it gives. *)
LEMMA CommitOK ==
    ASSUME Shapes, Scope, NEW c \in Commands, log' = Committed(c)
    PROVE  /\ LogGrows
           /\ ReceiptSeq(c) \in 0..Len(log')
           /\ WriteMap(Status(c)) \in WriteStates
           /\ WriteMap(Status(c)) \in {"APPLIED", "DEDUP_REPLAY"} => Written(c.fact, c.op)'
<1>0. log \in Seq(Commands)
  BY DEF Scope
<1>1. LogGrows
  BY <1>0 DEF Committed, LogGrows
<1>2. CASE Status(c) = "APPLIED"
  <2>1. log' = Append(log, c)
    BY <1>2 DEF Committed
  <2>2. Len(log') = Len(log) + 1 /\ log'[Len(log) + 1] = c
    BY <1>0, <2>1
  <2>3. Written(c.fact, c.op)'
    BY <1>0, <2>2 DEF Written
  <2> QED
    BY <1>0, <1>1, <1>2, <2>2, <2>3 DEF ReceiptSeq, WriteMap, WriteStates
<1>3. CASE Status(c) = "DEDUP_REPLAY"
  <2>1. log' = log
    BY <1>3 DEF Committed
  <2>2. Written(c.fact, c.op) /\ Rules!DedupSeq(Tx, c) \in 1..Len(log)
    BY <1>3, RetryFound
  <2>3. Written(c.fact, c.op)'
    BY <2>1, <2>2 DEF Written
  <2> QED
    BY <1>0, <1>1, <1>3, <2>1, <2>2, <2>3 DEF ReceiptSeq, WriteMap, WriteStates
<1>4. CASE Status(c) \notin {"APPLIED", "DEDUP_REPLAY"}
  BY <1>0, <1>1, <1>4 DEF ReceiptSeq, WriteMap, WriteStates, LogGrows
<1> QED
  BY <1>2, <1>3, <1>4

-----------------------------------------------------------------------------
(* A step of thread t: the other threads stay where they are. *)
Moves(t, step, c) ==
    /\ at' = [at EXCEPT ![t] = step] /\ DOMAIN call' = Threads
    /\ call'[t] = c /\ \A u \in Threads \ {t} : call'[u] = call[u]

LEMMA ShapesMove ==
    ASSUME Shapes, NEW t \in Threads, NEW step, NEW c, Moves(t, step, c), ShapeOf(step, c),
           current' \in Manifests \cup {Nil}, cache' \in [Handles -> Seq(Manifests)]
    PROVE  Shapes'
<1>1. at' \in [Threads -> Steps]
  BY DEF Shapes, Moves, ShapeOf
<1>2. ASSUME NEW u \in Threads PROVE ShapeOf(at'[u], call'[u])
  <2>1. CASE u = t
    BY <2>1 DEF Shapes, Moves
  <2>2. CASE u # t
    <3>1. at'[u] = at[u] /\ call'[u] = call[u] /\ ShapeOf(at[u], call[u])
      BY <2>2 DEF Shapes, Moves
    <3> QED
      BY <3>1
  <2> QED
    BY <2>1, <2>2
<1>3. DOMAIN call' = Threads
  BY DEF Moves
<1> QED
  BY <1>1, <1>2, <1>3 DEF Shapes
-----------------------------------------------------------------------------
(* Which steps change the scope, and which the handles' stores and writers. *)
LEMMA ScopeChanges ==
    ASSUME [Next]_vars
    PROVE  \/ UNCHANGED scopeVars
           \/ \E h \in Handles :
                Create(h) \/ CreateEnds(h) \/ LateCommit(h) \/ CaptureReadView(h)
           \/ \E t \in Threads : Seed(t) \/ PublishSeed(t) \/ Submit(t) \/ CompactPublishes(t)
<1> USE DEF scopeVars, writerVars
<1>1. CASE UNCHANGED vars
  BY <1>1 DEF vars
<1>2. ASSUME NEW h \in Handles,
             \/ Create(h) \/ CreateEnds(h) \/ Open(h) \/ Dies(h)
             \/ LateCommit(h) \/ WriterPoisoned(h) \/ CaptureReadView(h)
      PROVE  UNCHANGED scopeVars
                \/ Create(h) \/ CreateEnds(h) \/ LateCommit(h) \/ CaptureReadView(h)
  BY <1>2 DEF Open, Dies, WriterPoisoned
<1>3. ASSUME NEW h \in Handles, NEW t \in Threads, Calls(t, h) PROVE UNCHANGED scopeVars
  BY <1>3 DEF Calls, BeginWrite, BeginCompact, BeginClose, Enter, BeginAudit, BeginGet
<1>4. ASSUME NEW t \in Threads, TakeLock(t) \/ Close(t) \/ Read(t) PROVE UNCHANGED scopeVars
  BY <1>4 DEF TakeLock, Close, Read, Lookup, Touch, Insert, GetReturns, AuditNext, AuditChecks,
     AuditReturns
<1>5. ASSUME NEW t \in Threads, Write(t)
      PROVE  UNCHANGED scopeVars \/ Seed(t) \/ PublishSeed(t) \/ Submit(t)
  BY <1>5 DEF Write, SeedTimesOut, SeedKills, SeedUnpublished, ActivateFirst, NotNeeded,
     ActivateFails, SubmitTimesOut, SubmitKills, SubmitRaises, Return
<1>6. ASSUME NEW t \in Threads, Compact(t) PROVE UNCHANGED scopeVars \/ CompactPublishes(t)
  BY <1>6 DEF Compact, NothingToDo, CompactDrains, CompactActivates, CompactFails
<1> HIDE DEF scopeVars, writerVars
<1> QED
  BY <1>1, <1>2, <1>3, <1>4, <1>5, <1>6, Zenon DEF Next

LEMMA WriterChanges ==
    ASSUME [Next]_vars
    PROVE  \/ UNCHANGED <<life, store, writer>>
           \/ \E h \in Handles :
                Create(h) \/ CreateEnds(h) \/ Open(h) \/ Dies(h) \/ WriterPoisoned(h)
           \/ \E t \in Threads :
                \/ SeedKills(t) \/ SubmitKills(t)
                \/ ActivateFirst(t) \/ NotNeeded(t) \/ ActivateFails(t)
                \/ CompactDrains(t) \/ CompactActivates(t) \/ Close(t)
<1> USE DEF scopeVars, writerVars
<1>1. CASE UNCHANGED vars
  BY <1>1 DEF vars
<1>2. ASSUME NEW h \in Handles,
             \/ Create(h) \/ CreateEnds(h) \/ Open(h) \/ Dies(h)
             \/ LateCommit(h) \/ WriterPoisoned(h) \/ CaptureReadView(h)
      PROVE  UNCHANGED <<life, store, writer>>
                \/ Create(h) \/ CreateEnds(h) \/ Open(h) \/ Dies(h) \/ WriterPoisoned(h)
  BY <1>2 DEF LateCommit, CaptureReadView
<1>3. ASSUME NEW h \in Handles, NEW t \in Threads, Calls(t, h)
      PROVE  UNCHANGED <<life, store, writer>>
  BY <1>3 DEF Calls, BeginWrite, BeginCompact, BeginClose, Enter, BeginAudit, BeginGet
<1>4. ASSUME NEW t \in Threads, TakeLock(t) \/ Read(t) PROVE UNCHANGED <<life, store, writer>>
  BY <1>4 DEF TakeLock, Read, Lookup, Touch, Insert, GetReturns, AuditNext, AuditChecks,
     AuditReturns
<1>5. ASSUME NEW t \in Threads, Write(t)
      PROVE  \/ UNCHANGED <<life, store, writer>>
             \/ SeedKills(t) \/ SubmitKills(t)
             \/ ActivateFirst(t) \/ NotNeeded(t) \/ ActivateFails(t)
  BY <1>5 DEF Write, Seed, SeedTimesOut, PublishSeed, SeedUnpublished, Submit, SubmitTimesOut,
     SubmitRaises, Return
<1>6. ASSUME NEW t \in Threads, Compact(t)
      PROVE  UNCHANGED <<life, store, writer>> \/ CompactDrains(t) \/ CompactActivates(t)
  BY <1>6 DEF Compact, NothingToDo, CompactPublishes, CompactFails
<1> HIDE DEF scopeVars, writerVars
<1> QED
  BY <1>1, <1>2, <1>3, <1>4, <1>5, <1>6, Zenon DEF Next

-----------------------------------------------------------------------------
(* The scope. *)
LEMMA MaxOfTwo ==
    ASSUME NEW a \in Nat, NEW b \in Int
    PROVE  Max({a, b}) \in Nat
<1>1. Max({a, b}) \in {a, b} /\ Max({a, b}) >= a
  <2>1. CASE a >= b
    <3>1. \A x \in {a, b} : a >= x
      BY <2>1
    <3> QED
      BY <3>1 DEF Max
  <2>2. CASE ~ (a >= b)
    <3>1. \A x \in {a, b} : b >= x
      BY <2>2
    <3> QED
      BY <3>1 DEF Max
  <2> QED
    BY <2>1, <2>2
<1> QED
  BY <1>1

LEMMA OpidType ==
    ASSUME log \in Seq(Commands), NEW i \in 1..Len(log)
    PROVE  log[i].opid \in Nat
<1>1. log[i] \in Commands
  OBVIOUS
<1>2. log[i].opid \in Txids /\ Txids \subseteq Nat
  BY <1>1, FacadeAssumption
<1> QED
  BY <1>2

(* The operation ids of a log are bounded: a least prefix without a bound would have one. *)
LEMMA OpidsBounded ==
    ASSUME log \in Seq(Commands)
    PROVE  \E b \in Nat : \A i \in 1..Len(log) : log[i].opid <= b
<1> DEFINE Bounded(n) == \E b \in Nat : \A i \in 1..n : log[i].opid <= b
           T == {n \in 0..Len(log) : ~ Bounded(n)}
<1>1. \A i \in 1..Len(log) : log[i].opid \in Nat
  BY OpidType
<1>2. Bounded(0)
  <2>1. 0 \in Nat /\ \A i \in 1..0 : log[i].opid <= 0
    OBVIOUS
  <2> QED
    BY <2>1
<1>3. ASSUME NEW n \in 1..Len(log), Bounded(n - 1) PROVE Bounded(n)
  <2>1. PICK b \in Nat : \A i \in 1..(n - 1) : log[i].opid <= b
    BY <1>3
  <2>2. PICK m \in Nat : b <= m /\ log[n].opid <= m
    <3>1. CASE b <= log[n].opid
      BY <1>1, <3>1
    <3>2. CASE log[n].opid <= b
      BY <1>1, <3>2
    <3> QED
      BY <1>1, <3>1, <3>2
  <2>3. ASSUME NEW i \in 1..n PROVE log[i].opid <= m
    <3>1. CASE i = n
      BY <2>2, <3>1
    <3>2. CASE i \in 1..(n - 1)
      <4>1. log[i].opid <= b /\ log[i].opid \in Nat
        BY <1>1, <2>1, <3>2
      <4> QED
        BY <2>2, <4>1
    <3> QED
      BY <3>1, <3>2
  <2> QED
    BY <2>3
<1>4. CASE T = {}
  <2>1. Len(log) \in 0..Len(log)
    OBVIOUS
  <2> QED
    BY <1>4, <2>1
<1>5. CASE T # {}
  <2>0. T \in SUBSET Nat
    OBVIOUS
  <2>1. PICK n \in T : \A m \in T : n <= m
    <3> HIDE DEF T
    <3> QED
      BY <1>5, <2>0, LeastNat
  <2>2. n \in 1..Len(log) /\ n - 1 \in 0..Len(log) /\ n - 1 \notin T
    <3>1. n # 0
      BY <1>2
    <3> HIDE DEF Bounded
    <3> QED
      BY <2>1, <3>1
  <2> HIDE DEF Bounded
  <2> QED
    BY <1>3, <2>2
<1> QED
  BY <1>4, <1>5

LEMMA HighestType ==
    ASSUME log \in Seq(Commands), log # <<>>
    PROVE  Highest \in Nat
<1> DEFINE Opids == {log[i].opid : i \in 1..Len(log)}
<1>1. Opids \in SUBSET Nat /\ Opids # {}
  BY OpidType
<1>2. PICK n \in Nat : \A x \in Opids : x <= n
  BY OpidsBounded
<1>3. Max(Opids) \in Opids
  <2> HIDE DEF Opids
  <2> QED
    BY <1>1, <1>2, MaxOfNats
<1> QED
  BY <1>1, <1>3 DEF Highest

(* The calls of threads in the middle of a write, a compaction or a close. *)
LEMMA CallType ==
    ASSUME Shapes, NEW t \in Threads
    PROVE  /\ at[t] \in {"entering", "locked"} \cup Activating \cup Compacting \cup {"returning"} =>
                H(t) \in Handles
           /\ at[t] = "locked" /\ call[t].kind = "write" => call[t] \in WriteCalls
           /\ at[t] \in Activating \cup {"returning"} => call[t] \in WriteCalls
           /\ call[t] \in WriteCalls => call[t].cmd \in Commands
<1>1. ShapeOf(at[t], call[t])
  BY DEF Shapes
<1> QED
  BY <1>1 DEF ShapeOf, Activating, Compacting, WriteCalls, CompactCalls, CloseCalls, H

LEMMA StepScope ==
    ASSUME Typing, Shielded, Born, [Next]_vars
    PROVE  Scope' /\ Grows /\ current' \in Manifests \cup {Nil}
<1>0. /\ log \in Seq(Commands) /\ Len(log) \in Nat /\ current \in Manifests \cup {Nil}
      /\ Nil \notin Manifests /\ \A man \in Manifests : man.seq \in Nat
      /\ 0 \in 0..MaxGen /\ MaxGen \in Nat /\ MaxLog \in Nat
  BY FacadeAssumption, NoneAssumption DEF Typing, Shapes, Scope, Manifests
<1>1. CASE UNCHANGED scopeVars
  BY <1>0, <1>1 DEF scopeVars, Typing, Scope, Within, Grows, LogGrows, Manifests
<1>2. ASSUME NEW h \in Handles, Create(h) \/ CaptureReadView(h)
      PROVE  Scope' /\ Grows /\ current' \in Manifests \cup {Nil}
  <2>1. /\ log' = log /\ current' = current /\ made' \in BOOLEAN
        /\ captured' = captured \/ (captured' = captured \cup {current} /\ current # Nil)
    <3>1. CASE Create(h)
      BY <3>1 DEF Create
    <3>2. CASE CaptureReadView(h)
      BY <3>2 DEF CaptureReadView, Typing, Scope
    <3> QED
      BY <1>2, <3>1, <3>2
  <2>2. Grows
    BY <1>0, <2>1 DEF Grows, LogGrows
  <2>3. Scope'
    BY <1>0, <2>1 DEF Typing, Scope, Within
  <2> QED
    BY <1>0, <2>1, <2>2, <2>3
<1>3. ASSUME NEW h \in Handles, CreateEnds(h)
      PROVE  Scope' /\ Grows /\ current' \in Manifests \cup {Nil}
  <2>1. log = <<>> /\ current = Nil /\ Genesis \in Manifests
    BY <1>0, <1>3 DEF CreateEnds, Born, Unborn, Genesis, Manifests
  <2>2. Grows
    BY <1>0, <1>3, <2>1 DEF CreateEnds, Grows, LogGrows
  <2>3. Within(Genesis)
    BY <1>0, <2>1 DEF Within, Genesis
  <2>4. log' = log /\ made' = made /\ captured' = captured /\ current' \in {Genesis, current}
    BY <1>3 DEF CreateEnds
  <2>5. \A man \in captured' \cup ({current'} \ {Nil}) : Within(man)'
    BY <2>3, <2>4 DEF Typing, Scope, Within
  <2> QED
    BY <1>0, <2>1, <2>2, <2>4, <2>5 DEF Typing, Scope
<1>4. ASSUME NEW c \in Commands, log' = Committed(c), Len(Committed(c)) <= MaxLog,
             captured' = captured, made' = made,
             \/ current' = current
             \/ current \in Manifests /\ current' = [current EXCEPT !.seq = Len(log')]
      PROVE  Scope' /\ Grows /\ current' \in Manifests \cup {Nil}
  <2>1. LogGrows
    BY <1>4, CommitOK DEF Typing
  <2>2. current \in Manifests /\ current # Nil => Within(current)
    BY DEF Typing, Scope
  <2>3. \A man : Within(man) => Within(man)'
    BY <1>0, <2>1 DEF Within, LogGrows, Manifests
  <2>4. CASE current' = current
    <3>1. Scope'
      BY <1>4, <2>1, <2>3, <2>4 DEF Typing, Scope, LogGrows
    <3> QED
      BY <1>0, <2>1, <2>4, <3>1 DEF Grows, Manifests
  <2>5. CASE current \in Manifests /\ current # Nil /\ current' = [current EXCEPT !.seq = Len(log')]
    <3>1. current' \in Manifests /\ current'.seq = Len(log') /\ current'.absorbed = current.absorbed
      BY <2>1, <2>5 DEF Manifests, LogGrows
    <3>2. Within(current)'
      BY <1>0, <2>1, <2>2, <2>5, <3>1 DEF Within, LogGrows, Manifests
    <3>3. \A man \in captured' : Within(man)'
      BY <1>4, <2>3 DEF Typing, Scope
    <3>4. Grows
      BY <1>0, <2>1, <2>2, <2>5, <3>1 DEF Grows, Within, LogGrows, Manifests
    <3> QED
      BY <1>4, <2>1, <3>1, <3>2, <3>3, <3>4 DEF Typing, Scope, LogGrows
  <2> QED
    BY <1>0, <1>4, <2>4, <2>5
<1>5. ASSUME NEW h \in Handles, LateCommit(h)
      PROVE  Scope' /\ Grows /\ current' \in Manifests \cup {Nil}
  <2>1. late[h] \in Commands
    BY <1>5 DEF LateCommit, Typing, PerHandle
  <2>2. writer[h] = "serving" => current \in Manifests
    BY DEF Shielded
  <2> QED
    BY <1>4, <1>5, <2>1, <2>2 DEF LateCommit
<1>6. ASSUME NEW t \in Threads, Seed(t) \/ Submit(t)
      PROVE  Scope' /\ Grows /\ current' \in Manifests \cup {Nil}
  <2>1. call[t].cmd \in Commands /\ H(t) \in Handles
    BY <1>6, CallType DEF Seed, SeedTimesOut, SeedKills, Submit, InWrite, Typing
  <2>2. writer[H(t)] = "serving" => current \in Manifests
    BY <2>1 DEF Shielded
  <2> QED
    BY <1>4, <1>6, <2>1, <2>2 DEF Seed, SeedTimesOut, SeedKills, Submit
<1>7. ASSUME NEW t \in Threads, PublishSeed(t)
      PROVE  Scope' /\ Grows /\ current' \in Manifests \cup {Nil}
  <2>1. log' = log /\ made' = made /\ captured' = captured /\ current # Nil
    BY <1>7 DEF PublishSeed
  <2>2. current' = current \/ current' = [Genesis EXCEPT !.seq = Len(log)]
    BY <1>7 DEF PublishSeed
  <2>3. current \in Manifests /\ Within(current)
    BY <1>0, <2>1 DEF Typing, Scope
  <2>4. /\ [Genesis EXCEPT !.seq = Len(log)] \in Manifests
        /\ [Genesis EXCEPT !.seq = Len(log)].seq = Len(log)
        /\ [Genesis EXCEPT !.seq = Len(log)].absorbed = 0
    BY <1>0 DEF Genesis, Manifests
  <2>5. current' \in Manifests /\ current'.seq <= Len(log) /\ current'.absorbed <= current'.seq
        /\ current.seq <= current'.seq
    BY <1>0, <2>2, <2>3, <2>4 DEF Within, Manifests
  <2>6. Scope'
    BY <2>1, <2>5 DEF Typing, Scope, Within
  <2> QED
    BY <1>0, <2>1, <2>5, <2>6 DEF Grows, LogGrows
<1>8. ASSUME NEW t \in Threads, CompactPublishes(t)
      PROVE  Scope' /\ Grows /\ current' \in Manifests \cup {Nil}
  <2>1. log' = log /\ made' = made /\ captured' = captured /\ current.gen < MaxGen
    BY <1>8 DEF CompactPublishes
  <2>2. H(t) \in Handles /\ writer[H(t)] = "stopped"
    BY <1>8, CallType DEF CompactPublishes, InCompact, Compacting, Shielded, Typing
  <2>3. current \in Manifests /\ log # <<>>
    BY <2>2 DEF Shielded
  <2>4. Max({current.floor, Highest - Retention + 1}) \in Nat
    <3>1. Highest - Retention + 1 \in Int
      BY <1>0, <2>3, HighestType, FacadeAssumption
    <3>2. current.floor \in Nat
      BY <2>3 DEF Manifests
    <3> QED
      BY <3>1, <3>2, MaxOfTwo
  <2>5. current' \in Manifests /\ current'.seq = Len(log) /\ current'.absorbed = Len(log)
    <3>1. current.gen + 1 \in 0..MaxGen
      BY <1>0, <2>1, <2>3 DEF Manifests
    <3> QED
      BY <1>0, <1>8, <2>4, <3>1 DEF CompactPublishes, Manifests
  <2>6. current.seq <= Len(log)
    BY <2>3, NoneAssumption DEF Manifests, Typing, Scope, Within
  <2>7. Scope'
    BY <1>0, <2>1, <2>5 DEF Typing, Scope, Within
  <2> QED
    BY <1>0, <2>1, <2>5, <2>6, <2>7 DEF Grows, LogGrows
<1> QED
  BY <1>1, <1>2, <1>3, <1>5, <1>6, <1>7, <1>8, ScopeChanges

-----------------------------------------------------------------------------
(* The shapes of the calls.  Steps of one thread first, those that read last. *)
LEMMA ShapeOfIdle == ShapeOf("idle", NoCall)
BY DEF ShapeOf, Steps, Activating, Compacting, Reading

LEMMA BeginShapes ==
    ASSUME Typing, NEW t \in Threads, NEW h \in Handles, Calls(t, h)
    PROVE  \E step, c : Moves(t, step, c) /\ ShapeOf(step, c)
<1>0. DOMAIN call = Threads /\ captured \subseteq Manifests /\ acked \in Nat
      /\ current \in Manifests \cup {Nil} /\ Nil \in Founds /\ Len(log) \in Nat
  BY FacadeAssumption DEF Typing, Shapes, Scope, Within, Founds
<1>1. ASSUME NEW c \in Commands, BeginWrite(t, h, c) PROVE \E step, d : Moves(t, step, d) /\ ShapeOf(step, d)
  <2> DEFINE d == [kind |-> "write", h |-> h, cmd |-> c, state |-> Nil, seq |-> 0]
  <2>1. d \in WriteCalls
    BY DEF WriteCalls, WriteStates
  <2>2. Moves(t, "entering", d)
    BY <1>0, <1>1 DEF BeginWrite, Enter, Moves
  <2>3. ShapeOf("entering", d)
    BY <2>1 DEF ShapeOf, Steps, Activating, Compacting, Reading
  <2> HIDE DEF d
  <2> QED
    BY <2>2, <2>3, Zenon
<1>2. CASE BeginCompact(t, h)
  <2> DEFINE d == [kind |-> "compact", h |-> h]
  <2>1. d \in CompactCalls
    BY DEF CompactCalls
  <2>2. Moves(t, "entering", d)
    BY <1>0, <1>2 DEF BeginCompact, Enter, Moves
  <2>3. ShapeOf("entering", d)
    BY <2>1 DEF ShapeOf, Steps, Activating, Compacting, Reading
  <2> HIDE DEF d
  <2> QED
    BY <2>2, <2>3, Zenon
<1>3. CASE BeginClose(t, h)
  <2> DEFINE d == [kind |-> "close", h |-> h]
  <2>1. d \in CloseCalls
    BY DEF CloseCalls
  <2>2. Moves(t, "entering", d)
    BY <1>0, <1>3 DEF BeginClose, Enter, Moves
  <2>3. ShapeOf("entering", d)
    BY <2>1 DEF ShapeOf, Steps, Activating, Compacting, Reading
  <2> HIDE DEF d
  <2> QED
    BY <2>2, <2>3, Zenon
<1>4. CASE BeginAudit(t, h)
  <2> DEFINE d == [kind |-> "audit", h |-> h, man |-> current, todo |-> Facts, keys |-> Nil,
                   fact |-> Nil, found |-> Nil, bad |-> {}]
  <2>1. d \in AuditCalls
    BY <1>0, <1>4 DEF BeginAudit, AuditCalls
  <2>2. Moves(t, "auditing", d)
    BY <1>0, <1>4 DEF BeginAudit, Moves
  <2>3. ShapeOf("auditing", d)
    BY <2>1 DEF ShapeOf, Steps, Activating, Compacting, Reading
  <2> HIDE DEF d
  <2> QED
    BY <2>2, <2>3, Zenon
<1>5. ASSUME NEW f \in Facts, NEW man \in {current} \cup captured, BeginGet(t, h, f, man)
      PROVE  \E step, c : Moves(t, step, c) /\ ShapeOf(step, c)
  <2> DEFINE d == [kind |-> "get", h |-> h, fact |-> f, man |-> man, found |-> Nil,
                   since |-> IF man = current THEN acked ELSE 0]
  <2>0. man \in Manifests
    BY <1>0, <1>5 DEF BeginGet
  <2>1. d \in GetCalls
    BY <1>0, <2>0 DEF GetCalls
  <2>2. Moves(t, "reading", d)
    BY <1>0, <1>5 DEF BeginGet, Moves
  <2>3. ShapeOf("reading", d)
    BY <2>1 DEF ShapeOf, Steps, Activating, Compacting, Reading
  <2> HIDE DEF d
  <2> QED
    BY <2>2, <2>3, Zenon
<1> QED
  BY <1>1, <1>2, <1>3, <1>4, <1>5 DEF Calls

LEMMA LeaveShapes ==
    ASSUME Typing, NEW t \in Threads, call[t] \in WriteCalls,
           NEW s \in WriteStates, NEW n \in Nat, Leave(t, s, n)
    PROVE  \E step, c : Moves(t, step, c) /\ ShapeOf(step, c)
<1> DEFINE d == [call[t] EXCEPT !.state = s, !.seq = n]
<1>0. DOMAIN call = Threads
  BY DEF Typing, Shapes
<1>1. d \in WriteCalls
  BY DEF WriteCalls
<1>2. Moves(t, "returning", d)
  BY <1>0 DEF Leave, Moves
<1>3. ShapeOf("returning", d)
  BY <1>1 DEF ShapeOf, Steps, Activating, Compacting, Reading
<1> HIDE DEF d
<1> QED
  BY <1>2, <1>3, Zenon

LEMMA WriteShapes ==
    ASSUME Typing, NEW t \in Threads, Write(t) \/ TakeLock(t)
    PROVE  \E step, c : Moves(t, step, c) /\ ShapeOf(step, c)
<1>0. DOMAIN call = Threads /\ ShapeOf(at[t], call[t]) /\ Len(log) \in Nat
  BY DEF Typing, Shapes, Scope
<1>1. /\ at[t] \in Activating \cup {"returning"} => call[t] \in WriteCalls
      /\ at[t] = "locked" /\ call[t].kind = "write" => call[t] \in WriteCalls
      /\ call[t] \in WriteCalls => call[t].cmd \in Commands
  BY CallType DEF Typing
<1>2. CASE Seed(t) \/ Submit(t)
  <2>1. call[t] \in WriteCalls /\ call[t].cmd \in Commands
    BY <1>1, <1>2 DEF Seed, SeedTimesOut, SeedKills, Submit, InWrite
  <2>2. log' = Committed(call[t].cmd)
    BY <1>2 DEF Seed, SeedTimesOut, SeedKills, Submit
  <2>3. ReceiptSeq(call[t].cmd) \in Nat /\ WriteMap(Status(call[t].cmd)) \in WriteStates
    BY <2>1, <2>2, CommitOK DEF Typing, LogGrows
  <2>4. CASE Seed(t)
    <3> DEFINE d == [call[t] EXCEPT !.state = WriteMap(Status(call[t].cmd)),
                                    !.seq = ReceiptSeq(call[t].cmd)]
    <3>1. d \in WriteCalls
      BY <2>1, <2>3 DEF WriteCalls
    <3>2. Moves(t, "seeded", d)
      BY <1>0, <2>4 DEF Seed, SeedTimesOut, SeedKills, Moves
    <3>3. ShapeOf("seeded", d)
      BY <3>1 DEF ShapeOf, Steps, Activating, Compacting, Reading
    <3> HIDE DEF d
    <3> QED
      BY <3>2, <3>3, Zenon
  <2>5. CASE Submit(t)
    BY <2>1, <2>3, <2>5, LeaveShapes DEF Submit
  <2> QED
    BY <1>2, <2>4, <2>5
<1>3. CASE PublishSeed(t)
  <2>1. call[t] \in WriteCalls /\ call' = call
    BY <1>1, <1>3 DEF PublishSeed, Go, Activating
  <2>2. Moves(t, "seed published", call[t])
    BY <1>0, <1>3, <2>1 DEF PublishSeed, Go, Moves
  <2>3. ShapeOf("seed published", call[t])
    BY <2>1 DEF ShapeOf, Steps, Activating, Compacting, Reading
  <2> QED
    BY <2>2, <2>3, Zenon
<1>8. CASE SeedTimesOut(t) \/ SeedKills(t)
  <2>1. call[t] \in WriteCalls
    BY <1>1, <1>8 DEF SeedTimesOut, SeedKills, InWrite
  <2>2. PICK s \in {"NOT_ACCEPTED", "COMMIT_UNKNOWN"} :
          call' = [call EXCEPT ![t] = [call[t] EXCEPT !.state = s, !.seq = 0]]
    BY <1>0, <1>8 DEF SeedTimesOut, SeedKills
  <2> DEFINE d == [call[t] EXCEPT !.state = s, !.seq = 0]
  <2>3. d \in WriteCalls
    BY <2>1 DEF WriteCalls, WriteStates
  <2>4. at' = [at EXCEPT ![t] = "seeded"]
    BY <1>8 DEF SeedTimesOut, SeedKills
  <2>5. call' = [call EXCEPT ![t] = d]
    BY <2>2
  <2>7. Moves(t, "seeded", d)
    <3> HIDE DEF d
    <3> QED
      BY <1>0, <2>5, <2>4 DEF Moves
  <2>6. ShapeOf("seeded", d)
    BY <2>3 DEF ShapeOf, Steps, Activating, Compacting, Reading
  <2> HIDE DEF d
  <2> QED
    BY <2>7, <2>6, Zenon
<1>4. CASE SeedUnpublished(t) \/ ActivateFirst(t) \/ NotNeeded(t) \/ ActivateFails(t)
  <2>1. call[t] \in WriteCalls
    BY <1>1, <1>4 DEF SeedUnpublished, ActivateFirst, NotNeeded, ActivateFails, Activating
  <2>2. /\ WriteMap(call[t].state) \in WriteStates /\ call[t].seq \in Nat
        /\ "OVERLOAD" \in WriteStates
    BY <2>1 DEF WriteCalls, WriteStates, WriteMap
  <2>3. \E s \in WriteStates, n \in Nat : Leave(t, s, n)
    BY <1>4, <2>2 DEF SeedUnpublished, ActivateFirst, NotNeeded, ActivateFails
  <2> QED
    BY <2>1, <2>3, LeaveShapes
<1>5. CASE SubmitTimesOut(t) \/ SubmitKills(t) \/ SubmitRaises(t)
  <2>1. call[t] \in WriteCalls /\ Leave(t, "OVERLOAD", 0)
    BY <1>1, <1>5 DEF SubmitTimesOut, SubmitKills, SubmitRaises, InWrite
  <2>2. "OVERLOAD" \in WriteStates
    BY DEF WriteStates
  <2> QED
    BY <2>1, <2>2, LeaveShapes
<1>6. CASE Return(t)
  <2>1. Moves(t, "idle", NoCall)
    BY <1>0, <1>6 DEF Return, Go, Moves
  <2> QED
    BY <2>1, ShapeOfIdle
<1>7. CASE TakeLock(t)
  <2>1. Moves(t, "locked", call[t])
    BY <1>0, <1>7 DEF TakeLock, Go, Moves
  <2>2. ShapeOf("locked", call[t])
    BY <1>0, <1>7 DEF TakeLock, Go, ShapeOf, Steps, Activating, Compacting, Reading
  <2> QED
    BY <2>1, <2>2
<1> QED
  BY <1>2, <1>3, <1>4, <1>5, <1>6, <1>7, <1>8 DEF Write

LEMMA CompactShapes ==
    ASSUME Typing, NEW t \in Threads, Compact(t) \/ Close(t)
    PROVE  \E step, c : Moves(t, step, c) /\ ShapeOf(step, c)
<1>0. DOMAIN call = Threads /\ ShapeOf(at[t], call[t])
  BY DEF Typing, Shapes
<1>1. CASE NothingToDo(t) \/ CompactActivates(t) \/ CompactFails(t) \/ Close(t)
  <2>1. Moves(t, "idle", NoCall)
    BY <1>0, <1>1 DEF NothingToDo, CompactActivates, CompactFails, EndCall, Close, Moves
  <2> QED
    BY <2>1, ShapeOfIdle
<1>2. CASE CompactDrains(t) \/ CompactPublishes(t)
  <2>1. \E step \in Compacting : Moves(t, step, call[t])
    BY <1>0, <1>2 DEF CompactDrains, CompactPublishes, Compacting, Moves
  <2>2. call[t] \in CompactCalls
    BY <1>0, <1>2 DEF CompactDrains, CompactPublishes, InCompact, ShapeOf, Compacting,
       WriteCalls, CloseCalls
  <2> QED
    BY <2>1, <2>2 DEF ShapeOf, Steps, Activating, Compacting, Reading
<1> QED
  BY <1>1, <1>2 DEF Compact

(* A read looks for a cached generation by its manifest, so what it finds is that one. *)
LEMMA CachedIs ==
    ASSUME Shapes, NEW h \in Handles, NEW man, Cached(h, man) # {}
    PROVE  /\ Max(Cached(h, man)) \in 1..Len(cache[h])
           /\ cache[h][Max(Cached(h, man))] = man
<1>1. Cached(h, man) \in SUBSET (1..Len(cache[h])) /\ Len(cache[h]) \in Nat
  BY DEF Cached, Shapes
<1> HIDE DEF Cached
<1>2. Max(Cached(h, man)) \in Cached(h, man)
  BY <1>1, MaxOfIndices
<1> QED
  BY <1>1, <1>2 DEF Cached, CacheKey

LEMMA ReadType ==
    ASSUME Typing, NEW t \in Threads, call[t] \in GetCalls \cup AuditCalls
    PROVE  /\ H(t) \in Handles /\ call[t].man \in Manifests /\ Nil \in Founds
           /\ \A d \in Founds :
                LET c == [call[t] EXCEPT !.found = d] IN
                /\ c \in GetCalls \cup AuditCalls
                /\ c.kind = call[t].kind /\ c.fact = call[t].fact /\ c.man = call[t].man
                /\ c.found = d /\ (c.kind = "get" => c.since = call[t].since)
                /\ (c.kind = "audit" => c.bad = call[t].bad)
<1>1. CASE call[t] \in GetCalls
  BY <1>1 DEF GetCalls, H, Founds
<1>2. CASE call[t] \in AuditCalls
  BY <1>2 DEF AuditCalls, H, Founds
<1> QED
  BY <1>1, <1>2

LEMMA ReadShapes ==
    ASSUME Typing, Reads, Deletes, NEW t \in Threads, Read(t)
    PROVE  \E step, c : Moves(t, step, c) /\ ShapeOf(step, c)
<1>0. /\ DOMAIN call = Threads /\ ShapeOf(at[t], call[t]) /\ log \in Seq(Commands)
      /\ ReadAt(at[t], call[t])
  BY DEF Typing, Shapes, Scope, Reads
<1>1. /\ at[t] \in Reading => call[t] \in GetCalls \cup AuditCalls
      /\ at[t] \in Reading \cup {"auditing"} /\ call[t].kind = "audit" => call[t] \in AuditCalls
      /\ at[t] = "auditing" => call[t] \in AuditCalls
  BY <1>0 DEF ShapeOf, GetCalls, Reading
<1>2. at[t] \in Reading => call[t].man.seq \in 0..Len(log) /\ InForce(call[t].fact, call[t].man.seq) \in Founds
  <2> SUFFICES ASSUME at[t] \in Reading
               PROVE  call[t].man.seq \in 0..Len(log)
                         /\ InForce(call[t].fact, call[t].man.seq) \in Founds
    OBVIOUS
  <2>1. call[t].man.seq \in 0..Len(log)
    BY <1>0, <1>1, ReadType DEF ReadAt, Manifests
  <2> QED
    BY <1>0, <2>1, InForceType
<1>3. CASE Lookup(t)
  <2>0. at[t] \in Reading /\ H(t) \in Handles
    BY <1>1, <1>3, ReadType DEF Lookup, Reading
  <2>1. CASE Cached(H(t), call[t].man) = {}
    <3>1. Moves(t, "missed", call[t])
      BY <1>0, <1>3, <2>1 DEF Lookup, Moves
    <3>2. ShapeOf("missed", call[t])
      BY <1>1, <2>0 DEF ShapeOf, Steps, Activating, Compacting, Reading
    <3> QED
      BY <3>1, <3>2, Zenon
  <2>2. CASE Cached(H(t), call[t].man) # {}
    <3> DEFINE d == [call[t] EXCEPT !.found = InForce(call[t].fact, call[t].man.seq)]
    <3>1. cache[H(t)][Max(Cached(H(t), call[t].man))] = call[t].man
      BY <2>0, <2>2, CachedIs DEF Typing
    <3>2. Moves(t, "hit", d)
      BY <1>0, <1>3, <2>2, <3>1 DEF Lookup, Moves
    <3>3. d \in GetCalls \cup AuditCalls
      BY <1>1, <1>2, <2>0, ReadType
    <3>4. ShapeOf("hit", d)
      BY <3>3 DEF ShapeOf, Steps, Activating, Compacting, Reading
    <3> HIDE DEF d
    <3> QED
      BY <3>2, <3>4, Zenon
  <2> QED
    BY <2>1, <2>2
<1>4. CASE Insert(t)
  <2> DEFINE d == [call[t] EXCEPT !.found = InForce(call[t].fact, call[t].man.seq)]
  <2>0. at[t] \in Reading
    BY <1>4 DEF Insert, Go, Reading
  <2>1. Moves(t, "answered", d)
    BY <1>0, <1>4 DEF Insert, Go, Answer, Moves
  <2>2. d \in GetCalls \cup AuditCalls
    BY <1>1, <1>2, <2>0, ReadType
  <2>3. ShapeOf("answered", d)
    BY <2>2 DEF ShapeOf, Steps, Activating, Compacting, Reading
  <2> HIDE DEF d
  <2> QED
    BY <2>1, <2>3, Zenon
<1>5. CASE Touch(t)
  <2>1. \E step \in {"raised", "answered"} : Moves(t, step, call[t])
    BY <1>0, <1>5 DEF Touch, Moves
  <2>2. call[t] \in GetCalls \cup AuditCalls
    BY <1>1, <1>5 DEF Touch, Reading
  <2>3. \A step \in {"raised", "answered"} : ShapeOf(step, call[t])
    BY <2>2 DEF ShapeOf, Steps, Activating, Compacting, Reading
  <2> QED
    BY <2>1, <2>3
<1>6. CASE GetReturns(t) \/ AuditReturns(t)
  <2>1. Moves(t, "idle", NoCall)
    BY <1>0, <1>6 DEF GetReturns, AuditReturns, Moves
  <2> QED
    BY <2>1, ShapeOfIdle
<1>7. CASE AuditNext(t)
  <2>0. call[t] \in AuditCalls
    BY <1>1, <1>7 DEF AuditNext
  <2> DEFINE keys == IF call[t].keys = Nil THEN Keys(call[t].h) ELSE call[t].keys
             d(f) == [call[t] EXCEPT !.keys = keys, !.fact = f, !.todo = @ \ {f}]
  <2>1. PICK f \in call[t].todo, step \in {"raised", "reading", "auditing"} :
          Moves(t, step, d(f))
    <3>1. PICK f \in call[t].todo :
             /\ at' = [at EXCEPT ![t] = IF keys # Keys(call[t].h) THEN "raised"
                                   ELSE IF seen[call[t].h][f] = "deleted" THEN "reading"
                                   ELSE "auditing"]
             /\ call' = [call EXCEPT ![t].keys = keys, ![t].fact = f, ![t].todo = @ \ {f}]
      BY <1>7 DEF AuditNext
    <3>2. call' = [call EXCEPT ![t] = d(f)]
      BY <1>0, <3>1
    <3> QED
      BY <1>0, <3>1, <3>2 DEF Moves
  <2>2. keys \in (SUBSET Facts) \cup {Nil} /\ f \in Facts
    BY <2>0 DEF AuditCalls, Keys
  <2>3. d(f) \in AuditCalls
    <3> HIDE DEF keys
    <3> QED
      BY <2>0, <2>2 DEF AuditCalls
  <2>4. ShapeOf(step, d(f))
    BY <2>1, <2>3 DEF ShapeOf, Steps, Activating, Compacting, Reading
  <2> HIDE DEF d
  <2> QED
    BY <2>1, <2>4, Zenon
<1>8. CASE AuditChecks(t)
  <2>0. call[t] \in AuditCalls
    BY <1>1, <1>8 DEF AuditChecks, Reading
  <2>1. call[t].fact \in Facts /\ call[t].bad \in SUBSET Facts
    BY <1>8, <2>0 DEF AuditChecks, Deletes, AuditOK, Reading, AuditCalls
  <2> DEFINE d(bad) == [call[t] EXCEPT !.bad = bad]
  <2>2. PICK bad \in SUBSET Facts : Moves(t, "auditing", d(bad))
    <3>1. \E bad \in SUBSET Facts : call' = [call EXCEPT ![t].bad = bad]
      BY <1>8, <2>1 DEF AuditChecks
    <3>2. at' = [at EXCEPT ![t] = "auditing"]
      BY <1>8 DEF AuditChecks
    <3> QED
      BY <1>0, <3>1, <3>2 DEF Moves
  <2>3. ShapeOf("auditing", d(bad))
    <3>1. d(bad) \in AuditCalls
      BY <2>0 DEF AuditCalls
    <3> QED
      BY <3>1 DEF ShapeOf, Steps, Activating, Compacting, Reading
  <2> HIDE DEF d
  <2> QED
    BY <2>2, <2>3, Zenon
<1> QED
  BY <1>3, <1>4, <1>5, <1>6, <1>7, <1>8 DEF Read

(* The cache holds manifests, CacheSize of them at most. *)
LEMMA EvictKeeps ==
    ASSUME NEW entries \in Seq(Manifests), Len(entries) <= CacheSize + 1
    PROVE  Evict(entries) \in Seq(Manifests) /\ Len(Evict(entries)) <= CacheSize
<1>1. CacheSize \in Nat \ {0}
  BY FacadeAssumption
<1> QED
  BY <1>1 DEF Evict

LEMMA ConcatType ==
    ASSUME NEW a \in Seq(Manifests), NEW b \in Seq(Manifests)
    PROVE  a \o b \in Seq(Manifests) /\ Len(a \o b) = Len(a) + Len(b)
OBVIOUS

LEMMA MoveToEnd ==
    ASSUME NEW entries \in Seq(Manifests), NEW i \in 1..Len(entries)
    PROVE  /\ Append(RemoveAt(entries, i), entries[i]) \in Seq(Manifests)
           /\ Len(Append(RemoveAt(entries, i), entries[i])) = Len(entries)
<1> DEFINE front == SubSeq(entries, 1, i - 1)
           back == SubSeq(entries, i + 1, Len(entries))
<1>1. front \in Seq(Manifests) /\ Len(front) = i - 1
  OBVIOUS
<1>2. back \in Seq(Manifests) /\ Len(back) = Len(entries) - i
  OBVIOUS
<1>3. RemoveAt(entries, i) = front \o back
  BY DEF RemoveAt
<1> HIDE DEF front, back
<1>4. RemoveAt(entries, i) \in Seq(Manifests) /\ Len(RemoveAt(entries, i)) = Len(front) + Len(back)
  BY <1>1, <1>2, <1>3, ConcatType, Zenon
<1>5. Len(entries) \in Nat /\ entries[i] \in Manifests
  OBVIOUS
<1> HIDE DEF RemoveAt
<1> QED
  BY <1>1, <1>2, <1>4, <1>5

LEMMA StepCache ==
    ASSUME Typing, [Next]_vars
    PROVE  cache' \in [Handles -> Seq(Manifests)] /\ \A h \in Handles : Len(cache'[h]) <= CacheSize
<1> DEFINE Goal == cache' \in [Handles -> Seq(Manifests)]
                     /\ \A h \in Handles : Len(cache'[h]) <= CacheSize
<1>0. /\ cache \in [Handles -> Seq(Manifests)] /\ \A h \in Handles : Len(cache[h]) <= CacheSize
      /\ CacheSize \in Nat
  BY FacadeAssumption DEF Typing, Shapes, PerHandle
<1>1. CASE UNCHANGED cache
  BY <1>0, <1>1
<1>2. ASSUME NEW h \in Handles, Dies(h) PROVE Goal
  <2>1. <<>> \in Seq(Manifests) /\ Len(<<>>) <= CacheSize
    BY <1>0
  <2>2. cache' = [cache EXCEPT ![h] = <<>>]
    BY <1>2 DEF Dies
  <2> QED
    BY <1>0, <2>1, <2>2
<1>3. ASSUME NEW t \in Threads, Touch(t) \/ Insert(t), H(t) \in Handles, call[t].man \in Manifests
      PROVE  Goal
  <2> DEFINE h == H(t)
             hits == Cached(h, call[t].man)
  <2>1. CASE Touch(t) /\ hits # {}
    <3>1. Max(hits) \in 1..Len(cache[h])
      BY <1>3, <2>1, CachedIs DEF Typing
    <3>2. cache' = [cache EXCEPT ![h] = Append(RemoveAt(@, Max(hits)), @[Max(hits)])]
      BY <2>1 DEF Touch
    <3> QED
      BY <1>0, <1>3, <3>1, <3>2, MoveToEnd
  <2>2. CASE Touch(t) /\ hits = {}
    BY <1>0, <2>2 DEF Touch
  <2>3. CASE Insert(t)
    <3> DEFINE grown == IF hits = {} THEN Append(cache[h], call[t].man) ELSE cache[h]
    <3>1. cache' = [cache EXCEPT ![h] = Evict(grown)]
      BY <2>3 DEF Insert
    <3>2. grown \in Seq(Manifests) /\ Len(grown) <= CacheSize + 1
      BY <1>0, <1>3
    <3>3. Evict(grown) \in Seq(Manifests) /\ Len(Evict(grown)) <= CacheSize
      <4> HIDE DEF grown
      <4> QED
        BY <3>2, EvictKeeps
    <3> HIDE DEF grown
    <3> QED
      BY <1>0, <1>3, <3>1, <3>3
  <2> QED
    BY <1>3, <2>1, <2>2, <2>3
<1>4. ASSUME NEW t \in Threads, Touch(t) \/ Insert(t)
      PROVE  H(t) \in Handles /\ call[t].man \in Manifests
  <2>1. at[t] \in Reading /\ ShapeOf(at[t], call[t])
    BY <1>4 DEF Touch, Insert, Go, Reading, Typing, Shapes
  <2> QED
    BY <2>1, ReadType DEF ShapeOf
<1>5. UNCHANGED cache \/ (\E h \in Handles : Dies(h)) \/ \E t \in Threads : Touch(t) \/ Insert(t)
  <2> USE DEF scopeVars, writerVars
  <2>1. CASE UNCHANGED vars
    BY <2>1 DEF vars
  <2>2. ASSUME NEW h \in Handles,
               \/ Create(h) \/ CreateEnds(h) \/ Open(h) \/ Dies(h)
               \/ LateCommit(h) \/ WriterPoisoned(h) \/ CaptureReadView(h)
        PROVE  UNCHANGED cache \/ Dies(h)
    BY <2>2 DEF Create, CreateEnds, Open, LateCommit, WriterPoisoned, CaptureReadView
  <2>3. ASSUME NEW h \in Handles, NEW t \in Threads, Calls(t, h) PROVE UNCHANGED cache
    BY <2>3 DEF Calls, BeginWrite, BeginCompact, BeginClose, Enter, BeginAudit, BeginGet
  <2>4. ASSUME NEW t \in Threads, TakeLock(t) \/ Close(t) \/ Write(t) PROVE UNCHANGED cache
    BY <2>4 DEF TakeLock, Close, Write, Seed, SeedTimesOut, SeedKills, PublishSeed, SeedUnpublished,
       ActivateFirst, NotNeeded, ActivateFails, Submit, SubmitTimesOut, SubmitKills,
       SubmitRaises, Return
  <2>5. ASSUME NEW t \in Threads, Compact(t) PROVE UNCHANGED cache
    BY <2>5 DEF Compact, NothingToDo, CompactDrains, CompactPublishes, CompactActivates,
       CompactFails
  <2>6. ASSUME NEW t \in Threads, Read(t) PROVE UNCHANGED cache \/ Touch(t) \/ Insert(t)
    BY <2>6 DEF Read, Lookup, GetReturns, AuditNext, AuditChecks, AuditReturns
  <2> HIDE DEF scopeVars, writerVars
  <2> QED
    BY <2>1, <2>2, <2>3, <2>4, <2>5, <2>6, Zenon DEF Next
<1> QED
  BY <1>1, <1>2, <1>3, <1>4, <1>5

(* Every step leaves the threads where they are, moves one of them, or ends a process. *)
ThreadStep(t) ==
    \/ \E h \in Handles : Calls(t, h)
    \/ TakeLock(t) \/ Write(t) \/ Compact(t) \/ Close(t) \/ Read(t)

LEMMA NextIs ==
    ASSUME [Next]_vars
    PROVE  \/ UNCHANGED <<at, call, lock, seen, acked>> \/ (\E h \in Handles : Dies(h))
           \/ \E t \in Threads : ThreadStep(t)
<1>1. CASE UNCHANGED vars
  BY <1>1 DEF vars
<1>2. ASSUME NEW h \in Handles,
             \/ Create(h) \/ CreateEnds(h) \/ Open(h)
             \/ LateCommit(h) \/ WriterPoisoned(h) \/ CaptureReadView(h)
      PROVE  UNCHANGED <<at, call, lock, seen, acked>>
  BY <1>2 DEF Create, CreateEnds, Open, LateCommit, WriterPoisoned, CaptureReadView
<1> QED
  BY <1>1, <1>2, Zenon DEF Next, ThreadStep

LEMMA ThreadMoves ==
    ASSUME Typing, Reads, Deletes, NEW t \in Threads, ThreadStep(t)
    PROVE  \E step, c : Moves(t, step, c) /\ ShapeOf(step, c)
BY BeginShapes, WriteShapes, CompactShapes, ReadShapes, Zenon DEF ThreadStep

(* A process that ends takes its threads with it. *)
LEMMA DiesMoves ==
    ASSUME Typing, NEW h \in Handles, Dies(h)
    PROVE  /\ at' \in [Threads -> Steps] /\ DOMAIN call' = Threads
           /\ \A u \in Threads :
                \/ at'[u] = "idle" /\ call'[u] = NoCall
                \/ at'[u] = at[u] /\ call'[u] = call[u] /\ (at[u] = "idle" \/ H(u) # h)
<1> DEFINE gone == {t \in Threads : at[t] # "idle" /\ H(t) = h}
<1>1. /\ at' = [t \in Threads |-> IF t \in gone THEN "idle" ELSE at[t]]
      /\ call' = [t \in Threads |-> IF t \in gone THEN NoCall ELSE call[t]]
  BY DEF Dies
<1>2. at \in [Threads -> Steps] /\ "idle" \in Steps
  BY DEF Typing, Shapes, Steps
<1>3. at' \in [Threads -> Steps] /\ DOMAIN call' = Threads
  BY <1>1, <1>2
<1>4. ASSUME NEW u \in Threads
      PROVE  \/ at'[u] = "idle" /\ call'[u] = NoCall
             \/ at'[u] = at[u] /\ call'[u] = call[u] /\ (at[u] = "idle" \/ H(u) # h)
  BY <1>1
<1> QED
  BY <1>3, <1>4

LEMMA StepShapes ==
    ASSUME Typing, Shielded, Born, Reads, Deletes, [Next]_vars
    PROVE  Shapes'
<1>0. current' \in Manifests \cup {Nil} /\ cache' \in [Handles -> Seq(Manifests)] /\ Shapes
  BY StepScope, StepCache DEF Typing
<1>1. CASE UNCHANGED <<at, call>>
  BY <1>0, <1>1 DEF Shapes
<1>2. ASSUME NEW h \in Handles, Dies(h) PROVE Shapes'
  <2>1. ASSUME NEW u \in Threads PROVE ShapeOf(at'[u], call'[u])
    <3>1. ShapeOf(at[u], call[u])
      BY <1>0 DEF Shapes
    <3>2. CASE at'[u] = "idle" /\ call'[u] = NoCall
      BY <3>2, ShapeOfIdle
    <3>3. CASE at'[u] = at[u] /\ call'[u] = call[u]
      BY <3>1, <3>3
    <3> QED
      BY <1>2, <3>2, <3>3, DiesMoves
  <2> QED
    BY <1>0, <1>2, <2>1, DiesMoves DEF Shapes
<1>3. ASSUME NEW t \in Threads, ThreadStep(t) PROVE Shapes'
  <2>1. PICK step, c : Moves(t, step, c) /\ ShapeOf(step, c)
    BY <1>3, ThreadMoves
  <2> QED
    BY <1>0, <2>1, ShapesMove
<1> QED
  BY <1>1, <1>2, <1>3, NextIs

(* The handles. *)
LEMMA StepPerHandle ==
    ASSUME Typing, [Next]_vars
    PROVE  PerHandle'
<1> USE DEF scopeVars, writerVars
<1> DEFINE Rest == /\ life' \in [Handles -> {"none", "making", "open", "closed"}]
                   /\ store' \in [Handles -> {"none", "genesis", "dead", "fenced"}]
                   /\ writer' \in [Handles -> {"none", "serving", "dead", "stopped"}]
                   /\ late' \in [Handles -> Commands \cup {Nil}]
                   /\ lock' \in [Handles -> Threads \cup {Nil}]
                   /\ seen' \in [Handles -> [Facts -> {"live", "deleted", Nil}]]
                   /\ fails' \in 0..MaxFails
<1>0. PerHandle /\ MaxFails \in Nat /\ fails \in 0..MaxFails /\ (Fails => fails' \in 0..MaxFails)
  BY FacadeAssumption DEF Typing, PerHandle, Fails
<1>1. ASSUME UNCHANGED vars PROVE Rest
  BY <1>0, <1>1 DEF vars, PerHandle
<1>2. ASSUME NEW h \in Handles, Create(h) PROVE Rest
  BY <1>0, <1>2 DEF PerHandle, Create
<1>3. ASSUME NEW h \in Handles, CreateEnds(h) PROVE Rest
  BY <1>0, <1>3 DEF PerHandle, CreateEnds
<1>4. ASSUME NEW h \in Handles, Open(h) PROVE Rest
  BY <1>0, <1>4 DEF PerHandle, Open
<1>5. ASSUME NEW h \in Handles, LateCommit(h) PROVE Rest
  BY <1>0, <1>5 DEF PerHandle, LateCommit
<1>6. ASSUME NEW h \in Handles, WriterPoisoned(h) PROVE Rest
  BY <1>0, <1>6 DEF PerHandle, WriterPoisoned
<1>7. ASSUME NEW h \in Handles, CaptureReadView(h) PROVE Rest
  BY <1>0, <1>7 DEF PerHandle, CaptureReadView
<1>8. ASSUME NEW h \in Handles, Dies(h) PROVE Rest
  BY <1>0, <1>8 DEF PerHandle, Dies
<1>9. ASSUME NEW h \in Handles, NEW t \in Threads, Calls(t, h) PROVE Rest
  BY <1>0, <1>9 DEF PerHandle, Calls, BeginWrite, BeginCompact, BeginClose, Enter, BeginAudit,
     BeginGet
<1>10. ASSUME NEW t \in Threads, Read(t) PROVE Rest
  BY <1>0, <1>10 DEF PerHandle, Read, Lookup, Touch, Insert, GetReturns, AuditNext, AuditChecks,
     AuditReturns
<1>11. ASSUME NEW t \in Threads, TakeLock(t) PROVE Rest
  BY <1>0, <1>11 DEF PerHandle, TakeLock
<1>12. ASSUME NEW t \in Threads, Close(t) PROVE Rest
  BY <1>0, <1>12 DEF PerHandle, Close
<1>13. ASSUME NEW t \in Threads, Seed(t) PROVE Rest
  BY <1>0, <1>13 DEF PerHandle, Seed
<1>31. ASSUME NEW t \in Threads, SeedTimesOut(t) PROVE Rest
  <2>1. call[t].cmd \in Commands
    BY <1>31, CallType DEF SeedTimesOut, InWrite, Typing
  <2>2. late' \in [Handles -> Commands \cup {Nil}] /\ fails' \in 0..MaxFails
    BY <1>0, <1>31, <2>1 DEF PerHandle, SeedTimesOut, TakesBack, LeavesBehind
  <2> QED
    BY <1>0, <1>31, <2>2 DEF PerHandle, SeedTimesOut
<1>32. ASSUME NEW t \in Threads, SeedKills(t) PROVE Rest
  BY <1>0, <1>32 DEF PerHandle, SeedKills
<1>33. ASSUME NEW t \in Threads, NotNeeded(t) PROVE Rest
  BY <1>0, <1>33 DEF PerHandle, NotNeeded, Leave
<1>34. ASSUME NEW t \in Threads, SubmitKills(t) PROVE Rest
  BY <1>0, <1>34 DEF PerHandle, SubmitKills, Leave
<1>14. ASSUME NEW t \in Threads, PublishSeed(t) PROVE Rest
  BY <1>0, <1>14 DEF PerHandle, PublishSeed
<1>15. ASSUME NEW t \in Threads, SeedUnpublished(t) PROVE Rest
  BY <1>0, <1>15 DEF PerHandle, SeedUnpublished, Leave
<1>16. ASSUME NEW t \in Threads, ActivateFirst(t) PROVE Rest
  BY <1>0, <1>16 DEF PerHandle, ActivateFirst, Leave
<1>17. ASSUME NEW t \in Threads, ActivateFails(t) PROVE Rest
  BY <1>0, <1>17 DEF PerHandle, ActivateFails, Leave
<1>18. ASSUME NEW t \in Threads, Submit(t) PROVE Rest
  BY <1>0, <1>18 DEF PerHandle, Submit, Leave
<1>19. ASSUME NEW t \in Threads, SubmitRaises(t) PROVE Rest
  BY <1>0, <1>19 DEF PerHandle, SubmitRaises, Leave
<1>20. ASSUME NEW t \in Threads, SubmitTimesOut(t) PROVE Rest
  <2>1. call[t].cmd \in Commands
    BY <1>20, CallType DEF SubmitTimesOut, InWrite, Typing
  <2>2. late' \in [Handles -> Commands \cup {Nil}] /\ fails' \in 0..MaxFails
    BY <1>0, <1>20, <2>1 DEF PerHandle, SubmitTimesOut, TakesBack, LeavesBehind
  <2> QED
    BY <1>0, <1>20, <2>2 DEF PerHandle, SubmitTimesOut, Leave
<1>21. ASSUME NEW t \in Threads, Return(t) PROVE Rest
  <2>1. /\ call[t].h \in Handles /\ call[t].cmd.fact \in Facts
    BY <1>21, CallType, FacadeAssumption DEF Return, Go, H, Typing
  <2>2. seen' \in [Handles -> [Facts -> {"live", "deleted", Nil}]]
    BY <1>0, <1>21, <2>1 DEF PerHandle, Return
  <2> QED
    BY <1>0, <1>21, <2>2 DEF PerHandle, Return
<1>22. ASSUME NEW t \in Threads, NothingToDo(t) PROVE Rest
  BY <1>0, <1>22 DEF PerHandle, NothingToDo, EndCall
<1>23. ASSUME NEW t \in Threads, CompactDrains(t) PROVE Rest
  BY <1>0, <1>23 DEF PerHandle, CompactDrains
<1>24. ASSUME NEW t \in Threads, CompactPublishes(t) PROVE Rest
  BY <1>0, <1>24 DEF PerHandle, CompactPublishes
<1>25. ASSUME NEW t \in Threads, CompactActivates(t) PROVE Rest
  BY <1>0, <1>25 DEF PerHandle, CompactActivates, EndCall
<1>26. ASSUME NEW t \in Threads, CompactFails(t) PROVE Rest
  BY <1>0, <1>26 DEF PerHandle, CompactFails, EndCall
<1>27. \A h \in Handles : Len(cache'[h]) <= CacheSize
  BY StepCache
<1>28. ASSUME NEW t \in Threads, Write(t) PROVE Rest
  BY <1>13, <1>14, <1>15, <1>16, <1>17, <1>18, <1>19, <1>20, <1>21, <1>28, <1>31, <1>32, <1>33,
     <1>34, Zenon DEF Write
<1>29. ASSUME NEW t \in Threads, Compact(t) PROVE Rest
  BY <1>22, <1>23, <1>24, <1>25, <1>26, <1>29, Zenon DEF Compact
<1>30. Rest
  <2> HIDE DEF Rest, scopeVars, writerVars
  <2> QED
    BY <1>1, <1>2, <1>3, <1>4, <1>5, <1>6, <1>7, <1>8, <1>9, <1>10, <1>11, <1>12, <1>28, <1>29,
       Zenon DEF Next
<1> QED
  BY <1>27, <1>30 DEF PerHandle

-----------------------------------------------------------------------------
(* The lock of a handle.  A step outside it leaves it alone, one inside keeps it or  *)
(* gives it back, and only a free one is taken.                                        *)
LockEffect(t) ==
    \/ lock' = lock /\ at'[t] \notin InLock
    \/ lock' = lock /\ at[t] \in InLock /\ call'[t].h = H(t)
    \/ lock[H(t)] = Nil /\ lock' = [lock EXCEPT ![H(t)] = t] /\ at[t] = "entering" /\ call' = call
    \/ lock' = [lock EXCEPT ![H(t)] = Nil] /\ at[t] \in InLock /\ at'[t] \notin InLock

LEMMA ThreadLock ==
    ASSUME Typing, LockHeld, NEW t \in Threads, ThreadStep(t)
    PROVE  LockEffect(t)
<1> USE DEF LockEffect, InLock, Activating, Compacting
<1>0. t \in DOMAIN at /\ t \in DOMAIN call /\ (at[t] \in InLock => lock[H(t)] = t)
  BY DEF Typing, Shapes, LockHeld
<1>1. ASSUME NEW h \in Handles, Calls(t, h) PROVE LockEffect(t)
  BY <1>0, <1>1 DEF Calls, BeginWrite, BeginCompact, BeginClose, Enter, BeginAudit, BeginGet
<1>2. CASE TakeLock(t)
  BY <1>0, <1>2 DEF TakeLock, Go
<1>3. CASE Read(t) \/ Return(t)
  BY <1>0, <1>3 DEF Read, Lookup, Touch, Insert, Go, GetReturns, AuditNext, AuditChecks,
     AuditReturns, Return
<1>4. CASE Seed(t) \/ PublishSeed(t)
  <2>1. CASE Seed(t)
    <3>1. call[t] \in WriteCalls
      BY <2>1, CallType DEF Seed, SeedTimesOut, SeedKills, InWrite, Typing
    <3>2. \E s, n : call' = [call EXCEPT ![t] = [call[t] EXCEPT !.state = s, !.seq = n]]
      BY <1>0, <2>1 DEF Seed
    <3>3. call'[t].h = H(t)
      BY <1>0, <3>1, <3>2 DEF WriteCalls, H
    <3> QED
      BY <1>0, <2>1, <3>3 DEF Seed, SeedTimesOut, SeedKills, InWrite
  <2>2. CASE PublishSeed(t)
    BY <1>0, <2>2 DEF PublishSeed, Go, H
  <2> QED
    BY <1>4, <2>1, <2>2
<1>10. CASE SeedTimesOut(t) \/ SeedKills(t)
  <2>1. call[t] \in WriteCalls /\ at[t] = "locked" /\ lock' = lock
    BY <1>10, CallType DEF SeedTimesOut, SeedKills, InWrite, Typing
  <2>2. \E s : call' = [call EXCEPT ![t] = [call[t] EXCEPT !.state = s, !.seq = 0]]
    BY <1>0, <1>10 DEF SeedTimesOut, SeedKills
  <2>3. call'[t].h = H(t)
    BY <1>0, <2>1, <2>2 DEF WriteCalls, H
  <2> QED
    BY <2>1, <2>3
<1>5. CASE SeedUnpublished(t) \/ ActivateFirst(t) \/ NotNeeded(t) \/ ActivateFails(t)
  BY <1>0, <1>5 DEF SeedUnpublished, ActivateFirst, NotNeeded, ActivateFails, Leave
<1>6. CASE Submit(t) \/ SubmitTimesOut(t) \/ SubmitKills(t) \/ SubmitRaises(t)
  BY <1>0, <1>6 DEF Submit, SubmitTimesOut, SubmitKills, SubmitRaises, InWrite, Leave
<1>7. CASE CompactDrains(t) \/ CompactPublishes(t)
  BY <1>0, <1>7 DEF CompactDrains, CompactPublishes, InCompact, H
<1>8. CASE NothingToDo(t) \/ CompactActivates(t) \/ CompactFails(t)
  BY <1>0, <1>8 DEF NothingToDo, CompactActivates, CompactFails, InCompact, EndCall
<1>9. CASE Close(t)
  BY <1>0, <1>9 DEF Close, MayClose
<1> QED
  BY <1>1, <1>2, <1>3, <1>4, <1>5, <1>6, <1>7, <1>8, <1>9, <1>10 DEF ThreadStep, Write, Compact

LEMMA Exclusive ==
    ASSUME LockHeld, NEW t \in Threads, NEW u \in Threads, at[t] \in InLock, at[u] \in InLock,
           H(t) = H(u)
    PROVE  t = u
BY DEF LockHeld

LEMMA InLockHandle ==
    ASSUME Typing, NEW t \in Threads, at[t] \in InLock
    PROVE  H(t) \in Handles
BY CallType DEF InLock, Typing

LEMMA StepLock ==
    ASSUME Typing, LockHeld, Reads, Deletes, [Next]_vars
    PROVE  LockHeld'
<1>0. lock \in [Handles -> Threads \cup {Nil}] /\ Nil \notin Threads
  BY NoneAssumption DEF Typing, PerHandle
<1>1. ASSUME NEW h \in Handles, Dies(h), NEW u \in Threads, at'[u] \in InLock
      PROVE  lock'[call'[u].h] = u
  <2>1. at'[u] = at[u] /\ call'[u] = call[u] /\ H(u) # h
    BY <1>1, DiesMoves DEF InLock, Activating, Compacting
  <2>2. lock[H(u)] = u /\ lock' = [lock EXCEPT ![h] = Nil] /\ H(u) \in Handles
    BY <1>1, <2>1, InLockHandle DEF LockHeld, Dies
  <2> QED
    BY <1>0, <2>1, <2>2 DEF H
<1>2. ASSUME NEW t \in Threads, ThreadStep(t), NEW u \in Threads, at'[u] \in InLock
      PROVE  lock'[call'[u].h] = u
  <2>1. PICK step, c : Moves(t, step, c) /\ ShapeOf(step, c)
    BY <1>2, ThreadMoves
  <2>2. LockEffect(t)
    BY <1>2, ThreadLock
  <2>3. CASE u = t
    <3>1. CASE lock' = lock /\ at[t] \in InLock /\ call'[t].h = H(t)
      BY <2>3, <3>1 DEF LockHeld
    <3>2. CASE lock' = [lock EXCEPT ![H(t)] = t] /\ at[t] = "entering" /\ call' = call
      <4>1. H(t) \in Handles
        BY <3>2, CallType DEF Typing
      <4> QED
        BY <1>0, <2>3, <3>2, <4>1 DEF H
    <3> QED
      BY <1>2, <2>2, <2>3, <3>1, <3>2 DEF LockEffect
  <2>4. CASE u # t
    <3>1. at'[u] = at[u] /\ call'[u] = call[u] /\ lock[H(u)] = u /\ H(u) \in Handles
      BY <1>2, <2>1, <2>4, InLockHandle DEF Moves, LockHeld, Typing, Shapes
    <3>2. CASE at[t] \in InLock
      <4>1. H(u) # H(t)
        BY <2>4, <3>1, <3>2, <1>2, Exclusive
      <4> QED
        BY <1>0, <2>2, <3>1, <4>1 DEF LockEffect, H
    <3>3. CASE at[t] \notin InLock
      BY <1>0, <2>2, <2>4, <3>1, <3>3 DEF LockEffect, H
    <3> QED
      BY <3>2, <3>3
  <2> QED
    BY <2>3, <2>4
<1>3. CASE UNCHANGED <<at, call, lock, seen, acked>>
  BY <1>3 DEF LockHeld, H
<1> QED
  BY <1>1, <1>2, <1>3, NextIs DEF LockHeld, H

-----------------------------------------------------------------------------
(* By which step a thread gets to be activating, compacting, returning or reading. *)
LEMMA Arrives ==
    ASSUME Typing, NEW t \in Threads, ThreadStep(t)
    PROVE  /\ at'[t] \in Activating =>
                Seed(t) \/ SeedTimesOut(t) \/ SeedKills(t) \/ PublishSeed(t)
           /\ at'[t] \in Compacting => CompactDrains(t) \/ CompactPublishes(t)
           /\ at'[t] = "returning" =>
                \/ SeedUnpublished(t) \/ ActivateFirst(t) \/ NotNeeded(t) \/ ActivateFails(t)
                \/ Submit(t) \/ SubmitTimesOut(t) \/ SubmitKills(t) \/ SubmitRaises(t)
           /\ at'[t] \in Reading \cup {"auditing"} =>
                \/ Read(t) \/ \E h \in Handles : BeginAudit(t, h)
                \/ \E h \in Handles, f \in Facts, man \in {current} \cup captured :
                     BeginGet(t, h, f, man)
<1> DEFINE Goal == /\ at'[t] \in Activating =>
                        Seed(t) \/ SeedTimesOut(t) \/ SeedKills(t) \/ PublishSeed(t)
                   /\ at'[t] \in Compacting => CompactDrains(t) \/ CompactPublishes(t)
                   /\ at'[t] = "returning" =>
                        \/ SeedUnpublished(t) \/ ActivateFirst(t) \/ NotNeeded(t) \/ ActivateFails(t)
                        \/ Submit(t) \/ SubmitTimesOut(t) \/ SubmitKills(t) \/ SubmitRaises(t)
                   /\ at'[t] \in Reading \cup {"auditing"} =>
                        \/ Read(t) \/ \E h \in Handles : BeginAudit(t, h)
                        \/ \E h \in Handles, f \in Facts, man \in {current} \cup captured :
                             BeginGet(t, h, f, man)
<1> USE DEF Activating, Compacting, Reading
<1>0. t \in DOMAIN at
  BY DEF Typing, Shapes
<1>1. ASSUME NEW h \in Handles, Calls(t, h) PROVE Goal
  <2>1. CASE BeginAudit(t, h) \/ \E f \in Facts, man \in {current} \cup captured : BeginGet(t, h, f, man)
    <3>1. at'[t] \in {"auditing", "reading"}
      BY <1>0, <2>1 DEF BeginAudit, BeginGet
    <3> QED
      BY <2>1, <3>1
  <2>2. CASE (\E c \in Commands : BeginWrite(t, h, c)) \/ BeginCompact(t, h) \/ BeginClose(t, h)
    <3>1. at'[t] = "entering"
      BY <1>0, <2>2 DEF BeginWrite, BeginCompact, BeginClose, Enter
    <3> QED
      BY <3>1
  <2> QED
    BY <1>1, <2>1, <2>2 DEF Calls
<1>2. CASE TakeLock(t) \/ Close(t) \/ Return(t)
  <2>1. at'[t] \in {"locked", "idle"}
    BY <1>0, <1>2 DEF TakeLock, Go, Close, Return
  <2> QED
    BY <2>1
<1>3. CASE Read(t)
  <2>1. at'[t] \in {"missed", "hit", "raised", "answered", "idle", "auditing", "reading"}
    BY <1>0, <1>3 DEF Read, Lookup, Touch, Insert, Go, GetReturns, AuditNext, AuditChecks,
       AuditReturns
  <2> QED
    BY <1>3, <2>1
<1>4. CASE Seed(t) \/ SeedTimesOut(t) \/ SeedKills(t) \/ PublishSeed(t)
  <2>1. at'[t] \in Activating
    BY <1>0, <1>4 DEF Seed, SeedTimesOut, SeedKills, InWrite, PublishSeed, Go
  <2> QED
    BY <1>4, <2>1
<1>5. CASE SeedUnpublished(t) \/ ActivateFirst(t) \/ NotNeeded(t) \/ ActivateFails(t)
             \/ Submit(t) \/ SubmitTimesOut(t) \/ SubmitKills(t) \/ SubmitRaises(t)
  <2>1. at'[t] = "returning"
    BY <1>0, <1>5 DEF SeedUnpublished, ActivateFirst, NotNeeded, ActivateFails, Submit, SubmitTimesOut,
       SubmitKills, SubmitRaises, Leave
  <2> QED
    BY <1>5, <2>1
<1>6. CASE CompactDrains(t) \/ CompactPublishes(t)
  <2>1. at'[t] \in Compacting
    BY <1>0, <1>6 DEF CompactDrains, CompactPublishes
  <2> QED
    BY <1>6, <2>1
<1>7. CASE NothingToDo(t) \/ CompactActivates(t) \/ CompactFails(t)
  <2>1. at'[t] = "idle"
    BY <1>0, <1>7 DEF NothingToDo, CompactActivates, CompactFails, EndCall
  <2> QED
    BY <2>1
<1> QED
  BY <1>1, <1>2, <1>3, <1>4, <1>5, <1>6, <1>7 DEF ThreadStep, Write, Compact

(* What the lock shields: nobody else gives the store or the writer of a handle another   *)
(* state while a thread activates its writer or compacts.                                   *)
LEMMA ShieldKept ==
    ASSUME Typing, LockHeld, Shielded, [Next]_vars, NEW u \in Threads,
           at[u] \in Activating \cup Compacting, at'[u] = at[u], call'[u] = call[u]
    PROVE  /\ at[u] \in Activating => store'[H(u)] \in Seeding /\ writer'[H(u)] = "none"
           /\ at[u] \in Compacting => writer'[H(u)] = "stopped"
<1> DEFINE Goal == /\ at[u] \in Activating => store'[H(u)] \in Seeding /\ writer'[H(u)] = "none"
                   /\ at[u] \in Compacting => writer'[H(u)] = "stopped"
<1>0. /\ H(u) \in Handles /\ at[u] \in InLock
      /\ store \in [Handles -> {"none", "genesis", "dead", "fenced"}]
      /\ writer \in [Handles -> {"none", "serving", "dead", "stopped"}]
      /\ at[u] \in Activating => store[H(u)] \in Seeding /\ writer[H(u)] = "none"
      /\ at[u] \in Compacting => writer[H(u)] = "stopped"
  BY InLockHandle DEF InLock, Typing, PerHandle, Shielded
<1>1. CASE UNCHANGED <<life, store, writer>>
  BY <1>0, <1>1
<1>2. ASSUME NEW h \in Handles, Create(h) \/ CreateEnds(h) \/ Open(h) PROVE Goal
  BY <1>0, <1>2 DEF Create, CreateEnds, Open, writerVars, Seeding
<1>3. ASSUME NEW h \in Handles, Dies(h) PROVE Goal
  <2>1. H(u) # h
    BY <1>3, DiesMoves DEF Activating, Compacting
  <2> QED
    BY <1>0, <1>3, <2>1 DEF Dies
<1>4. ASSUME NEW h \in Handles, WriterPoisoned(h) PROVE Goal
  BY <1>0, <1>4 DEF WriterPoisoned
<1>5. ASSUME NEW t \in Threads,
             \/ SeedKills(t) \/ SubmitKills(t)
             \/ ActivateFirst(t) \/ NotNeeded(t) \/ ActivateFails(t)
             \/ CompactDrains(t) \/ CompactActivates(t) \/ Close(t)
      PROVE  Goal
  <2>1. at[t] \in InLock /\ at'[t] # at[t] /\ H(t) \in Handles
    <3>1. t \in DOMAIN at
      BY DEF Typing, Shapes
    <3>2. at[t] \in InLock /\ at'[t] # at[t]
      BY <1>5, <3>1 DEF SeedKills, SubmitKills, InWrite, ActivateFirst, NotNeeded,
         ActivateFails, Leave, CompactDrains, InCompact,
         CompactActivates, EndCall, Close, MayClose, InLock, Activating, Compacting
    <3> QED
      BY <3>2, InLockHandle
  <2>2. H(t) # H(u)
    BY <1>0, <2>1, Exclusive
  <2>3. store'[H(u)] = store[H(u)] /\ writer'[H(u)] = writer[H(u)]
    BY <1>0, <1>5, <2>1, <2>2 DEF SeedKills, SubmitKills, ActivateFirst, NotNeeded,
       ActivateFails, CompactDrains, CompactActivates, Close
  <2> QED
    BY <1>0, <2>3
<1> QED
  BY <1>1, <1>2, <1>3, <1>4, <1>5, WriterChanges

LEMMA StepShield ==
    ASSUME Typing, LockHeld, Shielded, Born, Reads, Deletes, [Next]_vars, NEW u \in Threads
    PROVE  /\ at'[u] \in Activating =>
                store'[call'[u].h] \in Seeding /\ writer'[call'[u].h] = "none"
           /\ at'[u] \in Compacting => writer'[call'[u].h] = "stopped"
           /\ at'[u] = "seed published" => current' \in Manifests
<1> DEFINE Goal == /\ at'[u] \in Activating =>
                         store'[call'[u].h] \in Seeding /\ writer'[call'[u].h] = "none"
                   /\ at'[u] \in Compacting => writer'[call'[u].h] = "stopped"
                   /\ at'[u] = "seed published" => current' \in Manifests
<1>0. Grows /\ u \in DOMAIN at /\ u \in DOMAIN call
  BY StepScope DEF Typing, Shapes
<1>1. ASSUME at'[u] = at[u], call'[u] = call[u] PROVE Goal
  <2>1. at[u] = "seed published" => current' \in Manifests
    BY <1>0 DEF Shielded, Grows
  <2>2. CASE at[u] \in Activating \cup Compacting
    <3>1. /\ at[u] \in Activating => store'[H(u)] \in Seeding /\ writer'[H(u)] = "none"
          /\ at[u] \in Compacting => writer'[H(u)] = "stopped"
      BY <1>1, <2>2, ShieldKept
    <3> QED
      BY <1>1, <2>1, <3>1 DEF H
  <2>3. CASE at[u] \notin Activating \cup Compacting
    BY <1>1, <2>3 DEF Activating
  <2> QED
    BY <2>2, <2>3
<1>2. ASSUME at'[u] = "idle" PROVE Goal
  BY <1>2 DEF Activating, Compacting
<1>3. ASSUME ThreadStep(u) PROVE Goal
  <2>1. at'[u] \in Activating \cup Compacting => call'[u].h = H(u) /\ H(u) \in Handles
    <3>1. at'[u] \in Activating \cup Compacting => at[u] \in InLock
      BY <1>3, Arrives DEF Seed, SeedTimesOut, SeedKills, InWrite, PublishSeed, Go,
         CompactDrains, CompactPublishes, InCompact, InLock, Activating, Compacting
    <3>2. LockEffect(u)
      BY <1>3, ThreadLock
    <3> QED
      BY <3>1, <3>2, InLockHandle DEF LockEffect, InLock, Activating, Compacting
  <2>2. CASE Seed(u)
    BY <1>0, <2>1, <2>2 DEF Seed, writerVars, Activating, Compacting, Seeding
  <2>7. CASE SeedTimesOut(u) \/ SeedKills(u)
    <3>1. /\ at'[u] = "seeded" /\ writer'[H(u)] = "none"
          /\ \/ store' = store /\ store[H(u)] \in Seeding
             \/ store' = [store EXCEPT ![H(u)] = "dead"]
      BY <1>0, <2>7 DEF SeedTimesOut, SeedKills, Seeding
    <3> QED
      BY <2>1, <3>1 DEF Typing, PerHandle, Seeding, Activating, Compacting
  <2>3. CASE PublishSeed(u)
    <3>1. at[u] = "seeded" /\ at'[u] = "seed published" /\ current # Nil /\ UNCHANGED <<store, writer>>
      BY <1>0, <2>3 DEF PublishSeed, Go, writerVars
    <3>2. current' \in Manifests
      BY <1>0, <3>1 DEF Grows, Typing, Shapes
    <3> QED
      BY <2>1, <3>1, <3>2 DEF Shielded, Activating, Compacting
  <2>4. CASE CompactDrains(u)
    <3>1. at'[u] = "drained" /\ writer' = [writer EXCEPT ![H(u)] = "stopped"]
      BY <1>0, <2>4 DEF CompactDrains
    <3> QED
      BY <2>1, <3>1 DEF Typing, PerHandle, Activating, Compacting
  <2>5. CASE CompactPublishes(u)
    <3>1. at[u] = "drained" /\ at'[u] = "compacted" /\ writer' = writer
      BY <1>0, <2>5 DEF CompactPublishes, InCompact, writerVars
    <3> QED
      BY <2>1, <3>1 DEF Shielded, Activating, Compacting
  <2>6. CASE at'[u] \notin Activating \cup Compacting
    BY <2>6 DEF Activating
  <2> QED
    BY <1>3, <2>2, <2>3, <2>4, <2>5, <2>6, <2>7, Arrives
<1>4. ASSUME NEW h \in Handles, Dies(h) PROVE Goal
  BY <1>1, <1>2, <1>4, DiesMoves
<1>5. ASSUME NEW t \in Threads, ThreadStep(t) PROVE Goal
  <2>1. CASE t = u
    BY <1>3, <1>5, <2>1
  <2>2. CASE t # u
    <3>1. PICK step, c : Moves(t, step, c)
      BY <1>5, ThreadMoves
    <3>2. at'[u] = at[u] /\ call'[u] = call[u]
      BY <2>2, <3>1 DEF Moves, Typing, Shapes
    <3> QED
      BY <1>1, <3>2
  <2> QED
    BY <2>1, <2>2
<1>6. ASSUME UNCHANGED <<at, call>> PROVE Goal
  BY <1>1, <1>6
<1> QED
  <2> HIDE DEF Goal
  <2>1. Goal
    BY <1>4, <1>5, <1>6, NextIs
  <2> QED
    BY <2>1 DEF Goal

-----------------------------------------------------------------------------
(* The handles: what is queued is queued in a store, a writer has a CURRENT and a log, *)
(* and a closed handle has neither store nor writer.                                    *)
LEMMA LateChanges ==
    ASSUME [Next]_vars
    PROVE  \/ UNCHANGED late
           \/ \E h \in Handles : Dies(h) \/ LateCommit(h) \/ WriterPoisoned(h)
           \/ \E t \in Threads : SeedTimesOut(t) \/ SubmitTimesOut(t)
<1> USE DEF writerVars
<1>1. CASE UNCHANGED vars
  BY <1>1 DEF vars
<1>2. ASSUME NEW h \in Handles,
             \/ Create(h) \/ CreateEnds(h) \/ Open(h) \/ Dies(h)
             \/ LateCommit(h) \/ WriterPoisoned(h) \/ CaptureReadView(h)
      PROVE  UNCHANGED late \/ Dies(h) \/ LateCommit(h) \/ WriterPoisoned(h)
  BY <1>2 DEF Create, CreateEnds, Open, CaptureReadView
<1>3. ASSUME NEW h \in Handles, NEW t \in Threads, Calls(t, h) PROVE UNCHANGED late
  BY <1>3 DEF Calls, BeginWrite, BeginCompact, BeginClose, Enter, BeginAudit, BeginGet
<1>4. ASSUME NEW t \in Threads, TakeLock(t) \/ Close(t) \/ Read(t) PROVE UNCHANGED late
  BY <1>4 DEF TakeLock, Close, Read, Lookup, Touch, Insert, GetReturns, AuditNext, AuditChecks,
     AuditReturns
<1>5. ASSUME NEW t \in Threads, Write(t)
      PROVE  UNCHANGED late \/ SeedTimesOut(t) \/ SubmitTimesOut(t)
  BY <1>5 DEF Write, Seed, SeedKills, PublishSeed, SeedUnpublished, ActivateFirst, NotNeeded,
     ActivateFails, Submit, SubmitKills, SubmitRaises, Return
<1>6. ASSUME NEW t \in Threads, Compact(t) PROVE UNCHANGED late
  BY <1>6 DEF Compact, NothingToDo, CompactDrains, CompactPublishes, CompactActivates,
     CompactFails
<1> HIDE DEF writerVars
<1> QED
  BY <1>1, <1>2, <1>3, <1>4, <1>5, <1>6, Zenon DEF Next

HandleOK(g) ==
    /\ late[g] # Nil => store[g] # "none" \/ writer[g] # "none"
    /\ writer[g] # "none" => current \in Manifests /\ log # <<>>
    /\ life[g] = "closed" => writer[g] = "none" /\ store[g] = "none"

(* What a step leaves queued was queued, or is left by a caller of a store that is there. *)
LEMMA LateFrom ==
    ASSUME Typing, [Next]_vars, NEW g \in Handles, late'[g] # Nil
    PROVE  \/ late[g] # Nil /\ ~ Dies(g) /\ ~ WriterPoisoned(g)
           \/ /\ store[g] # "none" \/ writer[g] # "none"
              /\ UNCHANGED <<life, store, writer>>
<1>0. late \in [Handles -> Commands \cup {Nil}]
  BY DEF Typing, PerHandle
<1>1. ASSUME NEW h \in Handles, Dies(h) \/ LateCommit(h) \/ WriterPoisoned(h)
      PROVE  late[g] # Nil /\ h # g
  <2>1. late' = [late EXCEPT ![h] = Nil]
    BY <1>1 DEF Dies, LateCommit, WriterPoisoned
  <2> QED
    BY <1>0, <2>1
<1>2. ASSUME NEW t \in Threads, SeedTimesOut(t) \/ SubmitTimesOut(t)
      PROVE  \/ late[g] # Nil
             \/ /\ store[g] # "none" \/ writer[g] # "none"
                /\ UNCHANGED <<life, store, writer>>
  <2>1. late' = late \/ \E c : late' = [late EXCEPT ![H(t)] = c]
    BY <1>2 DEF SeedTimesOut, SubmitTimesOut, TakesBack, LeavesBehind
  <2>2. /\ writer[H(t)] # "none" \/ store[H(t)] # "none"
        /\ UNCHANGED <<life, store, writer>>
    BY <1>2 DEF SeedTimesOut, SubmitTimesOut
  <2> QED
    BY <1>0, <2>1, <2>2
<1> QED
  BY <1>1, <1>2, LateChanges

LEMMA StepHandle ==
    ASSUME Typing, LockHeld, Shielded, Born, ClosedHoldsNothing, [Next]_vars, NEW g \in Handles
    PROVE  HandleOK(g)'
<1> DEFINE Kept == life'[g] = life[g] /\ store'[g] = store[g] /\ writer'[g] = writer[g]
           Queued == late'[g] # Nil => store'[g] # "none" \/ writer'[g] # "none"
           Backed == writer'[g] # "none" => current' \in Manifests /\ log' # <<>>
           Shut == life'[g] = "closed" => writer'[g] = "none" /\ store'[g] = "none"
           Goal == Queued /\ Backed /\ Shut
<1>0. /\ life \in [Handles -> {"none", "making", "open", "closed"}]
      /\ store \in [Handles -> {"none", "genesis", "dead", "fenced"}]
      /\ writer \in [Handles -> {"none", "serving", "dead", "stopped"}]
  BY DEF Typing, PerHandle
<1>1. /\ late[g] # Nil => store[g] # "none" \/ writer[g] # "none"
      /\ writer[g] # "none" => current \in Manifests /\ log # <<>>
      /\ life[g] = "closed" => writer[g] = "none" /\ store[g] = "none"
  BY DEF Shielded, ClosedHoldsNothing
<1>2. current \in Manifests /\ log # <<>> => current' \in Manifests /\ log' # <<>>
  BY StepScope DEF Typing, Scope, Grows, LogGrows
<1>3. CASE Kept
  <2>1. Queued
    BY <1>1, <1>3, LateFrom
  <2> QED
    BY <1>1, <1>2, <1>3, <2>1 DEF HandleOK
<1>4. ASSUME NEW h \in Handles,
             Create(h) \/ CreateEnds(h) \/ Open(h) \/ Dies(h) \/ WriterPoisoned(h)
      PROVE  Goal \/ Kept
  <2>1. CASE Create(h) \/ Open(h)
    <3>1. store' = store /\ writer' = writer /\ (h = g => life'[g] \in {"making", "open"})
             /\ (h # g => life'[g] = life[g])
      BY <1>0, <2>1 DEF Create, Open, writerVars
    <3> QED
      BY <1>1, <1>2, <3>1, LateFrom
  <2>2. CASE CreateEnds(h)
    <3>1. writer' = writer /\ (h = g => life'[g] = "open" /\ store'[g] = "genesis")
             /\ (h # g => life'[g] = life[g] /\ store'[g] = store[g])
      BY <1>0, <2>2 DEF CreateEnds
    <3> QED
      BY <1>1, <1>2, <3>1
  <2>3. CASE Dies(h)
    <3>1. /\ h = g => life'[g] = "none" /\ store'[g] = "none" /\ writer'[g] = "none"
          /\ h # g => Kept
      BY <1>0, <2>3 DEF Dies
    <3>2. h = g => late'[g] = Nil
      BY <2>3 DEF Dies, Typing, PerHandle
    <3> QED
      BY <3>1, <3>2
  <2>4. CASE WriterPoisoned(h)
    <3>1. /\ h = g => writer[g] = "serving" /\ writer'[g] = "stopped"
          /\ life' = life /\ store' = store
          /\ h # g => Kept
      BY <1>0, <2>4 DEF WriterPoisoned
    <3> QED
      BY <1>1, <1>2, <3>1
  <2> QED
    BY <1>4, <2>1, <2>2, <2>3, <2>4
<1>9. ASSUME NEW t \in Threads, SeedKills(t) \/ SubmitKills(t) PROVE Goal \/ Kept
  <2>1. H(t) \in Handles /\ late' = late
    BY <1>9, CallType DEF SeedKills, SubmitKills, InWrite, Typing, writerVars
  <2>2. /\ H(t) = g => life' = life /\ late[g] = Nil
        /\ H(t) = g => \/ store[g] = "genesis" /\ writer'[g] = "none"
                       \/ writer[g] = "serving" /\ writer'[g] = "dead"
        /\ H(t) # g => Kept
    BY <1>0, <1>9, <2>1 DEF SeedKills, SubmitKills
  <2> QED
    BY <1>1, <1>2, <2>1, <2>2
<1>5. ASSUME NEW t \in Threads, ActivateFirst(t) \/ NotNeeded(t) \/ ActivateFails(t)
      PROVE  Goal \/ Kept
  <2>1. /\ H(t) \in Handles /\ store[H(t)] \in Seeding
        /\ current \in Manifests /\ at[t] \in Activating
    BY <1>5, InLockHandle DEF ActivateFirst, NotNeeded, ActivateFails, Shielded, InLock, Activating
  <2>2. CASE ActivateFirst(t)
    <3>0. Len(log) > 0 /\ life' = life
      BY <2>2 DEF ActivateFirst
    <3>1. log # <<>> /\ life' = life
      BY <3>0
    <3>2. /\ H(t) = g => writer'[g] = "serving"
          /\ H(t) # g => Kept
      BY <1>0, <2>1, <2>2 DEF ActivateFirst
    <3> QED
      BY <1>1, <1>2, <2>1, <3>1, <3>2 DEF Seeding
  <2>3. CASE NotNeeded(t) \/ ActivateFails(t)
    <3>1. /\ H(t) = g => store'[g] \in {"fenced", store[g]} /\ writer'[g] = writer[g] /\ life' = life
          /\ H(t) # g => Kept
      BY <1>0, <2>1, <2>3 DEF NotNeeded, ActivateFails
    <3> QED
      BY <1>1, <1>2, <2>1, <3>1 DEF Seeding
  <2> QED
    BY <1>5, <2>2, <2>3
<1>6. ASSUME NEW t \in Threads, CompactDrains(t) \/ CompactActivates(t) PROVE Goal \/ Kept
  <2>1. H(t) \in Handles /\ writer[H(t)] # "none"
    BY <1>6, InLockHandle DEF CompactDrains, CompactActivates, InCompact, Shielded, InLock,
       Compacting
  <2>2. /\ H(t) = g => writer'[g] # "none" /\ life' = life
        /\ H(t) # g => Kept
    BY <1>0, <1>6, <2>1 DEF CompactDrains, CompactActivates
  <2> QED
    BY <1>1, <1>2, <2>1, <2>2
<1>7. ASSUME NEW t \in Threads, Close(t) PROVE Goal \/ Kept
  <2>1. /\ H(t) = g => writer'[g] = "none" /\ store'[g] = "none" /\ late'[g] = Nil
        /\ H(t) # g => Kept
    BY <1>0, <1>7 DEF Close
  <2> QED
    BY <2>1
<1>8. Goal \/ Kept
  BY <1>4, <1>5, <1>6, <1>7, <1>9, WriterChanges
<1> QED
  BY <1>3, <1>8 DEF HandleOK

(* Only the handle that made the scope ever has a genesis store. *)
LEMMA StepBorn ==
    ASSUME Typing, LockHeld, Shielded, Born, [Next]_vars
    PROVE  Born'
<1> USE DEF Unborn, scopeVars, writerVars
<1>0. PerHandle /\ Born
  BY DEF Typing
<1>1. CASE UNCHANGED <<scopeVars, life, store, writer>>
  BY <1>0, <1>1 DEF Born
<1>2. ASSUME NEW h \in Handles, Create(h) PROVE Born'
  BY <1>0, <1>2 DEF Create, Born, PerHandle
<1>3. ASSUME NEW h \in Handles, CreateEnds(h) PROVE Born'
  BY <1>0, <1>3 DEF CreateEnds, Born, PerHandle
<1>4. ASSUME NEW h \in Handles, Open(h) \/ Dies(h) PROVE Born'
  BY <1>0, <1>4 DEF Open, Dies, Born, PerHandle
<1>5. ASSUME made, \A h \in Handles : life[h] # "making", made' = made,
             \A h \in Handles : life'[h] # "making"
      PROVE  Born'
  BY <1>5 DEF Born
<1>6. ASSUME NEW h \in Handles, store[h] # "none" \/ writer[h] # "none"
      PROVE  made /\ \A g \in Handles : life[g] # "making"
  BY <1>0, <1>6 DEF Born
<1>7. ASSUME NEW h \in Handles, WriterPoisoned(h) \/ LateCommit(h) PROVE Born'
  <2>1. store[h] # "none" \/ writer[h] # "none"
    BY <1>7 DEF WriterPoisoned, LateCommit, Shielded
  <2>2. made' = made /\ life' = life
    BY <1>7 DEF WriterPoisoned, LateCommit
  <2> QED
    BY <1>5, <1>6, <2>1, <2>2
<1>8. ASSUME NEW h \in Handles, CaptureReadView(h) PROVE Born'
  BY <1>0, <1>8 DEF CaptureReadView, Born
<1>9. ASSUME NEW t \in Threads,
             \/ Seed(t) \/ PublishSeed(t) \/ Submit(t) \/ CompactPublishes(t)
             \/ SeedKills(t) \/ SubmitKills(t) \/ ActivateFirst(t) \/ NotNeeded(t)
             \/ ActivateFails(t) \/ CompactDrains(t) \/ CompactActivates(t)
      PROVE  Born'
  <2>1. at[t] \in InLock
    BY <1>9 DEF Seed, SeedKills, InWrite, PublishSeed, Go, Submit, SubmitKills,
       CompactPublishes, InCompact, ActivateFirst, NotNeeded, ActivateFails, CompactDrains,
       CompactActivates, InLock, Activating, Compacting
  <2>2. H(t) \in Handles
    BY <2>1, InLockHandle
  <2>3. store[H(t)] # "none" \/ writer[H(t)] # "none"
    <3>1. CASE at[t] \in Activating \cup Compacting
      BY <3>1 DEF Shielded, Seeding
    <3>2. CASE at[t] = "locked"
      BY <1>9, <3>2 DEF Seed, SeedKills, PublishSeed, Go, Submit, SubmitKills, CompactPublishes,
         InCompact, ActivateFirst, NotNeeded, ActivateFails, CompactDrains, CompactActivates
    <3> QED
      BY <2>1, <3>1, <3>2 DEF InLock
  <2>4. made' = made /\ life' = life
    BY <1>9 DEF Seed, SeedKills, PublishSeed, Submit, SubmitKills, CompactPublishes,
       ActivateFirst, NotNeeded, ActivateFails, CompactDrains, CompactActivates
  <2> QED
    BY <1>5, <1>6, <2>2, <2>3, <2>4
<1>10. ASSUME NEW t \in Threads, Close(t) PROVE Born'
  BY <1>0, <1>10 DEF Close, Born, PerHandle
<1> QED
  BY <1>1, <1>2, <1>3, <1>4, <1>7, <1>8, <1>9, <1>10, ScopeChanges, WriterChanges
-----------------------------------------------------------------------------
(* The sequence numbers of the receipts. *)
LEMMA OnlyReturns ==
    ASSUME NEW t \in Threads, ThreadStep(t)
    PROVE  UNCHANGED <<seen, acked>> \/ Return(t)
<1>1. ASSUME NEW h \in Handles, Calls(t, h) PROVE UNCHANGED <<seen, acked>>
  BY <1>1 DEF Calls, BeginWrite, BeginCompact, BeginClose, Enter, BeginAudit, BeginGet
<1>2. CASE TakeLock(t) \/ Close(t) \/ Read(t)
  BY <1>2 DEF TakeLock, Close, Read, Lookup, Touch, Insert, GetReturns, AuditNext, AuditChecks,
     AuditReturns
<1>3. CASE Write(t)
  BY <1>3 DEF Write, Seed, SeedTimesOut, SeedKills, PublishSeed, SeedUnpublished,
     ActivateFirst, NotNeeded, ActivateFails, Submit, SubmitTimesOut, SubmitKills, SubmitRaises
<1>4. CASE Compact(t)
  BY <1>4 DEF Compact, NothingToDo, CompactDrains, CompactPublishes, CompactActivates,
     CompactFails
<1> QED
  BY <1>1, <1>2, <1>3, <1>4 DEF ThreadStep

(* What a write carries out of the lock. *)
LEMMA LeaveSets ==
    ASSUME Shapes, NEW t \in Threads, call[t] \in WriteCalls, NEW s, NEW n, Leave(t, s, n)
    PROVE  /\ at'[t] = "returning" /\ call'[t].state = s /\ call'[t].seq = n
           /\ call'[t].cmd = call[t].cmd
BY DEF Leave, Shapes, WriteCalls

LEMMA SeedSets ==
    ASSUME Shapes, NEW t \in Threads, Seed(t)
    PROVE  /\ call[t] \in WriteCalls /\ call[t].cmd \in Commands /\ at'[t] = "seeded"
           /\ log' = Committed(call[t].cmd) /\ call'[t].cmd = call[t].cmd
           /\ call'[t].state = WriteMap(Status(call[t].cmd))
           /\ call'[t].seq = ReceiptSeq(call[t].cmd)
<1>1. call[t] \in WriteCalls /\ call[t].cmd \in Commands
  BY CallType DEF Seed, SeedTimesOut, SeedKills, InWrite
<1>2. t \in DOMAIN call /\ at'[t] = "seeded"
  BY DEF Seed, SeedTimesOut, SeedKills, Shapes
<1>3. call' = [call EXCEPT ![t].state = WriteMap(Status(call[t].cmd)),
                           ![t].seq = ReceiptSeq(call[t].cmd)]
      /\ log' = Committed(call[t].cmd)
  BY DEF Seed
<1> QED
  BY <1>1, <1>2, <1>3 DEF WriteCalls

(* A first write whose store did not answer carries on with no receipt. *)
LEMMA SeedLostSets ==
    ASSUME Shapes, NEW t \in Threads, SeedTimesOut(t) \/ SeedKills(t)
    PROVE  /\ at'[t] = "seeded" /\ call'[t].seq = 0
           /\ call'[t].state \in {"NOT_ACCEPTED", "COMMIT_UNKNOWN"}
<1>1. call[t] \in WriteCalls
  BY CallType DEF SeedTimesOut, SeedKills, InWrite
<1>2. t \in DOMAIN call /\ at'[t] = "seeded"
  BY DEF SeedTimesOut, SeedKills, Shapes
<1>3. \E s \in {"NOT_ACCEPTED", "COMMIT_UNKNOWN"} :
        call' = [call EXCEPT ![t] = [call[t] EXCEPT !.state = s, !.seq = 0]]
  BY <1>2 DEF SeedTimesOut, SeedKills
<1> QED
  BY <1>1, <1>2, <1>3 DEF WriteCalls

LEMMA SubmitSets ==
    ASSUME Shapes, Shielded, NEW t \in Threads, Submit(t)
    PROVE  /\ call[t].cmd \in Commands /\ call'[t].cmd = call[t].cmd
           /\ log' = Committed(call[t].cmd) /\ at'[t] = "returning"
           /\ call'[t].state = WriteMap(Status(call[t].cmd))
           /\ call'[t].seq = ReceiptSeq(call[t].cmd)
           /\ current \in Manifests /\ current' = [current EXCEPT !.seq = Len(log')]
<1>1. call[t] \in WriteCalls /\ call[t].cmd \in Commands /\ H(t) \in Handles
  BY CallType DEF Submit, InWrite
<1>2. Leave(t, WriteMap(Status(call[t].cmd)), ReceiptSeq(call[t].cmd))
  BY DEF Submit
<1>3. current \in Manifests
  BY <1>1 DEF Submit, Shielded
<1> QED
  BY <1>1, <1>2, <1>3, LeaveSets DEF Submit

LEMMA LeavesAtZero ==
    ASSUME Shapes, NEW t \in Threads,
           \/ SeedUnpublished(t) \/ NotNeeded(t) \/ ActivateFails(t)
           \/ SubmitTimesOut(t) \/ SubmitKills(t) \/ SubmitRaises(t)
    PROVE  at'[t] = "returning" /\ call'[t].state = "OVERLOAD" /\ call'[t].seq = 0
<1>1. call[t] \in WriteCalls
  BY CallType DEF SeedUnpublished, NotNeeded, ActivateFails, SubmitTimesOut, SubmitKills,
     SubmitRaises, InWrite, Activating
<1>2. Leave(t, "OVERLOAD", 0)
  BY DEF SeedUnpublished, NotNeeded, ActivateFails, SubmitTimesOut, SubmitKills, SubmitRaises
<1> QED
  BY <1>1, <1>2, LeaveSets

LEMMA CountsMove ==
    ASSUME Typing, Shielded, Born, Counts, [Next]_vars, NEW t \in Threads, ThreadStep(t)
    PROVE  CountOK(at[t], call[t])'
<1>0. Grows /\ Len(log) \in Nat /\ t \in DOMAIN at /\ CountOK(at[t], call[t])
  BY StepScope DEF Typing, Shapes, Scope, Counts
<1>7. Len(log') \in Nat
  BY <1>0 DEF Grows, LogGrows
<1> USE DEF CountOK, Activating
<1>1. CASE Seed(t)
  <2>1. call'[t].seq \in 0..Len(log') /\ at'[t] = "seeded"
    BY <1>1, SeedSets, CommitOK DEF Typing
  <2>2. call'[t].seq <= Len(log') /\ at'[t] # "returning"
    BY <1>7, <2>1
  <2> QED
    BY <2>2
<1>2. CASE PublishSeed(t)
  BY <1>0, <1>2 DEF PublishSeed, Go
<1>3. CASE \/ SeedUnpublished(t) \/ NotNeeded(t) \/ ActivateFails(t)
           \/ SubmitTimesOut(t) \/ SubmitKills(t) \/ SubmitRaises(t)
  <2>1. at'[t] = "returning" /\ call'[t].seq = 0
    BY <1>3, LeavesAtZero DEF Typing
  <2> QED
    BY <2>1 DEF Covered
<1>8. CASE SeedTimesOut(t) \/ SeedKills(t)
  <2>1. at'[t] = "seeded" /\ call'[t].seq = 0
    BY <1>8, SeedLostSets DEF Typing
  <2> QED
    BY <1>7, <2>1
<1>4. CASE ActivateFirst(t)
  <2>1. call[t] \in WriteCalls /\ current \in Manifests /\ current.seq = Len(log)
    BY <1>4, CallType DEF ActivateFirst, Typing, Shielded
  <2>2. at'[t] = "returning" /\ call'[t].seq = call[t].seq
    <3>1. Leave(t, WriteMap(call[t].state), call[t].seq)
      BY <1>4 DEF ActivateFirst
    <3> QED
      BY <2>1, <3>1, LeaveSets DEF Typing
  <2>3. call[t].seq <= current.seq /\ current' = current
    BY <1>0, <1>4, <2>1 DEF ActivateFirst, scopeVars
  <2> QED
    BY <2>1, <2>2, <2>3 DEF Covered
<1>5. CASE Submit(t)
  <2>1. call'[t].seq \in 0..Len(log') /\ at'[t] = "returning"
    BY <1>5, SubmitSets, CommitOK DEF Typing
  <2>2. current' \in Manifests /\ current'.seq = Len(log')
    BY <1>7, <1>5, SubmitSets DEF Typing, Manifests
  <2> QED
    <3>1. call'[t].seq <= current'.seq /\ at'[t] \notin Activating
      BY <1>7, <2>1, <2>2
    <3> QED
      BY <2>2, <3>1 DEF Covered
<1>6. CASE at'[t] \notin Activating \cup {"returning"}
  BY <1>6
<1> QED
  BY <1>1, <1>2, <1>3, <1>4, <1>5, <1>6, <1>8, Arrives

LEMMA StepCounts ==
    ASSUME Typing, LockHeld, Shielded, Born, Counts, Reads, Deletes, [Next]_vars
    PROVE  Counts' /\ acked' \in 0..Len(log')
<1>0. Grows /\ Len(log) \in Nat /\ Len(log') \in Nat /\ Len(log) <= Len(log')
      /\ acked \in 0..Len(log) /\ Covered(acked)
  BY StepScope DEF Typing, Scope, Grows, LogGrows, Counts
<1>1. \A n \in Int : Covered(n) => (n > 0 => current' \in Manifests /\ n <= current'.seq)
  BY <1>0 DEF Covered, Grows, Manifests
<1>2. ASSUME NEW u \in Threads, at'[u] = at[u], call'[u] = call[u] PROVE CountOK(at[u], call[u])'
  <2>1. at[u] \in Activating \cup {"returning"} => call[u].seq \in Nat
    BY CallType DEF Typing, WriteCalls
  <2> QED
    BY <1>0, <1>1, <1>2, <2>1 DEF Counts, CountOK, Covered
<1>3. ASSUME NEW u \in Threads, at'[u] = "idle" PROVE CountOK(at[u], call[u])'
  BY <1>3 DEF CountOK, Activating
<1>4. ASSUME NEW t \in Threads, ThreadStep(t) PROVE Counts' /\ acked' \in 0..Len(log')
  <2>1. PICK step, c : Moves(t, step, c)
    BY <1>4, ThreadMoves
  <2>2. ASSUME NEW u \in Threads PROVE CountOK(at[u], call[u])'
    <3>1. CASE u = t
      BY <1>4, <3>1, CountsMove
    <3>2. CASE u # t
      BY <1>2, <2>1, <3>2 DEF Moves, Typing, Shapes
    <3> QED
      BY <3>1, <3>2
  <2>3. acked' \in 0..Len(log') /\ Covered(acked)'
    <3>1. CASE acked' = acked
      BY <1>0, <1>1, <3>1 DEF Covered
    <3>2. CASE Return(t)
      <4>1. Covered(call[t].seq) /\ call[t].seq \in Nat
        BY <3>2, CallType DEF Return, Go, Counts, CountOK, Typing, WriteCalls
      <4>2. acked' \in {acked, call[t].seq} /\ log' = log /\ current' = current
        BY <3>2 DEF Return, scopeVars
      <4>3. call[t].seq > 0 => call[t].seq <= Len(log)
        <5>1. current \in Manifests => Within(current)
          BY NoneAssumption DEF Typing, Scope, Manifests
        <5> QED
          BY <1>0, <4>1, <5>1 DEF Covered, Within, Manifests
      <4> QED
        BY <1>0, <4>1, <4>2, <4>3 DEF Covered
    <3> QED
      BY <1>4, <3>1, <3>2, OnlyReturns
  <2> QED
    BY <2>2, <2>3 DEF Counts
<1>5. ASSUME acked' = acked, \A u \in Threads : CountOK(at[u], call[u])'
      PROVE  Counts' /\ acked' \in 0..Len(log')
  BY <1>0, <1>1, <1>5 DEF Counts, Covered
<1>6. ASSUME NEW h \in Handles, Dies(h) PROVE Counts' /\ acked' \in 0..Len(log')
  BY <1>2, <1>3, <1>5, <1>6, DiesMoves DEF Dies
<1>7. CASE UNCHANGED <<at, call, lock, seen, acked>>
  BY <1>2, <1>5, <1>7
<1> QED
  BY <1>4, <1>6, <1>7, NextIs
-----------------------------------------------------------------------------
(* What a get or an audit has read. *)
LEMMA ReadManifest ==
    ASSUME Typing, Reads, NEW t \in Threads, at[t] \in Reading \cup {"auditing"}
    PROVE  /\ call[t] \in GetCalls \cup AuditCalls
           /\ at[t] = "auditing" \/ call[t].kind = "audit" => call[t] \in AuditCalls
           /\ call[t].man \in Manifests /\ call[t].man.seq \in 0..Len(log)
<1>1. ShapeOf(at[t], call[t]) /\ ReadAt(at[t], call[t])
  BY DEF Typing, Shapes, Reads
<1>2. call[t] \in GetCalls \cup AuditCalls
      /\ (at[t] = "auditing" \/ call[t].kind = "audit" => call[t] \in AuditCalls)
  BY <1>1 DEF ShapeOf, GetCalls
<1>3. call[t].man \in Manifests
  BY <1>2, ReadType
<1> QED
  BY <1>1, <1>2, <1>3 DEF ReadAt, Manifests

(* A get that begins: its manifest is within the log, and CURRENT covers what returned. *)
LEMMA BeginReads ==
    ASSUME Typing, Counts, NEW t \in Threads, NEW h \in Handles,
           \/ BeginAudit(t, h)
           \/ \E f \in Facts, man \in {current} \cup captured : BeginGet(t, h, f, man)
    PROVE  /\ at'[t] \in {"reading", "auditing"} /\ log' = log
           /\ call'[t].man.seq <= Len(log)
           /\ at'[t] = "reading" => call'[t].kind = "get" /\ call'[t].since <= call'[t].man.seq
           /\ at'[t] = "auditing" => call'[t].kind = "audit" /\ call'[t].bad = {}
<1>0. t \in DOMAIN at /\ t \in DOMAIN call /\ acked \in Nat /\ Covered(acked)
      /\ Len(log) \in Nat
  BY DEF Typing, Shapes, Scope, Counts
<1>1. \A man \in captured \cup ({current} \ {Nil}) : man \in Manifests /\ man.seq <= Len(log)
  BY DEF Typing, Scope, Within
<1>2. CASE BeginAudit(t, h)
  <2>1. /\ at'[t] = "auditing" /\ log' = log /\ current # Nil
        /\ call'[t] = [kind |-> "audit", h |-> h, man |-> current, todo |-> Facts, keys |-> Nil,
                       fact |-> Nil, found |-> Nil, bad |-> {}]
    BY <1>0, <1>2 DEF BeginAudit, scopeVars
  <2> QED
    BY <1>1, <2>1
<1>3. ASSUME NEW f \in Facts, NEW man \in {current} \cup captured, BeginGet(t, h, f, man)
      PROVE  /\ at'[t] = "reading" /\ log' = log /\ call'[t].man.seq <= Len(log)
             /\ call'[t].kind = "get" /\ call'[t].since <= call'[t].man.seq
  <2>1. /\ at'[t] = "reading" /\ log' = log /\ current # Nil
        /\ call'[t] = [kind |-> "get", h |-> h, fact |-> f, man |-> man, found |-> Nil,
                       since |-> IF man = current THEN acked ELSE 0]
    BY <1>0, <1>3 DEF BeginGet, scopeVars
  <2>2. man \in Manifests /\ man.seq <= Len(log) /\ man.seq \in Nat
    BY <1>1, <1>3, <2>1 DEF Manifests
  <2>3. man = current => acked <= man.seq
    BY <1>0, <2>2 DEF Covered
  <2> QED
    BY <2>1, <2>2, <2>3
<1> QED
  BY <1>2, <1>3

(* What each step of a read leaves in the call. *)
LEMMA ReadSets ==
    ASSUME Typing, Reads, Deletes, NEW t \in Threads, Read(t)
    PROVE  /\ log' = log /\ at[t] \in Reading \cup {"auditing"}
           /\ \/ /\ at'[t] = "idle" /\ call'[t] = NoCall
              \/ /\ at[t] = "reading" /\ at'[t] = "missed" /\ call'[t] = call[t]
              \/ /\ at[t] = "hit" /\ at'[t] \in {"raised", "answered"} /\ call'[t] = call[t]
              \/ /\ at[t] \in {"reading", "missed"} /\ at'[t] \in {"hit", "answered"}
                 /\ call'[t] = [call[t] EXCEPT
                        !.found = InForce(call[t].fact, call[t].man.seq)]
              \/ AuditNext(t) \/ AuditChecks(t)
<1>0. t \in DOMAIN at /\ t \in DOMAIN call
  BY DEF Typing, Shapes
<1> USE DEF Reading, scopeVars
<1>1. CASE Lookup(t)
  <2>1. call[t] \in GetCalls \cup AuditCalls
    BY <1>1, ReadManifest DEF Lookup
  <2>2. H(t) \in Handles
    BY <2>1, ReadType
  <2>3. CASE Cached(H(t), call[t].man) = {}
    BY <1>0, <1>1, <2>3 DEF Lookup
  <2>4. CASE Cached(H(t), call[t].man) # {}
    <3>1. cache[H(t)][Max(Cached(H(t), call[t].man))] = call[t].man
      BY <2>2, <2>4, CachedIs DEF Typing
    <3> QED
      BY <1>0, <1>1, <2>4, <3>1 DEF Lookup
  <2> QED
    BY <2>3, <2>4
<1>2. CASE Touch(t)
  BY <1>0, <1>2 DEF Touch
<1>3. CASE Insert(t)
  BY <1>0, <1>3 DEF Insert, Go, Answer
<1>4. CASE GetReturns(t) \/ AuditReturns(t)
  BY <1>0, <1>4 DEF GetReturns, AuditReturns
<1>5. CASE AuditNext(t) \/ AuditChecks(t)
  BY <1>5 DEF AuditNext, AuditChecks
<1> QED
  BY <1>1, <1>2, <1>3, <1>4, <1>5 DEF Read

(* An audit goes on to the next fact, or notes the answer about one. *)
LEMMA AuditSets ==
    ASSUME Typing, Reads, NEW t \in Threads
    PROVE  /\ AuditNext(t) =>
                /\ at[t] = "auditing" /\ at'[t] \in {"raised", "reading", "auditing"}
                /\ call[t] \in AuditCalls /\ call'[t].kind = "audit"
                /\ call'[t].man = call[t].man /\ call'[t].bad = call[t].bad
                /\ call'[t].fact \in Facts
                /\ at'[t] = "reading" => seen[H(t)][call'[t].fact] = "deleted"
           /\ AuditChecks(t) =>
                /\ at[t] = "answered" /\ at'[t] = "auditing"
                /\ call[t] \in AuditCalls /\ call'[t].kind = "audit"
                /\ call'[t].man = call[t].man
                /\ call'[t].bad = IF call[t].found # Nil /\ call[t].found.op = "DELETE"
                                  THEN call[t].bad ELSE call[t].bad \cup {call[t].fact}
<1>0. t \in DOMAIN at /\ t \in DOMAIN call
  BY DEF Typing, Shapes
<1>1. ASSUME AuditNext(t)
      PROVE  /\ at[t] = "auditing" /\ at'[t] \in {"raised", "reading", "auditing"}
             /\ call[t] \in AuditCalls /\ call'[t].kind = "audit"
             /\ call'[t].man = call[t].man /\ call'[t].bad = call[t].bad
             /\ call'[t].fact \in Facts
             /\ at'[t] = "reading" => seen[H(t)][call'[t].fact] = "deleted"
  <2>1. call[t] \in AuditCalls
    BY <1>1, ReadManifest DEF AuditNext
  <2> DEFINE keys == IF call[t].keys = Nil THEN Keys(call[t].h) ELSE call[t].keys
             d(f) == [call[t] EXCEPT !.keys = keys, !.fact = f, !.todo = @ \ {f}]
  <2>2. PICK f \in call[t].todo :
           /\ at' = [at EXCEPT ![t] = IF keys # Keys(call[t].h) THEN "raised"
                                 ELSE IF seen[call[t].h][f] = "deleted" THEN "reading"
                                 ELSE "auditing"]
           /\ call' = [call EXCEPT ![t].keys = keys, ![t].fact = f, ![t].todo = @ \ {f}]
    BY <1>1 DEF AuditNext
  <2>3. call'[t] = d(f)
    BY <1>0, <2>2
  <2>4. /\ d(f).kind = "audit" /\ d(f).man = call[t].man /\ d(f).bad = call[t].bad
        /\ d(f).fact = f /\ f \in Facts
    BY <2>1 DEF AuditCalls
  <2>5. at'[t] \in {"raised", "reading", "auditing"}
        /\ (at'[t] = "reading" => seen[call[t].h][f] = "deleted")
    BY <1>0, <2>2
  <2> HIDE DEF d, keys
  <2> QED
    BY <1>1, <2>1, <2>3, <2>4, <2>5 DEF AuditNext, H
<1>2. ASSUME AuditChecks(t)
      PROVE  /\ at[t] = "answered" /\ at'[t] = "auditing"
             /\ call[t] \in AuditCalls /\ call'[t].kind = "audit"
             /\ call'[t].man = call[t].man
             /\ call'[t].bad = IF call[t].found # Nil /\ call[t].found.op = "DELETE"
                               THEN call[t].bad ELSE call[t].bad \cup {call[t].fact}
  <2>1. call[t] \in AuditCalls
    BY <1>2, ReadManifest DEF AuditChecks, Reading
  <2> DEFINE b == IF call[t].found # Nil /\ call[t].found.op = "DELETE"
                  THEN call[t].bad ELSE call[t].bad \cup {call[t].fact}
  <2>2. call'[t] = [call[t] EXCEPT !.bad = b]
    BY <1>0, <1>2 DEF AuditChecks
  <2>3. call'[t].kind = "audit" /\ call'[t].man = call[t].man /\ call'[t].bad = b
    <3> HIDE DEF b
    <3> QED
      BY <2>1, <2>2 DEF AuditCalls
  <2>4. at[t] = "answered" /\ at'[t] = "auditing"
    BY <1>0, <1>2 DEF AuditChecks
  <2> QED
    BY <2>1, <2>3, <2>4
<1> QED
  BY <1>1, <1>2
LEMMA ReadsKept ==
    ASSUME Typing, Reads, LogGrows, NEW u \in Threads, at'[u] = at[u], call'[u] = call[u]
    PROVE  ReadAt(at[u], call[u])'
<1>0. ReadAt(at[u], call[u]) /\ log \in Seq(Commands) /\ Len(log) \in Nat
      /\ Len(log') \in Nat /\ Len(log) <= Len(log')
  BY DEF Typing, Scope, Reads, LogGrows
<1>1. CASE at[u] \in Reading \cup {"auditing"}
  <2>1. call[u].man.seq \in 0..Len(log)
    BY <1>1, ReadManifest
  <2>2. PICK c : c = call[u] /\ c = call'[u]
    OBVIOUS
  <2>3. InForce(c.fact, c.man.seq)' = InForce(c.fact, c.man.seq)
    BY <1>0, <2>1, <2>2, InForceKept
  <2>4. at[u] \in {"hit", "answered"} => c.found = InForce(c.fact, c.man.seq)
    BY <1>0, <2>2 DEF ReadAt
  <2>5. at[u] \in Reading /\ c.kind = "get" => c.since <= c.man.seq
    BY <1>0, <2>2 DEF ReadAt
  <2>6. c.man.seq <= Len(log')
    BY <1>0, <2>1, <2>2
  <2> QED
    BY <2>2, <2>3, <2>4, <2>5, <2>6 DEF ReadAt
<1>2. CASE at[u] \notin Reading \cup {"auditing"}
  BY <1>2 DEF ReadAt, Reading
<1> QED
  BY <1>1, <1>2

LEMMA ReadsMove ==
    ASSUME Typing, Counts, Reads, Deletes, LogGrows, NEW t \in Threads, ThreadStep(t)
    PROVE  ReadAt(at[t], call[t])'
<1>1. CASE at'[t] \notin Reading \cup {"auditing"}
  BY <1>1 DEF ReadAt, Reading
<1>2. ASSUME NEW h \in Handles,
             \/ BeginAudit(t, h)
             \/ \E f \in Facts, man \in {current} \cup captured : BeginGet(t, h, f, man)
      PROVE  ReadAt(at[t], call[t])'
  BY <1>2, BeginReads DEF ReadAt, Reading
<1>3. CASE Read(t)
  <2>0. /\ at[t] \in Reading \cup {"auditing"} /\ log' = log /\ ReadAt(at[t], call[t])
        /\ call[t] \in GetCalls \cup AuditCalls /\ call[t].man.seq \in 0..Len(log)
        /\ log \in Seq(Commands) /\ Len(log) \in Nat
    <3>1. at[t] \in Reading \cup {"auditing"} /\ log' = log
      BY <1>3, ReadSets, Zenon
    <3>2. call[t] \in GetCalls \cup AuditCalls /\ call[t].man.seq \in 0..Len(log)
      BY <3>1, ReadManifest
    <3> QED
      BY <3>1, <3>2 DEF Reads, Typing, Scope
  <2>1. CASE at'[t] = "idle"
    BY <1>1, <2>1 DEF Reading
  <2>2. CASE \/ at[t] = "reading" /\ at'[t] = "missed" /\ call'[t] = call[t]
             \/ at[t] = "hit" /\ at'[t] \in {"raised", "answered"} /\ call'[t] = call[t]
    <3>1. PICK c : c = call[t] /\ c = call'[t]
      BY <2>2
    <3>2. InForce(c.fact, c.man.seq)' = InForce(c.fact, c.man.seq)
      BY <2>0 DEF InForce, WritesOf, Entry
    <3>3. at'[t] = "answered" => c.found = InForce(c.fact, c.man.seq)
      BY <2>0, <2>2, <3>1 DEF ReadAt
    <3>4. c.kind = "get" => c.since <= c.man.seq
      BY <2>0, <2>2, <3>1 DEF ReadAt, Reading
    <3>5. c.man.seq <= Len(log') /\ at'[t] # "hit"
      BY <2>0, <2>2, <3>1
    <3> QED
      BY <3>1, <3>2, <3>3, <3>4, <3>5 DEF ReadAt
  <2>3. CASE /\ at[t] \in {"reading", "missed"} /\ at'[t] \in {"hit", "answered"}
             /\ call'[t] = [call[t] EXCEPT !.found = InForce(call[t].fact, call[t].man.seq)]
    <3>1. InForce(call[t].fact, call[t].man.seq) \in Founds
      BY <2>0, InForceType
    <3>2. PICK d, c :
            /\ d = call[t] /\ c = call'[t] /\ c.found = InForce(d.fact, d.man.seq)
            /\ c.kind = d.kind /\ c.fact = d.fact /\ c.man = d.man
            /\ c.kind = "get" => c.since = d.since
      <4> DEFINE e == [call[t] EXCEPT !.found = InForce(call[t].fact, call[t].man.seq)]
      <4>1. /\ e.found = InForce(call[t].fact, call[t].man.seq)
            /\ e.kind = call[t].kind /\ e.fact = call[t].fact /\ e.man = call[t].man
            /\ e.kind = "get" => e.since = call[t].since
        BY <2>0, <3>1, ReadType
      <4>2. call'[t] = e
        BY <2>3
      <4> HIDE DEF e
      <4> QED
        BY <4>1, <4>2, Zenon
    <3>3. InForce(d.fact, d.man.seq)' = InForce(d.fact, d.man.seq)
      BY <2>0 DEF InForce, WritesOf, Entry
    <3>4. c.kind = "get" => c.since <= c.man.seq
      BY <2>0, <2>3, <3>2 DEF ReadAt, Reading
    <3>5. c.man.seq <= Len(log')
      BY <2>0, <3>2
    <3> QED
      BY <3>2, <3>3, <3>4, <3>5 DEF ReadAt
  <2>4. CASE AuditNext(t) \/ AuditChecks(t)
    <3>1. /\ at'[t] \notin {"hit", "answered"} /\ call'[t].kind = "audit"
          /\ call'[t].man = call[t].man
      BY <2>4, AuditSets
    <3> QED
      BY <2>0, <3>1 DEF ReadAt
  <2> QED
    BY <1>3, <2>1, <2>2, <2>3, <2>4, ReadSets
<1> QED
  BY <1>1, <1>2, <1>3, Arrives

LEMMA StepReads ==
    ASSUME Typing, LockHeld, Shielded, Born, Counts, Reads, Deletes, [Next]_vars
    PROVE  Reads'
<1>0. LogGrows
  BY StepScope DEF Grows
<1>1. ASSUME NEW u \in Threads, at'[u] = "idle" PROVE ReadAt(at[u], call[u])'
  BY <1>1 DEF ReadAt, Reading
<1>2. ASSUME NEW t \in Threads, ThreadStep(t) PROVE Reads'
  <2>1. PICK step, c : Moves(t, step, c)
    BY <1>2, ThreadMoves
  <2>2. ASSUME NEW u \in Threads PROVE ReadAt(at[u], call[u])'
    <3>1. CASE u = t
      BY <1>0, <1>2, <3>1, ReadsMove
    <3>2. CASE u # t
      BY <1>0, <2>1, <3>2, ReadsKept DEF Moves, Typing, Shapes
    <3> QED
      BY <3>1, <3>2
  <2> QED
    BY <2>2 DEF Reads
<1>3. ASSUME NEW h \in Handles, Dies(h) PROVE Reads'
  BY <1>0, <1>1, <1>3, DiesMoves, ReadsKept DEF Reads
<1>4. CASE UNCHANGED <<at, call, lock, seen, acked>>
  BY <1>0, <1>4, ReadsKept DEF Reads
<1> QED
  BY <1>2, <1>3, <1>4, NextIs

-----------------------------------------------------------------------------
(* An audit is in one of the reading steps. *)
LEMMA AuditSteps ==
    ASSUME NEW step, NEW c, ShapeOf(step, c), c.kind = "audit"
    PROVE  step \in Reading \cup {"auditing"} /\ c \in AuditCalls
<1>1. c # NoCall /\ c \notin WriteCalls \cup CompactCalls \cup CloseCalls \cup GetCalls
  BY DEF NoCall, WriteCalls, CompactCalls, CloseCalls, GetCalls
<1> QED
  BY <1>1 DEF ShapeOf, Steps, Reading, Activating, Compacting

(* The deletes a handle has seen take effect are in the log, and an audit that does not  *)
(* find one has a cursor before it, or after the put that replaced it.                     *)
LEMMA DeletesKept ==
    ASSUME Typing, Reads, Deletes, LogGrows, NEW u \in Threads,
           at'[u] = at[u], call'[u] = call[u]
    PROVE  /\ AuditOK(at[u], call[u])'
           /\ at'[u] \in Activating \cup {"returning"} /\ TookEffect(call'[u]) =>
                Written(call[u].cmd.fact, call[u].cmd.op)'
<1>0. PICK c : c = call[u] /\ c = call'[u]
  OBVIOUS
<1>1. log \in Seq(Commands) /\ AuditOK(at[u], c) /\ ShapeOf(at[u], c)
  BY <1>0 DEF Typing, Shapes, Scope, Deletes
<1>2. ASSUME c.kind = "audit"
      PROVE  /\ at[u] \in Reading \ {"raised"} => c.fact \in Facts /\ Written(c.fact, "DELETE")'
             /\ \A f \in c.bad : DeleteLost(f, c.man.seq)'
  <2>1. at[u] \in Reading \cup {"auditing"}
    BY <1>1, <1>2, AuditSteps
  <2>2. c.man.seq \in 0..Len(log)
    BY <1>0, <2>1, ReadManifest
  <2>3. at[u] \in Reading \ {"raised"} => c.fact \in Facts /\ Written(c.fact, "DELETE")'
    BY <1>1, <1>2, WrittenKept DEF AuditOK
  <2>4. \A f \in c.bad : DeleteLost(f, c.man.seq)'
    BY <1>1, <1>2, <2>2, DeleteLostKept DEF AuditOK
  <2> QED
    BY <2>3, <2>4
<1>3. at[u] \in Activating \cup {"returning"} /\ TookEffect(c) =>
        Written(c.cmd.fact, c.cmd.op)'
  BY <1>0, <1>1, WrittenKept DEF Deletes
<1> QED
  BY <1>0, <1>2, <1>3 DEF AuditOK, TookEffect
(* An audit that does not find a written delete in force at n. *)
LEMMA MissedDelete ==
    ASSUME log \in Seq(Commands), NEW f, NEW n \in 0..Len(log), Written(f, "DELETE"),
           ~ (InForce(f, n) # Nil /\ InForce(f, n).op = "DELETE")
    PROVE  DeleteLost(f, n)
<1>1. PICK i \in 1..Len(log) : log[i].fact = f /\ log[i].op = "DELETE"
  BY DEF Written
<1>2. CASE \A k \in 1..n : log[k].fact # f
  <2>1. i > n
    BY <1>1, <1>2
  <2> QED
    BY <1>1, <2>1 DEF DeleteLost
<1>3. ASSUME NEW k \in 1..n, log[k].fact = f, InForce(f, n) = Entry(log[k]),
             \A j \in k + 1 .. n : log[j].fact # f
      PROVE  DeleteLost(f, n)
  <2>1. log[k] \in Commands
    OBVIOUS
  <2>2. Entry(log[k]) # Nil /\ Entry(log[k]).op = log[k].op
    BY <2>1, NoneAssumption DEF Entry
  <2>3. log[k].op = "PUT"
    BY <1>3, <2>1, <2>2, FacadeAssumption
  <2>4. i > n \/ k \in i + 1 .. n
    <3>1. i # k
      BY <1>1, <2>3
    <3>2. ~ (i \in k + 1 .. n)
      BY <1>1, <1>3
    <3> QED
      BY <3>1, <3>2
  <2> QED
    BY <1>1, <1>3, <2>3, <2>4 DEF DeleteLost
<1> QED
  BY <1>2, <1>3, InForceIs

LEMMA AuditsMove ==
    ASSUME Typing, Counts, Reads, Deletes, LogGrows, NEW t \in Threads, ThreadStep(t),
           call'[t] \in AuditCalls, at'[t] \in Reading \cup {"auditing"}
    PROVE  AuditOK(at[t], call[t])'
<1>0. log \in Seq(Commands) /\ AuditOK(at[t], call[t]) /\ ReadAt(at[t], call[t])
      /\ call'[t].kind = "audit"
  BY DEF Typing, Scope, Deletes, Reads, AuditCalls
<1>1. ASSUME NEW h \in Handles,
             \/ BeginAudit(t, h)
             \/ \E f \in Facts, man \in {current} \cup captured : BeginGet(t, h, f, man)
      PROVE  AuditOK(at[t], call[t])'
  <2>1. at'[t] = "auditing" /\ call'[t].bad = {}
    BY <1>0, <1>1, BeginReads DEF Reading
  <2> QED
    BY <2>1 DEF AuditOK, Reading
<1>2. CASE Read(t)
  <2>0. at[t] \in Reading \cup {"auditing"} /\ log' = log
    BY <1>2, ReadSets, Zenon
  <2>1. /\ call[t] \in GetCalls \cup AuditCalls /\ call[t].man.seq \in 0..Len(log)
        /\ call[t].kind = "audit" => call[t] \in AuditCalls
    BY <2>0, ReadManifest
  <2>2. \A f, n : (DeleteLost(f, n) => DeleteLost(f, n)') /\ (Written(f, n) => Written(f, n)')
    BY <2>0 DEF DeleteLost, Written
  <2>3. CASE call'[t] = NoCall
    BY <1>0, <2>3 DEF NoCall
  <2>4. CASE \/ at[t] = "reading" /\ at'[t] = "missed" /\ call'[t] = call[t]
             \/ at[t] = "hit" /\ at'[t] \in {"raised", "answered"} /\ call'[t] = call[t]
    <3>1. PICK c : c = call[t] /\ c = call'[t]
      BY <2>4
    <3>2. c.kind = "audit" /\ at[t] \in Reading \ {"raised"}
      BY <1>0, <2>4, <3>1 DEF Reading
    <3>3. /\ c.fact \in Facts /\ Written(c.fact, "DELETE")
          /\ \A f \in c.bad : DeleteLost(f, c.man.seq)
      BY <1>0, <3>1, <3>2 DEF AuditOK
    <3>4. /\ c.fact \in Facts /\ Written(c.fact, "DELETE")'
          /\ \A f \in c.bad : DeleteLost(f, c.man.seq)'
      BY <2>2, <3>3
    <3> QED
      BY <3>1, <3>4 DEF AuditOK
  <2>5. CASE /\ at[t] \in {"reading", "missed"} /\ at'[t] \in {"hit", "answered"}
             /\ call'[t] = [call[t] EXCEPT !.found = InForce(call[t].fact, call[t].man.seq)]
    <3>1. PICK d, c : d = call[t] /\ c = call'[t]
      OBVIOUS
    <3>2. c.kind = d.kind /\ c.fact = d.fact /\ c.man = d.man
          /\ (c.kind = "audit" => c.bad = d.bad)
      <4> DEFINE e == [call[t] EXCEPT !.found = InForce(call[t].fact, call[t].man.seq)]
      <4>1. InForce(call[t].fact, call[t].man.seq) \in Founds
        BY <1>0, <2>1, InForceType
      <4>2. /\ e.kind = call[t].kind /\ e.fact = call[t].fact /\ e.man = call[t].man
            /\ e.kind = "audit" => e.bad = call[t].bad
        BY <2>1, <4>1, ReadType
      <4>3. call'[t] = e
        BY <2>5
      <4> HIDE DEF e
      <4> QED
        BY <3>1, <4>2, <4>3
    <3>3. d.kind = "audit" /\ at[t] \in Reading \ {"raised"} /\ c.bad = d.bad
      BY <1>0, <2>5, <3>1, <3>2 DEF Reading
    <3>4. /\ d.fact \in Facts /\ Written(d.fact, "DELETE")
          /\ \A f \in d.bad : DeleteLost(f, d.man.seq)
      BY <1>0, <3>1, <3>3 DEF AuditOK
    <3>5. /\ c.fact \in Facts /\ Written(c.fact, "DELETE")'
          /\ \A f \in c.bad : DeleteLost(f, c.man.seq)'
      BY <2>2, <3>2, <3>3, <3>4
    <3> QED
      BY <3>1, <3>5 DEF AuditOK
  <2>6. CASE AuditNext(t)
    <3>1. PICK d, c : d = call[t] /\ c = call'[t]
      OBVIOUS
    <3>2. /\ at[t] = "auditing" /\ at'[t] \in {"raised", "reading", "auditing"}
          /\ d \in AuditCalls /\ c.man = d.man /\ c.bad = d.bad /\ c.fact \in Facts
          /\ at'[t] = "reading" => seen[d.h][c.fact] = "deleted"
      BY <2>6, <3>1, AuditSets DEF H
    <3>3. d.h \in Handles /\ d.kind = "audit"
      BY <3>2 DEF AuditCalls
    <3>4. at'[t] = "reading" => Written(c.fact, "DELETE")
      BY <3>2, <3>3 DEF Deletes
    <3>5. \A f \in d.bad : DeleteLost(f, d.man.seq)
      BY <1>0, <3>1, <3>3 DEF AuditOK
    <3>6. /\ at'[t] = "reading" => Written(c.fact, "DELETE")'
          /\ \A f \in c.bad : DeleteLost(f, c.man.seq)'
      BY <2>2, <3>2, <3>4, <3>5
    <3>7. at'[t] \in Reading \ {"raised"} => at'[t] = "reading"
      BY <3>2 DEF Reading
    <3> QED
      BY <3>1, <3>2, <3>6, <3>7 DEF AuditOK
  <2>7. CASE AuditChecks(t)
    <3>1. PICK d, c : d = call[t] /\ c = call'[t]
      OBVIOUS
    <3>2. /\ at[t] = "answered" /\ at'[t] = "auditing" /\ d \in AuditCalls /\ c.man = d.man
          /\ c.bad = IF d.found # Nil /\ d.found.op = "DELETE" THEN d.bad ELSE d.bad \cup {d.fact}
      BY <2>7, <3>1, AuditSets
    <3>3. d.kind = "audit" /\ d.man.seq \in 0..Len(log)
      BY <2>1, <3>1, <3>2 DEF AuditCalls
    <3>4. /\ d.found = InForce(d.fact, d.man.seq) /\ Written(d.fact, "DELETE")
          /\ \A f \in d.bad : DeleteLost(f, d.man.seq)
      BY <1>0, <3>1, <3>2, <3>3 DEF AuditOK, ReadAt, Reading
    <3>5. \A f \in c.bad : DeleteLost(f, d.man.seq)
      <4>1. CASE d.found # Nil /\ d.found.op = "DELETE"
        BY <3>2, <3>4, <4>1
      <4>2. CASE ~ (d.found # Nil /\ d.found.op = "DELETE")
        <5>1. DeleteLost(d.fact, d.man.seq)
          BY <1>0, <3>3, <3>4, <4>2, MissedDelete
        <5> QED
          BY <3>2, <3>4, <4>2, <5>1
      <4> QED
        BY <4>1, <4>2
    <3>6. \A f \in c.bad : DeleteLost(f, c.man.seq)'
      BY <2>2, <3>2, <3>5
    <3> QED
      BY <3>1, <3>2, <3>6 DEF AuditOK, Reading
  <2> QED
    BY <1>2, <2>3, <2>4, <2>5, <2>6, <2>7, ReadSets
<1> QED
  BY <1>1, <1>2, Arrives
(* A write that took effect is in the log. *)
LEMMA WritesMove ==
    ASSUME Typing, Shielded, Reads, Deletes, LogGrows, NEW t \in Threads, ThreadStep(t),
           at'[t] \in Activating \cup {"returning"}, TookEffect(call'[t])
    PROVE  Written(call[t].cmd.fact, call[t].cmd.op)'
<1>0. call'[t].state \in {"APPLIED", "DEDUP_REPLAY"}
  BY DEF TookEffect
<1>1. CASE Seed(t) \/ Submit(t)
  <2>1. PICK c \in Commands :
          /\ call'[t].cmd = c /\ log' = Committed(c) /\ call'[t].state = WriteMap(Status(c))
    <3>1. CASE Seed(t)
      BY <3>1, SeedSets DEF Typing
    <3>2. CASE Submit(t)
      BY <3>2, SubmitSets DEF Typing
    <3> QED
      BY <1>1, <3>1, <3>2
  <2>2. Written(c.fact, c.op)'
    BY <1>0, <2>1, CommitOK DEF Typing
  <2> QED
    BY <2>1, <2>2
<1>2. CASE PublishSeed(t) \/ ActivateFirst(t)
  <2>1. at[t] \in Activating /\ log' = log
    BY <1>2 DEF PublishSeed, Go, ActivateFirst, Activating, scopeVars
  <2>2. call[t] \in WriteCalls
    BY <2>1, CallType DEF Typing
  <2>3. call'[t].cmd = call[t].cmd /\ call'[t].state = call[t].state
    <3>1. CASE PublishSeed(t)
      BY <3>1 DEF PublishSeed
    <3>2. CASE ActivateFirst(t)
      <4>1. Leave(t, WriteMap(call[t].state), call[t].seq)
        BY <3>2 DEF ActivateFirst
      <4>2. /\ call'[t].cmd = call[t].cmd
            /\ call'[t].state = WriteMap(call[t].state)
        BY <2>2, <4>1, LeaveSets DEF Typing
      <4>3. WriteMap(call[t].state) = call[t].state
        BY <1>0, <4>2 DEF WriteMap
      <4> QED
        BY <4>2, <4>3
    <3> QED
      BY <1>2, <3>1, <3>2
  <2>4. PICK c : c = call[t].cmd /\ c = call'[t].cmd
    BY <2>3
  <2>5. Written(c.fact, c.op)
    BY <1>0, <2>1, <2>3, <2>4 DEF Deletes, TookEffect
  <2>6. Written(c.fact, c.op)'
    BY <2>1, <2>5 DEF Written
  <2> QED
    BY <2>4, <2>6
<1>3. CASE \/ SeedUnpublished(t) \/ NotNeeded(t) \/ ActivateFails(t)
           \/ SubmitTimesOut(t) \/ SubmitKills(t) \/ SubmitRaises(t)
  <2>1. call'[t].state = "OVERLOAD"
    BY <1>3, LeavesAtZero DEF Typing
  <2> QED
    BY <1>0, <2>1
<1>4. CASE SeedTimesOut(t) \/ SeedKills(t)
  <2>1. call'[t].state \in {"NOT_ACCEPTED", "COMMIT_UNKNOWN"}
    BY <1>4, SeedLostSets DEF Typing
  <2> QED
    BY <1>0, <2>1
<1> QED
  BY <1>1, <1>2, <1>3, <1>4, Arrives

(* The facts a handle has seen deleted. *)
LEMMA SeenMoves ==
    ASSUME Typing, Deletes, LogGrows, [Next]_vars, NEW h \in Handles, NEW f \in Facts,
           seen'[h][f] = "deleted"
    PROVE  Written(f, "DELETE")'
<1>0. log \in Seq(Commands) /\ seen \in [Handles -> [Facts -> {"live", "deleted", Nil}]]
  BY DEF Typing, Scope, PerHandle
<1>1. CASE seen[h][f] = "deleted"
  BY <1>0, <1>1, WrittenKept DEF Deletes
<1>2. CASE seen[h][f] # "deleted"
  <2>1. seen' # seen
    BY <1>2
  <2>2. ASSUME NEW g \in Handles, Dies(g) PROVE FALSE
    <3>1. seen' = [seen EXCEPT ![g] = [e \in Facts |-> Nil]]
      BY <2>2 DEF Dies
    <3>2. seen'[h][f] \in {Nil, seen[h][f]}
      BY <1>0, <3>1
    <3> QED
      BY <1>2, <3>2, NoneAssumption
  <2>3. ASSUME NEW t \in Threads, Return(t) PROVE Written(f, "DELETE")'
    <3>1. PICK c : c = call[t]
      OBVIOUS
    <3>2. c \in WriteCalls /\ at[t] = "returning"
      BY <2>3, <3>1, CallType DEF Return, Go, Typing
    <3>3. /\ TookEffect(c) /\ log' = log
          /\ seen' = [seen EXCEPT ![c.h][c.cmd.fact] =
                         IF c.cmd.op = "PUT" THEN "live" ELSE "deleted"]
      BY <2>1, <2>3, <3>1 DEF Return, scopeVars
    <3>4. Written(c.cmd.fact, c.cmd.op)
      BY <3>1, <3>2, <3>3 DEF Deletes
    <3>5. c.h \in Handles /\ c.cmd \in Commands
      BY <3>2 DEF WriteCalls
    <3>6. c.h = h /\ c.cmd.fact = f /\ c.cmd.op # "PUT"
      BY <1>0, <1>2, <3>3, <3>5
    <3>7. c.cmd.op = "DELETE"
      BY <3>5, <3>6, FacadeAssumption
    <3> QED
      BY <3>3, <3>4, <3>6, <3>7 DEF Written
  <2> QED
    BY <2>1, <2>2, <2>3, NextIs, OnlyReturns
<1> QED
  BY <1>1, <1>2

LEMMA StepDeletes ==
    ASSUME Typing, LockHeld, Shielded, Born, Counts, Reads, Deletes, [Next]_vars
    PROVE  Deletes'
<1> DEFINE Own(u) == /\ AuditOK(at[u], call[u])'
                     /\ at'[u] \in Activating \cup {"returning"} /\ TookEffect(call'[u]) =>
                          Written(call[u].cmd.fact, call[u].cmd.op)'
<1>0. LogGrows
  BY StepScope DEF Grows
<1>1. ASSUME NEW u \in Threads, at'[u] = at[u], call'[u] = call[u] PROVE Own(u)
  BY <1>0, <1>1, DeletesKept
<1>2. ASSUME NEW u \in Threads, at'[u] = "idle", call'[u] = NoCall PROVE Own(u)
  BY <1>2 DEF AuditOK, NoCall, Activating
<1>3. ASSUME NEW t \in Threads, ThreadStep(t) PROVE Own(t)
  <2>1. at'[t] \in Activating \cup {"returning"} /\ TookEffect(call'[t]) =>
          Written(call[t].cmd.fact, call[t].cmd.op)'
    BY <1>0, <1>3, WritesMove
  <2>2. AuditOK(at[t], call[t])'
    <3>1. PICK step, c : Moves(t, step, c) /\ ShapeOf(step, c)
      BY <1>3, ThreadMoves
    <3>2. at'[t] = step /\ call'[t] = c
      BY <3>1 DEF Moves, Typing, Shapes
    <3>3. CASE c.kind = "audit"
      BY <1>0, <1>3, <3>1, <3>2, <3>3, AuditSteps, AuditsMove
    <3>4. CASE c.kind # "audit"
      BY <3>2, <3>4 DEF AuditOK
    <3> QED
      BY <3>3, <3>4
  <2> QED
    BY <2>1, <2>2
<1>4. ASSUME NEW t \in Threads, ThreadStep(t), NEW u \in Threads PROVE Own(u)
  <2>1. CASE u = t
    BY <1>3, <1>4, <2>1
  <2>2. CASE u # t
    <3>1. PICK step, c : Moves(t, step, c)
      BY <1>4, ThreadMoves
    <3>2. at'[u] = at[u] /\ call'[u] = call[u]
      BY <2>2, <3>1 DEF Moves, Typing, Shapes
    <3> QED
      BY <1>1, <3>2
  <2> QED
    BY <2>1, <2>2
<1>5. ASSUME NEW h \in Handles, Dies(h), NEW u \in Threads PROVE Own(u)
  BY <1>1, <1>2, <1>5, DiesMoves
<1>6. ASSUME UNCHANGED <<at, call, lock, seen, acked>>, NEW u \in Threads PROVE Own(u)
  BY <1>1, <1>6
<1>7. \A u \in Threads : Own(u)
  <2> HIDE DEF Own
  <2> QED
    BY <1>4, <1>5, <1>6, NextIs
<1>8. \A h \in Handles, f \in Facts : seen'[h][f] = "deleted" => Written(f, "DELETE")'
  BY <1>0, SeenMoves
<1> QED
  BY <1>7, <1>8 DEF Deletes, TookEffect

-----------------------------------------------------------------------------
(* The invariant holds. *)
LEMMA InitIInv == Init => IInv
<1> SUFFICES ASSUME Init PROVE IInv
  OBVIOUS
<1>0. \A t \in Threads : at[t] = "idle" /\ call[t] = NoCall
  BY DEF Init
<1>1. Shapes
  <2>1. /\ at \in [Threads -> Steps] /\ DOMAIN call = Threads /\ current \in Manifests \cup {Nil}
        /\ cache \in [Handles -> Seq(Manifests)]
    BY DEF Init, Steps
  <2>2. ASSUME NEW t \in Threads PROVE ShapeOf(at[t], call[t])
    BY <1>0, ShapeOfIdle
  <2> QED
    BY <2>1, <2>2 DEF Shapes
<1>2. Scope
  <2>1. log \in Seq(Commands) /\ Len(log) <= MaxLog
    BY FacadeAssumption DEF Init
  <2>2. captured \cup ({current} \ {Nil}) = {}
    BY DEF Init
  <2>3. made \in BOOLEAN
    BY DEF Init
  <2> QED
    BY <2>1, <2>2, <2>3 DEF Scope
<1>3. PerHandle
  BY FacadeAssumption DEF Init, PerHandle
<1>4. acked \in 0..Len(log)
  BY DEF Init
<1>5. LockHeld /\ Shielded /\ Born /\ ClosedHoldsNothing
  BY <1>0 DEF Init, LockHeld, Shielded, Born, Unborn, ClosedHoldsNothing, InLock, Activating,
     Compacting
<1>6. Counts /\ Reads
  BY <1>0 DEF Init, Counts, CountOK, Covered, Reads, ReadAt, Reading, Activating
<1>7. Deletes
  BY <1>0, NoneAssumption DEF Init, Deletes, AuditOK, NoCall, Activating
<1> QED
  BY <1>1, <1>2, <1>3, <1>4, <1>5, <1>6, <1>7 DEF IInv, Typing

LEMMA StepIInv == IInv /\ [Next]_vars => IInv'
<1> SUFFICES ASSUME IInv, [Next]_vars PROVE IInv'
  OBVIOUS
<1>0. /\ Typing /\ LockHeld /\ Shielded /\ Born /\ Counts /\ Reads /\ Deletes
      /\ ClosedHoldsNothing
  BY DEF IInv
<1>1. Typing'
  BY <1>0, StepShapes, StepScope, StepPerHandle, StepCounts DEF Typing
<1>2. LockHeld'
  BY <1>0, StepLock
<1>3. \A h \in Handles : HandleOK(h)'
  BY <1>0, StepHandle
<1>4. Shielded' /\ ClosedHoldsNothing'
  BY <1>0, <1>3, StepShield DEF Shielded, HandleOK, ClosedHoldsNothing, H
<1>5. Born'
  BY <1>0, StepBorn
<1>6. Counts' /\ Reads' /\ Deletes'
  BY <1>0, StepCounts, StepReads, StepDeletes
<1> QED
  BY <1>1, <1>2, <1>4, <1>5, <1>6 DEF IInv

THEOREM Inductive == Spec => []IInv
BY InitIInv, StepIInv, PTL DEF Spec

(* Every variable of the memory has the shape its comment gives it, whatever the     *)
(* handles and threads do: TypeOK of the run, for every value of the constants.        *)
THEOREM TypeCorrect == Spec => []TypeOK
<1>1. IInv => TypeOK
  <2> SUFFICES ASSUME IInv PROVE TypeOK
    OBVIOUS
  <2>0. Shapes /\ Scope /\ PerHandle /\ acked \in 0..Len(log)
    BY DEF IInv, Typing
  <2>1. ASSUME NEW man \in captured \cup ({current} \ {Nil})
        PROVE  /\ man.gen \in 0..MaxGen /\ man.seq \in 0..Len(log)
               /\ man.absorbed \in 0..man.seq /\ man.floor \in Nat
    <3>1. Within(man)
      BY <2>0 DEF Scope
    <3> QED
      BY <3>1 DEF Within, Manifests
  <2>2. ASSUME NEW t \in Threads PROVE at[t] = "idle" <=> call[t] = NoCall
    <3>1. ShapeOf(at[t], call[t])
      BY <2>0 DEF Shapes
    <3>2. NoCall \notin WriteCalls \cup CompactCalls \cup CloseCalls \cup GetCalls \cup AuditCalls
      BY DEF NoCall, WriteCalls, CompactCalls, CloseCalls, GetCalls, AuditCalls
    <3> QED
      BY <3>1, <3>2 DEF ShapeOf, Steps, Activating, Compacting, Reading
  <2> QED
    BY <2>0, <2>1, <2>2 DEF TypeOK, Shapes, Scope, PerHandle
<1> QED
  BY <1>1, Inductive, PTL

(* A get answers what is in force at its manifest, whoever cached what in between, and  *)
(* without a view it covers every write that had returned before the call, for any          *)
(* handles and threads (_read, _submit).                                                     *)
THEOREM ReadsFollow == Spec => []ReadsFollowWrites
<1>1. IInv => ReadsFollowWrites
  <2> SUFFICES ASSUME IInv, NEW t \in Threads, at[t] = "answered", call[t].kind = "get"
               PROVE  /\ call[t].found = InForce(call[t].fact, call[t].man.seq)
                      /\ call[t].man.seq >= call[t].since
    BY DEF ReadsFollowWrites
  <2>1. ReadAt(at[t], call[t]) /\ ShapeOf(at[t], call[t])
    BY DEF IInv, Reads, Typing, Shapes
  <2>2. call[t] \in GetCalls
    BY <2>1 DEF ShapeOf, Reading, AuditCalls
  <2>3. call[t].man.seq \in Nat /\ call[t].since \in Nat
    BY <2>2 DEF GetCalls, Manifests
  <2> QED
    BY <2>1, <2>3 DEF ReadAt, Reading
<1> QED
  BY <1>1, Inductive, PTL

(* Whenever an audit reports a delete that is not terminal, the delete is after its      *)
(* cursor or a later put replaced it: no delete that returned was lost (audit).             *)
THEOREM AuditSafe == Spec => []AuditFindsNoLostDelete
<1>1. IInv => AuditFindsNoLostDelete
  BY DEF IInv, Deletes, AuditOK, AuditFindsNoLostDelete, DeleteLost
<1> QED
  BY <1>1, Inductive, PTL

(* A closed memory holds no writer and no genesis store, also when close() met a first  *)
(* write half way through its activation, or a compaction (close, _submit, compact).       *)
THEOREM ClosedIsEmpty == Spec => []ClosedHoldsNothing
<1>1. IInv => ClosedHoldsNothing
  BY DEF IInv
<1> QED
  BY <1>1, Inductive, PTL
=============================================================================
