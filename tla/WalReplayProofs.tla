--------------------------- MODULE WalReplayProofs ---------------------------
(* What the reducer computes along a list of frames that the ingress applied one by  *)
(* one, whether it reads them flat (reduce_frames) or segment by segment                *)
(* (open_generation): lemmas for the proofs about the writer and about the scope.        *)
(* A trace g gives the reducer after each prefix; that the code's replay computes it is   *)
(* shown by looking at the first prefix where the two would differ.                       *)
EXTENDS WalReplay, WellFoundedInduction, TLAPS

(* A set of naturals that is not empty has a least element. *)
LEMMA LeastNat ==
    ASSUME NEW S \in SUBSET Nat, S # {}
    PROVE  \E x \in S : \A y \in S : x <= y
<1> DEFINE R == OpToRel(<, Nat)
<1>1. IsWellFoundedOn(R, Nat)
  BY NatLessThanWellFounded
<1>2. \A y, z \in Nat : y < z => <<y, z>> \in R
  BY DEF OpToRel
<1> HIDE DEF R
<1>3. PICK x \in S : \A y \in S : ~ (<<y, x>> \in R)
  BY <1>1, WFMin
<1>4. ASSUME NEW y \in S PROVE x <= y
  <2>1. x \in Nat /\ y \in Nat
    OBVIOUS
  <2>2. ~ (y < x)
    BY <1>2, <1>3, <2>1, Zenon
  <2> QED BY <2>1, <2>2
<1> QED BY <1>4

-----------------------------------------------------------------------------
(* Traces. *)

Running == [class : {"OK"}, index : Indexes, tx : TxIndexes, expected : Nat, last : Nat,
            target : Nat, segments : Nat, prevId : Int, frames : Nat]

(* g[k] is the reducer after the first k frames: each one is accepted, at the next seq. *)
Accepts(start, w, g) ==
    /\ start \in Running /\ g \in [Nat -> Running] /\ g[0] = start
    /\ \A k \in DOMAIN w :
         /\ w[k].cmd \in Command /\ w[k].seq = start.last + k
         /\ g[k] = ApplyOne(g[k - 1], w[k])

LEMMA TraceType ==
    ASSUME NEW start, NEW w, NEW g, Accepts(start, w, g)
    PROVE  start \in Running /\ start.last \in Nat /\ g \in [Nat -> Running] /\ g[0] = start
<1>1. start \in Running /\ g \in [Nat -> Running] /\ g[0] = start
  BY DEF Accepts
<1>2. start.last \in Nat
  BY <1>1 DEF Running
<1> QED BY <1>1, <1>2

(* The reducer a replay starts from. *)
LEMMA StartType ==
    ASSUME NEW from \in Nat, NEW target \in Nat
    PROVE  /\ ReducerInit(from, target) \in Running
           /\ ReducerInit(from, target).last = from
           /\ ReducerInit(from, target).index = EmptyIndex
           /\ ReducerInit(from, target).tx = EmptyTx
<1>1. EmptyIndex \in Indexes /\ EmptyTx \in TxIndexes
  BY DEF EmptyIndex, EmptyTx, Indexes, TxIndexes
<1>2. from + 1 \in Nat
  OBVIOUS
<1> QED BY <1>1, <1>2 DEF ReducerInit, Running

(* Applying a command keeps the shape of the index and of the retry memory, and remembers it. *)
LEMMA Applied ==
    ASSUME NEW index \in Indexes, NEW tx \in TxIndexes, NEW c \in Command, NEW n \in Nat
    PROVE  /\ ApplyIndex(index, c) \in Indexes
           /\ RecordTx(tx, c, n) \in TxIndexes
           /\ RecordTx(tx, c, n)[c.opid] = [digest |-> ContentDigest(c), seq |-> n]
           /\ \A o \in OpIds : o # c.opid => RecordTx(tx, c, n)[o] = tx[o]
<1>1. [ver |-> c.ver, op |-> c.op, value |-> c.value] \in Entry
  BY DEF Command, Entry
<1>2. [digest |-> ContentDigest(c), seq |-> n] \in TxEntry /\ c.opid \in OpIds
  BY DEF Command, TxEntry, Contents, ContentDigest
<1> QED BY <1>1, <1>2 DEF ApplyIndex, RecordTx, Indexes, TxIndexes

(* What an accepted frame does: it is new, and only index, memory and last change. *)
LEMMA AcceptedFrame ==
    ASSUME NEW red \in Running, NEW fr, fr.cmd \in Command, fr.seq \in Nat,
           ApplyOne(red, fr).class = "OK"
    PROVE  /\ ApplyOne(red, fr) \in Running
           /\ ApplyOne(red, fr) = [red EXCEPT !.index = ApplyIndex(red.index, fr.cmd),
                                              !.tx = RecordTx(red.tx, fr.cmd, fr.seq),
                                              !.last = fr.seq]
           /\ TxCheck(red.tx, fr.cmd) = "new"
<1>1. red.index \in Indexes /\ red.tx \in TxIndexes
  BY DEF Running
<1>2. /\ ApplyOne(red, fr) = [red EXCEPT !.index = ApplyIndex(red.index, fr.cmd),
                                         !.tx = RecordTx(red.tx, fr.cmd, fr.seq),
                                         !.last = fr.seq]
      /\ TxCheck(red.tx, fr.cmd) = "new"
  BY DEF ApplyOne, ToTerminal, Running
<1>3. ApplyIndex(red.index, fr.cmd) \in Indexes /\ RecordTx(red.tx, fr.cmd, fr.seq) \in TxIndexes
  BY <1>1, Applied
<1> QED BY <1>2, <1>3 DEF Running

(* What the ingress applies, the reducer accepts: _apply_one against prepare_batch. *)
LEMMA AppliedIsAccepted ==
    ASSUME NEW red \in Running, NEW fr, fr.cmd \in Command, fr.seq \in Nat,
           Decide(red.index, red.tx, fr.cmd) = "APPLIED"
    PROVE  /\ ApplyOne(red, fr) \in Running
           /\ ApplyOne(red, fr).index = ApplyIndex(red.index, fr.cmd)
           /\ ApplyOne(red, fr).tx = RecordTx(red.tx, fr.cmd, fr.seq)
<1> DEFINE c == fr.cmd
<1>1. c \in Command /\ c.opid \in OpIds
  BY DEF Command
<1>2. ClassifyDedup(red.tx, c) \notin {"dedup_replay", "txid_conflict", "idempotency_expired",
                                        "abstain_base"}
  BY DEF Decide
<1>3. TxCheck(red.tx, c) = "new" /\ DedupProbe(c) = "new"
  <2>1. TxCheck(red.tx, c) = "new"
    BY <1>2 DEF ClassifyDedup, TxCheck
  <2>2. BaseDedup[c.opid] \in BaseDedupEntry
    BY <1>1, BaseAssumption
  <2>3. BaseDedup[c.opid].kind \in {"entry", "expired", "abstain", "new"}
    BY <2>2 DEF BaseDedupEntry
  <2>4. DedupProbe(c) \in {"replay", "conflict", "expired", "abstain", "new"}
    BY <2>3 DEF DedupProbe
  <2> QED BY <1>2, <2>1, <2>4 DEF ClassifyDedup
<1>4. /\ CurrentOf(red.index, c.fact) # BaseAbstain
      /\ Preflight(CurrentOf(red.index, c.fact), c) = "applied"
  BY <1>2 DEF Decide, Preflight
<1>5. ApplyOne(red, fr) = [red EXCEPT !.index = ApplyIndex(red.index, c),
                                      !.tx = RecordTx(red.tx, c, fr.seq), !.last = fr.seq]
  BY <1>3, <1>4 DEF ApplyOne
<1>6. red.class = "OK"
  BY DEF Running
<1>7. ApplyOne(red, fr).class = "OK"
  BY <1>5, <1>6 DEF Running
<1>8. ApplyOne(red, fr) \in Running
  BY <1>1, <1>7, AcceptedFrame
<1> QED BY <1>5, <1>8 DEF Running

(* The command that is applied is remembered by nobody yet. *)
LEMMA AppliedIsUnseen ==
    ASSUME NEW index, NEW tx, NEW c, Decide(index, tx, c) = "APPLIED"
    PROVE  tx[c.opid] = Nil
BY DEF Decide, ClassifyDedup, TxCheck

(* One step of a trace. *)
LEMMA TraceStep ==
    ASSUME NEW start, NEW w, NEW g, NEW k \in DOMAIN w, k \in Nat \ {0},
           Accepts(start, w, g)
    PROVE  /\ g[k - 1] \in Running /\ g[k] \in Running
           /\ w[k].cmd \in Command /\ w[k].seq \in Nat
           /\ g[k].index = ApplyIndex(g[k - 1].index, w[k].cmd)
           /\ g[k].tx = RecordTx(g[k - 1].tx, w[k].cmd, w[k].seq)
           /\ g[k].last = w[k].seq
<1>1. k - 1 \in Nat /\ g[k - 1] \in Running
  BY DEF Accepts
<1>2. g[k] \in Running
  BY <1>1 DEF Accepts
<1>3. w[k].cmd \in Command /\ w[k].seq \in Nat /\ g[k] = ApplyOne(g[k - 1], w[k])
  <2>1. start.last \in Nat
    BY DEF Accepts, Running
  <2> QED BY <1>1, <2>1 DEF Accepts
<1>4. ApplyOne(g[k - 1], w[k]).class = "OK"
  BY <1>2, <1>3 DEF Running
<1>5. ApplyOne(g[k - 1], w[k])
        = [g[k - 1] EXCEPT !.index = ApplyIndex(g[k - 1].index, w[k].cmd),
                           !.tx = RecordTx(g[k - 1].tx, w[k].cmd, w[k].seq),
                           !.last = w[k].seq]
  BY <1>1, <1>3, <1>4, AcceptedFrame
<1> QED BY <1>1, <1>2, <1>3, <1>5 DEF Running

(* The reducer stands at the seq of the last frame it was fed. *)
LEMMA LastAlong ==
    ASSUME NEW start, NEW S, NEW w \in Seq(S), NEW g, Accepts(start, w, g), NEW k \in 0..Len(w)
    PROVE  g[k] \in Running /\ g[k].last = start.last + k
<1>1. CASE k = 0
  BY <1>1 DEF Accepts, Running
<1>2. CASE k # 0
  <2>1. k \in DOMAIN w /\ k \in Nat \ {0}
    BY <1>2
  <2>2. w[k].seq = start.last + k
    BY <2>1 DEF Accepts
  <2>3. g[k] \in Running /\ g[k].last = w[k].seq
    BY <2>1, TraceStep
  <2> QED BY <2>2, <2>3
<1> QED BY <1>1, <1>2

(* A trace goes on with a command that the ingress applies. *)
LEMMA TraceGrows ==
    ASSUME NEW S, NEW start, NEW w \in Seq(S), NEW g, Accepts(start, w, g),
           NEW fr \in S, fr.cmd \in Command, fr.seq = start.last + (Len(w) + 1),
           Decide(g[Len(w)].index, g[Len(w)].tx, fr.cmd) = "APPLIED"
    PROVE  \E h : /\ Accepts(start, Append(w, fr), h)
                  /\ \A k \in 0..Len(w) : h[k] = g[k]
                  /\ h[Len(w) + 1].index = ApplyIndex(g[Len(w)].index, fr.cmd)
                  /\ h[Len(w) + 1].tx = RecordTx(g[Len(w)].tx, fr.cmd, fr.seq)
<1> DEFINE n == Len(w)
           next == ApplyOne(g[n], fr)
           h == [g EXCEPT ![n + 1] = next]
<1>1. n \in Nat /\ g[n] \in Running /\ g \in [Nat -> Running] /\ start \in Running
  <2>1. n \in Nat
    OBVIOUS
  <2>2. g \in [Nat -> Running] /\ start \in Running
    BY DEF Accepts
  <2>3. g[n] \in Running
    BY <2>1, <2>2
  <2> QED BY <2>1, <2>2, <2>3
<1>2. fr.seq \in Nat
  <2>1. start.last \in Nat
    BY <1>1 DEF Running
  <2> QED BY <1>1, <2>1
<1>3. next \in Running /\ next.index = ApplyIndex(g[n].index, fr.cmd)
      /\ next.tx = RecordTx(g[n].tx, fr.cmd, fr.seq)
  BY <1>1, <1>2, AppliedIsAccepted
<1> HIDE DEF next
<1>4. h \in [Nat -> Running] /\ h[n + 1] = next /\ \A k \in 0..n : h[k] = g[k]
  BY <1>1, <1>3
<1> HIDE DEF h
<1>5. ASSUME NEW k \in DOMAIN Append(w, fr)
      PROVE  /\ Append(w, fr)[k].cmd \in Command
             /\ Append(w, fr)[k].seq = start.last + k
             /\ h[k] = ApplyOne(h[k - 1], Append(w, fr)[k])
  <2>1. CASE k \in DOMAIN w
    <3>1. Append(w, fr)[k] = w[k] /\ k \in 0..n /\ k - 1 \in 0..n
      BY <2>1
    <3>2. w[k].cmd \in Command /\ w[k].seq = start.last + k /\ g[k] = ApplyOne(g[k - 1], w[k])
      BY <2>1 DEF Accepts
    <3> QED BY <1>4, <3>1, <3>2
  <2>2. CASE k = n + 1
    <3>1. Append(w, fr)[k] = fr /\ k - 1 = n /\ n \in 0..n
      BY <1>1, <2>2
    <3>2. h[k] = next /\ h[k - 1] = g[n]
      BY <1>4, <2>2, <3>1
    <3> QED BY <2>2, <3>1, <3>2 DEF next
  <2> QED BY <2>1, <2>2
<1>6. h[0] = start
  BY <1>1, <1>4 DEF Accepts
<1>7. Accepts(start, Append(w, fr), h)
  BY <1>1, <1>4, <1>5, <1>6 DEF Accepts
<1> QED BY <1>3, <1>4, <1>7

(* Every frame that was fed is remembered: its operation id is taken. *)
LEMMA RecordedAlong ==
    ASSUME Nil \notin TxEntry,
           NEW S, NEW start, NEW w \in Seq(S), NEW g, Accepts(start, w, g),
           NEW n \in 0..Len(w), NEW k \in 1..n
    PROVE  g[n].tx[w[k].cmd.opid] # Nil
<1> SUFFICES ASSUME g[n].tx[w[k].cmd.opid] = Nil PROVE FALSE
  OBVIOUS
<1> DEFINE o == w[k].cmd.opid
           Lost == {j \in k..Len(w) : g[j].tx[o] = Nil}
<1>1. n \in Lost /\ Lost \in SUBSET Nat
  OBVIOUS
<1>2. PICK j \in Lost : \A i \in Lost : j <= i
  BY <1>1, LeastNat
<1>3. j \in DOMAIN w /\ j \in Nat \ {0} /\ j - 1 \in 0..Len(w) /\ g[j].tx[o] = Nil
      /\ k \in DOMAIN w /\ k <= j
  BY <1>2
<1>4. /\ g[j - 1] \in Running /\ w[j].cmd \in Command /\ w[j].seq \in Nat
      /\ g[j].tx = RecordTx(g[j - 1].tx, w[j].cmd, w[j].seq)
  BY <1>3, TraceStep
<1>5. g[j - 1].index \in Indexes /\ g[j - 1].tx \in TxIndexes
  BY <1>4 DEF Running
<1>6. /\ g[j].tx[w[j].cmd.opid] = [digest |-> ContentDigest(w[j].cmd), seq |-> w[j].seq]
      /\ \A x \in OpIds : x # w[j].cmd.opid => g[j].tx[x] = g[j - 1].tx[x]
  BY <1>4, <1>5, Applied
<1>7. [digest |-> ContentDigest(w[j].cmd), seq |-> w[j].seq] # Nil
  <2>1. [digest |-> ContentDigest(w[j].cmd), seq |-> w[j].seq] \in TxEntry
    BY <1>4 DEF Command, TxEntry, Contents, ContentDigest
  <2> QED BY <2>1
<1>8. o # w[j].cmd.opid
  BY <1>3, <1>6, <1>7
<1>9. w[k].cmd \in Command
  BY <1>3 DEF Accepts
<1>10. o \in OpIds
  BY <1>9 DEF Command
<1>11. g[j - 1].tx[o] = Nil
  BY <1>3, <1>6, <1>8, <1>10
<1>12. j # k
  BY <1>8
<1>13. j - 1 \in Lost
  BY <1>3, <1>11, <1>12
<1> QED BY <1>2, <1>3, <1>13

(* So the reducer takes no operation id twice. *)
LEMMA IdsOnce ==
    ASSUME Nil \notin TxEntry,
           NEW S, NEW start, NEW w \in Seq(S), NEW g, Accepts(start, w, g),
           NEW j \in DOMAIN w, NEW i \in 1..(j - 1)
    PROVE  w[i].cmd.opid # w[j].cmd.opid
<1>1. j \in Nat \ {0} /\ j - 1 \in 0..Len(w)
  OBVIOUS
<1>2. g[j - 1].tx[w[i].cmd.opid] # Nil
  BY <1>1, RecordedAlong
<1>3. /\ g[j - 1] \in Running /\ g[j] \in Running
      /\ w[j].cmd \in Command /\ w[j].seq \in Nat /\ g[j] = ApplyOne(g[j - 1], w[j])
  <2>1. j - 1 \in Nat /\ start.last \in Nat
    BY <1>1 DEF Accepts, Running
  <2> QED BY <1>1, <2>1, TraceStep DEF Accepts
<1>4. ApplyOne(g[j - 1], w[j]).class = "OK"
  BY <1>3 DEF Running
<1>5. TxCheck(g[j - 1].tx, w[j].cmd) = "new"
  BY <1>3, <1>4, AcceptedFrame
<1> QED BY <1>2, <1>5 DEF TxCheck

(* And what is remembered was fed: the entry of an operation id is that of one of the frames. *)
LEMMA RememberedAlong ==
    ASSUME NEW S, NEW start, start.tx = EmptyTx, NEW w \in Seq(S), NEW g, Accepts(start, w, g),
           NEW n \in 0..Len(w), NEW o \in OpIds, g[n].tx[o] # Nil
    PROVE  \E k \in 1..n :
             /\ w[k].cmd.opid = o
             /\ g[n].tx[o] = [digest |-> ContentDigest(w[k].cmd), seq |-> w[k].seq]
<1> DEFINE Same == {j \in 0..n : g[j].tx[o] = g[n].tx[o]}
<1>1. n \in Same /\ Same \in SUBSET Nat /\ Len(w) \in Nat /\ n \in Nat /\ n <= Len(w)
  OBVIOUS
<1>2. PICK j \in Same : \A i \in Same : j <= i
  BY <1>1, LeastNat
<1>3. j # 0
  <2>1. g[0].tx[o] = Nil
    BY DEF Accepts, EmptyTx
  <2> QED BY <1>2, <2>1
<1>4. j \in 1..n /\ j \in DOMAIN w /\ j \in Nat \ {0} /\ j - 1 \in 0..n
  BY <1>1, <1>2, <1>3
<1> HIDE DEF Same
<1>5. /\ g[j - 1] \in Running /\ w[j].cmd \in Command /\ w[j].seq \in Nat
      /\ g[j].tx = RecordTx(g[j - 1].tx, w[j].cmd, w[j].seq)
  BY <1>4, TraceStep
<1>6. g[j - 1].index \in Indexes /\ g[j - 1].tx \in TxIndexes
  BY <1>5 DEF Running
<1>7. /\ g[j].tx[w[j].cmd.opid] = [digest |-> ContentDigest(w[j].cmd), seq |-> w[j].seq]
      /\ \A x \in OpIds : x # w[j].cmd.opid => g[j].tx[x] = g[j - 1].tx[x]
  BY <1>5, <1>6, Applied
<1>8. w[j].cmd.opid = o
  <2>1. SUFFICES ASSUME w[j].cmd.opid # o PROVE FALSE
    OBVIOUS
  <2>2. j - 1 \in Same
    BY <1>2, <1>4, <1>7, <2>1 DEF Same
  <2> QED BY <1>2, <1>4, <2>2
<1> QED BY <1>2, <1>4, <1>7, <1>8 DEF Same

-----------------------------------------------------------------------------
(* reduce_frames up to a seq stops where the accepted frames reach it. *)

LEMMA ReduceAccepted ==
    ASSUME NEW from \in Nat, NEW S, NEW w \in Seq(S), NEW g,
           Accepts(ReducerInit(from, 0), w, g), NEW m \in Nat
    PROVE  ReduceFrames(w, from + m, from) = g[IF m <= Len(w) THEN m ELSE Len(w)]
<1> DEFINE start == ReducerInit(from, 0)
           upto == from + m
           n(k) == IF k <= m THEN k ELSE m
           body(f, k) == IF k = 0 THEN start
                         ELSE IF Terminal(f[k - 1]) \/ w[k].seq > upto THEN f[k - 1]
                         ELSE ApplyOne(f[k - 1], w[k])
           f0 == [k \in 0..Len(w) |-> g[n(k)]]
           fed == LegacyPrefixes(start, w, upto)
<1>1. Len(w) \in Nat /\ start.last = from
  BY StartType
<1> HIDE DEF start
<1>2. ASSUME NEW k \in 0..Len(w) PROVE f0[k] = body(f0, k)
  <2>0. f0[k] = g[n(k)]
    OBVIOUS
  <2>1. CASE k = 0
    <3>1. g[0] = start
      BY DEF Accepts, start
    <3> QED BY <2>0, <2>1, <3>1
  <2>2. CASE k # 0 /\ k <= m
    <3>1. k \in DOMAIN w /\ k - 1 \in 0..Len(w) /\ n(k - 1) = k - 1
      BY <1>1, <2>2
    <3>2. f0[k - 1] = g[k - 1]
      BY <3>1
    <3>3. w[k].seq = from + k /\ g[k] = ApplyOne(g[k - 1], w[k])
      BY <1>1, <3>1 DEF Accepts, start
    <3>4. g[k - 1].class = "OK"
      <4>1. Accepts(start, w, g)
        BY DEF start
      <4>2. g[k - 1] \in Running
        BY <3>1, <4>1, LastAlong
      <4> QED BY <4>2 DEF Running
    <3>5. ~(w[k].seq > upto)
      BY <1>1, <2>2, <3>3
    <3> QED BY <2>0, <2>2, <3>2, <3>3, <3>4, <3>5 DEF Terminal
  <2>3. CASE k > m
    <3>1. k \in DOMAIN w /\ k - 1 \in 0..Len(w) /\ n(k - 1) = m /\ n(k) = m /\ k # 0
      BY <1>1, <2>3
    <3>2. f0[k - 1] = g[m] /\ f0[k] = g[m]
      BY <2>0, <3>1
    <3>3. w[k].seq = from + k
      BY <1>1, <3>1 DEF Accepts, start
    <3>4. w[k].seq > upto
      BY <1>1, <2>3, <3>3
    <3> QED BY <3>1, <3>2, <3>4
  <2> QED BY <1>1, <2>1, <2>2, <2>3
<1>3. f0 = [k \in 0..Len(w) |-> body(f0, k)]
  BY <1>2
<1>4. fed = [k \in 0..Len(w) |-> body(fed, k)]
  <2>1. fed = CHOOSE f : f = [k \in 0..Len(w) |-> body(f, k)]
    BY DEF LegacyPrefixes
  <2> HIDE DEF body, f0, fed
  <2>2. \E f : f = [k \in 0..Len(w) |-> body(f, k)]
    BY <1>3
  <2> QED BY <2>1, <2>2
<1>5. ASSUME NEW k \in 0..Len(w) PROVE fed[k] = body(fed, k)
  <2> HIDE DEF body, fed
  <2> QED BY <1>4
<1> HIDE DEF fed, f0
<1>6. ASSUME NEW j \in 0..Len(w), fed[j] # f0[j] PROVE FALSE
  <2> DEFINE D == {i \in 0..Len(w) : fed[i] # f0[i]}
  <2>1. D \in SUBSET Nat /\ D # {}
    BY <1>1, <1>6
  <2>2. PICK k \in D : \A i \in D : k <= i
    BY <2>1, LeastNat
  <2>3. k \in 0..Len(w) /\ fed[k] # f0[k]
    BY <2>2
  <2>4. fed[k] = body(fed, k) /\ f0[k] = body(f0, k)
    BY <1>2, <1>5, <2>3, Zenon
  <2>5. k # 0 => fed[k - 1] = f0[k - 1]
    BY <2>2, <2>3
  <2> QED BY <2>3, <2>4, <2>5
<1>7. fed[Len(w)] = f0[Len(w)] /\ f0[Len(w)] = g[n(Len(w))]
  BY <1>1, <1>6 DEF f0
<1>8. n(Len(w)) = IF m <= Len(w) THEN m ELSE Len(w)
  BY <1>1
<1> QED BY <1>7, <1>8 DEF ReduceFrames, FeedLegacyFrames, start, fed

-----------------------------------------------------------------------------
(* open_generation reads the same frames segment by segment. *)

(* red, as it stands after the first n frames of a trace g that starts after seq from. *)
Reader(red, g, from, n) ==
    [red EXCEPT !.index = g[n].index, !.tx = g[n].tx, !.last = from + n,
                !.expected = from + n + 1]

StandsAt(red, g, from, n) == red = Reader(red, g, from, n)

LEMMA ReaderType ==
    ASSUME NEW red \in Running, NEW g \in [Nat -> Running], NEW from \in Nat, NEW n \in Nat
    PROVE  /\ Reader(red, g, from, n) \in Running
           /\ Reader(red, g, from, n).index = g[n].index
           /\ Reader(red, g, from, n).tx = g[n].tx
           /\ Reader(red, g, from, n).last = from + n
           /\ Reader(red, g, from, n).expected = from + n + 1
           /\ Reader(red, g, from, n).target = red.target
           /\ Reader(red, g, from, n).segments = red.segments
           /\ Reader(red, g, from, n).prevId = red.prevId
           /\ Reader(red, g, from, n).frames = red.frames
<1>1. g[n].index \in Indexes /\ g[n].tx \in TxIndexes
  BY DEF Running
<1>2. from + n \in Nat /\ from + n + 1 \in Nat
  OBVIOUS
<1>3. Reader(red, g, from, n) = [red EXCEPT !.index = g[n].index, !.tx = g[n].tx,
                                            !.last = from + n, !.expected = from + n + 1]
  BY DEF Reader
<1> DEFINE r == Reader(red, g, from, n)
<1> HIDE DEF r
<1>4. r = [red EXCEPT !.index = g[n].index, !.tx = g[n].tx,
                      !.last = from + n, !.expected = from + n + 1]
  BY <1>3 DEF r
<1>5. /\ r \in Running /\ r.index = g[n].index /\ r.tx = g[n].tx /\ r.last = from + n
      /\ r.expected = from + n + 1
      /\ r.target = red.target /\ r.segments = red.segments
      /\ r.prevId = red.prevId /\ r.frames = red.frames
  <2> DEFINE a == g[n].index
             b == g[n].tx
             c == from + n
             d == from + n + 1
  <2>1. a \in Indexes /\ b \in TxIndexes /\ c \in Nat /\ d \in Nat
    BY <1>1, <1>2
  <2>2. r = [red EXCEPT !.index = a, !.tx = b, !.last = c, !.expected = d]
    BY <1>4
  <2> HIDE DEF a, b, c, d
  <2>3. /\ r \in Running /\ r.index = a /\ r.tx = b /\ r.last = c /\ r.expected = d
        /\ r.target = red.target /\ r.segments = red.segments
        /\ r.prevId = red.prevId /\ r.frames = red.frames
    BY <2>1, <2>2 DEF Running
  <2> QED BY <2>3 DEF a, b, c, d
<1> QED BY <1>5 DEF r

LEMMA ReaderAgain ==
    ASSUME NEW red \in Running, NEW g, NEW from, NEW m, NEW n
    PROVE  Reader(Reader(red, g, from, m), g, from, n) = Reader(red, g, from, n)
<1>1. ASSUME NEW a, NEW b, NEW c, NEW d, NEW e1, NEW e2, NEW e3, NEW e4
      PROVE  [[red EXCEPT !.index = a, !.tx = b, !.last = c, !.expected = d]
                 EXCEPT !.index = e1, !.tx = e2, !.last = e3, !.expected = e4]
               = [red EXCEPT !.index = e1, !.tx = e2, !.last = e3, !.expected = e4]
  BY DEF Running
<1> QED BY <1>1 DEF Reader

(* One frame: feed_frame's coverage checks pass, and the reducer goes on. *)
LEMMA FrameFed ==
    ASSUME NEW start, NEW w, NEW g, NEW k \in DOMAIN w, k \in Nat \ {0}, Accepts(start, w, g),
           NEW red \in Running, start.last + k <= red.target,
           StandsAt(red, g, start.last, k - 1)
    PROVE  /\ FeedFrame(red, w[k]) = Reader(red, g, start.last, k)
           /\ Reader(red, g, start.last, k) \in Running
<1> DEFINE before == g[k - 1]
           fr == w[k]
           next == ApplyOne(red, fr)
<1>1. start \in Running /\ start.last \in Nat /\ k - 1 \in Nat /\ k \in Nat
  <2>1. k - 1 \in Nat /\ k \in Nat
    OBVIOUS
  <2> QED BY <2>1, TraceType
<1>2. /\ before \in Running /\ g[k] \in Running
      /\ fr.cmd \in Command /\ fr.seq = start.last + k
      /\ g[k] = ApplyOne(before, fr)
  BY <1>1 DEF Accepts
<1>3. red.index = before.index /\ red.tx = before.tx /\ red.expected = start.last + k
      /\ red.class = "OK"
  <2> DEFINE n == k - 1
  <2>1. start.last + n + 1 = start.last + k
    BY <1>1
  <2> HIDE DEF n
  <2>2. red = [red EXCEPT !.index = g[n].index, !.tx = g[n].tx, !.last = start.last + n,
                          !.expected = start.last + n + 1]
    BY DEF Reader, StandsAt, n
  <2>3. red.index = g[n].index /\ red.tx = g[n].tx /\ red.expected = start.last + n + 1
    BY <2>2 DEF Running
  <2>4. red.class = "OK"
    BY DEF Running
  <2> QED BY <2>1, <2>3, <2>4 DEF n
<1>4. g[k].index = ApplyIndex(before.index, fr.cmd) /\ g[k].tx = RecordTx(before.tx, fr.cmd, fr.seq)
  BY TraceStep
<1>5. next = [red EXCEPT !.index = g[k].index, !.tx = g[k].tx, !.last = fr.seq]
  <2>1. g[k].class = "OK" /\ before.class = "OK"
    BY <1>2 DEF Running
  <2>2. ~(TxCheck(before.tx, fr.cmd) # "new" \/ DedupProbe(fr.cmd) # "new")
        /\ ~(\/ CurrentOf(before.index, fr.cmd.fact) = BaseAbstain
             \/ Preflight(CurrentOf(before.index, fr.cmd.fact), fr.cmd) # "applied")
    BY <1>2, <2>1 DEF ApplyOne, ToTerminal, Running
  <2> QED BY <1>3, <1>4, <2>2 DEF ApplyOne
<1>6. ~Terminal(next) /\ fr.seq = red.expected /\ ~(fr.seq > red.target)
  <2>1. next.class = "OK"
    BY <1>3, <1>5 DEF Running
  <2>2. red.target \in Nat
    BY DEF Running
  <2> QED BY <1>1, <1>2, <1>3, <2>1, <2>2 DEF Terminal
<1>7. FeedFrame(red, fr) = [next EXCEPT !.expected = @ + 1]
  BY <1>6 DEF FeedFrame
<1>8. [next EXCEPT !.expected = @ + 1] = Reader(red, g, start.last, k)
  <2>1. next.expected = start.last + k
    BY <1>3, <1>5 DEF Running
  <2>2. [next EXCEPT !.expected = @ + 1]
          = [red EXCEPT !.index = g[k].index, !.tx = g[k].tx, !.last = fr.seq,
                        !.expected = start.last + k + 1]
    BY <1>5, <2>1 DEF Running
  <2> QED BY <1>2, <2>2 DEF Reader
<1>9. Reader(red, g, start.last, k) \in Running
  BY <1>1, ReaderType, TraceType
<1> QED BY <1>7, <1>8, <1>9

(* The same, of every position at once: the form that the walk along a file cites. *)
LEMMA ReaderKeeps ==
    ASSUME NEW red \in Running, NEW g \in [Nat -> Running], NEW from \in Nat
    PROVE  \A n \in Nat : /\ Reader(red, g, from, n) \in Running
                          /\ Reader(red, g, from, n).target = red.target
BY ReaderType

(* The frames are those of w after the first pos. *)
Holds(frames, w, pos) == \A i \in DOMAIN frames : frames[i] = w[pos + i]

(* The frames of one segment. *)
LEMMA FramesFed ==
    ASSUME NEW S, NEW start, NEW w \in Seq(S), NEW g, Accepts(start, w, g), NEW from, start.last = from,
           NEW frames \in Seq(S), NEW pos \in Nat, pos + Len(frames) <= Len(w),
           Holds(frames, w, pos),
           NEW red \in Running, StandsAt(red, g, from, pos),
           from + Len(w) <= red.target
    PROVE  SegmentPrefixes(red, frames)[Len(frames)]
             = Reader(red, g, from, pos + Len(frames))
<1> DEFINE N == Len(frames)
           body(f, k) == IF k = 0 THEN red
                         ELSE IF Terminal(f[k - 1]) THEN f[k - 1]
                         ELSE FeedFrame(f[k - 1], frames[k])
           f0 == [k \in 0..N |-> Reader(red, g, from, pos + k)]
           fed == SegmentPrefixes(red, frames)
<1>1. N \in Nat /\ from \in Nat /\ g \in [Nat -> Running] /\ red.target \in Nat
  <2>1. N \in Nat
    OBVIOUS
  <2>2. red.target \in Nat
    BY DEF Running
  <2> QED BY <2>1, <2>2, TraceType
<1>2. ASSUME NEW k \in 0..N PROVE f0[k] = body(f0, k)
  <2>0. f0[k] = Reader(red, g, from, pos + k)
    OBVIOUS
  <2>1. CASE k = 0
    <3>1. pos + k = pos
      BY <2>1
    <3> QED BY <2>0, <2>1, <3>1 DEF StandsAt
  <2>2. CASE k # 0
    <3> DEFINE a == k - 1
               r == Reader(red, g, from, pos + a)
               j == pos + k
    <3>1. a \in 0..N /\ pos + a \in Nat /\ k \in DOMAIN frames /\ j \in Nat \ {0}
          /\ j \in DOMAIN w /\ j - 1 = pos + a
      <4>1. k \in 1..N /\ Len(w) \in Nat /\ DOMAIN w = 1..Len(w) /\ DOMAIN frames = 1..N
        BY <1>1, <2>2
      <4>2. pos + k <= Len(w)
        BY <1>1, <4>1
      <4> HIDE DEF N
      <4> QED BY <1>1, <4>1, <4>2
    <3>2. f0[a] = r
      BY <3>1
    <3>3. r \in Running /\ r.target = red.target /\ Reader(r, g, from, j) = Reader(red, g, from, j)
          /\ StandsAt(r, g, from, j - 1)
      <4>1. r \in Running /\ r.target = red.target
        <5>1. \A n \in Nat : /\ Reader(red, g, from, n) \in Running
                             /\ Reader(red, g, from, n).target = red.target
          BY <1>1, ReaderKeeps
        <5>2. pos + a \in Nat
          BY <3>1
        <5> QED BY ONLY <5>1, <5>2
      <4>2. \A n \in Nat : Reader(r, g, from, n) = Reader(red, g, from, n)
        BY ReaderAgain
      <4> QED BY <3>1, <4>1, <4>2 DEF StandsAt
    <3>4. from + j <= r.target
      <4> HIDE DEF r, j
      <4>1. j <= Len(w) /\ Len(w) \in Nat /\ j \in Nat /\ r.target = red.target
        BY <3>1, <3>3
      <4> QED BY <1>1, <4>1
    <3> HIDE DEF r
    <3>5. FeedFrame(r, w[j]) = Reader(r, g, from, j)
      BY <3>1, <3>3, <3>4, FrameFed
    <3>6. frames[k] = w[j] /\ ~Terminal(r)
      <4>0. j = pos + k
        OBVIOUS
      <4> HIDE DEF j
      <4>1. r.class = "OK"
        BY <3>3 DEF Running
      <4> QED BY <3>1, <4>0, <4>1 DEF Terminal, Holds
    <3> QED BY <2>0, <2>2, <3>2, <3>3, <3>5, <3>6
  <2> QED BY <2>1, <2>2
<1>3. f0 = [k \in 0..N |-> body(f0, k)]
  BY <1>2
<1>4. fed = [k \in 0..N |-> body(fed, k)]
  <2>1. fed = CHOOSE f : f = [k \in 0..N |-> body(f, k)]
    BY DEF SegmentPrefixes
  <2> HIDE DEF body, f0, fed
  <2>2. \E f : f = [k \in 0..N |-> body(f, k)]
    BY <1>3
  <2> QED BY <2>1, <2>2
<1>5. ASSUME NEW k \in 0..N PROVE fed[k] = body(fed, k)
  <2> HIDE DEF body, fed
  <2> QED BY <1>4
<1> HIDE DEF fed, f0
<1>6. ASSUME NEW j \in 0..N, fed[j] # f0[j] PROVE FALSE
  <2> DEFINE D == {i \in 0..N : fed[i] # f0[i]}
  <2>1. D \in SUBSET Nat /\ D # {}
    BY <1>1, <1>6
  <2>2. PICK k \in D : \A i \in D : k <= i
    BY <2>1, LeastNat
  <2>3. k \in 0..N /\ fed[k] # f0[k]
    BY <2>2
  <2>4. fed[k] = body(fed, k) /\ f0[k] = body(f0, k)
    BY <1>2, <1>5, <2>3, Zenon
  <2>5. k # 0 => fed[k - 1] = f0[k - 1]
    BY <2>2, <2>3
  <2> QED BY <2>3, <2>4, <2>5
<1>7. fed[N] = f0[N] /\ f0[N] = Reader(red, g, from, pos + N)
  BY <1>1, <1>6 DEF f0
<1> QED BY <1>7 DEF fed

(* Segments that hold the frames of w in order: segment k ends at frame ends[k]. *)
Listed(S, segs, ends, from, w) ==
    /\ ends \in [0..Len(segs) -> 0..Len(w)] /\ ends[0] = 0 /\ ends[Len(segs)] = Len(w)
    /\ \A k \in 1..Len(segs) :
         /\ segs[k].ordinal = k - 1
         /\ segs[k].id \in Nat /\ (k > 1 => segs[k - 1].id < segs[k].id)
         /\ segs[k].firstSeq = from + ends[k - 1] + 1
         /\ segs[k].frames \in Seq(S) /\ segs[k].records = Len(segs[k].frames)
         /\ ends[k] = ends[k - 1] + Len(segs[k].frames)
         /\ Holds(segs[k].frames, w, ends[k - 1])

(* The reducer after segment k. *)
At(segs, ends, g, from, target, k) ==
    [class |-> "OK", index |-> g[ends[k]].index, tx |-> g[ends[k]].tx,
     expected |-> from + ends[k] + 1, last |-> from + ends[k], target |-> target,
     segments |-> k, prevId |-> IF k = 0 THEN -1 ELSE segs[k].id, frames |-> ends[k]]

(* The limits that make feed_segment stop at segment k. *)
OverLimit(segs, ends, k) ==
    \/ k > MaxSegments
    \/ Len(segs[k].frames) > MaxSegmentFrames
    \/ ends[k] > MaxTotalFrames

LEMMA SameReducer ==
    ASSUME NEW a \in Running, NEW b \in Running,
           a.index = b.index, a.tx = b.tx, a.expected = b.expected, a.last = b.last,
           a.target = b.target, a.segments = b.segments, a.prevId = b.prevId, a.frames = b.frames
    PROVE  a = b
BY DEF Running

LEMMA SegmentFed ==
    ASSUME NEW S, NEW start, NEW w \in Seq(S), NEW g, NEW segs, NEW ends, NEW target \in Nat,
           NEW from, start.last = from, NEW k \in 1..Len(segs), Len(segs) \in Nat,
           from + Len(w) <= target, Accepts(start, w, g), Listed(S, segs, ends, from, w)
    PROVE  /\ OverLimit(segs, ends, k) =>
                FeedSegment(At(segs, ends, g, from, target, k - 1), segs[k])
                  = ToTerminal(At(segs, ends, g, from, target, k - 1), "LIMIT")
           /\ ~OverLimit(segs, ends, k) =>
                FeedSegment(At(segs, ends, g, from, target, k - 1), segs[k])
                  = At(segs, ends, g, from, target, k)
<1> DEFINE red == At(segs, ends, g, from, target, k - 1)
           seg == segs[k]
           pos == ends[k - 1]
           fed == SegmentPrefixes(red, seg.frames)[Len(seg.frames)]
<1>1. from \in Nat /\ g \in [Nat -> Running]
  BY TraceType
<1>2. /\ seg.ordinal = k - 1 /\ seg.id \in Nat /\ (k > 1 => segs[k - 1].id < seg.id)
      /\ seg.firstSeq = from + pos + 1
      /\ seg.frames \in Seq(S) /\ seg.records = Len(seg.frames)
      /\ ends[k] = pos + Len(seg.frames)
      /\ Holds(seg.frames, w, pos)
  BY DEF Listed
<1>3. pos \in Nat /\ ends[k] \in Nat /\ ends[k] <= Len(w) /\ Len(w) \in Nat
      /\ k - 1 \in 0..Len(segs)
  <2>1. k - 1 \in 0..Len(segs) /\ k \in 0..Len(segs) /\ Len(w) \in Nat
    OBVIOUS
  <2>2. ends \in [0..Len(segs) -> 0..Len(w)]
    BY DEF Listed
  <2>3. pos \in 0..Len(w) /\ ends[k] \in 0..Len(w)
    BY <2>1, <2>2
  <2> QED BY <2>1, <2>3
<1>4. k - 1 > 0 => segs[k - 1].id \in Nat
  <2>1. k - 1 > 0 => k - 1 \in 1..Len(segs)
    BY <1>3
  <2> QED BY <2>1 DEF Listed
<1> HIDE DEF seg, pos
<1>5. /\ red.class = "OK" /\ red.segments = k - 1 /\ red.expected = from + pos + 1
      /\ red.prevId = (IF k - 1 = 0 THEN -1 ELSE segs[k - 1].id) /\ red.frames = pos
      /\ red.target = target
  BY DEF At, pos
<1>6. red \in Running
  <2>1. g[pos] \in Running
    BY <1>1, <1>3
  <2>2. g[pos].index \in Indexes /\ g[pos].tx \in TxIndexes
    BY <2>1 DEF Running
  <2>3. from + pos + 1 \in Nat /\ from + pos \in Nat /\ k - 1 \in Nat
        /\ (IF k - 1 = 0 THEN -1 ELSE segs[k - 1].id) \in Int
    BY <1>1, <1>3, <1>4
  <2> QED BY <1>3, <2>2, <2>3 DEF At, Running, pos
<1>7. StandsAt(red, g, from, pos)
  <2>1. /\ red.index = g[pos].index /\ red.tx = g[pos].tx
        /\ red.last = from + pos /\ red.expected = from + pos + 1
    BY DEF At, pos
  <2> HIDE DEF red
  <2>2. red = [red EXCEPT !.index = g[pos].index, !.tx = g[pos].tx, !.last = from + pos,
                          !.expected = from + pos + 1]
    BY <1>6, <2>1 DEF Running
  <2> QED BY <2>2 DEF Reader, StandsAt
<1>8. fed = Reader(red, g, from, ends[k])
  <2>1. pos + Len(seg.frames) <= Len(w) /\ from + Len(w) <= red.target
    BY <1>2, <1>3, <1>5
  <2> HIDE DEF red
  <2>2. SegmentPrefixes(red, seg.frames)[Len(seg.frames)] = Reader(red, g, from, pos + Len(seg.frames))
    <3> DEFINE frames == seg.frames
    <3>1. /\ frames \in Seq(S) /\ pos \in Nat /\ pos + Len(frames) <= Len(w)
          /\ Holds(frames, w, pos)
          /\ red \in Running /\ StandsAt(red, g, from, pos)
          /\ from + Len(w) <= red.target
      BY <1>2, <1>3, <1>6, <1>7, <2>1
    <3>0. w \in Seq(S) /\ Accepts(start, w, g) /\ start.last = from
      OBVIOUS
    <3> HIDE DEF frames
    <3>2. SegmentPrefixes(red, frames)[Len(frames)]
            = Reader(red, g, from, pos + Len(frames))
      BY ONLY <3>0, <3>1, FramesFed
    <3> QED BY <3>2 DEF frames
  <2> QED BY <1>2, <2>2
<1>9. /\ ~Terminal(red) /\ seg.ordinal = red.segments /\ ~(seg.id <= red.prevId)
      /\ seg.firstSeq = red.expected /\ Len(seg.frames) = seg.records
  <2>1. ~(seg.id <= red.prevId)
    BY <1>2, <1>4, <1>5 DEF seg
  <2> QED BY <1>2, <1>5, <2>1 DEF Terminal
<1>10. red.segments + 1 = k /\ red.frames + Len(seg.frames) = ends[k]
  BY <1>2, <1>3, <1>5
<1>11. fed \in Running /\ ~Terminal(fed) /\ fed.segments = k - 1 /\ fed.frames = pos
  <2> DEFINE q == ends[k]
  <2>0. q \in Nat /\ fed = Reader(red, g, from, q)
    BY <1>3, <1>8
  <2> HIDE DEF red, fed, q
  <2>1. fed \in Running /\ fed.segments = red.segments /\ fed.frames = red.frames
    BY ONLY <2>0, <1>1, <1>6, ReaderType
  <2>2. fed.class = "OK"
    BY <2>1 DEF Running
  <2> QED BY <1>5, <2>1, <2>2 DEF Terminal
<1>12. [fed EXCEPT !.segments = @ + 1, !.prevId = seg.id, !.frames = @ + Len(seg.frames)]
         = At(segs, ends, g, from, target, k)
  <2> DEFINE q == ends[k]
             x == [fed EXCEPT !.segments = k, !.prevId = seg.id, !.frames = q]
             y == At(segs, ends, g, from, target, k)
  <2>1. q \in Nat /\ fed = Reader(red, g, from, q) /\ k \in Nat /\ seg.id \in Int /\ k # 0
    BY <1>2, <1>3, <1>8
  <2>2. fed.segments + 1 = k /\ fed.frames + Len(seg.frames) = q
    BY <1>2, <1>11
  <2>3. /\ y.class = "OK" /\ y.index = g[q].index /\ y.tx = g[q].tx /\ y.expected = from + q + 1
        /\ y.last = from + q /\ y.target = target /\ y.segments = k /\ y.prevId = seg.id
        /\ y.frames = q /\ y \in Running
    <3>1. g[q].index \in Indexes /\ g[q].tx \in TxIndexes
      BY <1>1, <2>1 DEF Running
    <3>2. y = [class |-> "OK", index |-> g[q].index, tx |-> g[q].tx, expected |-> from + q + 1,
               last |-> from + q, target |-> target, segments |-> k, prevId |-> seg.id,
               frames |-> q]
      BY <2>1 DEF At, seg
    <3>3. from + q + 1 \in Nat /\ from + q \in Nat
      BY <1>1, <2>1
    <3> HIDE DEF y, q
    <3> QED BY <2>1, <3>1, <3>2, <3>3 DEF Running
  <2> HIDE DEF red, fed, q, y
  <2>4. /\ fed.index = g[q].index /\ fed.tx = g[q].tx /\ fed.expected = from + q + 1
        /\ fed.last = from + q /\ fed.target = target /\ fed \in Running
    <3> HIDE DEF x
    <3>0. q \in Nat
      BY <2>1
    <3>1. /\ Reader(red, g, from, q).index = g[q].index /\ Reader(red, g, from, q).tx = g[q].tx
          /\ Reader(red, g, from, q).expected = from + q + 1
          /\ Reader(red, g, from, q).last = from + q
          /\ Reader(red, g, from, q).target = red.target /\ Reader(red, g, from, q) \in Running
      BY ONLY <3>0, <1>1, <1>6, ReaderType
    <3> QED BY <2>1, <3>1, <1>5
  <2>5. /\ x.class = "OK" /\ x.index = fed.index /\ x.tx = fed.tx /\ x.expected = fed.expected
        /\ x.last = fed.last /\ x.target = fed.target /\ x.segments = k /\ x.prevId = seg.id
        /\ x.frames = q /\ x \in Running
    BY <2>1, <2>4 DEF Running
  <2>6. x = y
    <3> HIDE DEF x
    <3> QED BY <2>3, <2>4, <2>5, SameReducer
  <2> QED BY <2>2, <2>6 DEF y
<1>13. OverLimit(segs, ends, k) <=>
          \/ red.segments + 1 > MaxSegments
          \/ Len(seg.frames) > MaxSegmentFrames
          \/ red.frames + Len(seg.frames) > MaxTotalFrames
  BY <1>10 DEF OverLimit, seg
<1> HIDE DEF red
<1>14. FeedSegment(red, seg) = IF OverLimit(segs, ends, k) THEN ToTerminal(red, "LIMIT")
                               ELSE At(segs, ends, g, from, target, k)
  BY <1>9, <1>11, <1>12, <1>13 DEF FeedSegment
<1> QED BY <1>14 DEF red, seg

(* open_generation's replay of a WAL whose frames the ingress applied: it ends where the   *)
(* trace ends, unless the WAL is over one of the reducer's limits.                           *)
LEMMA ReplayAccepted ==
    ASSUME NEW S, NEW from \in Nat, NEW w \in Seq(S), NEW g,
           Accepts(ReducerInit(from, 0), w, g),
           NEW segs, Len(segs) \in Nat, NEW ends, Listed(S, segs, ends, from, w)
    PROVE  \/ /\ ReplaySegments(segs, from, from + Len(w)).class = "LIMIT"
              /\ \E k \in 1..Len(segs) : OverLimit(segs, ends, k)
           \/ /\ ReplaySegments(segs, from, from + Len(w)).class = "OK"
              /\ ReplaySegments(segs, from, from + Len(w)).index = g[Len(w)].index
              /\ ReplaySegments(segs, from, from + Len(w)).tx = g[Len(w)].tx
<1> DEFINE start == ReducerInit(from, 0)
           T == from + Len(w)
           N == Len(segs)
           A(k) == At(segs, ends, g, from, T, k)
           Over == {k \in 1..N : OverLimit(segs, ends, k)}
           body(f, k) == IF k = 0 THEN ReducerInit(from, T) ELSE FeedSegment(f[k - 1], segs[k])
           fed == ReplayPrefixes(segs, from, T)
<1>1. /\ start.last = from /\ Accepts(start, w, g) /\ T \in Nat /\ from + Len(w) <= T
      /\ Listed(S, segs, ends, from, w) /\ Len(w) \in Nat /\ N \in Nat
  <2>1. start.last = from /\ Len(w) \in Nat
    BY StartType
  <2> QED BY <2>1
<1>2. PICK stop \in 1..(N + 1) : /\ stop <= N => OverLimit(segs, ends, stop)
                                 /\ \A k \in 1..N : k < stop => ~OverLimit(segs, ends, k)
  <2>1. CASE Over = {}
    <3>1. N + 1 \in 1..(N + 1) /\ ~(N + 1 <= N)
      BY <1>1
    <3> QED BY <2>1, <3>1
  <2>2. CASE Over # {}
    <3>1. Over \in SUBSET Nat
      BY <1>1
    <3>2. PICK k \in Over : \A i \in Over : k <= i
      BY <2>2, <3>1, LeastNat
    <3> QED BY <1>1, <3>2
  <2> QED BY <2>1, <2>2
<1> DEFINE end == ToTerminal(A(stop - 1), "LIMIT")
           f0 == [k \in 0..N |-> IF k < stop THEN A(k) ELSE end]
<1>3. A(0) = ReducerInit(from, T)
  <2>1. g[0] = start /\ ends[0] = 0
    BY <1>1 DEF Accepts, Listed
  <2>2. start.index = EmptyIndex /\ start.tx = EmptyTx
    BY StartType
  <2>3. from + 0 = from /\ from + 0 + 1 = from + 1
    OBVIOUS
  <2> HIDE DEF start, T
  <2> QED BY <2>1, <2>2, <2>3 DEF At, ReducerInit
<1>4. ASSUME NEW k \in 1..N
      PROVE  FeedSegment(A(k - 1), segs[k])
               = IF OverLimit(segs, ends, k) THEN ToTerminal(A(k - 1), "LIMIT") ELSE A(k)
  <2> HIDE DEF start, T
  <2>0. w \in Seq(S) /\ Len(segs) \in Nat /\ k \in 1..Len(segs)
    OBVIOUS
  <2>1. /\ OverLimit(segs, ends, k) =>
             FeedSegment(At(segs, ends, g, from, T, k - 1), segs[k])
               = ToTerminal(At(segs, ends, g, from, T, k - 1), "LIMIT")
        /\ ~OverLimit(segs, ends, k) =>
             FeedSegment(At(segs, ends, g, from, T, k - 1), segs[k])
               = At(segs, ends, g, from, T, k)
    BY ONLY <1>1, <2>0, SegmentFed
  <2> QED BY <1>1, <2>1
<1>5. Terminal(end)
  BY DEF Terminal, ToTerminal, At
<1> HIDE DEF A, start, T, end
<1>6. ASSUME NEW k \in 0..N PROVE f0[k] = body(f0, k)
  <2>0. f0[k] = IF k < stop THEN A(k) ELSE end
    OBVIOUS
  <2>1. CASE k = 0
    BY <1>3, <2>0, <2>1
  <2>2. CASE k # 0 /\ k < stop
    <3>1. k \in 1..N /\ k - 1 \in 0..N /\ k - 1 < stop
      BY <1>1, <2>2
    <3>2. f0[k - 1] = A(k - 1) /\ ~OverLimit(segs, ends, k)
      BY <1>2, <2>2, <3>1
    <3>3. FeedSegment(A(k - 1), segs[k]) = A(k)
      BY <1>4, <3>1, <3>2
    <3> QED BY <2>0, <2>2, <3>2, <3>3
  <2>3. CASE k # 0 /\ k = stop
    <3>1. k \in 1..N /\ k - 1 \in 0..N /\ k - 1 < stop /\ ~(k < stop) /\ stop <= N
      BY <1>1, <2>3
    <3>2. f0[k - 1] = A(k - 1) /\ OverLimit(segs, ends, k)
      BY <1>2, <2>3, <3>1
    <3>3. FeedSegment(A(k - 1), segs[k]) = end
      BY <1>4, <2>3, <3>1, <3>2 DEF end
    <3> QED BY <2>0, <2>3, <3>1, <3>2, <3>3
  <2>4. CASE k # 0 /\ k > stop
    <3>1. k - 1 \in 0..N /\ ~(k - 1 < stop) /\ ~(k < stop)
      BY <1>1, <2>4
    <3>2. f0[k - 1] = end
      BY <3>1
    <3>3. FeedSegment(end, segs[k]) = end
      BY <1>5 DEF FeedSegment
    <3> QED BY <2>0, <2>4, <3>1, <3>2, <3>3
  <2>5. k < stop \/ k = stop \/ k > stop
    BY <1>1
  <2> QED BY <2>1, <2>2, <2>3, <2>4, <2>5
<1>7. f0 = [k \in 0..N |-> body(f0, k)]
  BY <1>6
<1>8. fed = [k \in 0..N |-> body(fed, k)]
  <2>1. fed = CHOOSE f : f = [k \in 0..N |-> body(f, k)]
    BY DEF ReplayPrefixes
  <2> HIDE DEF body, f0, fed
  <2>2. \E f : f = [k \in 0..N |-> body(f, k)]
    BY <1>7
  <2> QED BY <2>1, <2>2
<1>9. ASSUME NEW k \in 0..N PROVE fed[k] = body(fed, k)
  <2> HIDE DEF body, fed
  <2> QED BY <1>8
<1> HIDE DEF fed, f0
<1>10. ASSUME NEW j \in 0..N, fed[j] # f0[j] PROVE FALSE
  <2> DEFINE D == {i \in 0..N : fed[i] # f0[i]}
  <2>1. D \in SUBSET Nat /\ D # {}
    BY <1>1, <1>10
  <2>2. PICK k \in D : \A i \in D : k <= i
    BY <2>1, LeastNat
  <2>3. k \in 0..N /\ fed[k] # f0[k]
    BY <2>2
  <2>4. fed[k] = body(fed, k) /\ f0[k] = body(f0, k)
    BY <1>6, <1>9, <2>3, Zenon
  <2>5. k # 0 => fed[k - 1] = f0[k - 1]
    BY <2>2, <2>3
  <2> QED BY <2>3, <2>4, <2>5
<1>11. N \in 0..N /\ fed[N] = f0[N]
  BY <1>1, <1>10
<1>12. ReplaySegments(segs, from, T) = FinishReplay(f0[N])
  BY <1>11 DEF ReplaySegments, fed
<1>13. CASE stop <= N
  <2>1. f0[N] = end
    BY <1>1, <1>11, <1>13 DEF f0
  <2>2. FinishReplay(end) = end /\ end.class = "LIMIT"
    <3>1. end.class = "LIMIT"
      BY DEF end, ToTerminal, A, At
    <3> QED BY <1>5, <3>1 DEF FinishReplay
  <2>3. stop \in 1..N /\ OverLimit(segs, ends, stop)
    BY <1>1, <1>2, <1>13
  <2> QED BY <1>12, <2>1, <2>2, <2>3 DEF T
<1>14. CASE ~(stop <= N)
  <2>1. f0[N] = A(N)
    BY <1>1, <1>11, <1>14 DEF f0
  <2>2. ends[N] = Len(w)
    BY <1>1 DEF Listed
  <2>3. /\ A(N).class = "OK" /\ A(N).index = g[Len(w)].index /\ A(N).tx = g[Len(w)].tx
        /\ A(N).expected = T + 1 /\ A(N).target = T
    BY <2>2 DEF A, At, T
  <2>4. FinishReplay(A(N)) = A(N)
    BY <2>3 DEF FinishReplay
  <2> QED BY <1>12, <2>1, <2>3, <2>4 DEF T
<1> QED BY <1>13, <1>14
=============================================================================
