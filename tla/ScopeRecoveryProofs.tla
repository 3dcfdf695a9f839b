------------------------ MODULE ScopeRecoveryProofs ------------------------
(* The scope keeps its promise and a serving writer agrees with what a recovery would  *)
(* rebuild, for every set of processes, commands and facts.  The proof describes what a   *)
(* manifest that the writers publish looks like, follows the reducer along its frames       *)
(* (WalReplayProofs), and says where each process stands with respect to CURRENT.  The last   *)
(* part follows the files and the objects that back what was published.                        *)
EXTENDS ScopeRecovery, WalReplayProofs, SequenceTheorems

Frames == [cmd : Commands, seq : Nat]

-----------------------------------------------------------------------------
(* Manifests. *)

IsSegment(s) ==
    /\ s = Segment(s.header, s.status, s.frames)
    /\ s.header = Header(s.header.id, s.header.first, s.header.prev)
    /\ s.frames \in Seq(Frames)

(* man publishes the frames w, and its segment k ends at frame ends[k]. *)
Manifest(man, w, ends) ==
    /\ Len(man) \in SegmentIds /\ man = [k \in 1..Len(man) |-> man[k]]
    /\ w \in Seq(Frames) /\ Len(w) <= MaxLog
    /\ ends \in [0..Len(man) -> 0..Len(w)] /\ ends[0] = 0 /\ ends[Len(man)] = Len(w)
    /\ \A k \in 1..Len(man) :
         /\ IsSegment(man[k])
         /\ man[k].header.id = k
         /\ man[k].header.first = ends[k - 1] + 1
         /\ man[k].header.prev = IF k = 1 THEN Nil ELSE man[k - 1]
         /\ man[k].status = IF k = Len(man) THEN "ACTIVE" ELSE "SEALED"
         /\ man[k].frames = <<>> => k = Len(man)
         /\ ends[k] = ends[k - 1] + Len(man[k].frames)
         /\ Holds(man[k].frames, w, ends[k - 1])

Start == ReducerInit(0, 0)

(* What the ingress admitted can be replayed: a manifest that is Good, and the index and  *)
(* the retry memory that its replay ends with.                                              *)
Good(man) == \E w, ends, g : Manifest(man, w, ends) /\ Accepts(Start, w, g)

Knows(man, ix, t) ==
    \E w, ends, g : /\ Manifest(man, w, ends) /\ Accepts(Start, w, g)
                    /\ ix = g[Len(w)].index /\ t = g[Len(w)].tx

LEMMA KnowsGood ==
    ASSUME NEW man, NEW ix, NEW t, Knows(man, ix, t)
    PROVE  Good(man)
BY DEF Knows, Good

LEMMA ConstantTypes ==
    /\ MaxSegmentId \in Nat \ {0} /\ MaxLog \in Nat /\ SegmentIds = 1..MaxSegmentId
    /\ Start \in Running /\ Start.last = 0
    /\ Start.index = EmptyIndex /\ Start.tx = EmptyTx
    /\ Frames \subseteq [cmd : Command, seq : Nat]
<1>1. 0 \in Nat
  OBVIOUS
<1>2. Frames \subseteq [cmd : Command, seq : Nat]
  BY ScopeAssumption DEF Frames
<1> QED BY <1>1, <1>2, StartType, ScopeAssumption DEF Start, SegmentIds

(* The parts of a manifest, one fact at a time. *)
LEMMA ManifestParts ==
    ASSUME NEW man, NEW w, NEW ends, Manifest(man, w, ends)
    PROVE  /\ Len(man) \in Nat \ {0} /\ DOMAIN man = 1..Len(man) /\ Len(w) \in Nat
           /\ Len(man) \in 1..Len(man)
           /\ \A k \in 0..Len(man) : ends[k] \in Nat /\ ends[k] <= Len(w)
           /\ \A k \in 1..Len(man) :
                /\ k - 1 \in 0..Len(man) /\ k \in 0..Len(man)
                /\ man[k].frames \in Seq(Frames) /\ Len(man[k].frames) \in Nat
<1>1. Len(man) \in Nat \ {0} /\ DOMAIN man = 1..Len(man)
  BY ConstantTypes DEF Manifest
<1>2. Len(w) \in Nat
  BY DEF Manifest
<1>3. ends \in [0..Len(man) -> 0..Len(w)]
  BY DEF Manifest
<1>4. \A k \in 0..Len(man) : ends[k] \in Nat /\ ends[k] <= Len(w)
  BY <1>2, <1>3
<1>5. \A k \in 1..Len(man) : man[k].frames \in Seq(Frames)
  BY DEF Manifest, IsSegment
<1>6. \A k \in 1..Len(man) : Len(man[k].frames) \in Nat
  BY <1>5
<1> QED BY <1>1, <1>2, <1>4, <1>5, <1>6

LEMMA SegmentParts ==
    ASSUME NEW man, NEW w, NEW ends, Manifest(man, w, ends), NEW k \in 1..Len(man)
    PROVE  /\ IsSegment(man[k]) /\ man[k].header.id = k /\ man[k].header.first = ends[k - 1] + 1
           /\ man[k].header.prev = (IF k = 1 THEN Nil ELSE man[k - 1])
           /\ man[k].status = (IF k = Len(man) THEN "ACTIVE" ELSE "SEALED")
           /\ (man[k].frames = <<>> => k = Len(man))
           /\ ends[k] = ends[k - 1] + Len(man[k].frames)
           /\ Holds(man[k].frames, w, ends[k - 1])
           /\ man[k].frames \in Seq(Frames) /\ Len(man[k].frames) \in Nat
           /\ DOMAIN man[k].frames = 1..Len(man[k].frames)
           /\ ends[k - 1] \in Nat /\ ends[k] \in Nat /\ ends[k] <= Len(w) /\ Len(w) \in Nat
<1>1. /\ IsSegment(man[k]) /\ man[k].header.id = k /\ man[k].header.first = ends[k - 1] + 1
      /\ man[k].header.prev = (IF k = 1 THEN Nil ELSE man[k - 1])
      /\ man[k].status = (IF k = Len(man) THEN "ACTIVE" ELSE "SEALED")
      /\ (man[k].frames = <<>> => k = Len(man))
      /\ ends[k] = ends[k - 1] + Len(man[k].frames)
      /\ Holds(man[k].frames, w, ends[k - 1])
  BY DEF Manifest
<1>2. k - 1 \in 0..Len(man) /\ k \in 0..Len(man) /\ man[k].frames \in Seq(Frames)
  BY ManifestParts
<1>3. ends[k - 1] \in Nat /\ ends[k] \in Nat /\ ends[k] <= Len(w) /\ Len(w) \in Nat
  BY <1>2, ManifestParts
<1>4. Len(man[k].frames) \in Nat /\ DOMAIN man[k].frames = 1..Len(man[k].frames)
  BY <1>2
<1> QED BY <1>1, <1>2, <1>3, <1>4

(* A prefix of w and the frames that follow it. *)
LEMMA PrefixGrows ==
    ASSUME NEW S, NEW w \in Seq(S), NEW fr \in Seq(S), NEW a \in Nat, NEW b \in Nat,
           b = a + Len(fr), b <= Len(w), Holds(fr, w, a)
    PROVE  SubSeq(w, 1, b) = SubSeq(w, 1, a) \o fr
<1> DEFINE s == SubSeq(w, 1, a)
           t == SubSeq(w, 1, b)
           u == s \o fr
<1>1. Len(w) \in Nat /\ Len(fr) \in Nat /\ a <= b
  OBVIOUS
<1>2. \A i \in 1..b : w[i] \in S
  BY <1>1
<1>3. s \in Seq(S) /\ Len(s) = a /\ \A i \in 1..a : s[i] = w[i]
  BY <1>1, <1>2
<1>4. t \in Seq(S) /\ Len(t) = b /\ \A i \in 1..b : t[i] = w[i]
  BY <1>1, <1>2
<1> HIDE DEF s, t
<1>5. u \in Seq(S) /\ Len(u) = b
      /\ \A i \in 1..b : u[i] = IF i <= a THEN s[i] ELSE fr[i - a]
  BY <1>1, <1>3, ConcatProperties
<1> HIDE DEF u
<1>6. ASSUME NEW i \in 1..b PROVE t[i] = u[i]
  <2>1. CASE i <= a
    BY <1>1, <1>3, <1>4, <1>5, <2>1
  <2>2. CASE ~(i <= a)
    <3>1. i - a \in 1..Len(fr) /\ a + (i - a) = i
      BY <1>1, <2>2
    <3>2. fr[i - a] = w[i]
      BY <3>1 DEF Holds
    <3> QED BY <1>4, <1>5, <2>2, <3>2
  <2> QED BY <2>1, <2>2
<1>7. t = u
  BY <1>4, <1>5, <1>6, SeqEqual
<1> QED BY <1>7 DEF s, t, u

(* Log(man) is w. *)
LEMMA LogIs ==
    ASSUME NEW man, NEW w, NEW ends, Manifest(man, w, ends)
    PROVE  Log(man) = w /\ ReadSeq(man) = Len(w)
<1> DEFINE N == Len(man)
           body(f, k) == IF k = 0 THEN <<>> ELSE f[k - 1] \o man[k].frames
           f0 == [k \in 0..N |-> SubSeq(w, 1, ends[k])]
           log == LogPrefixes(man)
<1>1. N \in Nat /\ w \in Seq(Frames) /\ Len(w) \in Nat /\ ends[0] = 0 /\ ends[N] = Len(w)
      /\ \A k \in 0..N : ends[k] \in Nat /\ ends[k] <= Len(w)
  BY ManifestParts DEF Manifest
<1>2. ASSUME NEW k \in 0..N PROVE f0[k] = body(f0, k)
  <2>1. CASE k = 0
    <3>1. f0[k] = SubSeq(w, 1, 0)
      BY <1>1, <2>1
    <3>2. SubSeq(w, 1, 0) = <<>>
      BY <1>1
    <3> QED BY <2>1, <3>1, <3>2
  <2>2. CASE k # 0
    <3> DEFINE a == ends[k - 1]
               b == ends[k]
               fr == man[k].frames
    <3>1. k \in 1..N /\ k - 1 \in 0..N
      BY <1>1, <2>2
    <3>2. /\ fr \in Seq(Frames) /\ b = a + Len(fr) /\ a \in Nat /\ b \in Nat /\ b <= Len(w)
          /\ Len(fr) \in Nat /\ Holds(fr, w, a)
      BY <1>1, <3>1, ManifestParts DEF Manifest
    <3>3. f0[k - 1] = SubSeq(w, 1, a) /\ f0[k] = SubSeq(w, 1, b)
      BY <3>1
    <3> HIDE DEF a, b, fr
    <3>4. SubSeq(w, 1, b) = SubSeq(w, 1, a) \o fr
      BY <1>1, <3>2, PrefixGrows
    <3> QED BY <2>2, <3>3, <3>4 DEF fr
  <2> QED BY <2>1, <2>2
<1>3. f0 = [k \in 0..N |-> body(f0, k)]
  BY <1>2
<1>4. log = [k \in 0..N |-> body(log, k)]
  <2>1. log = CHOOSE f : f = [k \in 0..N |-> body(f, k)]
    BY DEF LogPrefixes
  <2> HIDE DEF body, f0, log
  <2>2. \E f : f = [k \in 0..N |-> body(f, k)]
    BY <1>3
  <2> QED BY <2>1, <2>2
<1>5. ASSUME NEW k \in 0..N PROVE log[k] = body(log, k)
  <2> HIDE DEF body, log
  <2> QED BY <1>4
<1> HIDE DEF log, f0
<1>6. ASSUME NEW j \in 0..N, log[j] # f0[j] PROVE FALSE
  <2> DEFINE D == {i \in 0..N : log[i] # f0[i]}
  <2>1. D \in SUBSET Nat /\ D # {}
    BY <1>1, <1>6
  <2>2. PICK k \in D : \A i \in D : k <= i
    BY <2>1, LeastNat
  <2>3. k \in 0..N /\ log[k] # f0[k]
    BY <2>2
  <2>4. log[k] = body(log, k) /\ f0[k] = body(f0, k)
    BY <1>2, <1>5, <2>3, Zenon
  <2>5. k # 0 => log[k - 1] = f0[k - 1]
    BY <2>2, <2>3
  <2> QED BY <2>3, <2>4, <2>5
<1>7. log[N] = f0[N] /\ f0[N] = SubSeq(w, 1, Len(w))
  BY <1>1, <1>6 DEF f0
<1>8. SubSeq(w, 1, Len(w)) = w
  BY <1>1
<1> QED BY <1>7, <1>8 DEF Log, ReadSeq, log

(* The scope's bounds are within the reducer's limits. *)
WithinLimits ==
    /\ MaxSegments \in Nat /\ MaxSegmentId <= MaxSegments
    /\ MaxSegmentFrames \in Nat /\ MaxLog <= MaxSegmentFrames
    /\ MaxTotalFrames \in Nat /\ MaxLog <= MaxTotalFrames

(* The replay of a manifest whose frames the ingress admitted: the end of the trace, unless *)
(* a limit of the reducer stops it.                                                          *)
LEMMA ReplayOf ==
    ASSUME NEW man, NEW w, NEW ends, NEW g, Manifest(man, w, ends), Accepts(Start, w, g)
    PROVE  \/ Replay(man).class = "LIMIT" /\ ~WithinLimits
           \/ /\ Replay(man).class = "OK"
              /\ Replay(man).index = g[Len(w)].index /\ Replay(man).tx = g[Len(w)].tx
<1> DEFINE segs == ReplayInput(man)
           N == Len(man)
<1>1. /\ N \in Nat \ {0} /\ DOMAIN man = 1..N /\ N <= MaxSegmentId
      /\ w \in Seq(Frames) /\ Len(w) \in Nat /\ Len(w) <= MaxLog
  BY ManifestParts, ConstantTypes DEF Manifest
<1>2. segs = [k \in 1..N |-> [ordinal |-> k - 1, id |-> man[k].header.id,
                              firstSeq |-> man[k].header.first, records |-> Len(man[k].frames),
                              frames |-> man[k].frames]]
  BY <1>1 DEF ReplayInput
<1> HIDE DEF segs
<1>3. Len(segs) = N
  BY <1>1, <1>2
<1>4. ASSUME NEW k \in 1..N
      PROVE  /\ segs[k].ordinal = k - 1 /\ segs[k].id = k
             /\ segs[k].firstSeq = ends[k - 1] + 1
             /\ segs[k].frames = man[k].frames /\ segs[k].records = Len(man[k].frames)
  BY <1>2 DEF Manifest
<1>5. Listed(Frames, segs, ends, 0, w)
  <2>1. /\ ends \in [0..Len(segs) -> 0..Len(w)] /\ ends[0] = 0 /\ ends[Len(segs)] = Len(w)
    BY <1>3 DEF Manifest
  <2>2. ASSUME NEW k \in 1..N
        PROVE  /\ segs[k].ordinal = k - 1
               /\ segs[k].id \in Nat /\ (k > 1 => segs[k - 1].id < segs[k].id)
               /\ segs[k].firstSeq = 0 + ends[k - 1] + 1
               /\ segs[k].frames \in Seq(Frames) /\ segs[k].records = Len(segs[k].frames)
               /\ ends[k] = ends[k - 1] + Len(segs[k].frames)
               /\ Holds(segs[k].frames, w, ends[k - 1])
    <3>1. k \in Nat /\ (k > 1 => k - 1 \in 1..N /\ k - 1 < k)
      BY <1>1
    <3>2. k > 1 => segs[k - 1].id < segs[k].id
      BY <1>4, <3>1
    <3>3. /\ man[k].frames \in Seq(Frames) /\ ends[k] = ends[k - 1] + Len(man[k].frames)
          /\ Holds(man[k].frames, w, ends[k - 1]) /\ ends[k - 1] \in Nat
      BY SegmentParts
    <3> QED BY <1>4, <3>1, <3>2, <3>3
  <2> QED BY <1>3, <2>1, <2>2 DEF Listed
<1>6. Replay(man) = ReplaySegments(segs, 0, 0 + Len(w))
  <2>1. ReadSeq(man) = 0 + Len(w)
    BY <1>1, LogIs
  <2> QED BY <2>1 DEF Replay, segs
<1>7. \/ Replay(man).class = "LIMIT" /\ \E k \in 1..N : OverLimit(segs, ends, k)
      \/ /\ Replay(man).class = "OK"
         /\ Replay(man).index = g[Len(w)].index /\ Replay(man).tx = g[Len(w)].tx
  <2>1. Accepts(ReducerInit(0, 0), w, g) /\ Len(segs) \in Nat /\ w \in Seq(Frames) /\ 0 \in Nat
    BY <1>1, <1>3 DEF Start
  <2> QED BY <1>3, <1>5, <1>6, <2>1, ReplayAccepted
<1>8. ASSUME NEW k \in 1..N, OverLimit(segs, ends, k) PROVE ~WithinLimits
  <2>1. k <= MaxSegmentId /\ k \in Nat /\ MaxSegmentId \in Nat /\ MaxLog \in Nat
    BY <1>1, ConstantTypes
  <2>2. ends[k] \in Nat /\ ends[k] <= MaxLog
    BY <1>1, <2>1, ManifestParts
  <2>3. Len(man[k].frames) \in Nat /\ Len(man[k].frames) <= ends[k]
    <3>1. ends[k] = ends[k - 1] + Len(man[k].frames)
      BY DEF Manifest
    <3>2. ends[k - 1] \in Nat /\ Len(man[k].frames) \in Nat
      BY ManifestParts
    <3> QED BY <3>1, <3>2
  <2>4. segs[k].frames = man[k].frames
    BY <1>4
  <2> QED BY <1>8, <2>1, <2>2, <2>3, <2>4 DEF OverLimit, WithinLimits
<1> QED BY <1>7, <1>8

-----------------------------------------------------------------------------
(* The manifests that the writers publish. *)

Batch(man, fr) == [man EXCEPT ![Len(man)].frames = Append(@, fr)]

(* A position counted from where a segment starts is within the history the segment is in. *)
LEMMA WithinSum ==
    ASSUME NEW a \in Nat, NEW n \in Nat, NEW m \in Nat, NEW i \in 1..n, a + n <= m
    PROVE  a + i \in 1..m
OBVIOUS

(* One more frame in the ACTIVE. *)
LEMMA BatchManifest ==
    ASSUME NEW man, NEW w, NEW ends, Manifest(man, w, ends), NEW fr \in Frames, Len(w) < MaxLog
    PROVE  Manifest(Batch(man, fr), Append(w, fr), [ends EXCEPT ![Len(man)] = Len(w) + 1])
<1> DEFINE N == Len(man)
           b == Batch(man, fr)
           e == [ends EXCEPT ![N] = Len(w) + 1]
           v == Append(w, fr)
           old == man[N]
           more == Append(old.frames, fr)
<1>1. /\ N \in Nat \ {0} /\ DOMAIN man = 1..N /\ N \in 1..N /\ N \in SegmentIds
      /\ w \in Seq(Frames) /\ Len(w) \in Nat /\ MaxLog \in Nat
      /\ old.frames \in Seq(Frames) /\ Len(old.frames) \in Nat
      /\ man = [k \in 1..N |-> man[k]]
  <2>1. N \in Nat \ {0} /\ DOMAIN man = 1..N /\ N \in 1..N /\ Len(w) \in Nat /\ MaxLog \in Nat
    BY ManifestParts, ConstantTypes
  <2>2. old.frames \in Seq(Frames) /\ Len(old.frames) \in Nat
    BY <2>1, SegmentParts
  <2>3. N \in SegmentIds /\ w \in Seq(Frames) /\ man = [k \in 1..N |-> man[k]]
    BY DEF Manifest
  <2> QED BY <2>1, <2>2, <2>3
<1>2. /\ v \in Seq(Frames) /\ Len(v) = Len(w) + 1 /\ v[Len(w) + 1] = fr
      /\ \A i \in 1..Len(w) : v[i] = w[i]
  BY <1>1, AppendProperties
<1>3. /\ more \in Seq(Frames) /\ Len(more) = Len(old.frames) + 1 /\ more # <<>>
      /\ more[Len(old.frames) + 1] = fr
      /\ \A i \in 1..Len(old.frames) : more[i] = old.frames[i]
  BY <1>1, AppendProperties
<1> HIDE DEF v, more
<1>4. b = [k \in 1..N |-> IF k = N THEN [old EXCEPT !.frames = more] ELSE man[k]]
  BY <1>1 DEF Batch, more
<1> HIDE DEF b
<1>5. Len(b) = N /\ b = [k \in 1..N |-> b[k]]
  BY <1>1, <1>4
<1>6. \A k \in 1..N : k # N => b[k] = man[k]
  BY <1>4
<1>7. /\ b[N] = Segment(old.header, old.status, more)
      /\ b[N].header = old.header /\ b[N].status = old.status /\ b[N].frames = more
  <2>1. IsSegment(old)
    BY <1>1 DEF Manifest
  <2>2. b[N] = [old EXCEPT !.frames = more]
    BY <1>1, <1>4
  <2>3. old = Segment(old.header, old.status, old.frames)
    BY <2>1 DEF IsSegment
  <2> HIDE DEF old
  <2>4. [old EXCEPT !.frames = more] = Segment(old.header, old.status, more)
    BY <2>3 DEF Segment
  <2> QED BY <2>2, <2>4 DEF Segment
<1>8. /\ e \in [0..N -> 0..Len(v)] /\ e[0] = 0 /\ e[N] = Len(v)
      /\ \A k \in 0..N : k # N => e[k] = ends[k]
  <2>1. ends \in [0..N -> 0..Len(w)] /\ ends[0] = 0
    BY DEF Manifest
  <2>2. N \in 0..N /\ 0 # N /\ 0 \in 0..N /\ Len(w) + 1 \in 0..Len(v)
    BY <1>1, <1>2
  <2>3. \A k \in 0..N : ends[k] \in 0..Len(v)
    BY <1>1, <1>2, <2>1
  <2>4. e = [k \in 0..N |-> IF k = N THEN Len(w) + 1 ELSE ends[k]]
    BY <2>1
  <2> HIDE DEF e
  <2> QED BY <1>2, <2>1, <2>2, <2>3, <2>4
<1> HIDE DEF e
<1>9. ASSUME NEW k \in 1..N
      PROVE  /\ IsSegment(b[k])
             /\ b[k].header.id = k
             /\ b[k].header.first = e[k - 1] + 1
             /\ b[k].header.prev = IF k = 1 THEN Nil ELSE b[k - 1]
             /\ b[k].status = IF k = N THEN "ACTIVE" ELSE "SEALED"
             /\ b[k].frames = <<>> => k = N
             /\ e[k] = e[k - 1] + Len(b[k].frames)
             /\ Holds(b[k].frames, v, e[k - 1])
  <2>1. /\ IsSegment(man[k]) /\ man[k].header.id = k /\ man[k].header.first = ends[k - 1] + 1
        /\ man[k].header.prev = (IF k = 1 THEN Nil ELSE man[k - 1])
        /\ man[k].status = (IF k = N THEN "ACTIVE" ELSE "SEALED")
        /\ (man[k].frames = <<>> => k = N)
        /\ ends[k] = ends[k - 1] + Len(man[k].frames)
        /\ Holds(man[k].frames, w, ends[k - 1])
        /\ man[k].frames \in Seq(Frames) /\ DOMAIN man[k].frames = 1..Len(man[k].frames)
        /\ ends[k - 1] \in Nat /\ ends[k] \in Nat /\ ends[k] <= Len(w)
        /\ Len(man[k].frames) \in Nat
    BY SegmentParts
  <2>2. /\ e[k - 1] = ends[k - 1] /\ (k # 1 => b[k - 1] = man[k - 1]) /\ ends[k - 1] \in Nat
        /\ ends[k] \in Nat /\ ends[k] <= Len(w)
    <3>1. k - 1 \in 0..N /\ k - 1 # N /\ (k # 1 => k - 1 \in 1..N) /\ k \in 0..N
      BY <1>1
    <3> QED BY <1>6, <1>8, <3>1, ManifestParts
  <2>3. CASE k # N
    <3>1. b[k] = man[k] /\ e[k] = ends[k] /\ k \in 0..N
      BY <1>6, <1>8, <2>3
    <3>2. Holds(man[k].frames, v, ends[k - 1])
      <4>1. ASSUME NEW i \in DOMAIN man[k].frames
            PROVE  man[k].frames[i] = v[ends[k - 1] + i]
        <5>1. i \in 1..Len(man[k].frames) /\ ends[k - 1] + i \in 1..Len(w)
          <6>1. i \in 1..Len(man[k].frames)
            BY <2>1
          <6>2. /\ ends[k - 1] \in Nat /\ Len(man[k].frames) \in Nat /\ Len(w) \in Nat
                /\ ends[k - 1] + Len(man[k].frames) <= Len(w)
            BY <1>1, <2>1
          <6> QED BY <6>1, <6>2, WithinSum
        <5> QED BY <1>2, <2>1, <5>1 DEF Holds
      <4> QED BY <4>1 DEF Holds
    <3> QED BY <2>1, <2>2, <2>3, <3>1, <3>2
  <2>4. CASE k = N
    <3>1. ends[N] = Len(w) /\ Len(w) = ends[N - 1] + Len(old.frames) /\ ends[N - 1] \in Nat
      BY <2>1, <2>4 DEF Manifest
    <3>2. e[k] = e[k - 1] + Len(more)
      BY <1>1, <1>2, <1>3, <1>8, <2>2, <2>4, <3>1
    <3>3. IsSegment(b[k])
      <4>1. old.header = Header(old.header.id, old.header.first, old.header.prev)
        BY <2>1, <2>4 DEF IsSegment
      <4> QED BY <1>3, <1>7, <2>4, <4>1 DEF IsSegment
    <3>4. Holds(more, v, ends[k - 1])
      <4>1. ASSUME NEW i \in 1..Len(more)
            PROVE  more[i] = v[ends[k - 1] + i]
        <5>1. CASE i \in 1..Len(old.frames)
          <6>1. ends[k - 1] + i \in 1..Len(w) /\ i \in DOMAIN old.frames
            <7>1. /\ ends[k - 1] \in Nat /\ ends[k - 1] + Len(old.frames) <= Len(w)
                  /\ Len(old.frames) \in Nat /\ Len(w) \in Nat
              BY <1>1, <2>2, <2>4, <3>1
            <7>2. DOMAIN old.frames = 1..Len(old.frames)
              BY <1>1
            <7> QED BY <5>1, <7>1, <7>2, WithinSum
          <6>2. old.frames[i] = w[ends[k - 1] + i]
            BY <2>1, <2>4, <6>1 DEF Holds
          <6> QED BY <1>2, <1>3, <5>1, <6>1, <6>2
        <5>2. CASE i = Len(old.frames) + 1
          <6> HIDE DEF old
          <6>1. ends[k - 1] + i = Len(w) + 1
            <7>1. ends[k - 1] = ends[N - 1]
              BY <2>4
            <7>2. ends[N - 1] + (Len(old.frames) + 1) = Len(w) + 1
              <8> DEFINE x == ends[N - 1]
                         y == Len(old.frames)
                         z == Len(w)
              <8>1. x \in Nat /\ y \in Nat /\ z \in Nat /\ z = x + y
                BY <1>1, <3>1
              <8> HIDE DEF x, y, z
              <8>2. x + (y + 1) = z + 1
                BY <8>1
              <8> QED BY <8>2 DEF x, y, z
            <7> QED BY <5>2, <7>1, <7>2
          <6>2. more[i] = fr
            BY <1>3, <5>2
          <6>3. v[ends[k - 1] + i] = fr
            BY <1>2, <6>1
          <6> QED BY <6>2, <6>3
        <5> QED BY <1>1, <1>3, <5>1, <5>2
      <4>2. DOMAIN more = 1..Len(more)
        BY <1>3
      <4> QED BY <4>1, <4>2 DEF Holds
    <3> QED BY <1>3, <1>7, <2>1, <2>2, <2>4, <3>2, <3>3, <3>4
  <2> QED BY <2>3, <2>4
<1>10. Len(v) <= MaxLog
  BY <1>1, <1>2
<1> HIDE DEF N
<1>11. Manifest(b, v, e)
  BY <1>1, <1>2, <1>5, <1>8, <1>9, <1>10 DEF Manifest
<1> QED BY <1>11 DEF b, v, e, N

Sealed(man) == [Active(man) EXCEPT !.status = "SEALED"]

Rotated(man) ==
    Front(man) \o <<Sealed(man), Segment(Header(ActiveId(man) + 1, ReadSeq(man) + 1, Sealed(man)),
                                          "ACTIVE", <<>>)>>

RotatedEnds(man, w, ends) ==
    [k \in 0..Len(man) + 1 |-> IF k = Len(man) + 1 THEN Len(w) ELSE ends[k]]

(* The ACTIVE sealed, and an empty one after it. *)
LEMMA RotationManifest ==
    ASSUME NEW man, NEW w, NEW ends, Manifest(man, w, ends), Prefix(man) # <<>>,
           ActiveId(man) + 1 \in SegmentIds
    PROVE  /\ Manifest(Rotated(man), w, RotatedEnds(man, w, ends))
           /\ IsSegment(Sealed(man)) /\ Sealed(man).header.id = Len(man)
           /\ Sealed(man).header = Active(man).header /\ Sealed(man).status = "SEALED"
           /\ Sealed(man).frames = Prefix(man)
           /\ Len(Rotated(man)) = Len(man) + 1
           /\ \A k \in 1..Len(man) : k < Len(man) => Rotated(man)[k] = man[k]
           /\ Rotated(man)[Len(man)] = Sealed(man)
           /\ Active(Rotated(man)) = Segment(Header(ActiveId(man) + 1, ReadSeq(man) + 1, Sealed(man)),
                                             "ACTIVE", <<>>)
<1> DEFINE N == Len(man)
           r == Rotated(man)
           e == RotatedEnds(man, w, ends)
           old == man[N]
           sealed == Sealed(man)
           next == Segment(Header(N + 1, Len(w) + 1, sealed), "ACTIVE", <<>>)
<1>1. /\ N \in Nat \ {0} /\ DOMAIN man = 1..N /\ N \in 1..N
      /\ w \in Seq(Frames) /\ Len(w) \in Nat
  <2>1. w \in Seq(Frames)
    BY DEF Manifest
  <2> QED BY <2>1, ManifestParts
<1>2. /\ IsSegment(old) /\ old.header.id = N /\ old.header.first = ends[N - 1] + 1
      /\ old.header.prev = (IF N = 1 THEN Nil ELSE man[N - 1])
      /\ old.frames # <<>> /\ ends[N] = ends[N - 1] + Len(old.frames)
      /\ Holds(old.frames, w, ends[N - 1]) /\ old.frames \in Seq(Frames)
      /\ Active(man) = old
  <2>1. Active(man) = old
    BY DEF Active, Last
  <2>2. old.frames # <<>>
    BY <2>1 DEF Prefix
  <2>3. /\ IsSegment(old) /\ old.header.id = N /\ old.header.first = ends[N - 1] + 1
        /\ old.header.prev = (IF N = 1 THEN Nil ELSE man[N - 1])
        /\ ends[N] = ends[N - 1] + Len(old.frames)
        /\ Holds(old.frames, w, ends[N - 1]) /\ old.frames \in Seq(Frames)
    BY <1>1, SegmentParts
  <2> QED BY <2>1, <2>2, <2>3
<1>3. /\ sealed = Segment(old.header, "SEALED", old.frames)
      /\ sealed.header = old.header /\ sealed.status = "SEALED" /\ sealed.frames = old.frames
      /\ IsSegment(sealed)
  <2> HIDE DEF old
  <2>1. sealed = [old EXCEPT !.status = "SEALED"]
    BY <1>2 DEF Sealed
  <2>2. old = Segment(old.header, old.status, old.frames)
    BY <1>2 DEF IsSegment
  <2> HIDE DEF sealed
  <2>3. sealed = Segment(old.header, "SEALED", old.frames)
    BY <2>1, <2>2 DEF Segment
  <2>4. sealed.header = old.header /\ sealed.status = "SEALED" /\ sealed.frames = old.frames
    BY <2>3 DEF Segment
  <2>5. old.header = Header(old.header.id, old.header.first, old.header.prev)
    BY <1>2 DEF IsSegment
  <2> QED BY <1>2, <2>3, <2>4, <2>5 DEF IsSegment
<1>4. ActiveId(man) = N /\ ReadSeq(man) = Len(w) /\ Prefix(man) = old.frames
  <2> HIDE DEF old
  <2> QED BY <1>2, LogIs DEF ActiveId, Prefix
<1>5. N + 1 \in SegmentIds
  BY <1>4
<1>6. r = Front(man) \o <<sealed, next>>
  BY <1>4 DEF Rotated
<1> HIDE DEF sealed
<1>7. r = [k \in 1..N + 1 |-> IF k < N THEN man[k] ELSE IF k = N THEN sealed ELSE next]
  <2> DEFINE S == {man[k] : k \in 1..N} \cup {sealed, next}
             two == <<sealed, next>>
             front == Front(man)
  <2> HIDE DEF next
  <2>1. two \in Seq(S) /\ Len(two) = 2 /\ two[1] = sealed /\ two[2] = next
    OBVIOUS
  <2>2. \A k \in 1..N : man[k] \in S
    OBVIOUS
  <2> HIDE DEF S
  <2>9. man = [k \in 1..N |-> man[k]]
    BY DEF Manifest
  <2>3. man \in Seq(S)
    BY <1>1, <2>2, <2>9, IsASeq
  <2>4. front \in Seq(S) /\ Len(front) = N - 1 /\ \A k \in 1..N - 1 : front[k] = man[k]
    BY <1>1, <2>3 DEF Front
  <2> HIDE DEF two, front, r
  <2>5. r = front \o two
    BY <1>6 DEF two, front
  <2> HIDE DEF N
  <2>6. r \in Seq(S) /\ Len(r) = N - 1 + 2
        /\ \A i \in 1..N - 1 + 2 : r[i] = IF i <= N - 1 THEN front[i] ELSE two[i - (N - 1)]
    <3>1. N - 1 \in Nat /\ 2 \in Nat
      BY <1>1
    <3>2. /\ r \in Seq(S) /\ Len(r) = Len(front) + Len(two)
          /\ \A i \in 1..Len(front) + Len(two) :
                r[i] = IF i <= Len(front) THEN front[i] ELSE two[i - Len(front)]
      BY <2>1, <2>4, <2>5, ConcatProperties
    <3> QED BY <2>1, <2>4, <3>1, <3>2
  <2>7. DOMAIN r = 1..N + 1 /\ r = [k \in 1..N + 1 |-> r[k]]
    BY <1>1, <2>6
  <2>8. ASSUME NEW k \in 1..N + 1
        PROVE  r[k] = IF k < N THEN man[k] ELSE IF k = N THEN sealed ELSE next
    <3>1. CASE k < N
      BY <1>1, <2>4, <2>6, <3>1
    <3>2. CASE k = N
      <4>1. k \in 1..N - 1 + 2 /\ ~(k <= N - 1) /\ k - (N - 1) = 1
        BY <1>1, <3>2
      <4> QED BY <2>1, <2>6, <3>2, <4>1
    <3>3. CASE k = N + 1
      <4>1. k \in 1..N - 1 + 2 /\ ~(k <= N - 1) /\ k - (N - 1) = 2 /\ ~(k < N) /\ k # N
        BY <1>1, <3>3
      <4> QED BY <2>1, <2>6, <4>1
    <3> QED BY <1>1, <3>1, <3>2, <3>3
  <2> QED BY <2>7, <2>8
<1> HIDE DEF r
<1>8. /\ Len(r) = N + 1 /\ r = [k \in 1..N + 1 |-> r[k]]
      /\ \A k \in 1..N : k < N => r[k] = man[k]
      /\ r[N] = sealed /\ r[N + 1] = next
  <2> HIDE DEF next, N
  <2>1. /\ N + 1 \in Nat /\ N \in 1..N + 1 /\ N + 1 \in 1..N + 1 /\ ~(N < N)
        /\ ~(N + 1 < N) /\ N + 1 # N /\ \A k \in 1..N : k \in 1..N + 1
    BY <1>1
  <2>2. DOMAIN r = 1..N + 1 /\ r = [k \in 1..N + 1 |-> r[k]]
    BY <1>7, <2>1
  <2>3. \A k \in 1..N : k < N => r[k] = man[k]
    BY <1>7, <2>1
  <2>4. r[N] = sealed /\ r[N + 1] = next
    BY <1>7, <2>1
  <2> QED BY <2>1, <2>2, <2>3, <2>4
<1>9. /\ next = Segment(next.header, next.status, next.frames)
      /\ next.header = Header(N + 1, Len(w) + 1, sealed)
      /\ next.status = "ACTIVE" /\ next.frames = <<>>
      /\ next.header.id = N + 1 /\ next.header.first = Len(w) + 1 /\ next.header.prev = sealed
      /\ IsSegment(next)
  <2>1. /\ next.header = Header(N + 1, Len(w) + 1, sealed)
        /\ next.status = "ACTIVE" /\ next.frames = <<>>
    BY DEF Segment
  <2>2. <<>> \in Seq(Frames)
    OBVIOUS
  <2> QED BY <2>1, <2>2 DEF Segment, IsSegment, Header
<1> HIDE DEF next
<1>10. /\ e \in [0..N + 1 -> 0..Len(w)] /\ e[0] = 0 /\ e[N + 1] = Len(w) /\ e[N] = Len(w)
       /\ \A k \in 0..N : e[k] = ends[k]
  <2>1. ends \in [0..N -> 0..Len(w)] /\ ends[0] = 0 /\ ends[N] = Len(w)
    BY DEF Manifest
  <2>2. e = [k \in 0..N + 1 |-> IF k = N + 1 THEN Len(w) ELSE ends[k]]
    BY DEF RotatedEnds
  <2>3. /\ \A k \in 0..N + 1 : k # N + 1 => k \in 0..N
        /\ \A k \in 0..N : k \in 0..N + 1 /\ k # N + 1
        /\ N \in 0..N /\ 0 \in 0..N /\ Len(w) \in 0..Len(w) /\ N + 1 \in 0..N + 1
    BY <1>1
  <2> HIDE DEF e
  <2>4. \A k \in 0..N : e[k] = ends[k]
    BY <2>2, <2>3
  <2>5. e[N + 1] = Len(w)
    BY <2>2, <2>3
  <2> QED BY <2>1, <2>2, <2>3, <2>4, <2>5
<1> HIDE DEF e
<1>11. ASSUME NEW k \in 1..N + 1
       PROVE  /\ IsSegment(r[k])
              /\ r[k].header.id = k
              /\ r[k].header.first = e[k - 1] + 1
              /\ r[k].header.prev = IF k = 1 THEN Nil ELSE r[k - 1]
              /\ r[k].status = IF k = N + 1 THEN "ACTIVE" ELSE "SEALED"
              /\ r[k].frames = <<>> => k = N + 1
              /\ e[k] = e[k - 1] + Len(r[k].frames)
              /\ Holds(r[k].frames, w, e[k - 1])
  <2>1. CASE k = N + 1
    <3>1. k - 1 = N /\ k # 1 /\ N \in 0..N /\ k \in 1..N + 1
      BY <1>1, <2>1
    <3>2. r[k] = next /\ r[k - 1] = sealed /\ e[k - 1] = Len(w) /\ e[k] = Len(w)
      BY <1>8, <1>10, <2>1, <3>1
    <3>3. Holds(<<>>, w, Len(w)) /\ Len(<<>>) = 0
      BY DEF Holds
    <3> QED BY <1>1, <1>9, <2>1, <3>1, <3>2, <3>3
  <2>2. CASE k = N
    <3> HIDE DEF old, N
    <3>1. k - 1 \in 0..N /\ k \in 0..N /\ k # N + 1 /\ (k # 1 => k - 1 \in 1..N /\ k - 1 < N)
      BY <1>1, <2>2
    <3>2. r[k] = sealed /\ e[k - 1] = ends[N - 1] /\ e[k] = ends[N]
          /\ (k # 1 => r[k - 1] = man[N - 1])
      BY <1>8, <1>10, <2>2, <3>1
    <3> QED BY <1>2, <1>3, <2>2, <3>1, <3>2
  <2>3. CASE k < N
    <3>1. /\ k \in 1..N /\ k - 1 \in 0..N /\ k \in 0..N /\ k # N + 1 /\ k # N
          /\ (k # 1 => k - 1 \in 1..N /\ k - 1 < N)
      <4> HIDE DEF N
      <4> QED BY <1>1, <2>3
    <3>2. r[k] = man[k] /\ e[k - 1] = ends[k - 1] /\ e[k] = ends[k]
          /\ (k # 1 => r[k - 1] = man[k - 1])
      BY <1>8, <1>10, <2>3, <3>1
    <3>3. /\ IsSegment(man[k]) /\ man[k].header.id = k /\ man[k].header.first = ends[k - 1] + 1
          /\ man[k].header.prev = (IF k = 1 THEN Nil ELSE man[k - 1])
          /\ man[k].status = "SEALED" /\ man[k].frames # <<>>
          /\ ends[k] = ends[k - 1] + Len(man[k].frames)
          /\ Holds(man[k].frames, w, ends[k - 1])
      BY <3>1, SegmentParts
    <3> QED BY <3>1, <3>2, <3>3
  <2>4. k = N + 1 \/ k = N \/ k < N
    <3> HIDE DEF N
    <3> QED BY <1>1
  <2> QED BY <2>1, <2>2, <2>3, <2>4
<1>12. Manifest(r, w, e)
  <2>1. Len(w) <= MaxLog
    BY DEF Manifest
  <2> HIDE DEF N, old
  <2>2. N + 1 = Len(r)
    BY <1>8
  <2>3. ASSUME NEW k \in 1..Len(r)
        PROVE /\ IsSegment(r[k])
              /\ r[k].header.id = k
              /\ r[k].header.first = e[k - 1] + 1
              /\ r[k].header.prev = IF k = 1 THEN Nil ELSE r[k - 1]
              /\ r[k].status = IF k = Len(r) THEN "ACTIVE" ELSE "SEALED"
              /\ r[k].frames = <<>> => k = Len(r)
              /\ e[k] = e[k - 1] + Len(r[k].frames)
              /\ Holds(r[k].frames, w, e[k - 1])
    <3>1. k \in 1..N + 1
      BY <2>2
    <3> QED BY <1>11, <2>2, <3>1
  <2>4. /\ Len(r) \in SegmentIds /\ r = [k \in 1..Len(r) |-> r[k]]
        /\ e \in [0..Len(r) -> 0..Len(w)] /\ e[0] = 0 /\ e[Len(r)] = Len(w)
    BY <1>5, <1>8, <1>10, <2>2, Zenon
  <2> QED BY <1>1, <2>1, <2>3, <2>4 DEF Manifest
<1>13. Active(r) = next
  BY <1>8 DEF Active, Last
<1> HIDE DEF old
<1>14. Prefix(man) = old.frames /\ old.header = Active(man).header
  BY <1>2 DEF Prefix
<1> QED BY <1>2, <1>3, <1>4, <1>8, <1>12, <1>13, <1>14 DEF r, e, sealed, next

-----------------------------------------------------------------------------
(* What a writer that knows a manifest can do with it. *)

(* The log of a manifest that is good: its frames are numbered in order. *)
LEMMA GoodLog ==
    ASSUME NEW man, Good(man)
    PROVE  /\ Log(man) \in Seq(Frames) /\ ReadSeq(man) = Len(Log(man)) /\ ReadSeq(man) \in Nat
           /\ ReadSeq(man) <= MaxLog
           /\ \A k \in DOMAIN Log(man) : Log(man)[k].seq = k
<1>1. PICK w, ends, g : Manifest(man, w, ends) /\ Accepts(Start, w, g)
  BY DEF Good
<1>2. Log(man) = w /\ ReadSeq(man) = Len(w)
  BY <1>1, LogIs
<1>3. w \in Seq(Frames) /\ Len(w) <= MaxLog
  BY <1>1 DEF Manifest
<1>4. \A k \in DOMAIN w : w[k].seq = k
  <2>1. \A k \in DOMAIN w : w[k].seq = Start.last + k
    BY <1>1 DEF Accepts
  <2>2. \A k \in DOMAIN w : k \in Nat
    BY <1>3
  <2> QED BY <2>1, <2>2, ConstantTypes
<1> QED BY <1>2, <1>3, <1>4

LEMMA KnowsTypes ==
    ASSUME NEW man, NEW ix, NEW t, Knows(man, ix, t)
    PROVE  /\ ix \in Indexes /\ t \in TxIndexes
           /\ \A k \in DOMAIN Log(man) : t[Log(man)[k].cmd.opid] # Nil
<1>1. PICK w, ends, g : /\ Manifest(man, w, ends) /\ Accepts(Start, w, g)
                        /\ ix = g[Len(w)].index /\ t = g[Len(w)].tx
  BY DEF Knows
<1>2. Log(man) = w /\ w \in Seq(Frames) /\ Len(w) \in Nat
  <2>1. Log(man) = w
    BY <1>1, LogIs
  <2>2. w \in Seq(Frames)
    BY <1>1 DEF Manifest
  <2> QED BY <2>1, <2>2
<1>3. g[Len(w)] \in Running
  BY <1>1, <1>2, TraceType
<1>4. ASSUME NEW k \in DOMAIN w PROVE t[w[k].cmd.opid] # Nil
  <2>1. k \in 1..Len(w) /\ Len(w) \in 0..Len(w)
    BY <1>2
  <2>2. g[Len(w)].tx[w[k].cmd.opid] # Nil
    BY <1>1, <1>2, <2>1, NilAssumption, RecordedAlong
  <2> QED BY <1>1, <2>2
<1> QED BY <1>1, <1>2, <1>3, <1>4 DEF Running

(* What a writer knows is what a replay of its manifest rebuilds. *)
LEMMA KnowsReplay ==
    ASSUME NEW man, NEW ix, NEW t, Knows(man, ix, t), WithinLimits
    PROVE  ix = Replay(man).index /\ t = Replay(man).tx /\ Replay(man).class = "OK"
<1>1. PICK w, ends, g : /\ Manifest(man, w, ends) /\ Accepts(Start, w, g)
                        /\ ix = g[Len(w)].index /\ t = g[Len(w)].tx
  BY DEF Knows
<1> QED BY <1>1, ReplayOf

(* A manifest that opened is known from its replay. *)
LEMMA ReplayKnows ==
    ASSUME NEW man, Good(man), Replay(man).class = "OK"
    PROVE  Knows(man, Replay(man).index, Replay(man).tx)
<1>1. PICK w, ends, g : Manifest(man, w, ends) /\ Accepts(Start, w, g)
  BY DEF Good
<1>2. Replay(man).class # "LIMIT"
  OBVIOUS
<1>3. Replay(man).index = g[Len(w)].index /\ Replay(man).tx = g[Len(w)].tx
  BY <1>1, <1>2, ReplayOf
<1> QED BY <1>1, <1>3 DEF Knows

LEMMA GenesisKnown ==
    /\ Knows(Genesis, EmptyIndex, EmptyTx) /\ Log(Genesis) = <<>>
    /\ Prefix(Genesis) = <<>> /\ ActiveId(Genesis) = 1
    /\ Active(Genesis).header = Header(1, 1, Nil)
<1> DEFINE s == Segment(Header(1, 1, Nil), "ACTIVE", <<>>)
           ends == [k \in 0..1 |-> 0]
           g == [k \in Nat |-> Start]
           man == Genesis
<1>1. Len(man) = 1 /\ man[1] = s /\ man = [k \in 1..1 |-> man[k]]
  BY DEF Genesis
<1>2. IsSegment(s) /\ s.header = Header(1, 1, Nil) /\ s.status = "ACTIVE" /\ s.frames = <<>>
      /\ s.header.id = 1 /\ s.header.first = 1 /\ s.header.prev = Nil
  <2>1. <<>> \in Seq(Frames)
    OBVIOUS
  <2> QED BY <2>1 DEF IsSegment, Segment, Header
<1> HIDE DEF s, man
<1>3. Len(<<>>) = 0 /\ <<>> \in Seq(Frames) /\ DOMAIN <<>> = {} /\ 0 <= MaxLog
      /\ MaxLog \in Nat /\ 1 \in SegmentIds
  BY ConstantTypes
<1>4. ends \in [0..1 -> 0..0] /\ ends[0] = 0 /\ ends[1] = 0
  OBVIOUS
<1> HIDE DEF ends
<1>5. Manifest(man, <<>>, ends)
  <2>1. ASSUME NEW k \in 1..1
        PROVE  /\ IsSegment(man[k])
               /\ man[k].header.id = k
               /\ man[k].header.first = ends[k - 1] + 1
               /\ man[k].header.prev = IF k = 1 THEN Nil ELSE man[k - 1]
               /\ man[k].status = IF k = Len(man) THEN "ACTIVE" ELSE "SEALED"
               /\ man[k].frames = <<>> => k = Len(man)
               /\ ends[k] = ends[k - 1] + Len(man[k].frames)
               /\ Holds(man[k].frames, <<>>, ends[k - 1])
    <3>1. k = 1 /\ k - 1 = 0
      OBVIOUS
    <3>2. Holds(<<>>, <<>>, ends[0])
      BY <1>3 DEF Holds
    <3> QED BY <1>1, <1>2, <1>3, <1>4, <3>1, <3>2
  <2> QED BY <1>1, <1>3, <1>4, <2>1 DEF Manifest
<1>6. Accepts(Start, <<>>, g)
  BY <1>3, ConstantTypes DEF Accepts
<1>7. g[Len(<<>>)].index = EmptyIndex /\ g[Len(<<>>)].tx = EmptyTx
  BY <1>3, ConstantTypes
<1> HIDE DEF g
<1>8. Knows(man, EmptyIndex, EmptyTx)
  BY <1>5, <1>6, <1>7 DEF Knows
<1>9. Log(man) = <<>>
  BY <1>5, LogIs
<1>10. Active(man) = s
  BY <1>1 DEF Active, Last
<1> QED BY <1>2, <1>8, <1>9, <1>10 DEF man, Prefix, ActiveId

Frame(c, man) == [cmd |-> c, seq |-> ReadSeq(man) + 1]

(* A command that the ingress applies: its batch is known, with the memory after it. *)
LEMMA BatchKnown ==
    ASSUME NEW man, NEW ix, NEW t, Knows(man, ix, t), NEW c \in Commands,
           Decide(ix, t, c) = "APPLIED", ReadSeq(man) < MaxLog
    PROVE  /\ Frame(c, man) \in Frames
           /\ Knows(Batch(man, Frame(c, man)), ApplyIndex(ix, c), RecordTx(t, c, ReadSeq(man) + 1))
           /\ Log(Batch(man, Frame(c, man))) = Append(Log(man), Frame(c, man))
           /\ \A k \in DOMAIN Log(man) : Log(man)[k].cmd.opid # c.opid
<1> DEFINE fr == Frame(c, man)
<1>1. PICK w, ends, g : /\ Manifest(man, w, ends) /\ Accepts(Start, w, g)
                        /\ ix = g[Len(w)].index /\ t = g[Len(w)].tx
  BY DEF Knows
<1>2. Log(man) = w /\ ReadSeq(man) = Len(w) /\ w \in Seq(Frames) /\ Len(w) \in Nat
  <2>1. Log(man) = w /\ ReadSeq(man) = Len(w)
    BY <1>1, LogIs
  <2>2. w \in Seq(Frames)
    BY <1>1 DEF Manifest
  <2> QED BY <2>1, <2>2
<1>3. fr \in Frames /\ fr.cmd = c /\ fr.seq = Len(w) + 1
  BY <1>2 DEF Frame, Frames
<1> HIDE DEF fr
<1>4. Manifest(Batch(man, fr), Append(w, fr), [ends EXCEPT ![Len(man)] = Len(w) + 1])
  BY <1>1, <1>2, <1>3, BatchManifest
<1>5. PICK h : /\ Accepts(Start, Append(w, fr), h)
               /\ h[Len(w) + 1].index = ApplyIndex(g[Len(w)].index, fr.cmd)
               /\ h[Len(w) + 1].tx = RecordTx(g[Len(w)].tx, fr.cmd, fr.seq)
  <2>1. fr.cmd \in Command
    BY <1>3, ScopeAssumption
  <2>2. fr.seq = Start.last + (Len(w) + 1)
    BY <1>2, <1>3, ConstantTypes
  <2>3. Decide(g[Len(w)].index, g[Len(w)].tx, fr.cmd) = "APPLIED"
    BY <1>1, <1>3
  <2> QED BY <1>1, <1>2, <1>3, <2>1, <2>2, <2>3, TraceGrows
<1>6. Len(Append(w, fr)) = Len(w) + 1
  BY <1>2
<1>7. Knows(Batch(man, fr), ApplyIndex(ix, c), RecordTx(t, c, Len(w) + 1))
  <2>1. ApplyIndex(ix, c) = h[Len(Append(w, fr))].index
    BY <1>1, <1>3, <1>5, <1>6
  <2>2. RecordTx(t, c, Len(w) + 1) = h[Len(Append(w, fr))].tx
    BY <1>1, <1>3, <1>5, <1>6
  <2> QED BY <1>4, <1>5, <2>1, <2>2 DEF Knows
<1>8. Log(Batch(man, fr)) = Append(w, fr)
  BY <1>4, LogIs
<1>9. ASSUME NEW k \in DOMAIN Log(man), Log(man)[k].cmd.opid = c.opid PROVE FALSE
  <2>1. t[c.opid] = Nil
    BY AppliedIsUnseen
  <2> QED BY <1>9, <2>1, KnowsTypes
<1> QED BY <1>2, <1>3, <1>7, <1>8, <1>9 DEF fr

(* A rotation publishes the same frames. *)
LEMMA RotationKnown ==
    ASSUME NEW man, NEW ix, NEW t, Knows(man, ix, t), Prefix(man) # <<>>,
           ActiveId(man) + 1 \in SegmentIds
    PROVE  Knows(Rotated(man), ix, t) /\ Log(Rotated(man)) = Log(man)
<1>1. PICK w, ends, g : /\ Manifest(man, w, ends) /\ Accepts(Start, w, g)
                        /\ ix = g[Len(w)].index /\ t = g[Len(w)].tx
  BY DEF Knows
<1>2. Manifest(Rotated(man), w, RotatedEnds(man, w, ends))
  BY <1>1, RotationManifest
<1>3. Knows(Rotated(man), ix, t)
  BY <1>1, <1>2 DEF Knows
<1>4. Log(man) = w /\ Log(Rotated(man)) = w
  BY <1>1, <1>2, LogIs
<1> QED BY <1>3, <1>4

-----------------------------------------------------------------------------
(* The inductive invariant. *)

TailItem == Frames \cup {Footer, TornFooter}

IsFile(f) == f = [header |-> f.header, tail |-> f.tail] /\ f.tail \in Seq(TailItem)

AllFiles(fs) == DOMAIN fs = SegmentIds /\ \A id \in SegmentIds : IsFile(fs[id])

IsPublication(o) == \E man : o = Publication(man) /\ Good(man)

IsSealed(o) ==
    /\ IsSegment(o) /\ o.status = "SEALED"
    /\ o.header.id \in SegmentIds /\ o.header.first \in Nat

AllObjects(objs) == \A o \in objs : IsPublication(o) \/ IsSealed(o)

Disk ==
    /\ Good(current) /\ Good(onDisk)
    /\ AllFiles(files) /\ AllFiles(stored)
    /\ AllObjects(objects) /\ unsynced \subseteq objects

Memory ==
    /\ holder \in Procs \cup {Nil}
    /\ pc \in [Procs -> Steps]
    /\ DOMAIN seen = Procs /\ DOMAIN cursor = Procs
    /\ index \in [Procs -> Indexes] /\ tx \in [Procs -> TxIndexes]
    /\ job \in [Procs -> Commands \cup {Nil}]

Answers == applied \subseteq Frames /\ replayed \subseteq Frames

Written == {"written", "synced", "record_linked", "recorded", "replaced", "published"}
Committing == {"planned"} \cup Written
Rotating == {"fenced", "sealing", "sealed", "sealed_linked", "sealed_published", "creating",
             "header_written", "prepared", "rotation_linked", "rotation_recorded",
             "rotation_replaced", "rotation_published"}
Serving == {"serving"} \cup Committing \cup Rotating
Held == {"leased", "validated", "truncated"} \cup Serving
Swapped == {"replaced", "published"}
RotationSwapped == {"rotation_replaced", "rotation_published"}

(* Where process p stands: its step, the publication it recovered, what its writer knows, *)
(* the lease, CURRENT in memory and on disk, the ACTIVE files.                             *)
Local(p, step, s, c, ix, t, j, hold, cur, disk, fs) ==
    /\ step \in Held <=> hold = p
    /\ (step = "idle" /\ s = Nil) \/ Good(s)
    /\ step \in {"validated", "truncated"} => s = cur /\ Replay(s).class = "OK"
    /\ step = "truncated" => fs[ActiveId(s)].tail = Prefix(s)
    /\ IF step \in Serving THEN Knows(c, ix, t) ELSE c = Nil
    /\ step \in Serving \ (Swapped \cup RotationSwapped) => cur = c
    /\ step \in Committing => j \in Commands /\ Decide(ix, t, j) = "APPLIED" /\ ReadSeq(c) < MaxLog
    /\ step \in {"serving", "planned"} => fs[ActiveId(c)].tail = Prefix(c)
    /\ step \in Written => fs[ActiveId(c)].tail = Append(Prefix(c), Frame(j, c))
    /\ step \in Swapped => cur = Batch(c, Frame(j, c))
    /\ step \in Rotating => Prefix(c) # <<>> /\ ActiveId(c) + 1 \in SegmentIds
    /\ step \in RotationSwapped => cur = Rotated(c)
    /\ step \in {"published", "rotation_published"} => disk = cur

LocalInv ==
    \A p \in Procs : Local(p, pc[p], seen[p], cursor[p], index[p], tx[p], job[p],
                           holder, current, onDisk, files)

IInv == Disk /\ Memory /\ Answers /\ LocalInv

(* Only the lease's holder touches CURRENT and the files: the others stand where they stood. *)
LEMMA Elsewhere ==
    ASSUME NEW p \in Procs, NEW q \in Procs, q # p,
           NEW step, NEW s, NEW c, NEW ix, NEW t, NEW j,
           NEW hold, NEW cur, NEW disk, NEW fs,
           NEW hold2, NEW cur2, NEW disk2, NEW fs2,
           Local(q, step, s, c, ix, t, j, hold, cur, disk, fs),
           hold2 = hold \/ (hold \in {p, Nil} /\ hold2 \in {p, Nil}),
           hold = p \/ (cur2 = cur /\ disk2 = disk /\ fs2 = fs)
    PROVE  Local(q, step, s, c, ix, t, j, hold2, cur2, disk2, fs2)
<1>1. q # Nil
  BY NilAssumption
<1>2. CASE step \in Held
  <2>1. hold = q
    BY <1>2 DEF Local
  <2>2. hold2 = hold /\ cur2 = cur /\ disk2 = disk /\ fs2 = fs
    BY <1>1, <2>1
  <2> QED BY <2>2
<1>3. CASE step \notin Held
  <2>1. hold # q /\ hold2 # q
    <3>1. hold # q
      BY <1>3 DEF Local
    <3> QED BY <1>1, <3>1
  <2>2. /\ step \notin Serving /\ step \notin {"validated", "truncated", "serving", "planned"}
        /\ step # "truncated" /\ step \notin Committing /\ step \notin Written
        /\ step \notin Swapped /\ step \notin Rotating /\ step \notin RotationSwapped
        /\ step \notin {"published", "rotation_published"}
    BY <1>3 DEF Held, Serving, Committing, Written, Rotating, Swapped, RotationSwapped
  <2>3. ((step = "idle" /\ s = Nil) \/ Good(s)) /\ c = Nil
    BY <2>2 DEF Local
  <2> QED BY <1>3, <2>1, <2>2, <2>3 DEF Local
<1> QED BY <1>2, <1>3

(* What a step of p leaves alone. *)
Confined(p) ==
    /\ \A q \in Procs : q # p =>
         /\ pc'[q] = pc[q] /\ seen'[q] = seen[q] /\ cursor'[q] = cursor[q]
         /\ index'[q] = index[q] /\ tx'[q] = tx[q] /\ job'[q] = job[q]
    /\ holder' = holder \/ (holder \in {p, Nil} /\ holder' \in {p, Nil})
    /\ holder = p \/ UNCHANGED <<current, onDisk, files>>

LEMMA LocalStep ==
    ASSUME LocalInv, NEW p \in Procs, Confined(p),
           Local(p, pc'[p], seen'[p], cursor'[p], index'[p], tx'[p], job'[p],
                 holder', current', onDisk', files')
    PROVE  LocalInv'
<1> SUFFICES ASSUME NEW q \in Procs, q # p
             PROVE  Local(q, pc'[q], seen'[q], cursor'[q], index'[q], tx'[q], job'[q],
                          holder', current', onDisk', files')
  BY DEF LocalInv
<1>1. /\ pc'[q] = pc[q] /\ seen'[q] = seen[q] /\ cursor'[q] = cursor[q]
      /\ index'[q] = index[q] /\ tx'[q] = tx[q] /\ job'[q] = job[q]
      /\ holder' = holder \/ (holder \in {p, Nil} /\ holder' \in {p, Nil})
      /\ holder = p \/ (current' = current /\ onDisk' = onDisk /\ files' = files)
  BY DEF Confined
<1>2. Local(q, pc[q], seen[q], cursor[q], index[q], tx[q], job[q], holder, current, onDisk, files)
  BY DEF LocalInv
<1>3. Local(q, pc[q], seen[q], cursor[q], index[q], tx[q], job[q],
            holder', current', onDisk', files')
  BY <1>1, <1>2, Elsewhere
<1> QED BY <1>1, <1>3

-----------------------------------------------------------------------------
(* Files and ACTIVE segments. *)

LEMMA FileParts ==
    ASSUME NEW f, IsFile(f), NEW v \in Seq(TailItem)
    PROVE  /\ IsFile([f EXCEPT !.tail = v])
           /\ [f EXCEPT !.tail = v].tail = v
           /\ [f EXCEPT !.tail = v].header = f.header
<1>1. f = [header |-> f.header, tail |-> f.tail]
  BY DEF IsFile
<1>2. [f EXCEPT !.tail = v] = [header |-> f.header, tail |-> v]
  BY <1>1
<1> QED BY <1>2 DEF IsFile

LEMMA NewFiles ==
    /\ IsFile(NoFile) /\ NoFile.tail = <<>> /\ NoFile.header = Nil
    /\ \A h : IsFile([header |-> h, tail |-> <<>>])
<1>1. <<>> \in Seq(TailItem)
  OBVIOUS
<1> QED BY <1>1 DEF IsFile, NoFile

(* A file's contents are replaced, or the file is. *)
WithTail(fs, id, v) == [fs EXCEPT ![id].tail = v]

LEMMA TailSet ==
    ASSUME NEW fs, AllFiles(fs), NEW id \in SegmentIds, NEW v \in Seq(TailItem)
    PROVE  /\ AllFiles(WithTail(fs, id, v))
           /\ WithTail(fs, id, v)[id].tail = v
           /\ WithTail(fs, id, v)[id].header = fs[id].header
           /\ \A i \in SegmentIds : i # id => WithTail(fs, id, v)[i] = fs[i]
<1> DEFINE x == WithTail(fs, id, v)
<1>1. DOMAIN fs = SegmentIds /\ \A i \in SegmentIds : IsFile(fs[i])
  BY DEF AllFiles
<1>2. DOMAIN x = SegmentIds /\ x[id] = [fs[id] EXCEPT !.tail = v]
      /\ \A i \in SegmentIds : i # id => x[i] = fs[i]
  BY <1>1 DEF WithTail
<1> HIDE DEF x
<1>3. IsFile(x[id]) /\ x[id].tail = v /\ x[id].header = fs[id].header
  BY <1>1, <1>2, FileParts
<1>4. AllFiles(x)
  BY <1>1, <1>2, <1>3 DEF AllFiles
<1> QED BY <1>2, <1>3, <1>4 DEF x

LEMMA FileSet ==
    ASSUME NEW fs, AllFiles(fs), NEW id \in SegmentIds, NEW f, IsFile(f)
    PROVE  /\ AllFiles([fs EXCEPT ![id] = f])
           /\ [fs EXCEPT ![id] = f][id] = f
           /\ \A i \in SegmentIds : i # id => [fs EXCEPT ![id] = f][i] = fs[i]
BY DEF AllFiles

LEMMA ActiveOf ==
    ASSUME NEW man, Good(man)
    PROVE  /\ ActiveId(man) \in SegmentIds /\ ActiveId(man) = Len(man)
           /\ ActiveId(man) \in Nat
           /\ Prefix(man) \in Seq(Frames) /\ Prefix(man) \in Seq(TailItem)
           /\ IsSegment(Active(man)) /\ Active(man).status = "ACTIVE"
           /\ Active(man).header.first \in Nat
           /\ DOMAIN man = 1..Len(man) /\ Len(man) \in Nat \ {0}
<1>1. PICK w, ends, g : Manifest(man, w, ends) /\ Accepts(Start, w, g)
  BY DEF Good
<1> DEFINE N == Len(man)
<1>2. N \in Nat \ {0} /\ DOMAIN man = 1..N /\ N \in 1..N
  BY <1>1, ManifestParts
<1>3. N \in SegmentIds
  BY <1>1 DEF Manifest
<1>4. /\ IsSegment(man[N]) /\ man[N].header.id = N /\ man[N].status = "ACTIVE"
      /\ man[N].header.first = ends[N - 1] + 1 /\ ends[N - 1] \in Nat
      /\ man[N].frames \in Seq(Frames)
  BY <1>1, <1>2, SegmentParts
<1>5. Active(man) = man[N]
  BY DEF Active, Last
<1>6. Prefix(man) \in Seq(Frames) /\ Prefix(man) \in Seq(TailItem)
  <2>1. Prefix(man) = man[N].frames
    BY <1>5 DEF Prefix
  <2>2. \A x \in Seq(Frames) : x \in Seq(TailItem)
    BY DEF TailItem
  <2> QED BY <1>4, <2>1, <2>2
<1> QED BY <1>2, <1>3, <1>4, <1>5, <1>6 DEF ActiveId

(* The ACTIVE of a batch is the same segment, with one frame more. *)
LEMMA BatchActive ==
    ASSUME NEW man, Good(man), NEW fr \in Frames
    PROVE  /\ ActiveId(Batch(man, fr)) = ActiveId(man)
           /\ Prefix(Batch(man, fr)) = Append(Prefix(man), fr)
<1> DEFINE b == Batch(man, fr)
           N == Len(man)
           old == man[N]
<1>1. IsSegment(old) /\ N \in 1..N /\ DOMAIN man = 1..N /\ N \in Nat
      /\ ActiveId(man) = old.header.id /\ Prefix(man) = old.frames
  BY ActiveOf DEF Active, Last, ActiveId, Prefix
<1>2. DOMAIN b = 1..N /\ b[N] = [old EXCEPT !.frames = Append(@, fr)]
  BY <1>1 DEF Batch
<1>3. old = Segment(old.header, old.status, old.frames)
  BY <1>1 DEF IsSegment
<1> HIDE DEF old, b
<1>4. b[N].header = old.header /\ b[N].frames = Append(old.frames, fr)
  BY <1>2, <1>3 DEF Segment
<1>5. Len(b) = N
  BY <1>1, <1>2
<1> QED BY <1>1, <1>4, <1>5 DEF Active, Last, ActiveId, Prefix, b

LEMMA InitInv == Init => IInv
<1> SUFFICES ASSUME Init PROVE IInv
  OBVIOUS
<1> USE DEF Init
<1>1. Good(Genesis)
  BY GenesisKnown, KnowsGood
<1>2. Disk
  <2>1. AllFiles(files)
    <3>1. IsFile(GenesisFile) /\ IsFile(NoFile)
      BY NewFiles DEF GenesisFile
    <3> QED BY <3>1 DEF AllFiles
  <2>2. AllObjects(objects)
    BY <1>1 DEF AllObjects, IsPublication
  <2> QED BY <1>1, <2>1, <2>2 DEF Disk
<1>3. Memory
  <2>1. EmptyIndex \in Indexes /\ EmptyTx \in TxIndexes
    BY GenesisKnown, KnowsTypes
  <2> QED BY <2>1 DEF Memory, Steps
<1>4. Answers
  BY DEF Answers
<1>5. ASSUME NEW p \in Procs
      PROVE  Local(p, pc[p], seen[p], cursor[p], index[p], tx[p], job[p],
                   holder, current, onDisk, files)
  <2>1. pc[p] = "idle" /\ seen[p] = Nil /\ cursor[p] = Nil /\ holder # p
    BY NilAssumption
  <2> QED BY <2>1 DEF Local, Held, Serving, Committing, Written, Rotating, Swapped, RotationSwapped
<1> QED BY <1>2, <1>3, <1>4, <1>5 DEF IInv, LocalInv

-----------------------------------------------------------------------------
(* The invariant is kept: what the actions share. *)

LEMMA Standing ==
    ASSUME IInv, NEW p \in Procs
    PROVE  /\ Disk /\ Memory /\ Answers /\ LocalInv
           /\ Local(p, pc[p], seen[p], cursor[p], index[p], tx[p], job[p],
                    holder, current, onDisk, files)
BY DEF IInv, LocalInv

LEMMA Together ==
    ASSUME IInv, NEW p \in Procs, Disk', Memory', Answers', Confined(p),
           Local(p, pc'[p], seen'[p], cursor'[p], index'[p], tx'[p], job'[p],
                 holder', current', onDisk', files')
    PROVE  IInv'
<1>1. LocalInv'
  BY LocalStep DEF IInv
<1> QED BY <1>1 DEF IInv

(* A step that changes no more of a process than where it stands. *)
LEMMA StepKeeps ==
    ASSUME Memory, NEW p \in Procs, NEW from, NEW to \in Steps, Step(p, from, to),
           UNCHANGED <<holder, seen, memVars>>,
           holder = p \/ UNCHANGED <<current, onDisk, files>>
    PROVE  /\ Memory' /\ Confined(p) /\ pc[p] = from /\ pc'[p] = to
           /\ UNCHANGED <<seen, cursor, index, tx, job, holder>>
<1>1. pc \in [Procs -> Steps] /\ pc[p] = from /\ pc' = [pc EXCEPT ![p] = to]
  BY DEF Memory, Step
<1>2. UNCHANGED <<seen, cursor, index, tx, job, holder>>
  BY DEF memVars
<1>3. pc' \in [Procs -> Steps] /\ pc'[p] = to /\ \A q \in Procs : q # p => pc'[q] = pc[q]
  BY <1>1
<1>4. Memory'
  BY <1>2, <1>3 DEF Memory
<1>5. Confined(p)
  BY <1>2, <1>3 DEF Confined
<1> QED BY <1>1, <1>2, <1>3, <1>4, <1>5

LEMMA ForgetKeeps ==
    ASSUME IInv, NEW p \in Procs, Forget(p), Disk', UNCHANGED ackVars,
           holder = p \/ UNCHANGED <<current, onDisk, files>>
    PROVE  IInv'
<1>1. Memory /\ Answers
  BY DEF IInv
<1>2. /\ pc' \in [Procs -> Steps] /\ pc'[p] = "idle"
      /\ \A q \in Procs : q # p => pc'[q] = pc[q]
  BY <1>1 DEF Memory, Forget, Steps
<1>3. /\ DOMAIN seen' = Procs /\ DOMAIN cursor' = Procs /\ seen'[p] = Nil /\ cursor'[p] = Nil
      /\ \A q \in Procs : q # p => seen'[q] = seen[q] /\ cursor'[q] = cursor[q]
  BY <1>1 DEF Memory, Forget
<1>4. /\ index' \in [Procs -> Indexes] /\ tx' \in [Procs -> TxIndexes]
      /\ job' \in [Procs -> Commands \cup {Nil}]
      /\ \A q \in Procs : q # p => index'[q] = index[q] /\ tx'[q] = tx[q] /\ job'[q] = job[q]
  <2>1. EmptyIndex \in Indexes /\ EmptyTx \in TxIndexes
    BY GenesisKnown, KnowsTypes
  <2> QED BY <1>1, <2>1 DEF Memory, Forget
<1>5. /\ holder' \in Procs \cup {Nil} /\ holder' # p
      /\ holder' = holder \/ (holder \in {p, Nil} /\ holder' \in {p, Nil})
  BY <1>1, NilAssumption DEF Memory, Forget
<1>6. Memory'
  BY <1>2, <1>3, <1>4, <1>5 DEF Memory
<1>7. Confined(p)
  BY <1>2, <1>3, <1>4, <1>5 DEF Confined
<1>8. Answers'
  BY <1>1 DEF Answers, ackVars
<1>9. Local(p, pc'[p], seen'[p], cursor'[p], index'[p], tx'[p], job'[p],
            holder', current', onDisk', files')
  BY <1>2, <1>3, <1>5
     DEF Local, Held, Serving, Committing, Written, Rotating, Swapped, RotationSwapped
<1> QED BY <1>6, <1>7, <1>8, <1>9, Together

(* The rest of an action that changes neither the disk nor the answers. *)
LEMMA DiskKeeps ==
    ASSUME Disk, UNCHANGED <<current, onDisk, diskVars>>
    PROVE  Disk' /\ UNCHANGED <<current, onDisk, files, stored, objects, unsynced>>
BY DEF Disk, diskVars

LEMMA AnswersKeep ==
    ASSUME Answers, UNCHANGED ackVars
    PROVE  Answers' /\ UNCHANGED <<applied, replayed>>
BY DEF Answers, ackVars

-----------------------------------------------------------------------------
(* Recovery keeps the invariant. *)

LEMMA EndsInv ==
    ASSUME IInv, NEW p \in Procs, Ends(p)
    PROVE  IInv'
<1>1. Disk
  BY DEF IInv
<1>2. UNCHANGED <<current, onDisk, diskVars>> /\ UNCHANGED ackVars /\ Forget(p)
  BY DEF Ends
<1>3. Disk' /\ UNCHANGED <<current, onDisk, files>>
  BY <1>1, <1>2, DiskKeeps
<1> QED BY <1>2, <1>3, ForgetKeeps

LEMMA RefusedInv ==
    ASSUME IInv, NEW p \in Procs, WriterActive(p) \/ StaleRecovery(p) \/ NextDiverges(p)
    PROVE  IInv'
<1>1. Disk
  BY DEF IInv
<1>2. UNCHANGED <<current, onDisk, diskVars>> /\ UNCHANGED ackVars /\ Forget(p)
  BY DEF WriterActive, StaleRecovery, NextDiverges
<1>3. Disk' /\ UNCHANGED <<current, onDisk, files>>
  BY <1>1, <1>2, DiskKeeps
<1> QED BY <1>2, <1>3, ForgetKeeps

LEMMA ReadCurrentInv ==
    ASSUME IInv, NEW p \in Procs, ReadCurrent(p)
    PROVE  IInv'
<1>1. /\ Disk /\ Memory /\ Answers
      /\ Local(p, pc[p], seen[p], cursor[p], index[p], tx[p], job[p],
               holder, current, onDisk, files)
  BY Standing
<1>2. /\ pc[p] = "idle" /\ pc' = [pc EXCEPT ![p] = "reading"]
      /\ seen' = [seen EXCEPT ![p] = current]
      /\ UNCHANGED <<current, onDisk, diskVars>> /\ UNCHANGED ackVars
      /\ UNCHANGED <<holder, cursor, index, tx, job>>
  BY DEF ReadCurrent, Step, memVars
<1>3. Disk' /\ UNCHANGED <<current, onDisk, files>> /\ Answers'
  BY <1>1, <1>2, DiskKeeps, AnswersKeep
<1>4. /\ pc' \in [Procs -> Steps] /\ pc'[p] = "reading" /\ DOMAIN seen' = Procs
      /\ seen'[p] = current
      /\ \A q \in Procs : q # p => pc'[q] = pc[q] /\ seen'[q] = seen[q]
  BY <1>1, <1>2 DEF Memory, Steps
<1>5. Memory' /\ Confined(p)
  BY <1>1, <1>2, <1>3, <1>4 DEF Memory, Confined
<1>6. Local(p, "reading", current, cursor[p], index[p], tx[p], job[p],
            holder, current, onDisk, files)
  <2>1. Good(current)
    BY <1>1 DEF Disk
  <2> QED BY <1>1, <1>2, <2>1
     DEF Local, Held, Serving, Committing, Written, Rotating, Swapped, RotationSwapped
<1>7. Local(p, pc'[p], seen'[p], cursor'[p], index'[p], tx'[p], job'[p],
            holder', current', onDisk', files')
  BY <1>2, <1>3, <1>4, <1>6
<1> QED BY <1>3, <1>5, <1>7, Together

LEMMA RecoverInv ==
    ASSUME IInv, NEW p \in Procs, Recover(p)
    PROVE  IInv'
<1>1. /\ Disk /\ Memory /\ Answers
      /\ Local(p, pc[p], seen[p], cursor[p], index[p], tx[p], job[p],
               holder, current, onDisk, files)
  BY Standing
<1> DEFINE to == IF Recovers(seen[p]) THEN "recovered" ELSE "idle"
<1>2. /\ Step(p, "reading", to)
      /\ UNCHANGED <<current, onDisk, diskVars>> /\ UNCHANGED ackVars
      /\ UNCHANGED <<holder, seen, memVars>>
  BY DEF Recover
<1>3. to \in Steps /\ to \in {"recovered", "idle"}
  BY DEF Steps
<1> HIDE DEF to
<1>4. Disk' /\ UNCHANGED <<current, onDisk, files>> /\ Answers'
  BY <1>1, <1>2, DiskKeeps, AnswersKeep
<1>5. /\ Memory' /\ Confined(p) /\ pc[p] = "reading" /\ pc'[p] = to
      /\ UNCHANGED <<seen, cursor, index, tx, job, holder>>
  BY <1>1, <1>2, <1>3, <1>4, StepKeeps
<1>6. Local(p, to, seen[p], cursor[p], index[p], tx[p], job[p], holder, current, onDisk, files)
  BY <1>1, <1>3, <1>5
     DEF Local, Held, Serving, Committing, Written, Rotating, Swapped, RotationSwapped
<1>7. Local(p, pc'[p], seen'[p], cursor'[p], index'[p], tx'[p], job'[p],
            holder', current', onDisk', files')
  BY <1>4, <1>5, <1>6
<1> QED BY <1>4, <1>5, <1>7, Together

LEMMA AcquireLeaseInv ==
    ASSUME IInv, NEW p \in Procs, AcquireLease(p)
    PROVE  IInv'
<1>1. /\ Disk /\ Memory /\ Answers
      /\ Local(p, pc[p], seen[p], cursor[p], index[p], tx[p], job[p],
               holder, current, onDisk, files)
  BY Standing
<1>2. /\ pc[p] = "recovered" /\ pc' = [pc EXCEPT ![p] = "leased"]
      /\ holder = Nil /\ holder' = p
      /\ UNCHANGED <<current, onDisk, diskVars>> /\ UNCHANGED ackVars
      /\ UNCHANGED <<seen, cursor, index, tx, job>>
  BY DEF AcquireLease, LeaseFree, Step, memVars
<1>3. Disk' /\ UNCHANGED <<current, onDisk, files>> /\ Answers'
  BY <1>1, <1>2, DiskKeeps, AnswersKeep
<1>4. /\ pc' \in [Procs -> Steps] /\ pc'[p] = "leased"
      /\ \A q \in Procs : q # p => pc'[q] = pc[q]
  BY <1>1, <1>2 DEF Memory, Steps
<1>5. Memory' /\ Confined(p)
  BY <1>1, <1>2, <1>3, <1>4 DEF Memory, Confined
<1>6. Local(p, "leased", seen[p], cursor[p], index[p], tx[p], job[p],
            p, current, onDisk, files)
  BY <1>1, <1>2
     DEF Local, Held, Serving, Committing, Written, Rotating, Swapped, RotationSwapped
<1>7. Local(p, pc'[p], seen'[p], cursor'[p], index'[p], tx'[p], job'[p],
            holder', current', onDisk', files')
  BY <1>2, <1>3, <1>4, <1>6
<1> QED BY <1>3, <1>5, <1>7, Together

LEMMA RevalidateInv ==
    ASSUME IInv, NEW p \in Procs, Revalidate(p)
    PROVE  IInv'
<1>1. /\ Disk /\ Memory /\ Answers
      /\ Local(p, pc[p], seen[p], cursor[p], index[p], tx[p], job[p],
               holder, current, onDisk, files)
  BY Standing
<1>2. /\ Step(p, "leased", "validated") /\ current = seen[p] /\ Replay(seen[p]).class = "OK"
      /\ UNCHANGED <<current, onDisk, diskVars>> /\ UNCHANGED ackVars
      /\ UNCHANGED <<holder, seen, memVars>>
  BY DEF Revalidate, StillCurrent, Recovers, Opens
<1>3. Disk' /\ UNCHANGED <<current, onDisk, files>> /\ Answers'
  BY <1>1, <1>2, DiskKeeps, AnswersKeep
<1>4. /\ Memory' /\ Confined(p) /\ pc[p] = "leased" /\ pc'[p] = "validated"
      /\ UNCHANGED <<seen, cursor, index, tx, job, holder>>
  <2>1. "validated" \in Steps
    BY DEF Steps
  <2> QED BY <1>1, <1>2, <1>3, <2>1, StepKeeps
<1>5. Local(p, "validated", seen[p], cursor[p], index[p], tx[p], job[p],
            holder, current, onDisk, files)
  BY <1>1, <1>2, <1>4
     DEF Local, Held, Serving, Committing, Written, Rotating, Swapped, RotationSwapped
<1>6. Local(p, pc'[p], seen'[p], cursor'[p], index'[p], tx'[p], job'[p],
            holder', current', onDisk', files')
  BY <1>3, <1>4, <1>5
<1> QED BY <1>3, <1>4, <1>6, Together

(* Truncation leaves the published prefix of the ACTIVE that the recovery read. *)
LEMMA TruncateTailInv ==
    ASSUME IInv, NEW p \in Procs, TruncateTail(p)
    PROVE  IInv'
<1>1. /\ Disk /\ Memory /\ Answers
      /\ Local(p, pc[p], seen[p], cursor[p], index[p], tx[p], job[p],
               holder, current, onDisk, files)
  BY Standing
<1> DEFINE man == seen[p]
<1>2. /\ Step(p, "validated", "truncated") /\ pc[p] = "validated"
      /\ files' = WithTail(files, ActiveId(man), Prefix(man))
      /\ UNCHANGED <<current, onDisk, stored, objects, unsynced>> /\ UNCHANGED ackVars
      /\ UNCHANGED <<holder, seen, memVars>>
  BY DEF TruncateTail, KeptByTruncation, Step, WithTail
<1>3. Good(man) /\ holder = p
  BY <1>1, <1>2 DEF Local, Held, Serving
<1>4. ActiveId(man) \in SegmentIds /\ Prefix(man) \in Seq(TailItem)
  BY <1>3, ActiveOf
<1>5. AllFiles(files') /\ files'[ActiveId(man)].tail = Prefix(man)
  BY <1>1, <1>2, <1>4, TailSet DEF Disk
<1>6. Disk' /\ Answers'
  BY <1>1, <1>2, <1>5, AnswersKeep DEF Disk
<1>7. /\ Memory' /\ Confined(p) /\ pc'[p] = "truncated"
      /\ UNCHANGED <<seen, cursor, index, tx, job, holder>>
  <2>1. "truncated" \in Steps
    BY DEF Steps
  <2> QED BY <1>1, <1>2, <1>3, <2>1, StepKeeps
<1>8. Local(p, "truncated", man, cursor[p], index[p], tx[p], job[p],
            holder, current, onDisk, files')
  BY <1>1, <1>2, <1>5
     DEF Local, Held, Serving, Committing, Written, Rotating, Swapped, RotationSwapped
<1>9. Local(p, pc'[p], seen'[p], cursor'[p], index'[p], tx'[p], job'[p],
            holder', current', onDisk', files')
  BY <1>2, <1>7, <1>8
<1> QED BY <1>6, <1>7, <1>9, Together

(* A writer that starts knows what it recovered. *)
LEMMA BootKeeps ==
    ASSUME IInv, NEW p \in Procs, pc[p] \in {"validated", "truncated"},
           files[ActiveId(seen[p])].tail = Prefix(seen[p]), Boot(p),
           UNCHANGED <<current, onDisk, files, holder, seen>>
    PROVE  /\ Memory' /\ Confined(p)
           /\ Local(p, pc'[p], seen'[p], cursor'[p], index'[p], tx'[p], job'[p],
                    holder', current', onDisk', files')
<1>1. /\ Disk /\ Memory
      /\ Local(p, pc[p], seen[p], cursor[p], index[p], tx[p], job[p],
               holder, current, onDisk, files)
  BY Standing
<1> DEFINE man == seen[p]
           ix == Replay(man).index
           t == Replay(man).tx
<1>2. holder = p /\ man = current /\ Replay(man).class = "OK" /\ Good(current)
  BY <1>1 DEF Local, Held, Disk
<1>3. Knows(man, ix, t)
  BY <1>2, ReplayKnows
<1>4. ix \in Indexes /\ t \in TxIndexes
  BY <1>3, KnowsTypes
<1> HIDE DEF ix, t
<1>5. /\ pc' = [pc EXCEPT ![p] = "serving"] /\ cursor' = [cursor EXCEPT ![p] = man]
      /\ index' = [index EXCEPT ![p] = ix] /\ tx' = [tx EXCEPT ![p] = t] /\ job' = job
  BY DEF Boot, ix, t
<1>6. /\ pc' \in [Procs -> Steps] /\ pc'[p] = "serving"
      /\ \A q \in Procs : q # p => pc'[q] = pc[q]
  BY <1>1, <1>5 DEF Memory, Steps
<1>7. /\ DOMAIN cursor' = Procs /\ cursor'[p] = man
      /\ \A q \in Procs : q # p => cursor'[q] = cursor[q]
  BY <1>1, <1>5 DEF Memory
<1>8. /\ index' \in [Procs -> Indexes] /\ tx' \in [Procs -> TxIndexes]
      /\ index'[p] = ix /\ tx'[p] = t
      /\ \A q \in Procs : q # p => index'[q] = index[q] /\ tx'[q] = tx[q]
  BY <1>1, <1>4, <1>5 DEF Memory
<1>9. Memory' /\ Confined(p)
  BY <1>1, <1>2, <1>5, <1>6, <1>7, <1>8 DEF Memory, Confined
<1>10. Local(p, "serving", man, man, ix, t, job[p], holder, current, onDisk, files)
  BY <1>1, <1>2, <1>3
     DEF Local, Held, Serving, Committing, Written, Rotating, Swapped, RotationSwapped
<1> QED BY <1>2, <1>5, <1>6, <1>7, <1>8, <1>9, <1>10

LEMMA BootInv ==
    ASSUME IInv, NEW p \in Procs, SyncTruncated(p) \/ TailAbsent(p)
    PROVE  IInv'
<1>1. /\ Disk /\ Memory /\ Answers
      /\ Local(p, pc[p], seen[p], cursor[p], index[p], tx[p], job[p],
               holder, current, onDisk, files)
  BY Standing
<1>2. CASE SyncTruncated(p)
  <2>1. /\ pc[p] = "truncated" /\ Boot(p)
        /\ stored' = [stored EXCEPT ![ActiveId(seen[p])] = files[ActiveId(seen[p])]]
        /\ UNCHANGED <<current, onDisk, files, objects, unsynced, holder, seen>>
        /\ UNCHANGED ackVars
    BY <1>2 DEF SyncTruncated
  <2>2. files[ActiveId(seen[p])].tail = Prefix(seen[p]) /\ Good(seen[p])
    BY <1>1, <2>1 DEF Local
  <2>3. ActiveId(seen[p]) \in SegmentIds
    BY <2>2, ActiveOf
  <2>4. AllFiles(stored')
    <3>1. IsFile(files[ActiveId(seen[p])])
      BY <1>1, <2>3 DEF Disk, AllFiles
    <3> QED BY <1>1, <2>1, <2>3, <3>1, FileSet DEF Disk
  <2>5. Disk' /\ Answers'
    BY <1>1, <2>1, <2>4, AnswersKeep DEF Disk
  <2> QED BY <2>1, <2>2, <2>5, BootKeeps, Together
<1>3. CASE TailAbsent(p)
  <2>1. /\ pc[p] = "validated" /\ Boot(p) /\ FileTail(seen[p]) = Prefix(seen[p])
        /\ UNCHANGED <<current, onDisk, diskVars>> /\ UNCHANGED <<holder, seen>>
        /\ UNCHANGED ackVars
    BY <1>3 DEF TailAbsent
  <2>2. Disk' /\ UNCHANGED <<current, onDisk, files>> /\ Answers'
    BY <1>1, <2>1, DiskKeeps, AnswersKeep
  <2> QED BY <2>1, <2>2, BootKeeps, Together DEF FileTail
<1> QED BY <1>2, <1>3

-----------------------------------------------------------------------------
(* Commits keep the invariant. *)

LEMMA SubmitInv ==
    ASSUME IInv, NEW p \in Procs, NEW c \in Commands, Submit(p, c)
    PROVE  IInv'
<1>1. /\ Disk /\ Memory /\ Answers
      /\ Local(p, pc[p], seen[p], cursor[p], index[p], tx[p], job[p],
               holder, current, onDisk, files)
  BY Standing
<1>2. /\ pc[p] = "serving" /\ pc' = [pc EXCEPT ![p] = "planned"]
      /\ Decide(index[p], tx[p], c) = "APPLIED" /\ ReadSeq(cursor[p]) < MaxLog
      /\ job' = [job EXCEPT ![p] = c]
      /\ UNCHANGED <<current, onDisk, diskVars>> /\ UNCHANGED ackVars
      /\ UNCHANGED <<holder, seen, cursor, index, tx>>
  BY DEF Submit, Step
<1>3. Disk' /\ UNCHANGED <<current, onDisk, files>> /\ Answers'
  BY <1>1, <1>2, DiskKeeps, AnswersKeep
<1>4. /\ pc' \in [Procs -> Steps] /\ pc'[p] = "planned"
      /\ job' \in [Procs -> Commands \cup {Nil}] /\ job'[p] = c
      /\ \A q \in Procs : q # p => pc'[q] = pc[q] /\ job'[q] = job[q]
  BY <1>1, <1>2 DEF Memory, Steps
<1>5. Memory' /\ Confined(p)
  BY <1>1, <1>2, <1>3, <1>4 DEF Memory, Confined
<1>6. Local(p, "planned", seen[p], cursor[p], index[p], tx[p], c, holder, current, onDisk, files)
  BY <1>1, <1>2
     DEF Local, Held, Serving, Committing, Written, Rotating, Swapped, RotationSwapped
<1>7. Local(p, pc'[p], seen'[p], cursor'[p], index'[p], tx'[p], job'[p],
            holder', current', onDisk', files')
  BY <1>2, <1>3, <1>4, <1>6
<1> QED BY <1>3, <1>5, <1>7, Together

(* A retry is answered with the seq that was recorded for it. *)
LEMMA SubmitReplayInv ==
    ASSUME IInv, NEW p \in Procs, NEW c \in Commands, SubmitReplay(p, c)
    PROVE  IInv'
<1>1. /\ Disk /\ Memory /\ Answers
      /\ Local(p, pc[p], seen[p], cursor[p], index[p], tx[p], job[p],
               holder, current, onDisk, files)
  BY Standing
<1>2. /\ Decide(index[p], tx[p], c) = "DEDUP_REPLAY"
      /\ replayed' = replayed \cup {[cmd |-> c, seq |-> DedupSeq(tx[p], c)]}
      /\ UNCHANGED <<current, onDisk, diskVars>> /\ UNCHANGED applied
      /\ UNCHANGED <<holder, pc, seen, cursor, index, tx, job>>
  BY DEF SubmitReplay, memVars
<1>3. Disk' /\ UNCHANGED <<current, onDisk, files>>
  BY <1>1, <1>2, DiskKeeps
<1>4. DedupSeq(tx[p], c) \in Nat
  <2>1. c \in Command /\ c.opid \in OpIds
    BY ScopeAssumption DEF Command
  <2>2. DedupProbe(c) = "new"
    BY <2>1, ScopeAssumption DEF DedupProbe
  <2>3. tx[p][c.opid] # Nil
    BY <1>2, <2>2 DEF Decide, ClassifyDedup, TxCheck
  <2>4. tx[p][c.opid] \in TxEntry
    BY <1>1, <2>1, <2>3 DEF Memory, TxIndexes
  <2> QED BY <2>3, <2>4 DEF DedupSeq, TxEntry
<1>5. Answers'
  BY <1>1, <1>2, <1>4 DEF Answers, Frames
<1>6. Memory' /\ Confined(p)
  BY <1>1, <1>2, <1>3 DEF Memory, Confined
<1>7. Local(p, pc'[p], seen'[p], cursor'[p], index'[p], tx'[p], job'[p],
            holder', current', onDisk', files')
  BY <1>1, <1>2, <1>3
<1> QED BY <1>3, <1>5, <1>6, <1>7, Together

(* The frame goes after the published prefix. *)
LEMMA WriteFrameInv ==
    ASSUME IInv, NEW p \in Procs, WriteFrame(p)
    PROVE  IInv'
<1>1. /\ Disk /\ Memory /\ Answers
      /\ Local(p, pc[p], seen[p], cursor[p], index[p], tx[p], job[p],
               holder, current, onDisk, files)
  BY Standing
<1> DEFINE man == cursor[p]
           fr == Frame(job[p], man)
           whole == Append(Prefix(man), fr)
<1>2. /\ Step(p, "planned", "written") /\ pc[p] = "planned"
      /\ UNCHANGED <<current, onDisk, stored, objects, unsynced>> /\ UNCHANGED ackVars
      /\ UNCHANGED <<holder, seen, memVars>>
  BY DEF WriteFrame, Step
<1>3. /\ Knows(man, index[p], tx[p]) /\ holder = p /\ job[p] \in Commands
      /\ Decide(index[p], tx[p], job[p]) = "APPLIED" /\ ReadSeq(man) < MaxLog
      /\ files[ActiveId(man)].tail = Prefix(man)
  BY <1>1, <1>2 DEF Local, Held, Serving, Committing
<1>4. Good(man) /\ fr \in Frames
  <2> DEFINE ix == index[p]
             t == tx[p]
             c == job[p]
             m == cursor[p]
  <2>1. /\ Knows(m, ix, t) /\ c \in Commands /\ Decide(ix, t, c) = "APPLIED"
        /\ ReadSeq(m) < MaxLog
    BY <1>3
  <2> HIDE DEF ix, t, c, m
  <2>2. Good(m) /\ Frame(c, m) \in Frames
    BY <2>1, KnowsGood, BatchKnown
  <2> QED BY <2>2 DEF c, m
<1>5. ActiveId(man) \in SegmentIds /\ Prefix(man) \in Seq(Frames)
  BY <1>4, ActiveOf
<1>6. whole \in Seq(TailItem)
  <2>1. whole \in Seq(Frames)
    BY <1>4, <1>5, AppendProperties
  <2>2. \A x \in Seq(Frames) : x \in Seq(TailItem)
    BY DEF TailItem
  <2> QED BY <2>1, <2>2
<1>7. files' = WithTail(files, ActiveId(man), whole)
  <2>1. files' = [files EXCEPT ![ActiveId(man)].tail = Append(@, fr)]
    BY DEF WriteFrame, NewFrame, Frame
  <2> HIDE DEF fr, man
  <2> QED BY <1>3, <2>1 DEF WithTail
<1>8. AllFiles(files') /\ files'[ActiveId(man)].tail = whole
  <2> DEFINE id == ActiveId(man)
  <2>1. AllFiles(files) /\ id \in SegmentIds
    BY <1>1, <1>5 DEF Disk
  <2> HIDE DEF id, whole
  <2> QED BY <1>6, <1>7, <2>1, TailSet DEF id
<1>9. Disk' /\ Answers'
  BY <1>1, <1>2, <1>8, AnswersKeep DEF Disk
<1>10. /\ Memory' /\ Confined(p) /\ pc'[p] = "written"
       /\ UNCHANGED <<seen, cursor, index, tx, job, holder>>
  <2>1. "written" \in Steps
    BY DEF Steps
  <2> QED BY <1>1, <1>2, <1>3, <2>1, StepKeeps
<1>11. Local(p, "written", seen[p], man, index[p], tx[p], job[p], holder, current, onDisk, files')
  BY <1>1, <1>2, <1>8
     DEF Local, Held, Serving, Committing, Written, Rotating, Swapped, RotationSwapped
<1>12. Local(p, pc'[p], seen'[p], cursor'[p], index'[p], tx'[p], job'[p],
             holder', current', onDisk', files')
  BY <1>2, <1>10, <1>11
<1> QED BY <1>9, <1>10, <1>12, Together

LEMMA SyncFrameInv ==
    ASSUME IInv, NEW p \in Procs, SyncFrame(p)
    PROVE  IInv'
<1>1. /\ Disk /\ Memory /\ Answers
      /\ Local(p, pc[p], seen[p], cursor[p], index[p], tx[p], job[p],
               holder, current, onDisk, files)
  BY Standing
<1> DEFINE id == ActiveId(cursor[p])
<1>2. /\ Step(p, "written", "synced") /\ pc[p] = "written"
      /\ stored' = [stored EXCEPT ![id] = files[id]]
      /\ UNCHANGED <<current, onDisk, files, objects, unsynced>> /\ UNCHANGED ackVars
      /\ UNCHANGED <<holder, seen, memVars>>
  BY DEF SyncFrame, Step
<1>3. id \in SegmentIds
  <2>1. Knows(cursor[p], index[p], tx[p])
    BY <1>1, <1>2 DEF Local, Serving, Committing, Written
  <2> QED BY <2>1, KnowsGood, ActiveOf
<1> HIDE DEF id
<1>4. AllFiles(stored')
  <2>1. IsFile(files[id])
    BY <1>1, <1>3 DEF Disk, AllFiles
  <2> QED BY <1>1, <1>2, <1>3, <2>1, FileSet DEF Disk
<1>5. Disk' /\ Answers'
  BY <1>1, <1>2, <1>4, AnswersKeep DEF Disk
<1>6. /\ Memory' /\ Confined(p) /\ pc'[p] = "synced"
      /\ UNCHANGED <<seen, cursor, index, tx, job, holder>>
  <2>1. "synced" \in Steps
    BY DEF Steps
  <2> QED BY <1>1, <1>2, <2>1, StepKeeps
<1>7. Local(p, "synced", seen[p], cursor[p], index[p], tx[p], job[p],
            holder, current, onDisk, files)
  BY <1>1, <1>2
     DEF Local, Held, Serving, Committing, Written, Rotating, Swapped, RotationSwapped
<1>8. Local(p, pc'[p], seen'[p], cursor'[p], index'[p], tx'[p], job'[p],
            holder', current', onDisk', files')
  BY <1>2, <1>6, <1>7
<1> QED BY <1>5, <1>6, <1>8, Together

(* The object store takes a publication or a sealed segment. *)
LEMMA PutKeeps ==
    ASSUME IInv, NEW p \in Procs, NEW o, IsPublication(o) \/ IsSealed(o),
           NEW linked \in Steps, NEW done \in Steps, PutObject(p, o, linked, done)
    PROVE  /\ Disk' /\ Answers' /\ Memory' /\ Confined(p)
           /\ pc'[p] \in {linked, done}
           /\ UNCHANGED <<seen, cursor, index, tx, job, holder, current, onDisk, files>>
<1>1. Disk /\ Memory /\ Answers
  BY Standing
<1>2. /\ UNCHANGED <<current, onDisk, files, stored>> /\ UNCHANGED <<holder, seen, memVars>>
      /\ UNCHANGED ackVars
  BY DEF PutObject
<1>3. PICK to \in {linked, done} : Step(p, pc[p], to)
  BY DEF PutObject
<1>4. /\ Memory' /\ Confined(p) /\ pc'[p] = to
      /\ UNCHANGED <<seen, cursor, index, tx, job, holder>>
  <2>1. to \in Steps
    BY <1>3
  <2> QED BY <1>1, <1>2, <1>3, <2>1, StepKeeps
<1>5. AllObjects(objects') /\ unsynced' \subseteq objects'
  <2>1. \/ objects' = objects /\ unsynced' = unsynced
        \/ objects' = objects \cup {o} /\ unsynced' = unsynced \cup {o}
    BY DEF PutObject
  <2>2. AllObjects(objects) /\ unsynced \subseteq objects
    BY <1>1 DEF Disk
  <2> QED BY <2>1, <2>2 DEF AllObjects
<1>6. Disk' /\ Answers'
  BY <1>1, <1>2, <1>5, AnswersKeep DEF Disk
<1> QED BY <1>2, <1>4, <1>6

(* A process that commits a command: its batch is good, and what it will know of it. *)
LEMMA CommittingParts ==
    ASSUME IInv, NEW p \in Procs, pc[p] \in Committing
    PROVE  /\ Knows(cursor[p], index[p], tx[p]) /\ Good(cursor[p])
           /\ NewFrame(p) = Frame(job[p], cursor[p]) /\ NewFrame(p) \in Frames
           /\ job[p] \in Commands
           /\ BatchCandidate(p) = Batch(cursor[p], NewFrame(p))
           /\ Knows(BatchCandidate(p), ApplyIndex(index[p], job[p]),
                    RecordTx(tx[p], job[p], NewFrame(p).seq))
           /\ Good(BatchCandidate(p))
           /\ Log(BatchCandidate(p)) = Append(Log(cursor[p]), NewFrame(p))
           /\ \A k \in DOMAIN Log(cursor[p]) : Log(cursor[p])[k].cmd.opid # job[p].opid
           /\ ActiveId(BatchCandidate(p)) = ActiveId(cursor[p])
           /\ Prefix(BatchCandidate(p)) = Append(Prefix(cursor[p]), NewFrame(p))
<1> DEFINE ix == index[p]
           t == tx[p]
           c == job[p]
           m == cursor[p]
           fr == NewFrame(p)
           b == BatchCandidate(p)
<1>1. /\ Knows(m, ix, t) /\ c \in Commands /\ Decide(ix, t, c) = "APPLIED"
      /\ ReadSeq(m) < MaxLog
  <2>1. Local(p, pc[p], seen[p], m, ix, t, c, holder, current, onDisk, files)
    BY Standing
  <2> HIDE DEF m, ix, t, c
  <2> QED BY <2>1 DEF Local, Serving
<1>2. fr = Frame(c, m) /\ fr.seq = ReadSeq(m) + 1 /\ b = Batch(m, fr)
  BY DEF NewFrame, Frame, BatchCandidate, Batch
<1> HIDE DEF ix, t, c, m, fr, b
<1>3. /\ Frame(c, m) \in Frames
      /\ Knows(Batch(m, Frame(c, m)), ApplyIndex(ix, c), RecordTx(t, c, ReadSeq(m) + 1))
      /\ Log(Batch(m, Frame(c, m))) = Append(Log(m), Frame(c, m))
      /\ \A k \in DOMAIN Log(m) : Log(m)[k].cmd.opid # c.opid
  BY <1>1, BatchKnown
<1>4. Good(m) /\ Good(b) /\ Knows(b, ApplyIndex(ix, c), RecordTx(t, c, fr.seq))
  BY <1>1, <1>2, <1>3, KnowsGood
<1>5. ActiveId(b) = ActiveId(m) /\ Prefix(b) = Append(Prefix(m), fr)
  BY <1>2, <1>3, <1>4, BatchActive
<1>6. Log(b) = Append(Log(m), fr) /\ fr \in Frames
      /\ \A k \in DOMAIN Log(m) : Log(m)[k].cmd.opid # c.opid
  BY <1>2, <1>3
<1> QED BY <1>1, <1>2, <1>4, <1>5, <1>6 DEF ix, t, c, m, fr, b

LEMMA PutBatchInv ==
    ASSUME IInv, NEW p \in Procs, PutBatch(p)
    PROVE  IInv'
<1>1. Local(p, pc[p], seen[p], cursor[p], index[p], tx[p], job[p],
            holder, current, onDisk, files)
  BY Standing
<1>2. /\ pc[p] = "synced"
      /\ PutObject(p, Publication(BatchCandidate(p)), "record_linked", "recorded")
  BY DEF PutBatch
<1>3. Good(BatchCandidate(p))
  BY <1>2, CommittingParts DEF Committing, Written
<1>4. IsPublication(Publication(BatchCandidate(p)))
  BY <1>3 DEF IsPublication
<1>5. /\ Disk' /\ Answers' /\ Memory' /\ Confined(p)
      /\ pc'[p] \in {"record_linked", "recorded"}
      /\ UNCHANGED <<seen, cursor, index, tx, job, holder, current, onDisk, files>>
  <2>1. "record_linked" \in Steps /\ "recorded" \in Steps
    BY DEF Steps
  <2> QED BY <1>2, <1>4, <2>1, PutKeeps
<1>6. ASSUME NEW to \in {"record_linked", "recorded"}
      PROVE  Local(p, to, seen[p], cursor[p], index[p], tx[p], job[p],
                   holder, current, onDisk, files)
  BY <1>1, <1>2
     DEF Local, Held, Serving, Committing, Written, Rotating, Swapped, RotationSwapped
<1>7. Local(p, pc'[p], seen'[p], cursor'[p], index'[p], tx'[p], job'[p],
            holder', current', onDisk', files')
  BY <1>5, <1>6
<1> QED BY <1>5, <1>7, Together

LEMMA SyncObjectsInv ==
    ASSUME IInv, NEW p \in Procs, SyncObjects(p)
    PROVE  IInv'
<1>1. /\ Disk /\ Memory /\ Answers
      /\ Local(p, pc[p], seen[p], cursor[p], index[p], tx[p], job[p],
               holder, current, onDisk, files)
  BY Standing
<1>2. /\ unsynced' = {}
      /\ UNCHANGED <<current, onDisk, files, stored, objects>> /\ UNCHANGED ackVars
      /\ UNCHANGED <<holder, seen, memVars>>
  BY DEF SyncObjects
<1>3. PICK from, to : /\ Step(p, from, to) /\ pc[p] = from
                      /\ \/ from = "record_linked" /\ to = "recorded"
                         \/ from = "sealed_linked" /\ to = "sealed_published"
                         \/ from = "rotation_linked" /\ to = "rotation_recorded"
  BY DEF SyncObjects, Step
<1>4. Disk' /\ Answers'
  BY <1>1, <1>2, AnswersKeep DEF Disk
<1>5. /\ Memory' /\ Confined(p) /\ pc'[p] = to
      /\ UNCHANGED <<seen, cursor, index, tx, job, holder>>
  <2>1. to \in Steps
    BY <1>3 DEF Steps
  <2> QED BY <1>1, <1>2, <1>3, <2>1, StepKeeps
<1>6. Local(p, to, seen[p], cursor[p], index[p], tx[p], job[p], holder, current, onDisk, files)
  BY <1>1, <1>3
     DEF Local, Held, Serving, Committing, Written, Rotating, Swapped, RotationSwapped
<1>7. Local(p, pc'[p], seen'[p], cursor'[p], index'[p], tx'[p], job'[p],
            holder', current', onDisk', files')
  BY <1>2, <1>5, <1>6
<1> QED BY <1>4, <1>5, <1>7, Together

LEMMA ReplaceCurrentInv ==
    ASSUME IInv, NEW p \in Procs, ReplaceCurrent(p)
    PROVE  IInv'
<1>1. /\ Disk /\ Memory /\ Answers
      /\ Local(p, pc[p], seen[p], cursor[p], index[p], tx[p], job[p],
               holder, current, onDisk, files)
  BY Standing
<1>2. /\ Step(p, "recorded", "replaced") /\ pc[p] = "recorded"
      /\ current' = BatchCandidate(p)
      /\ UNCHANGED <<onDisk, diskVars>> /\ UNCHANGED ackVars
      /\ UNCHANGED <<holder, seen, memVars>>
  BY DEF ReplaceCurrent, Step
<1>3. /\ Good(BatchCandidate(p))
      /\ BatchCandidate(p) = Batch(cursor[p], Frame(job[p], cursor[p]))
  BY <1>2, CommittingParts DEF Committing, Written
<1>4. Disk' /\ Answers' /\ UNCHANGED <<onDisk, files>>
  BY <1>1, <1>2, <1>3, AnswersKeep DEF Disk, diskVars
<1>5. holder = p
  BY <1>1, <1>2 DEF Local, Held, Serving, Committing, Written
<1>6. /\ Memory' /\ Confined(p) /\ pc'[p] = "replaced"
      /\ UNCHANGED <<seen, cursor, index, tx, job, holder>>
  <2>1. "replaced" \in Steps
    BY DEF Steps
  <2> QED BY <1>1, <1>2, <1>5, <2>1, StepKeeps
<1>7. Local(p, "replaced", seen[p], cursor[p], index[p], tx[p], job[p],
            holder, current', onDisk, files)
  BY <1>1, <1>2, <1>3
     DEF Local, Held, Serving, Committing, Written, Rotating, Swapped, RotationSwapped
<1>8. Local(p, pc'[p], seen'[p], cursor'[p], index'[p], tx'[p], job'[p],
            holder', current', onDisk', files')
  BY <1>4, <1>6, <1>7
<1> QED BY <1>4, <1>6, <1>8, Together

LEMMA SyncCurrentInv ==
    ASSUME IInv, NEW p \in Procs, SyncCurrent(p)
    PROVE  IInv'
<1>1. /\ Disk /\ Memory /\ Answers
      /\ Local(p, pc[p], seen[p], cursor[p], index[p], tx[p], job[p],
               holder, current, onDisk, files)
  BY Standing
<1>2. /\ onDisk' = current
      /\ UNCHANGED <<current, diskVars>> /\ UNCHANGED ackVars
      /\ UNCHANGED <<holder, seen, memVars>>
  BY DEF SyncCurrent, CurrentSynced
<1>3. PICK from, to : /\ Step(p, from, to) /\ pc[p] = from
                      /\ \/ from = "replaced" /\ to = "published"
                         \/ from = "rotation_replaced" /\ to = "rotation_published"
  BY DEF SyncCurrent, Step
<1>4. Disk' /\ Answers' /\ UNCHANGED files
  BY <1>1, <1>2, AnswersKeep DEF Disk, diskVars
<1>5. holder = p
  BY <1>1, <1>3 DEF Local, Held, Serving, Committing, Written, Rotating
<1>6. /\ Memory' /\ Confined(p) /\ pc'[p] = to
      /\ UNCHANGED <<seen, cursor, index, tx, job, holder>>
  <2>1. to \in Steps
    BY <1>3 DEF Steps
  <2> QED BY <1>1, <1>2, <1>3, <1>5, <2>1, StepKeeps
<1>7. Local(p, to, seen[p], cursor[p], index[p], tx[p], job[p], holder, current, current, files)
  BY <1>1, <1>3
     DEF Local, Held, Serving, Committing, Written, Rotating, Swapped, RotationSwapped
<1>8. Local(p, pc'[p], seen'[p], cursor'[p], index'[p], tx'[p], job'[p],
            holder', current', onDisk', files')
  BY <1>2, <1>4, <1>6, <1>7
<1> QED BY <1>4, <1>6, <1>8, Together

(* The writer swaps in what it published, and remembers the command. *)
LEMMA AnswerInv ==
    ASSUME IInv, NEW p \in Procs, Answer(p)
    PROVE  IInv'
<1>1. /\ Disk /\ Memory /\ Answers
      /\ Local(p, pc[p], seen[p], cursor[p], index[p], tx[p], job[p],
               holder, current, onDisk, files)
  BY Standing
<1> DEFINE ix == ApplyIndex(index[p], job[p])
           t == RecordTx(tx[p], job[p], NewFrame(p).seq)
<1>2. /\ pc[p] = "published" /\ pc' = [pc EXCEPT ![p] = "serving"]
      /\ cursor' = [cursor EXCEPT ![p] = current]
      /\ index' = [index EXCEPT ![p] = ix] /\ tx' = [tx EXCEPT ![p] = t]
      /\ job' = [job EXCEPT ![p] = Nil]
      /\ applied' = applied \cup {NewFrame(p)} /\ UNCHANGED replayed
      /\ UNCHANGED <<current, onDisk, diskVars>> /\ UNCHANGED <<holder, seen>>
  <2>1. /\ pc[p] = "published" /\ pc' = [pc EXCEPT ![p] = "serving"]
        /\ cursor' = [cursor EXCEPT ![p] = current]
        /\ job' = [job EXCEPT ![p] = Nil]
        /\ applied' = applied \cup {NewFrame(p)} /\ UNCHANGED replayed
        /\ UNCHANGED <<current, onDisk, diskVars>> /\ UNCHANGED <<holder, seen>>
    BY DEF Answer, Step
  <2>2. index' = [index EXCEPT ![p] = ix] /\ tx' = [tx EXCEPT ![p] = t]
    BY DEF Answer
  <2> QED BY <2>1, <2>2
<1> HIDE DEF ix, t
<1>3. /\ NewFrame(p) = Frame(job[p], cursor[p]) /\ NewFrame(p) \in Frames
      /\ Knows(BatchCandidate(p), ix, t)
      /\ BatchCandidate(p) = Batch(cursor[p], NewFrame(p))
      /\ ActiveId(BatchCandidate(p)) = ActiveId(cursor[p])
      /\ Prefix(BatchCandidate(p)) = Append(Prefix(cursor[p]), NewFrame(p))
  <2>1. pc[p] \in Committing
    BY <1>2 DEF Committing, Written
  <2> QED BY <2>1, CommittingParts DEF ix, t
<1>4. /\ current = BatchCandidate(p) /\ holder = p
      /\ files[ActiveId(current)].tail = Prefix(current)
  BY <1>1, <1>2, <1>3 DEF Local, Held, Serving, Committing, Written, Swapped
<1>5. Disk' /\ UNCHANGED <<current, onDisk, files>>
  BY <1>1, <1>2, DiskKeeps
<1>6. Answers'
  BY <1>1, <1>2, <1>3 DEF Answers
<1>7. ix \in Indexes /\ t \in TxIndexes
  BY <1>3, KnowsTypes
<1>8. /\ pc' \in [Procs -> Steps] /\ pc'[p] = "serving"
      /\ \A q \in Procs : q # p => pc'[q] = pc[q]
  BY <1>1, <1>2 DEF Memory, Steps
<1>9. /\ DOMAIN cursor' = Procs /\ cursor'[p] = current
      /\ job' \in [Procs -> Commands \cup {Nil}] /\ job'[p] = Nil
      /\ \A q \in Procs : q # p => cursor'[q] = cursor[q] /\ job'[q] = job[q]
  BY <1>1, <1>2 DEF Memory
<1>10. /\ index' \in [Procs -> Indexes] /\ tx' \in [Procs -> TxIndexes]
       /\ index'[p] = ix /\ tx'[p] = t
       /\ \A q \in Procs : q # p => index'[q] = index[q] /\ tx'[q] = tx[q]
  BY <1>1, <1>2, <1>7 DEF Memory
<1>11. Memory' /\ Confined(p)
  BY <1>1, <1>2, <1>4, <1>8, <1>9, <1>10 DEF Memory, Confined
<1>12. Local(p, "serving", seen[p], current, ix, t, Nil, holder, current, onDisk, files)
  BY <1>1, <1>2, <1>3, <1>4
     DEF Local, Held, Serving, Committing, Written, Rotating, Swapped, RotationSwapped
<1>13. Local(p, pc'[p], seen'[p], cursor'[p], index'[p], tx'[p], job'[p],
             holder', current', onDisk', files')
  BY <1>2, <1>5, <1>8, <1>9, <1>10, <1>12
<1> QED BY <1>5, <1>6, <1>11, <1>13, Together

-----------------------------------------------------------------------------
(* Rotation keeps the invariant. *)

(* A process that rotates: the manifest it will publish has the same frames. *)
LEMMA RotatingParts ==
    ASSUME IInv, NEW p \in Procs, pc[p] \in Rotating
    PROVE  /\ Knows(cursor[p], index[p], tx[p]) /\ Good(cursor[p]) /\ holder = p
           /\ ActiveId(cursor[p]) \in SegmentIds
           /\ NextId(p) \in SegmentIds /\ NextId(p) # ActiveId(cursor[p])
           /\ Prefix(cursor[p]) \in Seq(Frames)
           /\ IsSealed(SealedSegment(p))
           /\ RotationCandidate(p) = Rotated(cursor[p])
           /\ Knows(RotationCandidate(p), index[p], tx[p]) /\ Good(RotationCandidate(p))
           /\ Log(RotationCandidate(p)) = Log(cursor[p])
           /\ ActiveId(RotationCandidate(p)) = NextId(p)
           /\ Prefix(RotationCandidate(p)) = <<>>
<1> DEFINE m == cursor[p]
           ix == index[p]
           t == tx[p]
<1>1. /\ Knows(m, ix, t) /\ holder = p /\ Prefix(m) # <<>> /\ ActiveId(m) + 1 \in SegmentIds
  <2>1. Local(p, pc[p], seen[p], m, ix, t, job[p], holder, current, onDisk, files)
    BY Standing
  <2> HIDE DEF m, ix, t
  <2> QED BY <2>1 DEF Local, Held, Serving
<1>2. /\ NextId(p) = ActiveId(m) + 1 /\ SealedSegment(p) = Sealed(m)
      /\ RotationCandidate(p) = Rotated(m)
  BY DEF NextId, SealedSegment, Sealed, RotationCandidate, Rotated, NextHeader
<1> HIDE DEF m, ix, t
<1>3. Good(m)
  BY <1>1, KnowsGood
<1>4. /\ ActiveId(m) \in SegmentIds /\ ActiveId(m) \in Nat /\ Prefix(m) \in Seq(Frames)
      /\ Active(m).header.first \in Nat /\ ActiveId(m) = Len(m)
  BY <1>3, ActiveOf
<1>5. Knows(Rotated(m), ix, t) /\ Log(Rotated(m)) = Log(m) /\ Good(Rotated(m))
  BY <1>1, RotationKnown, KnowsGood
<1>6. PICK w, ends : Manifest(m, w, ends)
  BY <1>3 DEF Good
<1>7. /\ IsSegment(Sealed(m)) /\ Sealed(m).header.id = Len(m)
      /\ Sealed(m).header = Active(m).header /\ Sealed(m).status = "SEALED"
      /\ Active(Rotated(m)) = Segment(Header(ActiveId(m) + 1, ReadSeq(m) + 1, Sealed(m)),
                                      "ACTIVE", <<>>)
  BY <1>1, <1>6, RotationManifest
<1>8. IsSealed(Sealed(m))
  BY <1>4, <1>7 DEF IsSealed
<1>9. ActiveId(Rotated(m)) = ActiveId(m) + 1 /\ Prefix(Rotated(m)) = <<>>
  BY <1>7 DEF ActiveId, Prefix, Segment, Header
<1>10. ActiveId(m) + 1 # ActiveId(m)
  BY <1>4
<1> QED BY <1>1, <1>2, <1>3, <1>4, <1>5, <1>8, <1>9, <1>10 DEF m, ix, t

LEMMA BeginRotationInv ==
    ASSUME IInv, NEW p \in Procs, BeginRotation(p)
    PROVE  IInv'
<1>1. /\ Disk /\ Memory /\ Answers
      /\ Local(p, pc[p], seen[p], cursor[p], index[p], tx[p], job[p],
               holder, current, onDisk, files)
  BY Standing
<1>2. /\ Step(p, "serving", "fenced") /\ pc[p] = "serving"
      /\ Prefix(cursor[p]) # <<>> /\ ActiveId(cursor[p]) + 1 \in SegmentIds
      /\ UNCHANGED <<current, onDisk, diskVars>> /\ UNCHANGED ackVars
      /\ UNCHANGED <<holder, seen, memVars>>
  BY DEF BeginRotation, Step, NextId
<1>3. Disk' /\ UNCHANGED <<current, onDisk, files>> /\ Answers'
  BY <1>1, <1>2, DiskKeeps, AnswersKeep
<1>4. /\ Memory' /\ Confined(p) /\ pc'[p] = "fenced"
      /\ UNCHANGED <<seen, cursor, index, tx, job, holder>>
  <2>1. "fenced" \in Steps
    BY DEF Steps
  <2> QED BY <1>1, <1>2, <1>3, <2>1, StepKeeps
<1>5. Local(p, "fenced", seen[p], cursor[p], index[p], tx[p], job[p],
            holder, current, onDisk, files)
  BY <1>1, <1>2
     DEF Local, Held, Serving, Committing, Written, Rotating, Swapped, RotationSwapped
<1>6. Local(p, pc'[p], seen'[p], cursor'[p], index'[p], tx'[p], job'[p],
            holder', current', onDisk', files')
  BY <1>3, <1>4, <1>5
<1> QED BY <1>3, <1>4, <1>6, Together

(* While it rotates, a process only goes from one step of the rotation to the next until  *)
(* CURRENT is replaced.                                                                       *)
LEMMA RotatingKeeps ==
    ASSUME IInv, NEW p \in Procs, pc[p] \in Rotating \ RotationSwapped,
           NEW to \in Rotating \ RotationSwapped, Step(p, pc[p], to),
           UNCHANGED <<current, onDisk>>, UNCHANGED <<holder, seen, memVars>>, Disk', Answers'
    PROVE  IInv'
<1>1. /\ Memory
      /\ Local(p, pc[p], seen[p], cursor[p], index[p], tx[p], job[p],
               holder, current, onDisk, files)
  BY Standing
<1>2. holder = p
  BY RotatingParts
<1>3. /\ Memory' /\ Confined(p) /\ pc'[p] = to
      /\ UNCHANGED <<seen, cursor, index, tx, job, holder>>
  <2>1. to \in Steps
    BY DEF Steps, Rotating
  <2> QED BY <1>1, <1>2, <2>1, StepKeeps
<1>4. Local(p, to, seen[p], cursor[p], index[p], tx[p], job[p], holder, current, onDisk, files')
  BY <1>1
     DEF Local, Held, Serving, Committing, Written, Rotating, Swapped, RotationSwapped
<1>5. Local(p, pc'[p], seen'[p], cursor'[p], index'[p], tx'[p], job'[p],
            holder', current', onDisk', files')
  BY <1>3, <1>4
<1> QED BY <1>3, <1>5, Together

(* A footer may follow what was published. *)
LEMMA FooterTail ==
    ASSUME NEW fr \in Seq(Frames)
    PROVE  Append(fr, Footer) \in Seq(TailItem) /\ Append(fr, TornFooter) \in Seq(TailItem)
<1>1. fr \in Seq(TailItem)
  BY DEF TailItem
<1>2. Footer \in TailItem /\ TornFooter \in TailItem
  BY DEF TailItem
<1> HIDE DEF Footer, TornFooter
<1> QED BY <1>1, <1>2, AppendProperties

LEMMA SealWriteInv ==
    ASSUME IInv, NEW p \in Procs, SealWrite(p)
    PROVE  IInv'
<1>1. Disk /\ Answers
  BY Standing
<1> DEFINE id == ActiveId(cursor[p])
           whole == Append(Prefix(cursor[p]), Footer)
           torn == Append(Prefix(cursor[p]), TornFooter)
<1>2. PICK to \in {"sealed", "sealing"}, v \in {whole, torn} :
        /\ Step(p, "fenced", to) /\ pc[p] = "fenced" /\ files' = WithTail(files, id, v)
        /\ UNCHANGED <<current, onDisk, stored, objects, unsynced>> /\ UNCHANGED ackVars
        /\ UNCHANGED <<holder, seen, memVars>>
  <2>1. CASE FileTail(cursor[p]) = whole
    BY <2>1 DEF SealWrite, Step, WithTail
  <2>2. CASE FileTail(cursor[p]) # whole
    BY <2>2 DEF SealWrite, Step, WithTail
  <2> QED BY <2>1, <2>2
<1>3. id \in SegmentIds /\ Prefix(cursor[p]) \in Seq(Frames)
  BY <1>2, RotatingParts DEF Rotating
<1>4. v \in Seq(TailItem)
  BY <1>3, FooterTail
<1> HIDE DEF id, whole, torn
<1>5. AllFiles(files')
  BY <1>1, <1>2, <1>3, <1>4, TailSet DEF Disk
<1>6. Disk' /\ Answers'
  BY <1>1, <1>2, <1>5, AnswersKeep DEF Disk
<1>7. pc[p] \in Rotating \ RotationSwapped /\ to \in Rotating \ RotationSwapped
  BY <1>2 DEF Rotating, RotationSwapped
<1> QED BY <1>2, <1>6, <1>7, RotatingKeeps

LEMMA SealSyncInv ==
    ASSUME IInv, NEW p \in Procs, SealSync(p)
    PROVE  IInv'
<1>1. Disk /\ Answers
  BY Standing
<1> DEFINE id == ActiveId(cursor[p])
           whole == Append(Prefix(cursor[p]), Footer)
<1>2. /\ Step(p, "sealing", "sealed") /\ pc[p] = "sealing"
      /\ files' = WithTail(files, id, whole)
      /\ stored' = [stored EXCEPT ![id] = WithTail(files, id, whole)[id]]
      /\ UNCHANGED <<current, onDisk, objects, unsynced>> /\ UNCHANGED ackVars
      /\ UNCHANGED <<holder, seen, memVars>>
  BY DEF SealSync, Step, WithTail
<1>3. id \in SegmentIds /\ Prefix(cursor[p]) \in Seq(Frames)
  BY <1>2, RotatingParts DEF Rotating
<1>4. whole \in Seq(TailItem)
  BY <1>3, FooterTail
<1> HIDE DEF id, whole
<1>5. AllFiles(files')
  BY <1>1, <1>2, <1>3, <1>4, TailSet DEF Disk
<1>6. AllFiles(stored')
  <2>1. IsFile(WithTail(files, id, whole)[id])
    BY <1>2, <1>3, <1>5 DEF AllFiles
  <2>2. stored' = [stored EXCEPT ![id] = WithTail(files, id, whole)[id]] /\ AllFiles(stored)
    BY <1>1, <1>2 DEF Disk
  <2> QED BY <1>3, <2>1, <2>2, FileSet
<1>7. Disk' /\ Answers'
  BY <1>1, <1>2, <1>5, <1>6, AnswersKeep DEF Disk
<1>8. pc[p] \in Rotating \ RotationSwapped /\ "sealed" \in Rotating \ RotationSwapped
  BY <1>2 DEF Rotating, RotationSwapped
<1> QED BY <1>2, <1>7, <1>8, RotatingKeeps

(* The next ACTIVE: its file is created, its header written and synced, or found as it is. *)
LEMMA NextFileInv ==
    ASSUME IInv, NEW p \in Procs,
           CreateNext(p) \/ WriteHeader(p) \/ SyncHeader(p) \/ NextExists(p)
    PROVE  IInv'
<1>1. Disk /\ Answers
  BY Standing
<1> DEFINE id == NextId(p)
<1>2. PICK from, to :
        /\ Step(p, from, to) /\ pc[p] = from
        /\ from \in {"sealed_published", "creating", "header_written"}
        /\ to \in {"creating", "header_written", "prepared"}
  BY DEF CreateNext, WriteHeader, SyncHeader, NextExists, Step
<1>3. /\ UNCHANGED <<current, onDisk, objects, unsynced>> /\ UNCHANGED ackVars
      /\ UNCHANGED <<holder, seen, memVars>>
  BY DEF CreateNext, WriteHeader, SyncHeader, NextExists, diskVars
<1>4. /\ \/ files' = files \/ files' = [files EXCEPT ![id] = PartialFile]
         \/ files' = [files EXCEPT ![id] = NextFile(p)]
      /\ stored' = stored \/ stored' = [stored EXCEPT ![id] = files[id]]
  BY DEF CreateNext, WriteHeader, SyncHeader, NextExists, diskVars
<1>5. id \in SegmentIds
  BY <1>2, RotatingParts DEF Rotating
<1>6. IsFile(PartialFile) /\ IsFile(NextFile(p))
  BY NewFiles DEF PartialFile, NextFile
<1> HIDE DEF id
<1>7. AllFiles(files) /\ AllFiles(stored)
  BY <1>1 DEF Disk
<1>8. AllFiles(files')
  BY <1>4, <1>5, <1>6, <1>7, FileSet
<1>9. AllFiles(stored')
  <2>1. IsFile(files[id])
    BY <1>5, <1>7 DEF AllFiles
  <2> QED BY <1>4, <1>5, <1>7, <2>1, FileSet
<1>10. Disk' /\ Answers'
  BY <1>1, <1>3, <1>8, <1>9, AnswersKeep DEF Disk
<1>11. pc[p] \in Rotating \ RotationSwapped /\ to \in Rotating \ RotationSwapped
  BY <1>2 DEF Rotating, RotationSwapped
<1> QED BY <1>2, <1>3, <1>10, <1>11, RotatingKeeps

LEMMA WriteHeaderFailsInv ==
    ASSUME IInv, NEW p \in Procs, WriteHeaderFails(p)
    PROVE  IInv'
<1>1. Disk
  BY Standing
<1>2. /\ pc[p] \in {"creating", "header_written"} /\ Forget(p)
      /\ files' = [files EXCEPT ![NextId(p)] = NoFile]
      /\ UNCHANGED <<current, onDisk, stored, objects, unsynced>> /\ UNCHANGED ackVars
  BY DEF WriteHeaderFails
<1>3. NextId(p) \in SegmentIds /\ holder = p
  BY <1>2, RotatingParts DEF Rotating
<1>4. AllFiles(files')
  BY <1>1, <1>2, <1>3, NewFiles, FileSet DEF Disk
<1>5. Disk'
  BY <1>1, <1>2, <1>4 DEF Disk
<1> QED BY <1>2, <1>3, <1>5, ForgetKeeps

(* The sealed segment and the rotation's publication go to the object store. *)
LEMMA PutRotatingInv ==
    ASSUME IInv, NEW p \in Procs, PublishSealed(p) \/ PutRotation(p)
    PROVE  IInv'
<1>1. Local(p, pc[p], seen[p], cursor[p], index[p], tx[p], job[p],
            holder, current, onDisk, files)
  BY Standing
<1>2. PICK o, linked, done :
        /\ PutObject(p, o, linked, done)
        /\ \/ /\ pc[p] = "sealed" /\ o = SealedSegment(p)
              /\ linked = "sealed_linked" /\ done = "sealed_published"
           \/ /\ pc[p] = "prepared" /\ o = Publication(RotationCandidate(p))
              /\ linked = "rotation_linked" /\ done = "rotation_recorded"
  BY DEF PublishSealed, PutRotation
<1>3. IsPublication(o) \/ IsSealed(o)
  <2>1. IsSealed(SealedSegment(p)) /\ Good(RotationCandidate(p))
    BY <1>2, RotatingParts DEF Rotating
  <2> QED BY <1>2, <2>1 DEF IsPublication
<1>4. /\ Disk' /\ Answers' /\ Memory' /\ Confined(p) /\ pc'[p] \in {linked, done}
      /\ UNCHANGED <<seen, cursor, index, tx, job, holder, current, onDisk, files>>
  <2>1. linked \in Steps /\ done \in Steps
    BY <1>2 DEF Steps
  <2> QED BY <1>2, <1>3, <2>1, PutKeeps
<1>5. ASSUME NEW to \in {linked, done}
      PROVE  Local(p, to, seen[p], cursor[p], index[p], tx[p], job[p],
                   holder, current, onDisk, files)
  BY <1>1, <1>2
     DEF Local, Held, Serving, Committing, Written, Rotating, Swapped, RotationSwapped
<1>6. Local(p, pc'[p], seen'[p], cursor'[p], index'[p], tx'[p], job'[p],
            holder', current', onDisk', files')
  BY <1>4, <1>5
<1> QED BY <1>4, <1>6, Together

LEMMA ReplaceByRotationInv ==
    ASSUME IInv, NEW p \in Procs, ReplaceByRotation(p)
    PROVE  IInv'
<1>1. /\ Disk /\ Memory /\ Answers
      /\ Local(p, pc[p], seen[p], cursor[p], index[p], tx[p], job[p],
               holder, current, onDisk, files)
  BY Standing
<1>2. /\ Step(p, "rotation_recorded", "rotation_replaced") /\ pc[p] = "rotation_recorded"
      /\ current' = RotationCandidate(p)
      /\ UNCHANGED <<onDisk, diskVars>> /\ UNCHANGED ackVars
      /\ UNCHANGED <<holder, seen, memVars>>
  BY DEF ReplaceByRotation, Step
<1>3. Good(RotationCandidate(p)) /\ RotationCandidate(p) = Rotated(cursor[p]) /\ holder = p
  BY <1>2, RotatingParts DEF Rotating
<1>4. Disk' /\ Answers' /\ UNCHANGED <<onDisk, files>>
  BY <1>1, <1>2, <1>3, AnswersKeep DEF Disk, diskVars
<1>5. /\ Memory' /\ Confined(p) /\ pc'[p] = "rotation_replaced"
      /\ UNCHANGED <<seen, cursor, index, tx, job, holder>>
  <2>1. "rotation_replaced" \in Steps
    BY DEF Steps
  <2> QED BY <1>1, <1>2, <1>3, <2>1, StepKeeps
<1>6. Local(p, "rotation_replaced", seen[p], cursor[p], index[p], tx[p], job[p],
            holder, current', onDisk, files)
  BY <1>1, <1>2, <1>3
     DEF Local, Held, Serving, Committing, Written, Rotating, Swapped, RotationSwapped
<1>7. Local(p, pc'[p], seen'[p], cursor'[p], index'[p], tx'[p], job'[p],
            holder', current', onDisk', files')
  BY <1>4, <1>5, <1>6
<1> QED BY <1>4, <1>5, <1>7, Together

(* The writer goes on in the next ACTIVE, with the memory it had. *)
LEMMA ActivateInv ==
    ASSUME IInv, NEW p \in Procs, Activate(p)
    PROVE  IInv'
<1>1. /\ Disk /\ Memory /\ Answers
      /\ Local(p, pc[p], seen[p], cursor[p], index[p], tx[p], job[p],
               holder, current, onDisk, files)
  BY Standing
<1>2. /\ pc[p] = "rotation_published" /\ pc' = [pc EXCEPT ![p] = "serving"]
      /\ current = RotationCandidate(p) /\ files[NextId(p)] = NextFile(p)
      /\ cursor' = [cursor EXCEPT ![p] = current]
      /\ UNCHANGED <<current, onDisk, diskVars>> /\ UNCHANGED ackVars
      /\ UNCHANGED <<holder, seen, index, tx, job>>
  BY DEF Activate, Step
<1>3. /\ Knows(current, index[p], tx[p]) /\ holder = p
      /\ ActiveId(current) = NextId(p) /\ Prefix(current) = <<>>
  BY <1>2, RotatingParts DEF Rotating
<1>4. files[ActiveId(current)].tail = Prefix(current)
  BY <1>2, <1>3 DEF NextFile
<1>5. Disk' /\ UNCHANGED <<current, onDisk, files>> /\ Answers'
  BY <1>1, <1>2, DiskKeeps, AnswersKeep
<1>6. /\ pc' \in [Procs -> Steps] /\ pc'[p] = "serving" /\ DOMAIN cursor' = Procs
      /\ cursor'[p] = current
      /\ \A q \in Procs : q # p => pc'[q] = pc[q] /\ cursor'[q] = cursor[q]
  BY <1>1, <1>2 DEF Memory, Steps
<1>7. Memory' /\ Confined(p)
  BY <1>1, <1>2, <1>3, <1>6 DEF Memory, Confined
<1>8. Local(p, "serving", seen[p], current, index[p], tx[p], job[p],
            holder, current, onDisk, files)
  BY <1>1, <1>2, <1>3, <1>4
     DEF Local, Held, Serving, Committing, Written, Rotating, Swapped, RotationSwapped
<1>9. Local(p, pc'[p], seen'[p], cursor'[p], index'[p], tx'[p], job'[p],
            holder', current', onDisk', files')
  BY <1>2, <1>5, <1>6, <1>8
<1> QED BY <1>5, <1>7, <1>9, Together

-----------------------------------------------------------------------------
(* A power loss keeps the invariant. *)

(* What two contents of a file have in common has a length. *)
LEMMA CommonLengthType ==
    ASSUME NEW S, NEW s \in Seq(S), NEW t \in Seq(S)
    PROVE  /\ CommonLength(s, t) \in Nat
           /\ CommonLength(s, t) <= Len(s) /\ CommonLength(s, t) <= Len(t)
           /\ SubSeq(s, 1, CommonLength(s, t)) = SubSeq(t, 1, CommonLength(s, t))
           /\ CommonLength(s, t) < Len(s) /\ CommonLength(s, t) < Len(t) =>
                s[CommonLength(s, t) + 1] # t[CommonLength(s, t) + 1]
<1> DEFINE D == {k \in Nat : k >= Len(s) \/ k >= Len(t) \/ s[k + 1] # t[k + 1]}
           Common(n) == /\ n <= Len(t) /\ SubSeq(s, 1, n) = SubSeq(t, 1, n)
                        /\ n < Len(s) /\ n < Len(t) => s[n + 1] # t[n + 1]
<1>1. Len(s) \in Nat /\ Len(t) \in Nat
  OBVIOUS
<1>2. D \in SUBSET Nat /\ Len(s) \in D /\ Len(t) \in D
  BY <1>1
<1>3. PICK n \in D : \A k \in D : n <= k
  <2> HIDE DEF D
  <2>1. D # {}
    BY <1>2
  <2> QED BY <1>2, <2>1, LeastNat
<1>4. n \in Nat /\ n <= Len(s) /\ n <= Len(t)
  <2> HIDE DEF D
  <2> QED BY <1>2, <1>3
<1>5. SubSeq(s, 1, n) = SubSeq(t, 1, n)
  <2> DEFINE x == SubSeq(s, 1, n)
             y == SubSeq(t, 1, n)
  <2>1. /\ x \in Seq(S) /\ Len(x) = n /\ \A i \in 1..n : x[i] = s[i]
        /\ y \in Seq(S) /\ Len(y) = n /\ \A i \in 1..n : y[i] = t[i]
    <3>1. (\A i \in 1..n : s[i] \in S) /\ \A i \in 1..n : t[i] \in S
      BY <1>1, <1>4
    <3> QED BY <1>1, <1>4, <3>1
  <2> HIDE DEF x, y
  <2>2. ASSUME NEW i \in 1..n PROVE s[i] = t[i]
    <3>1. i - 1 \in Nat /\ i - 1 < n /\ (i - 1) + 1 = i /\ i - 1 \notin D
      BY <1>3, <1>4
    <3> QED BY <3>1
  <2>3. \A i \in 1..n : x[i] = y[i]
    BY <2>1, <2>2
  <2>4. x = y
    BY <2>1, <2>3, SeqEqual
  <2> QED BY <2>4 DEF x, y
<1>6. n \in 0..Len(s) /\ Common(n)
  BY <1>1, <1>3, <1>4, <1>5
<1>7. CommonLength(s, t) = CHOOSE m \in 0..Len(s) : Common(m)
  BY DEF CommonLength
<1> HIDE DEF Common
<1>8. CommonLength(s, t) \in 0..Len(s) /\ Common(CommonLength(s, t))
  BY <1>6, <1>7
<1> QED BY <1>1, <1>8 DEF Common

(* A power loss leaves files. *)
LEMMA SurvivorsType ==
    ASSUME AllFiles(files), AllFiles(stored), NEW id \in SegmentIds, NEW f \in Survivors(id)
    PROVE  IsFile(f)
<1>1. IsFile(files[id]) /\ IsFile(stored[id])
  BY DEF AllFiles
<1>2. CASE stored[id] = NoFile
  BY <1>1, <1>2, NewFiles DEF Survivors
<1>3. CASE stored[id] # NoFile
  <2> DEFINE n == CommonLength(files[id].tail, stored[id].tail)
  <2>1. PICK t \in {files[id].tail, stored[id].tail} :
          \E m \in n..Len(t) : f = [files[id] EXCEPT !.tail = SubSeq(t, 1, m)]
    BY <1>3 DEF Survivors
  <2>2. files[id].tail \in Seq(TailItem) /\ stored[id].tail \in Seq(TailItem)
    BY <1>1 DEF IsFile
  <2>3. n \in Nat
    BY <2>2, CommonLengthType
  <2>4. PICK m \in n..Len(t) : f = [files[id] EXCEPT !.tail = SubSeq(t, 1, m)]
    BY <2>1
  <2> HIDE DEF n
  <2>5. t \in Seq(TailItem) /\ Len(t) \in Nat /\ m \in Nat /\ m <= Len(t)
    BY <2>1, <2>2, <2>3
  <2>6. SubSeq(t, 1, m) \in Seq(TailItem)
    <3>1. \A i \in 1..m : t[i] \in TailItem
      BY <2>5
    <3> QED BY <2>5, <3>1
  <2> QED BY <1>1, <2>4, <2>6, FileParts
<1> QED BY <1>2, <1>3

LEMMA PowerLossInv ==
    ASSUME IInv, PowerLoss
    PROVE  IInv'
<1>1. Disk /\ Memory /\ Answers
  BY DEF IInv
<1>2. /\ current' \in {current, onDisk} /\ onDisk' = current' /\ stored' = files'
      /\ unsynced' = {} /\ UNCHANGED ackVars
  BY DEF PowerLoss
<1>3. AllFiles(files')
  <2>1. DOMAIN files' = SegmentIds /\ \A id \in SegmentIds : files'[id] \in Survivors(id)
    BY DEF PowerLoss
  <2>2. AllFiles(files) /\ AllFiles(stored)
    BY <1>1 DEF Disk
  <2>3. \A id \in SegmentIds : IsFile(files'[id])
    BY <2>1, <2>2, SurvivorsType
  <2> QED BY <2>1, <2>3 DEF AllFiles
<1>4. AllObjects(objects')
  <2>1. objects' \subseteq objects
    BY DEF PowerLoss
  <2> QED BY <1>1, <2>1 DEF Disk, AllObjects
<1>5. Disk' /\ Answers'
  BY <1>1, <1>2, <1>3, <1>4, AnswersKeep DEF Disk
<1>6. /\ holder' = Nil /\ pc' = [p \in Procs |-> "idle"] /\ seen' = [p \in Procs |-> Nil]
      /\ cursor' = [p \in Procs |-> Nil] /\ index' = [p \in Procs |-> EmptyIndex]
      /\ tx' = [p \in Procs |-> EmptyTx] /\ job' = [p \in Procs |-> Nil]
  BY DEF PowerLoss
<1>7. Memory'
  <2>1. EmptyIndex \in Indexes /\ EmptyTx \in TxIndexes
    BY GenesisKnown, KnowsTypes
  <2> QED BY <1>6, <2>1 DEF Memory, Steps
<1>8. ASSUME NEW p \in Procs
      PROVE  Local(p, pc'[p], seen'[p], cursor'[p], index'[p], tx'[p], job'[p],
                   holder', current', onDisk', files')
  <2>1. pc'[p] = "idle" /\ seen'[p] = Nil /\ cursor'[p] = Nil /\ holder' # p
    BY <1>6, NilAssumption
  <2> QED BY <2>1 DEF Local, Held, Serving, Committing, Written, Rotating, Swapped, RotationSwapped
<1> QED BY <1>5, <1>7, <1>8 DEF IInv, LocalInv

-----------------------------------------------------------------------------
(* The invariant holds. *)

LEMMA NextInv == IInv /\ [Next]_vars => IInv'
<1> SUFFICES ASSUME IInv, [Next]_vars PROVE IInv'
  OBVIOUS
<1>1. ASSUME NEW p \in Procs, Resume(p) PROVE IInv'
  BY <1>1, ReadCurrentInv, RecoverInv, AcquireLeaseInv, RefusedInv, RevalidateInv,
     TruncateTailInv, BootInv DEF Resume
<1>2. ASSUME NEW p \in Procs, Commit(p) PROVE IInv'
  BY <1>2, SubmitInv, SubmitReplayInv, WriteFrameInv, SyncFrameInv, PutBatchInv,
     ReplaceCurrentInv, AnswerInv, SyncObjectsInv, SyncCurrentInv DEF Commit
<1>3. ASSUME NEW p \in Procs, Rotate(p) PROVE IInv'
  BY <1>3, BeginRotationInv, SealWriteInv, SealSyncInv, PutRotatingInv, NextFileInv,
     WriteHeaderFailsInv, RefusedInv, ReplaceByRotationInv, ActivateInv DEF Rotate
<1>4. CASE Stop
  BY <1>4, EndsInv, PowerLossInv DEF Stop
<1>5. CASE UNCHANGED vars
  <2>1. UNCHANGED <<current, onDisk, files, stored, objects, unsynced, holder, pc, seen,
                    cursor, index, tx, job, applied, replayed>>
    BY <1>5 DEF vars, diskVars, memVars, ackVars
  <2> QED BY <2>1 DEF IInv, Disk, Memory, Answers, LocalInv
<1> QED BY <1>1, <1>2, <1>3, <1>4, <1>5 DEF Next

(* What the writers publish, where every process stands, and what a serving writer knows,   *)
(* through recovery, commits, rotation, deaths and power losses.                              *)
THEOREM Inductive == Spec => []IInv
BY InitInv, NextInv, PTL DEF Spec

-----------------------------------------------------------------------------
(* Types. *)

LEMMA FrameIs ==
    ASSUME NEW x \in Frames
    PROVE  IsFrame(x)
BY DEF Frames, IsFrame

LEMMA ManifestIs ==
    ASSUME NEW man, Good(man)
    PROVE  IsManifest(man)
<1>1. PICK w, ends, g : Manifest(man, w, ends) /\ Accepts(Start, w, g)
  BY DEF Good
<1>2. DOMAIN man = 1..Len(man) /\ Len(man) \in Nat \ {0} /\ Len(man) \in SegmentIds
  <2>1. Len(man) \in SegmentIds
    BY <1>1 DEF Manifest
  <2> QED BY <1>1, <2>1, ManifestParts
<1>3. ASSUME NEW k \in 1..Len(man)
      PROVE  /\ man[k].header.id \in SegmentIds /\ man[k].header.first \in Nat
             /\ man[k].status \in {"ACTIVE", "SEALED"}
             /\ \A i \in DOMAIN man[k].frames : IsFrame(man[k].frames[i])
  <2>1. /\ man[k].header.id = k /\ man[k].header.first = ends[k - 1] + 1 /\ ends[k - 1] \in Nat
        /\ man[k].status \in {"ACTIVE", "SEALED"} /\ man[k].frames \in Seq(Frames)
    BY <1>1, SegmentParts
  <2>2. k \in SegmentIds
    BY <1>2, ConstantTypes
  <2>3. \A i \in DOMAIN man[k].frames : IsFrame(man[k].frames[i])
    BY <2>1, FrameIs
  <2> QED BY <2>1, <2>2, <2>3
<1>4. man # <<>>
  BY <1>2
<1> QED BY <1>2, <1>3, <1>4 DEF IsManifest

LEMMA ObjectIs ==
    ASSUME NEW o, IsPublication(o) \/ IsSealed(o)
    PROVE  IF DOMAIN o = {"publication"} THEN IsManifest(o.publication)
           ELSE IsManifest(<<o>>) /\ o.status = "SEALED"
<1>1. CASE IsPublication(o)
  <2>1. PICK man : o = Publication(man) /\ Good(man)
    BY <1>1 DEF IsPublication
  <2>2. DOMAIN o = {"publication"} /\ o.publication = man
    BY <2>1 DEF Publication
  <2> QED BY <2>1, <2>2, ManifestIs
<1>2. CASE IsSealed(o)
  <2>1. o = Segment(o.header, o.status, o.frames) /\ o.frames \in Seq(Frames)
        /\ o.status = "SEALED" /\ o.header.id \in SegmentIds /\ o.header.first \in Nat
    BY <1>2 DEF IsSealed, IsSegment
  <2>2. "header" \in DOMAIN o
    BY <2>1 DEF Segment
  <2>3. DOMAIN o # {"publication"}
    BY <2>2
  <2>4. \A i \in DOMAIN o.frames : IsFrame(o.frames[i])
    BY <2>1, FrameIs
  <2>5. <<o>> # <<>> /\ \A k \in DOMAIN <<o>> : <<o>>[k] = o
    OBVIOUS
  <2>6. IsManifest(<<o>>)
    <3> DEFINE x == <<o>>
    <3>1. x # <<>> /\ \A k \in DOMAIN x : x[k] = o
      BY <2>5
    <3> HIDE DEF x
    <3>2. IsManifest(x)
      BY <2>1, <2>4, <3>1 DEF IsManifest
    <3> QED BY <3>2 DEF x
  <2> QED BY <2>1, <2>3, <2>6
<1> QED BY <1>1, <1>2

(* The bound on stops is kept by Next's own guard. *)
LEMMA Bounded == Spec => [](stops \in 0..MaxStops)
<1>1. Init => stops \in 0..MaxStops
  BY ScopeAssumption DEF Init
<1>2. stops \in 0..MaxStops /\ [Next]_vars => (stops \in 0..MaxStops)'
  BY ScopeAssumption DEF Next, vars
<1> QED BY <1>1, <1>2, PTL DEF Spec

(* Type correctness. *)
THEOREM TypeCorrect == Spec => []TypeOK
<1>1. IInv /\ stops \in 0..MaxStops => TypeOK
  <2> SUFFICES ASSUME IInv, stops \in 0..MaxStops PROVE TypeOK
    OBVIOUS
  <2>1. Disk /\ Memory /\ Answers /\ LocalInv
    BY DEF IInv
  <2>2. IsManifest(current) /\ IsManifest(onDisk)
    BY <2>1, ManifestIs DEF Disk
  <2>3. /\ DOMAIN files = SegmentIds /\ DOMAIN stored = SegmentIds
        /\ \A id \in SegmentIds : \A i \in DOMAIN files[id].tail :
              IsFrame(files[id].tail[i]) \/ files[id].tail[i] \in {Footer, TornFooter}
    <3>1. AllFiles(files) /\ AllFiles(stored)
      BY <2>1 DEF Disk
    <3>2. ASSUME NEW id \in SegmentIds, NEW i \in DOMAIN files[id].tail
          PROVE  IsFrame(files[id].tail[i]) \/ files[id].tail[i] \in {Footer, TornFooter}
      <4>1. files[id].tail \in Seq(TailItem)
        BY <3>1 DEF AllFiles, IsFile
      <4>2. files[id].tail[i] \in TailItem
        BY <4>1
      <4> QED BY <4>2, FrameIs DEF TailItem
    <3> QED BY <3>1, <3>2 DEF AllFiles
  <2>4. unsynced \subseteq objects
        /\ \A o \in objects : IF DOMAIN o = {"publication"} THEN IsManifest(o.publication)
                               ELSE IsManifest(<<o>>) /\ o.status = "SEALED"
    BY <2>1, ObjectIs DEF Disk, AllObjects
  <2>5. \A p \in Procs : (seen[p] = Nil \/ IsManifest(seen[p]))
                         /\ (cursor[p] = Nil \/ IsManifest(cursor[p]))
    <3> TAKE p \in Procs
    <3>1. Local(p, pc[p], seen[p], cursor[p], index[p], tx[p], job[p],
                holder, current, onDisk, files)
      BY Standing
    <3>2. seen[p] = Nil \/ Good(seen[p])
      BY <3>1 DEF Local
    <3>3. cursor[p] = Nil \/ Good(cursor[p])
      BY <3>1, KnowsGood DEF Local
    <3> QED BY <3>2, <3>3, ManifestIs
  <2>6. \A fr \in applied \cup replayed : IsFrame(fr)
    BY <2>1, FrameIs DEF Answers
  <2>7. /\ holder \in Procs \cup {Nil} /\ pc \in [Procs -> Steps]
        /\ index \in [Procs -> Indexes] /\ tx \in [Procs -> TxIndexes]
        /\ job \in [Procs -> Commands \cup {Nil}]
    BY <2>1 DEF Memory
  <2> QED BY <2>2, <2>3, <2>4, <2>5, <2>6, <2>7 DEF TypeOK
<1> QED BY <1>1, Inductive, Bounded, PTL

(* A writer that serves is the only one and what it knows is what a recovery would rebuild, *)
(* for every scope whose bounds are within the reducer's limits (horizon_batch.py's         *)
(* resume_existing and _commit_batch, horizon_wal.py's ReducerState).                        *)
THEOREM ServingAgrees == WithinLimits => (Spec => []ServingWriterAgrees)
<1>1. WithinLimits /\ IInv => ServingWriterAgrees
  <2> SUFFICES ASSUME WithinLimits, IInv, NEW p \in Procs, pc[p] = "serving"
               PROVE  /\ holder = p /\ cursor[p] = current
                      /\ index[p] = Replay(current).index /\ tx[p] = Replay(current).tx
                      /\ FileTail(current) = Prefix(current)
    BY DEF ServingWriterAgrees
  <2>1. Local(p, "serving", seen[p], cursor[p], index[p], tx[p], job[p],
              holder, current, onDisk, files)
    BY Standing
  <2>2. /\ holder = p /\ cursor[p] = current /\ Knows(current, index[p], tx[p])
        /\ files[ActiveId(current)].tail = Prefix(current)
    BY <2>1 DEF Local, Held, Serving, Swapped, RotationSwapped
  <2>3. index[p] = Replay(current).index /\ tx[p] = Replay(current).tx
    BY <2>2, KnowsReplay
  <2> QED BY <2>2, <2>3 DEF FileTail
<1> SUFFICES ASSUME WithinLimits PROVE Spec => []ServingWriterAgrees
  OBVIOUS
<1>2. IInv => ServingWriterAgrees
  BY <1>1
<1> QED BY <1>2, Inductive, PTL

-----------------------------------------------------------------------------
(* The scope implements MemoryLog. *)

LEMMA HistoryOf ==
    ASSUME NEW man, Good(man)
    PROVE  /\ History(man) \in Seq(Commands) /\ Len(History(man)) = Len(Log(man))
           /\ DOMAIN History(man) = DOMAIN Log(man)
           /\ \A k \in DOMAIN Log(man) : History(man)[k] = Log(man)[k].cmd
<1> DEFINE w == Log(man)
<1>1. w \in Seq(Frames)
  BY GoodLog
<1> HIDE DEF w
<1>2. Len(w) \in Nat /\ DOMAIN w = 1..Len(w) /\ \A k \in 1..Len(w) : w[k] \in Frames
  BY <1>1
<1>3. \A k \in 1..Len(w) : w[k].cmd \in Commands
  BY <1>2 DEF Frames
<1>4. History(man) = [k \in 1..Len(w) |-> w[k].cmd]
  BY <1>2 DEF History, w
<1> QED BY <1>2, <1>3, <1>4 DEF w

LEMMA HistoryGrows ==
    ASSUME NEW m, NEW b, Good(m), Good(b), NEW fr \in Frames, Log(b) = Append(Log(m), fr)
    PROVE  /\ History(b) = Append(History(m), fr.cmd)
           /\ Len(Log(b)) \in DOMAIN History(b) /\ History(b)[Len(Log(b))] = fr.cmd
<1> DEFINE w == Log(m)
           v == Log(b)
           h == History(m)
           i == History(b)
           n == Len(w)
<1>1. /\ w \in Seq(Frames) /\ n \in Nat /\ DOMAIN w = 1..n /\ v = Append(w, fr)
  BY GoodLog
<1>2. /\ h \in Seq(Commands) /\ Len(h) = n /\ DOMAIN h = 1..n
      /\ \A k \in 1..n : h[k] = w[k].cmd
  BY <1>1, HistoryOf
<1>3. /\ i \in Seq(Commands) /\ Len(i) = Len(v) /\ DOMAIN i = DOMAIN v
      /\ \A k \in DOMAIN v : i[k] = v[k].cmd
  BY HistoryOf
<1> HIDE DEF w, v, h, i
<1>4. /\ Len(v) = n + 1 /\ DOMAIN v = 1..n + 1 /\ v[n + 1] = fr
      /\ \A k \in 1..n : v[k] = w[k]
  BY <1>1
<1> HIDE DEF n
<1>5. fr.cmd \in Commands
  BY DEF Frames
<1> DEFINE j == Append(h, fr.cmd)
<1>6. /\ j \in Seq(Commands) /\ Len(j) = n + 1 /\ j[n + 1] = fr.cmd
      /\ \A k \in 1..n : j[k] = h[k]
  BY <1>2, <1>5, AppendProperties
<1> HIDE DEF j
<1>7. \A k \in 1..n + 1 : i[k] = j[k]
  <2> TAKE k \in 1..n + 1
  <2>1. CASE k = n + 1
    BY <1>3, <1>4, <1>6, <2>1
  <2>2. CASE k \in 1..n
    BY <1>2, <1>3, <1>4, <1>6, <2>2
  <2> QED BY <1>1, <2>1, <2>2
<1>8. i = j
  BY <1>3, <1>4, <1>6, <1>7, SeqEqual
<1>9. n + 1 \in DOMAIN i /\ i[n + 1] = fr.cmd
  BY <1>1, <1>3, <1>4
<1> QED BY <1>4, <1>8, <1>9 DEF j, h, i, v

(* What most actions do to the abstract history: nothing. *)
LEMMA Quiet ==
    ASSUME UNCHANGED <<current, onDisk, applied>>
    PROVE  UNCHANGED Abstract!vars
BY DEF Abstract!vars

LEMMA ReplaceCurrentCommits ==
    ASSUME IInv, NEW p \in Procs, ReplaceCurrent(p)
    PROVE  Abstract!Commit(1)
<1>1. pc[p] = "recorded" /\ current' = BatchCandidate(p) /\ UNCHANGED <<onDisk, applied>>
  BY DEF ReplaceCurrent, Step, ackVars
<1> DEFINE m == cursor[p]
           b == BatchCandidate(p)
           fr == NewFrame(p)
           op == job[p]
<1>2. /\ Good(m) /\ Good(b) /\ fr \in Frames /\ fr.cmd = op /\ op \in Commands
      /\ Log(b) = Append(Log(m), fr)
      /\ \A k \in DOMAIN Log(m) : Log(m)[k].cmd.opid # op.opid
  <2>1. pc[p] \in Committing
    BY <1>1 DEF Committing, Written
  <2> QED BY <2>1, CommittingParts DEF NewFrame
<1>3. current = m
  <2>1. Local(p, pc[p], seen[p], m, index[p], tx[p], job[p], holder, current, onDisk, files)
    BY Standing
  <2> QED BY <1>1, <2>1 DEF Local, Serving, Committing, Written, Swapped, RotationSwapped
<1> HIDE DEF m, b, fr, op
<1>4. History(b) = Append(History(m), op)
  BY <1>2, HistoryGrows
<1>5. \A k \in DOMAIN History(m) : History(m)[k].opid # op.opid
  BY <1>2, HistoryOf
<1>6. current' = b
  BY <1>1 DEF b
<1> DEFINE h == History(m)
           i == History(b)
<1>7. h \in Seq(Commands) /\ i = Append(h, op) /\ op \in Commands
  BY <1>2, <1>4, HistoryOf
<1> HIDE DEF h, i
<1>8. /\ Len(h) \in Nat /\ DOMAIN h = 1..Len(h) /\ DOMAIN i = 1..Len(h) + 1
      /\ i \in [1..Len(h) + 1 -> Commands] /\ i[Len(h) + 1] = op
      /\ \A k \in 1..Len(h) : i[k] = h[k]
  <2>1. /\ Len(h) \in Nat /\ DOMAIN h = 1..Len(h)
        /\ i \in Seq(Commands) /\ Len(i) = Len(h) + 1 /\ i[Len(h) + 1] = op
        /\ \A k \in 1..Len(h) : i[k] = h[k]
    BY <1>7, AppendProperties
  <2>2. DOMAIN i = 1..Len(i) /\ i \in [1..Len(i) -> Commands]
    BY <2>1
  <2> QED BY <2>1, <2>2
<1> DEFINE n == Len(h)
<1>9. n \in Nat /\ \A k \in 1..n : h[k].opid # op.opid
  BY <1>5, <1>8 DEF h
<1> HIDE DEF n
<1>10. \A j, k \in 1..n + 1 : k \notin 1..n /\ i[j].opid = i[k].opid => j = k
  <2> SUFFICES ASSUME NEW j \in 1..n + 1, NEW k \in 1..n + 1, k \notin 1..n, i[j].opid = i[k].opid
               PROVE  j = k
    OBVIOUS
  <2>1. k = n + 1
    BY <1>9
  <2>2. j \in 1..n => i[j].opid # op.opid
    BY <1>8, <1>9 DEF n
  <2> QED BY <1>8, <1>9, <2>1, <2>2 DEF n
<1> QED BY <1>1, <1>3, <1>6, <1>8, <1>10 DEF Abstract!Commit, h, i, n

LEMMA SyncCurrentHardens ==
    ASSUME NEW p \in Procs, SyncCurrent(p)
    PROVE  Abstract!Harden
<1>1. onDisk' = current /\ current' = current /\ applied' = applied
  BY DEF SyncCurrent, CurrentSynced, ackVars
<1> QED BY <1>1 DEF Abstract!Harden

LEMMA AnswerAcknowledges ==
    ASSUME IInv, NEW p \in Procs, Answer(p)
    PROVE  \E op \in Commands : Abstract!Acknowledge(op)
<1>1. /\ pc[p] = "published" /\ applied' = applied \cup {NewFrame(p)}
      /\ UNCHANGED <<current, onDisk>>
  BY DEF Answer, Step
<1> DEFINE m == cursor[p]
           b == BatchCandidate(p)
           fr == NewFrame(p)
           op == job[p]
<1>2. /\ Good(m) /\ Good(b) /\ fr \in Frames /\ fr.cmd = op /\ op \in Commands
      /\ Log(b) = Append(Log(m), fr) /\ b = Batch(m, fr) /\ fr = Frame(op, m)
  <2>1. pc[p] \in Committing
    BY <1>1 DEF Committing, Written
  <2> QED BY <2>1, CommittingParts DEF NewFrame
<1>3. onDisk = b
  <2>1. Local(p, pc[p], seen[p], m, index[p], tx[p], op, holder, current, onDisk, files)
    BY Standing
  <2>2. onDisk = current /\ current = Batch(m, Frame(op, m))
    BY <1>1, <2>1 DEF Local, Swapped
  <2> QED BY <1>2, <2>2
<1> HIDE DEF m, b, op
<1>4. \E k \in DOMAIN History(onDisk) : History(onDisk)[k] = op
  <2> HIDE DEF fr
  <2>1. Len(Log(b)) \in DOMAIN History(b) /\ History(b)[Len(Log(b))] = fr.cmd
    BY <1>2, HistoryGrows
  <2> QED BY <1>2, <1>3, <2>1
<1>5. {f.cmd : f \in applied'} = {f.cmd : f \in applied} \cup {op}
  BY <1>1, <1>2
<1>6. PICK c \in Commands : c = op
  BY <1>2
<1>7. Abstract!Acknowledge(c)
  BY <1>1, <1>4, <1>5, <1>6 DEF Abstract!Acknowledge
<1> QED BY <1>7

(* A rotation publishes the same history. *)
LEMMA RotationIsQuiet ==
    ASSUME IInv, NEW p \in Procs, ReplaceByRotation(p)
    PROVE  UNCHANGED Abstract!vars
<1>1. /\ pc[p] = "rotation_recorded" /\ current' = RotationCandidate(p)
      /\ UNCHANGED <<onDisk, applied>>
  BY DEF ReplaceByRotation, Step, ackVars
<1>2. Log(RotationCandidate(p)) = Log(cursor[p])
  BY <1>1, RotatingParts DEF Rotating
<1>3. current = cursor[p]
  <2>1. Local(p, pc[p], seen[p], cursor[p], index[p], tx[p], job[p], holder, current, onDisk, files)
    BY Standing
  <2> QED BY <1>1, <2>1 DEF Local, Serving, Rotating, Swapped, RotationSwapped
<1>4. History(current') = History(current)
  BY <1>1, <1>2, <1>3 DEF History
<1> QED BY <1>1, <1>4 DEF Abstract!vars

(* A power loss keeps the history that is there, which is then on disk, or goes back to the *)
(* one on disk.                                                                               *)
LEMMA PowerLossRefines ==
    ASSUME PowerLoss
    PROVE  Abstract!Harden \/ Abstract!Lose
<1>1. current' \in {current, onDisk} /\ onDisk' = current' /\ applied' = applied
  BY DEF PowerLoss, ackVars
<1> QED BY <1>1 DEF Abstract!Harden, Abstract!Lose

(* Nothing else touches CURRENT, its durable copy or the answers. *)
LEMMA StepRefines ==
    ASSUME IInv, [Next]_vars
    PROVE  [Abstract!Next]_(Abstract!vars)
<1>1. CASE UNCHANGED vars
  BY <1>1, Quiet DEF vars, ackVars
<1>2. ASSUME NEW p \in Procs, Resume(p) PROVE UNCHANGED Abstract!vars
  <2>1. UNCHANGED <<current, onDisk, applied>>
    BY <1>2 DEF Resume, ReadCurrent, Recover, AcquireLease, WriterActive, Revalidate,
                StaleRecovery, TruncateTail, SyncTruncated, TailAbsent, ackVars
  <2> QED BY <2>1, Quiet
<1>3. ASSUME NEW p \in Procs, Commit(p) PROVE [Abstract!Next]_(Abstract!vars)
  <2>1. CASE ReplaceCurrent(p)
    BY <2>1, ReplaceCurrentCommits DEF Abstract!Next
  <2>2. CASE SyncCurrent(p)
    BY <2>2, SyncCurrentHardens DEF Abstract!Next
  <2>3. CASE Answer(p)
    BY <2>3, AnswerAcknowledges DEF Abstract!Next
  <2>4. ASSUME NEW c \in Commands, Submit(p, c) \/ SubmitReplay(p, c)
        PROVE  UNCHANGED Abstract!vars
    <3>1. UNCHANGED <<current, onDisk, applied>>
      BY <2>4 DEF Submit, SubmitReplay, ackVars
    <3> QED BY <3>1, Quiet
  <2>5. CASE WriteFrame(p) \/ SyncFrame(p) \/ PutBatch(p) \/ SyncObjects(p)
    <3>1. UNCHANGED <<current, onDisk, applied>>
      BY <2>5 DEF WriteFrame, SyncFrame, PutBatch, PutObject, SyncObjects, ackVars
    <3> QED BY <3>1, Quiet
  <2> QED BY <1>3, <2>1, <2>2, <2>3, <2>4, <2>5 DEF Commit
<1>4. ASSUME NEW p \in Procs, Rotate(p) PROVE UNCHANGED Abstract!vars
  <2>1. CASE ReplaceByRotation(p)
    BY <2>1, RotationIsQuiet
  <2>2. CASE ~ReplaceByRotation(p)
    <3>1. UNCHANGED <<current, onDisk, applied>>
      BY <1>4, <2>2 DEF Rotate, BeginRotation, SealWrite, SealSync, PublishSealed, CreateNext,
                        WriteHeader, SyncHeader, WriteHeaderFails, NextExists, NextDiverges,
                        PutRotation, Activate, PutObject, ackVars
    <3> QED BY <3>1, Quiet
  <2> QED BY <2>1, <2>2
<1>5. CASE Stop
  <2>1. ASSUME NEW p \in Procs, Ends(p) PROVE UNCHANGED Abstract!vars
    <3>1. UNCHANGED <<current, onDisk, applied>>
      BY <2>1 DEF Ends, ackVars
    <3> QED BY <3>1, Quiet
  <2>2. CASE PowerLoss
    BY <2>2, PowerLossRefines DEF Abstract!Next
  <2> QED BY <1>5, <2>1, <2>2 DEF Stop
<1> QED BY <1>1, <1>2, <1>3, <1>4, <1>5 DEF Next

LEMMA InitRefines == Init => Abstract!Init
<1> SUFFICES ASSUME Init PROVE Abstract!Init
  OBVIOUS
<1>1. current = Genesis /\ onDisk = Genesis /\ applied = {}
  BY DEF Init
<1>2. Log(Genesis) = <<>>
  BY GenesisKnown
<1>3. History(Genesis) = <<>>
  <2>1. DOMAIN Log(Genesis) = {}
    BY <1>2
  <2> QED BY <2>1 DEF History
<1> QED BY <1>1, <1>3 DEF Abstract!Init

(* The scope implements MemoryLog: an append-only history in which an operation id takes      *)
(* effect once, of which a power loss can take the unsynced end, and an APPLIED only for what   *)
(* it cannot take (horizon_publication.py's replacement of CURRENT, horizon_batch.py's answer). *)
THEOREM Implements == Spec => ImplementsMemoryLog
<1>1. IInv /\ [Next]_vars => [Abstract!Next]_(Abstract!vars)
  BY StepRefines
<1> QED BY <1>1, InitRefines, Inductive, PTL DEF Spec, ImplementsMemoryLog, Abstract!Spec

(* So a command answered APPLIED is in the history CURRENT has on disk, at every moment, and  *)
(* no two frames of CURRENT carry one operation id (horizon_batch.py:1203, horizon_store.py's  *)
(* classify_dedup), whatever dies and whenever power goes.                                      *)
THEOREM AcknowledgedStays ==
    Spec => [](/\ \A op \in {fr.cmd : fr \in applied} : \E k \in DOMAIN History(onDisk) :
                      History(onDisk)[k] = op
               /\ \A i, j \in DOMAIN History(current) :
                      History(current)[i].opid = History(current)[j].opid => i = j)
<1>1. Abstract!Spec => [](Abstract!AckedIsStable /\ Abstract!OncePerId)
  BY Abstract!Promise
<1> QED BY Implements, <1>1, PTL
        DEF ImplementsMemoryLog, Abstract!AckedIsStable, Abstract!OncePerId

-----------------------------------------------------------------------------
(* What was published opens, and what was answered as a replay stays: where processes die  *)
(* or power fails, and not both.  The invariant says which files and objects back a            *)
(* publication, and when the ones on disk do.                                                   *)

(* Where both happen, a process can die between a write and its fsync and the next one build    *)
(* on what power then takes: an object that only its name's reuse vouches for, a CURRENT whose    *)
(* directory was never synced.                                                                    *)
OneKindOfStop == ~(PowerFails /\ ProcessesDie)

Holding(f, man) == f.header = Active(man).header /\ IsPrefix(Prefix(man), f.tail)

(* The objects and the file that a recovery of man reads. *)
Backed(man, objs, fs) ==
    /\ Publication(man) \in objs
    /\ \A k \in 1..Len(man) : k < Len(man) => man[k] \in objs
    /\ Holding(fs[ActiveId(man)], man)

(* man was published before cur, and cur has not lost what man publishes of its ACTIVE. *)
Leads(man, cur) ==
    /\ Len(man) <= Len(cur)
    /\ Len(man) = Len(cur) =>
         Active(man).header = Active(cur).header /\ IsPrefix(Prefix(man), Prefix(cur))

Linked == {"record_linked", "sealed_linked", "rotation_linked"}
Renamed == {"replaced", "rotation_replaced"}
Creating == {"creating", "header_written"}
Someone(S) == \E p \in Procs : pc[p] \in S

Published ==
    /\ Backed(current, objects, files)
    /\ Backed(onDisk, objects, files) /\ Leads(onDisk, current)

(* What a power loss leaves backs CURRENT too. *)
Secure ==
    /\ Backed(current, objects \ unsynced, stored)
    /\ Backed(onDisk, objects \ unsynced, stored)
    /\ unsynced = {} \/ Someone(Linked)
    /\ onDisk = current \/ Someone(Renamed)
    /\ \A id \in SegmentIds : id > Len(current) =>
         stored[id] = files[id] \/ (id = Len(current) + 1 /\ Someone(Creating))

(* What a process has read, and what it is about to publish. *)
Ready(p) ==
    /\ pc[p] \in {"reading", "recovered"} =>
         Backed(seen[p], objects, files) /\ Leads(seen[p], current)
    /\ pc[p] \in {"record_linked", "recorded"} => Backed(BatchCandidate(p), objects, files)
    /\ pc[p] \in {"rotation_linked", "rotation_recorded"} =>
         Backed(RotationCandidate(p), objects, files)
    /\ PowerFails /\ pc[p] \in {"synced", "record_linked", "recorded"} =>
         stored[ActiveId(cursor[p])] = files[ActiveId(cursor[p])]
    /\ PowerFails /\ pc[p] \in Creating => stored[NextId(p)] = NoFile

OpenInv == Published /\ (PowerFails => Secure) /\ \A p \in Procs : Ready(p)

(* Prefixes. *)
LEMMA PrefixIs ==
    ASSUME NEW S, NEW s \in Seq(S), NEW t \in Seq(S)
    PROVE  IsPrefix(s, t) <=> Len(s) <= Len(t) /\ \A i \in 1..Len(s) : s[i] = t[i]
<1> DEFINE n == Len(s)
           x == SubSeq(s, 1, n)
           y == SubSeq(t, 1, n)
<1>1. n \in Nat /\ Len(t) \in Nat
  OBVIOUS
<1>2. x = s
  OBVIOUS
<1>3. CASE n <= Len(t)
  <2>1. y \in Seq(S) /\ Len(y) = n /\ \A i \in 1..n : y[i] = t[i]
    <3>1. \A i \in 1..n : t[i] \in S
      BY <1>1, <1>3
    <3> QED BY <1>1, <1>3, <3>1
  <2> HIDE DEF y
  <2>2. s = y <=> \A i \in 1..n : s[i] = y[i]
    <3>1. (\A i \in 1..n : s[i] = y[i]) => s = y
      BY <2>1, SeqEqual
    <3> QED BY <3>1
  <2> QED BY <1>2, <1>3, <2>1, <2>2 DEF IsPrefix, y
<1> QED BY <1>3 DEF IsPrefix

LEMMA PrefixSelf ==
    ASSUME NEW S, NEW s \in Seq(S)
    PROVE  IsPrefix(s, s)
<1>1. Len(s) \in Nat
  OBVIOUS
<1> QED BY <1>1, PrefixIs

LEMMA PrefixOn ==
    ASSUME NEW S, NEW s \in Seq(S), NEW t \in Seq(S), NEW u \in Seq(S),
           IsPrefix(s, t), IsPrefix(t, u)
    PROVE  IsPrefix(s, u)
<1>1. Len(s) \in Nat /\ Len(t) \in Nat /\ Len(u) \in Nat
  OBVIOUS
<1>2. Len(s) <= Len(t) /\ \A i \in 1..Len(s) : s[i] = t[i]
  BY PrefixIs
<1>3. Len(t) <= Len(u) /\ \A i \in 1..Len(t) : t[i] = u[i]
  BY PrefixIs
<1>4. Len(s) <= Len(u) /\ \A i \in 1..Len(s) : s[i] = u[i]
  BY <1>1, <1>2, <1>3
<1> QED BY <1>4, PrefixIs

LEMMA PrefixAppend ==
    ASSUME NEW S, NEW s \in Seq(S), NEW x \in S
    PROVE  IsPrefix(s, Append(s, x))
<1> DEFINE t == Append(s, x)
<1>1. t \in Seq(S) /\ Len(t) = Len(s) + 1 /\ \A i \in 1..Len(s) : t[i] = s[i]
  BY AppendProperties
<1>2. Len(s) \in Nat
  OBVIOUS
<1> HIDE DEF t
<1>3. IsPrefix(s, t)
  BY <1>1, <1>2, PrefixIs
<1> QED BY <1>3 DEF t

(* Publications that follow one another. *)
LEMMA LeadsSelf ==
    ASSUME NEW man, Good(man)
    PROVE  Leads(man, man)
<1>1. Len(man) \in Nat /\ Prefix(man) \in Seq(Frames)
  BY ActiveOf
<1> QED BY <1>1, PrefixSelf DEF Leads

LEMMA LeadsOn ==
    ASSUME NEW a, NEW b, NEW c, Good(a), Good(b), Good(c), Leads(a, b), Leads(b, c)
    PROVE  Leads(a, c)
<1>1. Len(a) \in Nat /\ Len(b) \in Nat /\ Len(c) \in Nat
      /\ Prefix(a) \in Seq(Frames) /\ Prefix(b) \in Seq(Frames) /\ Prefix(c) \in Seq(Frames)
  BY ActiveOf
<1>2. Len(a) <= Len(b) /\ Len(b) <= Len(c)
  BY DEF Leads
<1>3. ASSUME Len(a) = Len(c)
      PROVE  Active(a).header = Active(c).header /\ IsPrefix(Prefix(a), Prefix(c))
  <2>1. Len(a) = Len(b) /\ Len(b) = Len(c)
    BY <1>1, <1>2, <1>3
  <2>2. /\ Active(a).header = Active(b).header /\ IsPrefix(Prefix(a), Prefix(b))
        /\ Active(b).header = Active(c).header /\ IsPrefix(Prefix(b), Prefix(c))
    BY <2>1 DEF Leads
  <2> QED BY <1>1, <2>2, PrefixOn
<1> QED BY <1>1, <1>2, <1>3 DEF Leads

(* A file that holds the ACTIVE of cur holds that of a publication before it. *)
LEMMA HoldingOn ==
    ASSUME NEW man, NEW cur, NEW f, Good(man), Good(cur), Leads(man, cur), Len(man) = Len(cur),
           f.tail \in Seq(TailItem), Holding(f, cur)
    PROVE  Holding(f, man)
<1>1. Prefix(man) \in Seq(TailItem) /\ Prefix(cur) \in Seq(TailItem)
  BY ActiveOf
<1>2. IsPrefix(Prefix(man), Prefix(cur)) /\ Active(man).header = Active(cur).header
  BY DEF Leads
<1>3. IsPrefix(Prefix(cur), f.tail) /\ f.header = Active(cur).header
  BY DEF Holding
<1>4. IsPrefix(Prefix(man), f.tail)
  BY <1>1, <1>2, <1>3, PrefixOn
<1> QED BY <1>2, <1>3, <1>4 DEF Holding

(* Files change in place only behind what cur publishes. *)
Safe(fs, fs2, cur) ==
    /\ \A id \in SegmentIds : id < Len(cur) => fs2[id] = fs[id]
    /\ Holding(fs2[ActiveId(cur)], cur)

LEMMA BackedKept ==
    ASSUME NEW man, NEW cur, Good(man), Good(cur), Leads(man, cur),
           NEW objs, NEW objs2, objs \subseteq objs2,
           NEW fs, NEW fs2, AllFiles(fs2), Safe(fs, fs2, cur), Backed(man, objs, fs)
    PROVE  Backed(man, objs2, fs2)
<1>1. /\ ActiveId(man) = Len(man) /\ ActiveId(cur) = Len(cur) /\ Len(man) \in SegmentIds
      /\ Len(man) \in Nat /\ Len(cur) \in Nat /\ Len(man) <= Len(cur)
  BY ActiveOf DEF Leads
<1>2. CASE Len(man) < Len(cur)
  <2>1. fs2[ActiveId(man)] = fs[ActiveId(man)]
    BY <1>1, <1>2 DEF Safe
  <2> QED BY <2>1 DEF Backed
<1>3. CASE Len(man) = Len(cur)
  <2>1. Holding(fs2[ActiveId(man)], cur)
    BY <1>1, <1>3 DEF Safe
  <2>2. fs2[ActiveId(man)].tail \in Seq(TailItem)
    BY <1>1 DEF AllFiles, IsFile
  <2>3. Holding(fs2[ActiveId(man)], man)
    BY <1>3, <2>1, <2>2, HoldingOn
  <2> QED BY <2>3 DEF Backed
<1> QED BY <1>1, <1>2, <1>3

(* The publications that a writer makes follow the one it had. *)
LEMMA BatchSegments ==
    ASSUME NEW man, Good(man), NEW fr \in Frames
    PROVE  /\ Len(Batch(man, fr)) = Len(man)
           /\ Active(Batch(man, fr)).header = Active(man).header
           /\ \A k \in 1..Len(man) : k < Len(man) => Batch(man, fr)[k] = man[k]
<1> DEFINE b == Batch(man, fr)
           N == Len(man)
           old == man[N]
<1>1. IsSegment(old) /\ N \in 1..N /\ DOMAIN man = 1..N /\ N \in Nat /\ Active(man) = old
  BY ActiveOf DEF Active, Last
<1>2. DOMAIN b = 1..N /\ b[N] = [old EXCEPT !.frames = Append(@, fr)]
      /\ \A k \in 1..N : k < N => b[k] = man[k]
  BY <1>1 DEF Batch
<1>3. old = Segment(old.header, old.status, old.frames)
  BY <1>1 DEF IsSegment
<1> HIDE DEF old, b
<1>4. b[N].header = old.header
  BY <1>2, <1>3 DEF Segment
<1>5. Len(b) = N
  BY <1>1, <1>2
<1> QED BY <1>1, <1>2, <1>4, <1>5 DEF Active, Last, b

LEMMA BatchLeads ==
    ASSUME NEW man, Good(man), NEW fr \in Frames
    PROVE  Leads(man, Batch(man, fr))
<1>1. Len(Batch(man, fr)) = Len(man) /\ Active(Batch(man, fr)).header = Active(man).header
  BY BatchSegments
<1>2. Prefix(Batch(man, fr)) = Append(Prefix(man), fr)
  BY BatchActive
<1>3. Prefix(man) \in Seq(Frames) /\ Len(man) \in Nat
  BY ActiveOf
<1>4. IsPrefix(Prefix(man), Prefix(Batch(man, fr)))
  BY <1>2, <1>3, PrefixAppend
<1> QED BY <1>1, <1>3, <1>4 DEF Leads

LEMMA RotationLeads ==
    ASSUME NEW man, Good(man), Prefix(man) # <<>>, ActiveId(man) + 1 \in SegmentIds
    PROVE  Leads(man, Rotated(man)) /\ Len(Rotated(man)) = Len(man) + 1
<1>1. PICK w, ends : Manifest(man, w, ends)
  BY DEF Good
<1>2. Len(Rotated(man)) = Len(man) + 1
  BY <1>1, RotationManifest
<1>3. Len(man) \in Nat
  BY ActiveOf
<1> QED BY <1>2, <1>3 DEF Leads

(* A batch is backed by what backs the publication before it, its own record, and a file   *)
(* with the frame.                                                                            *)
LEMMA BackedBatch ==
    ASSUME NEW man, Good(man), NEW fr \in Frames, NEW objs, NEW objs2, objs \subseteq objs2,
           NEW fs, NEW fs2, Backed(man, objs, fs), Publication(Batch(man, fr)) \in objs2,
           fs2[ActiveId(man)].header = Active(man).header,
           fs2[ActiveId(man)].tail = Append(Prefix(man), fr)
    PROVE  Backed(Batch(man, fr), objs2, fs2)
<1> DEFINE b == Batch(man, fr)
<1>1. /\ Len(b) = Len(man) /\ Active(b).header = Active(man).header
      /\ \A k \in 1..Len(man) : k < Len(man) => b[k] = man[k]
      /\ ActiveId(b) = ActiveId(man) /\ Prefix(b) = Append(Prefix(man), fr)
  BY BatchSegments, BatchActive
<1>2. Append(Prefix(man), fr) \in Seq(Frames)
  BY ActiveOf, AppendProperties
<1> HIDE DEF b
<1>3. Holding(fs2[ActiveId(b)], b)
  BY <1>1, <1>2, PrefixSelf DEF Holding
<1>4. \A k \in 1..Len(b) : k < Len(b) => b[k] \in objs2
  BY <1>1 DEF Backed
<1> QED BY <1>3, <1>4 DEF Backed, b

(* A publication that is backed can be recovered, and the other way round. *)
LEMMA GoodSegments ==
    ASSUME NEW man, Good(man)
    PROVE  /\ Covers(man) /\ ActiveId(man) = Len(man) /\ Len(man) \in 1..Len(man)
           /\ DOMAIN man = 1..Len(man) /\ Active(man) = man[Len(man)]
           /\ \A k \in 1..Len(man) :
                /\ man[k].header.id = k
                /\ man[k].status = (IF k = Len(man) THEN "ACTIVE" ELSE "SEALED")
                /\ k = Len(man) \/ k < Len(man)
<1>1. PICK w, ends : Manifest(man, w, ends)
  BY DEF Good
<1>2. Len(man) \in Nat \ {0} /\ DOMAIN man = 1..Len(man) /\ Len(man) \in 1..Len(man)
      /\ ActiveId(man) = Len(man) /\ Active(man) = man[Len(man)]
  BY ActiveOf DEF Active, Last
<1>3. ASSUME NEW k \in 1..Len(man)
      PROVE  /\ man[k].header.id = k
             /\ man[k].header.prev = (IF k = 1 THEN Nil ELSE man[k - 1])
             /\ man[k].status = (IF k = Len(man) THEN "ACTIVE" ELSE "SEALED")
             /\ man[k].frames = <<>> => k = Len(man)
  BY <1>1, SegmentParts
<1>4. \A k \in 1..Len(man) : k = Len(man) \/ k < Len(man)
  <2> DEFINE N == Len(man)
  <2>1. N \in Nat
    BY <1>2
  <2> HIDE DEF N
  <2>2. \A k \in 1..N : k = N \/ k < N
    BY <2>1
  <2> QED BY <2>2 DEF N
<1>5. Covers(man)
  BY <1>2, <1>3 DEF Covers
<1> QED BY <1>2, <1>3, <1>4, <1>5

LEMMA BackedReads ==
    ASSUME NEW man, Good(man)
    PROVE  (\A k \in DOMAIN man : SegmentReads(man[k]))
             <=> /\ Holding(files[ActiveId(man)], man)
                 /\ \A k \in 1..Len(man) : k < Len(man) => man[k] \in objects
<1> DEFINE N == Len(man)
<1>1. /\ DOMAIN man = 1..N /\ Active(man) = man[N] /\ ActiveId(man) = N /\ N \in 1..N
      /\ \A k \in 1..N : /\ man[k].header.id = k
                         /\ man[k].status = (IF k = N THEN "ACTIVE" ELSE "SEALED")
                         /\ k = N \/ k < N
  BY GoodSegments
<1>2. N \in Nat
  BY ActiveOf
<1> HIDE DEF N
<1>3. SegmentReads(man[N]) <=> Holding(files[N], man)
  BY <1>1 DEF SegmentReads, Holding, Prefix
<1>4. ASSUME NEW k \in 1..N, k < N PROVE SegmentReads(man[k]) <=> man[k] \in objects
  BY <1>1, <1>2, <1>4 DEF SegmentReads
<1>5. (\A k \in 1..N : SegmentReads(man[k]))
        <=> Holding(files[N], man) /\ \A k \in 1..N : k < N => man[k] \in objects
  BY <1>1, <1>3, <1>4
<1> QED BY <1>1, <1>5 DEF N

LEMMA BackedRecovers ==
    ASSUME NEW man, Good(man), Backed(man, objects, files), WithinLimits
    PROVE  Recovers(man)
<1>1. Replay(man).class = "OK"
  <2>1. PICK w, ends, g : Manifest(man, w, ends) /\ Accepts(Start, w, g)
    BY DEF Good
  <2> QED BY <2>1, ReplayOf
<1>2. Covers(man)
  BY GoodSegments
<1> QED BY <1>1, <1>2, BackedReads DEF Recovers, Opens, Backed

-----------------------------------------------------------------------------
(* What the steps share. *)

Apart(p) ==
    \A q \in Procs : q # p =>
        pc'[q] = pc[q] /\ seen'[q] = seen[q] /\ cursor'[q] = cursor[q] /\ job'[q] = job[q]

LEMMA ApartIs ==
    ASSUME IInv, NEW p \in Procs,
           pc' = pc \/ \E x : pc' = [pc EXCEPT ![p] = x],
           seen' = seen \/ \E x : seen' = [seen EXCEPT ![p] = x],
           cursor' = cursor \/ \E x : cursor' = [cursor EXCEPT ![p] = x],
           job' = job \/ \E x : job' = [job EXCEPT ![p] = x]
    PROVE  Apart(p)
<1>1. DOMAIN pc = Procs /\ DOMAIN seen = Procs /\ DOMAIN cursor = Procs /\ DOMAIN job = Procs
  BY DEF IInv, Memory
<1> SUFFICES ASSUME NEW q \in Procs, q # p
             PROVE  pc'[q] = pc[q] /\ seen'[q] = seen[q] /\ cursor'[q] = cursor[q] /\ job'[q] = job[q]
  BY DEF Apart
<1>2. pc'[q] = pc[q]
  BY <1>1
<1>3. seen'[q] = seen[q]
  BY <1>1
<1>4. cursor'[q] = cursor[q]
  BY <1>1
<1>5. job'[q] = job[q]
  BY <1>1
<1> QED BY <1>2, <1>3, <1>4, <1>5

(* A step from one place to another. *)
LEMMA ApartStep ==
    ASSUME IInv, NEW p \in Procs, NEW from, NEW to, Step(p, from, to), UNCHANGED <<seen, memVars>>
    PROVE  Apart(p) /\ pc[p] = from /\ pc'[p] = to
<1>1. pc[p] = from /\ pc' = [pc EXCEPT ![p] = to] /\ UNCHANGED <<seen, cursor, job>>
  BY DEF Step, memVars
<1>2. DOMAIN pc = Procs
  BY DEF IInv, Memory
<1>3. pc'[p] = to
  BY <1>1, <1>2
<1> QED BY <1>1, <1>3, ApartIs

LEMMA ApartForget ==
    ASSUME IInv, NEW p \in Procs, Forget(p)
    PROVE  Apart(p) /\ pc'[p] = "idle"
<1>1. /\ pc' = [pc EXCEPT ![p] = "idle"] /\ seen' = [seen EXCEPT ![p] = Nil]
      /\ cursor' = [cursor EXCEPT ![p] = Nil] /\ job' = [job EXCEPT ![p] = Nil]
  BY DEF Forget
<1>2. DOMAIN pc = Procs
  BY DEF IInv, Memory
<1>3. pc'[p] = "idle"
  BY <1>1, <1>2
<1> QED BY <1>1, <1>3, ApartIs

(* The holder of the lease, and the others. *)
LEMMA HolderAlone ==
    ASSUME IInv, NEW p \in Procs, pc[p] \in Held
    PROVE  holder = p /\ \A q \in Procs : q # p => pc[q] \notin Held
<1>1. \A q \in Procs : pc[q] \in Held <=> holder = q
  BY DEF IInv, LocalInv, Local
<1> QED BY <1>1

LEMMA CursorIsCurrent ==
    ASSUME IInv, NEW p \in Procs, pc[p] \in Serving \ (Swapped \cup RotationSwapped)
    PROVE  cursor[p] = current
<1>1. Local(p, pc[p], seen[p], cursor[p], index[p], tx[p], job[p], holder, current, onDisk, files)
  BY Standing
<1> QED BY <1>1 DEF Local

LEMMA PublishedGood ==
    ASSUME IInv
    PROVE  /\ Good(current) /\ Good(onDisk) /\ AllFiles(files) /\ AllFiles(stored)
           /\ \A p \in Procs : pc[p] # "idle" => Good(seen[p])
<1>1. Disk
  BY DEF IInv
<1>2. ASSUME NEW p \in Procs, pc[p] # "idle" PROVE Good(seen[p])
  <2>1. Local(p, pc[p], seen[p], cursor[p], index[p], tx[p], job[p], holder, current, onDisk, files)
    BY Standing
  <2> QED BY <1>2, <2>1 DEF Local
<1> QED BY <1>1, <1>2 DEF Disk

LEMMA SomeoneStays ==
    ASSUME NEW p \in Procs, Apart(p), NEW S, Someone(S), pc[p] \notin S
    PROVE  Someone(S)'
<1>1. PICK q \in Procs : pc[q] \in S
  BY DEF Someone
<1>2. pc'[q] = pc[q]
  BY <1>1 DEF Apart
<1> QED BY <1>1, <1>2 DEF Someone

(* Where a process stands that has nothing of its own to rely on. *)
Free(step) ==
    /\ step \notin {"reading", "recovered", "synced", "record_linked", "recorded",
                    "rotation_linked", "rotation_recorded"}
    /\ step \notin Creating

LEMMA FreeReady ==
    ASSUME NEW p \in Procs, Free(pc'[p])
    PROVE  Ready(p)'
BY DEF Free, Ready

LEMMA SameReady ==
    ASSUME NEW q \in Procs, Ready(q), UNCHANGED <<current, files, stored, objects>>,
           pc'[q] = pc[q], seen'[q] = seen[q], cursor'[q] = cursor[q], job'[q] = job[q]
    PROVE  Ready(q)'
<1>1. BatchCandidate(q)' = BatchCandidate(q)
  BY DEF BatchCandidate, NewFrame
<1>2. NextId(q)' = NextId(q)
  BY DEF NextId
<1>3. RotationCandidate(q)' = RotationCandidate(q)
  BY <1>2 DEF RotationCandidate, SealedSegment, NextHeader
<1> QED BY <1>1, <1>2, <1>3 DEF Ready

LEMMA OtherReady ==
    ASSUME IInv, IInv', NEW p \in Procs, pc[p] \in Held, NEW q \in Procs, q # p, Ready(q), Apart(p),
           objects \subseteq objects', Safe(files, files', current), Leads(current, current')
    PROVE  Ready(q)'
<1>1. pc'[q] = pc[q] /\ seen'[q] = seen[q]
  BY DEF Apart
<1>2. CASE pc[q] \in {"reading", "recovered"}
  <2>1. Backed(seen[q], objects, files) /\ Leads(seen[q], current)
    BY <1>2 DEF Ready
  <2>2. Good(seen[q]) /\ Good(current)
    BY <1>2, PublishedGood
  <2>3. Good(current') /\ AllFiles(files')
    BY DEF IInv, Disk
  <2>4. Backed(seen[q], objects', files')
    BY <2>1, <2>2, <2>3, BackedKept
  <2>5. Leads(seen[q], current')
    BY <2>1, <2>2, <2>3, LeadsOn
  <2> QED BY <1>1, <1>2, <2>4, <2>5 DEF Ready, Creating
<1>3. CASE pc[q] \notin {"reading", "recovered"}
  <2>1. pc[q] \notin Held
    BY HolderAlone
  <2>2. Free(pc'[q])
    BY <1>1, <1>3, <2>1 DEF Free, Creating, Held, Serving, Committing, Written, Rotating
  <2> QED BY <2>2, FreeReady
<1> QED BY <1>2, <1>3

(* A step that leaves the disk alone. *)
LEMMA QuietOpen ==
    ASSUME IInv, OpenInv, NEW p \in Procs, Apart(p), Ready(p)',
           UNCHANGED <<current, onDisk, files, stored, objects, unsynced>>,
           PowerFails => pc[p] \notin Linked \cup Renamed \cup Creating
    PROVE  OpenInv'
<1>1. Published'
  BY DEF OpenInv, Published
<1>2. ASSUME PowerFails PROVE Secure'
  <2>1. Secure /\ pc[p] \notin Linked /\ pc[p] \notin Renamed /\ pc[p] \notin Creating
    BY <1>2 DEF OpenInv
  <2>2. /\ Someone(Linked) => Someone(Linked)'
        /\ Someone(Renamed) => Someone(Renamed)'
        /\ Someone(Creating) => Someone(Creating)'
    BY <2>1, SomeoneStays
  <2> QED BY <2>1, <2>2 DEF Secure
<1>3. \A q \in Procs : q # p => Ready(q)'
  BY SameReady DEF OpenInv, Apart
<1> QED BY <1>1, <1>2, <1>3 DEF OpenInv

(* A step of the holder that leaves CURRENT alone: what it keeps of the files and the objects. *)
LEMMA BackedStays ==
    ASSUME IInv, IInv', OpenInv, NEW p \in Procs, pc[p] \in Held, Apart(p),
           UNCHANGED <<current, onDisk>>, objects \subseteq objects', Safe(files, files', current)
    PROVE  Published' /\ \A q \in Procs : q # p => Ready(q)'
<1>1. Good(current) /\ Good(onDisk) /\ Published
  BY PublishedGood DEF OpenInv
<1>2. Leads(current, current) /\ Leads(onDisk, current)
  BY <1>1, LeadsSelf DEF Published
<1>3. AllFiles(files')
  BY DEF IInv, Disk
<1>4. Backed(current, objects', files') /\ Backed(onDisk, objects', files')
  BY <1>1, <1>2, <1>3, BackedKept DEF Published
<1>5. Published'
  BY <1>2, <1>4 DEF Published
<1>6. \A q \in Procs : q # p => Ready(q)'
  BY <1>2, OtherReady DEF OpenInv
<1> QED BY <1>5, <1>6

LEMMA SecureStays ==
    ASSUME IInv, IInv', Published, Secure, UNCHANGED <<current, onDisk>>,
           objects \ unsynced \subseteq objects' \ unsynced', Safe(stored, stored', current)
    PROVE  /\ Backed(current', objects' \ unsynced', stored')
           /\ Backed(onDisk', objects' \ unsynced', stored')
<1>1. Good(current) /\ Good(onDisk)
  BY PublishedGood
<1>2. Leads(current, current) /\ Leads(onDisk, current)
  BY <1>1, LeadsSelf DEF Published
<1>3. AllFiles(stored')
  BY DEF IInv, Disk
<1>4. Backed(current, objects \ unsynced, stored) /\ Backed(onDisk, objects \ unsynced, stored)
  BY DEF Secure
<1>5. Backed(current, objects' \ unsynced', stored') /\ Backed(onDisk, objects' \ unsynced', stored')
  BY <1>1, <1>2, <1>3, <1>4, BackedKept
<1> QED BY <1>5

(* One that changes no file but the ACTIVE's. *)
LEMMA BehindOpen ==
    ASSUME IInv, IInv', OpenInv, NEW p \in Procs, pc[p] \in Held, Apart(p), Ready(p)',
           UNCHANGED <<current, onDisk>>, objects \subseteq objects', Safe(files, files', current),
           pc[p] \notin Renamed, pc[p] \notin Creating,
           PowerFails =>
               /\ objects \ unsynced \subseteq objects' \ unsynced'
               /\ unsynced' = {} \/ Someone(Linked)'
               /\ Safe(stored, stored', current)
               /\ \A id \in SegmentIds : id > Len(current) =>
                    stored'[id] = stored[id] /\ files'[id] = files[id]
    PROVE  OpenInv'
<1>1. Published' /\ \A q \in Procs : q # p => Ready(q)'
  BY BackedStays
<1>2. ASSUME PowerFails PROVE Secure'
  <2>1. Secure /\ Published
    BY <1>2 DEF OpenInv
  <2>2. /\ Backed(current', objects' \ unsynced', stored')
        /\ Backed(onDisk', objects' \ unsynced', stored')
    BY <1>2, <2>1, SecureStays
  <2>3. /\ Someone(Renamed) => Someone(Renamed)'
        /\ Someone(Creating) => Someone(Creating)'
    BY SomeoneStays
  <2>4. onDisk' = current' \/ Someone(Renamed)'
    BY <2>1, <2>3 DEF Secure
  <2>5. ASSUME NEW id \in SegmentIds, id > Len(current')
        PROVE  stored'[id] = files'[id] \/ (id = Len(current') + 1 /\ Someone(Creating)')
    BY <1>2, <2>1, <2>3, <2>5 DEF Secure
  <2> QED BY <1>2, <2>2, <2>4, <2>5 DEF Secure
<1> QED BY <1>1, <1>2 DEF OpenInv

-----------------------------------------------------------------------------
(* The actions that leave the disk alone. *)

LEMMA EndsOpen ==
    ASSUME IInv, OpenInv, OneKindOfStop, NEW p \in Procs, Ends(p)
    PROVE  OpenInv'
<1>1. /\ ProcessesDie \/ pc[p] \in AtRest
      /\ Forget(p) /\ UNCHANGED <<current, onDisk, files, stored, objects, unsynced>>
  BY DEF Ends, diskVars
<1>2. Apart(p) /\ pc'[p] = "idle"
  BY <1>1, ApartForget
<1>3. Ready(p)'
  BY <1>2, FreeReady DEF Free, Creating
<1>4. PowerFails => pc[p] \notin Linked \cup Renamed \cup Creating
  BY <1>1 DEF OneKindOfStop, AtRest, Linked, Renamed, Creating
<1> QED BY <1>1, <1>2, <1>3, <1>4, QuietOpen

LEMMA RefusedOpen ==
    ASSUME IInv, OpenInv, NEW p \in Procs, WriterActive(p) \/ StaleRecovery(p) \/ NextDiverges(p)
    PROVE  OpenInv'
<1>1. /\ pc[p] \in {"recovered", "leased", "sealed_published"}
      /\ Forget(p) /\ UNCHANGED <<current, onDisk, files, stored, objects, unsynced>>
  BY DEF WriterActive, StaleRecovery, NextDiverges, diskVars
<1>2. Apart(p) /\ pc'[p] = "idle"
  BY <1>1, ApartForget
<1>3. Ready(p)'
  BY <1>2, FreeReady DEF Free, Creating
<1>4. pc[p] \notin Linked \cup Renamed \cup Creating
  BY <1>1 DEF Linked, Renamed, Creating
<1> QED BY <1>1, <1>2, <1>3, <1>4, QuietOpen

LEMMA ReadCurrentOpen ==
    ASSUME IInv, OpenInv, NEW p \in Procs, ReadCurrent(p)
    PROVE  OpenInv'
<1>1. /\ pc[p] = "idle" /\ pc' = [pc EXCEPT ![p] = "reading"]
      /\ seen' = [seen EXCEPT ![p] = current] /\ UNCHANGED <<cursor, job>>
      /\ UNCHANGED <<current, onDisk, files, stored, objects, unsynced>>
  BY DEF ReadCurrent, Step, memVars, diskVars
<1>2. Apart(p)
  BY <1>1, ApartIs
<1>3. pc'[p] = "reading" /\ seen'[p] = current
  BY <1>1 DEF IInv, Memory
<1>4. Backed(current, objects, files) /\ Leads(current, current)
  BY PublishedGood, LeadsSelf DEF OpenInv, Published
<1>5. Ready(p)'
  BY <1>1, <1>3, <1>4 DEF Ready, Creating
<1>6. pc[p] \notin Linked \cup Renamed \cup Creating
  BY <1>1 DEF Linked, Renamed, Creating
<1> QED BY <1>1, <1>2, <1>5, <1>6, QuietOpen

LEMMA RecoverOpen ==
    ASSUME IInv, OpenInv, NEW p \in Procs, Recover(p)
    PROVE  OpenInv'
<1>1. PICK to \in {"recovered", "idle"} :
        /\ Step(p, "reading", to) /\ UNCHANGED <<seen, memVars>>
        /\ UNCHANGED <<current, onDisk, files, stored, objects, unsynced>>
  BY DEF Recover, diskVars
<1>2. Apart(p) /\ pc[p] = "reading" /\ pc'[p] = to
  BY <1>1, ApartStep
<1>3. Backed(seen[p], objects, files) /\ Leads(seen[p], current)
  BY <1>2 DEF OpenInv, Ready
<1>4. Ready(p)'
  BY <1>1, <1>2, <1>3 DEF Ready, Creating
<1>5. pc[p] \notin Linked \cup Renamed \cup Creating
  BY <1>2 DEF Linked, Renamed, Creating
<1> QED BY <1>1, <1>2, <1>4, <1>5, QuietOpen

(* The steps between which nothing is on its way to the disk. *)
Resting == {"recovered", "leased", "validated", "serving", "planned", "published",
            "fenced", "sealed_published", "prepared", "rotation_published"}

Rests(p) ==
    /\ pc[p] \in Resting
    /\ pc' = pc \/ \E to : pc' = [pc EXCEPT ![p] = to]
    /\ pc'[p] \in Resting \ {"recovered"}
    /\ seen' = seen
    /\ cursor' = cursor \/ \E x : cursor' = [cursor EXCEPT ![p] = x]
    /\ job' = job \/ \E x : job' = [job EXCEPT ![p] = x]
    /\ UNCHANGED <<current, onDisk, files, stored, objects, unsynced>>

LEMMA RestOpen ==
    ASSUME IInv, OpenInv, NEW p \in Procs,
           \/ AcquireLease(p) \/ Revalidate(p) \/ TailAbsent(p)
           \/ \E c \in Commands : Submit(p, c) \/ SubmitReplay(p, c)
           \/ Answer(p) \/ BeginRotation(p) \/ NextExists(p) \/ Activate(p)
    PROVE  OpenInv'
<1>1. Rests(p)
  <2>1. DOMAIN pc = Procs
    BY DEF IInv, Memory
  <2>2. CASE AcquireLease(p) \/ Revalidate(p)
    BY <2>1, <2>2 DEF Rests, Resting, AcquireLease, Revalidate, Step, memVars, diskVars
  <2>3. CASE TailAbsent(p)
    BY <2>1, <2>3 DEF Rests, Resting, TailAbsent, Boot, diskVars
  <2>4. ASSUME NEW c \in Commands, Submit(p, c) PROVE Rests(p)
    BY <2>1, <2>4 DEF Rests, Resting, Submit, Step, diskVars
  <2>5. ASSUME NEW c \in Commands, SubmitReplay(p, c) PROVE Rests(p)
    BY <2>1, <2>5 DEF Rests, Resting, SubmitReplay, memVars, diskVars
  <2>6. CASE Answer(p)
    BY <2>1, <2>6 DEF Rests, Resting, Answer, Step, diskVars
  <2>7. CASE BeginRotation(p) \/ NextExists(p)
    BY <2>1, <2>7 DEF Rests, Resting, BeginRotation, NextExists, Step, memVars, diskVars
  <2>8. CASE Activate(p)
    BY <2>1, <2>8 DEF Rests, Resting, Activate, Step, diskVars
  <2> QED BY <2>2, <2>3, <2>4, <2>5, <2>6, <2>7, <2>8
<1>2. Apart(p)
  BY <1>1, ApartIs DEF Rests
<1>3. Ready(p)'
  BY <1>1, FreeReady DEF Rests, Resting, Free, Creating
<1>4. pc[p] \notin Linked \cup Renamed \cup Creating
  BY <1>1 DEF Rests, Resting, Linked, Renamed, Creating
<1> QED BY <1>1, <1>2, <1>3, <1>4, QuietOpen DEF Rests

-----------------------------------------------------------------------------
(* The actions that change the ACTIVE file. *)

LEMMA SafeSelf ==
    ASSUME NEW cur, NEW objs, NEW fs, Backed(cur, objs, fs)
    PROVE  Safe(fs, fs, cur)
BY DEF Backed, Safe

LEMMA SafeTail ==
    ASSUME NEW cur, Good(cur), NEW objs, NEW fs, AllFiles(fs), Backed(cur, objs, fs),
           NEW n, n = ActiveId(cur), NEW v \in Seq(TailItem), IsPrefix(Prefix(cur), v),
           NEW fs2, fs2 = WithTail(fs, n, v)
    PROVE  /\ Safe(fs, fs2, cur)
           /\ \A id \in SegmentIds : id # n => fs2[id] = fs[id]
           /\ Holding(fs2[n], cur)
<1>1. n \in SegmentIds /\ n \in Nat /\ n = Len(cur)
  BY ActiveOf
<1>2. fs[n].header = Active(cur).header
  BY DEF Backed, Holding
<1>3. fs2[n].tail = v /\ fs2[n].header = fs[n].header
      /\ \A id \in SegmentIds : id # n => fs2[id] = fs[id]
  BY <1>1, TailSet
<1>4. Holding(fs2[n], cur)
  BY <1>2, <1>3 DEF Holding
<1>5. \A id \in SegmentIds : id < Len(cur) => fs2[id] = fs[id]
  BY <1>1, <1>3
<1> QED BY <1>3, <1>4, <1>5 DEF Safe

WithFile(fs, id, f) == [fs EXCEPT ![id] = f]

LEMMA SafeSet ==
    ASSUME NEW cur, Good(cur), NEW fs, AllFiles(fs), NEW n, n = ActiveId(cur),
           NEW f, Holding(f, cur), NEW fs2, fs2 = WithFile(fs, n, f)
    PROVE  /\ Safe(fs, fs2, cur)
           /\ \A id \in SegmentIds : id # n => fs2[id] = fs[id]
<1>1. n \in SegmentIds /\ n \in Nat /\ n = Len(cur)
  BY ActiveOf
<1>2. fs2[n] = f /\ \A id \in SegmentIds : id # n => fs2[id] = fs[id]
  BY <1>1 DEF AllFiles, WithFile
<1>3. \A id \in SegmentIds : id < Len(cur) => fs2[id] = fs[id]
  BY <1>1, <1>2
<1> QED BY <1>2, <1>3 DEF Safe

LEMMA FilesOpen ==
    ASSUME IInv, IInv', OpenInv, NEW p \in Procs, pc[p] \in Held, Apart(p), Ready(p)',
           UNCHANGED <<current, onDisk, objects, unsynced>>,
           pc[p] \notin Linked, pc[p] \notin Renamed, pc[p] \notin Creating,
           Safe(files, files', current), PowerFails => Safe(stored, stored', current),
           \A id \in SegmentIds : id # ActiveId(current) =>
               files'[id] = files[id] /\ stored'[id] = stored[id]
    PROVE  OpenInv'
<1>1. ActiveId(current) = Len(current) /\ Len(current) \in Nat
  BY PublishedGood, ActiveOf
<1>2. \A id \in SegmentIds : id > Len(current) =>
        stored'[id] = stored[id] /\ files'[id] = files[id]
  BY <1>1
<1>3. PowerFails => unsynced' = {} \/ Someone(Linked)'
  <2>1. PowerFails => unsynced = {} \/ Someone(Linked)
    BY DEF OpenInv, Secure
  <2> QED BY <2>1, SomeoneStays
<1> QED BY <1>2, <1>3, BehindOpen

(* What holds of the disk when the holder takes a step. *)
LEMMA DiskFacts ==
    ASSUME IInv, OpenInv
    PROVE  /\ Good(current) /\ AllFiles(files) /\ AllFiles(stored)
           /\ Backed(current, objects, files) /\ Safe(files, files, current)
           /\ PowerFails => Safe(stored, stored, current)
<1>1. Backed(current, objects, files) /\ (PowerFails => Backed(current, objects \ unsynced, stored))
  BY DEF OpenInv, Published, Secure
<1> QED BY <1>1, PublishedGood, SafeSelf

LEMMA TruncateTailOpen ==
    ASSUME IInv, IInv', OpenInv, NEW p \in Procs, TruncateTail(p)
    PROVE  OpenInv'
<1>1. /\ Step(p, "validated", "truncated") /\ UNCHANGED <<seen, memVars>>
      /\ files' = WithTail(files, ActiveId(seen[p]), Prefix(seen[p]))
      /\ UNCHANGED <<current, onDisk, stored, objects, unsynced>>
  BY DEF TruncateTail, KeptByTruncation, WithTail
<1>2. Apart(p) /\ pc[p] = "validated" /\ pc'[p] = "truncated"
  BY <1>1, ApartStep
<1>3. seen[p] = current
  <2>1. Local(p, pc[p], seen[p], cursor[p], index[p], tx[p], job[p], holder, current, onDisk, files)
    BY Standing
  <2> QED BY <1>2, <2>1 DEF Local
<1>4. Prefix(current) \in Seq(TailItem) /\ IsPrefix(Prefix(current), Prefix(current))
  BY PublishedGood, ActiveOf, PrefixSelf
<1>5. /\ Safe(files, files', current)
      /\ \A id \in SegmentIds : id # ActiveId(current) => files'[id] = files[id]
  BY <1>1, <1>3, <1>4, DiskFacts, SafeTail
<1>6. Ready(p)'
  BY <1>2, FreeReady DEF Free, Creating
<1>7. /\ pc[p] \in Held /\ pc[p] \notin Linked /\ pc[p] \notin Renamed /\ pc[p] \notin Creating
  BY <1>2 DEF Held, Linked, Renamed, Creating
<1> QED BY <1>1, <1>2, <1>5, <1>6, <1>7, DiskFacts, FilesOpen

LEMMA SyncTruncatedOpen ==
    ASSUME IInv, IInv', OpenInv, NEW p \in Procs, SyncTruncated(p)
    PROVE  OpenInv'
<1>1. /\ pc[p] = "truncated" /\ pc' = [pc EXCEPT ![p] = "serving"]
      /\ cursor' = [cursor EXCEPT ![p] = seen[p]] /\ UNCHANGED <<seen, job>>
      /\ stored' = [stored EXCEPT ![ActiveId(seen[p])] = files[ActiveId(seen[p])]]
      /\ UNCHANGED <<current, onDisk, files, objects, unsynced>>
  BY DEF SyncTruncated, Boot
<1>2. Apart(p)
  BY <1>1, ApartIs
<1>3. pc'[p] = "serving"
  BY <1>1 DEF IInv, Memory
<1>4. seen[p] = current
  <2>1. Local(p, pc[p], seen[p], cursor[p], index[p], tx[p], job[p], holder, current, onDisk, files)
    BY Standing
  <2> QED BY <1>1, <2>1 DEF Local
<1>5. Holding(files[ActiveId(current)], current)
  BY DiskFacts DEF Backed
<1>6. /\ Safe(stored, stored', current)
      /\ \A id \in SegmentIds : id # ActiveId(current) => stored'[id] = stored[id]
  <2>1. stored' = WithFile(stored, ActiveId(current), files[ActiveId(current)])
    BY <1>1, <1>4 DEF WithFile
  <2>2. Good(current) /\ AllFiles(stored)
    BY DiskFacts
  <2> QED BY <1>5, <2>1, <2>2, SafeSet
<1>7. Ready(p)'
  BY <1>3, FreeReady DEF Free, Creating
<1>8. /\ pc[p] \in Held /\ pc[p] \notin Linked /\ pc[p] \notin Renamed /\ pc[p] \notin Creating
  BY <1>1 DEF Held, Linked, Renamed, Creating
<1> QED BY <1>1, <1>2, <1>6, <1>7, <1>8, DiskFacts, FilesOpen

LEMMA WriteFrameOpen ==
    ASSUME IInv, IInv', OpenInv, NEW p \in Procs, WriteFrame(p)
    PROVE  OpenInv'
<1> DEFINE man == cursor[p]
           fr == NewFrame(p)
           whole == Append(Prefix(man), fr)
<1>1. /\ Step(p, "planned", "written") /\ UNCHANGED <<seen, memVars>>
      /\ files' = [files EXCEPT ![ActiveId(man)].tail = Append(@, fr)]
      /\ UNCHANGED <<current, onDisk, stored, objects, unsynced>>
  BY DEF WriteFrame
<1>2. Apart(p) /\ pc[p] = "planned" /\ pc'[p] = "written"
  BY <1>1, ApartStep
<1>3. man = current /\ files[ActiveId(man)].tail = Prefix(man) /\ fr \in Frames
  <2>1. man = current
    BY <1>2, CursorIsCurrent DEF Serving, Committing, Swapped, RotationSwapped
  <2>2. Local(p, pc[p], seen[p], man, index[p], tx[p], job[p], holder, current, onDisk, files)
    BY Standing
  <2>3. files[ActiveId(man)].tail = Prefix(man)
    BY <1>2, <2>2 DEF Local
  <2>4. fr \in Frames
    BY <1>2, CommittingParts DEF Committing
  <2> QED BY <2>1, <2>3, <2>4
<1>4. whole \in Seq(TailItem) /\ IsPrefix(Prefix(man), whole)
  <2>1. Prefix(man) \in Seq(Frames) /\ Prefix(man) \in Seq(TailItem) /\ fr \in TailItem
    BY <1>3, PublishedGood, ActiveOf DEF TailItem
  <2> HIDE DEF fr
  <2> QED BY <2>1, PrefixAppend, AppendProperties
<1> HIDE DEF fr, man
<1>5. files' = WithTail(files, ActiveId(man), whole)
  BY <1>1, <1>3 DEF WithTail
<1> HIDE DEF whole
<1>6. /\ Safe(files, files', current)
      /\ \A id \in SegmentIds : id # ActiveId(current) => files'[id] = files[id]
  BY <1>3, <1>4, <1>5, DiskFacts, SafeTail
<1>7. Ready(p)'
  BY <1>2, FreeReady DEF Free, Creating
<1>8. /\ pc[p] \in Held /\ pc[p] \notin Linked /\ pc[p] \notin Renamed /\ pc[p] \notin Creating
  BY <1>2 DEF Held, Serving, Committing, Linked, Renamed, Creating
<1> QED BY <1>1, <1>2, <1>6, <1>7, <1>8, DiskFacts, FilesOpen

(* The file's fsync: what it holds is on disk. *)
LEMMA SyncFrameOpen ==
    ASSUME IInv, IInv', OpenInv, NEW p \in Procs, SyncFrame(p)
    PROVE  OpenInv'
<1>1. /\ Step(p, "written", "synced") /\ UNCHANGED <<seen, memVars>>
      /\ stored' = [stored EXCEPT ![ActiveId(cursor[p])] = files[ActiveId(cursor[p])]]
      /\ UNCHANGED <<current, onDisk, files, objects, unsynced>>
  BY DEF SyncFrame
<1>2. Apart(p) /\ pc[p] = "written" /\ pc'[p] = "synced"
  BY <1>1, ApartStep
<1>3. cursor[p] = current
  BY <1>2, CursorIsCurrent DEF Serving, Committing, Written, Swapped, RotationSwapped
<1>4. Holding(files[ActiveId(current)], current)
  BY DiskFacts DEF Backed
<1>5. /\ Safe(stored, stored', current)
      /\ \A id \in SegmentIds : id # ActiveId(current) => stored'[id] = stored[id]
  <2>1. stored' = WithFile(stored, ActiveId(current), files[ActiveId(current)])
    BY <1>1, <1>3 DEF WithFile
  <2>2. Good(current) /\ AllFiles(stored)
    BY DiskFacts
  <2> QED BY <1>4, <2>1, <2>2, SafeSet
<1>6. Ready(p)'
  <2>1. cursor'[p] = cursor[p] /\ files' = files
    BY <1>1 DEF memVars
  <2>2. ActiveId(current) \in SegmentIds
    BY PublishedGood, ActiveOf
  <2>3. stored'[ActiveId(cursor[p])] = files[ActiveId(cursor[p])]
    BY <1>1, <1>3, <2>2, DiskFacts DEF AllFiles
  <2> QED BY <1>2, <2>1, <2>3 DEF Ready, Creating
<1>7. /\ pc[p] \in Held /\ pc[p] \notin Linked /\ pc[p] \notin Renamed /\ pc[p] \notin Creating
  BY <1>2 DEF Held, Serving, Committing, Written, Linked, Renamed, Creating
<1> QED BY <1>1, <1>2, <1>5, <1>6, <1>7, DiskFacts, FilesOpen

(* A footer after the published prefix: torn, then whole. *)
LEMMA FooterSafe ==
    ASSUME NEW fr \in Seq(Frames), NEW v \in {Append(fr, Footer), Append(fr, TornFooter)}
    PROVE  v \in Seq(TailItem) /\ IsPrefix(fr, v)
<1>1. fr \in Seq(TailItem)
  BY DEF TailItem
<1>2. Footer \in TailItem /\ TornFooter \in TailItem
  BY DEF TailItem
<1> HIDE DEF Footer, TornFooter
<1>3. IsPrefix(fr, Append(fr, Footer)) /\ IsPrefix(fr, Append(fr, TornFooter))
  BY <1>1, <1>2, PrefixAppend
<1> QED BY <1>3, FooterTail

LEMMA SealWriteOpen ==
    ASSUME IInv, IInv', OpenInv, NEW p \in Procs, SealWrite(p)
    PROVE  OpenInv'
<1> DEFINE id == ActiveId(cursor[p])
           whole == Append(Prefix(cursor[p]), Footer)
           torn == Append(Prefix(cursor[p]), TornFooter)
<1>1. PICK to \in {"sealed", "sealing"}, v \in {whole, torn} :
        /\ Step(p, "fenced", to) /\ files' = WithTail(files, id, v)
        /\ UNCHANGED <<current, onDisk, stored, objects, unsynced>> /\ UNCHANGED <<seen, memVars>>
  <2>1. CASE FileTail(cursor[p]) = whole
    BY <2>1 DEF SealWrite, Step, WithTail
  <2>2. CASE FileTail(cursor[p]) # whole
    BY <2>2 DEF SealWrite, Step, WithTail
  <2> QED BY <2>1, <2>2
<1>2. Apart(p) /\ pc[p] = "fenced" /\ pc'[p] = to
  BY <1>1, ApartStep
<1>3. cursor[p] = current
  BY <1>2, CursorIsCurrent DEF Serving, Rotating, Swapped, RotationSwapped
<1>4. v \in Seq(TailItem) /\ IsPrefix(Prefix(current), v)
  <2>1. Prefix(current) \in Seq(Frames)
    BY PublishedGood, ActiveOf
  <2> QED BY <1>3, <2>1, FooterSafe
<1> HIDE DEF whole, torn
<1>5. /\ Safe(files, files', current)
      /\ \A i \in SegmentIds : i # ActiveId(current) => files'[i] = files[i]
  BY <1>1, <1>3, <1>4, DiskFacts, SafeTail
<1>6. Ready(p)'
  BY <1>2, FreeReady DEF Free, Creating
<1>7. /\ pc[p] \in Held /\ pc[p] \notin Linked /\ pc[p] \notin Renamed /\ pc[p] \notin Creating
  BY <1>2 DEF Held, Serving, Rotating, Linked, Renamed, Creating
<1> QED BY <1>1, <1>2, <1>5, <1>6, <1>7, DiskFacts, FilesOpen

LEMMA SealSyncOpen ==
    ASSUME IInv, IInv', OpenInv, NEW p \in Procs, SealSync(p)
    PROVE  OpenInv'
<1> DEFINE id == ActiveId(cursor[p])
           whole == Append(Prefix(cursor[p]), Footer)
<1>1. /\ Step(p, "sealing", "sealed") /\ files' = WithTail(files, id, whole)
      /\ stored' = WithFile(stored, id, files'[id])
      /\ UNCHANGED <<current, onDisk, objects, unsynced>> /\ UNCHANGED <<seen, memVars>>
  BY DEF SealSync, WithTail, WithFile
<1>2. Apart(p) /\ pc[p] = "sealing" /\ pc'[p] = "sealed"
  BY <1>1, ApartStep
<1>3. cursor[p] = current
  BY <1>2, CursorIsCurrent DEF Serving, Rotating, Swapped, RotationSwapped
<1>4. whole \in Seq(TailItem) /\ IsPrefix(Prefix(current), whole)
  <2>1. Prefix(current) \in Seq(Frames)
    BY PublishedGood, ActiveOf
  <2> QED BY <1>3, <2>1, FooterSafe
<1> HIDE DEF whole
<1>5. /\ Safe(files, files', current) /\ Holding(files'[ActiveId(current)], current)
      /\ \A i \in SegmentIds : i # ActiveId(current) => files'[i] = files[i]
  BY <1>1, <1>3, <1>4, DiskFacts, SafeTail
<1>6. /\ Safe(stored, stored', current)
      /\ \A i \in SegmentIds : i # ActiveId(current) => stored'[i] = stored[i]
  BY <1>1, <1>3, <1>5, DiskFacts, SafeSet
<1>7. Ready(p)'
  BY <1>2, FreeReady DEF Free, Creating
<1>8. /\ pc[p] \in Held /\ pc[p] \notin Linked /\ pc[p] \notin Renamed /\ pc[p] \notin Creating
  BY <1>2 DEF Held, Serving, Rotating, Linked, Renamed, Creating
<1> QED BY <1>1, <1>2, <1>5, <1>6, <1>7, <1>8, DiskFacts, FilesOpen

-----------------------------------------------------------------------------
(* The object store. *)

LEMMA PutParts ==
    ASSUME IInv, NEW p \in Procs, NEW o, NEW linked, NEW done, PutObject(p, o, linked, done)
    PROVE  /\ Apart(p) /\ pc'[p] \in {linked, done}
           /\ o \in objects' /\ objects \subseteq objects'
           /\ objects \ unsynced \subseteq objects' \ unsynced'
           /\ unsynced' = unsynced \/ pc'[p] = linked
           /\ UNCHANGED <<current, onDisk, files, stored, seen, cursor, job>>
<1>1. /\ UNCHANGED <<current, onDisk, files, stored>> /\ UNCHANGED <<seen, memVars>>
      /\ UNCHANGED <<seen, cursor, job>>
  BY DEF PutObject, memVars
<1>2. PICK to \in {linked, done} :
        /\ Step(p, pc[p], to)
        /\ \/ o \in objects /\ objects' = objects /\ unsynced' = unsynced
           \/ /\ o \notin objects /\ to = linked
              /\ objects' = objects \cup {o} /\ unsynced' = unsynced \cup {o}
  BY DEF PutObject
<1>3. Apart(p) /\ pc'[p] = to
  BY <1>1, <1>2, ApartStep
<1>4. o \in objects' /\ objects \subseteq objects' /\ objects \ unsynced \subseteq objects' \ unsynced'
  BY <1>2
<1> QED BY <1>1, <1>2, <1>3, <1>4

LEMMA PutOpen ==
    ASSUME IInv, IInv', OpenInv, NEW p \in Procs, pc[p] \in Held,
           pc[p] \notin Linked, pc[p] \notin Renamed, pc[p] \notin Creating,
           NEW o, NEW linked \in Linked, NEW done, PutObject(p, o, linked, done), Ready(p)'
    PROVE  OpenInv'
<1>1. /\ Apart(p) /\ objects \subseteq objects' /\ objects \ unsynced \subseteq objects' \ unsynced'
      /\ unsynced' = unsynced \/ pc'[p] = linked
      /\ UNCHANGED <<current, onDisk, files, stored>>
  BY PutParts
<1>2. PowerFails => unsynced' = {} \/ Someone(Linked)'
  <2>1. PowerFails => unsynced = {} \/ Someone(Linked)
    BY DEF OpenInv, Secure
  <2>2. Someone(Linked) => Someone(Linked)'
    BY <1>1, SomeoneStays
  <2>3. pc'[p] = linked => Someone(Linked)'
    BY DEF Someone
  <2> QED BY <1>1, <2>1, <2>2, <2>3
<1>3. Safe(files, files', current) /\ (PowerFails => Safe(stored, stored', current))
  BY <1>1, DiskFacts
<1> QED BY <1>1, <1>2, <1>3, BehindOpen

(* The writer's frame is in the file that it is going to publish. *)
LEMMA FrameWritten ==
    ASSUME IInv, OpenInv, NEW p \in Procs, pc[p] \in Written \ Swapped
    PROVE  /\ cursor[p] = current /\ Good(current) /\ NewFrame(p) \in Frames
           /\ BatchCandidate(p) = Batch(current, NewFrame(p))
           /\ files[ActiveId(current)].header = Active(current).header
           /\ files[ActiveId(current)].tail = Append(Prefix(current), NewFrame(p))
<1>1. cursor[p] = current
  BY CursorIsCurrent DEF Serving, Committing, Written, Swapped, RotationSwapped
<1>2. /\ NewFrame(p) = Frame(job[p], cursor[p]) /\ NewFrame(p) \in Frames
      /\ BatchCandidate(p) = Batch(cursor[p], NewFrame(p)) /\ Good(cursor[p])
  BY CommittingParts DEF Committing
<1>3. files[ActiveId(cursor[p])].tail = Append(Prefix(cursor[p]), Frame(job[p], cursor[p]))
  <2>1. Local(p, pc[p], seen[p], cursor[p], index[p], tx[p], job[p], holder, current, onDisk, files)
    BY Standing
  <2> QED BY <2>1 DEF Local
<1>4. files[ActiveId(current)].header = Active(current).header
  BY DiskFacts DEF Backed, Holding
<1> QED BY <1>1, <1>2, <1>3, <1>4

LEMMA PutBatchOpen ==
    ASSUME IInv, IInv', OpenInv, NEW p \in Procs, PutBatch(p)
    PROVE  OpenInv'
<1> DEFINE fr == NewFrame(p)
<1>1. /\ pc[p] = "synced"
      /\ PutObject(p, Publication(BatchCandidate(p)), "record_linked", "recorded")
  BY DEF PutBatch
<1>2. /\ pc'[p] \in {"record_linked", "recorded"}
      /\ Publication(BatchCandidate(p)) \in objects' /\ objects \subseteq objects'
      /\ UNCHANGED <<current, onDisk, files, stored, seen, cursor, job>>
  BY <1>1, PutParts
<1>3. /\ Good(current) /\ fr \in Frames /\ BatchCandidate(p) = Batch(current, fr)
      /\ files[ActiveId(current)].header = Active(current).header
      /\ files[ActiveId(current)].tail = Append(Prefix(current), fr)
  BY <1>1, FrameWritten DEF Written, Swapped
<1>4. Backed(BatchCandidate(p), objects', files)
  <2> HIDE DEF fr
  <2>1. Backed(current, objects, files)
    BY DiskFacts
  <2> QED BY <1>2, <1>3, <2>1, BackedBatch
<1>5. BatchCandidate(p)' = BatchCandidate(p)
  BY <1>2 DEF BatchCandidate, NewFrame
<1>6. PowerFails => stored[ActiveId(cursor[p])] = files[ActiveId(cursor[p])]
  BY <1>1 DEF OpenInv, Ready
<1>7. Ready(p)'
  BY <1>2, <1>4, <1>5, <1>6 DEF Ready, Creating
<1>8. /\ pc[p] \in Held /\ pc[p] \notin Linked /\ pc[p] \notin Renamed /\ pc[p] \notin Creating
  BY <1>1 DEF Held, Serving, Committing, Written, Linked, Renamed, Creating
<1>9. "record_linked" \in Linked
  BY DEF Linked
<1> QED BY <1>1, <1>7, <1>8, <1>9, PutOpen

LEMMA PublishSealedOpen ==
    ASSUME IInv, IInv', OpenInv, NEW p \in Procs, PublishSealed(p)
    PROVE  OpenInv'
<1>1. pc[p] = "sealed" /\ PutObject(p, SealedSegment(p), "sealed_linked", "sealed_published")
  BY DEF PublishSealed
<1>2. pc'[p] \in {"sealed_linked", "sealed_published"}
  BY <1>1, PutParts
<1>3. Ready(p)'
  BY <1>2, FreeReady DEF Free, Creating
<1>4. /\ pc[p] \in Held /\ pc[p] \notin Linked /\ pc[p] \notin Renamed /\ pc[p] \notin Creating
  BY <1>1 DEF Held, Serving, Rotating, Linked, Renamed, Creating
<1>5. "sealed_linked" \in Linked
  BY DEF Linked
<1> QED BY <1>1, <1>3, <1>4, <1>5, PutOpen

(* publish_rotation opened the candidate: what it names is there. *)
LEMMA PutRotationOpen ==
    ASSUME IInv, IInv', OpenInv, NEW p \in Procs, PutRotation(p)
    PROVE  OpenInv'
<1> DEFINE man == RotationCandidate(p)
<1>1. /\ pc[p] = "prepared" /\ Opens(man)
      /\ PutObject(p, Publication(man), "rotation_linked", "rotation_recorded")
  BY DEF PutRotation
<1>2. /\ pc'[p] \in {"rotation_linked", "rotation_recorded"}
      /\ Publication(man) \in objects' /\ objects \subseteq objects'
      /\ UNCHANGED <<current, onDisk, files, stored, seen, cursor, job>>
  BY <1>1, PutParts
<1>3. Good(man)
  BY <1>1, RotatingParts DEF Rotating
<1>4. Backed(man, objects', files)
  <2>1. \A k \in DOMAIN man : SegmentReads(man[k])
    BY <1>1 DEF Opens
  <2> HIDE DEF man
  <2>2. /\ Holding(files[ActiveId(man)], man)
        /\ \A k \in 1..Len(man) : k < Len(man) => man[k] \in objects
    BY <1>3, <2>1, BackedReads
  <2> QED BY <1>2, <2>2 DEF Backed
<1> HIDE DEF man
<1>5. RotationCandidate(p)' = man
  <2>1. NextId(p)' = NextId(p)
    BY <1>2 DEF NextId
  <2> QED BY <1>2, <2>1 DEF RotationCandidate, SealedSegment, NextHeader, man
<1>6. Ready(p)'
  BY <1>2, <1>4, <1>5 DEF Ready, Creating
<1>7. /\ pc[p] \in Held /\ pc[p] \notin Linked /\ pc[p] \notin Renamed /\ pc[p] \notin Creating
  BY <1>1 DEF Held, Serving, Rotating, Linked, Renamed, Creating
<1>8. "rotation_linked" \in Linked
  BY DEF Linked
<1> QED BY <1>1, <1>6, <1>7, <1>8, PutOpen

-----------------------------------------------------------------------------
LEMMA SyncObjectsOpen ==
    ASSUME IInv, IInv', OpenInv, NEW p \in Procs, SyncObjects(p)
    PROVE  OpenInv'
<1>1. /\ unsynced' = {} /\ UNCHANGED <<current, onDisk, files, stored, objects>>
      /\ UNCHANGED <<seen, memVars>> /\ UNCHANGED <<seen, cursor, job>>
  BY DEF SyncObjects, memVars
<1>2. PICK from, to : /\ Step(p, from, to)
                      /\ \/ from = "record_linked" /\ to = "recorded"
                         \/ from = "sealed_linked" /\ to = "sealed_published"
                         \/ from = "rotation_linked" /\ to = "rotation_recorded"
  BY DEF SyncObjects
<1>3. Apart(p) /\ pc[p] = from /\ pc'[p] = to
  BY <1>1, <1>2, ApartStep
<1>4. Ready(p)'
  <2>1. Ready(p)
    BY DEF OpenInv
  <2>2. BatchCandidate(p)' = BatchCandidate(p)
    BY <1>1 DEF BatchCandidate, NewFrame
  <2>3. RotationCandidate(p)' = RotationCandidate(p)
    BY <1>1 DEF RotationCandidate, SealedSegment, NextHeader, NextId
  <2>4. CASE from = "sealed_linked"
    BY <1>2, <1>3, <2>4, FreeReady DEF Free, Creating
  <2>5. CASE from = "record_linked"
    BY <1>1, <1>2, <1>3, <2>1, <2>2, <2>5 DEF Ready, Creating
  <2>6. CASE from = "rotation_linked"
    BY <1>1, <1>2, <1>3, <2>1, <2>3, <2>6 DEF Ready, Creating
  <2> QED BY <1>2, <2>4, <2>5, <2>6
<1>5. pc[p] \in Held /\ pc[p] \notin Renamed /\ pc[p] \notin Creating
  BY <1>2, <1>3 DEF Held, Serving, Committing, Written, Rotating, Renamed, Creating
<1>6. Safe(files, files', current) /\ (PowerFails => Safe(stored, stored', current))
  BY <1>1, DiskFacts
<1>7. objects \ unsynced \subseteq objects' \ unsynced'
  BY <1>1
<1> QED BY <1>1, <1>3, <1>4, <1>5, <1>6, <1>7, BehindOpen

-----------------------------------------------------------------------------
(* CURRENT is replaced, and its directory synced. *)

LEMMA NobodyElse ==
    ASSUME IInv, NEW p \in Procs, pc[p] \in Held, NEW S, S \subseteq Held, pc[p] \notin S
    PROVE  ~Someone(S)
<1>1. \A q \in Procs : q # p => pc[q] \notin Held
  BY HolderAlone
<1> QED BY <1>1 DEF Someone

LEMMA SyncCurrentOpen ==
    ASSUME IInv, IInv', OpenInv, NEW p \in Procs, SyncCurrent(p)
    PROVE  OpenInv'
<1>1. /\ onDisk' = current /\ UNCHANGED <<current, files, stored, objects, unsynced>>
      /\ UNCHANGED <<seen, memVars>>
  BY DEF SyncCurrent, CurrentSynced, diskVars
<1>2. PICK from, to : /\ Step(p, from, to)
                      /\ \/ from = "replaced" /\ to = "published"
                         \/ from = "rotation_replaced" /\ to = "rotation_published"
  BY DEF SyncCurrent
<1>3. Apart(p) /\ pc[p] = from /\ pc'[p] = to
  BY <1>1, <1>2, ApartStep
<1>4. Published'
  <2>1. Leads(current, current)
    BY PublishedGood, LeadsSelf
  <2> QED BY <1>1, <2>1 DEF OpenInv, Published
<1>5. ASSUME PowerFails PROVE Secure'
  <2>1. Secure
    BY <1>5 DEF OpenInv
  <2>2. pc[p] \notin Linked /\ pc[p] \notin Creating
    BY <1>2, <1>3 DEF Linked, Creating
  <2>3. /\ Someone(Linked) => Someone(Linked)'
        /\ Someone(Creating) => Someone(Creating)'
    BY <1>3, <2>2, SomeoneStays
  <2> QED BY <1>1, <2>1, <2>3 DEF Secure
<1>6. Ready(p)'
  BY <1>2, <1>3, FreeReady DEF Free, Creating
<1>7. \A q \in Procs : q # p => Ready(q)'
  BY <1>1, <1>3, SameReady DEF OpenInv, Apart
<1> QED BY <1>4, <1>5, <1>6, <1>7 DEF OpenInv

LEMMA SwapOpen ==
    ASSUME IInv, IInv', OpenInv, NEW p \in Procs, pc[p] \in Held, Apart(p),
           pc'[p] \in Renamed, UNCHANGED <<onDisk, files, stored, objects, unsynced>>,
           Leads(current, current'), Backed(current', objects, files),
           PowerFails =>
               /\ unsynced = {} /\ Backed(current', objects, stored)
               /\ \A id \in SegmentIds : id > Len(current') => stored[id] = files[id]
    PROVE  OpenInv'
<1>1. Good(current) /\ Good(onDisk) /\ Good(current') /\ Published
  <2>1. Good(current')
    BY DEF IInv, Disk
  <2> QED BY <2>1, PublishedGood DEF OpenInv
<1>2. Leads(onDisk, current')
  BY <1>1, LeadsOn DEF Published
<1>3. Published'
  BY <1>1, <1>2 DEF Published
<1>4. ASSUME PowerFails PROVE Secure'
  <2>1. Secure
    BY <1>4 DEF OpenInv
  <2>2. Someone(Renamed)'
    BY DEF Someone
  <2>3. objects \ unsynced = objects
    BY <1>4
  <2> QED BY <1>4, <2>1, <2>2, <2>3 DEF Secure
<1>5. Ready(p)'
  BY FreeReady DEF Free, Creating, Renamed
<1>6. Safe(files, files', current)
  BY DiskFacts
<1>7. \A q \in Procs : q # p => Ready(q)'
  BY <1>6, OtherReady DEF OpenInv
<1> QED BY <1>3, <1>4, <1>5, <1>7 DEF OpenInv

LEMMA ReplaceCurrentOpen ==
    ASSUME IInv, IInv', OpenInv, NEW p \in Procs, ReplaceCurrent(p)
    PROVE  OpenInv'
<1> DEFINE fr == NewFrame(p)
<1>1. /\ Step(p, "recorded", "replaced") /\ UNCHANGED <<seen, memVars>>
      /\ current' = BatchCandidate(p)
      /\ UNCHANGED <<onDisk, files, stored, objects, unsynced>>
  BY DEF ReplaceCurrent, diskVars
<1>2. Apart(p) /\ pc[p] = "recorded" /\ pc'[p] = "replaced"
  BY <1>1, ApartStep
<1>3. /\ cursor[p] = current /\ Good(current) /\ fr \in Frames /\ current' = Batch(current, fr)
  BY <1>1, <1>2, FrameWritten DEF Written, Swapped
<1> HIDE DEF fr
<1>4. /\ Leads(current, current') /\ Len(current') = Len(current)
      /\ ActiveId(current') = ActiveId(current)
  BY <1>3, BatchLeads, BatchSegments, BatchActive
<1>5. Backed(current', objects, files)
  BY <1>1, <1>2 DEF OpenInv, Ready
<1>6. pc[p] \in Held /\ pc'[p] \in Renamed
  BY <1>2 DEF Held, Serving, Committing, Written, Renamed
<1>7. ASSUME PowerFails
      PROVE  /\ unsynced = {} /\ Backed(current', objects, stored)
             /\ \A id \in SegmentIds : id > Len(current') => stored[id] = files[id]
  <2>1. Secure /\ Ready(p)
    BY <1>7 DEF OpenInv
  <2>2. ~Someone(Linked) /\ ~Someone(Creating)
    <3>1. /\ pc[p] \notin Linked /\ pc[p] \notin Creating /\ Linked \subseteq Held
          /\ Creating \subseteq Held
      BY <1>2 DEF Held, Serving, Committing, Written, Rotating, Linked, Creating
    <3> QED BY <1>6, <3>1, NobodyElse
  <2>3. unsynced = {} /\ \A id \in SegmentIds : id > Len(current) => stored[id] = files[id]
    BY <2>1, <2>2 DEF Secure
  <2>4. stored[ActiveId(current')] = files[ActiveId(current')]
    BY <1>2, <1>3, <1>4, <1>7, <2>1 DEF Ready
  <2>5. Backed(current', objects, stored)
    BY <1>5, <2>4 DEF Backed
  <2> QED BY <1>4, <2>3, <2>5
<1> QED BY <1>1, <1>2, <1>4, <1>5, <1>6, <1>7, SwapOpen

LEMMA ReplaceByRotationOpen ==
    ASSUME IInv, IInv', OpenInv, NEW p \in Procs, ReplaceByRotation(p)
    PROVE  OpenInv'
<1>1. /\ Step(p, "rotation_recorded", "rotation_replaced") /\ UNCHANGED <<seen, memVars>>
      /\ current' = RotationCandidate(p)
      /\ UNCHANGED <<onDisk, files, stored, objects, unsynced>>
  BY DEF ReplaceByRotation, diskVars
<1>2. Apart(p) /\ pc[p] = "rotation_recorded" /\ pc'[p] = "rotation_replaced"
  BY <1>1, ApartStep
<1>3. cursor[p] = current
  BY <1>2, CursorIsCurrent DEF Serving, Rotating, Swapped, RotationSwapped
<1>4. /\ current' = Rotated(current) /\ Good(current) /\ Prefix(current) # <<>>
      /\ ActiveId(current) + 1 \in SegmentIds /\ ActiveId(current') = ActiveId(current) + 1
  <2>1. /\ RotationCandidate(p) = Rotated(cursor[p]) /\ Good(cursor[p])
        /\ ActiveId(RotationCandidate(p)) = NextId(p) /\ NextId(p) \in SegmentIds
    BY <1>2, RotatingParts DEF Rotating
  <2>2. Prefix(cursor[p]) # <<>>
    <3>1. Local(p, pc[p], seen[p], cursor[p], index[p], tx[p], job[p], holder, current, onDisk, files)
      BY Standing
    <3> QED BY <1>2, <3>1 DEF Local, Rotating
  <2> QED BY <1>1, <1>3, <2>1, <2>2 DEF NextId
<1>5. Leads(current, current') /\ Len(current') = Len(current) + 1 /\ Len(current) \in Nat
      /\ ActiveId(current) = Len(current)
  BY <1>4, RotationLeads, ActiveOf
<1>6. Backed(current', objects, files)
  BY <1>1, <1>2 DEF OpenInv, Ready
<1>7. pc[p] \in Held /\ pc'[p] \in Renamed
  BY <1>2 DEF Held, Serving, Rotating, Renamed
<1>8. ASSUME PowerFails
      PROVE  /\ unsynced = {} /\ Backed(current', objects, stored)
             /\ \A id \in SegmentIds : id > Len(current') => stored[id] = files[id]
  <2>1. Secure
    BY <1>8 DEF OpenInv
  <2>2. ~Someone(Linked) /\ ~Someone(Creating)
    <3>1. /\ pc[p] \notin Linked /\ pc[p] \notin Creating /\ Linked \subseteq Held
          /\ Creating \subseteq Held
      BY <1>2 DEF Held, Serving, Committing, Written, Rotating, Linked, Creating
    <3> QED BY <1>7, <3>1, NobodyElse
  <2>3. unsynced = {} /\ \A id \in SegmentIds : id > Len(current) => stored[id] = files[id]
    BY <2>1, <2>2 DEF Secure
  <2>4. ASSUME NEW id \in SegmentIds, id > Len(current') \/ id = Len(current')
        PROVE  stored[id] = files[id]
    <3>1. id \in Nat
      BY DEF SegmentIds
    <3> QED BY <1>5, <2>3, <2>4, <3>1
  <2>5. stored[ActiveId(current')] = files[ActiveId(current')]
    BY <1>4, <1>5, <2>4
  <2>6. Backed(current', objects, stored)
    BY <1>6, <2>5 DEF Backed
  <2> QED BY <2>3, <2>4, <2>6
<1> QED BY <1>1, <1>2, <1>5, <1>6, <1>7, <1>8, SwapOpen

-----------------------------------------------------------------------------
(* The next ACTIVE, which CURRENT does not name yet. *)

LEMMA NextParts ==
    ASSUME IInv, NEW p \in Procs, pc[p] \in Rotating \ RotationSwapped
    PROVE  /\ cursor[p] = current /\ pc[p] \in Held
           /\ NextId(p) \in SegmentIds /\ NextId(p) = Len(current) + 1
           /\ ActiveId(current) = Len(current) /\ Len(current) \in Nat
<1>1. cursor[p] = current
  BY CursorIsCurrent DEF Serving, Rotating, Swapped, RotationSwapped
<1>2. ActiveId(current) = Len(current) /\ Len(current) \in Nat
  BY PublishedGood, ActiveOf
<1>3. NextId(p) \in SegmentIds
  BY RotatingParts
<1>4. pc[p] \in Held
  BY DEF Held, Serving
<1> QED BY <1>1, <1>2, <1>3, <1>4 DEF NextId

LEMMA BesideOpen ==
    ASSUME IInv, IInv', OpenInv, NEW p \in Procs, pc[p] \in Rotating \ RotationSwapped,
           pc[p] \notin Linked, Apart(p), Ready(p)',
           UNCHANGED <<current, onDisk, objects, unsynced>>,
           \A id \in SegmentIds : id # NextId(p) => files'[id] = files[id] /\ stored'[id] = stored[id],
           PowerFails => pc'[p] \in Creating \/ stored'[NextId(p)] = files'[NextId(p)]
    PROVE  OpenInv'
<1> DEFINE n == NextId(p)
           N == Len(current)
<1>1. /\ n \in SegmentIds /\ n = N + 1 /\ ActiveId(current) = N /\ N \in Nat /\ pc[p] \in Held
  BY NextParts
<1>2. SegmentIds \subseteq Nat /\ N \in SegmentIds
  BY <1>1, PublishedGood, ActiveOf DEF SegmentIds
<1> HIDE DEF n, N
<1>3. \A id \in SegmentIds : id <= N => files'[id] = files[id] /\ stored'[id] = stored[id]
  BY <1>1, <1>2 DEF n
<1>4. ASSUME NEW fs, NEW fs2, NEW objs, Backed(current, objs, fs),
             \A id \in SegmentIds : id <= N => fs2[id] = fs[id]
      PROVE  Safe(fs, fs2, current)
  <2>1. \A id \in SegmentIds : id < N => fs2[id] = fs[id]
    BY <1>1, <1>2, <1>4
  <2>2. fs2[N] = fs[N]
    BY <1>1, <1>2, <1>4
  <2> QED BY <1>1, <1>4, <2>1, <2>2 DEF Safe, Backed, N
<1>5. Safe(files, files', current)
  BY <1>3, <1>4, DiskFacts
<1>6. Published' /\ \A q \in Procs : q # p => Ready(q)'
  BY <1>1, <1>5, BackedStays
<1>7. ASSUME PowerFails PROVE Secure'
  <2>1. Secure /\ Published
    BY <1>7 DEF OpenInv
  <2>2. Safe(stored, stored', current)
    <3>1. Backed(current, objects \ unsynced, stored)
      BY <2>1 DEF Secure
    <3> QED BY <1>3, <1>4, <3>1
  <2>3. /\ Backed(current', objects' \ unsynced', stored')
        /\ Backed(onDisk', objects' \ unsynced', stored')
    BY <2>1, <2>2, SecureStays
  <2>4. /\ Someone(Linked) => Someone(Linked)'
        /\ Someone(Renamed) => Someone(Renamed)'
    <3>1. pc[p] \notin Renamed
      BY DEF Rotating, RotationSwapped, Renamed
    <3> QED BY <3>1, SomeoneStays
  <2>5. ASSUME NEW id \in SegmentIds, id > N
        PROVE  stored'[id] = files'[id] \/ (id = N + 1 /\ Someone(Creating)')
    <3>1. CASE id = n
      <4>1. pc'[p] \in Creating => Someone(Creating)'
        BY DEF Someone
      <4> QED BY <1>1, <1>7, <3>1, <4>1 DEF n
    <3>2. CASE id # n
      <4>1. stored[id] = files[id]
        BY <1>1, <2>1, <2>5, <3>2 DEF Secure, N
      <4> QED BY <3>2, <4>1 DEF n
    <3> QED BY <3>1, <3>2
  <2>6. N' = N
    BY DEF N
  <2> QED BY <2>1, <2>3, <2>4, <2>5, <2>6 DEF Secure, N
<1> QED BY <1>6, <1>7 DEF OpenInv

LEMMA CreateNextOpen ==
    ASSUME IInv, IInv', OpenInv, NEW p \in Procs, CreateNext(p)
    PROVE  OpenInv'
<1> DEFINE n == NextId(p)
<1>1. /\ Step(p, "sealed_published", "creating") /\ UNCHANGED <<seen, memVars>>
      /\ files[n] = NoFile /\ files' = WithFile(files, n, PartialFile)
      /\ UNCHANGED <<current, onDisk, stored, objects, unsynced>>
  BY DEF CreateNext, WithFile
<1>2. Apart(p) /\ pc[p] = "sealed_published" /\ pc'[p] = "creating" /\ cursor' = cursor
  BY <1>1, ApartStep DEF memVars
<1>3. pc[p] \in Rotating \ RotationSwapped /\ pc[p] \notin Linked /\ pc[p] \notin Creating
      /\ pc'[p] \in Creating /\ Creating \subseteq Held
  BY <1>2 DEF Held, Serving, Rotating, RotationSwapped, Linked, Creating
<1>4. n \in SegmentIds /\ n = Len(current) + 1 /\ Len(current) \in Nat /\ pc[p] \in Held
  BY <1>3, NextParts
<1>5. PowerFails => stored[n] = NoFile
  <2>1. ~Someone(Creating)
    BY <1>3, <1>4, NobodyElse
  <2>2. n > Len(current)
    BY <1>4
  <2>3. PowerFails => stored[n] = files[n]
    BY <1>4, <2>1, <2>2 DEF OpenInv, Secure
  <2> QED BY <1>1, <2>3
<1>6. Ready(p)'
  <2>1. n' = n
    BY <1>2 DEF NextId
  <2> QED BY <1>1, <1>2, <1>5, <2>1 DEF Ready
<1> HIDE DEF n
<1>7. \A id \in SegmentIds : id # n => files'[id] = files[id] /\ stored'[id] = stored[id]
  BY <1>1, <1>4, DiskFacts DEF AllFiles, WithFile
<1> QED BY <1>1, <1>2, <1>3, <1>6, <1>7, BesideOpen DEF n

LEMMA WriteHeaderOpen ==
    ASSUME IInv, IInv', OpenInv, NEW p \in Procs, WriteHeader(p)
    PROVE  OpenInv'
<1> DEFINE n == NextId(p)
<1>1. /\ Step(p, "creating", "header_written") /\ UNCHANGED <<seen, memVars>>
      /\ files' = WithFile(files, n, NextFile(p))
      /\ UNCHANGED <<current, onDisk, stored, objects, unsynced>>
  BY DEF WriteHeader, WithFile
<1>2. Apart(p) /\ pc[p] = "creating" /\ pc'[p] = "header_written" /\ cursor' = cursor
  BY <1>1, ApartStep DEF memVars
<1>3. pc[p] \in Rotating \ RotationSwapped /\ pc[p] \notin Linked
      /\ pc[p] \in Creating /\ pc'[p] \in Creating
  BY <1>2 DEF Rotating, RotationSwapped, Linked, Creating
<1>4. n \in SegmentIds
  BY <1>3, NextParts
<1>5. Ready(p)'
  <2>1. n' = n
    BY <1>2 DEF NextId
  <2>2. PowerFails => stored[n] = NoFile
    BY <1>3 DEF OpenInv, Ready
  <2> QED BY <1>1, <1>2, <2>1, <2>2 DEF Ready
<1> HIDE DEF n
<1>6. \A id \in SegmentIds : id # n => files'[id] = files[id] /\ stored'[id] = stored[id]
  BY <1>1, <1>4, DiskFacts DEF AllFiles, WithFile
<1> QED BY <1>1, <1>2, <1>3, <1>5, <1>6, BesideOpen DEF n

LEMMA SyncHeaderOpen ==
    ASSUME IInv, IInv', OpenInv, NEW p \in Procs, SyncHeader(p)
    PROVE  OpenInv'
<1> DEFINE n == NextId(p)
<1>1. /\ Step(p, "header_written", "prepared") /\ UNCHANGED <<seen, memVars>>
      /\ stored' = WithFile(stored, n, files[n])
      /\ UNCHANGED <<current, onDisk, files, objects, unsynced>>
  BY DEF SyncHeader, WithFile
<1>2. Apart(p) /\ pc[p] = "header_written" /\ pc'[p] = "prepared"
  BY <1>1, ApartStep
<1>3. pc[p] \in Rotating \ RotationSwapped /\ pc[p] \notin Linked
  BY <1>2 DEF Rotating, RotationSwapped, Linked
<1>4. n \in SegmentIds
  BY <1>3, NextParts
<1>5. Ready(p)'
  BY <1>2, FreeReady DEF Free, Creating
<1> HIDE DEF n
<1>6. /\ stored'[n] = files'[n]
      /\ \A id \in SegmentIds : id # n => files'[id] = files[id] /\ stored'[id] = stored[id]
  BY <1>1, <1>4, DiskFacts DEF AllFiles, WithFile
<1> QED BY <1>1, <1>2, <1>3, <1>5, <1>6, BesideOpen DEF n

LEMMA WriteHeaderFailsOpen ==
    ASSUME IInv, IInv', OpenInv, NEW p \in Procs, WriteHeaderFails(p)
    PROVE  OpenInv'
<1> DEFINE n == NextId(p)
<1>1. /\ pc[p] \in Creating /\ Forget(p)
      /\ files' = WithFile(files, n, NoFile)
      /\ UNCHANGED <<current, onDisk, stored, objects, unsynced>>
  BY DEF WriteHeaderFails, WithFile, Creating
<1>2. Apart(p) /\ pc'[p] = "idle"
  BY <1>1, ApartForget
<1>3. pc[p] \in Rotating \ RotationSwapped /\ pc[p] \notin Linked
  BY <1>1 DEF Rotating, RotationSwapped, Linked, Creating
<1>4. n \in SegmentIds
  BY <1>3, NextParts
<1>5. Ready(p)'
  BY <1>2, FreeReady DEF Free, Creating
<1>6. PowerFails => stored[n] = NoFile
  BY <1>1 DEF OpenInv, Ready
<1> HIDE DEF n
<1>7. /\ files'[n] = NoFile
      /\ \A id \in SegmentIds : id # n => files'[id] = files[id] /\ stored'[id] = stored[id]
  BY <1>1, <1>4, DiskFacts DEF AllFiles, WithFile
<1> QED BY <1>1, <1>2, <1>3, <1>5, <1>6, <1>7, BesideOpen DEF n

-----------------------------------------------------------------------------
(* A power loss leaves of a file what both its contents and its last fsync hold. *)

LEMMA CommonHolds ==
    ASSUME NEW S, NEW s \in Seq(S), NEW t \in Seq(S), NEW u \in Seq(S),
           IsPrefix(u, s), IsPrefix(u, t), NEW v \in {s, t},
           NEW m \in CommonLength(s, t)..Len(v)
    PROVE  SubSeq(v, 1, m) \in Seq(S) /\ IsPrefix(u, SubSeq(v, 1, m))
<1> DEFINE n == CommonLength(s, t)
           x == SubSeq(v, 1, m)
<1>1. /\ n \in Nat /\ n <= Len(s) /\ n <= Len(t)
      /\ n < Len(s) /\ n < Len(t) => s[n + 1] # t[n + 1]
  BY CommonLengthType
<1>2. /\ Len(u) \in Nat /\ Len(u) <= Len(s) /\ Len(u) <= Len(t)
      /\ \A i \in 1..Len(u) : u[i] = s[i] /\ u[i] = t[i]
  BY PrefixIs
<1>3. Len(s) \in Nat /\ Len(t) \in Nat /\ v \in Seq(S) /\ Len(v) \in Nat
  OBVIOUS
<1> HIDE DEF n
<1>4. Len(u) <= n
  <2>1. SUFFICES ASSUME n < Len(u) PROVE FALSE
    BY <1>1, <1>2
  <2>2. n + 1 \in 1..Len(u) /\ n < Len(s) /\ n < Len(t)
    BY <1>1, <1>2, <1>3, <2>1
  <2> QED BY <1>1, <1>2, <2>2
<1>5. m \in Nat /\ m <= Len(v) /\ n <= m
  BY <1>1, <1>3 DEF n
<1>6. x \in Seq(S) /\ Len(x) = m /\ \A i \in 1..m : x[i] = v[i]
  <2>1. \A i \in 1..m : v[i] \in S
    BY <1>3, <1>5
  <2> QED BY <1>3, <1>5, <2>1
<1> HIDE DEF x
<1>7. \A i \in 1..Len(u) : u[i] = x[i]
  BY <1>1, <1>2, <1>4, <1>5, <1>6
<1>8. Len(u) <= Len(x)
  BY <1>1, <1>2, <1>4, <1>5, <1>6
<1>9. IsPrefix(u, x)
  BY <1>6, <1>7, <1>8, PrefixIs
<1> QED BY <1>6, <1>9 DEF x

LEMMA SurvivorHolds ==
    ASSUME AllFiles(files), AllFiles(stored), NEW man, Good(man),
           NEW id, id = ActiveId(man), Holding(files[id], man), Holding(stored[id], man),
           NEW f \in Survivors(id)
    PROVE  Holding(f, man)
<1>1. IsFile(files[id]) /\ IsFile(stored[id])
  BY ActiveOf DEF AllFiles
<1>2. CASE stored[id] = NoFile
  BY <1>2 DEF Survivors
<1>3. CASE stored[id] # NoFile
  <2> DEFINE s == files[id].tail
             t == stored[id].tail
             u == Prefix(man)
  <2>1. PICK v \in {s, t} :
          \E m \in CommonLength(s, t)..Len(v) : f = [files[id] EXCEPT !.tail = SubSeq(v, 1, m)]
    BY <1>3 DEF Survivors
  <2>2. PICK m \in CommonLength(s, t)..Len(v) : f = [files[id] EXCEPT !.tail = SubSeq(v, 1, m)]
    BY <2>1
  <2>3. s \in Seq(TailItem) /\ t \in Seq(TailItem) /\ u \in Seq(TailItem)
    BY <1>1, ActiveOf DEF IsFile
  <2>4. IsPrefix(u, s) /\ IsPrefix(u, t) /\ files[id].header = Active(man).header
    BY DEF Holding
  <2>5. SubSeq(v, 1, m) \in Seq(TailItem) /\ IsPrefix(u, SubSeq(v, 1, m))
    <3> HIDE DEF s, t, u
    <3> QED BY <2>3, <2>4, CommonHolds
  <2>6. f.tail = SubSeq(v, 1, m) /\ f.header = files[id].header
    BY <1>1, <2>2, <2>5, FileParts
  <2> QED BY <2>4, <2>5, <2>6 DEF Holding
<1> QED BY <1>2, <1>3

LEMMA PowerLossOpen ==
    ASSUME IInv, OpenInv, PowerLoss
    PROVE  OpenInv'
<1>1. /\ PowerFails /\ current' \in {current, onDisk} /\ onDisk' = current' /\ stored' = files'
      /\ unsynced' = {} /\ pc' = [p \in Procs |-> "idle"]
      /\ objects \ unsynced \subseteq objects'
      /\ \A id \in SegmentIds : files'[id] \in Survivors(id)
  BY DEF PowerLoss
<1>2. Published /\ Secure /\ Good(current) /\ Good(onDisk) /\ AllFiles(files) /\ AllFiles(stored)
  BY <1>1, PublishedGood DEF OpenInv
<1>3. ASSUME NEW man, Good(man), Backed(man, objects, files), Backed(man, objects \ unsynced, stored)
      PROVE  Backed(man, objects', files')
  <2>1. ActiveId(man) \in SegmentIds
    BY <1>3, ActiveOf
  <2>2. files'[ActiveId(man)] \in Survivors(ActiveId(man))
    BY <1>1, <2>1
  <2>3. Holding(files[ActiveId(man)], man) /\ Holding(stored[ActiveId(man)], man)
    BY <1>3 DEF Backed
  <2>4. Holding(files'[ActiveId(man)], man)
    BY <1>2, <1>3, <2>2, <2>3, SurvivorHolds
  <2>5. Publication(man) \in objects' /\ \A k \in 1..Len(man) : k < Len(man) => man[k] \in objects'
    BY <1>1, <1>3 DEF Backed
  <2> QED BY <2>4, <2>5 DEF Backed
<1>4. Good(current') /\ Backed(current', objects', files')
  BY <1>1, <1>2, <1>3 DEF Published, Secure
<1>5. Leads(current', current')
  BY <1>4, LeadsSelf
<1>6. Published'
  BY <1>1, <1>4, <1>5 DEF Published
<1>7. Secure'
  <2>1. objects' \ unsynced' = objects'
    BY <1>1
  <2> QED BY <1>1, <1>4, <2>1 DEF Secure
<1>8. ASSUME NEW p \in Procs PROVE Ready(p)'
  <2>1. pc'[p] = "idle"
    BY <1>1
  <2> QED BY <2>1, FreeReady DEF Free, Creating
<1> QED BY <1>6, <1>7, <1>8 DEF OpenInv

-----------------------------------------------------------------------------
LEMMA InitOpen == Init => OpenInv
<1> SUFFICES ASSUME Init PROVE OpenInv
  OBVIOUS
<1>1. /\ current = Genesis /\ onDisk = Genesis /\ stored = files /\ unsynced = {}
      /\ objects = {Publication(Genesis)} /\ pc = [p \in Procs |-> "idle"]
      /\ files = [id \in SegmentIds |-> IF id = 1 THEN GenesisFile ELSE NoFile]
  BY DEF Init
<1>2. Good(Genesis) /\ Len(Genesis) = 1 /\ ActiveId(Genesis) = 1
      /\ Active(Genesis).header = Header(1, 1, Nil) /\ Prefix(Genesis) = <<>>
  <2>1. Good(Genesis)
    BY GenesisKnown, KnowsGood
  <2> QED BY <2>1 DEF Genesis, Segment, Header, Active, ActiveId, Prefix, Last
<1>3. Holding(files[1], Genesis)
  <2>1. 1 \in SegmentIds
    BY <1>2, ActiveOf
  <2>2. files[1] = GenesisFile
    BY <1>1, <2>1
  <2>3. <<>> \in Seq(Frames)
    OBVIOUS
  <2>4. IsPrefix(<<>>, <<>>)
    BY <2>3, PrefixSelf
  <2> QED BY <1>2, <2>2, <2>4 DEF Holding, GenesisFile
<1>4. Backed(Genesis, objects, files)
  BY <1>1, <1>2, <1>3 DEF Backed
<1>5. Published
  BY <1>1, <1>2, <1>4, LeadsSelf DEF Published
<1>6. Secure
  <2>1. objects \ unsynced = objects
    BY <1>1
  <2> QED BY <1>1, <1>4, <2>1 DEF Secure
<1>7. ASSUME NEW p \in Procs PROVE Ready(p)
  BY <1>1 DEF Ready, Creating
<1> QED BY <1>5, <1>6, <1>7 DEF OpenInv

LEMMA NextOpen ==
    OneKindOfStop => (IInv /\ IInv' /\ OpenInv /\ [Next]_vars => OpenInv')
<1> SUFFICES ASSUME OneKindOfStop, IInv, IInv', OpenInv, [Next]_vars PROVE OpenInv'
  OBVIOUS
<1>1. ASSUME NEW p \in Procs, Resume(p) PROVE OpenInv'
  BY <1>1, ReadCurrentOpen, RecoverOpen, RestOpen, RefusedOpen, TruncateTailOpen,
     SyncTruncatedOpen DEF Resume
<1>2. ASSUME NEW p \in Procs, Commit(p) PROVE OpenInv'
  BY <1>2, RestOpen, WriteFrameOpen, SyncFrameOpen, PutBatchOpen, ReplaceCurrentOpen,
     SyncObjectsOpen, SyncCurrentOpen DEF Commit
<1>3. ASSUME NEW p \in Procs, Rotate(p) PROVE OpenInv'
  BY <1>3, RestOpen, SealWriteOpen, SealSyncOpen, PublishSealedOpen, CreateNextOpen,
     WriteHeaderOpen, SyncHeaderOpen, WriteHeaderFailsOpen, RefusedOpen, PutRotationOpen,
     ReplaceByRotationOpen DEF Rotate
<1>4. CASE Stop
  BY <1>4, EndsOpen, PowerLossOpen DEF Stop
<1>5. CASE UNCHANGED vars
  <2>1. UNCHANGED <<current, onDisk, files, stored, objects, unsynced, pc, seen, cursor, job>>
    BY <1>5 DEF vars, diskVars, memVars
  <2>2. Published'
    BY <2>1 DEF OpenInv, Published
  <2>3. Secure => Secure'
    BY <2>1 DEF Secure, Someone
  <2>4. \A q \in Procs : Ready(q)'
    BY <2>1, SameReady DEF OpenInv
  <2> QED BY <2>2, <2>3, <2>4 DEF OpenInv
<1> QED BY <1>1, <1>2, <1>3, <1>4, <1>5 DEF Next

(* A publication stays backed through every step. *)
LEMMA OpenAlways ==
    ASSUME OneKindOfStop
    PROVE  Spec => []OpenInv
<1>1. IInv /\ IInv' /\ OpenInv /\ [Next]_vars => OpenInv'
  BY NextOpen
<1> QED BY <1>1, InitOpen, Inductive, PTL DEF Spec

(* Where processes die or power fails, and not both, what was published always opens:      *)
(* CURRENT, and the publication that a recovery has read, while another process truncates    *)
(* the ACTIVE, seals it, rotates or fails to (horizon_recovery.py, recover).                  *)
THEOREM PublicationsAlwaysOpen ==
    WithinLimits /\ OneKindOfStop => (Spec => []PublicationsOpen)
<1> SUFFICES ASSUME WithinLimits, OneKindOfStop PROVE Spec => []PublicationsOpen
  OBVIOUS
<1>1. IInv /\ OpenInv => PublicationsOpen
  <2> SUFFICES ASSUME IInv, OpenInv PROVE PublicationsOpen
    OBVIOUS
  <2>1. Recovers(current)
    BY PublishedGood, BackedRecovers DEF OpenInv, Published
  <2>2. ASSUME NEW p \in Procs, pc[p] \in {"reading", "recovered"} PROVE Recovers(seen[p])
    BY <2>2, PublishedGood, BackedRecovers DEF OpenInv, Ready
  <2> QED BY <2>1, <2>2 DEF PublicationsOpen
<1>2. Spec => []OpenInv
  BY OpenAlways
<1> QED BY <1>1, <1>2, Inductive, PTL

-----------------------------------------------------------------------------
(* What was answered as a replay. *)

Publishes(man, fr) == \E k \in DOMAIN Log(man) : Log(man)[k] = fr

ReplayedInv ==
    \A fr \in replayed : Publishes(current, fr) /\ (PowerFails => Publishes(onDisk, fr))

(* What a writer remembers of a command that it already has is one of CURRENT's frames. *)
LEMMA ReplayIsPublished ==
    ASSUME NEW man, NEW ix, NEW t, Knows(man, ix, t), NEW c \in Commands,
           Decide(ix, t, c) = "DEDUP_REPLAY"
    PROVE  Publishes(man, [cmd |-> c, seq |-> DedupSeq(t, c)])
<1>1. PICK w, ends, g : /\ Manifest(man, w, ends) /\ Accepts(Start, w, g)
                        /\ ix = g[Len(w)].index /\ t = g[Len(w)].tx
  BY DEF Knows
<1>2. Log(man) = w /\ w \in Seq(Frames) /\ Len(w) \in Nat
  <2>1. Log(man) = w
    BY <1>1, LogIs
  <2>2. w \in Seq(Frames)
    BY <1>1 DEF Manifest
  <2> QED BY <2>1, <2>2
<1>3. c \in Command /\ c.opid \in OpIds
  BY ScopeAssumption DEF Command
<1>4. t[c.opid] # Nil /\ t[c.opid].digest = ContentDigest(c)
  <2>1. DedupProbe(c) = "new"
    BY <1>3, ScopeAssumption DEF DedupProbe
  <2> QED BY <2>1 DEF Decide, ClassifyDedup, TxCheck
<1>5. PICK k \in 1..Len(w) :
        /\ w[k].cmd.opid = c.opid
        /\ t[c.opid] = [digest |-> ContentDigest(w[k].cmd), seq |-> w[k].seq]
  <2>1. Start.tx = EmptyTx /\ Len(w) \in 0..Len(w)
    BY <1>2, ConstantTypes
  <2>2. g[Len(w)].tx[c.opid] # Nil /\ Accepts(Start, w, g)
    BY <1>1, <1>4
  <2>3. \E k \in 1..Len(w) :
          /\ w[k].cmd.opid = c.opid
          /\ g[Len(w)].tx[c.opid] = [digest |-> ContentDigest(w[k].cmd), seq |-> w[k].seq]
    BY <1>2, <1>3, <2>1, <2>2, RememberedAlong
  <2> QED BY <1>1, <2>3
<1>6. w[k] \in Frames /\ w[k].cmd \in Command /\ k \in DOMAIN w
  <2>1. w[k] \in Frames /\ k \in DOMAIN w
    BY <1>2
  <2> QED BY <2>1, ScopeAssumption DEF Frames
<1>7. w[k].cmd = c
  <2>1. ContentDigest(w[k].cmd) = ContentDigest(c)
    BY <1>4, <1>5
  <2>2. /\ w[k].cmd.op = c.op /\ w[k].cmd.fact = c.fact
        /\ w[k].cmd.ver = c.ver /\ w[k].cmd.value = c.value
    BY <2>1 DEF ContentDigest
  <2> QED BY <1>3, <1>5, <1>6, <2>2 DEF Command
<1>8. DedupSeq(t, c) = w[k].seq
  BY <1>4, <1>5 DEF DedupSeq
<1>9. w[k] = [cmd |-> c, seq |-> DedupSeq(t, c)]
  BY <1>6, <1>7, <1>8 DEF Frames
<1> QED BY <1>2, <1>6, <1>9 DEF Publishes

LEMMA SubmitReplayStays ==
    ASSUME IInv, OpenInv, ReplayedInv, NEW p \in Procs, NEW c \in Commands, SubmitReplay(p, c)
    PROVE  ReplayedInv'
<1> DEFINE fr == [cmd |-> c, seq |-> DedupSeq(tx[p], c)]
<1>1. /\ pc[p] = "serving" /\ Decide(index[p], tx[p], c) = "DEDUP_REPLAY"
      /\ replayed' = replayed \cup {fr} /\ UNCHANGED <<current, onDisk>>
  BY DEF SubmitReplay
<1>2. Knows(current, index[p], tx[p]) /\ pc[p] \in Held
  <2>1. Local(p, pc[p], seen[p], cursor[p], index[p], tx[p], job[p], holder, current, onDisk, files)
    BY Standing
  <2>2. Knows(cursor[p], index[p], tx[p]) /\ current = cursor[p]
    BY <1>1, <2>1 DEF Local, Serving, Swapped, RotationSwapped
  <2> QED BY <1>1, <2>2 DEF Held, Serving
<1>3. Publishes(current, fr)
  BY <1>1, <1>2, ReplayIsPublished
<1>4. PowerFails => onDisk = current
  <2>1. ~Someone(Renamed)
    <3>1. pc[p] \notin Renamed /\ Renamed \subseteq Held
      BY <1>1 DEF Held, Serving, Committing, Written, Rotating, Renamed
    <3> QED BY <1>2, <3>1, NobodyElse
  <2> QED BY <2>1 DEF OpenInv, Secure
<1> HIDE DEF fr
<1>5. Publishes(current, fr) /\ (PowerFails => Publishes(onDisk, fr))
  BY <1>3, <1>4
<1> QED BY <1>1, <1>5 DEF ReplayedInv, Publishes

(* CURRENT goes on from what it published, or back to what is on disk. *)
LEMMA PublishesOn ==
    ASSUME IInv, [Next]_vars, NEW fr, Publishes(current, fr)
    PROVE  /\ ~PowerLoss => Publishes(current', fr) /\ onDisk' \in {onDisk, current}
           /\ PowerLoss => current' \in {current, onDisk} /\ onDisk' = current'
<1>1. CASE UNCHANGED <<current, onDisk>>
  <2>1. current' = current /\ onDisk' = onDisk
    BY <1>1
  <2> QED BY <2>1 DEF PowerLoss
<1>2. CASE PowerLoss
  BY <1>2 DEF PowerLoss
<1>3. ASSUME NEW p \in Procs, ReplaceCurrent(p)
      PROVE  Publishes(current', fr) /\ onDisk' = onDisk
  <2>1. /\ pc[p] = "recorded" /\ current' = BatchCandidate(p) /\ onDisk' = onDisk
    BY <1>3 DEF ReplaceCurrent, Step
  <2>2. cursor[p] = current
    BY <2>1, CursorIsCurrent DEF Serving, Committing, Written, Swapped, RotationSwapped
  <2>3. Log(current') = Append(Log(current), NewFrame(p)) /\ Good(current)
    BY <2>1, <2>2, CommittingParts DEF Committing, Written
  <2>4. Log(current) \in Seq(Frames)
    BY <2>3, GoodLog
  <2>5. PICK k \in DOMAIN Log(current) : Log(current)[k] = fr
    BY DEF Publishes
  <2>6. k \in DOMAIN Log(current') /\ Log(current')[k] = fr
    BY <2>3, <2>4, <2>5
  <2> QED BY <2>1, <2>6 DEF Publishes
<1>4. ASSUME NEW p \in Procs, ReplaceByRotation(p)
      PROVE  Publishes(current', fr) /\ onDisk' = onDisk
  <2>1. /\ pc[p] = "rotation_recorded" /\ current' = RotationCandidate(p) /\ onDisk' = onDisk
    BY <1>4 DEF ReplaceByRotation, Step
  <2>2. cursor[p] = current
    BY <2>1, CursorIsCurrent DEF Serving, Rotating, Swapped, RotationSwapped
  <2>3. Log(current') = Log(current)
    BY <2>1, <2>2, RotatingParts DEF Rotating
  <2> QED BY <2>1, <2>3 DEF Publishes
<1>5. ASSUME NEW p \in Procs, SyncCurrent(p)
      PROVE  Publishes(current', fr) /\ onDisk' = current
  <2>1. current' = current /\ onDisk' = current
    BY <1>5 DEF SyncCurrent, CurrentSynced
  <2> QED BY <2>1
<1>6. \/ UNCHANGED <<current, onDisk>> \/ PowerLoss
      \/ \E p \in Procs : ReplaceCurrent(p) \/ ReplaceByRotation(p) \/ SyncCurrent(p)
  <2>1. ASSUME NEW p \in Procs, Resume(p) PROVE UNCHANGED <<current, onDisk>>
    BY <2>1 DEF Resume, ReadCurrent, Recover, AcquireLease, WriterActive, Revalidate,
                StaleRecovery, TruncateTail, SyncTruncated, TailAbsent
  <2>2. ASSUME NEW p \in Procs, Commit(p), ~ReplaceCurrent(p), ~SyncCurrent(p)
        PROVE  UNCHANGED <<current, onDisk>>
    BY <2>2 DEF Commit, Submit, SubmitReplay, WriteFrame, SyncFrame, PutBatch, PutObject,
                SyncObjects, Answer
  <2>3. ASSUME NEW p \in Procs, Rotate(p), ~ReplaceByRotation(p)
        PROVE  UNCHANGED <<current, onDisk>>
    BY <2>3 DEF Rotate, BeginRotation, SealWrite, SealSync, PublishSealed, CreateNext,
                WriteHeader, SyncHeader, WriteHeaderFails, NextExists, NextDiverges,
                PutRotation, Activate, PutObject
  <2>4. ASSUME NEW p \in Procs, Ends(p) PROVE UNCHANGED <<current, onDisk>>
    BY <2>4 DEF Ends
  <2>5. CASE UNCHANGED vars
    BY <2>5 DEF vars
  <2> QED BY <2>1, <2>2, <2>3, <2>4, <2>5 DEF Next, Stop
<1> QED BY <1>1, <1>2, <1>3, <1>4, <1>5, <1>6

LEMMA NextReplayed ==
    ASSUME IInv, OpenInv, ReplayedInv, [Next]_vars
    PROVE  ReplayedInv'
<1>1. \/ replayed' = replayed
      \/ \E p \in Procs, c \in Commands : SubmitReplay(p, c)
  <2>1. ASSUME NEW p \in Procs, Resume(p) PROVE replayed' = replayed
    BY <2>1 DEF Resume, ReadCurrent, Recover, AcquireLease, WriterActive, Revalidate,
                StaleRecovery, TruncateTail, SyncTruncated, TailAbsent, ackVars
  <2>2. ASSUME NEW p \in Procs, Commit(p), ~\E c \in Commands : SubmitReplay(p, c)
        PROVE  replayed' = replayed
    BY <2>2 DEF Commit, Submit, WriteFrame, SyncFrame, PutBatch, PutObject, ReplaceCurrent,
                SyncObjects, SyncCurrent, Answer, ackVars
  <2>3. ASSUME NEW p \in Procs, Rotate(p) PROVE replayed' = replayed
    BY <2>3 DEF Rotate, BeginRotation, SealWrite, SealSync, PublishSealed, CreateNext,
                WriteHeader, SyncHeader, WriteHeaderFails, NextExists, NextDiverges,
                PutRotation, ReplaceByRotation, Activate, PutObject, ackVars
  <2>4. CASE Stop
    BY <2>4 DEF Stop, Ends, PowerLoss, ackVars
  <2>5. CASE UNCHANGED vars
    BY <2>5 DEF vars, ackVars
  <2> QED BY <2>1, <2>2, <2>3, <2>4, <2>5 DEF Next
<1>2. ASSUME NEW p \in Procs, NEW c \in Commands, SubmitReplay(p, c) PROVE ReplayedInv'
  BY <1>2, SubmitReplayStays
<1>3. ASSUME replayed' = replayed, NEW fr \in replayed
      PROVE  Publishes(current', fr) /\ (PowerFails => Publishes(onDisk', fr))
  <2>1. Publishes(current, fr) /\ (PowerFails => Publishes(onDisk, fr))
    BY DEF ReplayedInv
  <2>2. /\ ~PowerLoss => Publishes(current', fr) /\ onDisk' \in {onDisk, current}
        /\ PowerLoss => current' \in {current, onDisk} /\ onDisk' = current'
    BY <2>1, PublishesOn
  <2>3. PowerLoss => PowerFails
    BY DEF PowerLoss
  <2>4. \A man \in {current, onDisk} : PowerFails => Publishes(man, fr)
    BY <2>1
  <2>5. CASE PowerLoss
    BY <2>2, <2>3, <2>4, <2>5
  <2>6. CASE ~PowerLoss
    BY <2>2, <2>4, <2>6
  <2> QED BY <2>5, <2>6
<1>4. CASE replayed' = replayed
  BY <1>3, <1>4 DEF ReplayedInv, Publishes
<1> QED BY <1>1, <1>2, <1>4

(* Where processes die or power fails, and not both, a retry answered DEDUP_REPLAY names a   *)
(* write that is there: the frame it names is in CURRENT, and a power loss does not take it    *)
(* back (horizon_recovery.py:5; _swap_current syncs CURRENT's directory before the answer).    *)
THEOREM ReplayedStays == OneKindOfStop => (Spec => []ReplayedSurvives)
<1> SUFFICES ASSUME OneKindOfStop PROVE Spec => []ReplayedSurvives
  OBVIOUS
<1>1. Init => ReplayedInv
  BY DEF Init, ReplayedInv
<1>2. IInv /\ OpenInv /\ ReplayedInv /\ [Next]_vars => ReplayedInv'
  BY NextReplayed
<1>3. ReplayedInv => ReplayedSurvives
  BY DEF ReplayedInv, ReplayedSurvives, Publishes
<1> QED BY <1>1, <1>2, <1>3, OpenAlways, Inductive, PTL DEF Spec
=============================================================================
