----------------------------- MODULE WalReplay -----------------------------
(* ReducerState (horizon_wal.py): the one authority of logical replay.  recover, *)
(* resume_existing and open_generation feed it the frames of the WAL in order;    *)
(* it rebuilds L0 and the retry memory, or reaches a terminal state that keeps     *)
(* nothing of what it had applied.                                                *)
(*                                                                            *)
(* The reducer is a record; each operator below is one method, as a function of    *)
(* the record.  A frame is [cmd, seq].  A segment is [ordinal, id, firstSeq,       *)
(* records, frames]: its descriptor and the frames read from its file.  The seal    *)
(* tokens and the byte limits are left out; the frame and segment limits are kept.  *)
EXTENDS CommitRules, Sequences

CONSTANTS MaxSegments, MaxTotalFrames, MaxSegmentFrames   \* ReducerLimits

ReducerInit(initialSeq, targetSeq) ==
    [class |-> "OK", index |-> EmptyIndex, tx |-> EmptyTx, expected |-> initialSeq + 1,
     last |-> initialSeq, target |-> targetSeq, segments |-> 0, prevId |-> -1, frames |-> 0]

Terminal(red) == red.class # "OK"

(* Builders are dropped: nothing of a failed replay can be read. *)
ToTerminal(red, class) ==
    [red EXCEPT !.class = class, !.index = EmptyIndex, !.tx = EmptyTx, !.last = 0]

(* A frame in the file must be one that the ingress would have applied. *)
ApplyOne(red, fr) ==
    IF TxCheck(red.tx, fr.cmd) # "new" \/ DedupProbe(fr.cmd) # "new"
        THEN ToTerminal(red, "TXID_CONFLICT")
    ELSE IF \/ CurrentOf(red.index, fr.cmd.fact) = BaseAbstain
            \/ Preflight(CurrentOf(red.index, fr.cmd.fact), fr.cmd) # "applied"
        THEN ToTerminal(red, "CONFLICT")
    ELSE [red EXCEPT !.index = ApplyIndex(@, fr.cmd),
                     !.tx = RecordTx(@, fr.cmd, fr.seq),
                     !.last = fr.seq]

(* Mutant: the frame at the limit itself is left out. *)
LegacyPrefixesBelow(red, frames, upto) ==
    LET fed[n \in 0..Len(frames)] ==
          IF n = 0 THEN red
          ELSE LET acc == fed[n - 1] fr == frames[n] IN
               IF Terminal(acc) \/ fr.seq >= upto THEN acc ELSE ApplyOne(acc, fr)
    IN fed

(* The reducer after each prefix of the frames: those above upto are not looked at, and *)
(* nothing is fed to a terminal reducer.                                                *)
LegacyPrefixes(red, frames, upto) ==
    LET fed[n \in 0..Len(frames)] ==
          IF n = 0 THEN red
          ELSE LET acc == fed[n - 1] fr == frames[n] IN
               IF Terminal(acc) \/ fr.seq > upto THEN acc ELSE ApplyOne(acc, fr)
    IN fed

(* feed_legacy_frames: no coverage checks, up to upto. *)
FeedLegacyFrames(red, frames, upto) == LegacyPrefixes(red, frames, upto)[Len(frames)]

FeedFrame(red, fr) ==
    IF fr.seq # red.expected \/ fr.seq > red.target THEN ToTerminal(red, "COVERAGE")
    ELSE LET next == ApplyOne(red, fr) IN
         IF Terminal(next) THEN next ELSE [next EXCEPT !.expected = @ + 1]

(* The reducer after each prefix of a segment's frames. *)
SegmentPrefixes(red, frames) ==
    LET fed[n \in 0..Len(frames)] ==
          IF n = 0 THEN red
          ELSE LET acc == fed[n - 1] IN
               IF Terminal(acc) THEN acc ELSE FeedFrame(acc, frames[n])
    IN fed

FeedSegment(red, seg) ==
    IF Terminal(red) THEN red
    ELSE IF \/ seg.ordinal # red.segments
            \/ seg.id <= red.prevId
            \/ seg.firstSeq # red.expected
            \/ Len(seg.frames) # seg.records
        THEN ToTerminal(red, "COVERAGE")
    ELSE IF \/ red.segments + 1 > MaxSegments
            \/ Len(seg.frames) > MaxSegmentFrames
            \/ red.frames + Len(seg.frames) > MaxTotalFrames
        THEN ToTerminal(red, "LIMIT")
    ELSE LET fed == SegmentPrefixes(red, seg.frames)[Len(seg.frames)]
         IN IF Terminal(fed) THEN fed
            ELSE [fed EXCEPT !.segments = @ + 1, !.prevId = seg.id,
                             !.frames = @ + Len(seg.frames)]

FinishReplay(red) ==
    IF ~Terminal(red) /\ red.expected # red.target + 1
        THEN ToTerminal(red, "COVERAGE") ELSE red

(* The reducer after each prefix of the segments a manifest lists. *)
ReplayPrefixes(segs, baseSeq, readSeq) ==
    LET fed[n \in 0..Len(segs)] ==
          IF n = 0 THEN ReducerInit(baseSeq, readSeq) ELSE FeedSegment(fed[n - 1], segs[n])
    IN fed

(* open_generation's replay of those segments, up to the manifest's read_seq. *)
ReplaySegments(segs, baseSeq, readSeq) ==
    FinishReplay(ReplayPrefixes(segs, baseSeq, readSeq)[Len(segs)])

(* reduce_frames: flat frames, no coverage. *)
ReduceFrames(frames, upto, initialSeq) ==
    FeedLegacyFrames(ReducerInit(initialSeq, 0), frames, upto)
=============================================================================
