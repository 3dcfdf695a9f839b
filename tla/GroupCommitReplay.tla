------------------------- MODULE GroupCommitReplay -------------------------
(* GroupCommit's file as resume_existing would read it: the writer of horizon_batch.py *)
(* next to the reducer of horizon_wal.py.                                               *)
EXTENDS GroupCommit, WalReplay

(* Replay agrees with the writer.  Reading back the frames up to the visible seq, the way   *)
(* resume_existing does, rebuilds exactly the index and retry memory the writer's snapshot   *)
(* shows; and every frame in the file, published or not, is one replay accepts, so ingress   *)
(* never writes a history that recovery would refuse (reduce_frames against prepare_batch).  *)
ReplayAgrees ==
    LET seen == ReduceFrames(wal, snap.through, FirstSeq - 1) IN
    /\ seen.class = "OK" /\ seen.index = snap.index /\ seen.tx = snap.tx
    /\ seen.last = snap.through
    /\ ReduceFrames(wal, FirstSeq + Len(wal), FirstSeq - 1).class = "OK"
=============================================================================
