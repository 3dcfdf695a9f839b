------------------------- MODULE GroupCommitProofs -------------------------
(* Proofs about GroupCommit for every set of requests, commands and limits.     *)
(* The invariants of the runs are not inductive: they speak of what clients were *)
(* told, and what keeps them true is where each request sits (queue, batch, the   *)
(* list of a poisoned worker), what the plan holds, and how far the file, CURRENT  *)
(* and the snapshot have come.  IInv states these; the first theorems follow from   *)
(* it.  Each of the later ones has an invariant of its own, inductive together with  *)
(* IInv: who owns the scope while the worker writes, in what order frames reach the  *)
(* file, what a replayed answer points at, that readers never see time go back, that  *)
(* a replay of the file rebuilds what the writer shows.  They end in the refinement  *)
(* of MemoryLog.                                                                     *)
EXTENDS GroupCommitReplay, WalReplayProofs, TLAPS

-----------------------------------------------------------------------------
(* The inductive invariant. *)

Distinct(s) == \A i, j \in DOMAIN s : s[i] = s[j] => i = j

(* A request's fields agree with its state. *)
RequestInv ==
    \A r \in Requests :
        /\ state[r] = "NEW" => told[r] = {} /\ ~cancelled[r]
        /\ state[r] # "NEW" => cmd[r] \in Commands
        /\ state[r] # "DONE" => status[r] = Nil
        /\ state[r] = "DONE" => status[r] \in Statuses
        /\ status[r] = "APPLIED" => wseq[r] \in Nat
        /\ cancelled[r] => \/ state[r] = "ADMITTED"
                           \/ state[r] = "DONE" /\ status[r] = "NOT_ACCEPTED"

(* Each unanswered request is in exactly one list, in the state of that list. *)
ListInv ==
    /\ Distinct(queue) /\ Distinct(batch) /\ Distinct(todo)
    /\ \A i \in DOMAIN queue : state[queue[i]] = "ADMITTED"
    /\ \A i \in DOMAIN batch : state[batch[i]] \in {"CLAIMED", "DONE"}
    /\ pc \notin {"receipts", "poisoning"} =>
           \A i \in DOMAIN batch : state[batch[i]] = "CLAIMED"
    /\ \A i \in DOMAIN todo : state[todo[i]] \in {"ADMITTED", "CLAIMED"}
    /\ pc # "poisoning" => todo = <<>>
    /\ pc \in {"idle", "exited", "died"} => batch = <<>>
    /\ poisoned => queue = <<>> /\ pc \in {"poisoning", "idle", "exited"}
    /\ pc = "poisoning" => poisoned

(* Only claimed requests reach the file, and none of a batch before its write. *)
FileInv ==
    /\ \A k \in DOMAIN wal :
         /\ state[wal[k].req] \in {"CLAIMED", "DONE"}
         /\ status[wal[k].req] \notin {"NOT_ACCEPTED", "OVERLOADED"}
    /\ pc \in {"draining", "prepare", "planned"} =>
         \A i \in DOMAIN batch : \A k \in DOMAIN wal : wal[k].req # batch[i]
    /\ pc = "poisoning" /\ poisonAs = "NOT_ACCEPTED" =>
         \A i \in DOMAIN todo : \A k \in DOMAIN wal : wal[k].req # todo[i]

Planning == {"prepare", "planned", "written", "synced", "published", "swapped", "receipts"}

(* The plan's frames and receipts belong to the batch and to each other. *)
PlanInv ==
    pc \in Planning =>
        /\ Len(plan.receipts) <= Len(batch)
        /\ pc # "prepare" => Len(plan.receipts) = Len(batch)
        /\ \A k \in DOMAIN plan.frames : \E i \in DOMAIN batch : plan.frames[k].req = batch[i]
        /\ \A i \in DOMAIN plan.receipts : plan.receipts[i].status = "APPLIED" =>
             /\ plan.receipts[i].seq \in Nat
             /\ plan.receipts[i].seq - plan.source \in DOMAIN plan.frames
             /\ plan.frames[plan.receipts[i].seq - plan.source].req = batch[i]

Before == {"idle", "draining", "prepare", "planned", "exited", "died"}
Written == {"written", "synced", "published", "swapped", "receipts"}
Durable == {"synced", "published", "swapped", "receipts"}
Visible == {"swapped", "receipts"}

(* How far the file, CURRENT and the snapshot have come, phase by phase. *)
DiskInv ==
    /\ synced <= Len(wal)
    /\ Pos(snap.through) <= synced
    /\ FirstSeq - 1 <= snap.through
    /\ Published => snap.through <= current
    /\ Published => cursor = snap.through
    /\ pc \in Before /\ ~poisoned => Len(wal) = Pos(snap.through)
    /\ Published /\ ~poisoned /\ pc # "published" => current = cursor
    /\ pc \in Planning \ Visible => plan.source = snap.through
    /\ pc \in Visible => PlanThrough = snap.through
    /\ pc \in Written =>
         /\ Len(wal) = Pos(PlanThrough)
         /\ Pos(plan.source) >= 0
         /\ \A k \in DOMAIN plan.frames : wal[Pos(plan.source) + k] = plan.frames[k]
    /\ pc \in Durable => Pos(PlanThrough) <= synced
    /\ Published /\ pc \in {"published", "swapped", "receipts"} => PlanThrough = current
    /\ AckIsDurable

IInv == TypeOK /\ RequestInv /\ ListInv /\ FileInv /\ PlanInv /\ DiskInv /\ AnswersAgree

-----------------------------------------------------------------------------
(* What the admission rules return. *)

(* Whatever the indexes hold, prepare_batch gives each command one of the nine receipts. *)
LEMMA DecideType ==
    ASSUME NEW index, NEW tx, NEW c
    PROVE  Decide(index, tx, c) \in Receipts
BY DEF Decide, Receipts

(* A retry is answered with a seq: the one in the writer's memory, else the base's. *)
LEMMA DedupSeqType ==
    ASSUME NEW index, NEW tx \in TxIndexes, NEW c \in Command,
           Decide(index, tx, c) = "DEDUP_REPLAY"
    PROVE  DedupSeq(tx, c) \in Nat
<1>1. ClassifyDedup(tx, c) = "dedup_replay"
  BY DEF Decide
<1>2. c.opid \in OpIds
  BY DEF Command
<1>3. CASE tx[c.opid] # Nil
  <2>1. tx[c.opid] \in TxEntry
    BY <1>2, <1>3 DEF TxIndexes
  <2> QED BY <2>1, <1>3 DEF DedupSeq, TxEntry
<1>4. CASE tx[c.opid] = Nil
  <2>1. DedupProbe(c) = "replay"
    BY <1>1, <1>4 DEF ClassifyDedup, TxCheck
  <2>2. BaseDedup[c.opid] \in BaseDedupEntry
    BY <1>2, BaseAssumption
  <2>3. BaseDedup[c.opid].kind = "entry"
    BY <2>1, <2>2 DEF DedupProbe, BaseDedupEntry
  <2> QED BY <2>2, <2>3, <1>4 DEF DedupSeq, BaseDedupEntry
<1> QED BY <1>3, <1>4

(* Applying a command keeps the shape of the index and of the retry memory. *)
LEMMA ApplyType ==
    ASSUME NEW index \in Indexes, NEW tx \in TxIndexes, NEW c \in Command, NEW n \in Nat
    PROVE  /\ ApplyIndex(index, c) \in Indexes
           /\ RecordTx(tx, c, n) \in TxIndexes
<1>1. [ver |-> c.ver, op |-> c.op, value |-> c.value] \in Entry
  BY DEF Command, Entry
<1>2. [digest |-> ContentDigest(c), seq |-> n] \in TxEntry
  BY DEF Command, TxEntry, Contents, ContentDigest
<1> QED BY <1>1, <1>2 DEF ApplyIndex, RecordTx, Indexes, TxIndexes

-----------------------------------------------------------------------------
(* The initial states. *)

LEMMA InitIInv == Init => IInv
<1> SUFFICES ASSUME Init PROVE IInv
  OBVIOUS
<1> USE GroupCommitAssumption, NilAssumption DEF Init
<1>1. /\ EmptyIndex \in Indexes /\ EmptyTx \in TxIndexes
  BY DEF EmptyIndex, EmptyTx, Indexes, TxIndexes
<1>2. NoPlan \in Plan
  BY <1>1 DEF NoPlan, Plan
<1>3. TypeOK
  <2>1. cancelled \in [Requests -> BOOLEAN]
    BY Zenon
  <2>2. told \in [Requests -> SUBSET Statuses]
    BY Zenon
  <2>3. stop \in BOOLEAN /\ poisoned \in BOOLEAN /\ fdOpen \in BOOLEAN
    BY Zenon
  <2>4. snap \in [index : Indexes, tx : TxIndexes, through : Nat]
    BY <1>1
  <2> QED BY <1>1, <1>2, <2>1, <2>2, <2>3, <2>4 DEF TypeOK, LeaseStates, WriterStates
<1>4. RequestInv /\ AnswersAgree
  BY DEF RequestInv, AnswersAgree, Statuses, Receipts
<1>5. ListInv /\ FileInv /\ PlanInv
  BY DEF ListInv, FileInv, PlanInv, Distinct, Planning
<1>6. AckIsDurable
  BY DEF AckIsDurable, Statuses, Receipts
<1>7. DiskInv
  BY <1>6 DEF DiskInv, Pos, Planning, Visible, Written, Durable
<1> QED BY <1>3, <1>4, <1>5, <1>7 DEF IInv
-----------------------------------------------------------------------------
(* Sequences, answers and poisoned queues: what several actions share. *)

(* Taking the head of a non-empty list. *)
LEMMA HeadTail ==
    ASSUME NEW S, NEW s \in Seq(S), s # <<>>
    PROVE  /\ 1 \in DOMAIN s /\ Head(s) = s[1] /\ Head(s) \in S
           /\ Tail(s) \in Seq(S)
           /\ \A i \in DOMAIN Tail(s) : i + 1 \in DOMAIN s /\ Tail(s)[i] = s[i + 1]
OBVIOUS

(* An element of a concatenation comes from one of the two sequences. *)
LEMMA ConcatParts ==
    ASSUME NEW S, NEW a \in Seq(S), NEW b \in Seq(S)
    PROVE  /\ a \o b \in Seq(S) /\ Len(a \o b) = Len(a) + Len(b)
           /\ \A i \in DOMAIN (a \o b) :
                \/ i \in DOMAIN a /\ (a \o b)[i] = a[i]
                \/ i - Len(a) \in DOMAIN b /\ (a \o b)[i] = b[i - Len(a)]
OBVIOUS

(* Where the elements of the two parts end up. *)
LEMMA ConcatKeeps ==
    ASSUME NEW S, NEW a \in Seq(S), NEW b \in Seq(S)
    PROVE  /\ Len(a) \in Nat /\ Len(b) \in Nat /\ DOMAIN a \subseteq DOMAIN (a \o b)
           /\ \A i \in DOMAIN a : (a \o b)[i] = a[i]
           /\ \A i \in DOMAIN b : (a \o b)[Len(a) + i] = b[i]
OBVIOUS

(* Appending one element. *)
LEMMA AppendParts ==
    ASSUME NEW S, NEW s \in Seq(S), NEW e \in S
    PROVE  /\ Append(s, e) \in Seq(S) /\ Len(s) \in Nat /\ Len(Append(s, e)) = Len(s) + 1
           /\ DOMAIN Append(s, e) = 1..(Len(s) + 1) /\ DOMAIN s \subseteq DOMAIN Append(s, e)
           /\ \A i \in DOMAIN s : Append(s, e)[i] = s[i]
           /\ Append(s, e)[Len(s) + 1] = e
           /\ \A i \in DOMAIN Append(s, e) : i \in DOMAIN s \/ i = Len(s) + 1
OBVIOUS

(* Positions in the file move with the sequence numbers. *)
LEMMA PosShift ==
    ASSUME NEW a \in Nat, NEW n \in Nat
    PROVE  Pos(a) \in Int /\ Pos(n) \in Int /\ Pos(n) = Pos(a) + (n - a)
BY GroupCommitAssumption DEF Pos

(* A seq inside a plan of len frames lies between the plan's source and its end. *)
LEMMA PosWithin ==
    ASSUME NEW a \in Nat, NEW n \in Nat, NEW len \in Nat, n - a \in 1..len, Pos(a) >= 0
    PROVE  /\ Pos(n) \in Int /\ Pos(n) >= 1 /\ Pos(n) <= Pos(a + len)
           /\ Pos(a + len) \in Int
BY GroupCommitAssumption DEF Pos

(* The lists of requests, and the file, hold requests. *)
LEMMA Members ==
    ASSUME TypeOK
    PROVE  /\ \A i \in DOMAIN queue : queue[i] \in Requests
           /\ \A i \in DOMAIN batch : batch[i] \in Requests
           /\ \A i \in DOMAIN todo : todo[i] \in Requests
           /\ \A k \in DOMAIN wal : wal[k].req \in Requests
<1>1. /\ queue \in Seq(Requests) /\ batch \in Seq(Requests) /\ todo \in Seq(Requests)
      /\ wal \in Seq(Frame)
  BY DEF TypeOK
<1>2. \A k \in DOMAIN wal : wal[k] \in Frame
  BY <1>1
<1> QED BY <1>1, <1>2 DEF Frame

(* What _finish leaves: three fields of one request set, all others as they were. *)
OnlyFinished(r, s, n) ==
    /\ state' \in [Requests -> {"NEW", "ADMITTED", "CLAIMED", "DONE"}]
    /\ status' \in [Requests -> Statuses \cup {Nil}]
    /\ wseq' \in [Requests -> Nat \cup {Nil}]
    /\ state'[r] = "DONE" /\ status'[r] = s /\ wseq'[r] = n
    /\ \A q \in Requests : q # r =>
         state'[q] = state[q] /\ status'[q] = status[q] /\ wseq'[q] = wseq[q]

LEMMA FinishFields ==
    ASSUME TypeOK, NEW r \in Requests, NEW s \in Statuses, NEW n \in Nat \cup {Nil},
           Finish(r, s, n)
    PROVE  OnlyFinished(r, s, n)
BY DEF TypeOK, Finish, OnlyFinished

(* Answering a pending request keeps every caller's answers in agreement, provided one  *)
(* that was never claimed hears NOT_ACCEPTED.                                            *)
LEMMA AnswerPending ==
    ASSUME TypeOK, RequestInv, AnswersAgree,
           NEW r \in Requests, NEW s \in Statuses, NEW n \in Nat \cup {Nil},
           Finish(r, s, n), UNCHANGED <<cmd, cancelled, told>>,
           state[r] \in {"ADMITTED", "CLAIMED"},
           state[r] = "ADMITTED" => s = "NOT_ACCEPTED",
           s = "APPLIED" => n \in Nat
    PROVE  RequestInv' /\ AnswersAgree'
<1>1. RequestInv'
  <2> SUFFICES ASSUME NEW q \in Requests
               PROVE  /\ state'[q] = "NEW" => told[q] = {} /\ ~cancelled[q]
                      /\ state'[q] # "NEW" => cmd[q] \in Commands
                      /\ state'[q] # "DONE" => status'[q] = Nil
                      /\ state'[q] = "DONE" => status'[q] \in Statuses
                      /\ status'[q] = "APPLIED" => wseq'[q] \in Nat
                      /\ cancelled[q] => \/ state'[q] = "ADMITTED"
                                         \/ state'[q] = "DONE" /\ status'[q] = "NOT_ACCEPTED"
    BY DEF RequestInv
  <2>1. OnlyFinished(r, s, n)
    BY FinishFields
  <2>2. CASE q = r
    BY <2>1, <2>2 DEF RequestInv, OnlyFinished
  <2>3. CASE q # r
    BY <2>1, <2>3 DEF RequestInv, OnlyFinished
  <2> QED BY <2>2, <2>3
<1>2. AnswersAgree'
  <2> SUFFICES ASSUME NEW q \in Requests, NEW a \in told[q] \ {"COMMIT_UNKNOWN"}
               PROVE  \/ state'[q] = "DONE" /\ status'[q] = a
                      \/ state'[q] = "ADMITTED" /\ cancelled[q] /\ a = "NOT_ACCEPTED"
    BY DEF AnswersAgree
  <2>1. OnlyFinished(r, s, n)
    BY FinishFields
  <2>2. \/ state[q] = "DONE" /\ status[q] = a
        \/ state[q] = "ADMITTED" /\ cancelled[q] /\ a = "NOT_ACCEPTED"
    BY DEF AnswersAgree
  <2>3. CASE q = r
    BY <2>1, <2>2, <2>3 DEF OnlyFinished
  <2>4. CASE q # r
    BY <2>1, <2>2, <2>4 DEF OnlyFinished
  <2> QED BY <2>3, <2>4
<1> QED BY <1>1, <1>2

(* What was durable and visible stays so while the file, its durable prefix, CURRENT and    *)
(* the snapshot only grow.                                                                   *)
LEMMA AckStays ==
    ASSUME TypeOK, TypeOK', RequestInv, AckIsDurable, status' = status, wseq' = wseq,
           DOMAIN wal \subseteq DOMAIN wal', \A k \in DOMAIN wal : wal'[k] = wal[k],
           synced <= synced', Published => current <= current',
           snap.through <= snap'.through
    PROVE  AckIsDurable'
<1> SUFFICES ASSUME NEW r \in Requests, status[r] = "APPLIED"
             PROVE  /\ Pos(wseq[r]) \in DOMAIN wal' /\ wal'[Pos(wseq[r])].req = r
                    /\ Pos(wseq[r]) <= synced'
                    /\ Published => wseq[r] <= current'
                    /\ wseq[r] <= snap'.through
  BY DEF AckIsDurable, Pos
<1>1. wseq[r] \in Nat /\ Pos(wseq[r]) \in Int
  BY GroupCommitAssumption DEF RequestInv, Pos
<1>2. /\ synced \in Nat /\ synced' \in Nat /\ current \in Nat /\ current' \in Nat
      /\ snap.through \in Nat /\ snap'.through \in Nat
  BY DEF TypeOK
<1>3. /\ Pos(wseq[r]) \in DOMAIN wal /\ wal[Pos(wseq[r])].req = r
      /\ Pos(wseq[r]) <= synced
      /\ Published => wseq[r] <= current
      /\ wseq[r] <= snap.through
  BY DEF AckIsDurable
<1> QED BY <1>1, <1>2, <1>3

(* Poisoning moves the batch and the queue, which share no request, to one list. *)
LEMMA PoisonLists ==
    ASSUME IInv, NEW s, Poison(s), pc \notin {"receipts", "poisoning"}
    PROVE  ListInv'
<1> USE DEF IInv, Poison, Unanswered, clientVars
<1>1. batch \in Seq(Requests) /\ queue \in Seq(Requests)
  BY DEF TypeOK
<1>2. \A i \in DOMAIN todo' :
         \/ i \in DOMAIN batch /\ todo'[i] = batch[i] /\ state[todo'[i]] = "CLAIMED"
         \/ /\ i - Len(batch) \in DOMAIN queue /\ todo'[i] = queue[i - Len(batch)]
            /\ state[todo'[i]] = "ADMITTED"
  BY <1>1, ConcatParts DEF ListInv
<1>3. Distinct(todo')
  <2> SUFFICES ASSUME NEW i \in DOMAIN todo', NEW j \in DOMAIN todo', todo'[i] = todo'[j]
               PROVE  i = j
    BY DEF Distinct
  <2>1. i \in Int /\ j \in Int
    BY <1>1, ConcatParts
  <2> QED BY <1>1, <1>2, <2>1, SMTT(20) DEF ListInv, Distinct
<1>4. \A i \in DOMAIN batch : state[batch[i]] \in {"CLAIMED", "DONE"}
  BY DEF ListInv
<1>5. Distinct(queue')
  BY DEF Distinct
<1> QED BY <1>2, <1>3, <1>4, <1>5 DEF ListInv, Distinct

-----------------------------------------------------------------------------
(* Clients. *)

(* submit() turned away: the request is answered at once. *)
LEMMA SubmitRefusedStep ==
    ASSUME IInv, NEW r \in Requests, NEW c \in Commands, SubmitRefused(r, c)
    PROVE  IInv'
<1> USE GroupCommitAssumption, NilAssumption
    DEF IInv, clientVars, queueVars, ctrlVars, memVars, workVars, diskVars, lifeVars
<1>1. /\ state[r] = "NEW"
      /\ cmd' = [cmd EXCEPT ![r] = c]
      /\ UNCHANGED <<cancelled, tkt, told, queueVars, ctrlVars, memVars, pc, workVars,
                     diskVars, lifeVars>>
  BY DEF SubmitRefused
<1>2. PICK s \in {"NOT_ACCEPTED", "OVERLOADED"} : Finish(r, s, Nil)
  BY Zenon DEF SubmitRefused
<1>3. s \in Statuses
  BY DEF Statuses
<1>4. OnlyFinished(r, s, Nil)
  BY <1>2, <1>3, FinishFields
<1>5. TypeOK'
  <2>1. cmd' \in [Requests -> Commands \cup {Nil}]
    BY <1>1, Zenon DEF TypeOK
  <2> QED BY <1>1, <1>4, <2>1, ZenonT(30) DEF OnlyFinished, TypeOK
<1>6. RequestInv'
  BY <1>1, <1>3, <1>4 DEF OnlyFinished, RequestInv, TypeOK
<1>7. ListInv'
  BY <1>1, <1>4, Members DEF OnlyFinished, ListInv
<1>8. FileInv'
  BY <1>1, <1>4, Members DEF OnlyFinished, FileInv
<1>9. PlanInv'
  BY <1>1 DEF PlanInv
<1>10. DiskInv'
  BY <1>1, <1>4 DEF OnlyFinished, DiskInv, AckIsDurable, PlanThrough
<1>11. AnswersAgree'
  BY <1>1, <1>4 DEF OnlyFinished, AnswersAgree, RequestInv, TypeOK
<1> QED BY <1>5, <1>6, <1>7, <1>8, <1>9, <1>10, <1>11

(* submit() admitted: a ticket and a place at the end of the queue. *)
LEMMA SubmitAdmittedStep ==
    ASSUME IInv, NEW r \in Requests, NEW c \in Commands, SubmitAdmitted(r, c)
    PROVE  IInv'
<1> USE GroupCommitAssumption, NilAssumption
    DEF IInv, clientVars, queueVars, ctrlVars, memVars, workVars, diskVars, lifeVars
<1>1. /\ state[r] = "NEW" /\ pc # "draining" /\ ~poisoned
      /\ cmd' = [cmd EXCEPT ![r] = c]
      /\ tkt' = [tkt EXCEPT ![r] = ticket + 1] /\ ticket' = ticket + 1
      /\ state' = [state EXCEPT ![r] = "ADMITTED"]
      /\ queue' = Append(queue, r) /\ queueBytes' = queueBytes + Size(c)
      /\ UNCHANGED <<status, wseq, cancelled, told, ctrlVars, memVars, pc, workVars,
                     diskVars, lifeVars>>
  BY DEF SubmitAdmitted, LockFree, Enqueue
<1>2. state'[r] = "ADMITTED" /\ \A q \in Requests : q # r => state'[q] = state[q]
  BY <1>1 DEF TypeOK
<1>3. TypeOK'
  BY <1>1 DEF TypeOK, Size
<1>4. RequestInv'
  BY <1>1, <1>2 DEF RequestInv, TypeOK
<1>5. ListInv'
  <2>1. queue \in Seq(Requests)
    BY DEF TypeOK
  <2>2. /\ Len(queue) \in Nat
        /\ \A i \in DOMAIN queue' : \/ i \in DOMAIN queue /\ queue'[i] = queue[i]
                                    \/ i = Len(queue) + 1 /\ queue'[i] = r
    BY <1>1, <2>1
  <2>3. Distinct(queue')
    BY <1>1, <2>2 DEF ListInv, Distinct
  <2>4. \A i \in DOMAIN queue' : state'[queue'[i]] = "ADMITTED"
    BY <1>2, <2>2, Members DEF ListInv
  <2> QED BY <1>1, <1>2, <2>3, <2>4, Members DEF ListInv
<1>6. FileInv'
  BY <1>1, <1>2, Members DEF FileInv
<1>7. PlanInv'
  BY <1>1 DEF PlanInv
<1>8. DiskInv'
  BY <1>1 DEF DiskInv, AckIsDurable, PlanThrough
<1>9. AnswersAgree'
  BY <1>1, <1>2 DEF AnswersAgree, RequestInv, TypeOK
<1> QED BY <1>3, <1>4, <1>5, <1>6, <1>7, <1>8, <1>9

(* A caller collects the answer. *)
LEMMA ResultReadyStep ==
    ASSUME IInv, NEW r \in Requests, ResultReady(r)
    PROVE  IInv'
<1> USE DEF IInv, ResultReady, clientVars, queueVars, ctrlVars, memVars, workVars, diskVars,
        lifeVars
<1>1. TypeOK'
  BY DEF TypeOK, RequestInv
<1>2. RequestInv' /\ AnswersAgree'
  BY DEF RequestInv, AnswersAgree, TypeOK
<1>3. ListInv' /\ FileInv' /\ PlanInv' /\ DiskInv'
  BY DEF ListInv, FileInv, PlanInv, DiskInv, AckIsDurable, PlanThrough
<1> QED BY <1>1, <1>2, <1>3

(* A caller's wait expires: the request is cancelled if nobody claimed it. *)
LEMMA ResultTimeoutStep ==
    ASSUME IInv, NEW r \in Requests, ResultTimeout(r)
    PROVE  IInv'
<1> USE DEF IInv, ResultTimeout, CancelQueued, clientVars, queueVars, ctrlVars, memVars, workVars, diskVars,
        lifeVars
<1>1. PICK s \in {"NOT_ACCEPTED", "COMMIT_UNKNOWN"} :
         /\ told' = [told EXCEPT ![r] = @ \cup {s}]
         /\ s = "NOT_ACCEPTED" => /\ state[r] = "ADMITTED"
                                  /\ cancelled' = [cancelled EXCEPT ![r] = TRUE]
         /\ s = "COMMIT_UNKNOWN" => state[r] = "CLAIMED" /\ cancelled' = cancelled
  BY Zenon
<1>2. TypeOK'
  <2>1. cancelled' \in [Requests -> BOOLEAN]
    BY Zenon DEF TypeOK
  <2>2. s \in Statuses
    BY DEF Statuses
  <2>3. told' \in [Requests -> SUBSET Statuses]
    BY <1>1, <2>2, ZenonT(30) DEF TypeOK
  <2> QED BY <2>1, <2>3 DEF TypeOK
<1> HIDE DEF ResultTimeout
<1>3. UNCHANGED <<cmd, state, status, wseq, tkt, queueVars, ctrlVars, memVars, pc,
                  workVars, diskVars, lifeVars>>
  BY DEF ResultTimeout
<1>4. RequestInv'
  BY <1>1, <1>3 DEF RequestInv, TypeOK
<1>5. AnswersAgree'
  BY <1>1, <1>3 DEF AnswersAgree, TypeOK
<1>6. ListInv' /\ FileInv' /\ PlanInv' /\ DiskInv'
  BY <1>3 DEF ListInv, FileInv, PlanInv, DiskInv, AckIsDurable, PlanThrough
<1> QED BY <1>2, <1>4, <1>5, <1>6

(* A caller cancels a request nobody claimed. *)
LEMMA CancelStep ==
    ASSUME IInv, NEW r \in Requests, Cancel(r)
    PROVE  IInv'
<1> USE DEF IInv, Cancel, CancelQueued, clientVars, queueVars, ctrlVars, memVars, workVars, diskVars, lifeVars
<1>1. TypeOK'
  <2>1. cancelled' \in [Requests -> BOOLEAN]
    BY Zenon DEF TypeOK
  <2> QED BY <2>1 DEF TypeOK
<1>2. RequestInv' /\ AnswersAgree'
  BY DEF RequestInv, AnswersAgree, TypeOK
<1>3. ListInv' /\ FileInv' /\ PlanInv' /\ DiskInv'
  BY DEF ListInv, FileInv, PlanInv, DiskInv, AckIsDurable, PlanThrough
<1> QED BY <1>1, <1>2, <1>3

-----------------------------------------------------------------------------
(* Draining. *)

LEMMA StartDrainStep ==
    ASSUME IInv, StartDrain
    PROVE  IInv'
<1> USE DEF IInv, StartDrain, clientVars, queueVars, ctrlVars, memVars, workVars, diskVars,
        lifeVars
<1>1. TypeOK'
  BY DEF TypeOK, WriterStates
<1>2. RequestInv' /\ AnswersAgree' /\ FileInv' /\ PlanInv'
  BY DEF RequestInv, AnswersAgree, FileInv, PlanInv, Planning
<1>3. ListInv'
  BY DEF ListInv, Distinct
<1>4. DiskInv'
  BY DEF DiskInv, AckIsDurable, Planning, Visible, Written, Durable, Before
<1> QED BY <1>1, <1>2, <1>3, <1>4

LEMMA WorkerExitStep ==
    ASSUME IInv, WorkerExit
    PROVE  IInv'
<1> USE DEF IInv, WorkerExit, clientVars, queueVars, ctrlVars, memVars, workVars, diskVars,
        lifeVars
<1>1. TypeOK'
  BY DEF TypeOK, WriterStates
<1>2. RequestInv' /\ AnswersAgree' /\ FileInv' /\ PlanInv'
  BY DEF RequestInv, AnswersAgree, FileInv, PlanInv, Planning
<1>3. ListInv'
  BY DEF ListInv
<1>4. DiskInv'
  BY DEF DiskInv, AckIsDurable, Planning, Visible, Written, Durable, Before
<1> QED BY <1>1, <1>2, <1>3, <1>4

(* The request at the head of the queue, the one that the drain looks at. *)
LEMMA QueueHead ==
    ASSUME IInv, queue # <<>>
    PROVE  /\ Head(queue) \in Requests /\ 1 \in DOMAIN queue /\ Head(queue) = queue[1]
           /\ Tail(queue) \in Seq(Requests)
           /\ \A i \in DOMAIN Tail(queue) : i + 1 \in DOMAIN queue /\ Tail(queue)[i] = queue[i + 1]
           /\ state[Head(queue)] = "ADMITTED" /\ cmd[Head(queue)] \in Commands
           /\ Distinct(Tail(queue))
           /\ \A i \in DOMAIN Tail(queue) : Tail(queue)[i] # Head(queue)
<1>1. queue \in Seq(Requests)
  BY DEF IInv, TypeOK
<1>2. /\ Head(queue) \in Requests /\ 1 \in DOMAIN queue /\ Head(queue) = queue[1]
      /\ Tail(queue) \in Seq(Requests)
      /\ \A i \in DOMAIN Tail(queue) : i + 1 \in DOMAIN queue /\ Tail(queue)[i] = queue[i + 1]
  BY <1>1, HeadTail
<1>3. state[Head(queue)] = "ADMITTED" /\ cmd[Head(queue)] \in Commands
  BY <1>2 DEF IInv, ListInv, RequestInv
<1>4. DOMAIN Tail(queue) \subseteq Nat \ {0}
  BY <1>2
<1>5. Distinct(Tail(queue)) /\ \A i \in DOMAIN Tail(queue) : Tail(queue)[i] # Head(queue)
  BY <1>2, <1>4 DEF IInv, ListInv, Distinct
<1> QED BY <1>2, <1>3, <1>5

(* A cancelled request at the head of the queue is answered and dropped. *)
LEMMA DrainCancelledStep ==
    ASSUME IInv, DrainCancelled
    PROVE  IInv'
<1> USE GroupCommitAssumption, NilAssumption
    DEF IInv, clientVars, queueVars, ctrlVars, memVars, workVars, diskVars, lifeVars
<1> DEFINE r == Head(queue)
<1>1. /\ pc = "draining" /\ queue # <<>>
      /\ queue' = Tail(queue) /\ queueBytes' = queueBytes - Size(cmd[r]) /\ ticket' = ticket
      /\ Finish(r, "NOT_ACCEPTED", Nil)
      /\ UNCHANGED <<cmd, cancelled, tkt, told, ctrlVars, memVars, pc, workVars, diskVars,
                     lifeVars>>
  BY DEF DrainCancelled, PopQueue, MoreToDrain
<1>2. /\ r \in Requests /\ Tail(queue) \in Seq(Requests)
      /\ state[r] = "ADMITTED" /\ cmd[r] \in Commands /\ Distinct(Tail(queue))
      /\ \A i \in DOMAIN Tail(queue) :
           i + 1 \in DOMAIN queue /\ Tail(queue)[i] = queue[i + 1] /\ Tail(queue)[i] # r
  BY <1>1, QueueHead
<1> HIDE DEF r
<1>3. "NOT_ACCEPTED" \in Statuses
  BY DEF Statuses
<1>4. OnlyFinished(r, "NOT_ACCEPTED", Nil)
  BY <1>1, <1>2, <1>3, FinishFields
<1>5. RequestInv' /\ AnswersAgree'
  BY <1>1, <1>2, <1>3, AnswerPending
<1>6. TypeOK'
  BY <1>1, <1>2, <1>4 DEF TypeOK, OnlyFinished, Size
<1>7. ListInv'
  <2>1. Distinct(queue') /\ \A i \in DOMAIN queue' : state'[queue'[i]] = "ADMITTED"
    BY <1>1, <1>2, <1>4, Members DEF ListInv, OnlyFinished
  <2>2. \A i \in DOMAIN batch : batch[i] # r /\ state'[batch[i]] = "CLAIMED"
    BY <1>1, <1>2, <1>4, Members DEF ListInv, OnlyFinished
  <2>3. /\ Distinct(batch) /\ Distinct(todo) /\ todo = <<>> /\ ~poisoned
        /\ pc \notin {"idle", "exited", "died", "poisoning"}
    BY <1>1 DEF ListInv
  <2> QED BY <1>1, <2>1, <2>2, <2>3 DEF ListInv
<1>8. FileInv'
  BY <1>1, <1>2, <1>4, Members DEF FileInv, OnlyFinished
<1>9. PlanInv'
  BY <1>1 DEF PlanInv, Planning
<1>10. DiskInv'
  BY <1>1, <1>2, <1>4 DEF DiskInv, AckIsDurable, OnlyFinished, Planning, Visible, Written,
     Durable, Before
<1> QED BY <1>5, <1>6, <1>7, <1>8, <1>9, <1>10

(* The head of the queue joins the batch. *)
LEMMA DrainClaimStep ==
    ASSUME IInv, DrainClaim
    PROVE  IInv'
<1> USE GroupCommitAssumption, NilAssumption
    DEF IInv, clientVars, queueVars, ctrlVars, memVars, workVars, diskVars, lifeVars
<1> DEFINE r == Head(queue)
<1>1. /\ pc = "draining" /\ queue # <<>> /\ ~cancelled[r]
      /\ queue' = Tail(queue) /\ queueBytes' = queueBytes - Size(cmd[r]) /\ ticket' = ticket
      /\ state' = [state EXCEPT ![r] = "CLAIMED"]
      /\ batch' = Append(batch, r) /\ batchBytes' = batchBytes + Size(cmd[r])
      /\ UNCHANGED <<cmd, status, wseq, cancelled, tkt, told, ctrlVars, memVars, pc, plan,
                     todo, poisonAs, diskVars, lifeVars>>
  BY DEF DrainClaim, PopQueue, MoreToDrain, HeadCancelled
<1>2. /\ r \in Requests /\ Tail(queue) \in Seq(Requests)
      /\ state[r] = "ADMITTED" /\ cmd[r] \in Commands /\ Distinct(Tail(queue))
      /\ \A i \in DOMAIN Tail(queue) :
           i + 1 \in DOMAIN queue /\ Tail(queue)[i] = queue[i + 1] /\ Tail(queue)[i] # r
  BY <1>1, QueueHead
<1> HIDE DEF r
<1>3. state'[r] = "CLAIMED" /\ \A q \in Requests : q # r => state'[q] = state[q]
  BY <1>1, <1>2 DEF TypeOK
<1>4. batch \in Seq(Requests)
  BY DEF TypeOK
<1>5. /\ Len(batch) \in Nat
      /\ \A i \in DOMAIN batch' : \/ i \in DOMAIN batch /\ batch'[i] = batch[i]
                                  \/ i = Len(batch) + 1 /\ batch'[i] = r
  BY <1>1, <1>2, <1>4
<1>6. TypeOK'
  BY <1>1, <1>2 DEF TypeOK, Size
<1>7. RequestInv' /\ AnswersAgree'
  BY <1>1, <1>2, <1>3 DEF RequestInv, AnswersAgree
<1>8. ListInv'
  <2>1. Distinct(batch')
    BY <1>2, <1>5 DEF ListInv, Distinct
  <2>2. \A i \in DOMAIN queue' : state'[queue'[i]] = "ADMITTED"
    BY <1>1, <1>2, <1>3, Members DEF ListInv
  <2>3. \A i \in DOMAIN batch' : state'[batch'[i]] = "CLAIMED"
    BY <1>1, <1>3, <1>5, Members DEF ListInv
  <2> QED BY <1>1, <1>2, <2>1, <2>2, <2>3 DEF ListInv
<1>9. FileInv'
  <2>1. \A k \in DOMAIN wal : wal[k].req # r
    BY <1>2 DEF FileInv
  <2>2. \A k \in DOMAIN wal : state'[wal[k].req] = state[wal[k].req]
    BY <1>3, <2>1, Members
  <2>3. \A i \in DOMAIN batch' : \A k \in DOMAIN wal : wal[k].req # batch'[i]
    BY <1>1, <1>5, <2>1 DEF FileInv
  <2> QED BY <1>1, <2>2, <2>3 DEF FileInv
<1>10. PlanInv'
  BY <1>1 DEF PlanInv, Planning
<1>11. DiskInv'
  BY <1>1 DEF DiskInv, AckIsDurable, Planning, Visible, Written, Durable, Before
<1> QED BY <1>6, <1>7, <1>8, <1>9, <1>10, <1>11

(* The batch is closed, and planned from the snapshot if it is not empty. *)
LEMMA DrainEndStep ==
    ASSUME IInv, DrainEnd
    PROVE  IInv'
<1> USE DEF IInv, DrainEnd, clientVars, queueVars, ctrlVars, memVars, workVars, diskVars,
        lifeVars
<1>1. TypeOK'
  BY SMTT(20) DEF TypeOK, WriterStates, Plan
<1>2. RequestInv' /\ AnswersAgree' /\ FileInv'
  BY DEF RequestInv, AnswersAgree, FileInv
<1>3. ListInv'
  BY DEF ListInv
<1>4. PlanInv'
  BY DEF PlanInv, TypeOK
<1>5. DiskInv'
  BY DEF DiskInv, AckIsDurable, Planning, Visible, Written, Durable, Before
<1> QED BY <1>1, <1>2, <1>3, <1>4, <1>5

-----------------------------------------------------------------------------
(* Planning. *)

(* One command is decided; an applied one gets its frame, its receipt names that frame. *)
LEMMA PrepareOneStep ==
    ASSUME IInv, PrepareOne
    PROVE  IInv'
<1> USE GroupCommitAssumption
    DEF IInv, clientVars, queueVars, ctrlVars, memVars, workVars, diskVars, lifeVars
<1> DEFINE i == Len(plan.receipts) + 1
           r == batch[i]
           c == cmd[r]
           s == Decide(plan.index, plan.tx, c)
           n == plan.source + Len(plan.frames) + 1
           d == IF s = "DEDUP_REPLAY" THEN DedupSeq(plan.tx, c) ELSE Nil
           applied == [plan EXCEPT !.receipts = Append(@, [status |-> s, seq |-> n]),
                                   !.frames = Append(@, [req |-> r, cmd |-> c, seq |-> n]),
                                   !.index = ApplyIndex(@, c),
                                   !.tx = RecordTx(@, c, n)]
           refused == [plan EXCEPT !.receipts = Append(@, [status |-> s, seq |-> d])]
<1>1. /\ pc = "prepare" /\ Len(plan.receipts) < Len(batch)
      /\ UNCHANGED <<clientVars, queueVars, ctrlVars, memVars, pc, batch, batchBytes, todo,
                     poisonAs, diskVars, lifeVars>>
  BY DEF PrepareOne
<1>2. plan' = IF s = "APPLIED" THEN applied ELSE refused
  BY DEF PrepareOne, Preparing
<1>3. /\ plan \in Plan /\ batch \in Seq(Requests)
      /\ plan.index \in Indexes /\ plan.tx \in TxIndexes /\ plan.source \in Nat
      /\ plan.frames \in Seq(Frame) /\ plan.receipts \in Seq(Receipt)
  BY DEF TypeOK, Plan
<1>4. i \in DOMAIN batch /\ r \in Requests /\ n \in Nat /\ i \in Nat
  BY <1>1, <1>3
<1>5. c \in Commands /\ c \in Command
  BY <1>1, <1>4 DEF ListInv, RequestInv
<1>6. s \in Receipts
  BY DecideType
<1>7. d \in Nat \cup {Nil}
  BY <1>3, <1>5, DedupSeqType
<1>8. /\ [status |-> s, seq |-> n] \in Receipt /\ [status |-> s, seq |-> d] \in Receipt
      /\ [req |-> r, cmd |-> c, seq |-> n] \in Frame
  BY <1>4, <1>5, <1>6, <1>7 DEF Receipt, Frame
<1>9. ApplyIndex(plan.index, c) \in Indexes /\ RecordTx(plan.tx, c, n) \in TxIndexes
  BY <1>3, <1>4, <1>5, ApplyType
<1> HIDE DEF s, d
<1>10. CASE s = "APPLIED"
  <2>1. plan' \in Plan
    <3>1. /\ Append(plan.receipts, [status |-> s, seq |-> n]) \in Seq(Receipt)
          /\ Append(plan.frames, [req |-> r, cmd |-> c, seq |-> n]) \in Seq(Frame)
      BY <1>3, <1>8
    <3>2. plan' = [source |-> plan.source,
                   frames |-> Append(plan.frames, [req |-> r, cmd |-> c, seq |-> n]),
                   receipts |-> Append(plan.receipts, [status |-> s, seq |-> n]),
                   index |-> ApplyIndex(plan.index, c), tx |-> RecordTx(plan.tx, c, n)]
      BY <1>2, <1>3, <1>10 DEF Plan
    <3> QED BY <1>3, <1>9, <3>1, <3>2 DEF Plan
  <2>2. /\ plan'.source = plan.source
        /\ plan'.receipts = Append(plan.receipts, [status |-> s, seq |-> n])
        /\ plan'.frames = Append(plan.frames, [req |-> r, cmd |-> c, seq |-> n])
    BY <1>2, <1>3, <1>10 DEF Plan
  <2> HIDE DEF c, applied, refused
  <2>3. /\ Len(plan'.frames) = Len(plan.frames) + 1
        /\ \A k \in DOMAIN plan.frames : plan'.frames[k] = plan.frames[k]
        /\ plan'.frames[Len(plan.frames) + 1].req = r
        /\ Len(plan.frames) \in Nat /\ DOMAIN plan'.frames = 1..(Len(plan.frames) + 1)
        /\ DOMAIN plan.frames \subseteq DOMAIN plan'.frames
        /\ \A k \in DOMAIN plan'.frames : k \in DOMAIN plan.frames \/ k = Len(plan.frames) + 1
    BY <1>3, <1>8, <2>2, AppendParts
  <2>4. /\ Len(plan'.receipts) = i
        /\ \A j \in DOMAIN plan.receipts : plan'.receipts[j] = plan.receipts[j]
        /\ plan'.receipts[i].status = s /\ plan'.receipts[i].seq = n
        /\ \A j \in DOMAIN plan'.receipts : j \in DOMAIN plan.receipts \/ j = i
    BY <1>3, <1>8, <2>2, AppendParts
  <2>5. \A k \in DOMAIN plan'.frames : \E j \in DOMAIN batch : plan'.frames[k].req = batch[j]
    BY <1>1, <1>4, <2>3, SMTT(20) DEF PlanInv, Planning
  <2>6. ASSUME NEW j \in DOMAIN plan'.receipts, plan'.receipts[j].status = "APPLIED"
        PROVE  /\ plan'.receipts[j].seq \in Nat
               /\ plan'.receipts[j].seq - plan'.source \in DOMAIN plan'.frames
               /\ plan'.frames[plan'.receipts[j].seq - plan'.source].req = batch[j]
    <3>1. CASE j \in DOMAIN plan.receipts
      <4>1. /\ plan.receipts[j].seq \in Nat
            /\ plan.receipts[j].seq - plan.source \in DOMAIN plan.frames
            /\ plan.frames[plan.receipts[j].seq - plan.source].req = batch[j]
        BY <1>1, <2>4, <2>6, <3>1 DEF PlanInv, Planning
      <4>2. plan'.receipts[j].seq - plan'.source = plan.receipts[j].seq - plan.source
        BY <2>2, <2>4, <3>1
      <4> QED BY <2>3, <2>4, <3>1, <4>1, <4>2
    <3>2. CASE j = i
      <4>1. plan'.receipts[j].seq - plan'.source = Len(plan.frames) + 1
        BY <1>3, <2>2, <2>4, <3>2
      <4> QED BY <1>4, <2>3, <2>4, <3>2, <4>1
    <3> QED BY <2>4, <3>1, <3>2
  <2>7. PlanInv'
    BY <1>1, <1>4, <2>4, <2>5, <2>6 DEF PlanInv
  <2>8. DiskInv'
    BY <1>1, <2>2 DEF DiskInv, AckIsDurable, Planning, Visible, Written, Durable, Before
  <2>9. TypeOK'
    BY <1>1, <2>1 DEF TypeOK
  <2> QED BY <1>1, <2>7, <2>8, <2>9 DEF RequestInv, ListInv, FileInv, AnswersAgree
<1>11. CASE s # "APPLIED"
  <2>1. plan' \in Plan
    <3>1. Append(plan.receipts, [status |-> s, seq |-> d]) \in Seq(Receipt)
      BY <1>3, <1>8
    <3>2. plan' = [source |-> plan.source, frames |-> plan.frames,
                   receipts |-> Append(plan.receipts, [status |-> s, seq |-> d]),
                   index |-> plan.index, tx |-> plan.tx]
      BY <1>2, <1>3, <1>11 DEF Plan
    <3> QED BY <1>3, <3>1, <3>2 DEF Plan
  <2>2. /\ plan'.source = plan.source /\ plan'.frames = plan.frames
        /\ plan'.receipts = Append(plan.receipts, [status |-> s, seq |-> d])
    BY <1>2, <1>3, <1>11 DEF Plan
  <2> HIDE DEF c, applied, refused
  <2>3. /\ Len(plan'.receipts) = i /\ plan'.receipts[i].status = s
        /\ \A j \in DOMAIN plan.receipts : plan'.receipts[j] = plan.receipts[j]
        /\ \A j \in DOMAIN plan'.receipts : j \in DOMAIN plan.receipts \/ j = i
    BY <1>3, <1>8, <2>2
  <2>4. PlanInv'
    BY <1>1, <1>4, <1>11, <2>2, <2>3, SMTT(20) DEF PlanInv, Planning
  <2>5. DiskInv'
    BY <1>1, <2>2 DEF DiskInv, AckIsDurable, Planning, Visible, Written, Durable, Before
  <2>6. TypeOK'
    BY <1>1, <2>1 DEF TypeOK
  <2> QED BY <1>1, <2>4, <2>5, <2>6 DEF RequestInv, ListInv, FileInv, AnswersAgree
<1> QED BY <1>10, <1>11

LEMMA PrepareEndStep ==
    ASSUME IInv, PrepareEnd
    PROVE  IInv'
<1> USE DEF IInv, PrepareEnd, clientVars, queueVars, ctrlVars, memVars, workVars, diskVars,
        lifeVars
<1>1. TypeOK'
  BY DEF TypeOK, WriterStates
<1>2. RequestInv' /\ AnswersAgree' /\ ListInv' /\ FileInv' /\ PlanInv'
  BY DEF RequestInv, AnswersAgree, ListInv, FileInv, PlanInv, Planning
<1>3. DiskInv'
  BY DEF DiskInv, AckIsDurable, Planning, Visible, Written, Durable, Before
<1> QED BY <1>1, <1>2, <1>3

-----------------------------------------------------------------------------
(* Committing. *)

(* Nothing applied: straight to the answers. *)
LEMMA NothingToPublishStep ==
    ASSUME IInv, NothingToPublish
    PROVE  IInv'
<1> USE GroupCommitAssumption
    DEF IInv, NothingToPublish, clientVars, queueVars, ctrlVars, memVars, workVars,
        diskVars, lifeVars
<1>1. TypeOK'
  BY DEF TypeOK, WriterStates
<1>2. RequestInv' /\ AnswersAgree'
  BY DEF RequestInv, AnswersAgree
<1>3. ListInv'
  BY DEF ListInv
<1>4. FileInv'
  BY DEF FileInv, ListInv
<1>5. PlanInv'
  BY DEF PlanInv, Planning
<1>6. DiskInv'
  BY SMTT(20) DEF DiskInv, ListInv, AckIsDurable, PlanThrough, Planning, Visible, Written, Durable,
     Before, TypeOK, Plan, Pos
<1> QED BY <1>1, <1>2, <1>3, <1>4, <1>5, <1>6

LEMMA NothingToWriteLegacyStep ==
    ASSUME IInv, NothingToWriteLegacy
    PROVE  IInv'
<1> USE GroupCommitAssumption
    DEF IInv, NothingToWriteLegacy, clientVars, queueVars, ctrlVars, memVars, workVars,
        diskVars, lifeVars
<1>1. TypeOK'
  BY DEF TypeOK, WriterStates
<1>2. RequestInv' /\ AnswersAgree'
  BY DEF RequestInv, AnswersAgree
<1>3. ListInv'
  BY DEF ListInv
<1>4. FileInv'
  BY DEF FileInv, ListInv
<1>5. PlanInv'
  BY DEF PlanInv, Planning
<1>6. DiskInv'
  BY SMTT(20) DEF DiskInv, ListInv, AckIsDurable, PlanThrough, Planning, Visible, Written, Durable,
     Before, TypeOK, Plan, Pos
<1> QED BY <1>1, <1>2, <1>3, <1>4, <1>5, <1>6

(* The frames of the plan follow the published prefix. *)
LEMMA WriteWalStep ==
    ASSUME IInv, WriteWal
    PROVE  IInv'
<1> USE GroupCommitAssumption
    DEF IInv, clientVars, queueVars, ctrlVars, memVars, workVars, diskVars, lifeVars
<1>1. /\ pc = "planned" /\ pc' = "written" /\ wal' = wal \o plan.frames
      /\ UNCHANGED <<clientVars, queueVars, ctrlVars, memVars, workVars, synced, current,
                     lifeVars>>
  BY DEF WriteWal, MayWrite
<1>2. /\ wal \in Seq(Frame) /\ plan.frames \in Seq(Frame) /\ plan.source \in Nat
      /\ snap.through \in Nat /\ synced \in Nat
  BY DEF TypeOK, Plan
<1>3. /\ wal' \in Seq(Frame) /\ Len(wal') = Len(wal) + Len(plan.frames)
      /\ \A k \in DOMAIN wal' :
           \/ k \in DOMAIN wal /\ wal'[k] = wal[k]
           \/ k - Len(wal) \in DOMAIN plan.frames /\ wal'[k] = plan.frames[k - Len(wal)]
  BY <1>1, <1>2, ConcatParts
<1>4. /\ Len(wal) \in Nat /\ Len(plan.frames) \in Nat /\ DOMAIN wal \subseteq DOMAIN wal'
      /\ \A k \in DOMAIN wal : wal'[k] = wal[k]
      /\ \A k \in DOMAIN plan.frames : wal'[Len(wal) + k] = plan.frames[k]
  BY <1>1, <1>2, ConcatKeeps
<1>5. TypeOK'
  BY <1>1, <1>3 DEF TypeOK, WriterStates
<1>6. RequestInv' /\ AnswersAgree' /\ PlanInv' /\ ListInv'
  BY <1>1 DEF RequestInv, AnswersAgree, PlanInv, ListInv, Planning
<1>7. FileInv'
  <2>1. \A k \in DOMAIN plan.frames :
           /\ state[plan.frames[k].req] = "CLAIMED"
           /\ status[plan.frames[k].req] \notin {"NOT_ACCEPTED", "OVERLOADED"}
    BY <1>1, Members, NilAssumption DEF PlanInv, Planning, ListInv, RequestInv, Statuses
  <2> QED BY <1>1, <1>3, <2>1 DEF FileInv
<1>8. DiskInv'
  <2>1. Len(wal) = Pos(plan.source) /\ plan.source = snap.through
    BY <1>1 DEF DiskInv, ListInv, Before, Planning, Visible
  <2>2. /\ Len(wal') = Pos(PlanThrough') /\ Pos(plan.source) >= 0
        /\ \A k \in DOMAIN plan.frames : wal'[Pos(plan.source) + k] = plan.frames[k]
    <3>1. PlanThrough' = PlanThrough /\ Pos(PlanThrough) = Pos(plan.source) + Len(plan.frames)
      BY <1>1, <1>2, <1>4 DEF Pos, PlanThrough
    <3> QED BY <1>3, <1>4, <2>1, <3>1
  <2>3. AckIsDurable'
    <3>1. synced <= synced' /\ current <= current' /\ snap.through <= snap'.through
      BY <1>1, <1>2 DEF TypeOK
    <3> QED BY <1>1, <1>4, <1>5, <3>1, AckStays DEF DiskInv
  <2>4. synced <= Len(wal')
    BY <1>2, <1>3, <1>4 DEF DiskInv
  <2> QED BY <1>1, <2>1, <2>2, <2>3, <2>4 DEF DiskInv, ListInv, Pos, PlanThrough, Planning,
             Visible, Written, Durable, Before
<1> QED BY <1>5, <1>6, <1>7, <1>8

(* fsync: the whole file is durable. *)
LEMMA FsyncWalStep ==
    ASSUME IInv, FsyncWal
    PROVE  IInv'
<1> USE GroupCommitAssumption
    DEF IInv, FsyncWal, clientVars, queueVars, ctrlVars, memVars, workVars,
        diskVars, lifeVars
<1>1. TypeOK'
  BY DEF TypeOK, WriterStates
<1>2. RequestInv' /\ AnswersAgree'
  BY DEF RequestInv, AnswersAgree
<1>3. ListInv'
  BY DEF ListInv
<1>4. FileInv'
  BY DEF FileInv, ListInv
<1>5. PlanInv'
  BY DEF PlanInv, Planning
<1>6. DiskInv'
  <2>1. /\ wal \in Seq(Frame) /\ synced \in Nat /\ synced <= Len(wal) /\ Len(wal) \in Nat
        /\ plan.source \in Nat /\ plan.frames \in Seq(Frame)
    BY DEF TypeOK, Plan, DiskInv
  <2>2. AckIsDurable'
    <3>1. synced <= synced' /\ current <= current' /\ snap.through <= snap'.through
      BY <2>1 DEF TypeOK
    <3> QED BY <1>1, <3>1, AckStays DEF DiskInv
  <2>3. Len(wal) = Pos(PlanThrough) /\ Pos(snap.through) <= synced /\ snap.through \in Nat
    BY DEF DiskInv, Written, TypeOK
  <2>4. PlanThrough' = PlanThrough /\ Pos(PlanThrough) \in Int /\ Pos(snap.through) \in Int
    BY <2>1, <2>3 DEF Pos, PlanThrough
  <2>5. Pos(PlanThrough) <= synced' /\ Pos(snap.through) <= synced' /\ synced' <= Len(wal)
    BY <2>1, <2>3, <2>4
  <2>6. pc' \in {"synced", "published"} /\ (Published => pc' = "synced") /\ ~poisoned
    BY DEF ListInv
  <2> QED BY <2>2, <2>4, <2>5, <2>6 DEF DiskInv, Planning, Visible, Written, Durable, Before
<1> QED BY <1>1, <1>2, <1>3, <1>4, <1>5, <1>6

(* CURRENT names the new prefix. *)
LEMMA PublishBatchStep ==
    ASSUME IInv, PublishBatch
    PROVE  IInv'
<1> USE GroupCommitAssumption
    DEF IInv, PublishBatch, MayPublish, clientVars, queueVars, ctrlVars, memVars, workVars,
        diskVars, lifeVars
<1>1. TypeOK'
  BY DEF TypeOK, WriterStates, Plan, PlanThrough
<1>2. RequestInv' /\ AnswersAgree'
  BY DEF RequestInv, AnswersAgree
<1>3. ListInv'
  BY DEF ListInv
<1>4. FileInv'
  BY DEF FileInv, ListInv
<1>5. PlanInv'
  BY DEF PlanInv, Planning
<1>6. DiskInv'
  <2>1. /\ wal \in Seq(Frame) /\ synced \in Nat /\ snap.through \in Nat /\ current \in Nat
        /\ plan.source \in Nat /\ plan.frames \in Seq(Frame) /\ Len(plan.frames) \in Nat
    BY DEF TypeOK, Plan
  <2>2. /\ plan.source = snap.through /\ PlanThrough' = PlanThrough
        /\ snap.through <= PlanThrough
        /\ Published => current <= PlanThrough
    BY <2>1 DEF DiskInv, Planning, Visible, PlanThrough, ListInv
  <2>3. AckIsDurable'
    <3>1. /\ synced <= synced' /\ snap.through <= snap'.through
          /\ Published => current <= current'
      BY <2>1, <2>2
    <3> QED BY <1>1, <3>1, AckStays DEF DiskInv
  <2> QED BY <2>1, <2>2, <2>3 DEF DiskInv, ListInv, Planning, Visible, Written, Durable, Before
<1> QED BY <1>1, <1>2, <1>3, <1>4, <1>5, <1>6

(* The snapshot and the cursor catch up with CURRENT. *)
LEMMA SwapStep ==
    ASSUME IInv, Swap
    PROVE  IInv'
<1> USE GroupCommitAssumption
    DEF IInv, Swap, CandidateSnapshot, clientVars, queueVars, ctrlVars, memVars, workVars,
        diskVars, lifeVars
<1>1. TypeOK'
  BY DEF TypeOK, WriterStates, Plan, PlanThrough
<1>2. RequestInv' /\ AnswersAgree'
  BY DEF RequestInv, AnswersAgree
<1>3. ListInv'
  BY DEF ListInv
<1>4. FileInv'
  BY DEF FileInv, ListInv
<1>5. PlanInv'
  BY DEF PlanInv, Planning
<1>6. DiskInv'
  <2>1. /\ wal \in Seq(Frame) /\ synced \in Nat /\ snap.through \in Nat /\ current \in Nat
        /\ plan.source \in Nat /\ plan.frames \in Seq(Frame) /\ Len(plan.frames) \in Nat
    BY DEF TypeOK, Plan
  <2>2. /\ plan.source = snap.through /\ PlanThrough' = PlanThrough
        /\ snap.through <= PlanThrough /\ snap'.through = PlanThrough
        /\ Published => PlanThrough = current /\ cursor' = PlanThrough
        /\ PlanThrough \in Nat
    BY <2>1 DEF DiskInv, Planning, Visible, PlanThrough
  <2>3. AckIsDurable'
    <3>1. /\ synced <= synced' /\ snap.through <= snap'.through
          /\ Published => current <= current'
      BY <2>1, <2>2
    <3> QED BY <1>1, <3>1, AckStays DEF DiskInv
  <2>4. FirstSeq - 1 <= PlanThrough /\ Pos(PlanThrough) <= synced
    BY <2>1, <2>2 DEF DiskInv, Durable
  <2> QED BY <2>1, <2>2, <2>3, <2>4 DEF DiskInv, ListInv, Planning, Visible, Written,
             Durable, Before
<1> QED BY <1>1, <1>2, <1>3, <1>4, <1>5, <1>6

LEMMA StartReceiptsStep ==
    ASSUME IInv, StartReceipts
    PROVE  IInv'
<1> USE GroupCommitAssumption
    DEF IInv, StartReceipts, clientVars, queueVars, ctrlVars, memVars, workVars,
        diskVars, lifeVars
<1>1. TypeOK'
  BY DEF TypeOK, WriterStates
<1>2. RequestInv' /\ AnswersAgree'
  BY DEF RequestInv, AnswersAgree
<1>3. ListInv'
  BY DEF ListInv
<1>4. FileInv'
  BY DEF FileInv, ListInv
<1>5. PlanInv'
  BY DEF PlanInv, Planning
<1>6. DiskInv'
  BY SMTT(20) DEF DiskInv, ListInv, AckIsDurable, PlanThrough, Planning, Visible, Written, Durable,
     Before
<1> QED BY <1>1, <1>2, <1>3, <1>4, <1>5, <1>6

(* One client of the batch hears its receipt. *)
LEMMA FinishReceiptStep ==
    ASSUME IInv, FinishReceipt
    PROVE  IInv'
<1> USE GroupCommitAssumption, NilAssumption
    DEF IInv, clientVars, queueVars, ctrlVars, memVars, workVars, diskVars, lifeVars
<1>1. /\ pc = "receipts"
      /\ UNCHANGED <<cmd, cancelled, tkt, told, queueVars, ctrlVars, memVars, pc, workVars,
                     diskVars, lifeVars>>
  BY DEF FinishReceipt
<1>2. PICK k \in DOMAIN batch :
         /\ Answered = 1..(k - 1)
         /\ Finish(batch[k], plan.receipts[k].status, plan.receipts[k].seq)
  BY DEF FinishReceipt
<1> DEFINE r == batch[k]
           s == plan.receipts[k].status
           n == plan.receipts[k].seq
<1>3. /\ plan.receipts \in Seq(Receipt) /\ plan.frames \in Seq(Frame) /\ plan.source \in Nat
      /\ batch \in Seq(Requests)
  BY DEF TypeOK, Plan
<1>4. k \in DOMAIN plan.receipts /\ plan.receipts[k] \in Receipt
  BY <1>1, <1>3 DEF PlanInv, Planning
<1>5. /\ r \in Requests /\ s \in Receipts /\ s \in Statuses /\ n \in Nat \cup {Nil}
      /\ s \notin {"NOT_ACCEPTED", "OVERLOADED"}
  BY <1>3, <1>4 DEF Receipt, Statuses, Receipts
<1>6. state[r] = "CLAIMED"
  <2>1. k \notin Answered
    BY <1>2, <1>3
  <2> QED BY <2>1 DEF Answered, ListInv
<1>7. OnlyFinished(r, s, n)
  BY <1>2, <1>5, FinishFields
<1>8. s = "APPLIED" =>
         /\ n \in Nat
         /\ n - plan.source \in DOMAIN plan.frames
         /\ plan.frames[n - plan.source].req = r
  BY <1>1, <1>4 DEF PlanInv, Planning
<1>9. RequestInv' /\ AnswersAgree'
  BY <1>1, <1>2, <1>5, <1>6, <1>8, AnswerPending
<1> HIDE DEF r, s, n
<1>10. TypeOK'
  BY <1>1, <1>7 DEF TypeOK, OnlyFinished
<1>11. ListInv'
  BY <1>1, <1>6, <1>7, Members DEF ListInv, OnlyFinished
<1>12. FileInv'
  BY <1>1, <1>5, <1>7, Members DEF FileInv, OnlyFinished
<1>13. PlanInv'
  BY <1>1 DEF PlanInv
<1>14. DiskInv'
  <2>1. s = "APPLIED" => /\ Pos(n) \in DOMAIN wal /\ wal[Pos(n)].req = r
                         /\ Pos(n) <= synced
                         /\ Published => n <= current
                         /\ n <= snap.through
    <3> SUFFICES ASSUME s = "APPLIED"
                 PROVE  /\ Pos(n) \in DOMAIN wal /\ wal[Pos(n)].req = r
                        /\ Pos(n) <= synced
                        /\ Published => n <= current
                        /\ n <= snap.through
      OBVIOUS
    <3>1. /\ n \in Nat /\ n - plan.source \in 1..Len(plan.frames) /\ Len(plan.frames) \in Nat
      BY <1>3, <1>8
    <3>2. /\ Len(wal) = Pos(PlanThrough) /\ Pos(plan.source) >= 0
          /\ wal[Pos(plan.source) + (n - plan.source)] = plan.frames[n - plan.source]
          /\ Pos(PlanThrough) <= synced /\ PlanThrough = snap.through
          /\ Published => PlanThrough = current
      BY <1>1, <1>8 DEF DiskInv, Written, Durable, Visible
    <3>3. wal \in Seq(Frame) /\ synced \in Nat /\ current \in Nat
      BY DEF TypeOK
    <3>4. plan.source \in Nat /\ Pos(n) = Pos(plan.source) + (n - plan.source)
      BY <1>3, <3>1, PosShift
    <3>5. Pos(n) \in DOMAIN wal /\ Pos(n) <= synced
      <4>1. /\ Pos(n) \in Int /\ Pos(n) >= 1 /\ Pos(n) <= Pos(PlanThrough)
            /\ Pos(PlanThrough) \in Int
        BY <3>1, <3>2, <3>4, PosWithin DEF PlanThrough
      <4> QED BY <3>2, <3>3, <4>1
    <3> QED BY <1>3, <1>8, <3>1, <3>2, <3>3, <3>4, <3>5, SMTT(20) DEF PlanThrough
  <2>2. AckIsDurable'
    BY <1>1, <1>7, <2>1 DEF DiskInv, AckIsDurable, OnlyFinished
  <2> QED BY <1>1, <2>2 DEF DiskInv, PlanThrough
<1> QED BY <1>9, <1>10, <1>11, <1>12, <1>13, <1>14

(* The empty plan the worker starts from. *)
LEMMA NoPlanType == NoPlan \in Plan
<1>1. EmptyIndex \in Indexes /\ EmptyTx \in TxIndexes
  BY DEF EmptyIndex, EmptyTx, Indexes, TxIndexes
<1> QED BY <1>1, GroupCommitAssumption DEF NoPlan, Plan

(* The whole batch is answered. *)
LEMMA BatchEndStep ==
    ASSUME IInv, BatchEnd
    PROVE  IInv'
<1> USE GroupCommitAssumption
    DEF IInv, BatchEnd, clientVars, queueVars, ctrlVars, memVars, workVars, diskVars, lifeVars
<1>1. TypeOK'
  BY NoPlanType DEF TypeOK, WriterStates
<1>2. RequestInv' /\ AnswersAgree'
  BY DEF RequestInv, AnswersAgree
<1>3. ListInv'
  BY DEF ListInv, Distinct
<1>4. FileInv' /\ PlanInv'
  BY DEF FileInv, PlanInv, Planning
<1>5. DiskInv'
  BY DEF DiskInv, AckIsDurable, Planning, Visible, Written, Durable, Before
<1> QED BY <1>1, <1>2, <1>3, <1>4, <1>5

(* The telemetry callback or a version too wide ends the worker thread. *)
LEMMA WorkerDiesStep ==
    ASSUME IInv, SinkRaises \/ PrepareRaises
    PROVE  IInv'
<1> USE GroupCommitAssumption
    DEF IInv, clientVars, queueVars, ctrlVars, memVars, workVars, diskVars, lifeVars
<1>0. /\ pc \in {"prepare", "receipts"}
      /\ pc' = "died" /\ batch' = <<>> /\ plan' = NoPlan
      /\ UNCHANGED <<clientVars, queueVars, ctrlVars, memVars, batchBytes, todo, poisonAs,
                     diskVars, lifeVars>>
  BY DEF SinkRaises, PrepareRaises
<1>1. TypeOK'
  BY <1>0, NoPlanType DEF TypeOK, WriterStates
<1>2. RequestInv' /\ AnswersAgree'
  BY <1>0 DEF RequestInv, AnswersAgree
<1>3. ListInv'
  BY <1>0 DEF ListInv, Distinct
<1>4. FileInv' /\ PlanInv'
  BY <1>0 DEF FileInv, PlanInv, Planning
<1>5. DiskInv'
  BY <1>0 DEF DiskInv, AckIsDurable, Planning, Visible, Written, Durable, Before, ListInv
<1> QED BY <1>1, <1>2, <1>3, <1>4, <1>5

-----------------------------------------------------------------------------
(* Failing. *)

(* What every failure has in common: the queue is taken, nobody is answered yet. *)
LEMMA PoisonKeeps ==
    ASSUME IInv, NEW s \in {"NOT_ACCEPTED", "COMMIT_UNKNOWN"}, Poison(s)
    PROVE  /\ todo' \in Seq(Requests) /\ queue' \in Seq(Requests) /\ queueBytes' \in Int
           /\ poisonAs' \in {"NOT_ACCEPTED", "COMMIT_UNKNOWN"}
           /\ pc' = "poisoning" /\ poisoned' = TRUE /\ stop' = TRUE
           /\ UNCHANGED <<cmd, state, status, wseq, cancelled, tkt, told, ticket, fdOpen, lease,
                          batch, batchBytes, plan, ctl, outcome>>
           /\ RequestInv' /\ AnswersAgree' /\ PlanInv'
<1>1. batch \in Seq(Requests) /\ queue \in Seq(Requests)
  BY DEF IInv, TypeOK
<1>2. todo' \in Seq(Requests)
  BY <1>1, ConcatParts DEF Poison, Unanswered
<1>3. RequestInv' /\ AnswersAgree' /\ PlanInv'
  BY DEF IInv, RequestInv, AnswersAgree, PlanInv, Planning, Poison, clientVars
<1> QED BY <1>2, <1>3 DEF Poison, clientVars, lifeVars

(* Before any byte is written: no request of the batch or of the queue is in the file. *)
LEMMA FailBeforeWalStep ==
    ASSUME IInv, FailBeforeWal
    PROVE  IInv'
<1> USE DEF IInv, memVars, diskVars
<1>1. /\ Poison("NOT_ACCEPTED") /\ pc = "planned"
      /\ UNCHANGED <<snap, cursor, wal, synced, current>>
  BY DEF FailBeforeWal
<1>2. TypeOK' /\ RequestInv' /\ AnswersAgree' /\ PlanInv'
  BY <1>1, PoisonKeeps DEF TypeOK, WriterStates
<1>3. ListInv'
  BY <1>1, PoisonLists
<1>4. FileInv'
  <2>1. batch \in Seq(Requests) /\ queue \in Seq(Requests) /\ todo' = batch \o queue
    BY <1>1 DEF TypeOK, Poison, Unanswered
  <2>2. \A i \in DOMAIN batch : \A k \in DOMAIN wal : wal[k].req # batch[i]
    BY <1>1 DEF FileInv
  <2>3. \A i \in DOMAIN queue : \A k \in DOMAIN wal : wal[k].req # queue[i]
    BY DEF FileInv, ListInv
  <2>4. \A i \in DOMAIN todo' : \A k \in DOMAIN wal : wal[k].req # todo'[i]
    BY <2>1, <2>2, <2>3, ConcatParts
  <2> QED BY <1>1, <2>4, PoisonKeeps DEF FileInv
<1>5. DiskInv'
  BY <1>1, PoisonKeeps DEF DiskInv, AckIsDurable, PlanThrough, Planning, Visible, Written,
     Durable, Before
<1> QED BY <1>2, <1>3, <1>4, <1>5

(* A legacy writer calls even this failure uncertain. *)
LEMMA FailBeforeWalLegacyStep ==
    ASSUME IInv, FailBeforeWalLegacy
    PROVE  IInv'
<1> USE DEF IInv, memVars, diskVars
<1>1. /\ Poison("COMMIT_UNKNOWN") /\ pc \notin {"receipts", "poisoning"}
      /\ UNCHANGED <<snap, cursor, wal, synced, current>>
  BY DEF FailBeforeWalLegacy
<1>2. TypeOK' /\ RequestInv' /\ AnswersAgree' /\ PlanInv'
  BY <1>1, PoisonKeeps DEF TypeOK, WriterStates
<1>3. ListInv'
  BY <1>1, PoisonLists
<1>4. FileInv'
  BY <1>1, PoisonKeeps DEF FileInv, Poison
<1>5. DiskInv'
  BY <1>1, PoisonKeeps DEF DiskInv, AckIsDurable, PlanThrough, Planning, Visible, Written,
     Durable, Before
<1> QED BY <1>2, <1>3, <1>4, <1>5

(* Part of the write reached the file: those requests stay uncertain. *)
LEMMA WriteWalFailsStep ==
    ASSUME IInv, WriteWalFails
    PROVE  IInv'
<1> USE GroupCommitAssumption DEF IInv, memVars, diskVars
<1>1. /\ Poison("COMMIT_UNKNOWN") /\ pc = "planned" /\ UNCHANGED <<snap, cursor, synced, current>>
  BY DEF WriteWalFails, MayWrite
<1>2. PICK m \in 0..Len(plan.frames) : wal' = wal \o SubSeq(plan.frames, 1, m)
  BY DEF WriteWalFails
<1> DEFINE part == SubSeq(plan.frames, 1, m)
<1>3. wal \in Seq(Frame) /\ plan.frames \in Seq(Frame) /\ synced \in Nat
  BY DEF TypeOK, Plan
<1>4. /\ part \in Seq(Frame)
      /\ \A k \in DOMAIN part : k \in DOMAIN plan.frames /\ part[k] = plan.frames[k]
  BY <1>3
<1> HIDE DEF part
<1>5. /\ wal' \in Seq(Frame) /\ Len(wal') = Len(wal) + Len(part)
      /\ \A k \in DOMAIN wal' :
           \/ k \in DOMAIN wal /\ wal'[k] = wal[k]
           \/ k - Len(wal) \in DOMAIN part /\ wal'[k] = part[k - Len(wal)]
  BY <1>2, <1>3, <1>4, ConcatParts DEF part
<1>6. /\ synced <= Len(wal') /\ DOMAIN wal \subseteq DOMAIN wal'
      /\ \A k \in DOMAIN wal : wal'[k] = wal[k]
  BY <1>2, <1>3, <1>4, <1>5 DEF DiskInv, part
<1>7. TypeOK' /\ RequestInv' /\ AnswersAgree' /\ PlanInv'
  <2>1. "poisoning" \in WriterStates
    BY DEF WriterStates
  <2> QED BY <1>1, <1>5, <2>1, PoisonKeeps, ZenonT(30) DEF TypeOK
<1>8. ListInv'
  BY <1>1, PoisonLists
<1>9. FileInv'
  <2>1. \A k \in DOMAIN plan.frames :
           /\ state[plan.frames[k].req] = "CLAIMED"
           /\ status[plan.frames[k].req] \notin {"NOT_ACCEPTED", "OVERLOADED"}
    BY <1>1, Members, NilAssumption DEF PlanInv, Planning, ListInv, RequestInv, Statuses
  <2>2. \A k \in DOMAIN wal' : /\ state[wal'[k].req] \in {"CLAIMED", "DONE"}
                               /\ status[wal'[k].req] \notin {"NOT_ACCEPTED", "OVERLOADED"}
    <3> SUFFICES ASSUME NEW k \in DOMAIN wal'
                 PROVE  /\ state[wal'[k].req] \in {"CLAIMED", "DONE"}
                        /\ status[wal'[k].req] \notin {"NOT_ACCEPTED", "OVERLOADED"}
      OBVIOUS
    <3>1. CASE k \in DOMAIN wal /\ wal'[k] = wal[k]
      BY <3>1 DEF FileInv
    <3>2. CASE k - Len(wal) \in DOMAIN part /\ wal'[k] = part[k - Len(wal)]
      BY <1>4, <2>1, <3>2
    <3> QED BY <1>5, <3>1, <3>2
  <2> QED BY <1>1, <2>2, PoisonKeeps DEF FileInv, Poison
<1>10. DiskInv'
  <2>1. AckIsDurable'
    <3>1. synced <= synced' /\ current <= current' /\ snap.through <= snap'.through
      BY <1>1 DEF TypeOK
    <3>2. status' = status /\ wseq' = wseq
      BY <1>1, PoisonKeeps
    <3> QED BY <1>6, <1>7, <3>1, <3>2, AckStays DEF DiskInv
  <2> QED BY <1>1, <1>6, <2>1, PoisonKeeps DEF DiskInv, Planning, Visible, Written, Durable,
             Before
<1> QED BY <1>7, <1>8, <1>9, <1>10

(* fsync reports an error. *)
LEMMA FsyncWalFailsStep ==
    ASSUME IInv, FsyncWalFails
    PROVE  IInv'
<1> USE DEF IInv, memVars, diskVars
<1>1. /\ Poison("COMMIT_UNKNOWN") /\ pc \notin {"receipts", "poisoning"}
      /\ UNCHANGED <<snap, cursor, wal, current>>
  BY DEF FsyncWalFails
<1>6. synced' \in Nat /\ synced <= synced' /\ synced' <= Len(wal) /\ synced \in Nat
  BY DEF FsyncWalFails, TypeOK, DiskInv
<1>2. TypeOK' /\ RequestInv' /\ AnswersAgree' /\ PlanInv'
  BY <1>1, <1>6, PoisonKeeps DEF TypeOK, WriterStates
<1>3. ListInv'
  BY <1>1, PoisonLists
<1>4. FileInv'
  BY <1>1, PoisonKeeps DEF FileInv, Poison
<1>5. DiskInv'
  <2>1. AckIsDurable'
    <3>1. synced <= synced' /\ current <= current' /\ snap.through <= snap'.through
      BY <1>1, <1>6 DEF TypeOK
    <3>2. status' = status /\ wseq' = wseq /\ wal' = wal
      BY <1>1, PoisonKeeps
    <3> QED BY <1>2, <3>1, <3>2, AckStays DEF DiskInv
  <2>2. Pos(snap.through) <= synced'
    <3>1. snap.through \in Nat /\ Pos(snap.through) <= synced
      BY DEF DiskInv, TypeOK
    <3>2. Pos(snap.through) \in Int
      BY <3>1, GroupCommitAssumption DEF Pos
    <3> QED BY <1>6, <3>1, <3>2
  <2>3. UNCHANGED <<snap, cursor, wal, current>> /\ pc' = "poisoning" /\ poisoned' = TRUE
    BY <1>1, PoisonKeeps
  <2> QED BY <1>6, <2>1, <2>2, <2>3 DEF DiskInv, Planning, Visible, Written, Durable, Before
<1> QED BY <1>2, <1>3, <1>4, <1>5

(* The publication fails, before or after CURRENT was replaced. *)
LEMMA PublishBatchFailsStep ==
    ASSUME IInv, PublishBatchFails
    PROVE  IInv'
<1> USE DEF IInv, memVars, diskVars
<1>1. /\ Poison("COMMIT_UNKNOWN") /\ pc \notin {"receipts", "poisoning"}
      /\ UNCHANGED <<snap, cursor, wal, synced>>
  BY DEF PublishBatchFails
<1>6. current' = current \/ (pc = "synced" /\ current' = PlanThrough)
  <2>1. CASE MayPublish
    BY <2>1 DEF PublishBatchFails, MayPublish
  <2>2. CASE ~MayPublish
    BY <2>2 DEF PublishBatchFails, MayPublish
  <2> QED BY <2>1, <2>2
<1>7. current' \in Nat /\ (Published => current <= current')
  <2>1. /\ plan.source \in Nat /\ Len(plan.frames) \in Nat /\ current \in Nat
        /\ PlanThrough = plan.source + Len(plan.frames)
    BY DEF TypeOK, Plan, PlanThrough
  <2>2. pc = "synced" => plan.source = snap.through /\ ~poisoned
    BY DEF DiskInv, ListInv, Planning, Visible
  <2>3. pc = "synced" /\ Published => current = plan.source
    BY <2>2 DEF DiskInv
  <2> QED BY <1>6, <2>1, <2>3
<1>2. TypeOK' /\ RequestInv' /\ AnswersAgree' /\ PlanInv'
  BY <1>1, <1>7, PoisonKeeps DEF TypeOK, WriterStates
<1>3. ListInv'
  BY <1>1, PoisonLists
<1>4. FileInv'
  BY <1>1, PoisonKeeps DEF FileInv, Poison
<1>5. DiskInv'
  <2>1. AckIsDurable'
    <3>1. synced <= synced' /\ snap.through <= snap'.through
      BY <1>1 DEF TypeOK
    <3>2. status' = status /\ wseq' = wseq /\ wal' = wal
      BY <1>1, PoisonKeeps
    <3> QED BY <1>2, <1>7, <3>1, <3>2, AckStays DEF DiskInv
  <2>2. Published => snap.through <= current'
    BY <1>7 DEF DiskInv, TypeOK
  <2> QED BY <1>1, <2>1, <2>2, PoisonKeeps DEF DiskInv, Planning, Visible, Written, Durable,
             Before
<1> QED BY <1>2, <1>3, <1>4, <1>5

(* A fault around the swap, with everything durable. *)
LEMMA FailAroundSwapStep ==
    ASSUME IInv, FailAroundSwap
    PROVE  IInv'
<1> USE DEF IInv, memVars, diskVars
<1>1. /\ Poison("COMMIT_UNKNOWN") /\ pc \notin {"receipts", "poisoning"}
      /\ UNCHANGED <<snap, cursor, wal, synced, current>>
  BY DEF FailAroundSwap
<1>2. TypeOK' /\ RequestInv' /\ AnswersAgree' /\ PlanInv'
  BY <1>1, PoisonKeeps DEF TypeOK, WriterStates
<1>3. ListInv'
  BY <1>1, PoisonLists
<1>4. FileInv'
  BY <1>1, PoisonKeeps DEF FileInv, Poison
<1>5. DiskInv'
  BY <1>1, PoisonKeeps DEF DiskInv, AckIsDurable, PlanThrough, Planning, Visible, Written,
     Durable, Before
<1> QED BY <1>2, <1>3, <1>4, <1>5

(* A poisoned worker answers one request: as the failure says if it was claimed, safe to  *)
(* resend if it was still queued.                                                          *)
LEMMA PoisonFinishStep ==
    ASSUME IInv, PoisonFinish
    PROVE  IInv'
<1> USE GroupCommitAssumption, NilAssumption
    DEF IInv, clientVars, queueVars, ctrlVars, memVars, workVars, diskVars, lifeVars
<1> DEFINE r == Head(todo)
           s == IF state[r] = "CLAIMED" THEN poisonAs ELSE "NOT_ACCEPTED"
<1>1. /\ pc = "poisoning" /\ todo # <<>> /\ todo' = Tail(todo) /\ Finish(r, s, Nil)
      /\ UNCHANGED <<cmd, cancelled, tkt, told, queueVars, ctrlVars, memVars, pc, batch,
                     batchBytes, plan, poisonAs, diskVars, lifeVars>>
  BY DEF PoisonFinish
<1>2. todo \in Seq(Requests)
  BY DEF TypeOK
<1>3. /\ r \in Requests /\ 1 \in DOMAIN todo /\ r = todo[1] /\ Tail(todo) \in Seq(Requests)
      /\ \A i \in DOMAIN Tail(todo) : i + 1 \in DOMAIN todo /\ Tail(todo)[i] = todo[i + 1]
  BY <1>1, <1>2, HeadTail
<1>4. /\ state[r] \in {"ADMITTED", "CLAIMED"} /\ s \in {"NOT_ACCEPTED", "COMMIT_UNKNOWN"}
      /\ state[r] = "ADMITTED" => s = "NOT_ACCEPTED"
      /\ state[r] = "CLAIMED" => s = poisonAs
  BY <1>3 DEF ListInv, TypeOK
<1>5. s \in Statuses /\ s # "APPLIED"
  BY <1>4 DEF Statuses
<1>6. DOMAIN Tail(todo) \subseteq Nat \ {0}
  BY <1>3
<1>7. Distinct(Tail(todo)) /\ \A i \in DOMAIN Tail(todo) : Tail(todo)[i] # r
  BY <1>3, <1>6 DEF ListInv, Distinct
<1>8. OnlyFinished(r, s, Nil)
  BY <1>1, <1>3, <1>5, FinishFields
<1>9. RequestInv' /\ AnswersAgree'
  BY <1>1, <1>3, <1>4, <1>5, AnswerPending
<1>10. s \in {"NOT_ACCEPTED", "OVERLOADED"} => \A k \in DOMAIN wal : wal[k].req # r
  BY <1>1, <1>3, <1>4 DEF FileInv
<1> HIDE DEF r, s
<1>11. TypeOK'
  BY <1>1, <1>3, <1>8 DEF TypeOK, OnlyFinished
<1>12. ListInv'
  <2>1. /\ pc = "poisoning" /\ pc' = pc /\ poisoned /\ poisoned' = poisoned
        /\ queue = <<>> /\ queue' = queue /\ batch' = batch /\ todo' = Tail(todo)
    BY <1>1 DEF ListInv
  <2>2. \A i \in DOMAIN batch : state'[batch[i]] \in {"CLAIMED", "DONE"}
    BY <1>8, Members DEF ListInv, OnlyFinished
  <2>3. \A i \in DOMAIN Tail(todo) : state'[Tail(todo)[i]] \in {"ADMITTED", "CLAIMED"}
    <3> SUFFICES ASSUME NEW i \in DOMAIN Tail(todo)
                 PROVE  state'[Tail(todo)[i]] \in {"ADMITTED", "CLAIMED"}
      OBVIOUS
    <3>1. Tail(todo)[i] = todo[i + 1] /\ i + 1 \in DOMAIN todo /\ Tail(todo)[i] # r
      BY <1>3, <1>7
    <3>2. /\ Tail(todo)[i] \in Requests
          /\ state[Tail(todo)[i]] \in {"ADMITTED", "CLAIMED"}
      BY <3>1, Members DEF ListInv
    <3> QED
      BY <3>1, <3>2, <1>8 DEF OnlyFinished
  <2> QED
    BY <2>1, <2>2, <2>3, <1>7 DEF ListInv
<1>13. FileInv'
  BY <1>1, <1>3, <1>8, <1>10, Members DEF FileInv, OnlyFinished
<1>14. PlanInv'
  BY <1>1 DEF PlanInv
<1>15. DiskInv'
  <2>1. AckIsDurable'
    BY <1>1, <1>5, <1>8 DEF DiskInv, AckIsDurable, OnlyFinished
  <2> QED BY <1>1, <2>1 DEF DiskInv, PlanThrough
<1> QED BY <1>9, <1>11, <1>12, <1>13, <1>14, <1>15

(* The last answer is out: the lease is given up. *)
LEMMA PoisonEndStep ==
    ASSUME IInv, PoisonEnd
    PROVE  IInv'
<1> USE DEF IInv, PoisonEnd, clientVars, queueVars, memVars, diskVars, lifeVars
<1>1. TypeOK'
  BY DEF TypeOK, WriterStates, LeaseStates, ReleaseWriterLease
<1>2. RequestInv' /\ AnswersAgree'
  BY DEF RequestInv, AnswersAgree
<1>3. ListInv'
  BY DEF ListInv, Distinct
<1>4. FileInv' /\ PlanInv'
  BY DEF FileInv, PlanInv, Planning
<1>5. DiskInv'
  BY DEF DiskInv, ListInv, AckIsDurable, Planning, Visible, Written, Durable, Before
<1> QED BY <1>1, <1>2, <1>3, <1>4, <1>5

-----------------------------------------------------------------------------
(* Lifecycle calls touch the stop flag, the descriptor and the lease, nothing else. *)
LEMMA LifecycleStep ==
    ASSUME IInv, Lifecycle
    PROVE  IInv'
<1> USE DEF IInv, clientVars, queueVars, memVars, workVars, diskVars
<1>1. UNCHANGED <<clientVars, queueVars, poisoned, memVars, pc, workVars, diskVars>>
  BY DEF Lifecycle, LifecycleEnd, CloseBegin, FenceBegin, RotationNotNeeded, RotationBegin,
     CompactionBegin, CloseEnd, FenceEnd, RotationEnd, CompactionEnd, JoinTimeout,
     AwaitFencedShutdown, BeginFence, LifecycleReturns
<1>2. /\ stop' \in BOOLEAN /\ fdOpen' \in BOOLEAN
  BY Zenon DEF TypeOK, Lifecycle, LifecycleEnd, CloseBegin, FenceBegin, RotationNotNeeded, RotationBegin,
     CompactionBegin, CloseEnd, FenceEnd, RotationEnd, CompactionEnd, JoinTimeout,
     AwaitFencedShutdown, BeginFence, LifecycleReturns
<1>3. lease' \in LeaseStates
  BY DEF TypeOK, LeaseStates, Lifecycle, LifecycleEnd, CloseBegin, FenceBegin,
     RotationNotNeeded, RotationBegin, CompactionBegin, CloseEnd, FenceEnd, RotationEnd,
     CompactionEnd, JoinTimeout, AwaitFencedShutdown, BeginFence, LifecycleReturns,
     ReleaseWriterLease
<1>4. /\ ctl' \in {"idle", "close", "fence", "rotation", "compaction"}
      /\ outcome' \in {"none", "closed", "fenced", "poisoned", "ROTATION_NOT_NEEDED",
                        "ROTATION_FENCED", "compaction_fenced", "ShutdownTimeout", "encerrado"}
  BY DEF Lifecycle, LifecycleEnd, CloseBegin, FenceBegin, RotationNotNeeded, RotationBegin,
     CompactionBegin, CloseEnd, FenceEnd, RotationEnd, CompactionEnd, JoinTimeout,
     AwaitFencedShutdown, BeginFence, LifecycleReturns
<1>5. TypeOK'
  BY <1>1, <1>2, <1>3, <1>4 DEF TypeOK
<1>6. RequestInv' /\ AnswersAgree' /\ ListInv' /\ FileInv' /\ PlanInv' /\ DiskInv'
  BY <1>1 DEF RequestInv, AnswersAgree, ListInv, FileInv, PlanInv, DiskInv, AckIsDurable,
     PlanThrough
<1> QED BY <1>5, <1>6

-----------------------------------------------------------------------------
(* The theorems. *)

(* Every step of clients, worker and lifecycle caller preserves the invariant. *)
LEMMA NextIInv == IInv /\ [Next]_vars => IInv'
<1> SUFFICES ASSUME IInv, [Next]_vars PROVE IInv'
  OBVIOUS
<1>1. CASE Client
  BY <1>1, SubmitRefusedStep, SubmitAdmittedStep, ResultReadyStep, ResultTimeoutStep,
     CancelStep DEF Client
<1>2. CASE CommitFails
  BY <1>2, FailBeforeWalStep, FailBeforeWalLegacyStep, WriteWalFailsStep, FsyncWalFailsStep,
     PublishBatchFailsStep, FailAroundSwapStep DEF CommitFails
<1>3. CASE Worker
  BY <1>2, <1>3, StartDrainStep, WorkerExitStep, DrainCancelledStep, DrainClaimStep,
     DrainEndStep, PrepareOneStep, PrepareEndStep, NothingToPublishStep,
     NothingToWriteLegacyStep, WriteWalStep, FsyncWalStep, PublishBatchStep, SwapStep,
     StartReceiptsStep, FinishReceiptStep, BatchEndStep, WorkerDiesStep, PoisonFinishStep,
     PoisonEndStep DEF Worker
<1>4. CASE Lifecycle
  BY <1>4, LifecycleStep
<1>5. CASE UNCHANGED vars
  <2> USE <1>5 DEF IInv, vars, clientVars, queueVars, ctrlVars, memVars, workVars, diskVars,
          lifeVars
  <2>1. TypeOK'
    BY DEF TypeOK
  <2> QED BY <2>1 DEF RequestInv, ListInv, FileInv, PlanInv, DiskInv, AckIsDurable,
             AnswersAgree, PlanThrough
<1> QED BY <1>1, <1>3, <1>4, <1>5 DEF Next

(* The invariant holds in every reachable state, for any number of requests, any commands,   *)
(* any queue and batch limits, in both commit paths and with every fault and lifecycle call.  *)
THEOREM Invariant == Spec => []IInv
BY InitIInv, NextIInv, PTL DEF Spec

(* Every variable keeps its type. *)
THEOREM TypeCorrect == Spec => []TypeOK
<1>1. IInv => TypeOK
  BY DEF IInv
<1> QED BY <1>1, Invariant, PTL

(* NOT_ACCEPTED is safe to resend: whether it was said at submit, at a timeout, after cancel()  *)
(* or by a poisoned worker, no frame of that request is in the file, or will ever be.            *)
THEOREM NotAcceptedSafe == Spec => []NotAcceptedIsSafe
<1>1. IInv => NotAcceptedIsSafe
  <2> SUFFICES ASSUME IInv, NEW r \in Requests, SaidNotAccepted(r), NEW k \in DOMAIN wal,
                      wal[k].req = r
               PROVE  FALSE
    BY DEF NotAcceptedIsSafe, InWal
  <2>1. state[r] \in {"CLAIMED", "DONE"} /\ status[r] \notin {"NOT_ACCEPTED", "OVERLOADED"}
    BY DEF IInv, FileInv
  <2>2. ~cancelled[r]
    BY <2>1 DEF IInv, RequestInv
  <2>3. told[r] \cap {"NOT_ACCEPTED", "OVERLOADED"} = {}
    BY <2>1 DEF IInv, AnswersAgree
  <2> QED BY <2>1, <2>2, <2>3 DEF SaidNotAccepted
<1> QED BY <1>1, Invariant, PTL

(* APPLIED means durable: the frame is in the fsynced prefix of the file, named by CURRENT and  *)
(* visible in the snapshot.                                                                      *)
THEOREM AckDurable == Spec => []AckIsDurable
<1>1. IInv => AckIsDurable
  BY DEF IInv, DiskInv
<1> QED BY <1>1, Invariant, PTL

(* A caller that asks again never hears a contradiction. *)
THEOREM AnswersConsistent == Spec => []AnswersAgree
<1>1. IInv => AnswersAgree
  BY DEF IInv
<1> QED BY <1>1, Invariant, PTL

-----------------------------------------------------------------------------
(* Every step only adds to the file, its durable prefix and the visible seq. *)
Grows ==
    /\ DOMAIN wal \subseteq DOMAIN wal' /\ \A k \in DOMAIN wal : wal'[k] = wal[k]
    /\ synced <= synced'
    /\ snap.through <= snap'.through

(* The file with frames appended: the old ones stay where they were. *)
LEMMA FileGrows ==
    ASSUME NEW S, NEW old \in Seq(S), NEW more \in Seq(S)
    PROVE  /\ DOMAIN old \subseteq DOMAIN (old \o more)
           /\ \A k \in DOMAIN old : (old \o more)[k] = old[k]
BY ConcatKeeps

(* No step of client, worker or lifecycle caller rewrites the file or takes a seq back. *)
LEMMA StepGrows ==
    ASSUME IInv, [Next]_vars
    PROVE  Grows
<1> USE GroupCommitAssumption
<1>0. /\ wal \in Seq(Frame) /\ plan \in Plan /\ synced \in Nat /\ snap.through \in Nat
      /\ plan.frames \in Seq(Frame) /\ Len(plan.frames) \in Nat
  BY DEF IInv, TypeOK, Plan
<1>1. CASE WriteWal
  BY <1>0, <1>1, FileGrows DEF WriteWal, Grows, memVars
<1>2. CASE WriteWalFails
  <2>1. PICK k \in 0..Len(plan.frames) : wal' = wal \o SubSeq(plan.frames, 1, k)
    BY <1>2 DEF WriteWalFails
  <2>2. SubSeq(plan.frames, 1, k) \in Seq(Frame)
    BY <1>0
  <2> QED BY <1>0, <1>2, <2>1, <2>2, FileGrows DEF WriteWalFails, Grows, memVars
<1>3. CASE FsyncWal
  BY <1>0, <1>3 DEF FsyncWal, Grows, memVars, IInv, DiskInv
<1>4. CASE FsyncWalFails
  BY <1>0, <1>4 DEF FsyncWalFails, Grows, memVars
<1>5. CASE Swap
  <2>1. snap'.through = PlanThrough /\ plan.source = snap.through
    BY <1>5 DEF Swap, CandidateSnapshot, IInv, DiskInv, Planning, Visible
  <2> QED BY <1>0, <1>5, <2>1 DEF Swap, Grows, diskVars, PlanThrough
<1>6. CASE ~(WriteWal \/ WriteWalFails \/ FsyncWal \/ FsyncWalFails \/ Swap)
  <2>1. UNCHANGED <<wal, synced, snap>>
    <3> USE DEF diskVars, memVars
    <3>1. CASE Client
      BY <3>1 DEF Client, SubmitRefused, SubmitAdmitted, ResultReady, ResultTimeout, Cancel
    <3>2. CASE Worker
      BY <1>6, <3>2 DEF Worker, CommitFails, StartDrain, WorkerExit, DrainCancelled,
         DrainClaim, DrainEnd, PrepareOne, PrepareRaises, PrepareEnd, NothingToPublish,
         NothingToWriteLegacy, PublishBatch, StartReceipts, FinishReceipt, BatchEnd, SinkRaises,
         PoisonFinish,
         PoisonEnd, FailBeforeWal, FailBeforeWalLegacy, PublishBatchFails, FailAroundSwap
    <3>3. CASE Lifecycle
      BY <3>3 DEF Lifecycle, LifecycleEnd, CloseBegin, FenceBegin, RotationNotNeeded,
         RotationBegin, CompactionBegin, CloseEnd, FenceEnd, RotationEnd, CompactionEnd,
         JoinTimeout, AwaitFencedShutdown, BeginFence, LifecycleReturns
    <3>4. CASE UNCHANGED vars
      BY <3>4 DEF vars
    <3> QED BY <3>1, <3>2, <3>3, <3>4 DEF Next
  <2> QED BY <1>0, <2>1 DEF Grows
<1> QED BY <1>1, <1>2, <1>3, <1>4, <1>5, <1>6

-----------------------------------------------------------------------------
(* Ownership.  Lifecycle calls close or hand over only once the worker has left, and the *)
(* worker itself gives up the lease only when poisoned; leaving is final.                *)

OwnInv ==
    ~WorkerGone /\ ~poisoned => fdOpen /\ lease \in {"NONE", "OWNED_BY_STORE"}

LEMMA InitOwn == Init => OwnInv
BY DEF Init, OwnInv

(* Each action keeps ownership; an exited worker never works again. *)
LEMMA NextOwn ==
    ASSUME IInv, OwnInv, [Next]_vars
    PROVE  OwnInv'
<1> USE DEF ctrlVars, OwnInv, WorkerGone
<1>1. CASE Client
  BY <1>1 DEF Client, SubmitRefused, SubmitAdmitted, ResultReady, ResultTimeout, Cancel
<1>2. CASE CommitFails
  BY <1>2 DEF CommitFails, FailBeforeWal, FailBeforeWalLegacy, WriteWalFails, FsyncWalFails,
     PublishBatchFails, FailAroundSwap, Poison
<1>3. CASE PoisonFinish \/ PoisonEnd
  BY <1>3 DEF PoisonFinish, PoisonEnd, IInv, ListInv
<1>4. CASE Worker /\ ~CommitFails /\ ~PoisonFinish /\ ~PoisonEnd
  <2>1. UNCHANGED ctrlVars
    BY <1>4 DEF Worker, StartDrain, WorkerExit, DrainCancelled, DrainClaim, DrainEnd,
       PrepareOne, PrepareRaises, PrepareEnd, NothingToPublish, NothingToWriteLegacy, WriteWal,
       FsyncWal, PublishBatch, Swap, StartReceipts, FinishReceipt, BatchEnd, SinkRaises
  <2>2. ~WorkerGone
    BY <1>4 DEF Worker, StartDrain, WorkerExit, DrainCancelled, DrainClaim, DrainEnd,
       PrepareOne, PrepareRaises, PrepareEnd, NothingToPublish, NothingToWriteLegacy, WriteWal,
       MayWrite, FsyncWal, PublishBatch, Swap, StartReceipts, FinishReceipt, BatchEnd, SinkRaises
  <2> QED BY <2>1, <2>2
<1>5. CASE LifecycleEnd
  BY <1>5 DEF LifecycleEnd, CloseEnd, FenceEnd, RotationEnd, CompactionEnd, LifecycleReturns
<1>6. CASE Lifecycle /\ ~LifecycleEnd
  BY <1>6 DEF Lifecycle, CloseBegin, FenceBegin, RotationNotNeeded, RotationBegin,
     CompactionBegin, JoinTimeout, AwaitFencedShutdown, BeginFence, LifecycleReturns
<1>7. CASE UNCHANGED vars
  BY <1>7 DEF vars
<1> QED BY <1>1, <1>2, <1>3, <1>4, <1>5, <1>6, <1>7 DEF Next, Worker

(* No lifecycle call, timeout or fault takes the descriptor or the lease from a worker   *)
(* that is between its plan and its answers.                                              *)
THEOREM WriterOwns == Spec => []WriterOwnsScope
<1>1. IInv /\ OwnInv /\ [Next]_vars => OwnInv'
  BY NextOwn
<1>2. IInv /\ OwnInv => WriterOwnsScope
  BY DEF IInv, ListInv, OwnInv, WorkerGone, WriterOwnsScope
<1> QED BY <1>1, <1>2, InitOwn, Invariant, PTL DEF Spec

-----------------------------------------------------------------------------
(* CURRENT.  A publication, complete or cut off, names only frames that are already fsynced. *)

CurrentInv == Published => Pos(current) <= synced

LEMMA InitCurrent == Init => CurrentInv
BY GroupCommitAssumption DEF Init, CurrentInv, Pos

(* CURRENT changes only in publish_batch, to the end of a plan that fsync has covered. *)
LEMMA NextCurrent ==
    ASSUME IInv, CurrentInv, [Next]_vars
    PROVE  CurrentInv'
<1> USE GroupCommitAssumption
<1>1. /\ synced \in Nat /\ synced' \in Nat /\ synced <= synced'
      /\ current \in Nat /\ current' \in Nat
  BY StepGrows, NextIInv DEF Grows, IInv, TypeOK
<1>2. current' = current \/ (pc = "synced" /\ current' = PlanThrough)
  <2> USE DEF diskVars
  <2>1. CASE Client
    BY <2>1 DEF Client, SubmitRefused, SubmitAdmitted, ResultReady, ResultTimeout, Cancel
  <2>2. CASE Worker
    BY <2>2 DEF Worker, CommitFails, StartDrain, WorkerExit, DrainCancelled,
       DrainClaim, DrainEnd, PrepareOne, PrepareRaises, PrepareEnd, NothingToPublish,
       NothingToWriteLegacy, WriteWal, FsyncWal, PublishBatch, Swap, StartReceipts,
       FinishReceipt, BatchEnd,
       SinkRaises, PoisonFinish, PoisonEnd, FailBeforeWal, FailBeforeWalLegacy,
       WriteWalFails, FsyncWalFails, PublishBatchFails, FailAroundSwap
  <2>3. CASE Lifecycle
    BY <2>3 DEF Lifecycle, LifecycleEnd, CloseBegin, FenceBegin, RotationNotNeeded,
       RotationBegin, CompactionBegin, CloseEnd, FenceEnd, RotationEnd, CompactionEnd,
       JoinTimeout, AwaitFencedShutdown, BeginFence, LifecycleReturns
  <2>4. CASE UNCHANGED vars
    BY <2>4 DEF vars
  <2> QED BY <2>1, <2>2, <2>3, <2>4 DEF Next
<1>3. CASE current' = current
  BY <1>1, <1>3 DEF CurrentInv, Pos
<1>4. CASE pc = "synced" /\ current' = PlanThrough
  BY <1>1, <1>4 DEF CurrentInv, IInv, DiskInv, Durable, Pos
<1> QED BY <1>2, <1>3, <1>4

(* Snapshot, cursor, CURRENT and the durable file keep step in an activated writer. *)
THEOREM StateCoherent == Spec => []PublishedStateCoherent
<1>1. IInv /\ CurrentInv /\ [Next]_vars => CurrentInv'
  BY NextCurrent
<1>2. IInv /\ CurrentInv => PublishedStateCoherent
  BY DEF IInv, DiskInv, CurrentInv, PublishedStateCoherent
<1> QED BY <1>1, <1>2, InitCurrent, Invariant, PTL DEF Spec

-----------------------------------------------------------------------------
(* Order.  Tickets rise along the file, then along the batch, then along the queue; while   *)
(* a batch is planned its frames come from the part already decided.                        *)

Rising(s) == \A i, j \in DOMAIN s : i < j => tkt[s[i]] < tkt[s[j]]
RisingFrames(s) == \A i, j \in DOMAIN s : i < j => tkt[s[i].req] < tkt[s[j].req]

Unwritten == {"draining", "prepare", "planned"}
Planned == {"prepare", "planned"}

QueueOrder ==
    /\ \A r \in Requests : tkt[r] <= ticket
    /\ Rising(queue) /\ Rising(batch)
    /\ \A i \in DOMAIN batch : \A j \in DOMAIN queue : tkt[batch[i]] < tkt[queue[j]]

FileOrder ==
    /\ RisingFrames(wal)
    /\ \A k \in DOMAIN wal : \A j \in DOMAIN queue : tkt[wal[k].req] < tkt[queue[j]]
    /\ pc \in Unwritten =>
         \A k \in DOMAIN wal : \A i \in DOMAIN batch : tkt[wal[k].req] < tkt[batch[i]]

PlanOrder ==
    pc \in Planned =>
      /\ RisingFrames(plan.frames)
      /\ \A k \in DOMAIN plan.frames : \A i \in DOMAIN batch :
           i > Len(plan.receipts) => tkt[plan.frames[k].req] < tkt[batch[i]]

OrderInv == QueueOrder /\ FileOrder /\ PlanOrder

LEMMA InitOrder == Init => OrderInv
BY GroupCommitAssumption
   DEF Init, OrderInv, QueueOrder, FileOrder, PlanOrder, Rising, RisingFrames, Planned

(* What the lists hold, and that tickets are numbers. *)
LEMMA TicketTypes ==
    ASSUME TypeOK
    PROVE  /\ ticket \in Nat /\ \A r \in Requests : tkt[r] \in Nat
           /\ queue \in Seq(Requests) /\ batch \in Seq(Requests) /\ wal \in Seq(Frame)
           /\ plan.frames \in Seq(Frame) /\ plan.receipts \in Seq(Receipt)
           /\ \A i \in DOMAIN queue : queue[i] \in Requests
           /\ \A i \in DOMAIN batch : batch[i] \in Requests
           /\ \A k \in DOMAIN wal : wal[k].req \in Requests
           /\ \A k \in DOMAIN plan.frames : plan.frames[k].req \in Requests
<1>1. plan.frames \in Seq(Frame) /\ plan.receipts \in Seq(Receipt)
  BY DEF TypeOK, Plan
<1>2. \A k \in DOMAIN plan.frames : plan.frames[k] \in Frame
  BY <1>1
<1> QED BY <1>1, <1>2, Members DEF TypeOK, Frame

(* A step that gives no ticket, writes no frame and plans nothing: it may empty a list. *)
Quiet ==
    /\ UNCHANGED <<tkt, ticket, wal>>
    /\ queue' \in {queue, <<>>} /\ batch' \in {batch, <<>>}
    /\ pc' = "draining" => pc = "draining" \/ batch' = <<>>
    /\ pc' \in Planned => pc \in Planned /\ UNCHANGED <<plan, batch>>

LEMMA QuietKeepsOrder ==
    ASSUME TypeOK, OrderInv, Quiet
    PROVE  OrderInv'
<1>1. QueueOrder'
  BY DEF OrderInv, QueueOrder, Quiet, Rising
<1>2. FileOrder'
  BY DEF OrderInv, FileOrder, Quiet, RisingFrames, Unwritten, Planned
<1>3. PlanOrder'
  BY DEF OrderInv, PlanOrder, Quiet, RisingFrames, Planned
<1> QED BY <1>1, <1>2, <1>3 DEF OrderInv

(* A new request gets a ticket above every other and goes last in the queue. *)
LEMMA SubmitAdmittedOrder ==
    ASSUME IInv, OrderInv, NEW r \in Requests, NEW c \in Commands, SubmitAdmitted(r, c)
    PROVE  OrderInv'
<1> USE DEF IInv
<1>1. /\ state[r] = "NEW" /\ ticket' = ticket + 1
      /\ tkt' = [tkt EXCEPT ![r] = ticket + 1]
      /\ queue' = Append(queue, r)
      /\ UNCHANGED <<batch, wal, plan, pc>>
  BY DEF SubmitAdmitted, Enqueue, workVars, diskVars
<1>2. tkt'[r] = ticket + 1 /\ \A q \in Requests : q # r => tkt'[q] = tkt[q]
  BY <1>1 DEF TypeOK
<1>3. /\ \A i \in DOMAIN queue : queue[i] # r
      /\ \A i \in DOMAIN batch : batch[i] # r
      /\ \A k \in DOMAIN wal : wal[k].req # r
  BY <1>1 DEF ListInv, FileInv
<1>4. pc \in Planned => \A k \in DOMAIN plan.frames : plan.frames[k].req # r
  BY <1>3 DEF PlanInv, Planning, Planned
<1>5. /\ Len(queue) \in Nat /\ DOMAIN queue = 1..Len(queue)
      /\ \A i \in DOMAIN queue' : \/ i \in DOMAIN queue /\ queue'[i] = queue[i]
                                  \/ i = Len(queue) + 1 /\ queue'[i] = r
  BY <1>1, TicketTypes
<1>6. QueueOrder'
  <2>1. \A q \in Requests : tkt'[q] <= ticket'
    BY <1>1, <1>2, TicketTypes DEF OrderInv, QueueOrder
  <2>2. Rising(queue)'
    <3> SUFFICES ASSUME NEW i \in DOMAIN queue', NEW j \in DOMAIN queue', i < j
                 PROVE  tkt'[queue'[i]] < tkt'[queue'[j]]
      BY DEF Rising
    <3>0. i # Len(queue) + 1
      BY <1>5
    <3>1. i \in DOMAIN queue /\ queue'[i] = queue[i] /\ tkt'[queue[i]] = tkt[queue[i]]
      BY <1>2, <1>3, <1>5, <3>0, TicketTypes
    <3>2. tkt[queue[i]] \in Nat /\ tkt[queue[i]] <= ticket
      BY <3>1, TicketTypes DEF OrderInv, QueueOrder
    <3>3. CASE j \in DOMAIN queue /\ queue'[j] = queue[j]
      BY <1>2, <1>3, <3>1, <3>3, TicketTypes DEF OrderInv, QueueOrder, Rising
    <3>4. CASE queue'[j] = r
      BY <1>2, <3>1, <3>2, <3>4, TicketTypes
    <3> QED BY <1>5, <3>3, <3>4
  <2>3. Rising(batch)'
    BY <1>1, <1>2, <1>3, TicketTypes DEF OrderInv, QueueOrder, Rising
  <2>4. ASSUME NEW i \in DOMAIN batch', NEW j \in DOMAIN queue'
        PROVE  tkt'[batch'[i]] < tkt'[queue'[j]]
    <3>1. /\ i \in DOMAIN batch /\ batch'[i] = batch[i] /\ tkt'[batch[i]] = tkt[batch[i]]
          /\ tkt[batch[i]] \in Nat /\ tkt[batch[i]] <= ticket
      BY <1>1, <1>2, <1>3, TicketTypes DEF OrderInv, QueueOrder
    <3>2. CASE j \in DOMAIN queue /\ queue'[j] = queue[j]
      BY <1>2, <1>3, <3>1, <3>2, TicketTypes DEF OrderInv, QueueOrder
    <3>3. CASE queue'[j] = r
      BY <1>2, <3>1, <3>3, TicketTypes
    <3> QED BY <1>5, <3>2, <3>3
  <2> QED BY <2>1, <2>2, <2>3, <2>4 DEF QueueOrder
<1>7. FileOrder'
  <2>1. RisingFrames(wal)'
    BY <1>1, <1>2, <1>3, TicketTypes DEF OrderInv, FileOrder, RisingFrames
  <2>2. ASSUME NEW k \in DOMAIN wal', NEW j \in DOMAIN queue'
        PROVE  tkt'[wal'[k].req] < tkt'[queue'[j]]
    <3>1. /\ k \in DOMAIN wal /\ wal'[k] = wal[k] /\ tkt'[wal[k].req] = tkt[wal[k].req]
          /\ tkt[wal[k].req] \in Nat /\ tkt[wal[k].req] <= ticket
      BY <1>1, <1>2, <1>3, TicketTypes DEF OrderInv, QueueOrder
    <3>2. CASE j \in DOMAIN queue /\ queue'[j] = queue[j]
      BY <1>2, <1>3, <3>1, <3>2, TicketTypes DEF OrderInv, FileOrder
    <3>3. CASE queue'[j] = r
      BY <1>2, <3>1, <3>3, TicketTypes
    <3> QED BY <1>5, <3>2, <3>3
  <2>3. pc' \in Unwritten =>
          \A k \in DOMAIN wal' : \A i \in DOMAIN batch' : tkt'[wal'[k].req] < tkt'[batch'[i]]
    BY <1>1, <1>2, <1>3, TicketTypes DEF OrderInv, FileOrder
  <2> QED BY <2>1, <2>2, <2>3 DEF FileOrder
<1>8. PlanOrder'
  <2> SUFFICES ASSUME pc \in Planned
               PROVE  /\ RisingFrames(plan.frames)'
                      /\ \A k \in DOMAIN plan.frames : \A i \in DOMAIN batch :
                           i > Len(plan.receipts) => tkt'[plan.frames[k].req] < tkt'[batch[i]]
    BY <1>1 DEF PlanOrder
  <2>1. \A k \in DOMAIN plan.frames : tkt'[plan.frames[k].req] = tkt[plan.frames[k].req]
    BY <1>2, <1>4, TicketTypes
  <2>2. \A i \in DOMAIN batch : tkt'[batch[i]] = tkt[batch[i]]
    BY <1>2, <1>3, TicketTypes
  <2>3. RisingFrames(plan.frames)'
    BY <1>1, <2>1 DEF OrderInv, PlanOrder, RisingFrames
  <2> QED BY <2>1, <2>2, <2>3 DEF OrderInv, PlanOrder
<1> QED BY <1>6, <1>7, <1>8 DEF OrderInv

(* The head of the queue leaves, answered or claimed; claimed, it is the last of the batch. *)
LEMMA DrainCancelledOrder ==
    ASSUME IInv, OrderInv, DrainCancelled
    PROVE  OrderInv'
<1>1. /\ pc = "draining" /\ queue # <<>> /\ queue' = Tail(queue)
      /\ UNCHANGED <<tkt, ticket, batch, wal, plan, pc>>
  BY DEF DrainCancelled, MoreToDrain, PopQueue, workVars, diskVars
<1>2. /\ \A j \in DOMAIN queue' : j + 1 \in DOMAIN queue /\ queue'[j] = queue[j + 1]
      /\ \A j \in DOMAIN queue' : j \in Nat
  BY <1>1, TicketTypes, HeadTail DEF IInv
<1>3. QueueOrder'
  BY <1>1, <1>2 DEF OrderInv, QueueOrder, Rising
<1>4. FileOrder'
  BY <1>1, <1>2 DEF OrderInv, FileOrder, RisingFrames
<1>5. PlanOrder'
  BY <1>1 DEF OrderInv, PlanOrder, Planned
<1> QED BY <1>3, <1>4, <1>5 DEF OrderInv

(* A claimed request goes from the head of the queue to the end of the batch. *)
LEMMA DrainClaimOrder ==
    ASSUME IInv, OrderInv, DrainClaim
    PROVE  OrderInv'
<1> DEFINE r == Head(queue)
<1>1. /\ pc = "draining" /\ queue # <<>> /\ queue' = Tail(queue)
      /\ batch' = Append(batch, r)
      /\ UNCHANGED <<tkt, ticket, wal, plan, pc>>
  BY DEF DrainClaim, MoreToDrain, PopQueue, diskVars
<1>2. /\ 1 \in DOMAIN queue /\ r = queue[1] /\ r \in Requests
      /\ \A j \in DOMAIN queue' : j + 1 \in DOMAIN queue /\ queue'[j] = queue[j + 1]
      /\ \A j \in DOMAIN queue' : j \in Nat /\ 1 < j + 1
  BY <1>1, TicketTypes, HeadTail DEF IInv
<1> HIDE DEF r
<1>3. /\ Len(batch) \in Nat /\ DOMAIN batch = 1..Len(batch)
      /\ \A i \in DOMAIN batch' : \/ i \in DOMAIN batch /\ batch'[i] = batch[i]
                                  \/ i = Len(batch) + 1 /\ batch'[i] = r
  BY <1>1, <1>2, TicketTypes DEF IInv
<1>4. QueueOrder'
  <2>1. Rising(queue')
    BY <1>1, <1>2 DEF OrderInv, QueueOrder, Rising
  <2>2. \A j \in DOMAIN queue' : tkt[r] < tkt[queue'[j]]
    BY <1>2 DEF OrderInv, QueueOrder, Rising
  <2>3. \A i \in DOMAIN batch : tkt[batch[i]] < tkt[r]
    BY <1>2 DEF OrderInv, QueueOrder
  <2>4. Rising(batch')
    BY <1>3, <2>3 DEF OrderInv, QueueOrder, Rising
  <2>5. \A i \in DOMAIN batch' : \A j \in DOMAIN queue' : tkt[batch'[i]] < tkt[queue'[j]]
    BY <1>2, <1>3, <2>2 DEF OrderInv, QueueOrder
  <2> QED BY <1>1, <2>1, <2>4, <2>5 DEF OrderInv, QueueOrder, Rising
<1>5. FileOrder'
  <2>1. \A k \in DOMAIN wal : tkt[wal[k].req] < tkt[r]
    BY <1>2 DEF OrderInv, FileOrder
  <2>2. \A k \in DOMAIN wal : \A i \in DOMAIN batch' : tkt[wal[k].req] < tkt[batch'[i]]
    BY <1>1, <1>3, <2>1 DEF OrderInv, FileOrder, Unwritten
  <2> QED BY <1>1, <1>2, <2>2 DEF OrderInv, FileOrder, RisingFrames
<1>6. PlanOrder'
  BY <1>1 DEF PlanOrder, Planned
<1> QED BY <1>4, <1>5, <1>6 DEF OrderInv

(* The plan starts empty. *)
LEMMA DrainEndOrder ==
    ASSUME IInv, OrderInv, DrainEnd
    PROVE  OrderInv'
<1>1. /\ pc = "draining" /\ plan'.frames = <<>>
      /\ UNCHANGED <<tkt, ticket, queue, batch, wal>>
  BY DEF DrainEnd, clientVars, queueVars, diskVars
<1>2. QueueOrder' /\ FileOrder'
  BY <1>1 DEF OrderInv, QueueOrder, FileOrder, Rising, RisingFrames, Unwritten
<1>3. PlanOrder'
  BY <1>1 DEF PlanOrder, RisingFrames
<1> QED BY <1>2, <1>3 DEF OrderInv

(* An applied command's frame comes after the frames of the commands decided before it. *)
LEMMA PrepareOneOrder ==
    ASSUME IInv, OrderInv, PrepareOne
    PROVE  OrderInv'
<1> USE DEF IInv
<1> DEFINE i == Len(plan.receipts) + 1
           r == batch[i]
           n == plan.source + Len(plan.frames) + 1
<1>1. /\ pc = "prepare" /\ Len(plan.receipts) < Len(batch)
      /\ UNCHANGED <<tkt, ticket, queue, batch, wal, pc>>
  BY DEF PrepareOne, clientVars, queueVars, diskVars
<1>2. /\ Len(plan.receipts) \in Nat /\ Len(batch) \in Nat /\ DOMAIN batch = 1..Len(batch)
      /\ i \in DOMAIN batch /\ r \in Requests
      /\ [req |-> r, cmd |-> cmd[r], seq |-> n] \in Frame
  <2>1. /\ Len(plan.receipts) \in Nat /\ Len(batch) \in Nat /\ DOMAIN batch = 1..Len(batch)
        /\ i \in DOMAIN batch /\ r \in Requests
    BY <1>1, TicketTypes
  <2>2. state[r] # "NEW"
    BY <1>1, <2>1 DEF ListInv
  <2>3. cmd[r] \in Commands
    BY <2>1, <2>2 DEF RequestInv
  <2>4. n \in Nat
    BY GroupCommitAssumption, TicketTypes DEF TypeOK, Plan
  <2> QED BY <2>1, <2>3, <2>4, GroupCommitAssumption DEF Frame
<1>3. /\ Len(plan'.receipts) = i
      /\ \/ plan'.frames = plan.frames
         \/ plan'.frames = Append(plan.frames, [req |-> r, cmd |-> cmd[r], seq |-> n])
  <2>1. plan \in Plan
    BY DEF TypeOK
  <2>2. \E s, q : plan'.receipts = Append(plan.receipts, [status |-> s, seq |-> q])
    BY <2>1 DEF PrepareOne, Preparing, Plan
  <2>3. Len(plan'.receipts) = i
    <3>1. PICK s, q : plan'.receipts = Append(plan.receipts, [status |-> s, seq |-> q])
      BY <2>2
    <3> QED BY <3>1, TicketTypes
  <2>4. \/ plan'.frames = plan.frames
        \/ plan'.frames = Append(plan.frames, [req |-> r, cmd |-> cmd[r], seq |-> n])
    BY <2>1 DEF PrepareOne, Preparing, Plan
  <2> QED BY <2>3, <2>4
<1> HIDE DEF n
<1>4. QueueOrder' /\ FileOrder'
  BY <1>1 DEF OrderInv, QueueOrder, FileOrder, Rising, RisingFrames
<1>5. /\ Len(plan.frames) \in Nat /\ DOMAIN plan.frames = 1..Len(plan.frames)
      /\ \A k \in DOMAIN plan'.frames :
           \/ k \in DOMAIN plan.frames /\ plan'.frames[k] = plan.frames[k]
           \/ k = Len(plan.frames) + 1 /\ plan'.frames[k].req = r
  <2>1. plan.frames \in Seq(Frame)
    BY TicketTypes
  <2>2. CASE plan'.frames = plan.frames
    BY <2>1, <2>2
  <2>3. CASE plan'.frames = Append(plan.frames, [req |-> r, cmd |-> cmd[r], seq |-> n])
    <3>1. Len(plan.frames) \in Nat /\ DOMAIN plan.frames = 1..Len(plan.frames)
      BY <2>1
    <3>2. [req |-> r, cmd |-> cmd[r], seq |-> n].req = r
      OBVIOUS
    <3> QED BY <1>2, <2>1, <2>3, <3>1, <3>2, AppendParts
  <2> QED BY <1>3, <2>2, <2>3
<1>6. \A k \in DOMAIN plan.frames : \A j \in DOMAIN batch :
         j >= i => tkt[plan.frames[k].req] < tkt[batch[j]]
  BY <1>1, <1>2 DEF OrderInv, PlanOrder, Planned
<1>7. PlanOrder'
  <2>1. RisingFrames(plan'.frames)
    <3> SUFFICES ASSUME NEW k \in DOMAIN plan'.frames, NEW l \in DOMAIN plan'.frames, k < l
                 PROVE  tkt[plan'.frames[k].req] < tkt[plan'.frames[l].req]
      BY DEF RisingFrames
    <3>1. k # Len(plan.frames) + 1
      BY <1>5
    <3>2. k \in DOMAIN plan.frames /\ plan'.frames[k] = plan.frames[k]
      BY <1>5, <3>1
    <3>3. CASE l \in DOMAIN plan.frames /\ plan'.frames[l] = plan.frames[l]
      BY <1>1, <3>2, <3>3 DEF OrderInv, PlanOrder, RisingFrames, Planned
    <3>4. CASE plan'.frames[l].req = r
      BY <1>2, <1>6, <3>2, <3>4
    <3> QED BY <1>5, <3>3, <3>4
  <2>2. ASSUME NEW k \in DOMAIN plan'.frames, NEW j \in DOMAIN batch, j > i
        PROVE  tkt[plan'.frames[k].req] < tkt[batch[j]]
    <3>1. CASE k \in DOMAIN plan.frames /\ plan'.frames[k] = plan.frames[k]
      BY <1>2, <1>6, <2>2, <3>1
    <3>2. CASE plan'.frames[k].req = r
      BY <1>2, <2>2, <3>2 DEF OrderInv, QueueOrder, Rising
    <3> QED BY <1>5, <3>1, <3>2
  <2> QED BY <1>1, <1>3, <2>1, <2>2 DEF PlanOrder, RisingFrames
<1> QED BY <1>4, <1>7 DEF OrderInv

(* Frames written, all of them or a prefix, follow those in the file and precede the queue. *)
LEMMA WriteOrder ==
    ASSUME IInv, OrderInv, pc = "planned", UNCHANGED tkt,
           NEW k \in 0..Len(plan.frames), wal' = wal \o SubSeq(plan.frames, 1, k)
    PROVE  /\ RisingFrames(wal)'
           /\ \A l \in DOMAIN wal' : \A j \in DOMAIN queue : tkt[wal'[l].req] < tkt[queue[j]]
<1> USE DEF IInv
<1> DEFINE new == SubSeq(plan.frames, 1, k)
<1>1. /\ new \in Seq(Frame) /\ DOMAIN new = 1..k
      /\ \A l \in DOMAIN new : l \in DOMAIN plan.frames /\ new[l] = plan.frames[l]
  BY TicketTypes
<1>2. /\ Len(wal) \in Nat /\ DOMAIN wal = 1..Len(wal) /\ DOMAIN wal' \subseteq Nat
      /\ \A l \in DOMAIN wal' :
           \/ l \in DOMAIN wal /\ wal'[l] = wal[l]
           \/ l > Len(wal) /\ l - Len(wal) \in DOMAIN new /\ wal'[l] = new[l - Len(wal)]
  BY <1>1, TicketTypes, ConcatParts
<1> HIDE DEF new
<1>3. \A l \in DOMAIN new : \E i \in DOMAIN batch : new[l].req = batch[i]
  BY <1>1 DEF PlanInv, Planning
<1>4. \A a \in DOMAIN wal : \A l \in DOMAIN new : tkt[wal[a].req] < tkt[new[l].req]
  BY <1>3 DEF OrderInv, FileOrder, Unwritten
<1>5. \A a, b \in DOMAIN new : a < b => tkt[new[a].req] < tkt[new[b].req]
  BY <1>1 DEF OrderInv, PlanOrder, Planned, RisingFrames
<1>6. ASSUME NEW a \in DOMAIN wal', NEW b \in DOMAIN wal', a < b
      PROVE  tkt[wal'[a].req] < tkt[wal'[b].req]
  <2>1. CASE b \in DOMAIN wal /\ wal'[b] = wal[b]
    <3>1. a \in DOMAIN wal /\ wal'[a] = wal[a]
      BY <1>2, <1>6, <2>1
    <3> QED BY <1>6, <2>1, <3>1 DEF OrderInv, FileOrder, RisingFrames
  <2>2. CASE b > Len(wal) /\ b - Len(wal) \in DOMAIN new /\ wal'[b] = new[b - Len(wal)]
    <3>1. CASE a \in DOMAIN wal /\ wal'[a] = wal[a]
      BY <1>4, <2>2, <3>1
    <3>2. CASE a - Len(wal) \in DOMAIN new /\ wal'[a] = new[a - Len(wal)]
      <4>1. a - Len(wal) < b - Len(wal)
        BY <1>2, <1>6
      <4> QED BY <1>5, <2>2, <3>2, <4>1
    <3> QED BY <1>2, <3>1, <3>2
  <2> QED BY <1>2, <2>1, <2>2
<1>7. ASSUME NEW l \in DOMAIN wal', NEW j \in DOMAIN queue
      PROVE  tkt[wal'[l].req] < tkt[queue[j]]
  <2>1. \A m \in DOMAIN new : tkt[new[m].req] < tkt[queue[j]]
    BY <1>3 DEF OrderInv, QueueOrder
  <2>2. \A m \in DOMAIN wal : tkt[wal[m].req] < tkt[queue[j]]
    BY DEF OrderInv, FileOrder
  <2> QED BY <1>2, <2>1, <2>2
<1> QED BY <1>6, <1>7 DEF RisingFrames

LEMMA WriteWalOrder ==
    ASSUME IInv, OrderInv, WriteWal
    PROVE  OrderInv'
<1>1. /\ pc = "planned" /\ pc' = "written" /\ wal' = wal \o plan.frames
      /\ UNCHANGED <<tkt, ticket, queue, batch>>
  BY DEF WriteWal, MayWrite, clientVars, queueVars, workVars
<1>2. /\ plan.frames = SubSeq(plan.frames, 1, Len(plan.frames))
      /\ Len(plan.frames) \in 0..Len(plan.frames)
  BY TicketTypes DEF IInv
<1>3. FileOrder'
  BY <1>1, <1>2, WriteOrder DEF FileOrder, RisingFrames, Unwritten
<1> QED BY <1>1, <1>3 DEF OrderInv, QueueOrder, PlanOrder, Rising, Planned

(* A write cut off after any number of frames leaves them in order. *)
LEMMA WriteWalFailsOrder ==
    ASSUME IInv, OrderInv, WriteWalFails
    PROVE  OrderInv'
<1>1. /\ pc = "planned" /\ pc' = "poisoning" /\ queue' = <<>>
      /\ UNCHANGED <<tkt, ticket, batch>>
  BY DEF WriteWalFails, MayWrite, Poison, clientVars
<1>2. PICK k \in 0..Len(plan.frames) : wal' = wal \o SubSeq(plan.frames, 1, k)
  BY DEF WriteWalFails
<1>3. FileOrder'
  <2>1. RisingFrames(wal)'
    BY <1>1, <1>2, WriteOrder
  <2> QED BY <1>1, <2>1 DEF FileOrder, Unwritten
<1> QED BY <1>1, <1>3 DEF OrderInv, QueueOrder, PlanOrder, Rising, Planned

(* Each action keeps the order. *)
LEMMA NextOrder ==
    ASSUME IInv, OrderInv, [Next]_vars
    PROVE  OrderInv'
<1> USE DEF clientVars, queueVars, workVars, diskVars, Planned
<1>0. TypeOK
  BY DEF IInv
<1>1. CASE Client
  <2>1. ASSUME NEW r \in Requests, NEW c \in Commands, SubmitAdmitted(r, c)
        PROVE  OrderInv'
    BY <2>1, SubmitAdmittedOrder
  <2>2. ASSUME NEW r \in Requests,
               \/ \E c \in Commands : SubmitRefused(r, c)
               \/ ResultReady(r) \/ ResultTimeout(r) \/ Cancel(r)
        PROVE  Quiet
    BY <2>2 DEF SubmitRefused, ResultReady, ResultTimeout, Cancel, Quiet
  <2> QED BY <1>0, <1>1, <2>1, <2>2, QuietKeepsOrder DEF Client
<1>2. CASE CommitFails
  <2>1. CASE WriteWalFails
    BY <2>1, WriteWalFailsOrder
  <2>2. CASE ~WriteWalFails
    <3>1. Quiet
      BY <1>2, <2>2 DEF CommitFails, FailBeforeWal, FailBeforeWalLegacy, FsyncWalFails,
         PublishBatchFails, FailAroundSwap, Poison, Quiet
    <3> QED BY <1>0, <3>1, QuietKeepsOrder
  <2> QED BY <2>1, <2>2
<1>3. CASE DrainCancelled \/ DrainClaim \/ DrainEnd \/ PrepareOne \/ WriteWal
  BY <1>3, DrainCancelledOrder, DrainClaimOrder, DrainEndOrder, PrepareOneOrder, WriteWalOrder
<1>4. CASE \/ StartDrain \/ WorkerExit \/ PrepareEnd \/ NothingToPublish
           \/ NothingToWriteLegacy \/ FsyncWal \/ PublishBatch \/ Swap \/ StartReceipts
           \/ FinishReceipt \/ BatchEnd \/ SinkRaises \/ PrepareRaises \/ PoisonFinish \/ PoisonEnd
  <2>1. Quiet
    BY <1>4 DEF StartDrain, WorkerExit, PrepareEnd, NothingToPublish, NothingToWriteLegacy,
       FsyncWal, PublishBatch, Swap, StartReceipts, FinishReceipt, BatchEnd, SinkRaises,
       PrepareRaises, PoisonFinish, PoisonEnd, Quiet
  <2> QED BY <1>0, <2>1, QuietKeepsOrder
<1>5. CASE Lifecycle
  <2>1. Quiet
    BY <1>5 DEF Lifecycle, LifecycleEnd, CloseBegin, FenceBegin, RotationNotNeeded,
       RotationBegin, CompactionBegin, CloseEnd, FenceEnd, RotationEnd, CompactionEnd,
       JoinTimeout, AwaitFencedShutdown, BeginFence, LifecycleReturns, Quiet
  <2> QED BY <1>0, <2>1, QuietKeepsOrder
<1>6. CASE UNCHANGED vars
  <2>1. Quiet
    BY <1>6 DEF vars, Quiet
  <2> QED BY <1>0, <2>1, QuietKeepsOrder
<1> QED BY <1>1, <1>2, <1>3, <1>4, <1>5, <1>6 DEF Next, Worker

(* Frames reach the file in the order submit() gave out tickets, whatever is batched,   *)
(* cancelled, cut off half way or poisoned.                                              *)
THEOREM TicketOrder == Spec => []WalInTicketOrder
<1>1. IInv /\ OrderInv /\ [Next]_vars => OrderInv'
  BY NextOrder
<1>2. OrderInv => WalInTicketOrder
  BY DEF OrderInv, FileOrder, RisingFrames, WalInTicketOrder
<1> QED BY <1>1, <1>2, InitOrder, Invariant, PTL DEF Spec

-----------------------------------------------------------------------------
(* Retry memory and versions.  Each remembered operation is a frame: of the durable file   *)
(* for the snapshot, of the file or of the plan while a batch is planned.  A plan only adds  *)
(* to the memory and only raises versions, and a replayed receipt repeats what it remembers.  *)

FrameOf(f, o, e) == f.cmd.opid = o /\ ContentDigest(f.cmd) = e.digest

InFile(o, e) == Pos(e.seq) \in 1..Pos(snap.through) /\ FrameOf(wal[Pos(e.seq)], o, e)

InPlan(o, e) ==
    /\ e.seq - plan.source \in DOMAIN plan.frames
    /\ FrameOf(plan.frames[e.seq - plan.source], o, e)

Repeats(tx, c, n) ==
    /\ n \in Nat
    /\ \/ /\ BaseDedup[c.opid].kind = "entry"
          /\ BaseDedup[c.opid].digest = ContentDigest(c)
          /\ n = BaseDedup[c.opid].seq
       \/ /\ tx[c.opid] # Nil
          /\ tx[c.opid].digest = ContentDigest(c) /\ tx[c.opid].seq = n

SnapMemory == \A o \in OpIds : snap.tx[o] # Nil => InFile(o, snap.tx[o])

PlanMemory ==
    /\ pc \in Planning \ Visible => \A o \in OpIds :
         /\ plan.tx[o] # Nil => plan.tx[o] = snap.tx[o] \/ InPlan(o, plan.tx[o])
         /\ snap.tx[o] # Nil => plan.tx[o] = snap.tx[o]
    /\ pc \in Visible => \A o \in OpIds : plan.tx[o] = snap.tx[o]

ReceiptMemory ==
    pc \in Planning => \A i \in DOMAIN plan.receipts :
        plan.receipts[i].status = "DEDUP_REPLAY" =>
            Repeats(plan.tx, cmd[batch[i]], plan.receipts[i].seq)

VersionsRise ==
    pc \in Planning => \A f \in Facts : snap.index[f] # Nil =>
        plan.index[f] # Nil /\ plan.index[f].ver >= snap.index[f].ver

ReplayKnown ==
    /\ ReplayIsDurable
    /\ \A r \in Requests : status[r] = "DEDUP_REPLAY" => wseq[r] \in Nat

MemoryInv == SnapMemory /\ PlanMemory /\ ReceiptMemory /\ VersionsRise /\ ReplayKnown

LEMMA InitMemory == Init => MemoryInv
<1> SUFFICES ASSUME Init PROVE MemoryInv
  OBVIOUS
<1> USE DEF Init
<1>1. SnapMemory /\ PlanMemory /\ ReceiptMemory /\ VersionsRise
  BY DEF SnapMemory, PlanMemory, ReceiptMemory, VersionsRise, EmptyTx, Planning, Visible
<1>2. ReplayKnown
  BY NilAssumption DEF ReplayKnown, ReplayIsDurable, Statuses, Receipts
<1> QED BY <1>1, <1>2 DEF MemoryInv

(* The types the steps below rely on. *)
LEMMA MemoryTypes ==
    ASSUME TypeOK
    PROVE  /\ snap.index \in Indexes /\ snap.tx \in TxIndexes /\ snap.through \in Nat
           /\ plan.index \in Indexes /\ plan.tx \in TxIndexes /\ plan.source \in Nat
           /\ plan.frames \in Seq(Frame) /\ plan.receipts \in Seq(Receipt)
           /\ wal \in Seq(Frame) /\ synced \in Nat
           /\ \A k \in DOMAIN wal : wal[k].cmd \in Command
           /\ \A o \in OpIds : snap.tx[o] # Nil => snap.tx[o] \in TxEntry /\ snap.tx[o].seq \in Nat
           /\ \A o \in OpIds : plan.tx[o] # Nil => plan.tx[o] \in TxEntry /\ plan.tx[o].seq \in Nat
<1>1. /\ snap.index \in Indexes /\ snap.tx \in TxIndexes /\ snap.through \in Nat
      /\ plan.index \in Indexes /\ plan.tx \in TxIndexes /\ plan.source \in Nat
      /\ plan.frames \in Seq(Frame) /\ plan.receipts \in Seq(Receipt)
      /\ wal \in Seq(Frame) /\ synced \in Nat
  BY DEF TypeOK, Plan
<1>2. \A k \in DOMAIN wal : wal[k] \in Frame
  BY <1>1
<1>3. \A k \in DOMAIN wal : wal[k].cmd \in Command
  BY <1>2, GroupCommitAssumption DEF Frame
<1>4. \A tx \in TxIndexes : \A o \in OpIds : tx[o] # Nil => tx[o] \in TxEntry /\ tx[o].seq \in Nat
  BY DEF TxIndexes, TxEntry
<1> QED BY <1>1, <1>3, <1>4

(* A frame inside the visible prefix of the file stays there. *)
LEMMA InFileStays ==
    ASSUME IInv, IInv', Grows, NEW o \in OpIds, NEW e, InFile(o, e)
    PROVE  InFile(o, e)'
<1>1. /\ wal \in Seq(Frame) /\ synced \in Nat /\ snap.through \in Nat /\ snap'.through \in Nat
      /\ synced <= Len(wal) /\ Pos(snap.through) <= synced
  BY DEF IInv, TypeOK, DiskInv
<1>2. /\ Pos(snap.through) \in Int /\ Pos(snap'.through) \in Int
      /\ Pos(snap.through) <= Pos(snap'.through)
  <2>1. snap.through <= snap'.through
    BY DEF Grows
  <2>2. \A a, b \in Nat : Pos(a) \in Int /\ Pos(b) \in Int /\ (a <= b => Pos(a) <= Pos(b))
    BY GroupCommitAssumption DEF Pos
  <2> QED BY <1>1, <2>1, <2>2
<1>3. Pos(e.seq) \in DOMAIN wal
  BY <1>1, <1>2 DEF InFile
<1> QED BY <1>1, <1>2, <1>3 DEF InFile, FrameOf, Grows, Pos

(* An answer backed by the base or by the file stays backed. *)
LEMMA ReplayStays ==
    ASSUME IInv, IInv', Grows, ReplayKnown, NEW r \in Requests,
           status[r] = "DEDUP_REPLAY", wseq'[r] = wseq[r], cmd'[r] = cmd[r]
    PROVE  /\ wseq'[r] \in Nat
           /\ \/ /\ BaseDedup[cmd'[r].opid].kind = "entry"
                 /\ BaseDedup[cmd'[r].opid].digest = ContentDigest(cmd'[r])
                 /\ wseq'[r] = BaseDedup[cmd'[r].opid].seq
              \/ /\ Pos(wseq'[r]) \in 1..synced' /\ wal'[Pos(wseq'[r])].cmd = cmd'[r]
                 /\ wseq'[r] <= snap'.through
<1>1. wseq[r] \in Nat
  BY DEF ReplayKnown
<1>2. /\ wal \in Seq(Frame) /\ synced \in Nat /\ snap.through \in Nat /\ snap'.through \in Nat
      /\ synced' \in Nat /\ synced <= Len(wal)
  BY DEF IInv, TypeOK, DiskInv
<1>3. CASE /\ Pos(wseq[r]) \in 1..synced /\ wal[Pos(wseq[r])].cmd = cmd[r]
           /\ wseq[r] <= snap.through
  <2>1. Pos(wseq[r]) \in DOMAIN wal /\ Pos(wseq[r]) \in 1..synced'
    BY <1>2, <1>3 DEF Grows
  <2> QED BY <1>1, <1>2, <1>3, <2>1 DEF Grows, Pos
<1> QED BY <1>1, <1>3 DEF ReplayKnown, ReplayIsDurable

(* A step that plans nothing, swaps nothing and answers no retry. *)
MemoryQuiet ==
    /\ UNCHANGED snap
    /\ pc' \in Planning =>
         /\ pc \in Planning /\ (pc' \in Visible <=> pc \in Visible)
         /\ UNCHANGED <<plan, batch>>
         /\ \A i \in DOMAIN batch : cmd'[batch[i]] = cmd[batch[i]]
    /\ \A r \in Requests : status'[r] = "DEDUP_REPLAY" =>
         status[r] = "DEDUP_REPLAY" /\ wseq'[r] = wseq[r] /\ cmd'[r] = cmd[r]

(* What such a step, or any step that leaves the snapshot and the answers alone, keeps. *)
LEMMA SnapMemoryStays ==
    ASSUME IInv, IInv', Grows, SnapMemory, UNCHANGED snap
    PROVE  SnapMemory'
<1> SUFFICES ASSUME NEW o \in OpIds, snap.tx[o] # Nil
             PROVE  InFile(o, snap.tx[o])'
  BY DEF SnapMemory
<1>1. InFile(o, snap.tx[o])
  BY DEF SnapMemory
<1>2. ASSUME NEW e, InFile(o, e) PROVE InFile(o, e)'
  BY <1>2, InFileStays
<1> QED BY <1>1, <1>2 DEF InFile, FrameOf

LEMMA ReplayKnownStays ==
    ASSUME IInv, IInv', Grows, ReplayKnown,
           \A r \in Requests : status'[r] = "DEDUP_REPLAY" =>
               status[r] = "DEDUP_REPLAY" /\ wseq'[r] = wseq[r] /\ cmd'[r] = cmd[r]
    PROVE  ReplayKnown'
<1> SUFFICES ASSUME NEW r \in Requests, status'[r] = "DEDUP_REPLAY"
             PROVE  /\ wseq'[r] \in Nat
                    /\ \/ /\ BaseDedup[cmd'[r].opid].kind = "entry"
                          /\ BaseDedup[cmd'[r].opid].digest = ContentDigest(cmd'[r])
                          /\ wseq'[r] = BaseDedup[cmd'[r].opid].seq
                       \/ /\ Pos(wseq'[r]) \in 1..synced' /\ wal'[Pos(wseq'[r])].cmd = cmd'[r]
                          /\ wseq'[r] <= snap'.through
  BY DEF ReplayKnown, ReplayIsDurable, Pos
<1> QED BY ReplayStays

LEMMA QuietKeepsMemory ==
    ASSUME IInv, IInv', Grows, MemoryInv, MemoryQuiet
    PROVE  MemoryInv'
<1>1. SnapMemory' /\ ReplayKnown'
  BY SnapMemoryStays, ReplayKnownStays DEF MemoryInv, MemoryQuiet
<1>2. PlanMemory'
  <2>1. CASE pc' \in Planning
    BY <2>1 DEF MemoryInv, PlanMemory, MemoryQuiet, InPlan, FrameOf, Planning, Visible
  <2>2. CASE pc' \notin Planning
    BY <2>2 DEF PlanMemory, Planning, Visible
  <2> QED BY <2>1, <2>2
<1>3. ReceiptMemory'
  <2> SUFFICES ASSUME pc' \in Planning, NEW i \in DOMAIN plan'.receipts,
                      plan'.receipts[i].status = "DEDUP_REPLAY"
               PROVE  Repeats(plan'.tx, cmd'[batch'[i]], plan'.receipts[i].seq)
    BY DEF ReceiptMemory, Repeats
  <2>1. pc \in Planning /\ plan' = plan /\ batch' = batch
    BY DEF MemoryQuiet
  <2>2. i \in DOMAIN batch
    <3>1. /\ Len(plan.receipts) <= Len(batch) /\ plan.receipts \in Seq(Receipt)
          /\ batch \in Seq(Requests)
      BY <2>1, TicketTypes DEF IInv, PlanInv
    <3> QED BY <2>1, <3>1
  <2>3. cmd'[batch[i]] = cmd[batch[i]]
    BY <2>2 DEF MemoryQuiet
  <2> QED BY <2>1, <2>3 DEF MemoryInv, ReceiptMemory
<1>4. VersionsRise'
  BY DEF MemoryInv, VersionsRise, MemoryQuiet
<1> QED BY <1>1, <1>2, <1>3, <1>4 DEF MemoryInv

(* A plan starts as a copy of the snapshot. *)
LEMMA DrainEndMemory ==
    ASSUME IInv, IInv', Grows, MemoryInv, DrainEnd
    PROVE  MemoryInv'
<1>1. /\ pc' \in {"idle", "prepare"} /\ plan'.receipts = <<>>
      /\ plan'.index = snap.index /\ plan'.tx = snap.tx
      /\ UNCHANGED <<snap, cmd, status, wseq>>
  BY DEF DrainEnd, clientVars, memVars
<1>2. SnapMemory' /\ ReplayKnown'
  BY <1>1, SnapMemoryStays, ReplayKnownStays DEF MemoryInv
<1>3. PlanMemory' /\ ReceiptMemory'
  BY <1>1 DEF PlanMemory, ReceiptMemory, Visible
<1>4. VersionsRise'
  <2>1. \A f \in Facts : snap.index[f] # Nil => snap.index[f].ver \in Nat
    BY DEF IInv, TypeOK, Indexes, Entry
  <2> QED BY <1>1, <2>1 DEF VersionsRise
<1> QED BY <1>2, <1>3, <1>4 DEF MemoryInv

(* What the admission rules guarantee of an applied and of a replayed command. *)
LEMMA AppliedIsNew ==
    ASSUME NEW index \in Indexes, NEW tx \in TxIndexes, NEW c \in Command,
           Decide(index, tx, c) = "APPLIED"
    PROVE  /\ tx[c.opid] = Nil
           /\ index[c.fact] # Nil => c.ver > index[c.fact].ver
<1>1. /\ ClassifyDedup(tx, c) \notin {"dedup_replay", "txid_conflict"}
      /\ Preflight(CurrentOf(index, c.fact), c) \notin {"stale", "idempotent", "conflict"}
  BY DEF Decide
<1>2. TxCheck(tx, c) = "new"
  BY <1>1 DEF ClassifyDedup, TxCheck
<1>3. CurrentOf(index, c.fact) = Nil \/ c.ver > CurrentOf(index, c.fact).ver
  BY <1>1 DEF Preflight
<1> QED BY <1>2, <1>3 DEF TxCheck, CurrentOf

(* A command answered DEDUP_REPLAY has the id and the content of what is remembered. *)
LEMMA ReplayRepeats ==
    ASSUME NEW tx \in TxIndexes, NEW index, NEW c \in Command,
           Decide(index, tx, c) = "DEDUP_REPLAY"
    PROVE  Repeats(tx, c, DedupSeq(tx, c))
<1>1. DedupSeq(tx, c) \in Nat
  BY DedupSeqType
<1>2. ClassifyDedup(tx, c) = "dedup_replay"
  BY DEF Decide
<1>3. CASE tx[c.opid] # Nil
  BY <1>1, <1>2, <1>3 DEF ClassifyDedup, TxCheck, DedupSeq, Repeats
<1>4. CASE tx[c.opid] = Nil
  <2>1. DedupProbe(c) = "replay"
    BY <1>2, <1>4 DEF ClassifyDedup, TxCheck
  <2>2. BaseDedup[c.opid] \in BaseDedupEntry
    BY BaseAssumption DEF Command
  <2> QED BY <1>1, <1>4, <2>1, <2>2 DEF DedupProbe, BaseDedupEntry, DedupSeq, Repeats
<1> QED BY <1>3, <1>4

(* One command is decided: applied, it is new to the memory and raises its fact's version;   *)
(* replayed, its receipt repeats an entry.                                                   *)
LEMMA PrepareOneMemory ==
    ASSUME IInv, IInv', Grows, MemoryInv, PrepareOne
    PROVE  MemoryInv'
<1> DEFINE i == Len(plan.receipts) + 1
           r == batch[i]
           c == cmd[r]
           s == Decide(plan.index, plan.tx, c)
           n == plan.source + Len(plan.frames) + 1
<1>1. /\ pc = "prepare" /\ Len(plan.receipts) < Len(batch)
      /\ UNCHANGED <<snap, cmd, status, wseq, pc, batch>>
  BY DEF PrepareOne, clientVars, memVars
<1>2. /\ plan \in Plan /\ plan.index \in Indexes /\ plan.tx \in TxIndexes
      /\ plan.source \in Nat /\ plan.frames \in Seq(Frame) /\ plan.receipts \in Seq(Receipt)
      /\ i \in DOMAIN batch /\ r \in Requests /\ i \in Nat /\ n \in Nat
  <2>1. /\ plan \in Plan /\ plan.index \in Indexes /\ plan.tx \in TxIndexes
        /\ plan.source \in Nat /\ plan.frames \in Seq(Frame) /\ plan.receipts \in Seq(Receipt)
        /\ batch \in Seq(Requests)
    BY DEF IInv, TypeOK, Plan
  <2> QED BY <1>1, <2>1
<1>3. c \in Command /\ c \in Commands /\ c.opid \in OpIds /\ c.fact \in Facts /\ c.ver \in Nat
  <2>1. state[r] # "NEW"
    BY <1>1, <1>2 DEF IInv, ListInv
  <2>2. c \in Commands
    BY <1>2, <2>1 DEF IInv, RequestInv
  <2> QED BY <2>2, GroupCommitAssumption DEF Command
<1>4. SnapMemory' /\ ReplayKnown'
  BY <1>1, SnapMemoryStays, ReplayKnownStays DEF MemoryInv
<1>5. /\ Len(plan.receipts) \in Nat /\ DOMAIN plan.receipts = 1..Len(plan.receipts)
      /\ Len(plan.frames) \in Nat /\ DOMAIN plan.frames = 1..Len(plan.frames)
  BY <1>2
<1>6. CASE s = "APPLIED"
  <2> DEFINE f == [req |-> r, cmd |-> c, seq |-> n]
             t == [status |-> s, seq |-> n]
  <2>1. /\ plan'.source = plan.source /\ plan'.index = ApplyIndex(plan.index, c)
        /\ plan'.tx = RecordTx(plan.tx, c, n)
        /\ plan'.frames = Append(plan.frames, f)
        /\ plan'.receipts = Append(plan.receipts, t)
    BY <1>2, <1>6 DEF PrepareOne, Preparing, Plan
  <2>2. f \in Frame /\ t \in Receipt
    BY <1>2, <1>3, <1>6 DEF Frame, Receipt, Receipts
  <2>3. plan.tx[c.opid] = Nil /\ (plan.index[c.fact] # Nil => c.ver > plan.index[c.fact].ver)
    BY <1>2, <1>3, <1>6, AppliedIsNew
  <2>4. /\ plan'.tx[c.opid] = [digest |-> ContentDigest(c), seq |-> n]
        /\ \A o \in OpIds : o # c.opid => plan'.tx[o] = plan.tx[o]
    BY <1>2, <1>3, <2>1 DEF RecordTx, TxIndexes
  <2>5. f.cmd = c /\ t.status = "APPLIED"
    BY <1>6
  <2> HIDE DEF c, s, n, f, t
  <2>6. /\ DOMAIN plan.frames \subseteq DOMAIN plan'.frames
        /\ Len(plan.frames) + 1 \in DOMAIN plan'.frames
        /\ \A k \in DOMAIN plan.frames : plan'.frames[k] = plan.frames[k]
        /\ plan'.frames[Len(plan.frames) + 1].cmd = c
    BY <1>2, <1>5, <2>1, <2>2, <2>5, AppendParts
  <2>7. \A j \in DOMAIN plan'.receipts :
          \/ j \in DOMAIN plan.receipts /\ plan'.receipts[j] = plan.receipts[j]
          \/ plan'.receipts[j].status = "APPLIED"
    BY <1>2, <2>1, <2>2, <2>5, AppendParts
  <2>8. PlanMemory'
    <3> SUFFICES ASSUME NEW o \in OpIds
                 PROVE  /\ plan'.tx[o] # Nil =>
                             \/ plan'.tx[o] = snap.tx[o]
                             \/ /\ plan'.tx[o].seq - plan'.source \in DOMAIN plan'.frames
                                /\ FrameOf(plan'.frames[plan'.tx[o].seq - plan'.source], o,
                                           plan'.tx[o])
                        /\ snap.tx[o] # Nil => plan'.tx[o] = snap.tx[o]
      BY <1>1 DEF PlanMemory, InPlan, FrameOf, Planning, Visible
    <3>1. /\ plan.tx[o] # Nil => plan.tx[o] = snap.tx[o] \/ InPlan(o, plan.tx[o])
          /\ snap.tx[o] # Nil => plan.tx[o] = snap.tx[o]
      BY <1>1 DEF MemoryInv, PlanMemory, Planning, Visible
    <3>2. CASE o = c.opid
      <4>1. snap.tx[o] = Nil
        BY <2>3, <3>1, <3>2
      <4>2. plan'.tx[o].seq - plan'.source = Len(plan.frames) + 1
        BY <1>2, <1>5, <2>1, <2>4, <3>2 DEF n
      <4>3. FrameOf(plan'.frames[Len(plan.frames) + 1], o, plan'.tx[o])
        BY <2>4, <2>6, <3>2 DEF FrameOf
      <4> QED BY <2>6, <4>1, <4>2, <4>3
    <3>3. CASE o # c.opid
      BY <2>1, <2>4, <2>6, <3>1, <3>3 DEF InPlan, FrameOf
    <3> QED BY <3>2, <3>3
  <2>9. ReceiptMemory'
    <3> SUFFICES ASSUME NEW j \in DOMAIN plan'.receipts, plan'.receipts[j].status = "DEDUP_REPLAY"
                 PROVE  Repeats(plan'.tx, cmd[batch[j]], plan'.receipts[j].seq)
      BY <1>1 DEF ReceiptMemory, Repeats
    <3>1. j \in DOMAIN plan.receipts /\ plan'.receipts[j] = plan.receipts[j]
      BY <2>7
    <3>2. Repeats(plan.tx, cmd[batch[j]], plan.receipts[j].seq)
      BY <1>1, <3>1 DEF MemoryInv, ReceiptMemory, Planning
    <3>3. cmd[batch[j]].opid \in OpIds
      <4>1. j \in DOMAIN batch /\ batch[j] \in Requests
        BY <1>1, <1>5, <3>1, TicketTypes DEF IInv
      <4>2. state[batch[j]] # "NEW"
        BY <1>1, <4>1 DEF IInv, ListInv
      <4> QED BY <4>1, <4>2, GroupCommitAssumption DEF IInv, RequestInv, Command
    <3> QED BY <2>3, <2>4, <3>1, <3>2, <3>3 DEF Repeats
  <2>10. VersionsRise'
    <3> SUFFICES ASSUME NEW g \in Facts, snap.index[g] # Nil
                 PROVE  plan'.index[g] # Nil /\ plan'.index[g].ver >= snap.index[g].ver
      BY <1>1 DEF VersionsRise
    <3>1. plan.index[g] # Nil /\ plan.index[g].ver >= snap.index[g].ver
      BY <1>1 DEF MemoryInv, VersionsRise, Planning
    <3>2. plan.index[g].ver \in Nat /\ snap.index[g].ver \in Nat
      BY <1>2, <3>1, MemoryTypes DEF IInv, Indexes, Entry
    <3>3. CASE g = c.fact
      <4>1. plan'.index[g] = [ver |-> c.ver, op |-> c.op, value |-> c.value]
        BY <1>2, <1>3, <2>1, <3>3 DEF ApplyIndex, Indexes
      <4>2. plan'.index[g] \in Entry
        BY <1>3, <4>1 DEF Command, Entry
      <4>3. plan'.index[g] # Nil
        BY <4>2, GroupCommitAssumption
      <4> QED BY <1>3, <2>3, <3>1, <3>2, <3>3, <4>1, <4>3
    <3>4. CASE g # c.fact
      BY <1>2, <1>3, <2>1, <3>1, <3>4 DEF ApplyIndex, Indexes
    <3> QED BY <3>3, <3>4
  <2> QED BY <1>4, <2>8, <2>9, <2>10 DEF MemoryInv
<1>7. CASE s # "APPLIED"
  <2> DEFINE d == IF s = "DEDUP_REPLAY" THEN DedupSeq(plan.tx, c) ELSE Nil
             t == [status |-> s, seq |-> d]
  <2>1. /\ plan'.source = plan.source /\ plan'.index = plan.index /\ plan'.tx = plan.tx
        /\ plan'.frames = plan.frames /\ plan'.receipts = Append(plan.receipts, t)
    BY <1>2, <1>7 DEF PrepareOne, Preparing, Plan
  <2>2. t \in Receipt
    BY <1>2, <1>3, DecideType, DedupSeqType DEF Receipt
  <2>3. t.status = "DEDUP_REPLAY" => Repeats(plan.tx, c, t.seq)
    BY <1>2, <1>3, ReplayRepeats
  <2> HIDE DEF t, s
  <2>4. \A j \in DOMAIN plan'.receipts :
          \/ j \in DOMAIN plan.receipts /\ plan'.receipts[j] = plan.receipts[j]
          \/ j = i /\ plan'.receipts[j] = t
    BY <1>2, <1>5, <2>1, <2>2, AppendParts
  <2>5. PlanMemory' /\ VersionsRise'
    BY <1>1, <2>1 DEF MemoryInv, PlanMemory, VersionsRise, InPlan, FrameOf, Planning, Visible
  <2>6. ReceiptMemory'
    <3> SUFFICES ASSUME NEW j \in DOMAIN plan'.receipts, plan'.receipts[j].status = "DEDUP_REPLAY"
                 PROVE  Repeats(plan.tx, cmd[batch[j]], plan'.receipts[j].seq)
      BY <1>1, <2>1 DEF ReceiptMemory, Repeats
    <3>1. CASE j \in DOMAIN plan.receipts /\ plan'.receipts[j] = plan.receipts[j]
      BY <1>1, <3>1 DEF MemoryInv, ReceiptMemory, Planning
    <3>2. CASE j = i /\ plan'.receipts[j] = t
      BY <2>3, <3>2
    <3> QED BY <2>4, <3>1, <3>2
  <2> QED BY <1>4, <2>5, <2>6 DEF MemoryInv
<1> QED BY <1>6, <1>7

(* Nothing applied: the plan's memory is the snapshot's. *)
LEMMA NothingMemory ==
    ASSUME IInv, IInv', Grows, MemoryInv, NothingToPublish \/ NothingToWriteLegacy
    PROVE  MemoryInv'
<1>1. /\ pc = "planned" /\ pc' \in Visible /\ plan.frames = <<>>
      /\ UNCHANGED <<snap, cmd, status, wseq, plan, batch>>
  BY DEF NothingToPublish, NothingToWriteLegacy, Visible, clientVars, memVars, workVars
<1>2. SnapMemory' /\ ReplayKnown'
  BY <1>1, SnapMemoryStays, ReplayKnownStays DEF MemoryInv
<1>3. \A o \in OpIds : plan.tx[o] = snap.tx[o]
  BY <1>1 DEF MemoryInv, PlanMemory, InPlan, Planning, Visible
<1>4. PlanMemory'
  BY <1>1, <1>3 DEF PlanMemory, Visible
<1>5. ReceiptMemory' /\ VersionsRise'
  BY <1>1 DEF MemoryInv, ReceiptMemory, VersionsRise, Repeats, Planning
<1> QED BY <1>2, <1>4, <1>5 DEF MemoryInv

(* The swap: the plan's frames are in the file, so what it remembers is. *)
LEMMA SwapMemory ==
    ASSUME IInv, IInv', Grows, MemoryInv, Swap
    PROVE  MemoryInv'
<1>1. /\ pc = "published" /\ pc' = "swapped"
      /\ snap' = [index |-> plan.index, tx |-> plan.tx, through |-> PlanThrough]
      /\ UNCHANGED <<cmd, status, wseq, plan, batch, wal>>
  BY DEF Swap, CandidateSnapshot, clientVars, workVars, diskVars
<1>2. ReplayKnown'
  BY <1>1, ReplayKnownStays DEF MemoryInv
<1>3. SnapMemory'
  <2> SUFFICES ASSUME NEW o \in OpIds, plan.tx[o] # Nil
               PROVE  InFile(o, plan.tx[o])'
    BY <1>1 DEF SnapMemory, InFile, FrameOf
  <2> DEFINE e == plan.tx[o]
             k == e.seq - plan.source
  <2>1. e = snap.tx[o] \/ InPlan(o, e)
    BY <1>1 DEF MemoryInv, PlanMemory, Planning, Visible
  <2>2. /\ e.seq \in Nat /\ plan.source \in Nat /\ plan.frames \in Seq(Frame)
        /\ Len(plan.frames) \in Nat
    BY MemoryTypes DEF IInv
  <2>3. CASE e = snap.tx[o]
    <3>1. InFile(o, e)
      BY <2>3 DEF MemoryInv, SnapMemory
    <3>2. ASSUME NEW x, InFile(o, x) PROVE InFile(o, x)'
      BY <3>2, InFileStays
    <3> QED BY <1>1, <3>1, <3>2 DEF InFile, FrameOf
  <2>4. CASE InPlan(o, e)
    <3>1. k \in DOMAIN plan.frames /\ k \in 1..Len(plan.frames) /\ FrameOf(plan.frames[k], o, e)
      BY <2>2, <2>4 DEF InPlan
    <3>2. wal[Pos(plan.source) + k] = plan.frames[k] /\ Pos(plan.source) >= 0
      BY <1>1, <3>1 DEF IInv, DiskInv, Written
    <3>3. Pos(e.seq) = Pos(plan.source) + k
      BY <2>2, PosShift, GroupCommitAssumption
    <3>4. Pos(e.seq) \in 1..Pos(PlanThrough)
      <4>1. Pos(plan.source) \in Int /\ Pos(plan.source + Len(plan.frames))
                                       = Pos(plan.source) + Len(plan.frames)
        BY <2>2, GroupCommitAssumption DEF Pos
      <4>2. Pos(plan.source) + k \in 1..(Pos(plan.source) + Len(plan.frames))
        BY <2>2, <3>1, <3>2, <4>1
      <4> QED BY <3>3, <4>1, <4>2 DEF PlanThrough
    <3> QED BY <1>1, <3>1, <3>2, <3>3, <3>4 DEF InFile, FrameOf, Pos
  <2> QED BY <2>1, <2>3, <2>4
<1>4. PlanMemory'
  BY <1>1 DEF PlanMemory, Visible
<1>5. ReceiptMemory'
  BY <1>1 DEF MemoryInv, ReceiptMemory, Repeats, Planning
<1>6. VersionsRise'
  <2>1. \A f \in Facts : plan.index[f] # Nil => plan.index[f].ver \in Nat
    BY MemoryTypes DEF IInv, Indexes, Entry
  <2> QED BY <1>1, <2>1 DEF VersionsRise
<1> QED BY <1>2, <1>3, <1>4, <1>5, <1>6 DEF MemoryInv

(* A replayed receipt is told once its frame is visible, so it points into the durable file. *)
LEMMA FinishReceiptMemory ==
    ASSUME IInv, IInv', Grows, MemoryInv, FinishReceipt
    PROVE  MemoryInv'
<1>1. /\ pc = "receipts" /\ UNCHANGED <<snap, wal, synced, cmd, plan, batch, pc>>
  BY DEF FinishReceipt, memVars, workVars, diskVars
<1>2. PICK k \in DOMAIN batch : Finish(batch[k], plan.receipts[k].status, plan.receipts[k].seq)
  BY DEF FinishReceipt
<1> DEFINE q == batch[k]
           c == cmd[q]
           n == plan.receipts[k].seq
<1>3. k \in DOMAIN plan.receipts /\ q \in Requests /\ c \in Command /\ c.opid \in OpIds
  <2>1. /\ batch \in Seq(Requests) /\ plan.receipts \in Seq(Receipt)
        /\ Len(plan.receipts) = Len(batch)
    BY <1>1, TicketTypes DEF IInv, PlanInv, Planning
  <2>2. k \in DOMAIN plan.receipts /\ q \in Requests
    BY <2>1
  <2>3. state[q] # "NEW"
    BY DEF IInv, ListInv
  <2> QED BY <2>2, <2>3, GroupCommitAssumption DEF IInv, RequestInv, Command
<1>4. SnapMemory'
  BY <1>1, SnapMemoryStays DEF MemoryInv
<1>5. PlanMemory' /\ ReceiptMemory' /\ VersionsRise'
  BY <1>1 DEF MemoryInv, PlanMemory, ReceiptMemory, VersionsRise, InPlan, FrameOf, Repeats
<1>6. /\ status'[q] = plan.receipts[k].status /\ wseq'[q] = n
      /\ \A r \in Requests : r # q => status'[r] = status[r] /\ wseq'[r] = wseq[r]
  BY <1>2, <1>3 DEF Finish, IInv, TypeOK
<1>7. ASSUME NEW r \in Requests, status'[r] = "DEDUP_REPLAY"
      PROVE  /\ wseq'[r] \in Nat
             /\ \/ /\ BaseDedup[cmd[r].opid].kind = "entry"
                   /\ BaseDedup[cmd[r].opid].digest = ContentDigest(cmd[r])
                   /\ wseq'[r] = BaseDedup[cmd[r].opid].seq
                \/ /\ Pos(wseq'[r]) \in 1..synced /\ wal[Pos(wseq'[r])].cmd = cmd[r]
                   /\ wseq'[r] <= snap.through
  <2>1. CASE r # q
    BY <1>6, <1>7, <2>1 DEF MemoryInv, ReplayKnown, ReplayIsDurable
  <2>2. CASE r = q
    <3>1. Repeats(plan.tx, c, n)
      BY <1>1, <1>3, <1>6, <1>7, <2>2 DEF MemoryInv, ReceiptMemory, Planning
    <3>2. plan.tx[c.opid] = snap.tx[c.opid]
      BY <1>1, <1>3 DEF MemoryInv, PlanMemory, Visible
    <3>3. n \in Nat
      BY <3>1 DEF Repeats
    <3>4. CASE plan.tx[c.opid] # Nil /\ plan.tx[c.opid].digest = ContentDigest(c)
               /\ plan.tx[c.opid].seq = n
      <4>1. InFile(c.opid, snap.tx[c.opid])
        BY <1>3, <3>2, <3>4 DEF MemoryInv, SnapMemory
      <4>2. /\ Pos(n) \in 1..Pos(snap.through)
            /\ wal[Pos(n)].cmd.opid = c.opid /\ ContentDigest(wal[Pos(n)].cmd) = ContentDigest(c)
        BY <3>2, <3>4, <4>1 DEF InFile, FrameOf
      <4>3. /\ synced \in Nat /\ snap.through \in Nat /\ wal \in Seq(Frame)
            /\ Pos(snap.through) <= synced /\ synced <= Len(wal)
            /\ Pos(snap.through) \in Int /\ (Pos(n) <= Pos(snap.through) => n <= snap.through)
        <5>1. /\ synced \in Nat /\ snap.through \in Nat /\ wal \in Seq(Frame)
              /\ Pos(snap.through) <= synced /\ synced <= Len(wal)
          BY MemoryTypes DEF IInv, DiskInv
        <5>2. \A m \in Nat : Pos(m) \in Int /\ (Pos(n) <= Pos(m) => n <= m)
          BY <3>3, GroupCommitAssumption DEF Pos
        <5> QED BY <5>1, <5>2
      <4>4. Pos(n) \in 1..synced /\ Pos(n) \in DOMAIN wal /\ n <= snap.through
        BY <4>2, <4>3
      <4>5. wal[Pos(n)].cmd \in Command
        BY <4>4, MemoryTypes DEF IInv
      <4>6. wal[Pos(n)].cmd = c
        BY <1>3, <4>2, <4>5 DEF ContentDigest, Command
      <4> QED BY <1>6, <2>2, <3>3, <4>4, <4>6
    <3> QED BY <1>6, <2>2, <3>1, <3>3, <3>4 DEF Repeats
  <2> QED BY <2>1, <2>2
<1>8. ReplayKnown'
  BY <1>1, <1>7 DEF ReplayKnown, ReplayIsDurable, Pos
<1> QED BY <1>4, <1>5, <1>8 DEF MemoryInv

(* Steps that answer someone, but never with a replay. *)
LEMMA OtherAnswers ==
    ASSUME TypeOK, NEW r \in Requests, NEW s, NEW n, Finish(r, s, n), s # "DEDUP_REPLAY",
           \A q \in Requests : q # r => cmd'[q] = cmd[q]
    PROVE  \A q \in Requests : status'[q] = "DEDUP_REPLAY" =>
               status[q] = "DEDUP_REPLAY" /\ wseq'[q] = wseq[q] /\ cmd'[q] = cmd[q]
BY DEF Finish, TypeOK

(* Each action keeps the memory. *)
LEMMA NextMemory ==
    ASSUME IInv, MemoryInv, [Next]_vars
    PROVE  MemoryInv'
<1> USE DEF clientVars, memVars, workVars, Planning, Visible
<1>0. IInv' /\ Grows /\ TypeOK
  BY NextIInv, StepGrows DEF IInv
<1>1. CASE Client
  <2> SUFFICES MemoryQuiet
    BY <1>0, QuietKeepsMemory
  <2>1. PICK r \in Requests :
          \/ \E c \in Commands : SubmitRefused(r, c) \/ SubmitAdmitted(r, c)
          \/ ResultReady(r) \/ ResultTimeout(r) \/ Cancel(r)
    BY <1>1 DEF Client
  <2>2. CASE ResultReady(r) \/ ResultTimeout(r) \/ Cancel(r)
    BY <2>2 DEF ResultReady, ResultTimeout, Cancel, MemoryQuiet
  <2>3. CASE \E c \in Commands : SubmitRefused(r, c) \/ SubmitAdmitted(r, c)
    <3>1. PICK c \in Commands : SubmitRefused(r, c) \/ SubmitAdmitted(r, c)
      BY <2>3
    <3>2. state[r] = "NEW" /\ cmd' = [cmd EXCEPT ![r] = c] /\ UNCHANGED <<snap, pc, plan, batch>>
      BY <3>1 DEF SubmitRefused, SubmitAdmitted
    <3>3. \A q \in Requests : q # r => cmd'[q] = cmd[q]
      BY <1>0, <3>2 DEF TypeOK
    <3>4. \A i \in DOMAIN batch : cmd'[batch[i]] = cmd[batch[i]]
      BY <1>0, <3>2, <3>3, TicketTypes DEF IInv, ListInv
    <3>5. status[r] # "DEDUP_REPLAY"
      BY <3>2, NilAssumption DEF IInv, RequestInv, Statuses, Receipts
    <3>6. \A q \in Requests : status'[q] = "DEDUP_REPLAY" =>
             status[q] = "DEDUP_REPLAY" /\ wseq'[q] = wseq[q] /\ cmd'[q] = cmd[q]
      <4>1. CASE SubmitRefused(r, c)
        <5>1. Finish(r, "NOT_ACCEPTED", Nil) \/ Finish(r, "OVERLOADED", Nil)
          BY <4>1 DEF SubmitRefused
        <5> QED BY <1>0, <3>3, <5>1, OtherAnswers
      <4>2. CASE SubmitAdmitted(r, c)
        BY <3>3, <3>5, <4>2 DEF SubmitAdmitted
      <4> QED BY <3>1, <4>1, <4>2
    <3> QED BY <3>2, <3>4, <3>6 DEF MemoryQuiet
  <2> QED BY <2>1, <2>2, <2>3
<1>2. CASE CommitFails
  <2>1. MemoryQuiet
    BY <1>2 DEF CommitFails, FailBeforeWal, FailBeforeWalLegacy, WriteWalFails, FsyncWalFails,
       PublishBatchFails, FailAroundSwap, Poison, MemoryQuiet
  <2> QED BY <1>0, <2>1, QuietKeepsMemory
<1>3. CASE \/ DrainEnd \/ PrepareOne \/ NothingToPublish \/ NothingToWriteLegacy \/ Swap
           \/ FinishReceipt
  BY <1>0, <1>3, DrainEndMemory, PrepareOneMemory, NothingMemory, SwapMemory,
     FinishReceiptMemory
<1>4. CASE \/ StartDrain \/ WorkerExit \/ DrainClaim \/ PrepareEnd \/ WriteWal \/ FsyncWal
           \/ PublishBatch \/ StartReceipts \/ BatchEnd \/ SinkRaises \/ PrepareRaises \/ PoisonEnd
  <2>1. MemoryQuiet
    BY <1>4 DEF StartDrain, WorkerExit, DrainClaim, PrepareEnd, WriteWal, MayWrite, FsyncWal,
       PublishBatch, StartReceipts, BatchEnd, SinkRaises, PrepareRaises, PoisonEnd, MemoryQuiet
  <2> QED BY <1>0, <2>1, QuietKeepsMemory
<1>5. CASE DrainCancelled \/ PoisonFinish
  <2>1. PICK r \in Requests, s \in {"NOT_ACCEPTED", "COMMIT_UNKNOWN"} : Finish(r, s, Nil)
    <3>1. CASE DrainCancelled
      <4>1. Head(queue) \in Requests /\ Finish(Head(queue), "NOT_ACCEPTED", Nil)
        BY <1>0, <3>1, TicketTypes, HeadTail DEF DrainCancelled, MoreToDrain
      <4> QED BY <4>1
    <3>2. CASE PoisonFinish
      <4>1. todo \in Seq(Requests) /\ todo # <<>>
        BY <1>0, <3>2 DEF PoisonFinish, TypeOK
      <4>2. /\ Head(todo) \in Requests
            /\ poisonAs \in {"NOT_ACCEPTED", "COMMIT_UNKNOWN"}
            /\ Finish(Head(todo),
                      IF state[Head(todo)] = "CLAIMED" THEN poisonAs ELSE "NOT_ACCEPTED", Nil)
        BY <1>0, <3>2, <4>1, HeadTail DEF PoisonFinish, TypeOK
      <4> QED BY <4>2
    <3> QED BY <1>5, <3>1, <3>2
  <2>2. /\ UNCHANGED <<snap, cmd, plan, batch, pc>> /\ pc \in {"draining", "poisoning"}
    BY <1>5 DEF DrainCancelled, PoisonFinish
  <2>3. \A q \in Requests : status'[q] = "DEDUP_REPLAY" =>
           status[q] = "DEDUP_REPLAY" /\ wseq'[q] = wseq[q] /\ cmd'[q] = cmd[q]
    BY <1>0, <2>1, <2>2, OtherAnswers
  <2>4. MemoryQuiet
    BY <2>2, <2>3 DEF MemoryQuiet
  <2> QED BY <1>0, <2>4, QuietKeepsMemory
<1>6. CASE Lifecycle
  <2>1. MemoryQuiet
    BY <1>6 DEF Lifecycle, LifecycleEnd, CloseBegin, FenceBegin, RotationNotNeeded,
       RotationBegin, CompactionBegin, CloseEnd, FenceEnd, RotationEnd, CompactionEnd,
       JoinTimeout, AwaitFencedShutdown, BeginFence, LifecycleReturns, MemoryQuiet
  <2> QED BY <1>0, <2>1, QuietKeepsMemory
<1>7. CASE UNCHANGED vars
  <2>1. MemoryQuiet
    BY <1>7 DEF vars, MemoryQuiet
  <2> QED BY <1>0, <2>1, QuietKeepsMemory
<1> QED BY <1>1, <1>2, <1>3, <1>4, <1>5, <1>6, <1>7 DEF Next, Worker

(* What the writer remembers of an operation is always a frame it really wrote or is about    *)
(* to write (TxIdIndex.record in prepare_batch, carried over by the swap).                     *)
THEOREM MemoryInvariant == Spec => []MemoryInv
<1>1. IInv /\ MemoryInv /\ [Next]_vars => MemoryInv'
  BY NextMemory
<1> QED BY <1>1, InitMemory, Invariant, PTL DEF Spec

(* A retry answered DEDUP_REPLAY points at the write it repeats, durable and visible, or at *)
(* an entry of the base, however batches, faults and retries interleave.                     *)
THEOREM ReplayDurable == Spec => []ReplayIsDurable
<1>1. MemoryInv => ReplayIsDurable
  BY DEF MemoryInv, ReplayKnown
<1> QED BY <1>1, MemoryInvariant, PTL

(* Readers never see an older snapshot: the seq and each fact's version only grow, and an    *)
(* operation once remembered is never forgotten or rewritten.                                *)
THEOREM SnapshotMonotone == Spec => SnapshotAdvances
<1> DEFINE Advance ==
        /\ snap'.through >= snap.through
        /\ \A f \in Facts : snap.index[f] # Nil =>
             snap'.index[f] # Nil /\ snap'.index[f].ver >= snap.index[f].ver
        /\ \A o \in OpIds : snap.tx[o] # Nil => snap'.tx[o] = snap.tx[o]
<1>1. IInv /\ MemoryInv /\ [Next]_vars => [Advance]_vars
  <2> SUFFICES ASSUME IInv, MemoryInv, [Next]_vars PROVE Advance
    OBVIOUS
  <2>1. snap.through \in Nat /\ snap'.through \in Nat /\ snap'.through >= snap.through
    BY NextIInv, StepGrows DEF IInv, TypeOK, Grows
  <2>2. \A f \in Facts : snap.index[f] # Nil => snap.index[f].ver \in Nat
    BY MemoryTypes DEF IInv, Indexes, Entry
  <2>3. CASE Swap
    <3>1. snap' = [index |-> plan.index, tx |-> plan.tx, through |-> PlanThrough]
          /\ pc = "published"
      BY <2>3 DEF Swap, CandidateSnapshot
    <3> QED BY <2>1, <3>1 DEF MemoryInv, VersionsRise, PlanMemory, Planning, Visible
  <2>4. CASE ~Swap
    <3>1. UNCHANGED snap
      <4> USE DEF memVars
      <4>1. CASE Client
        BY <4>1 DEF Client, SubmitRefused, SubmitAdmitted, ResultReady, ResultTimeout, Cancel
      <4>2. CASE Worker
        BY <2>4, <4>2 DEF Worker, CommitFails, StartDrain, WorkerExit, DrainCancelled,
           DrainClaim, DrainEnd, PrepareOne, PrepareRaises, PrepareEnd, NothingToPublish,
           NothingToWriteLegacy, WriteWal, FsyncWal, PublishBatch, StartReceipts,
           FinishReceipt, BatchEnd, SinkRaises, PoisonFinish, PoisonEnd, FailBeforeWal,
           FailBeforeWalLegacy, WriteWalFails, FsyncWalFails, PublishBatchFails,
           FailAroundSwap
      <4>3. CASE Lifecycle
        BY <4>3 DEF Lifecycle, LifecycleEnd, CloseBegin, FenceBegin, RotationNotNeeded,
           RotationBegin, CompactionBegin, CloseEnd, FenceEnd, RotationEnd, CompactionEnd,
           JoinTimeout, AwaitFencedShutdown, BeginFence, LifecycleReturns
      <4>4. CASE UNCHANGED vars
        BY <4>4 DEF vars
      <4> QED BY <4>1, <4>2, <4>3, <4>4 DEF Next
    <3> QED BY <2>1, <2>2, <3>1
  <2> QED BY <2>3, <2>4
<1>2. Spec => [][Advance]_vars
  BY <1>1, Invariant, MemoryInvariant, PTL DEF Spec
<1> QED BY <1>2 DEF SnapshotAdvances

-----------------------------------------------------------------------------
(* Writer and reducer.  The reducer runs to the end of the file, and of the plan about to be    *)
(* written; at the visible seq it is the snapshot, at the end of the plan it is the plan.   *)

Coming == IF pc \in Planned THEN wal \o plan.frames ELSE wal

Unswapped == Planning \ Visible

Start == ReducerInit(FirstSeq - 1, 0)

Follows(g) ==
    /\ Accepts(Start, Coming, g)
    /\ g[Pos(snap.through)].index = snap.index /\ g[Pos(snap.through)].tx = snap.tx
    /\ pc \in Unswapped =>
         g[Pos(PlanThrough)].index = plan.index /\ g[Pos(PlanThrough)].tx = plan.tx

ReplayInv == \E g : Follows(g)

(* The reducer that has read nothing stands before the first seq. *)
LEMMA StartFacts ==
    /\ Start \in Running /\ Start.last = FirstSeq - 1 /\ FirstSeq - 1 \in Nat
    /\ Start.index = EmptyIndex /\ Start.tx = EmptyTx
<1>1. FirstSeq - 1 \in Nat /\ 0 \in Nat
  BY GroupCommitAssumption
<1> QED BY <1>1, StartType DEF Start

(* An empty file, an empty snapshot, a reducer that has read nothing. *)
LEMMA InitReplay == Init => ReplayInv
<1> SUFFICES ASSUME Init PROVE ReplayInv
  OBVIOUS
<1> DEFINE g == [k \in Nat |-> Start]
<1>1. g \in [Nat -> Running] /\ Start \in Running
  BY StartFacts
<1>2. Pos(FirstSeq - 1) = 0 /\ g[0] = Start
  BY GroupCommitAssumption DEF Pos
<1>3. Start.index = EmptyIndex /\ Start.tx = EmptyTx
  BY StartFacts
<1>4. /\ wal = <<>> /\ pc = "idle" /\ snap.through = FirstSeq - 1
      /\ snap.index = EmptyIndex /\ snap.tx = EmptyTx
  BY DEF Init
<1>5. Coming = <<>> /\ pc \notin Unswapped
  BY <1>4 DEF Coming, Planned, Unswapped, Planning
<1> HIDE DEF g
<1>6. Accepts(Start, Coming, g)
  BY <1>1, <1>2, <1>5 DEF Accepts
<1>7. Follows(g)
  BY <1>2, <1>3, <1>4, <1>5, <1>6 DEF Follows
<1> QED BY <1>7 DEF ReplayInv

(* The frames that are in the file or about to be: their types and their end. *)
LEMMA ComingFacts ==
    ASSUME IInv
    PROVE  /\ Coming \in Seq(Frame) /\ wal \in Seq(Frame) /\ plan.frames \in Seq(Frame)
           /\ DOMAIN wal \subseteq DOMAIN Coming /\ \A k \in DOMAIN wal : Coming[k] = wal[k]
           /\ Pos(snap.through) \in 0..Len(wal)
           /\ pc \in Planned => Coming = wal \o plan.frames /\ Len(Coming) = Pos(PlanThrough)
           /\ pc \in Planned => Len(wal) = Pos(plan.source) /\ plan.source = snap.through
<1>1. /\ wal \in Seq(Frame) /\ plan.frames \in Seq(Frame) /\ snap.through \in Nat
      /\ plan.source \in Nat /\ synced \in Nat
  BY MemoryTypes DEF IInv
<1>2. Coming \in Seq(Frame)
  BY <1>1 DEF Coming
<1>3. DOMAIN wal \subseteq DOMAIN Coming /\ \A k \in DOMAIN wal : Coming[k] = wal[k]
  BY <1>1, FileGrows DEF Coming
<1>4. Pos(snap.through) \in 0..Len(wal)
  <2>1. Pos(snap.through) <= synced /\ synced <= Len(wal) /\ FirstSeq - 1 <= snap.through
    BY DEF IInv, DiskInv
  <2> QED BY <1>1, <2>1, GroupCommitAssumption DEF Pos
<1>5. ASSUME pc \in Planned
      PROVE  /\ Coming = wal \o plan.frames /\ Len(Coming) = Pos(PlanThrough)
             /\ Len(wal) = Pos(plan.source) /\ plan.source = snap.through
  <2>1. ~poisoned /\ Len(wal) = Pos(snap.through) /\ plan.source = snap.through
    BY <1>5 DEF IInv, ListInv, DiskInv, Planned, Before, Planning, Visible
  <2>2. Coming = wal \o plan.frames /\ Len(Coming) = Len(wal) + Len(plan.frames)
    BY <1>1, <1>5, ConcatParts DEF Coming
  <2>3. Pos(plan.source + Len(plan.frames)) = Pos(plan.source) + Len(plan.frames)
    BY <1>1, GroupCommitAssumption DEF Pos
  <2> QED BY <2>1, <2>2, <2>3 DEF PlanThrough
<1> QED BY <1>1, <1>2, <1>3, <1>4, <1>5

(* A step that shows nothing new and brings no new frame: it may write the planned frames, *)
(* or the first of them, or drop the plan.                                                  *)
ReplayQuiet ==
    /\ UNCHANGED snap
    /\ DOMAIN Coming' \subseteq DOMAIN Coming
    /\ \A k \in DOMAIN Coming' : Coming'[k] = Coming[k]
    /\ pc' \in Unswapped =>
         /\ pc \in Unswapped /\ PlanThrough' = PlanThrough
         /\ plan'.index = plan.index /\ plan'.tx = plan.tx

LEMMA QuietKeepsReplay ==
    ASSUME ReplayInv, ReplayQuiet
    PROVE  ReplayInv'
<1>1. PICK g : Follows(g)
  BY DEF ReplayInv
<1>2. Accepts(Start, Coming', g)
  BY <1>1 DEF Follows, Accepts, ReplayQuiet
<1>3. Follows(g)'
  BY <1>1, <1>2 DEF Follows, ReplayQuiet, Pos
<1> QED BY <1>3 DEF ReplayInv

(* A step that leaves the file, the snapshot and the plan alone. *)
LEMMA NothingMoves ==
    ASSUME IInv, UNCHANGED <<wal, snap, plan>>,
           pc' = pc \/ pc' \notin Planning \/ (pc \in Planned /\ pc' \in Planned)
              \/ (pc \notin Planned /\ pc \in Unswapped /\ pc' \notin Planned)
    PROVE  ReplayQuiet
<1>1. pc' \in Planned => pc \in Planned
  BY DEF Planning, Planned
<1>2. pc' \in Unswapped => pc \in Unswapped
  BY DEF Unswapped, Planning, Visible, Planned
<1>3. Coming' = Coming \/ Coming' = wal
  BY <1>1 DEF Coming
<1>4. DOMAIN Coming' \subseteq DOMAIN Coming /\ \A k \in DOMAIN Coming' : Coming'[k] = Coming[k]
  BY <1>3, ComingFacts
<1> QED BY <1>2, <1>4 DEF ReplayQuiet, PlanThrough

(* The plan starts where the snapshot stands. *)
LEMMA DrainEndReplay ==
    ASSUME IInv, ReplayInv, DrainEnd
    PROVE  ReplayInv'
<1>1. /\ pc = "draining" /\ pc' \in {"idle", "prepare"}
      /\ plan' = [source |-> snap.through, frames |-> <<>>, receipts |-> <<>>,
                  index |-> snap.index, tx |-> snap.tx]
      /\ UNCHANGED <<snap, wal>>
  BY DEF DrainEnd, memVars, diskVars
<1>2. PICK g : Follows(g)
  BY DEF ReplayInv
<1>3. wal \in Seq(Frame) /\ wal \o <<>> = wal /\ Coming = wal
  BY <1>1, ComingFacts DEF Coming, Planned
<1>4. Coming' = wal
  BY <1>1, <1>3 DEF Coming
<1>5. PlanThrough' = snap.through
  <2>1. snap.through \in Nat
    BY DEF IInv, TypeOK
  <2> QED BY <1>1, <2>1 DEF PlanThrough
<1>6. plan'.index = snap.index /\ plan'.tx = snap.tx
  BY <1>1
<1>7. Follows(g)'
  BY <1>1, <1>2, <1>3, <1>4, <1>5, <1>6 DEF Follows, Pos
<1> QED BY <1>7 DEF ReplayInv

(* A command that does not apply leaves the plan's frames and memory as they were. *)
LEMMA PrepareRefusedReplay ==
    ASSUME IInv, PrepareOne, UNCHANGED <<plan.source, plan.frames, plan.index, plan.tx>>
    PROVE  ReplayQuiet
<1>1. pc = "prepare" /\ pc' = "prepare" /\ UNCHANGED <<snap, wal>>
  BY DEF PrepareOne, memVars, diskVars
<1>2. Coming' = Coming /\ PlanThrough' = PlanThrough
  BY <1>1 DEF Coming, PlanThrough
<1> QED BY <1>1, <1>2 DEF ReplayQuiet

(* One more element at the end of a concatenation. *)
LEMMA AppendLast ==
    ASSUME NEW S, NEW a \in Seq(S), NEW b \in Seq(S), NEW e \in S
    PROVE  a \o Append(b, e) = Append(a \o b, e)
OBVIOUS

(* A command that applies is one more frame, and the reducer takes it. *)
LEMMA PrepareAppliedReplay ==
    ASSUME IInv, ReplayInv, pc = "prepare", pc' = pc, UNCHANGED <<snap, wal>>,
           NEW fr \in Frame, fr.seq = PlanThrough + 1,
           Decide(plan.index, plan.tx, fr.cmd) = "APPLIED",
           plan'.source = plan.source, plan'.frames = Append(plan.frames, fr),
           plan'.index = ApplyIndex(plan.index, fr.cmd),
           plan'.tx = RecordTx(plan.tx, fr.cmd, fr.seq)
    PROVE  ReplayInv'
<1>1. PICK g : Follows(g)
  BY DEF ReplayInv
<1> DEFINE n == Len(Coming)
<1>2. /\ Coming \in Seq(Frame) /\ wal \in Seq(Frame) /\ plan.frames \in Seq(Frame)
      /\ n \in Nat /\ Coming = wal \o plan.frames /\ n = Pos(PlanThrough)
      /\ Pos(snap.through) \in 0..Len(wal) /\ DOMAIN wal \subseteq DOMAIN Coming
  BY ComingFacts DEF Planned
<1>3. Coming' = Append(Coming, fr)
  <2>1. Coming' = wal \o Append(plan.frames, fr)
    BY DEF Coming, Planned
  <2>2. wal \o Append(plan.frames, fr) = Append(wal \o plan.frames, fr)
    <3> DEFINE a == wal
               b == plan.frames
    <3>1. a \in Seq(Frame) /\ b \in Seq(Frame) /\ fr \in Frame
      BY <1>2
    <3> HIDE DEF a, b
    <3>2. a \o Append(b, fr) = Append(a \o b, fr)
      BY <3>1, AppendLast
    <3> QED BY <3>2 DEF a, b
  <2> QED BY <1>2, <2>1, <2>2, Zenon
<1>4. g[n].index = plan.index /\ g[n].tx = plan.tx
  BY <1>1, <1>2 DEF Follows, Unswapped, Planning, Visible
<1>5. PlanThrough' = PlanThrough + 1 /\ Pos(PlanThrough') = n + 1 /\ PlanThrough \in Nat
      /\ fr.seq = Start.last + (n + 1)
  <2>1. plan.source \in Nat
    BY MemoryTypes DEF IInv
  <2>2. PlanThrough' = PlanThrough + 1 /\ PlanThrough \in Nat
    BY <1>2, <2>1 DEF PlanThrough
  <2>3. PlanThrough = FirstSeq - 1 + n
    BY <1>2, <2>2, GroupCommitAssumption DEF Pos
  <2> QED BY <1>2, <2>2, <2>3, StartFacts, GroupCommitAssumption DEF Pos
<1>6. fr.cmd \in Command
  BY GroupCommitAssumption DEF Frame
<1>7. Accepts(Start, Coming, g) /\ Decide(g[n].index, g[n].tx, fr.cmd) = "APPLIED"
  BY <1>1, <1>4 DEF Follows
<1>8. PICK h : /\ Accepts(Start, Append(Coming, fr), h)
               /\ \A k \in 0..n : h[k] = g[k]
               /\ h[n + 1].index = ApplyIndex(g[n].index, fr.cmd)
               /\ h[n + 1].tx = RecordTx(g[n].tx, fr.cmd, fr.seq)
  <2> DEFINE w == Coming
             start == Start
  <2>1. /\ w \in Seq(Frame) /\ Accepts(start, w, g) /\ fr.seq = start.last + (Len(w) + 1)
        /\ Decide(g[Len(w)].index, g[Len(w)].tx, fr.cmd) = "APPLIED"
    BY <1>2, <1>5, <1>7
  <2> HIDE DEF w, start
  <2>2. \E h : /\ Accepts(start, Append(w, fr), h)
               /\ \A k \in 0..Len(w) : h[k] = g[k]
               /\ h[Len(w) + 1].index = ApplyIndex(g[Len(w)].index, fr.cmd)
               /\ h[Len(w) + 1].tx = RecordTx(g[Len(w)].tx, fr.cmd, fr.seq)
    BY <1>6, <2>1, TraceGrows
  <2> QED BY <2>2 DEF w, start
<1>9. Follows(h)'
  <2>1. Pos(snap.through) \in 0..n
    BY <1>2, ConcatParts
  <2>2. h[Pos(snap.through)].index = snap.index /\ h[Pos(snap.through)].tx = snap.tx
    BY <1>1, <1>8, <2>1 DEF Follows
  <2>3. h[Pos(PlanThrough')].index = plan'.index /\ h[Pos(PlanThrough')].tx = plan'.tx
    BY <1>4, <1>5, <1>8
  <2>4. Accepts(Start, Coming', h)
    BY <1>3, <1>8
  <2> QED BY <2>2, <2>3, <2>4 DEF Follows, Pos
<1> QED BY <1>9 DEF ReplayInv

(* One command of the batch, applied or not. *)
LEMMA PrepareOneReplay ==
    ASSUME IInv, ReplayInv, PrepareOne
    PROVE  ReplayInv'
<1> DEFINE i == Len(plan.receipts) + 1
           r == batch[i]
           c == cmd[r]
           s == Decide(plan.index, plan.tx, c)
           n == plan.source + Len(plan.frames) + 1
           fr == [req |-> r, cmd |-> c, seq |-> n]
<1>1. /\ pc = "prepare" /\ pc' = pc /\ Len(plan.receipts) < Len(batch)
      /\ UNCHANGED <<snap, wal>>
  BY DEF PrepareOne, memVars, diskVars
<1>2. /\ plan \in Plan /\ plan.source \in Nat /\ plan.frames \in Seq(Frame)
      /\ plan.receipts \in Seq(Receipt) /\ batch \in Seq(Requests)
  BY MemoryTypes DEF IInv, TypeOK
<1>3. i \in DOMAIN batch /\ r \in Requests /\ c \in Commands
  <2>1. i \in DOMAIN batch /\ r \in Requests
    BY <1>1, <1>2
  <2>2. state[r] # "NEW"
    BY <2>1 DEF IInv, ListInv
  <2> QED BY <2>1, <2>2 DEF IInv, RequestInv
<1>4. fr \in Frame /\ n \in Nat
  BY <1>2, <1>3 DEF Frame
<1>5. CASE s = "APPLIED"
  <2>1. plan' = [plan EXCEPT !.receipts = Append(@, [status |-> s, seq |-> n]),
                             !.frames = Append(@, fr),
                             !.index = ApplyIndex(@, c), !.tx = RecordTx(@, c, n)]
    BY <1>5 DEF PrepareOne, Preparing
  <2>2. /\ plan'.source = plan.source /\ plan'.frames = Append(plan.frames, fr)
        /\ plan'.index = ApplyIndex(plan.index, c) /\ plan'.tx = RecordTx(plan.tx, c, n)
    BY <1>2, <2>1 DEF Plan
  <2>3. fr.cmd = c /\ fr.seq = n /\ fr.seq = PlanThrough + 1
    BY DEF PlanThrough
  <2> QED BY <1>1, <1>4, <1>5, <2>2, <2>3, PrepareAppliedReplay
<1>6. CASE s # "APPLIED"
  <2>1. PICK d : plan' = [plan EXCEPT !.receipts = Append(@, [status |-> s, seq |-> d])]
    BY <1>6 DEF PrepareOne, Preparing
  <2>2. UNCHANGED <<plan.source, plan.frames, plan.index, plan.tx>>
    BY <1>2, <2>1 DEF Plan
  <2> QED BY <2>2, PrepareRefusedReplay, QuietKeepsReplay
<1> QED BY <1>5, <1>6

(* The swap shows the end of the plan. *)
LEMMA SwapReplay ==
    ASSUME IInv, ReplayInv, Swap
    PROVE  ReplayInv'
<1>1. /\ pc = "published" /\ pc' = "swapped" /\ UNCHANGED wal
      /\ snap' = [index |-> plan.index, tx |-> plan.tx, through |-> PlanThrough]
  BY DEF Swap, CandidateSnapshot, diskVars
<1>2. PICK g : Follows(g)
  BY DEF ReplayInv
<1>3. Coming' = Coming /\ pc \in Unswapped /\ pc' \notin Unswapped
  BY <1>1 DEF Coming, Planned, Unswapped, Planning, Visible
<1>4. snap'.through = PlanThrough /\ snap'.index = plan.index /\ snap'.tx = plan.tx
  BY <1>1
<1>5. Follows(g)'
  BY <1>2, <1>3, <1>4 DEF Follows, Pos
<1> QED BY <1>5 DEF ReplayInv

(* Each write, whole or cut, is of frames that were already counted as coming. *)
LEMMA WriteReplay ==
    ASSUME IInv, WriteWal \/ WriteWalFails
    PROVE  ReplayQuiet
<1>1. pc = "planned" /\ UNCHANGED snap
  BY DEF WriteWal, WriteWalFails, MayWrite, memVars
<1>2. /\ wal \in Seq(Frame) /\ plan.frames \in Seq(Frame) /\ Coming = wal \o plan.frames
  BY <1>1, ComingFacts DEF Planned
<1>3. CASE WriteWal
  <2>1. wal' = wal \o plan.frames /\ pc' = "written" /\ UNCHANGED plan
    BY <1>3 DEF WriteWal, workVars
  <2>2. Coming' = Coming
    BY <1>2, <2>1 DEF Coming, Planned
  <2>3. PlanThrough' = PlanThrough /\ pc \in Unswapped
    BY <1>1, <2>1 DEF PlanThrough, Unswapped, Planning, Visible
  <2> QED BY <1>1, <2>1, <2>2, <2>3 DEF ReplayQuiet
<1>4. CASE WriteWalFails
  <2>1. PICK k \in 0..Len(plan.frames) : wal' = wal \o SubSeq(plan.frames, 1, k)
    BY <1>4 DEF WriteWalFails
  <2>2. pc' = "poisoning"
    BY <1>4 DEF WriteWalFails, Poison
  <2>3. Coming' = wal \o SubSeq(plan.frames, 1, k) /\ pc' \notin Unswapped
    BY <2>1, <2>2 DEF Coming, Planned, Unswapped, Planning
  <2>4. \A j \in DOMAIN (wal \o SubSeq(plan.frames, 1, k)) :
            /\ j \in DOMAIN (wal \o plan.frames)
            /\ (wal \o SubSeq(plan.frames, 1, k))[j] = (wal \o plan.frames)[j]
    BY <1>2, <2>1
  <2> QED BY <1>1, <1>2, <2>3, <2>4 DEF ReplayQuiet
<1> QED BY <1>3, <1>4

(* Nothing applied: the answers follow without a write. *)
LEMMA NothingReplay ==
    ASSUME IInv, ReplayInv, NothingToPublish \/ NothingToWriteLegacy
    PROVE  ReplayQuiet
<1>1. /\ pc = "planned" /\ pc' \in Visible /\ UNCHANGED <<snap, wal, plan>>
  BY DEF NothingToPublish, NothingToWriteLegacy, Visible, memVars, diskVars, workVars
<1>2. Coming' = wal /\ pc' \notin Unswapped
  BY <1>1 DEF Coming, Planned, Unswapped, Visible
<1> QED BY <1>1, <1>2, ComingFacts DEF ReplayQuiet

(* Each action keeps the writer and the reducer together. *)
LEMMA NextReplay ==
    ASSUME IInv, ReplayInv, [Next]_vars
    PROVE  ReplayInv'
<1> USE DEF memVars, workVars, diskVars
<1>1. CASE Client
  <2>1. UNCHANGED <<wal, snap, plan, pc>>
    BY <1>1 DEF Client, SubmitRefused, SubmitAdmitted, ResultReady, ResultTimeout, Cancel
  <2> QED BY <2>1, NothingMoves, QuietKeepsReplay
<1>2. CASE WriteWal \/ WriteWalFails \/ NothingToPublish \/ NothingToWriteLegacy
  BY <1>2, WriteReplay, NothingReplay, QuietKeepsReplay
<1>3. CASE DrainEnd \/ PrepareOne \/ Swap
  BY <1>3, DrainEndReplay, PrepareOneReplay, SwapReplay
<1>4. CASE FailBeforeWal \/ FailBeforeWalLegacy \/ FsyncWalFails \/ PublishBatchFails
           \/ FailAroundSwap
  <2>1. pc' = "poisoning" /\ UNCHANGED <<wal, snap, plan>>
    BY <1>4 DEF FailBeforeWal, FailBeforeWalLegacy, FsyncWalFails, PublishBatchFails,
       FailAroundSwap, Poison
  <2>2. pc' \notin Planning
    BY <2>1 DEF Planning
  <2> QED BY <2>1, <2>2, NothingMoves, QuietKeepsReplay
<1>5. CASE StartDrain \/ WorkerExit \/ DrainCancelled \/ DrainClaim \/ PoisonFinish \/ PoisonEnd
           \/ FinishReceipt
  <2>1. UNCHANGED <<wal, snap, plan>> /\ (pc' = pc \/ pc' \notin Planning)
    BY <1>5 DEF StartDrain, WorkerExit, DrainCancelled, DrainClaim, PoisonFinish, PoisonEnd,
       FinishReceipt, Planning
  <2> QED BY <2>1, NothingMoves, QuietKeepsReplay
<1>6. CASE PrepareEnd
  <2>1. UNCHANGED <<wal, snap, plan>> /\ pc \in Planned /\ pc' \in Planned
    BY <1>6 DEF PrepareEnd, Planned
  <2> QED BY <2>1, NothingMoves, QuietKeepsReplay
<1>7. CASE FsyncWal \/ PublishBatch \/ StartReceipts
  <2>1. UNCHANGED <<wal, snap, plan>>
    BY <1>7 DEF FsyncWal, PublishBatch, StartReceipts
  <2>2. pc \notin Planned /\ pc' \notin Planned /\ (pc' \in Unswapped => pc \in Unswapped)
    BY <1>7 DEF FsyncWal, PublishBatch, StartReceipts, Planned, Unswapped, Planning, Visible
  <2>3. Coming' = Coming /\ PlanThrough' = PlanThrough
    BY <2>1, <2>2 DEF Coming, PlanThrough
  <2>4. ReplayQuiet
    BY <2>1, <2>2, <2>3 DEF ReplayQuiet
  <2> QED BY <2>4, QuietKeepsReplay
<1>8. CASE BatchEnd \/ SinkRaises \/ PrepareRaises
  <2>1. UNCHANGED <<wal, snap>> /\ pc \in {"prepare", "receipts"} /\ pc' \in {"idle", "died"}
    BY <1>8 DEF BatchEnd, SinkRaises, PrepareRaises
  <2>2. Coming' = wal /\ pc' \notin Unswapped
    BY <2>1 DEF Coming, Planned, Unswapped, Planning
  <2>3. ReplayQuiet
    BY <2>1, <2>2, ComingFacts DEF ReplayQuiet
  <2> QED BY <2>3, QuietKeepsReplay
<1>9. CASE Lifecycle
  <2>1. UNCHANGED <<wal, snap, plan, pc>>
    BY <1>9 DEF Lifecycle, LifecycleEnd, CloseBegin, FenceBegin, RotationNotNeeded,
       RotationBegin, CompactionBegin, CloseEnd, FenceEnd, RotationEnd, CompactionEnd,
       JoinTimeout, AwaitFencedShutdown, BeginFence, LifecycleReturns
  <2> QED BY <2>1, NothingMoves, QuietKeepsReplay
<1>10. CASE UNCHANGED vars
  <2>1. UNCHANGED <<wal, snap, plan, pc>>
    BY <1>10 DEF vars
  <2> QED BY <2>1, NothingMoves, QuietKeepsReplay
<1> QED BY <1>1, <1>2, <1>3, <1>4, <1>5, <1>6, <1>7, <1>8, <1>9, <1>10
        DEF Next, Worker, CommitFails

(* Reading the file back, up to the visible seq, rebuilds what the writer shows; and whatever  *)
(* a batch, a fault or a cut write left in the file, the reducer accepts all of it: ingress     *)
(* never writes a history that recovery would refuse.                                           *)
THEOREM ReplaysAgree == Spec => []ReplayAgrees
<1>1. IInv /\ ReplayInv /\ [Next]_vars => ReplayInv'
  BY NextReplay
<1>2. IInv /\ ReplayInv => ReplayAgrees
  <2> SUFFICES ASSUME IInv, ReplayInv PROVE ReplayAgrees
    OBVIOUS
  <2>1. PICK g : Follows(g)
    BY DEF ReplayInv
  <2>2. wal \in Seq(Frame) /\ Pos(snap.through) \in 0..Len(wal) /\ snap.through \in Nat
    BY ComingFacts DEF IInv, TypeOK
  <2>3. Accepts(Start, wal, g)
    BY <2>1, ComingFacts DEF Follows, Accepts
  <2>4. ReduceFrames(wal, snap.through, FirstSeq - 1) = g[Pos(snap.through)]
    <3> DEFINE from == FirstSeq - 1
               m == Pos(snap.through)
    <3>1. from \in Nat /\ m \in Nat /\ from + m = snap.through /\ m <= Len(wal)
          /\ Accepts(ReducerInit(from, 0), wal, g)
      BY <2>2, <2>3, GroupCommitAssumption DEF Pos, Start
    <3> HIDE DEF from, m
    <3>2. ReduceFrames(wal, from + m, from) = g[m]
      BY <2>2, <3>1, ReduceAccepted
    <3> QED BY <3>1, <3>2 DEF from, m
  <2>5. ReduceFrames(wal, FirstSeq + Len(wal), FirstSeq - 1) = g[Len(wal)]
    <3> DEFINE from == FirstSeq - 1
               m == Len(wal) + 1
    <3>1. from \in Nat /\ m \in Nat /\ from + m = FirstSeq + Len(wal) /\ ~(m <= Len(wal))
          /\ Accepts(ReducerInit(from, 0), wal, g)
      BY <2>2, <2>3, GroupCommitAssumption DEF Start
    <3> HIDE DEF from, m
    <3>2. ReduceFrames(wal, from + m, from) = g[Len(wal)]
      BY <2>2, <3>1, ReduceAccepted
    <3> QED BY <3>1, <3>2 DEF from, m
  <2>6. /\ g[Pos(snap.through)].class = "OK" /\ g[Len(wal)].class = "OK"
        /\ g[Pos(snap.through)].last = snap.through
    <3>1. /\ g[Pos(snap.through)] \in Running
          /\ g[Pos(snap.through)].last = Start.last + Pos(snap.through)
      BY <2>2, <2>3, LastAlong
    <3>2. g[Len(wal)] \in Running
      <4>1. Len(wal) \in Nat
        BY <2>2
      <4> QED BY <2>3, <4>1 DEF Accepts
    <3>3. Start.last + Pos(snap.through) = snap.through
      BY <2>2, StartFacts, GroupCommitAssumption DEF Pos
    <3> QED BY <3>1, <3>2, <3>3 DEF Running
  <2>7. g[Pos(snap.through)].index = snap.index /\ g[Pos(snap.through)].tx = snap.tx
    BY <2>1 DEF Follows
  <2> QED BY <2>4, <2>5, <2>6, <2>7 DEF ReplayAgrees
<1> QED BY <1>1, <1>2, InitReplay, Invariant, PTL DEF Spec

-----------------------------------------------------------------------------
(* The store implements MemoryLog.  A batch takes effect when CURRENT is replaced, in a      *)
(* legacy writer when its frames are in the file; it is stable once swapped, and acknowledged *)
(* by its answers.  For this, a batch keeps its limit and every frame carries the command of   *)
(* its request.                                                                                *)

CarriesCommand(s) == \A k \in DOMAIN s : s[k].cmd = cmd[s[k].req]

BatchInv ==
    /\ Len(batch) <= MaxBatchCommands
    /\ CarriesCommand(wal)
    /\ pc \in Planning =>
         Len(plan.frames) <= Len(plan.receipts) /\ CarriesCommand(plan.frames)

LEMMA InitBatch == Init => BatchInv
BY GroupCommitAssumption DEF Init, BatchInv, CarriesCommand, Planning

(* A step that writes and plans nothing: it may empty the batch, and give a command to a *)
(* request that had none.                                                               *)
BatchQuiet ==
    /\ UNCHANGED wal
    /\ batch' \in {batch, <<>>}
    /\ \A r \in Requests : state[r] # "NEW" => cmd'[r] = cmd[r]
    /\ pc' \in Planning => pc \in Planning /\ UNCHANGED plan

LEMMA QuietKeepsBatch ==
    ASSUME IInv, BatchInv, BatchQuiet
    PROVE  BatchInv'
<1>1. Len(batch') <= MaxBatchCommands
  BY GroupCommitAssumption DEF BatchInv, BatchQuiet
<1>2. CarriesCommand(wal)'
  BY TicketTypes DEF IInv, FileInv, BatchInv, BatchQuiet, CarriesCommand
<1>3. ASSUME pc' \in Planning PROVE CarriesCommand(plan.frames)'
  <2>1. \A k \in DOMAIN plan.frames :
          plan.frames[k].req \in Requests /\ state[plan.frames[k].req] # "NEW"
    BY <1>3, TicketTypes DEF IInv, PlanInv, ListInv, BatchQuiet
  <2> QED BY <1>3, <2>1 DEF BatchInv, BatchQuiet, CarriesCommand
<1> QED BY <1>1, <1>2, <1>3 DEF BatchInv, BatchQuiet

(* One command joins the plan: with a receipt always, with a frame when it applies. *)
LEMMA PrepareOneBatch ==
    ASSUME IInv, BatchInv, PrepareOne
    PROVE  BatchInv'
<1> DEFINE r == batch[Len(plan.receipts) + 1]
           c == cmd[r]
           s == Decide(plan.index, plan.tx, c)
           n == plan.source + Len(plan.frames) + 1
           fr == [req |-> r, cmd |-> c, seq |-> n]
<1>1. pc \in Planning /\ UNCHANGED <<wal, cmd, batch>>
  BY DEF PrepareOne, Planning, diskVars, clientVars
<1>2. /\ plan \in Plan /\ plan.frames \in Seq(Frame) /\ plan.receipts \in Seq(Receipt)
      /\ Len(plan.frames) <= Len(plan.receipts) /\ CarriesCommand(plan.frames)
  BY <1>1, TicketTypes DEF IInv, TypeOK, BatchInv
<1>3. \/ \E d : plan'.receipts = Append(plan.receipts, d)
           /\ plan'.frames = Append(plan.frames, fr)
      \/ \E d : plan'.receipts = Append(plan.receipts, d) /\ plan'.frames = plan.frames
  <2>1. CASE s = "APPLIED"
    <3>1. plan' = [plan EXCEPT !.receipts = Append(@, [status |-> s, seq |-> n]),
                               !.frames = Append(@, fr),
                               !.index = ApplyIndex(@, c), !.tx = RecordTx(@, c, n)]
      BY <2>1 DEF PrepareOne, Preparing
    <3> QED BY <1>2, <3>1 DEF Plan
  <2>2. CASE s # "APPLIED"
    <3>1. PICK d : plan' = [plan EXCEPT !.receipts = Append(@, [status |-> s, seq |-> d])]
      BY <2>2 DEF PrepareOne, Preparing
    <3> QED BY <1>2, <3>1 DEF Plan
  <2> QED BY <2>1, <2>2
<1>4. fr.cmd = cmd[fr.req]
  OBVIOUS
<1> HIDE DEF fr
<1>5. fr \in Frame
  <2>1. Len(plan.receipts) + 1 \in DOMAIN batch /\ batch \in Seq(Requests)
    BY <1>2 DEF PrepareOne, IInv, TypeOK
  <2>2. r \in Requests /\ state[r] # "NEW"
    BY <2>1 DEF IInv, ListInv
  <2>3. c \in Commands /\ n \in Nat
    BY <1>2, <2>2, MemoryTypes DEF IInv, RequestInv
  <2> QED BY <2>2, <2>3 DEF Frame, fr
<1> DEFINE fs == plan.frames
           rs == plan.receipts
<1>6. fs \in Seq(Frame) /\ Len(fs) \in Nat /\ Len(rs) \in Nat /\ Len(fs) <= Len(rs)
  BY <1>2
<1>7. /\ Len(plan'.receipts) = Len(rs) + 1
      /\ plan'.frames = Append(fs, fr) \/ plan'.frames = fs
  BY <1>2, <1>3
<1> HIDE DEF fs, rs
<1>8. /\ Len(plan'.frames) <= Len(plan'.receipts)
      /\ \A k \in DOMAIN plan'.frames :
           (k \in DOMAIN fs /\ plan'.frames[k] = fs[k]) \/ plan'.frames[k] = fr
  <2>1. CASE plan'.frames = fs
    BY <1>6, <1>7, <2>1
  <2>2. CASE plan'.frames = Append(fs, fr)
    BY <1>5, <1>6, <1>7, <2>2, AppendParts
  <2> QED BY <1>7, <2>1, <2>2
<1>9. CarriesCommand(plan.frames)'
  BY <1>1, <1>2, <1>4, <1>8 DEF CarriesCommand, fs
<1> QED BY <1>1, <1>8, <1>9 DEF BatchInv, CarriesCommand

(* The frames written, all of them or the first ones, are the plan's. *)
LEMMA WriteBatch ==
    ASSUME IInv, BatchInv, WriteWal \/ WriteWalFails
    PROVE  /\ BatchInv'
           /\ UNCHANGED <<cmd, status, snap, current>>
           /\ Len(wal') - Len(wal) \in 0..MaxBatchCommands
<1>1. /\ pc = "planned" /\ UNCHANGED <<cmd, batch, snap, plan, status, current>>
      /\ pc' \in {"written", "poisoning"}
  BY DEF WriteWal, WriteWalFails, MayWrite, Poison, memVars, workVars, clientVars
<1>2. wal \in Seq(Frame) /\ plan.frames \in Seq(Frame) /\ Len(plan.frames) \in Nat
  BY TicketTypes DEF IInv
<1>3. /\ CarriesCommand(plan.frames) /\ CarriesCommand(wal)
      /\ Len(plan.frames) <= MaxBatchCommands
  BY <1>1, <1>2, TicketTypes, GroupCommitAssumption
     DEF IInv, PlanInv, BatchInv, Planning
<1> DEFINE fs == plan.frames
<1>4. \E k \in 0..Len(fs) : wal' = wal \o SubSeq(fs, 1, k)
  <2>1. CASE WriteWal
    <3>1. SubSeq(fs, 1, Len(fs)) = fs /\ Len(fs) \in 0..Len(fs)
      BY <1>2
    <3>2. wal' = wal \o fs
      BY <2>1 DEF WriteWal
    <3> QED BY <3>1, <3>2
  <2>2. CASE WriteWalFails
    BY <2>2 DEF WriteWalFails
  <2> QED BY <2>1, <2>2
<1> HIDE DEF fs
<1>5. PICK k \in 0..Len(fs) : wal' = wal \o SubSeq(fs, 1, k)
  BY <1>4
<1>6. fs \in Seq(Frame) /\ Len(fs) \in Nat /\ k \in Nat /\ k <= Len(fs)
  BY <1>2 DEF fs
<1> DEFINE some == SubSeq(fs, 1, k)
<1>7. /\ some \in Seq(Frame) /\ Len(some) = k
      /\ \A i \in DOMAIN some : i \in DOMAIN fs /\ some[i] = fs[i]
  BY <1>6
<1> HIDE DEF some
<1>8. wal' = wal \o some
  BY <1>5 DEF some
<1>9. /\ Len(wal') = Len(wal) + k
      /\ \A i \in DOMAIN wal' :
           \/ i \in DOMAIN wal /\ wal'[i] = wal[i]
           \/ i - Len(wal) \in DOMAIN some /\ wal'[i] = some[i - Len(wal)]
  <2>1. /\ Len(wal \o some) = Len(wal) + Len(some)
        /\ \A i \in DOMAIN (wal \o some) :
             \/ i \in DOMAIN wal /\ (wal \o some)[i] = wal[i]
             \/ i - Len(wal) \in DOMAIN some /\ (wal \o some)[i] = some[i - Len(wal)]
    BY <1>2, <1>7, ConcatParts
  <2> QED BY <1>7, <1>8, <2>1, Zenon
<1>10. CarriesCommand(wal)'
  <2> SUFFICES ASSUME NEW i \in DOMAIN wal' PROVE wal'[i].cmd = cmd[wal'[i].req]
    BY <1>1 DEF CarriesCommand
  <2>1. CASE i \in DOMAIN wal /\ wal'[i] = wal[i]
    BY <1>3, <2>1 DEF CarriesCommand
  <2>2. CASE i - Len(wal) \in DOMAIN some /\ wal'[i] = some[i - Len(wal)]
    BY <1>3, <1>7, <2>2 DEF CarriesCommand, fs
  <2> QED BY <1>9, <2>1, <2>2
<1>11. BatchInv'
  BY <1>1, <1>3, <1>10 DEF BatchInv, CarriesCommand, Planning
<1>12. Len(wal') - Len(wal) \in 0..MaxBatchCommands
  BY <1>2, <1>3, <1>6, <1>9, GroupCommitAssumption DEF fs
<1> QED BY <1>1, <1>11, <1>12

(* Each action keeps the limit and the commands. *)
LEMMA NextBatch ==
    ASSUME IInv, BatchInv, [Next]_vars
    PROVE  BatchInv'
<1> USE DEF diskVars, workVars, clientVars
<1>1. CASE Client
  <2>1. UNCHANGED <<wal, batch, plan, pc>>
    BY <1>1 DEF Client, SubmitRefused, SubmitAdmitted, ResultReady, ResultTimeout, Cancel
  <2>2. \A q \in Requests : state[q] # "NEW" => cmd'[q] = cmd[q]
    <3>1. PICK r \in Requests :
            \/ \E c \in Commands : SubmitRefused(r, c) \/ SubmitAdmitted(r, c)
            \/ ResultReady(r) \/ ResultTimeout(r) \/ Cancel(r)
      BY <1>1 DEF Client
    <3>2. cmd' = cmd \/ (state[r] = "NEW" /\ \E c \in Commands : cmd' = [cmd EXCEPT ![r] = c])
      BY <3>1 DEF SubmitRefused, SubmitAdmitted, ResultReady, ResultTimeout, Cancel
    <3> QED BY <3>2 DEF IInv, TypeOK
  <2> QED BY <2>1, <2>2, QuietKeepsBatch DEF BatchQuiet
<1>2. CASE DrainClaim
  <2>1. /\ batch' = Append(batch, Head(queue)) /\ pc' = "draining"
        /\ Len(batch) < MaxBatchCommands /\ UNCHANGED <<wal, cmd>>
    BY <1>2 DEF DrainClaim, MoreToDrain
  <2>2. batch \in Seq(Requests) /\ Len(batch) \in Nat
    BY DEF IInv, TypeOK
  <2>3. Len(batch') = Len(batch) + 1
    BY <2>1, <2>2
  <2> QED BY <2>1, <2>2, <2>3, GroupCommitAssumption
          DEF BatchInv, CarriesCommand, Planning
<1>3. CASE DrainEnd
  <2>1. /\ plan'.frames = <<>> /\ plan'.receipts = <<>> /\ UNCHANGED <<wal, cmd, batch>>
    BY <1>3 DEF DrainEnd
  <2> QED BY <2>1 DEF BatchInv, CarriesCommand
<1>4. CASE PrepareOne
  BY <1>4, PrepareOneBatch
<1>5. CASE WriteWal \/ WriteWalFails
  BY <1>5, WriteBatch
<1>6. CASE FailBeforeWal \/ FailBeforeWalLegacy \/ FsyncWalFails \/ PublishBatchFails
           \/ FailAroundSwap
  <2>1. pc' = "poisoning" /\ UNCHANGED <<wal, cmd, batch>>
    BY <1>6 DEF FailBeforeWal, FailBeforeWalLegacy, FsyncWalFails, PublishBatchFails,
       FailAroundSwap, Poison
  <2> QED BY <2>1, QuietKeepsBatch DEF BatchQuiet, Planning
<1>7. CASE StartDrain \/ WorkerExit \/ DrainCancelled \/ PoisonFinish \/ PoisonEnd \/ BatchEnd
           \/ SinkRaises \/ PrepareRaises
  <2>1. UNCHANGED <<wal, cmd>> /\ batch' \in {batch, <<>>} /\ pc' \notin Planning
    BY <1>7 DEF StartDrain, WorkerExit, DrainCancelled, PoisonFinish, PoisonEnd, BatchEnd,
       SinkRaises, PrepareRaises, Planning
  <2> QED BY <2>1, QuietKeepsBatch DEF BatchQuiet
<1>8. CASE PrepareEnd \/ NothingToPublish \/ NothingToWriteLegacy \/ FsyncWal \/ PublishBatch
           \/ Swap \/ StartReceipts \/ FinishReceipt
  <2>1. UNCHANGED <<wal, cmd, batch, plan>> /\ pc \in Planning
    BY <1>8 DEF PrepareEnd, NothingToPublish, NothingToWriteLegacy, FsyncWal, PublishBatch,
       Swap, StartReceipts, FinishReceipt, Planning
  <2> QED BY <2>1, QuietKeepsBatch DEF BatchQuiet
<1>9. CASE Lifecycle
  <2>1. UNCHANGED <<wal, cmd, batch, plan, pc>>
    BY <1>9 DEF Lifecycle, LifecycleEnd, CloseBegin, FenceBegin, RotationNotNeeded,
       RotationBegin, CompactionBegin, CloseEnd, FenceEnd, RotationEnd, CompactionEnd,
       JoinTimeout, AwaitFencedShutdown, BeginFence, LifecycleReturns
  <2> QED BY <2>1, QuietKeepsBatch DEF BatchQuiet
<1>10. CASE UNCHANGED vars
  <2>1. UNCHANGED <<wal, cmd, batch, plan, pc>>
    BY <1>10 DEF vars
  <2> QED BY <2>1, QuietKeepsBatch DEF BatchQuiet
<1> QED BY <1>1, <1>2, <1>3, <1>4, <1>5, <1>6, <1>7, <1>8, <1>9, <1>10
        DEF Next, Worker, CommitFails

(* The frames of the file, published or not, carry no operation id twice. *)
FileIdsOnce ==
    \A i, j \in DOMAIN wal : wal[i].cmd.opid = wal[j].cmd.opid => i = j

LEMMA ReplayHasIdsOnce ==
    ASSUME IInv, ReplayInv
    PROVE  FileIdsOnce
<1>1. PICK g : Accepts(Start, Coming, g)
  BY DEF ReplayInv, Follows
<1>2. /\ Coming \in Seq(Frame) /\ wal \in Seq(Frame)
      /\ DOMAIN wal \subseteq DOMAIN Coming /\ \A k \in DOMAIN wal : Coming[k] = wal[k]
  BY ComingFacts
<1>3. ASSUME NEW j \in DOMAIN wal, NEW i \in DOMAIN wal, i < j
      PROVE  wal[i].cmd.opid # wal[j].cmd.opid
  <2>1. j \in DOMAIN Coming /\ i \in 1..(j - 1)
    BY <1>2, <1>3
  <2>2. Coming[i].cmd.opid # Coming[j].cmd.opid
    <3> DEFINE w == Coming
               start == Start
    <3>1. w \in Seq(Frame) /\ Accepts(start, w, g) /\ j \in DOMAIN w /\ Nil \notin TxEntry
      BY <1>1, <1>2, <2>1, GroupCommitAssumption
    <3> HIDE DEF w, start
    <3>2. w[i].cmd.opid # w[j].cmd.opid
      BY <2>1, <3>1, IdsOnce
    <3> QED BY <3>2 DEF w
  <2> QED BY <1>2, <2>2
<1>4. DOMAIN wal = 1..Len(wal) /\ Len(wal) \in Nat
  BY <1>2
<1> QED BY <1>3, <1>4 DEF FileIdsOnce

-----------------------------------------------------------------------------
(* The abstract history, and what each step does to it. *)

Acked == {cmd[r] : r \in {q \in Requests : status[q] = "APPLIED"}}

(* The abstract log and its stable part are beginnings of the file. *)
LogInv ==
    /\ FileIdsOnce
    /\ Committed \in 0..Len(wal)
    /\ Pos(snap.through) \in 0..Committed

LEMMA LogInvHolds ==
    ASSUME IInv, CurrentInv, ReplayInv
    PROVE  LogInv
<1>1. wal \in Seq(Frame) /\ Pos(snap.through) \in 0..Len(wal) /\ FileIdsOnce
  BY ComingFacts, ReplayHasIdsOnce
<1>2. CASE Published
  <2>1. /\ snap.through \in Nat /\ current \in Nat /\ snap.through <= current
        /\ Pos(current) <= synced /\ synced <= Len(wal) /\ synced \in Nat
    BY <1>2 DEF IInv, TypeOK, DiskInv, CurrentInv
  <2> QED BY <1>1, <1>2, <2>1, GroupCommitAssumption DEF LogInv, Committed, Pos
<1>3. CASE ~Published
  BY <1>1, <1>3 DEF LogInv, Committed
<1> QED BY <1>2, <1>3

(* A beginning of the file, as a history. *)
LEMMA HistoryFacts ==
    ASSUME NEW w \in Seq(Frame), NEW n \in 0..Len(w)
    PROVE  LET h == [k \in 1..n |-> w[k].cmd]
           IN  h \in [1..n -> Commands] /\ h \in Seq(Commands) /\ Len(h) = n
<1> DEFINE h == [k \in 1..n |-> w[k].cmd]
<1>1. n \in Nat /\ \A k \in 1..n : w[k] \in Frame
  OBVIOUS
<1>2. \A k \in 1..n : w[k].cmd \in Commands
  BY <1>1 DEF Frame
<1>3. h \in [1..n -> Commands]
  BY <1>2
<1> HIDE DEF h
<1>4. h \in Seq(Commands) /\ Len(h) = n
  BY <1>1, <1>3
<1> QED BY <1>3, <1>4 DEF h

(* A beginning of the file does not change while the file grows. *)
LEMMA HistoryStays ==
    ASSUME IInv, Grows, NEW n \in 0..Len(wal)
    PROVE  [k \in 1..n |-> wal'[k].cmd] = History(n)
<1>1. wal \in Seq(Frame)
  BY DEF IInv, TypeOK
<1>2. \A k \in 1..n : wal'[k] = wal[k]
  BY <1>1 DEF Grows
<1> QED BY <1>2 DEF History

(* A step after which the same is committed, visible and acknowledged. *)
LEMMA StutterStep ==
    ASSUME IInv, LogInv, Grows, Committed' = Committed, UNCHANGED snap, Acked' = Acked
    PROVE  UNCHANGED Abstract!vars
<1>1. Committed \in 0..Len(wal) /\ Pos(snap.through) \in 0..Len(wal)
  BY DEF LogInv, IInv, TypeOK
<1>2. History(Committed)' = History(Committed)
  BY <1>1, HistoryStays DEF History
<1>3. History(Pos(snap.through))' = History(Pos(snap.through))
  BY <1>1, HistoryStays DEF History, Pos
<1> QED BY <1>2, <1>3 DEF Abstract!vars, Acked

(* A step after which some more of the file is committed. *)
LEMMA CommitStep ==
    ASSUME IInv, LogInv, IInv', LogInv', Grows, UNCHANGED <<cmd, status, snap>>,
           Committed' - Committed \in 0..MaxBatchCommands
    PROVE  [Abstract!Next]_(Abstract!vars)
<1>1. Acked' = Acked
  BY DEF Acked
<1>2. CASE Committed' = Committed
  BY <1>1, <1>2, StutterStep
<1>3. CASE Committed' # Committed
  <2> DEFINE c == Committed
             d == Committed'
             n == d - c
             h == [k \in 1..c |-> wal[k].cmd]
             i == [k \in 1..d |-> wal'[k].cmd]
  <2>1. /\ wal \in Seq(Frame) /\ wal' \in Seq(Frame)
        /\ c \in 0..Len(wal) /\ d \in 0..Len(wal') /\ c \in Nat /\ d \in Nat
    BY DEF IInv, TypeOK, LogInv
  <2>2. n \in 1..MaxBatchCommands /\ d = c + n
    <3>1. d # c /\ d - c \in 0..MaxBatchCommands /\ MaxBatchCommands \in Nat
      BY <1>3, GroupCommitAssumption
    <3> HIDE DEF c, d
    <3> QED BY <2>1, <3>1
  <2>3. Len(h) = c /\ DOMAIN h = 1..c
    BY <2>1, HistoryFacts
  <2>4. i \in [1..d -> Commands] /\ DOMAIN i = 1..d
    BY <2>1, HistoryFacts
  <2>5. \A k \in 1..c : i[k] = h[k]
    <3>1. [k \in 1..c |-> wal'[k].cmd] = h
      BY <2>1, HistoryStays DEF History
    <3>2. \A k \in 1..c : wal'[k].cmd = h[k]
      BY <3>1
    <3> QED BY <2>1, <2>2, <3>2
  <2>6. \A j, k \in 1..d : i[j].opid = i[k].opid => j = k
    <3>1. \A k \in 1..d : k \in DOMAIN wal' /\ i[k] = wal'[k].cmd
      BY <2>1
    <3> QED BY <3>1 DEF LogInv, FileIdsOnce
  <2>7. History(Committed) = h /\ History(Committed)' = i
    BY DEF History
  <2>8. UNCHANGED <<History(Pos(snap.through)), Acked>>
    <3>1. Pos(snap.through) \in 0..Len(wal)
      BY <2>1 DEF LogInv
    <3> QED BY <1>1, <3>1, HistoryStays DEF History, Pos
  <2> HIDE DEF h, i, c, d
  <2>9. Abstract!Commit(n)
    BY <2>2, <2>3, <2>4, <2>5, <2>6, <2>7, <2>8 DEF Abstract!Commit, Acked
  <2> QED BY <2>2, <2>9 DEF Abstract!Next
<1> QED BY <1>2, <1>3

(* A step that gives no request the answer APPLIED and takes none away. *)
LEMMA AckedStays ==
    ASSUME IInv, NEW r \in Requests, NEW s, NEW n, Finish(r, s, n), s # "APPLIED",
           state[r] # "DONE", \A q \in Requests : q # r => cmd'[q] = cmd[q]
    PROVE  Acked' = Acked
<1>1. status[r] # "APPLIED" /\ status \in [Requests -> Statuses \cup {Nil}]
  BY NilAssumption DEF IInv, TypeOK, RequestInv, Statuses, Receipts
<1>2. /\ status'[r] # "APPLIED"
      /\ \A q \in Requests : q # r => status'[q] = status[q]
  BY <1>1 DEF Finish
<1> QED BY <1>1, <1>2 DEF Acked

(* Only _finish answers, and of the answers only those of a batch are receipts. *)
LEMMA ClientStutters ==
    ASSUME IInv, LogInv, Grows, Client
    PROVE  UNCHANGED Abstract!vars
<1>1. PICK r \in Requests :
        \/ \E c \in Commands : SubmitRefused(r, c) \/ SubmitAdmitted(r, c)
        \/ ResultReady(r) \/ ResultTimeout(r) \/ Cancel(r)
  BY DEF Client
<1>2. UNCHANGED <<wal, current, snap>>
  BY <1>1 DEF SubmitRefused, SubmitAdmitted, ResultReady, ResultTimeout, Cancel, diskVars,
     memVars
<1>3. ASSUME NEW c \in Commands, SubmitRefused(r, c) PROVE Acked' = Acked
  <2>1. state[r] # "DONE" /\ cmd' = [cmd EXCEPT ![r] = c]
    BY <1>3 DEF SubmitRefused
  <2>2. \A q \in Requests : q # r => cmd'[q] = cmd[q]
    BY <2>1 DEF IInv, TypeOK
  <2>3. \E s : s # "APPLIED" /\ Finish(r, s, Nil)
    BY <1>3 DEF SubmitRefused
  <2> QED BY <2>1, <2>2, <2>3, AckedStays
<1>4. ASSUME NEW c \in Commands, SubmitAdmitted(r, c) PROVE Acked' = Acked
  <2>1. state[r] = "NEW" /\ cmd' = [cmd EXCEPT ![r] = c] /\ status' = status
    BY <1>4 DEF SubmitAdmitted
  <2>2. status[r] # "APPLIED" /\ \A q \in Requests : q # r => cmd'[q] = cmd[q]
    BY <2>1, NilAssumption DEF IInv, TypeOK, RequestInv, Statuses, Receipts
  <2> QED BY <2>1, <2>2 DEF Acked
<1>5. ASSUME ResultReady(r) \/ ResultTimeout(r) \/ Cancel(r) PROVE Acked' = Acked
  BY <1>5 DEF ResultReady, ResultTimeout, Cancel, Acked
<1>6. Committed' = Committed
  BY <1>2 DEF Committed, Pos
<1> QED BY <1>1, <1>2, <1>3, <1>4, <1>5, <1>6, StutterStep

(* An answer other than APPLIED, before any batch or in a poisoned worker. *)
LEMMA RefusalStutters ==
    ASSUME IInv, LogInv, Grows, DrainCancelled \/ PoisonFinish
    PROVE  UNCHANGED Abstract!vars
<1>1. UNCHANGED <<cmd, wal, current, snap>>
  BY DEF DrainCancelled, PoisonFinish, diskVars, memVars
<1>2. CASE DrainCancelled
  <2>1. Head(queue) \in Requests /\ state[Head(queue)] # "DONE"
    <3>1. queue # <<>> /\ queue \in Seq(Requests)
      BY <1>2 DEF DrainCancelled, MoreToDrain, IInv, TypeOK
    <3>2. 1 \in DOMAIN queue /\ Head(queue) = queue[1] /\ Head(queue) \in Requests
      BY <3>1, HeadTail
    <3> QED BY <3>2 DEF IInv, ListInv
  <2>2. Finish(Head(queue), "NOT_ACCEPTED", Nil)
    BY <1>2 DEF DrainCancelled
  <2> QED BY <1>1, <2>1, <2>2, AckedStays, StutterStep DEF Committed, Pos
<1>3. CASE PoisonFinish
  <2>1. Head(todo) \in Requests /\ state[Head(todo)] # "DONE"
    <3>1. todo # <<>> /\ todo \in Seq(Requests)
      BY <1>3 DEF PoisonFinish, IInv, TypeOK
    <3>2. 1 \in DOMAIN todo /\ Head(todo) = todo[1] /\ Head(todo) \in Requests
      BY <3>1, HeadTail
    <3> QED BY <3>2 DEF IInv, ListInv
  <2>2. \E s : s # "APPLIED" /\ Finish(Head(todo), s, Nil)
    BY <1>3 DEF PoisonFinish, IInv, TypeOK
  <2> QED BY <1>1, <2>1, <2>2, AckedStays, StutterStep DEF Committed, Pos
<1> QED BY <1>2, <1>3

(* The answers: APPLIED acknowledges, and what it acknowledges the snapshot shows. *)
LEMMA FinishReceiptAcknowledges ==
    ASSUME IInv, LogInv, Grows, IInv', BatchInv', LogInv', FinishReceipt
    PROVE  [Abstract!Next]_(Abstract!vars)
<1>1. PICK k \in DOMAIN batch :
        /\ Answered = 1..(k - 1)
        /\ Finish(batch[k], plan.receipts[k].status, plan.receipts[k].seq)
  BY DEF FinishReceipt
<1> DEFINE r == batch[k]
<1>2. UNCHANGED <<cmd, wal, current, snap>>
  BY DEF FinishReceipt, diskVars, memVars
<1>3. r \in Requests /\ state[r] # "DONE"
  <2>1. batch \in Seq(Requests)
    BY DEF IInv, TypeOK
  <2>2. k \in DOMAIN batch /\ k \in Int /\ k \notin 1..(k - 1)
    BY ONLY <2>1, <1>1, k \in DOMAIN batch
  <2> QED BY <1>1, <2>1, <2>2 DEF Answered
<1> HIDE DEF r
<1>4. CASE plan.receipts[k].status # "APPLIED"
  <2>1. Acked' = Acked
    BY <1>1, <1>2, <1>3, <1>4, AckedStays DEF r
  <2> QED BY <1>2, <2>1, StutterStep DEF Committed, Pos
<1>5. CASE plan.receipts[k].status = "APPLIED"
  <2>1. status' = [status EXCEPT ![r] = "APPLIED"]
    BY <1>1, <1>5 DEF Finish, r
  <2>2. status'[r] = "APPLIED" /\ \A q \in Requests : q # r => status'[q] = status[q]
    BY <1>3, <2>1 DEF IInv, TypeOK
  <2>3. cmd[r] \in Commands
    <3>1. state[r] \in {"CLAIMED", "DONE"}
      BY DEF IInv, ListInv, r
    <3> QED BY <1>3, <3>1 DEF IInv, RequestInv
  <2>4. Acked' = Acked \cup {cmd[r]}
    BY <1>2, <1>3, <2>2 DEF Acked
  <2> DEFINE m == Pos(snap.through)
             at == Pos(wseq'[r])
  <2>5. /\ at \in DOMAIN wal /\ wal[at].req = r /\ wseq'[r] <= snap.through
        /\ wseq'[r] \in Nat
    BY <1>2, <1>3, <2>2 DEF IInv, DiskInv, AckIsDurable, RequestInv, Pos
  <2>6. wal[at].cmd = cmd[r]
    BY <1>2, <2>5 DEF BatchInv, CarriesCommand
  <2>7. at \in 1..m
    <3>1. wal \in Seq(Frame) /\ snap.through \in Nat
      BY DEF IInv, TypeOK
    <3>2. at \in Nat /\ at >= 1
      BY <2>5, <3>1
    <3> QED BY <2>5, <3>1, <3>2, GroupCommitAssumption DEF Pos
  <2>8. at \in DOMAIN History(m) /\ History(m)[at] = cmd[r]
    BY <2>6, <2>7 DEF History
  <2>9. UNCHANGED <<History(Committed), History(Pos(snap.through))>>
    BY <1>2 DEF History, Committed, Pos
  <2> HIDE DEF at
  <2>10. \E j \in DOMAIN History(m) : History(m)[j] = cmd[r]
    BY <2>8
  <2>11. PICK c \in Commands : c = cmd[r]
    BY <2>3
  <2>12. Abstract!Acknowledge(c)
    BY <2>4, <2>9, <2>10, <2>11 DEF Abstract!Acknowledge, Acked
  <2> QED BY <2>12 DEF Abstract!Next
<1> QED BY <1>4, <1>5

(* The swap makes stable what was committed. *)
LEMMA SwapHardens ==
    ASSUME IInv, LogInv, Swap
    PROVE  Abstract!Harden
<1>1. /\ pc = "published" /\ snap'.through = PlanThrough
      /\ UNCHANGED <<cmd, status, wal, current>>
  BY DEF Swap, CandidateSnapshot, clientVars, diskVars
<1>2. Committed = Pos(PlanThrough)
  BY <1>1 DEF IInv, DiskInv, Written, Committed
<1>3. History(Pos(snap.through))' = History(Committed)
  BY <1>1, <1>2 DEF History, Pos
<1>4. UNCHANGED <<History(Committed), Acked>>
  BY <1>1 DEF History, Committed, Pos, Acked
<1> QED BY <1>3, <1>4 DEF Abstract!Harden, Acked

(* CURRENT is replaced by the end of the plan, or stays. *)
LEMMA PublishCommits ==
    ASSUME IInv, BatchInv, LogInv, IInv', LogInv', Grows, PublishBatch \/ PublishBatchFails
    PROVE  [Abstract!Next]_(Abstract!vars)
<1>1. /\ pc = "synced" /\ current' \in {current, PlanThrough}
      /\ UNCHANGED <<cmd, status, snap, wal>>
  BY DEF PublishBatch, PublishBatchFails, Poison, clientVars, memVars
<1>2. CASE Committed' = Committed
  BY <1>1, <1>2, StutterStep DEF Acked
<1>3. CASE Committed' # Committed
  <2>1. Published /\ current' = PlanThrough
    BY <1>1, <1>3 DEF Committed, Pos
  <2>2. current = plan.source
    BY <1>1, <2>1 DEF IInv, ListInv, DiskInv, Planning, Visible
  <2>3. Committed = Pos(plan.source) /\ Committed' = Pos(PlanThrough)
    BY <2>1, <2>2 DEF Committed, Pos
  <2>4. /\ plan.source \in Nat /\ Len(plan.frames) \in Nat
        /\ Len(plan.frames) <= MaxBatchCommands
    <3>1. plan \in Plan /\ batch \in Seq(Requests) /\ plan.receipts \in Seq(Receipt)
          /\ plan.frames \in Seq(Frame)
      BY TicketTypes DEF IInv, TypeOK
    <3>2. /\ Len(plan.frames) <= Len(plan.receipts) /\ Len(plan.receipts) <= Len(batch)
          /\ Len(batch) <= MaxBatchCommands
      BY <1>1 DEF BatchInv, IInv, PlanInv, Planning
    <3> QED BY <3>1, <3>2, GroupCommitAssumption DEF Plan
  <2>5. Committed' - Committed = Len(plan.frames)
    BY <2>3, <2>4, GroupCommitAssumption DEF Pos, PlanThrough
  <2> QED BY <1>1, <2>4, <2>5, CommitStep, GroupCommitAssumption
<1> QED BY <1>2, <1>3

(* In a legacy writer the frames count as soon as they are in the file. *)
LEMMA WriteCommits ==
    ASSUME IInv, BatchInv, LogInv, IInv', LogInv', Grows, WriteWal \/ WriteWalFails
    PROVE  [Abstract!Next]_(Abstract!vars)
<1>1. UNCHANGED <<cmd, status, snap, current>> /\ Len(wal') - Len(wal) \in 0..MaxBatchCommands
  BY WriteBatch
<1>2. CASE Published
  <2>1. Committed' = Committed /\ Acked' = Acked
    BY <1>1, <1>2 DEF Committed, Pos, Acked
  <2> QED BY <1>1, <2>1, StutterStep
<1>3. CASE ~Published
  <2>1. Committed' - Committed \in 0..MaxBatchCommands
    BY <1>1, <1>3 DEF Committed
  <2> QED BY <1>1, <2>1, CommitStep
<1> QED BY <1>2, <1>3

(* Each action of client, worker and lifecycle caller is a step of MemoryLog, or none. *)
LEMMA StepRefines ==
    ASSUME IInv, BatchInv, LogInv, IInv', BatchInv', LogInv', [Next]_vars
    PROVE  [Abstract!Next]_(Abstract!vars)
<1>0. Grows
  BY StepGrows
<1>1. CASE Client
  BY <1>0, <1>1, ClientStutters
<1>2. CASE DrainCancelled \/ PoisonFinish
  BY <1>0, <1>2, RefusalStutters
<1>3. CASE FinishReceipt
  BY <1>0, <1>3, FinishReceiptAcknowledges
<1>4. CASE Swap
  BY <1>4, SwapHardens DEF Abstract!Next
<1>5. CASE PublishBatch \/ PublishBatchFails
  BY <1>0, <1>5, PublishCommits
<1>6. CASE WriteWal \/ WriteWalFails
  BY <1>0, <1>6, WriteCommits
<1>7. ASSUME UNCHANGED <<cmd, status, wal, current, snap>> PROVE UNCHANGED Abstract!vars
  <2>1. Committed' = Committed /\ Acked' = Acked
    BY <1>7 DEF Committed, Pos, Acked
  <2> QED BY <1>0, <1>7, <2>1, StutterStep
<1>8. CASE StartDrain \/ WorkerExit \/ DrainClaim \/ DrainEnd \/ PrepareOne \/ PrepareEnd
           \/ NothingToPublish \/ NothingToWriteLegacy \/ FsyncWal \/ StartReceipts
           \/ BatchEnd \/ SinkRaises \/ PrepareRaises \/ PoisonEnd
  <2>1. UNCHANGED <<cmd, status, wal, current, snap>>
    BY <1>8 DEF StartDrain, WorkerExit, DrainClaim, DrainEnd, PrepareOne, PrepareEnd,
       NothingToPublish, NothingToWriteLegacy, FsyncWal, StartReceipts, BatchEnd, SinkRaises,
       PrepareRaises, PoisonEnd, clientVars, diskVars, memVars
  <2> QED BY <1>7, <2>1
<1>9. CASE FailBeforeWal \/ FailBeforeWalLegacy \/ FsyncWalFails \/ FailAroundSwap
  <2>1. UNCHANGED <<cmd, status, wal, current, snap>>
    BY <1>9 DEF FailBeforeWal, FailBeforeWalLegacy, FsyncWalFails, FailAroundSwap, Poison,
       clientVars, diskVars, memVars
  <2> QED BY <1>7, <2>1
<1>10. CASE Lifecycle
  <2>1. UNCHANGED <<cmd, status, wal, current, snap>>
    BY <1>10 DEF Lifecycle, LifecycleEnd, CloseBegin, FenceBegin, RotationNotNeeded,
       RotationBegin, CompactionBegin, CloseEnd, FenceEnd, RotationEnd, CompactionEnd,
       JoinTimeout, AwaitFencedShutdown, BeginFence, LifecycleReturns, clientVars, diskVars,
       memVars
  <2> QED BY <1>7, <2>1
<1>11. CASE UNCHANGED vars
  <2>1. UNCHANGED <<cmd, status, wal, current, snap>>
    BY <1>11 DEF vars, clientVars, diskVars, memVars
  <2> QED BY <1>7, <2>1
<1> QED BY <1>1, <1>2, <1>3, <1>4, <1>5, <1>6, <1>8, <1>9, <1>10, <1>11
        DEF Next, Worker, CommitFails

(* Nothing written, nothing visible, nothing acknowledged. *)
LEMMA InitRefines == Init => Abstract!Init
<1> SUFFICES ASSUME Init PROVE Abstract!Init
  OBVIOUS
<1>1. Committed = 0 /\ Pos(snap.through) = 0
  BY GroupCommitAssumption DEF Init, Committed, Pos
<1>2. History(0) = <<>>
  BY DEF History
<1>3. {cmd[r] : r \in {q \in Requests : status[q] = "APPLIED"}} = {}
  BY NilAssumption DEF Init, Statuses, Receipts
<1> QED BY <1>1, <1>2, <1>3 DEF Abstract!Init

(* The group commit store implements MemoryLog, activated or legacy: a batch of at most       *)
(* MaxBatchCommands operations takes effect at once, behind the ones before it and under ids     *)
(* that are new; what the swap shows is stable; APPLIED is answered only for what is stable;      *)
(* no cut write, refused publication, poison or lifecycle call takes any of it back             *)
(* (_commit_batch, _poison_batch).                                                             *)
THEOREM Implements == Spec => ImplementsMemoryLog
<1>1. IInv /\ BatchInv /\ [Next]_vars => BatchInv'
  BY NextBatch
<1>2. Spec => []BatchInv
  BY <1>1, InitBatch, Invariant, PTL DEF Spec
<1>3. Spec => []LogInv
  <2>1. IInv /\ CurrentInv /\ [Next]_vars => CurrentInv'
    BY NextCurrent
  <2>2. IInv /\ ReplayInv /\ [Next]_vars => ReplayInv'
    BY NextReplay
  <2>3. IInv /\ CurrentInv /\ ReplayInv => LogInv
    BY LogInvHolds
  <2> QED BY <2>1, <2>2, <2>3, InitCurrent, InitReplay, Invariant, PTL DEF Spec
<1>4. IInv /\ BatchInv /\ LogInv /\ IInv' /\ BatchInv' /\ LogInv' /\ [Next]_vars
        => [Abstract!Next]_(Abstract!vars)
  BY StepRefines
<1> QED BY <1>2, <1>3, <1>4, InitRefines, Invariant, PTL
        DEF Spec, ImplementsMemoryLog, Abstract!Spec

(* So a command answered APPLIED is, at every later moment, among the first frames of the      *)
(* file up to the visible seq, and no two committed frames carry one operation id: a client    *)
(* that retries under its id cannot write twice (horizon_store.py's classify_dedup).            *)
THEOREM AcknowledgedStays ==
    Spec => [](/\ \A op \in Acked : \E k \in DOMAIN History(Pos(snap.through)) :
                      History(Pos(snap.through))[k] = op
               /\ \A i, j \in DOMAIN History(Committed) :
                      History(Committed)[i].opid = History(Committed)[j].opid => i = j)
<1>1. Abstract!Spec => [](Abstract!AckedIsStable /\ Abstract!OncePerId)
  BY Abstract!Promise
<1>2. Abstract!AckedIsStable /\ Abstract!OncePerId
        <=> /\ \A op \in Acked : \E k \in DOMAIN History(Pos(snap.through)) :
                   History(Pos(snap.through))[k] = op
            /\ \A i, j \in DOMAIN History(Committed) :
                   History(Committed)[i].opid = History(Committed)[j].opid => i = j
  BY DEF Abstract!AckedIsStable, Abstract!OncePerId, Acked
<1> QED BY Implements, <1>1, <1>2, PTL DEF ImplementsMemoryLog
=============================================================================
