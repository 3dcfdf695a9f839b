-------------------------- MODULE CompactionProofs --------------------------
(* Proofs about Compaction, for any facts, clients, txids and retentions: no      *)
(* number of compactions, failures and restarts changes what a reader finds, lets  *)
(* an operation take effect twice, or brings a forgotten retry back as new.          *)
EXTENDS Compaction, WellFoundedInduction, TLAPS

(* A set of naturals that is not empty has a least element. *)
LEMMA MinOfNats ==
    ASSUME NEW S \in SUBSET Nat, S # {}
    PROVE  Min(S) \in S /\ \A y \in S : Min(S) <= y
<1> DEFINE R == OpToRel(<, Nat)
<1>1. IsWellFoundedOn(R, Nat)
  BY NatLessThanWellFounded
<1>2. \A y, z \in Nat : y < z => <<y, z>> \in R
  BY DEF OpToRel
<1> HIDE DEF R
<1>3. PICK x \in S : \A y \in S : ~ (<<y, x>> \in R)
  BY <1>1, WFMin
<1>4. ASSUME NEW y \in S PROVE x <= y
  <2>1. x \in Nat /\ y \in Nat
    OBVIOUS
  <2>2. ~ (y < x)
    BY <1>2, <1>3, <2>1, Zenon
  <2> QED
    BY <2>1, <2>2
<1> QED
  BY <1>4 DEF Min

(* And a greatest one when it is bounded. *)
LEMMA MaxOfNats ==
    ASSUME NEW S \in SUBSET Nat, S # {}, NEW n \in Nat, \A x \in S : x <= n
    PROVE  Max(S) \in S /\ \A y \in S : Max(S) >= y
<1> DEFINE T == {n - x : x \in S}
<1>1. T \in SUBSET Nat /\ T # {}
  <2>1. \A x \in S : x \in Nat /\ n - x \in Nat
    OBVIOUS
  <2> QED
    BY <2>1
<1>2. Min(T) \in T /\ \A y \in T : Min(T) <= y
  BY <1>1, MinOfNats
<1>3. PICK m \in S : Min(T) = n - m
  BY <1>2
<1>4. ASSUME NEW y \in S PROVE m >= y
  <2>1. n - y \in T
    OBVIOUS
  <2>2. n - m <= n - y
    BY <1>2, <1>3, <2>1
  <2> QED
    BY <2>2
<1> QED
  BY <1>4 DEF Max

(* Txids are naturals. *)
LEMMA TxidsAreNat == \A t \in Txids : t \in Nat
<1>1. TxidMax \in Nat /\ Txids \subseteq 0..TxidMax
  BY CompactionAssumption
<1> QED
  BY <1>1

(* The largest txid of a set of them. *)
LEMMA MaxTxid ==
    ASSUME NEW S \in SUBSET Txids, S # {}
    PROVE  Max(S) \in S /\ \A y \in S : Max(S) >= y
<1>1. S \in SUBSET Nat /\ (\A x \in S : x <= TxidMax) /\ TxidMax \in Nat
  BY CompactionAssumption
<1> QED
  BY <1>1, MaxOfNats
-----------------------------------------------------------------------------
(* The frames from s on that write fact f, or carry operation id o. *)
LEMMA WritesBounded ==
    ASSUME NEW l \in Seq(Commands), NEW s \in Nat, NEW f, WritesTo(l, f, s) # {}
    PROVE  LET m == Max(WritesTo(l, f, s)) IN
           /\ m \in s + 1 .. Len(l) /\ l[m].fact = f
           /\ \A j \in m + 1 .. Len(l) : l[j].fact # f
<1> DEFINE W == WritesTo(l, f, s)
<1>1. W \in SUBSET Nat /\ \A x \in W : x <= Len(l)
  BY DEF WritesTo
<1>2. Max(W) \in W /\ \A y \in W : Max(W) >= y
  <2>1. W # {} /\ Len(l) \in Nat
    OBVIOUS
  <2> HIDE DEF W
  <2> QED
    BY <1>1, <2>1, MaxOfNats
<1>3. ASSUME NEW j \in Max(W) + 1 .. Len(l) PROVE l[j].fact # f
  BY <1>2, <1>1 DEF WritesTo
<1> QED
  BY <1>2, <1>3 DEF WritesTo

LEMMA FramesBounded ==
    ASSUME NEW l \in Seq(Commands), NEW s \in Nat, NEW o, FramesOf(l, o, s) # {}
    PROVE  Max(FramesOf(l, o, s)) \in s + 1 .. Len(l) /\ l[Max(FramesOf(l, o, s))].opid = o
<1>1. FramesOf(l, o, s) \in SUBSET Nat /\ \A x \in FramesOf(l, o, s) : x <= Len(l)
  BY DEF FramesOf
<1>2. Max(FramesOf(l, o, s)) \in FramesOf(l, o, s)
  <2>1. Len(l) \in Nat
    OBVIOUS
  <2> QED
    BY <1>1, <2>1, MaxOfNats
<1> QED
  BY <1>2 DEF FramesOf

(* A frame of a fact with no later one is the fact's version in force. *)
LEMMA LastWrite ==
    ASSUME NEW l \in Seq(Commands), NEW s \in Nat, NEW f, NEW i \in s + 1 .. Len(l),
           l[i].fact = f, \A j \in i + 1 .. Len(l) : l[j].fact # f
    PROVE  WritesTo(l, f, s) # {} /\ Max(WritesTo(l, f, s)) = i
<1>1. i \in WritesTo(l, f, s)
  BY DEF WritesTo
<1>2. /\ Max(WritesTo(l, f, s)) \in s + 1 .. Len(l)
      /\ l[Max(WritesTo(l, f, s))].fact = f
      /\ \A j \in Max(WritesTo(l, f, s)) + 1 .. Len(l) : l[j].fact # f
  BY <1>1, WritesBounded
<1> QED
  BY <1>1, <1>2

(* What a replay leaves of one fact, and of one operation id. *)
LEMMA ReplayOfFact ==
    ASSUME NEW l \in Seq(Commands), NEW s \in Nat, NEW f \in Facts
    PROVE  \/ /\ ReplayIndex(l, s)[f] = Nil
              /\ \A i \in s + 1 .. Len(l) : l[i].fact # f
           \/ \E i \in s + 1 .. Len(l) :
                /\ l[i].fact = f /\ ReplayIndex(l, s)[f] = EntryOf(l[i])
                /\ \A j \in i + 1 .. Len(l) : l[j].fact # f
<1>1. CASE WritesTo(l, f, s) = {}
  BY <1>1 DEF ReplayIndex, WritesTo
<1>2. CASE WritesTo(l, f, s) # {}
  BY <1>2, WritesBounded DEF ReplayIndex
<1> QED
  BY <1>1, <1>2

LEMMA ReplayOfOp ==
    ASSUME NEW l \in Seq(Commands), NEW s \in Nat, NEW o \in OpIds
    PROVE  \/ /\ ReplayTx(l, s)[o] = Nil
              /\ \A i \in s + 1 .. Len(l) : l[i].opid # o
           \/ \E i \in s + 1 .. Len(l) :
                /\ l[i].opid = o
                /\ ReplayTx(l, s)[o] = [digest |-> Rules!ContentDigest(l[i]), seq |-> i]
<1>1. CASE FramesOf(l, o, s) = {}
  BY <1>1 DEF ReplayTx, FramesOf
<1>2. CASE FramesOf(l, o, s) # {}
  BY <1>2, FramesBounded DEF ReplayTx
<1> QED
  BY <1>1, <1>2

(* The types of what commands become. *)
LEMMA CommandTypes ==
    ASSUME NEW c \in Commands
    PROVE  /\ c.fact \in Facts /\ c.ver \in Nat /\ c.opid \in OpIds
           /\ EntryOf(c) \in Rules!Entry /\ EntryOf(c) # Nil /\ EntryOf(c) # BaseAbsent
           /\ \A n \in Nat : /\ [digest |-> Rules!ContentDigest(c), seq |-> n] \in Rules!TxEntry
                            /\ [digest |-> Rules!ContentDigest(c), seq |-> n] # Nil
<1>1. c.value \in Values \cup {Nil}
  BY DEF Commands
<1>1a. c.value \in Int \cup {Nil}
  <2>1. \A v \in Values : v \in 0..U32Max
    BY CompactionAssumption, Zenon
  <2> QED
    BY <1>1, <2>1
<1>2. c.op \in {"PUT", "DELETE"} /\ c.fact \in Facts /\ c.ver \in Nat /\ c.opid \in OpIds
  BY CompactionAssumption DEF Commands
<1>3. EntryOf(c) \in Rules!Entry
  BY <1>1a, <1>2 DEF EntryOf, Rules!Entry
<1>4. \A n \in Nat : [digest |-> Rules!ContentDigest(c), seq |-> n] \in Rules!TxEntry
  BY <1>1a, <1>2 DEF Rules!TxEntry, Rules!ContentDigest, Rules!Contents
<1> QED
  BY <1>2, <1>3, <1>4, SentinelAssumption
-----------------------------------------------------------------------------
(* What a generation says of the log l up to its sequence number: the last write of *)
(* each fact; of each client the newest txid, and that the floor lets go only of     *)
(* what some retention lets go; an entry for each operation at or above its floor.    *)
FactsTell(g, l) ==
    \A f \in Facts :
        \/ g.facts[f] = BaseAbsent /\ \A i \in 1..g.seq : l[i].fact # f
        \/ \E i \in 1..g.seq :
             /\ l[i].fact = f /\ g.facts[f] = EntryOf(l[i])
             /\ \A j \in i + 1 .. g.seq : l[j].fact # f

ClientTells(g, l, k) ==
    /\ g.clients[k] # Nil
    /\ g.clients[k].lo <= g.clients[k].hi
    /\ \E i \in 1..g.seq : l[i].opid = <<k, g.clients[k].hi>>
    /\ \A i \in 1..g.seq : l[i].opid[1] = k =>
         /\ l[i].opid[2] <= g.clients[k].hi
         /\ \/ l[i].opid[2] >= g.clients[k].lo
            \/ \E r \in Retentions : l[i].opid[2] <= g.clients[k].hi - r

ClientsTell(g, l) ==
    \A k \in Clients :
        \/ g.clients[k] = Nil /\ \A i \in 1..g.seq : l[i].opid[1] # k
        \/ ClientTells(g, l, k)

EntriesTell(g, l) ==
    /\ \A o \in OpIds : g.entries[o] # Nil =>
         /\ g.entries[o].seq \in 1..g.seq /\ l[g.entries[o].seq].opid = o
         /\ g.entries[o].digest = Rules!ContentDigest(l[g.entries[o].seq])
         /\ o[2] >= g.clients[o[1]].lo
    /\ \A i \in 1..g.seq :
         l[i].opid[2] >= g.clients[l[i].opid[1]].lo => g.entries[l[i].opid] # Nil

Tells(g, l) == g.seq <= Len(l) /\ FactsTell(g, l) /\ ClientsTell(g, l) /\ EntriesTell(g, l)

(* The WAL of the current generation holds no txid its base has seen. *)
WalIsNew ==
    \A i \in current.seq + 1 .. Len(log) :
        current.clients[log[i].opid[1]] # Nil =>
            log[i].opid[2] > current.clients[log[i].opid[1]].hi

(* A packet tells of the whole log, for no frame is committed while it is open; so *)
(* once it is published the WAL of the current generation is empty.                  *)
PacketFollows ==
    /\ packet # Nil => phase \in {"prepared", "published"} /\ Tells(packet, log)
    /\ phase = "prepared" =>
         packet # Nil /\ packet.seq = Len(log) /\ KeepsForgotten(current, packet)
    /\ phase = "published" => current.seq = Len(log)

WriterTells ==
    phase = "serving" =>
        /\ base = current
        /\ index = ReplayIndex(log, current.seq) /\ tx = ReplayTx(log, current.seq)

IInv == TypeOK /\ AppliedOnce /\ Tells(current, log) /\ WalIsNew /\ PacketFollows /\ WriterTells

(* Fields of a generation. *)
LEMMA GenTypes ==
    ASSUME NEW g \in Generation
    PROVE  /\ g.seq \in Nat /\ g.gen \in Nat
           /\ \A f \in Facts : g.facts[f] \in Rules!Entry \cup {BaseAbsent}
           /\ \A o \in OpIds : g.entries[o] \in Rules!TxEntry \cup {Nil}
           /\ \A k \in Clients : g.clients[k] \in ClientState \cup {Nil}
           /\ \A k \in Clients : g.clients[k] # Nil =>
                g.clients[k].hi \in Txids /\ g.clients[k].hi \in Nat /\ g.clients[k].lo \in Nat
<1>1. /\ g.seq \in 0..MaxLog /\ g.gen \in 0..MaxGen
      /\ g.facts \in [Facts -> Rules!Entry \cup {BaseAbsent}]
      /\ g.entries \in [OpIds -> Rules!TxEntry \cup {Nil}]
      /\ g.clients \in [Clients -> ClientState \cup {Nil}]
  BY DEF Generation
<1>2. \A x \in ClientState : x.hi \in Txids /\ x.hi \in Nat /\ x.lo \in Nat
  BY TxidsAreNat DEF ClientState
<1> QED
  BY <1>1, <1>2

(* An operation id is a client and a txid. *)
LEMMA OpIdTypes ==
    ASSUME NEW o \in OpIds
    PROVE  o = <<o[1], o[2]>> /\ o[1] \in Clients /\ o[2] \in Txids /\ o[2] \in Nat
<1>1. o = <<o[1], o[2]>> /\ o[1] \in Clients /\ o[2] \in Txids
  BY DEF OpIds
<1>2. \A t \in Txids : t \in Nat
  BY TxidsAreNat
<1> QED
  BY <1>1, <1>2

(* Frames of a log. *)
LEMMA FrameTypes ==
    ASSUME NEW l \in Seq(Commands), NEW i \in 1..Len(l)
    PROVE  /\ l[i] \in Commands
           /\ l[i].opid \in OpIds /\ l[i].opid = <<l[i].opid[1], l[i].opid[2]>>
           /\ l[i].opid[1] \in Clients /\ l[i].opid[2] \in Txids /\ l[i].opid[2] \in Nat
           /\ l[i].fact \in Facts /\ l[i].ver \in Nat
<1>1. l[i] \in Commands
  OBVIOUS
<1>2. l[i].opid \in OpIds /\ l[i].fact \in Facts /\ l[i].ver \in Nat
  BY <1>1, CommandTypes
<1> QED
  BY <1>1, <1>2, OpIdTypes

(* A replayed frame's operation id is in the replayed TxIdIndex. *)
LEMMA InReplay ==
    ASSUME NEW l \in Seq(Commands), NEW s \in Nat, NEW i \in s + 1 .. Len(l)
    PROVE  /\ ReplayTx(l, s)[l[i].opid] # Nil
           /\ \E j \in s + 1 .. Len(l) :
                /\ l[j].opid = l[i].opid
                /\ ReplayTx(l, s)[l[i].opid] = [digest |-> Rules!ContentDigest(l[j]), seq |-> j]
<1>1. i \in 1..Len(l) /\ l[i].opid \in OpIds
  BY FrameTypes
<1>2. PICK j \in s + 1 .. Len(l) :
        /\ l[j].opid = l[i].opid
        /\ ReplayTx(l, s)[l[i].opid] = [digest |-> Rules!ContentDigest(l[j]), seq |-> j]
  BY <1>1, ReplayOfOp
<1>3. j \in 1..Len(l) /\ j \in Nat
  OBVIOUS
<1>4. [digest |-> Rules!ContentDigest(l[j]), seq |-> j] # Nil
  BY <1>3, FrameTypes, CommandTypes
<1> QED
  BY <1>2, <1>4

(* _merge_dedup for one client: its txids in the WAL and what the base knew of it. *)
LEMMA MergedClient ==
    ASSUME IInv, NEW r \in Retentions, NEW k \in Clients,
           NEW T, T = ReplayTx(log, current.seq),
           current.clients[k] # Nil \/ Absorbed(T, k) # {}
    PROVE  /\ HiSeen(current, T, k) \in Txids /\ FloorOf(current, T, r, k) \in Nat
           /\ FloorOf(current, T, r, k) <= HiSeen(current, T, k)
           /\ \E i \in 1..Len(log) : log[i].opid = <<k, HiSeen(current, T, k)>>
           /\ \A i \in 1..Len(log) : log[i].opid[1] = k =>
                /\ log[i].opid[2] <= HiSeen(current, T, k)
                /\ \/ log[i].opid[2] >= FloorOf(current, T, r, k)
                   \/ \E q \in Retentions : log[i].opid[2] <= HiSeen(current, T, k) - q
           /\ current.clients[k] # Nil =>
                /\ HiSeen(current, T, k) >= current.clients[k].hi
                /\ FloorOf(current, T, r, k) >= current.clients[k].lo
<1> USE DEF IInv
<1> DEFINE A == Absorbed(T, k)
           H == A \cup {current.clients[x].hi : x \in {y \in {k} : current.clients[y] # Nil}}
           L == A \cup {current.clients[x].lo : x \in {y \in {k} : current.clients[y] # Nil}}
           hi == HiSeen(current, T, k)
           lo == LoBound(current, T, k)
           floor == FloorOf(current, T, r, k)
<1>1. /\ log \in Seq(Commands) /\ current \in Generation /\ current.seq \in Nat
      /\ current.seq <= Len(log) /\ r \in Nat /\ r >= 1
  BY GenTypes, CompactionAssumption DEF TypeOK, Tells
<1>2. \A t \in Txids : t \in A <=> \E i \in current.seq + 1 .. Len(log) : log[i].opid = <<k, t>>
  <2> TAKE t \in Txids
  <2>1. <<k, t>> \in OpIds
    BY DEF OpIds
  <2>2. t \in A <=> T[<<k, t>>] # Nil
    BY DEF Absorbed
  <2>3. T[<<k, t>>] # Nil => \E i \in current.seq + 1 .. Len(log) : log[i].opid = <<k, t>>
    BY <1>1, <2>1, ReplayOfOp
  <2>4. ASSUME NEW i \in current.seq + 1 .. Len(log), log[i].opid = <<k, t>>
        PROVE  T[<<k, t>>] # Nil
    <3>1. ReplayTx(log, current.seq)[log[i].opid] # Nil
      BY <1>1, InReplay
    <3> QED
      BY <3>1, <2>4
  <2> QED
    BY <2>2, <2>3, <2>4
<1>3. A \subseteq Txids /\ \A t \in A : t \in Nat
  BY TxidsAreNat DEF Absorbed
<1>4. current.clients[k] # Nil =>
         /\ current.clients[k].hi \in Txids /\ current.clients[k].hi \in Nat
         /\ current.clients[k].lo \in Nat /\ ClientTells(current, log, k)
         /\ current.clients[k].lo <= current.clients[k].hi
  BY <1>1, GenTypes DEF Tells, ClientsTell, ClientTells
<1>5. \A t : t \in H <=> t \in A \/ (current.clients[k] # Nil /\ t = current.clients[k].hi)
  OBVIOUS
<1>6. \A t : t \in L <=> t \in A \/ (current.clients[k] # Nil /\ t = current.clients[k].lo)
  OBVIOUS
<1>7. hi \in H /\ (\A t \in H : hi >= t) /\ hi \in Txids /\ hi \in Nat
  <2>1. H \in SUBSET Txids /\ H # {}
    BY <1>3, <1>4, <1>5
  <2>2. hi = Max(H)
    BY DEF HiSeen
  <2> HIDE DEF H, hi
  <2> QED
    BY <2>1, <2>2, MaxTxid, TxidsAreNat
<1>8. lo \in L /\ (\A t \in L : lo <= t) /\ lo \in Nat
  <2>1. L \in SUBSET Nat /\ L # {}
    BY <1>3, <1>4, <1>6
  <2>2. lo = Min(L)
    BY DEF LoBound
  <2> HIDE DEF L, lo
  <2> QED
    BY <2>1, <2>2, MinOfNats
<1>9. floor = IF lo > hi - r + 1 THEN lo ELSE hi - r + 1
  BY DEF FloorOf
<1>10. \A t \in A : current.clients[k] # Nil => t > current.clients[k].hi
  <2> SUFFICES ASSUME NEW t \in A, current.clients[k] # Nil PROVE t > current.clients[k].hi
    OBVIOUS
  <2>1. PICK i \in current.seq + 1 .. Len(log) : log[i].opid = <<k, t>>
    BY <1>2, <1>3
  <2> QED
    BY <2>1 DEF WalIsNew
<1> HIDE DEF A, H, L, hi, lo, floor
<1>11. floor \in Nat /\ floor <= hi
  <2>1. \E t \in H : lo <= t
    BY <1>3, <1>4, <1>5, <1>6, <1>7, <1>8
  <2> QED
    BY <2>1, <1>1, <1>3, <1>4, <1>5, <1>7, <1>8, <1>9
<1>12. \E i \in 1..Len(log) : log[i].opid = <<k, hi>>
  <2>1. CASE hi \in A
    <3>1. PICK i \in current.seq + 1 .. Len(log) : log[i].opid = <<k, hi>>
      BY <2>1, <1>2, <1>7
    <3>2. i \in 1..Len(log)
      BY <1>1
    <3> QED
      BY <3>1, <3>2
  <2>2. CASE current.clients[k] # Nil /\ hi = current.clients[k].hi
    BY <2>2, <1>1, <1>4 DEF ClientTells
  <2> QED
    BY <2>1, <2>2, <1>5, <1>7
<1>13. ASSUME NEW i \in 1..Len(log), log[i].opid[1] = k
       PROVE  /\ log[i].opid[2] <= hi
              /\ log[i].opid[2] >= floor \/ \E q \in Retentions : log[i].opid[2] <= hi - q
  <2> DEFINE t == log[i].opid[2]
  <2>1. t \in Txids /\ t \in Nat /\ log[i].opid = <<k, t>>
    BY <1>1, <1>13, FrameTypes
  <2> HIDE DEF t
  <2>2. CASE i > current.seq
    <3>1. t \in A
      BY <2>1, <2>2, <1>1, <1>2
    <3> QED
      BY <3>1, <2>1, <1>1, <1>5, <1>6, <1>7, <1>8, <1>9 DEF t
  <2>3. CASE i <= current.seq
    <3>1. i \in 1..current.seq
      BY <2>3, <1>1
    <3>2. current.clients[k] # Nil
      BY <3>1, <1>13 DEF Tells, ClientsTell, ClientTells
    <3>3. /\ t <= current.clients[k].hi
          /\ t >= current.clients[k].lo \/ \E q \in Retentions : t <= current.clients[k].hi - q
      BY <3>1, <3>2, <1>4, <1>13 DEF ClientTells, t
    <3>4. current.clients[k].hi <= hi /\ lo <= current.clients[k].lo
      BY <3>2, <1>5, <1>6, <1>7, <1>8
    <3>5. ASSUME NEW q \in Retentions, t <= current.clients[k].hi - q PROVE t <= hi - q
      BY <3>2, <3>4, <3>5, <2>1, <1>4, <1>7, CompactionAssumption
    <3>6. ASSUME t >= current.clients[k].lo PROVE t >= floor \/ t <= hi - r
      BY <3>2, <3>4, <3>6, <2>1, <1>1, <1>4, <1>7, <1>8, <1>9
    <3> QED
      BY <3>2, <3>3, <3>4, <3>5, <3>6, <2>1, <1>4, <1>7 DEF t
  <2> QED
    BY <2>2, <2>3, <1>1
<1>14. ASSUME current.clients[k] # Nil
       PROVE  hi >= current.clients[k].hi /\ floor >= current.clients[k].lo
  <2>1. hi >= current.clients[k].hi
    BY <1>5, <1>7, <1>14
  <2>2. lo >= current.clients[k].lo
    BY <1>3, <1>4, <1>6, <1>8, <1>10, <1>14
  <2> QED
    BY <2>1, <2>2, <1>1, <1>4, <1>7, <1>8, <1>9, <1>14
<1> QED
  BY <1>7, <1>11, <1>12, <1>13, <1>14 DEF hi, floor

(* The packet of a compaction, field by field. *)
LEMMA CandidateFields ==
    ASSUME IInv, NEW r \in Retentions, NEW g, g = Candidate(r), NEW T, T = ReplayTx(log, current.seq)
    PROVE  /\ g.gen = current.gen + 1 /\ g.seq = Len(log)
           /\ \A f \in Facts :
                g.facts[f] = IF ReplayIndex(log, current.seq)[f] # Nil
                             THEN ReplayIndex(log, current.seq)[f] ELSE current.facts[f]
           /\ \A k \in Clients :
                g.clients[k] = IF current.clients[k] = Nil /\ Absorbed(T, k) = {} THEN Nil
                               ELSE [hi |-> HiSeen(current, T, k), lo |-> FloorOf(current, T, r, k)]
           /\ \A o \in OpIds :
                LET e == IF T[o] # Nil THEN T[o] ELSE current.entries[o] IN
                g.entries[o] = IF e # Nil /\ o[2] >= FloorOf(current, T, r, o[1]) THEN e ELSE Nil
BY DEF Candidate, Materialize, MergeClients, MergeEntries

(* A client the merged table knows, with what MergedClient says of it. *)
LEMMA CandidateClient ==
    ASSUME IInv, NEW r \in Retentions, NEW g, g = Candidate(r), NEW k \in Clients,
           NEW T, T = ReplayTx(log, current.seq)
    PROVE  /\ g.clients[k] = Nil \/ (/\ ClientTells(g, log, k) /\ g.clients[k] \in ClientState
                                    /\ g.clients[k].lo = FloorOf(current, T, r, k))
           /\ g.clients[k] = Nil => \A i \in 1..Len(log) : log[i].opid[1] # k
           /\ current.clients[k] # Nil => /\ g.clients[k] # Nil
                                         /\ g.clients[k].hi >= current.clients[k].hi
                                         /\ g.clients[k].lo >= current.clients[k].lo
<1>1. log \in Seq(Commands) /\ current.seq \in Nat /\ g.seq = Len(log)
  BY GenTypes, CandidateFields DEF IInv, TypeOK
<1>2. CASE current.clients[k] = Nil /\ Absorbed(T, k) = {}
  <2>1. g.clients[k] = Nil
    BY <1>2, CandidateFields
  <2>2. ASSUME NEW i \in 1..Len(log), log[i].opid[1] = k PROVE FALSE
    <3>1. ~ (i \in 1..current.seq)
      BY <1>2, <2>2 DEF IInv, Tells, ClientsTell, ClientTells
    <3>2. i \in current.seq + 1 .. Len(log)
      BY <3>1, <1>1
    <3>3. log[i].opid \in OpIds /\ log[i].opid = <<k, log[i].opid[2]>> /\ log[i].opid[2] \in Txids
      BY <1>1, <2>2, FrameTypes
    <3>4. T[log[i].opid] # Nil
      BY <1>1, <3>2, InReplay
    <3>5. log[i].opid[2] \in Absorbed(T, k)
      BY <3>3, <3>4 DEF Absorbed
    <3> QED
      BY <3>5, <1>2
  <2> QED
    BY <2>1, <2>2, <1>2
<1>3. CASE current.clients[k] # Nil \/ Absorbed(T, k) # {}
  <2> DEFINE hi == HiSeen(current, T, k)
             lo == FloorOf(current, T, r, k)
  <2>1. g.clients[k] = [hi |-> hi, lo |-> lo]
    BY <1>3, CandidateFields
  <2>2. /\ hi \in Txids /\ lo \in Nat /\ lo <= hi
        /\ \E i \in 1..Len(log) : log[i].opid = <<k, hi>>
        /\ \A i \in 1..Len(log) : log[i].opid[1] = k =>
             /\ log[i].opid[2] <= hi
             /\ log[i].opid[2] >= lo \/ \E q \in Retentions : log[i].opid[2] <= hi - q
        /\ current.clients[k] # Nil => hi >= current.clients[k].hi /\ lo >= current.clients[k].lo
    BY <1>3, MergedClient
  <2> HIDE DEF hi, lo
  <2>3. g.clients[k] \in ClientState
    BY <2>1, <2>2 DEF ClientState
  <2>4. g.clients[k] # Nil
    BY <2>3, SentinelAssumption
  <2>5. ClientTells(g, log, k)
    BY <2>1, <2>2, <2>4, <1>1 DEF ClientTells
  <2> QED
    BY <2>1, <2>2, <2>3, <2>4, <2>5 DEF lo
<1> QED
  BY <1>2, <1>3

(* The packet tells of the whole log. *)
LEMMA CandidateTells ==
    ASSUME IInv, NEW r \in Retentions, NEW g, g = Candidate(r)
    PROVE  Tells(g, log)
<1> DEFINE T == ReplayTx(log, current.seq)
<1>1. /\ log \in Seq(Commands) /\ current.seq \in Nat /\ current.seq <= Len(log)
      /\ g.seq = Len(log) /\ current \in Generation
  BY GenTypes, CandidateFields DEF IInv, TypeOK, Tells
<1>2. FactsTell(g, log)
  <2> SUFFICES ASSUME NEW f \in Facts
               PROVE  \/ g.facts[f] = BaseAbsent /\ \A i \in 1..Len(log) : log[i].fact # f
                      \/ \E i \in 1..Len(log) :
                           /\ log[i].fact = f /\ g.facts[f] = EntryOf(log[i])
                           /\ \A j \in i + 1 .. Len(log) : log[j].fact # f
    BY <1>1 DEF FactsTell
  <2>1. CASE ReplayIndex(log, current.seq)[f] # Nil
    <3>1. g.facts[f] = ReplayIndex(log, current.seq)[f]
      BY <2>1, CandidateFields
    <3>2. PICK i \in current.seq + 1 .. Len(log) :
            /\ log[i].fact = f /\ ReplayIndex(log, current.seq)[f] = EntryOf(log[i])
            /\ \A j \in i + 1 .. Len(log) : log[j].fact # f
      BY <2>1, <1>1, ReplayOfFact
    <3>3. i \in 1..Len(log)
      BY <1>1
    <3> QED
      BY <3>1, <3>2, <3>3
  <2>2. CASE ReplayIndex(log, current.seq)[f] = Nil
    <3>1. g.facts[f] = current.facts[f]
      BY <2>2, CandidateFields
    <3>2. \A i \in current.seq + 1 .. Len(log) : log[i].fact # f
      <4>1. \A i \in 1..Len(log) : EntryOf(log[i]) # Nil
        BY <1>1, FrameTypes, CommandTypes
      <4> QED
        BY <2>2, <4>1, <1>1, ReplayOfFact
    <3>3. CASE current.facts[f] = BaseAbsent /\ \A i \in 1..current.seq : log[i].fact # f
      BY <3>1, <3>2, <3>3, <1>1
    <3>4. ASSUME NEW i \in 1..current.seq, log[i].fact = f, current.facts[f] = EntryOf(log[i]),
                 \A j \in i + 1 .. current.seq : log[j].fact # f
          PROVE  \E n \in 1..Len(log) :
                    /\ log[n].fact = f /\ g.facts[f] = EntryOf(log[n])
                    /\ \A j \in n + 1 .. Len(log) : log[j].fact # f
      <4>1. i \in 1..Len(log) /\ \A j \in i + 1 .. Len(log) : log[j].fact # f
        BY <3>2, <3>4, <1>1
      <4> QED
        BY <4>1, <3>1, <3>4
    <3> QED
      BY <3>3, <3>4 DEF IInv, Tells, FactsTell
  <2> QED
    BY <2>1, <2>2
<1>3. ClientsTell(g, log)
  BY <1>1, CandidateClient DEF ClientsTell
<1>4. ASSUME NEW o \in OpIds, g.entries[o] # Nil
      PROVE  /\ g.entries[o].seq \in 1..Len(log) /\ log[g.entries[o].seq].opid = o
             /\ g.entries[o].digest = Rules!ContentDigest(log[g.entries[o].seq])
             /\ o[2] >= g.clients[o[1]].lo
  <2>1. o[1] \in Clients
    BY DEF OpIds
  <2>2. /\ T[o] # Nil => g.entries[o] = T[o]
        /\ T[o] = Nil => current.entries[o] # Nil /\ g.entries[o] = current.entries[o]
        /\ o[2] >= FloorOf(current, T, r, o[1])
    BY <1>4, CandidateFields
  <2>3. /\ g.entries[o].seq \in 1..Len(log) /\ log[g.entries[o].seq].opid = o
        /\ g.entries[o].digest = Rules!ContentDigest(log[g.entries[o].seq])
    <3>1. CASE T[o] # Nil
      <4>1. PICK i \in current.seq + 1 .. Len(log) :
              log[i].opid = o /\ T[o] = [digest |-> Rules!ContentDigest(log[i]), seq |-> i]
        BY <3>1, <1>1, ReplayOfOp
      <4> QED
        BY <4>1, <3>1, <2>2, <1>1
    <3>2. CASE T[o] = Nil
      BY <3>2, <2>2, <1>1 DEF IInv, Tells, EntriesTell
    <3> QED
      BY <3>1, <3>2
  <2>4. g.clients[o[1]] # Nil
    BY <2>1, <2>3, <1>1, CandidateClient
  <2>5. g.clients[o[1]].lo = FloorOf(current, T, r, o[1])
    BY <2>1, <2>4, CandidateClient
  <2> QED
    BY <2>2, <2>3, <2>5
<1>5. ASSUME NEW i \in 1..Len(log), log[i].opid[2] >= g.clients[log[i].opid[1]].lo
      PROVE  g.entries[log[i].opid] # Nil
  <2> DEFINE o == log[i].opid
  <2>1. o \in OpIds /\ o[1] \in Clients /\ o[2] \in Nat
    BY <1>1, FrameTypes
  <2>2. /\ g.clients[o[1]] # Nil /\ g.clients[o[1]] \in ClientState
        /\ g.clients[o[1]].lo = FloorOf(current, T, r, o[1])
    BY <2>1, CandidateClient
  <2>3. CASE i > current.seq
    <3>1. i \in current.seq + 1 .. Len(log)
      BY <2>3, <1>1
    <3>3. T[o] # Nil
      BY <3>1, <1>1, InReplay
    <3> QED
      BY <3>3, <2>1, <2>2, <1>5, CandidateFields
  <2>4. CASE i <= current.seq
    <3>1. i \in 1..current.seq
      BY <2>4, <1>1
    <3>2. current.clients[o[1]] # Nil
      BY <3>1, <2>1 DEF IInv, Tells, ClientsTell, ClientTells
    <3>3. g.clients[o[1]].lo >= current.clients[o[1]].lo
      BY <3>2, <2>1, CandidateClient
    <3>4. g.clients[o[1]].lo \in Nat /\ current.clients[o[1]].lo \in Nat
      BY <2>1, <2>2, <3>2, <1>1, GenTypes DEF ClientState
    <3>5. o[2] >= current.clients[o[1]].lo
      BY <3>3, <3>4, <2>1, <1>5
    <3>6. current.entries[o] # Nil
      BY <3>1, <3>5 DEF IInv, Tells, EntriesTell
    <3> QED
      BY <3>6, <2>1, <2>2, <1>5, CandidateFields
  <2> QED
    BY <2>3, <2>4, <1>1
<1> QED
  BY <1>1, <1>2, <1>3, <1>4, <1>5 DEF Tells, EntriesTell

(* The packet is a generation, and keeps forgotten what CURRENT has forgotten. *)
LEMMA CandidateType ==
    ASSUME IInv, NEW r \in Retentions, NEW g, g = Candidate(r), current.gen + 1 <= MaxGen
    PROVE  g \in Generation
<1> DEFINE T == ReplayTx(log, current.seq)
           I == ReplayIndex(log, current.seq)
<1>1. /\ log \in Seq(Commands) /\ Len(log) <= MaxLog /\ current.seq \in Nat
      /\ current \in Generation /\ current.gen \in Nat
  BY GenTypes DEF IInv, TypeOK
<1>2. g.gen \in 0..MaxGen /\ g.seq \in 0..MaxLog
  BY <1>1, CandidateFields, CompactionAssumption
<1>3. \A f \in Facts : g.facts[f] \in Rules!Entry \cup {BaseAbsent}
  <2> TAKE f \in Facts
  <2>1. I[f] = Nil \/ I[f] \in Rules!Entry
    <3>1. \A i \in 1..Len(log) : EntryOf(log[i]) \in Rules!Entry
      BY <1>1, FrameTypes, CommandTypes
    <3> QED
      BY <3>1, <1>1, ReplayOfFact
  <2>2. current.facts[f] \in Rules!Entry \cup {BaseAbsent}
    BY <1>1, GenTypes
  <2> QED
    BY <2>1, <2>2, CandidateFields
<1>4. \A o \in OpIds : g.entries[o] \in Rules!TxEntry \cup {Nil}
  <2> TAKE o \in OpIds
  <2>1. T[o] = Nil \/ T[o] \in Rules!TxEntry
    <3>1. \A i \in 1..Len(log) :
             [digest |-> Rules!ContentDigest(log[i]), seq |-> i] \in Rules!TxEntry
      BY <1>1, FrameTypes, CommandTypes
    <3>2. CASE T[o] = Nil
      BY <3>2
    <3>3. ASSUME NEW i \in current.seq + 1 .. Len(log),
                 T[o] = [digest |-> Rules!ContentDigest(log[i]), seq |-> i]
          PROVE  T[o] \in Rules!TxEntry
      <4>1. i \in 1..Len(log)
        BY <1>1
      <4> QED
        BY <3>1, <3>3, <4>1
    <3> QED
      BY <3>2, <3>3, <1>1, ReplayOfOp
  <2>2. current.entries[o] \in Rules!TxEntry \cup {Nil}
    BY <1>1, GenTypes
  <2> QED
    BY <2>1, <2>2, CandidateFields
<1>5. \A k \in Clients : g.clients[k] \in ClientState \cup {Nil}
  BY CandidateClient
<1>6. g = [gen |-> g.gen, seq |-> g.seq, facts |-> [f \in Facts |-> g.facts[f]],
           entries |-> [o \in OpIds |-> g.entries[o]],
           clients |-> [k \in Clients |-> g.clients[k]]]
  BY DEF Candidate, Materialize, MergeEntries, MergeClients
<1> QED
  BY <1>2, <1>3, <1>4, <1>5, <1>6 DEF Generation

LEMMA CandidateKeeps ==
    ASSUME IInv, NEW r \in Retentions, NEW g, g = Candidate(r)
    PROVE  KeepsForgotten(current, g)
<1> DEFINE T == ReplayTx(log, current.seq)
<1>1. log \in Seq(Commands) /\ current.seq \in Nat /\ current \in Generation
  BY GenTypes DEF IInv, TypeOK
<1> SUFFICES ASSUME NEW o \in OpIds
             PROVE  /\ Probe(current)[o].kind = "expired" => Probe(g)[o].kind = "expired"
                    /\ current.clients[o[1]] # Nil =>
                         g.clients[o[1]] # Nil /\ g.clients[o[1]].lo >= current.clients[o[1]].lo
  BY DEF KeepsForgotten
<1>2. o[1] \in Clients /\ o[2] \in Nat /\ o = <<o[1], o[2]>>
  BY OpIdTypes
<1>3. current.clients[o[1]] # Nil =>
         /\ g.clients[o[1]] # Nil
         /\ g.clients[o[1]].hi >= current.clients[o[1]].hi
         /\ g.clients[o[1]].lo >= current.clients[o[1]].lo
         /\ g.clients[o[1]].hi \in Nat /\ current.clients[o[1]].hi \in Nat
  <2>1. /\ current.clients[o[1]] # Nil => g.clients[o[1]] # Nil
        /\ g.clients[o[1]] # Nil => g.clients[o[1]] \in ClientState
        /\ current.clients[o[1]] # Nil => /\ g.clients[o[1]].hi >= current.clients[o[1]].hi
                                          /\ g.clients[o[1]].lo >= current.clients[o[1]].lo
    BY <1>2, CandidateClient
  <2>2. \A x \in ClientState : x.hi \in Nat
    BY TxidsAreNat DEF ClientState
  <2> QED
    BY <1>1, <1>2, <2>1, <2>2, GenTypes
<1>4. ASSUME Probe(current)[o].kind = "expired" PROVE Probe(g)[o].kind = "expired"
  <2>1. /\ current.entries[o] = Nil /\ current.clients[o[1]] # Nil
        /\ o[2] <= current.clients[o[1]].hi
    BY <1>2, <1>3, <1>4 DEF Probe
  <2>2. T[o] = Nil
    <3>1. ASSUME NEW i \in current.seq + 1 .. Len(log), log[i].opid = o PROVE FALSE
      BY <3>1, <2>1, <1>2, <1>3 DEF IInv, WalIsNew
    <3> QED
      BY <3>1, <1>1, ReplayOfOp
  <2>3. g.entries[o] = Nil
    BY <2>1, <2>2, CandidateFields
  <2>4. ~ (o[2] > g.clients[o[1]].hi)
    BY <2>1, <1>2, <1>3
  <2> QED
    BY <2>1, <2>3, <2>4, <1>3 DEF Probe
<1> QED
  BY <1>3, <1>4
-----------------------------------------------------------------------------
(* What a reader of CURRENT finds is in force, and a serving writer compares with it. *)
LEMMA ReadsAgree == IInv => NothingForgotten
<1> SUFFICES ASSUME IInv, NEW f \in Facts
             PROVE  /\ ReadFact(f) = InForce(f)
                    /\ phase = "serving" =>
                         Rules!CurrentOf(index, f) = IF InForce(f) = BaseAbsent THEN Nil ELSE InForce(f)
  BY DEF NothingForgotten
<1> DEFINE I == ReplayIndex(log, current.seq)
<1>1. log \in Seq(Commands) /\ current.seq \in Nat /\ current.seq <= Len(log)
  BY GenTypes DEF IInv, TypeOK, Tells
<1>2. \A i \in 1..Len(log) : EntryOf(log[i]) # Nil /\ EntryOf(log[i]) # BaseAbsent
  BY <1>1, FrameTypes, CommandTypes
<1>3. ASSUME NEW i \in 1..Len(log), log[i].fact = f, \A j \in i + 1 .. Len(log) : log[j].fact # f
      PROVE  InForce(f) = EntryOf(log[i])
  <2>1. i \in 0 + 1 .. Len(log)
    OBVIOUS
  <2>2. WritesTo(log, f, 0) # {} /\ Max(WritesTo(log, f, 0)) = i
    BY <1>1, <1>3, <2>1, LastWrite
  <2> QED
    BY <2>2 DEF InForce
<1>4. ReadFact(f) = InForce(f)
  <2>1. CASE I[f] # Nil
    <3>1. PICK i \in current.seq + 1 .. Len(log) :
            /\ log[i].fact = f /\ I[f] = EntryOf(log[i])
            /\ \A j \in i + 1 .. Len(log) : log[j].fact # f
      BY <2>1, <1>1, ReplayOfFact
    <3>2. i \in 1..Len(log)
      BY <1>1
    <3> QED
      BY <3>1, <3>2, <2>1, <1>3 DEF ReadFact
  <2>2. CASE I[f] = Nil
    <3>1. \A i \in current.seq + 1 .. Len(log) : log[i].fact # f
      <4>1. \A i \in current.seq + 1 .. Len(log) : EntryOf(log[i]) # Nil
        BY <1>1, <1>2
      <4> QED
        BY <2>2, <4>1, <1>1, ReplayOfFact
    <3>2. CASE current.facts[f] = BaseAbsent /\ \A i \in 1..current.seq : log[i].fact # f
      <4>1. \A i \in 0 + 1 .. Len(log) : log[i].fact # f
        BY <3>1, <3>2, <1>1
      <4>2. InForce(f) = BaseAbsent
        BY <4>1 DEF InForce, WritesTo
      <4> QED
        BY <4>2, <3>2, <2>2 DEF ReadFact
    <3>3. ASSUME NEW i \in 1..current.seq, log[i].fact = f, current.facts[f] = EntryOf(log[i]),
                 \A j \in i + 1 .. current.seq : log[j].fact # f
          PROVE  ReadFact(f) = InForce(f)
      <4>1. i \in 1..Len(log) /\ \A j \in i + 1 .. Len(log) : log[j].fact # f
        BY <3>1, <3>3, <1>1
      <4> QED
        BY <4>1, <3>3, <2>2, <1>3 DEF ReadFact
    <3> QED
      BY <3>2, <3>3 DEF IInv, Tells, FactsTell
  <2> QED
    BY <2>1, <2>2
<1>5. ASSUME phase = "serving"
      PROVE  Rules!CurrentOf(index, f) = IF ReadFact(f) = BaseAbsent THEN Nil ELSE ReadFact(f)
  <2>1. I[f] = Nil \/ \E i \in 1..Len(log) : I[f] = EntryOf(log[i])
    BY <1>1, ReplayOfFact
  <2> QED
    BY <2>1, <1>2, <1>5 DEF Rules!CurrentOf, ReadFact, IInv, WriterTells
<1> QED
  BY <1>4, <1>5
-----------------------------------------------------------------------------
(* What a replay of the log leaves has the types of the writer's memory. *)
LEMMA ReplayTypes ==
    ASSUME NEW l \in Seq(Commands), NEW s \in Nat
    PROVE  ReplayIndex(l, s) \in Rules!Indexes /\ ReplayTx(l, s) \in Rules!TxIndexes
<1>1. ASSUME NEW f \in Facts PROVE ReplayIndex(l, s)[f] \in Rules!Entry \cup {Nil}
  <2>1. \A i \in s + 1 .. Len(l) : EntryOf(l[i]) \in Rules!Entry
    BY FrameTypes, CommandTypes
  <2> QED
    BY <2>1, ReplayOfFact
<1>2. ASSUME NEW o \in OpIds PROVE ReplayTx(l, s)[o] \in Rules!TxEntry \cup {Nil}
  <2>1. \A i \in s + 1 .. Len(l) :
           [digest |-> Rules!ContentDigest(l[i]), seq |-> i] \in Rules!TxEntry
    BY FrameTypes, CommandTypes
  <2>2. ASSUME NEW i \in s + 1 .. Len(l),
               ReplayTx(l, s)[o] = [digest |-> Rules!ContentDigest(l[i]), seq |-> i]
        PROVE  ReplayTx(l, s)[o] \in Rules!TxEntry
    BY <2>1, <2>2
  <2> QED
    BY <2>2, ReplayOfOp
<1> QED
  BY <1>1, <1>2 DEF ReplayIndex, ReplayTx, Rules!Indexes, Rules!TxIndexes

(* Replaying one more frame is what the writer does with it when it commits it. *)
LEMMA ReplayOneMore ==
    ASSUME NEW l \in Seq(Commands), NEW c \in Commands, NEW s \in Nat, s <= Len(l)
    PROVE  /\ ReplayIndex(Append(l, c), s) = Rules!ApplyIndex(ReplayIndex(l, s), c)
           /\ ReplayTx(Append(l, c), s) = Rules!RecordTx(ReplayTx(l, s), c, Len(l) + 1)
<1> DEFINE m == Append(l, c)
           n == Len(l) + 1
<1>1. /\ m \in Seq(Commands) /\ Len(m) = n /\ n \in s + 1 .. Len(m) /\ m[n] = c /\ n \in Nat
      /\ \A i \in s + 1 .. Len(l) : i \in s + 1 .. Len(m) /\ m[i] = l[i]
      /\ \A i \in s + 1 .. Len(m) : i = n \/ i \in s + 1 .. Len(l)
  OBVIOUS
<1> HIDE DEF m
<1>2. ASSUME NEW f \in Facts
      PROVE  ReplayIndex(m, s)[f] = IF f = c.fact THEN EntryOf(c) ELSE ReplayIndex(l, s)[f]
  <2>1. CASE f = c.fact
    <3>1. WritesTo(m, f, s) # {} /\ Max(WritesTo(m, f, s)) = n
      BY <1>1, <2>1, LastWrite
    <3> QED
      BY <3>1, <1>1, <2>1 DEF ReplayIndex
  <2>2. CASE f # c.fact
    <3>1. WritesTo(m, f, s) = WritesTo(l, f, s)
      BY <1>1, <2>2 DEF WritesTo
    <3>2. CASE WritesTo(l, f, s) = {}
      BY <3>1, <3>2, <2>2 DEF ReplayIndex
    <3>3. CASE WritesTo(l, f, s) # {}
      <4>1. Max(WritesTo(l, f, s)) \in s + 1 .. Len(l)
        BY <3>3, WritesBounded
      <4>2. m[Max(WritesTo(l, f, s))] = l[Max(WritesTo(l, f, s))]
        BY <4>1, <1>1
      <4> QED
        BY <4>2, <3>1, <3>3, <2>2 DEF ReplayIndex
    <3> QED
      BY <3>2, <3>3
  <2> QED
    BY <2>1, <2>2
<1>3. ASSUME NEW o \in OpIds
      PROVE  ReplayTx(m, s)[o] = IF o = c.opid THEN [digest |-> Rules!ContentDigest(c), seq |-> n]
                                 ELSE ReplayTx(l, s)[o]
  <2>1. CASE o = c.opid
    <3>1. n \in FramesOf(m, o, s)
      BY <1>1, <2>1 DEF FramesOf
    <3>2. FramesOf(m, o, s) \in SUBSET Nat /\ \A x \in FramesOf(m, o, s) : x <= n
      BY <1>1 DEF FramesOf
    <3>3. Max(FramesOf(m, o, s)) \in FramesOf(m, o, s) /\ Max(FramesOf(m, o, s)) >= n
      BY <3>1, <3>2, <1>1, MaxOfNats
    <3>4. Max(FramesOf(m, o, s)) = n
      BY <3>2, <3>3, <1>1
    <3> QED
      BY <3>1, <3>4, <1>1, <2>1 DEF ReplayTx
  <2>2. CASE o # c.opid
    <3>1. FramesOf(m, o, s) = FramesOf(l, o, s)
      BY <1>1, <2>2 DEF FramesOf
    <3>2. CASE FramesOf(l, o, s) = {}
      BY <3>1, <3>2, <2>2 DEF ReplayTx
    <3>3. CASE FramesOf(l, o, s) # {}
      <4>1. Max(FramesOf(l, o, s)) \in s + 1 .. Len(l)
        BY <3>3, FramesBounded
      <4>2. m[Max(FramesOf(l, o, s))] = l[Max(FramesOf(l, o, s))]
        BY <4>1, <1>1
      <4> QED
        BY <4>2, <3>1, <3>3, <2>2 DEF ReplayTx
    <3> QED
      BY <3>2, <3>3
  <2> QED
    BY <2>1, <2>2
<1>4. ReplayIndex(m, s) = Rules!ApplyIndex(ReplayIndex(l, s), c)
  BY <1>2, Zenon DEF ReplayIndex, Rules!ApplyIndex, EntryOf
<1>5. ReplayTx(m, s) = Rules!RecordTx(ReplayTx(l, s), c, n)
  BY <1>3, Zenon DEF ReplayTx, Rules!RecordTx
<1> QED
  BY <1>4, <1>5 DEF m

(* What a generation says of the log does not depend on the frames after its seq. *)
LEMMA TellsAppend ==
    ASSUME NEW g \in Generation, NEW l \in Seq(Commands), NEW c \in Commands, Tells(g, l)
    PROVE  Tells(g, Append(l, c))
<1> DEFINE m == Append(l, c)
<1>1. /\ g.seq \in Nat /\ g.seq <= Len(m)
      /\ \A i \in 1..g.seq : m[i] = l[i]
  BY GenTypes DEF Tells
<1> HIDE DEF m
<1>2. FactsTell(g, m)
  BY <1>1 DEF FactsTell, Tells
<1>3. ClientsTell(g, m)
  BY <1>1 DEF ClientsTell, ClientTells, Tells
<1>4. EntriesTell(g, m)
  BY <1>1 DEF EntriesTell, Tells
<1> QED
  BY <1>1, <1>2, <1>3, <1>4 DEF Tells, m
-----------------------------------------------------------------------------
(* The initial state. *)
LEMMA InitInv == Init => IInv
<1> SUFFICES ASSUME Init PROVE IInv
  OBVIOUS
<1> USE DEF Init
<1>1. log = <<>> /\ Len(log) = 0 /\ log \in Seq(Commands)
  OBVIOUS
<1>2. Genesis \in Generation
  BY CompactionAssumption DEF Genesis, Generation
<1>3. TypeOK
  <2>1. index \in Rules!Indexes /\ tx \in Rules!TxIndexes
    BY DEF Rules!EmptyIndex, Rules!EmptyTx, Rules!Indexes, Rules!TxIndexes
  <2>2. Len(log) <= MaxLog
    BY <1>1, CompactionAssumption
  <2> QED
    BY <1>1, <1>2, <2>1, <2>2 DEF TypeOK
<1>4. AppliedOnce
  BY <1>1 DEF AppliedOnce
<1>5. Tells(current, log)
  BY <1>1 DEF Genesis, Tells, FactsTell, ClientsTell, EntriesTell
<1>6. WalIsNew
  BY <1>1 DEF WalIsNew, Genesis
<1>7. PacketFollows
  BY DEF PacketFollows
<1>8. index = ReplayIndex(log, current.seq) /\ tx = ReplayTx(log, current.seq)
  BY <1>1 DEF Genesis, ReplayIndex, ReplayTx, WritesTo, FramesOf, Rules!EmptyIndex, Rules!EmptyTx
<1> QED
  BY <1>3, <1>4, <1>5, <1>6, <1>7, <1>8 DEF IInv, WriterTells

(* A command the rules apply has an operation id that neither memory holds, a txid *)
(* the base has not seen, and a version above the one in force.                      *)
LEMMA AppliedIsFresh ==
    ASSUME NEW c \in Commands, Rules!Decide(index, tx, c) = "APPLIED"
    PROVE  /\ tx[c.opid] = Nil /\ base.entries[c.opid] = Nil
           /\ base.clients[c.opid[1]] # Nil => c.opid[2] > base.clients[c.opid[1]].hi
           /\ Rules!CurrentOf(index, c.fact) = Nil \/ c.ver > Rules!CurrentOf(index, c.fact).ver
<1>1. Rules!ClassifyDedup(tx, c) \notin
        {"dedup_replay", "txid_conflict", "idempotency_expired", "abstain_base"}
  BY DEF Rules!Decide
<1>2. Rules!Preflight(Rules!CurrentOf(index, c.fact), c) \notin {"stale", "idempotent", "conflict"}
  BY <1>1, Zenon DEF Rules!Decide
<1>3. tx[c.opid] = Nil
  BY <1>1 DEF Rules!ClassifyDedup, Rules!TxCheck
<1>4. Rules!DedupProbe(c) \notin {"replay", "conflict", "expired", "abstain"}
  BY <1>1, <1>3 DEF Rules!ClassifyDedup, Rules!TxCheck
<1>5. Probe(base)[c.opid].kind \notin {"entry", "expired"}
  BY <1>4 DEF Rules!DedupProbe
<1>6. c.opid \in OpIds
  BY CommandTypes
<1>7. /\ base.entries[c.opid] = Nil
      /\ base.clients[c.opid[1]] = Nil \/ c.opid[2] > base.clients[c.opid[1]].hi
  BY <1>5, <1>6 DEF Probe
<1>8. \/ Rules!CurrentOf(index, c.fact) = Nil
      \/ c.ver > Rules!CurrentOf(index, c.fact).ver
  BY <1>2 DEF Rules!Preflight
<1> QED
  BY <1>3, <1>7, <1>8

(* So no frame of the log has its operation id, and all of its fact are older. *)
LEMMA AppliedIsNewest ==
    ASSUME IInv, phase = "serving", NEW c \in Commands, Rules!Decide(index, tx, c) = "APPLIED",
           NEW i \in 1..Len(log)
    PROVE  log[i].opid # c.opid /\ (log[i].fact = c.fact => log[i].ver < c.ver)
<1>1. /\ log \in Seq(Commands) /\ current.seq \in Nat /\ current.seq <= Len(log)
      /\ base = current /\ tx = ReplayTx(log, current.seq) /\ current \in Generation
  BY GenTypes DEF IInv, TypeOK, Tells, WriterTells
<1>2. /\ c.opid \in OpIds /\ c.opid[1] \in Clients /\ c.opid[2] \in Nat
      /\ c.fact \in Facts /\ c.ver \in Nat
  BY CommandTypes, OpIdTypes
<1>3. ASSUME log[i].opid = c.opid PROVE FALSE
  <2>1. CASE i > current.seq
    <3>1. i \in current.seq + 1 .. Len(log)
      BY <2>1, <1>1
    <3>2. tx[log[i].opid] # Nil
      BY <3>1, <1>1, InReplay
    <3> QED
      BY <3>2, <1>3, AppliedIsFresh
  <2>2. CASE i <= current.seq
    <3>1. i \in 1..current.seq
      BY <2>2, <1>1
    <3>2. /\ current.clients[c.opid[1]] # Nil
          /\ c.opid[2] <= current.clients[c.opid[1]].hi
      BY <3>1, <1>2, <1>3 DEF IInv, Tells, ClientsTell, ClientTells
    <3>3. c.opid[2] > current.clients[c.opid[1]].hi
      BY <3>2, <1>1, AppliedIsFresh
    <3>4. current.clients[c.opid[1]].hi \in Nat
      BY <3>2, <1>1, <1>2, GenTypes
    <3> QED
      BY <3>2, <3>3, <3>4, <1>2
  <2> QED
    BY <2>1, <2>2, <1>1
<1>4. ASSUME log[i].fact = c.fact PROVE log[i].ver < c.ver
  <2> DEFINE f == c.fact
             m == Max(WritesTo(log, f, 0))
  <2>1. i \in WritesTo(log, f, 0) /\ WritesTo(log, f, 0) # {}
    BY <1>4 DEF WritesTo
  <2>2. /\ m \in 0 + 1 .. Len(log) /\ log[m].fact = f
        /\ \A j \in m + 1 .. Len(log) : log[j].fact # f
    BY <2>1, <1>1, WritesBounded, 0 \in Nat
  <2> HIDE DEF m
  <2>3. m \in 1..Len(log) /\ i <= m
    BY <2>2, <1>4
  <2>4. EntryOf(log[m]) # BaseAbsent /\ EntryOf(log[m]) # Nil /\ log[m].ver \in Nat /\ log[i].ver \in Nat
    BY <2>3, <1>1, FrameTypes, CommandTypes
  <2>5. Rules!CurrentOf(index, f) = EntryOf(log[m])
    <3>1. InForce(f) = EntryOf(log[m])
      BY <2>1 DEF InForce, m
    <3> QED
      BY <3>1, <2>4, <1>2, ReadsAgree DEF NothingForgotten
  <2>6. c.ver > log[m].ver
    BY <2>4, <2>5, AppliedIsFresh DEF EntryOf
  <2>7. i = m \/ log[i].ver < log[m].ver
    BY <2>2, <2>3, <1>4 DEF IInv, AppliedOnce
  <2> QED
    BY <2>4, <2>6, <2>7, <1>2
<1> QED
  BY <1>3, <1>4
-----------------------------------------------------------------------------
(* Each action keeps the invariant.  A commit: the frame is new to both memories. *)
LEMMA CommitKeeps ==
    ASSUME IInv, NEW c \in Commands, Commit(c)
    PROVE  IInv'
<1> DEFINE n == Len(log) + 1
<1>1. /\ log \in Seq(Commands) /\ current \in Generation /\ base \in Generation
      /\ current.seq \in Nat /\ current.seq <= Len(log)
      /\ phase = "serving" /\ phase' = "serving" /\ base = current
      /\ index = ReplayIndex(log, current.seq) /\ tx = ReplayTx(log, current.seq)
      /\ packet = Nil
  BY GenTypes DEF IInv, TypeOK, Tells, WriterTells, PacketFollows, Commit
<1>2. /\ log' = Append(log, c) /\ Len(log') = n /\ log' \in Seq(Commands) /\ n <= MaxLog
      /\ log'[n] = c /\ \A i \in 1..Len(log) : log'[i] = log[i]
      /\ \A i \in 1..n : i = n \/ i \in 1..Len(log)
      /\ current' = current /\ base' = base /\ u8' = u8 /\ packet' = packet
      /\ index' = Rules!ApplyIndex(index, c) /\ tx' = Rules!RecordTx(tx, c, n)
  BY <1>1, CompactionAssumption DEF Commit
<1>3. index' = ReplayIndex(log', current.seq) /\ tx' = ReplayTx(log', current.seq)
  BY <1>1, <1>2, ReplayOneMore
<1>4. index' \in Rules!Indexes /\ tx' \in Rules!TxIndexes
  BY <1>1, <1>2, <1>3, ReplayTypes
<1>5. TypeOK'
  BY <1>1, <1>2, <1>4 DEF TypeOK, IInv
<1>6. AppliedOnce'
  <2>1. ASSUME NEW i \in 1..n, NEW j \in 1..n, i < j
        PROVE  log'[i].opid # log'[j].opid /\ (log'[i].fact = log'[j].fact => log'[i].ver < log'[j].ver)
    <3>1. CASE j = n
      <4>1. i \in 1..Len(log)
        BY <2>1, <3>1, <1>2
      <4> QED
        BY <4>1, <3>1, <1>1, <1>2, AppliedIsNewest DEF Commit
    <3>2. CASE j # n
      <4>1. i \in 1..Len(log) /\ j \in 1..Len(log)
        BY <2>1, <3>2, <1>1, <1>2
      <4> QED
        BY <4>1, <2>1, <1>2 DEF IInv, AppliedOnce
    <3> QED
      BY <3>1, <3>2
  <2> QED
    BY <2>1, <1>2 DEF AppliedOnce
<1>7. Tells(current, log)'
  <2>1. Tells(current, Append(log, c))
    BY <1>1, TellsAppend DEF IInv
  <2> QED
    BY <2>1, <1>2
<1>8. WalIsNew'
  <2>1. ASSUME NEW i \in current.seq + 1 .. n, current.clients[log'[i].opid[1]] # Nil
        PROVE  log'[i].opid[2] > current.clients[log'[i].opid[1]].hi
    <3>1. CASE i = n
      BY <3>1, <2>1, <1>1, <1>2, AppliedIsFresh DEF Commit
    <3>2. CASE i # n
      <4>1. i \in current.seq + 1 .. Len(log) /\ log'[i] = log[i]
        BY <3>2, <1>1, <1>2
      <4> QED
        BY <4>1, <2>1 DEF IInv, WalIsNew
    <3> QED
      BY <3>1, <3>2
  <2> QED
    BY <2>1, <1>2 DEF WalIsNew
<1>9. PacketFollows'
  BY <1>1, <1>2 DEF PacketFollows
<1>10. WriterTells'
  BY <1>1, <1>2, <1>3 DEF WriterTells
<1> QED
  BY <1>5, <1>6, <1>7, <1>8, <1>9, <1>10 DEF IInv

(* A step that changes neither the log nor CURRENT keeps what they say of each other. *)
LEMMA SameLog ==
    ASSUME IInv, UNCHANGED <<log, current>>
    PROVE  AppliedOnce' /\ Tells(current, log)' /\ WalIsNew'
<1>1. AppliedOnce'
  BY DEF IInv, AppliedOnce
<1>2. Tells(current, log)'
  BY DEF IInv
<1>3. WalIsNew'
  BY DEF IInv, WalIsNew
<1> QED
  BY <1>1, <1>2, <1>3

(* No writer, no packet: the writer stops, a compaction fails, or the process ends. *)
LEMMA StopKeeps ==
    ASSUME IInv, UNCHANGED <<log, current, base, index, tx, u8>>,
           packet' = Nil, phase' \in {"stopped", "stuck"}
    PROVE  IInv'
<1>1. TypeOK'
  BY DEF IInv, TypeOK
<1>2. PacketFollows' /\ WriterTells'
  BY DEF PacketFollows, WriterTells
<1> QED
  BY <1>1, <1>2, SameLog DEF IInv

(* The packet is built. *)
LEMMA PrepareKeeps ==
    ASSUME IInv, NEW r \in Retentions, Prepare(r)
    PROVE  IInv'
<1>1. /\ UNCHANGED <<log, current, base, index, tx, u8>> /\ packet' = Candidate(r)
      /\ phase' = "prepared" /\ current.gen + 1 <= MaxGen
  BY DEF Prepare, Compactable
<1>2. /\ packet' \in Generation /\ Tells(packet', log) /\ packet'.seq = Len(log)
      /\ KeepsForgotten(current, packet')
  BY <1>1, CandidateType, CandidateTells, CandidateFields, CandidateKeeps
<1>3. TypeOK'
  BY <1>1, <1>2 DEF IInv, TypeOK
<1>4. PacketFollows'
  BY <1>1, <1>2, SentinelAssumption DEF PacketFollows
<1>5. WriterTells'
  BY <1>1 DEF WriterTells
<1> QED
  BY <1>1, <1>3, <1>4, <1>5, SameLog DEF IInv

(* CURRENT moves to a packet that tells of the whole log: its WAL is empty. *)
LEMMA MoveKeeps ==
    ASSUME IInv, phase = "prepared", UNCHANGED <<log, base, index, tx, u8>>, current' = packet,
           \/ packet' = packet /\ phase' = "published"
           \/ packet' = Nil /\ phase' = "stuck"
    PROVE  IInv'
<1>1. /\ packet \in Generation /\ Tells(packet, log) /\ packet.seq = Len(log)
      /\ log \in Seq(Commands)
  BY SentinelAssumption DEF IInv, TypeOK, PacketFollows
<1>2. TypeOK'
  BY <1>1 DEF IInv, TypeOK
<1>3. AppliedOnce'
  BY DEF IInv, AppliedOnce
<1>4. Tells(current, log)'
  BY <1>1
<1>5. WalIsNew'
  BY <1>1 DEF WalIsNew
<1>6. PacketFollows'
  BY <1>1 DEF PacketFollows
<1>7. WriterTells'
  BY DEF WriterTells
<1> QED
  BY <1>2, <1>3, <1>4, <1>5, <1>6, <1>7 DEF IInv

(* The compacted writer starts from CURRENT with an empty memory: its WAL is empty. *)
LEMMA ActivateKeeps ==
    ASSUME IInv, Activate
    PROVE  IInv'
<1>1. /\ log' = log /\ current' = current /\ base' = current
      /\ packet' = Nil /\ phase' = "serving" /\ u8' \in BOOLEAN
      /\ index' = Rules!EmptyIndex /\ tx' = Rules!EmptyTx
  BY DEF Activate
<1>2. log \in Seq(Commands) /\ current \in Generation /\ current.seq = Len(log)
  BY DEF IInv, TypeOK, PacketFollows, Activate
<1>3. ReplayIndex(log, current.seq) = Rules!EmptyIndex /\ ReplayTx(log, current.seq) = Rules!EmptyTx
  <2>1. \A x : WritesTo(log, x, current.seq) = {} /\ FramesOf(log, x, current.seq) = {}
    BY <1>2 DEF WritesTo, FramesOf
  <2> QED
    BY <2>1 DEF ReplayIndex, ReplayTx, Rules!EmptyIndex, Rules!EmptyTx
<1>4. index' \in Rules!Indexes /\ tx' \in Rules!TxIndexes
  BY <1>1 DEF Rules!EmptyIndex, Rules!EmptyTx, Rules!Indexes, Rules!TxIndexes
<1>5. TypeOK'
  BY <1>1, <1>2, <1>4 DEF IInv, TypeOK
<1>6. PacketFollows' /\ WriterTells'
  BY <1>1, <1>3 DEF PacketFollows, WriterTells
<1> QED
  BY <1>1, <1>5, <1>6, SameLog DEF IInv

(* The resumed writer replays the WAL of CURRENT. *)
LEMMA ResumeKeeps ==
    ASSUME IInv, NEW domain \in BOOLEAN, Resume(domain)
    PROVE  IInv'
<1>1. /\ log' = log /\ current' = current /\ base' = current /\ packet' = packet
      /\ phase' = "serving" /\ u8' = domain /\ phase = "stopped"
      /\ index' = ReplayIndex(log, current.seq) /\ tx' = ReplayTx(log, current.seq)
  BY DEF Resume
<1>2. log \in Seq(Commands) /\ current \in Generation /\ current.seq \in Nat
  BY GenTypes DEF IInv, TypeOK
<1>3. index' \in Rules!Indexes /\ tx' \in Rules!TxIndexes
  BY <1>1, <1>2, ReplayTypes
<1>4. TypeOK'
  BY <1>1, <1>2, <1>3 DEF IInv, TypeOK
<1>5. PacketFollows' /\ WriterTells'
  BY <1>1 DEF IInv, PacketFollows, WriterTells
<1> QED
  BY <1>1, <1>4, <1>5, SameLog DEF IInv

(* The invariant is inductive. *)
LEMMA NextInv == IInv /\ [Next]_vars => IInv'
<1> SUFFICES ASSUME IInv, [Next]_vars PROVE IInv'
  OBVIOUS
<1>1. ASSUME NEW c \in Commands, Commit(c) PROVE IInv'
  BY <1>1, CommitKeeps
<1>2. ASSUME NEW r \in Retentions, Prepare(r) PROVE IInv'
  BY <1>2, PrepareKeeps
<1>3. phase \in {"serving", "stopped", "stuck"} => packet = Nil
  BY DEF IInv, PacketFollows
<1>4. CASE WriterStops \/ PrepareFails \/ PrepareRaises
  BY <1>3, <1>4, StopKeeps DEF WriterStops, PrepareFails, PrepareRaises
<1>5. CASE Publish
  BY <1>5, MoveKeeps DEF Publish
<1>6. CASE PublishFails
  BY <1>6, MoveKeeps, StopKeeps DEF PublishFails
<1>7. CASE Activate
  BY <1>7, ActivateKeeps
<1>8. CASE ActivateFails \/ ProcessEnds
  BY <1>8, StopKeeps DEF ActivateFails, ProcessEnds
<1>9. ASSUME NEW domain \in BOOLEAN, Resume(domain) PROVE IInv'
  BY <1>9, ResumeKeeps
<1>10. CASE UNCHANGED vars
  <2>1. UNCHANGED <<log, current, base, index, tx, u8, packet, phase>>
    BY <1>10 DEF vars
  <2> QED
    BY <2>1, SameLog DEF IInv, TypeOK, PacketFollows, WriterTells
<1> QED
  BY <1>1, <1>2, <1>4, <1>5, <1>6, <1>7, <1>8, <1>9, <1>10 DEF Next
(* A retry of a frame is answered with its sequence number, or as expired when some *)
(* retention of its client's newest txid has let it go.                               *)
LEMMA RetriesAnswered == IInv => RetriesRemembered
<1> SUFFICES ASSUME IInv, phase = "serving", NEW i \in 1..Len(log)
             PROVE  \/ RetryOf(i) = "dedup_replay" /\ Rules!DedupSeq(tx, log[i]) = i
                    \/ /\ RetryOf(i) = "idempotency_expired"
                       /\ \E j \in 1..Len(log), r \in Retentions :
                            /\ log[j].opid[1] = log[i].opid[1]
                            /\ log[i].opid[2] <= log[j].opid[2] - r
  BY DEF RetriesRemembered
<1> DEFINE o == log[i].opid
           k == o[1]
<1>1. /\ log \in Seq(Commands) /\ current \in Generation
      /\ current.seq \in Nat /\ current.seq <= Len(log)
      /\ base = current /\ tx = ReplayTx(log, current.seq)
  BY GenTypes DEF IInv, TypeOK, Tells, WriterTells
<1>2. o \in OpIds /\ k \in Clients /\ o[2] \in Nat
  BY <1>1, FrameTypes
<1>3. ASSUME NEW j \in 1..Len(log), log[j].opid = o PROVE j = i
  BY <1>3, <1>1 DEF IInv, AppliedOnce
<1> HIDE DEF k
<1>4. CASE tx[o] # Nil
  <2>1. PICK j \in current.seq + 1 .. Len(log) :
          log[j].opid = o /\ tx[o] = [digest |-> Rules!ContentDigest(log[j]), seq |-> j]
    <3>1. \/ ReplayTx(log, current.seq)[o] = Nil
          \/ \E j \in current.seq + 1 .. Len(log) :
               /\ log[j].opid = o
               /\ ReplayTx(log, current.seq)[o] = [digest |-> Rules!ContentDigest(log[j]), seq |-> j]
      <4>1. log \in Seq(Commands) /\ current.seq \in Nat /\ o \in OpIds
        BY <1>1, <1>2
      <4> HIDE DEF o
      <4> QED
        BY <4>1, ReplayOfOp
    <3> QED
      BY <3>1, <1>1, <1>4
  <2>2. j = i
    BY <1>1, <1>3, <2>1
  <2>3. tx[o].digest = Rules!ContentDigest(log[i]) /\ tx[o].seq = i
    BY <2>1, <2>2
  <2>4. RetryOf(i) = "dedup_replay"
    BY <1>4, <2>3 DEF RetryOf, Rules!ClassifyDedup, Rules!TxCheck
  <2> QED
    BY <1>4, <2>3, <2>4 DEF Rules!DedupSeq
<1>5. CASE tx[o] = Nil
  <2>1. i \in 1..current.seq
    <3>1. ~ (i \in current.seq + 1 .. Len(log))
      BY <1>1, <1>5, InReplay
    <3> QED
      BY <3>1, <1>1
  <2>2. ClientTells(current, log, k)
    BY <2>1, <1>2 DEF IInv, Tells, ClientsTell, k
  <2>3. CASE current.entries[o] # Nil
    <3>1. /\ current.entries[o].seq = i
          /\ current.entries[o].digest = Rules!ContentDigest(log[i])
      <4>1. /\ current.entries[o].seq \in 1..current.seq
            /\ log[current.entries[o].seq].opid = o
            /\ current.entries[o].digest = Rules!ContentDigest(log[current.entries[o].seq])
        BY <2>3, <1>2 DEF IInv, Tells, EntriesTell
      <4>2. current.entries[o].seq \in 1..Len(log)
        BY <4>1, <1>1
      <4> QED
        BY <4>1, <4>2, <1>3
    <3>2. /\ Probe(base)[o].kind = "entry" /\ Probe(base)[o].seq = i
          /\ Probe(base)[o].digest = Rules!ContentDigest(log[i])
      BY <1>1, <1>2, <2>3, <3>1 DEF Probe
    <3>3. Rules!DedupProbe(log[i]) = "replay"
      BY <3>2 DEF Rules!DedupProbe
    <3>4. RetryOf(i) = "dedup_replay"
      BY <1>5, <3>3 DEF RetryOf, Rules!ClassifyDedup, Rules!TxCheck
    <3> QED
      BY <1>5, <3>2, <3>4 DEF Rules!DedupSeq
  <2>4. CASE current.entries[o] = Nil
    <3>1. ~ (o[2] >= current.clients[k].lo)
      BY <2>1, <2>4 DEF IInv, Tells, EntriesTell, k
    <3>2. PICK r \in Retentions : o[2] <= current.clients[k].hi - r
      BY <2>1, <2>2, <3>1 DEF ClientTells, k
    <3>3. PICK j \in 1..Len(log) : log[j].opid = <<k, current.clients[k].hi>>
      BY <2>2, <1>1 DEF ClientTells
    <3>4. /\ current.clients[k] # Nil
          /\ ~ (o[2] > current.clients[k].hi)
      <4>1. current.clients[k] # Nil /\ o[2] <= current.clients[k].hi
        BY <2>1, <2>2 DEF ClientTells, k
      <4> QED
        BY <4>1, <1>1, <1>2, GenTypes
    <3>5. Probe(base)[o].kind = "expired"
      BY <1>1, <1>2, <2>4, <3>4 DEF Probe, k
    <3>6. Rules!DedupProbe(log[i]) = "expired"
      BY <3>5 DEF Rules!DedupProbe
    <3>7. RetryOf(i) = "idempotency_expired"
      BY <1>5, <3>6 DEF RetryOf, Rules!ClassifyDedup, Rules!TxCheck
    <3> QED
      BY <3>2, <3>3, <3>7 DEF k
  <2> QED
    BY <2>3, <2>4
<1> QED
  BY <1>4, <1>5

(* A generation that tells of a log is one DedupTable.build accepts. *)
LEMMA TellsCanonical ==
    ASSUME NEW g \in Generation, NEW l \in Seq(Commands), Tells(g, l)
    PROVE  Canonical(g)
<1>1. ASSUME NEW k \in Clients, g.clients[k] # Nil PROVE g.clients[k].lo <= g.clients[k].hi
  BY <1>1 DEF Tells, ClientsTell, ClientTells
<1>2. ASSUME NEW o \in OpIds, g.entries[o] # Nil
      PROVE  /\ g.clients[o[1]] # Nil
             /\ o[2] \in g.clients[o[1]].lo .. g.clients[o[1]].hi
             /\ g.entries[o].seq \in 1..g.seq
  <2>1. /\ g.entries[o].seq \in 1..g.seq /\ l[g.entries[o].seq].opid = o
        /\ o[2] >= g.clients[o[1]].lo
    BY <1>2 DEF Tells, EntriesTell
  <2>2. o[1] \in Clients /\ o[2] \in Nat
    BY OpIdTypes
  <2>3. g.clients[o[1]] # Nil /\ o[2] <= g.clients[o[1]].hi
    BY <2>1, <2>2 DEF Tells, ClientsTell, ClientTells
  <2>4. g.clients[o[1]].lo \in Nat /\ g.clients[o[1]].hi \in Nat
    BY <2>2, <2>3, GenTypes
  <2> QED
    BY <2>1, <2>2, <2>3, <2>4
<1> QED
  BY <1>1, <1>2 DEF Canonical
-----------------------------------------------------------------------------
(* Every variable keeps the shape its comment gives it. *)
THEOREM Typed == Spec => []TypeOK
<1>1. IInv => TypeOK
  BY DEF IInv
<1> QED
  BY <1>1, InitInv, NextInv, PTL DEF Spec

(* No compaction, failure or restart changes what a reader of CURRENT finds, or what *)
(* a serving writer compares versions with (_materialize_state, activate_compacted).  *)
THEOREM NothingIsForgotten == Spec => []NothingForgotten
BY ReadsAgree, InitInv, NextInv, PTL DEF Spec

(* No operation id takes effect twice, across compactions and restarts, whatever the *)
(* retention (_merge_dedup, DedupTable.probe).                                         *)
THEOREM AppliedAtMostOnce == Spec => []AppliedOnce
<1>1. IInv => AppliedOnce
  BY DEF IInv
<1> QED
  BY <1>1, InitInv, NextInv, PTL DEF Spec

(* What the published table forgot stays forgotten (publish_maintenance). *)
THEOREM ForgetsOnce == Spec => ForgetsForGood
<1>1. IInv /\ [Next]_vars => [KeepsForgotten(current, current')]_vars
  <2> SUFFICES ASSUME IInv, Next PROVE KeepsForgotten(current, current')
    OBVIOUS
  <2>1. KeepsForgotten(current, current)
    <3>1. \A k \in Clients : current.clients[k] # Nil => current.clients[k].lo \in Nat
      BY GenTypes DEF IInv, TypeOK
    <3> QED
      BY <3>1, OpIdTypes DEF KeepsForgotten
  <2>2. CASE current' = current
    BY <2>1, <2>2
  <2>3. CASE phase = "prepared" /\ current' = packet
    BY <2>3 DEF IInv, PacketFollows
  <2>4. current' = current \/ (phase = "prepared" /\ current' = packet)
    BY DEF Next, Commit, Prepare, WriterStops, PrepareFails, PrepareRaises, Publish, PublishFails,
           Activate, ActivateFails, ProcessEnds, Resume
  <2> QED
    BY <2>2, <2>3, <2>4
<1> QED
  BY <1>1, InitInv, NextInv, PTL DEF Spec, ForgetsForGood

(* A retry of a write that took effect is answered with its own sequence number, or as *)
(* expired, and that only once its client's newest txid is a retention ahead of it.      *)
THEOREM RetriesAreRemembered == Spec => []RetriesRemembered
BY RetriesAnswered, InitInv, NextInv, PTL DEF Spec

(* No compaction builds a table that DedupTable.build refuses, however the retentions *)
(* of successive compactions differ.                                                    *)
THEOREM TablesAreCanonical == Spec => []TablesCanonical
<1>1. IInv => TablesCanonical
  <2> SUFFICES ASSUME IInv PROVE TablesCanonical
    OBVIOUS
  <2>1. log \in Seq(Commands) /\ current \in Generation /\ packet \in Generation \cup {Nil}
    BY DEF IInv, TypeOK
  <2>2. Canonical(current)
    BY <2>1, TellsCanonical DEF IInv
  <2>3. packet # Nil => Canonical(packet)
    BY <2>1, TellsCanonical DEF IInv, PacketFollows
  <2> QED
    BY <2>2, <2>3 DEF TablesCanonical
<1> QED
  BY <1>1, InitInv, NextInv, PTL DEF Spec
=============================================================================
