---------------------------- MODULE TxRankProofs ----------------------------
(***************************************************************************)
(* The serial order of TxScheduler.  Its witness is a rank                 *)
(* <<major[o], minor[o]>> that an operation gets when it begins to hold:   *)
(* its txid when it comes from the queue, and on the fast path, which      *)
(* draws no txid, the shard's watermark and a tick of a clock.  The lemmas *)
(* show that a Touch and a Settle keep the histories of the shards in      *)
(* order (Service) and explained by some ranks (Ranked).                   *)
(***************************************************************************)
EXTENDS TxHistory, TLAPS

\* a comes before b in the order of ranks.
Lower(major, minor, a, b) ==
    major[a] < major[b] \/ (major[a] = major[b] /\ minor[a] < minor[b])

\* On one shard, ranks agree with txids, the watermark, nodes and both orders.
RankedOn(major, minor, sh, s) ==
    /\ \A p \in sh.before : Lower(major, minor, p[1], p[2])
    /\ \A o \in sh.served :
          /\ major[o] <= sh.committed
          /\ Multi(o) => major[o] = txid[o] /\ sh.node[o] = txid[o]
    /\ \A w \in sh.queue \ sh.holds :
          /\ \A a \in sh.served : Conflict(a, w, s) => major[a] < sh.node[w]
          /\ ~Multi(w) => \A a \in earlier[w] : major[a] < sh.node[w]
    /\ \A b \in sh.served \ MultiShard : \A a \in earlier[b] :
          s \in Participants(a) => Lower(major, minor, a, b)

\* Ranks explain every shard, and multi-shard ids come after what is done.
Ranked(major, minor, clock) ==
    /\ \A o \in Ops : minor[o] <= clock
    /\ \A s \in Shards : RankedOn(major, minor, shard[s], s)
    /\ \A b \in MultiShard : \A a \in earlier[b] : major[a] < txid[b]

Ranks == [Ops -> Nat]

\* Some ranks explain the execution so far.
Serial ==
    /\ Service
    /\ \E major \in Ranks, minor \in Ranks, clock \in Nat : Ranked(major, minor, clock)

-----------------------------------------------------------------------------
(* What the lemmas need of the invariants.                                 *)

(* The types that ranks are about.                                         *)
LEMMA HistoryTypes ==
    ASSUME IInv
    PROVE  /\ nextTxid \in Nat
           /\ \A s \in Shards : /\ shard[s] \in ShardType
                               /\ shard[s].served \subseteq Ops /\ shard[s].queue \subseteq Ops
                               /\ shard[s].committed \in Nat /\ shard[s].node \in [Ops -> Nat]
<1>1. nextTxid \in Nat /\ shard \in [Shards -> ShardType]
  BY DEF IInv, TypeOK
<1>. QED
  BY <1>1 DEF ShardType

(* Whoever an operation comes after in real time is done.                  *)
LEMMA EarlierDone ==
    ASSUME IInv, Service, NEW b \in Ops, NEW a \in earlier[b]
    PROVE  a \in Ops /\ pc[a] = "done"
<1>1. earlier \in [Ops -> SUBSET Ops]
  BY DEF IInv, TypeOK
<1>. QED
  BY <1>1 DEF Service

(* Whoever stands on a shard is a participant that has been issued.        *)
LEMMA StandingView ==
    ASSUME IInv, NEW p \in Ops, NEW t \in Shards, ~Absent(p, shard[t])
    PROVE  t \in Participants(p) /\ pc[p] \notin {"idle", "done"}
  BY DEF IInv, View

(* An operation that is done was served wherever it has keys.              *)
LEMMA DoneServed ==
    ASSUME IInv, Service, NEW a \in Ops, pc[a] = "done"
    PROVE  /\ \A t \in Participants(a) : a \in shard[t].served
           /\ \E t \in Shards : a \in shard[t].served
<1>1. ASSUME NEW t \in Participants(a) PROVE a \in shard[t].served /\ t \in Shards
  <2>1. t \in Shards /\ (t \in Owing(a) \/ a \in shard[t].served)
    BY DEF Service, Participants
  <2>2. Absent(a, shard[t]) /\ msg[a][t] = "none"
    BY <2>1 DEF IInv, View
  <2>. QED
    BY <2>1, <2>2 DEF Owing, Absent
<1>2. Participants(a) # {}
  BY DEF Service
<1>. QED
  BY <1>1, <1>2

(* An operation that was served has passed its schedule rounds.            *)
LEMMA ServedView ==
    ASSUME IInv, Service, NEW o \in Ops, NEW s \in Shards, o \in shard[s].served
    PROVE  /\ pc[o] \notin {"idle", "scheduling", "cancelling"}
           /\ pc[o] = "scheduled" => o \in shard[s].holds
<1>1. View(o, s) /\ pc[o] # "idle" /\ s \in Participants(o) /\ (o \in shard[s].holds \/ Gone(o, s))
  BY DEF IInv, Service
<1>2. CASE o \in shard[s].holds
  BY <1>1, <1>2 DEF View, Absent
<1>3. CASE Gone(o, s)
  BY <1>3 DEF Gone
<1>. QED
  BY <1>1, <1>2, <1>3

(* The standing of everybody on every shard, before and after a Touch.     *)
LEMMA TouchFrame ==
    ASSUME IInv, IInv', Service, NEW o \in Ops, NEW s \in Shards, Touch(o, s)
    PROVE  /\ \A t \in Shards \ {s} : shard'[t] = shard[t]
           /\ shard[s] \in ShardType /\ shard'[s] \in ShardType
           /\ o \in shard[s].served => o \in shard[s].holds
           /\ \A p \in Ops : p \in shard[s].holds \ shard'[s].holds => p = o
           /\ \A p \in Ops \ {o} : Absent(p, shard[s]) => Absent(p, shard'[s])
           /\ \A p \in Ops : \/ shard'[s].node[p] = shard[s].node[p]
                             \/ p = o /\ o \notin shard[s].served /\ o \notin shard[s].queue
<1>1. shard \in [Shards -> ShardType] /\ shard' \in [Shards -> ShardType]
  BY DEF IInv, TypeOK
<1>2. /\ \A t \in Shards \ {s} : shard'[t] = shard[t]
      /\ shard[s] \in ShardType /\ shard'[s] \in ShardType
  BY <1>1 DEF Touch
<1>3. o \in shard[s].served => o \in shard[s].holds
  BY DEF Touch, Service, Gone, Absent
<1>4. \A p \in Ops \ {o} : SameStanding(p, shard[s], shard'[s]) \/ Started(p, shard[s], shard'[s])
  BY DEF Touch, Effect
<1>5. \A p \in Ops : p \in shard[s].holds \ shard'[s].holds => p = o
  BY <1>4 DEF SameStanding, Started
<1>6. \A p \in Ops \ {o} : Absent(p, shard[s]) => Absent(p, shard'[s])
  BY <1>4 DEF SameStanding, Started, Absent
<1>7. \A p \in Ops \ {o} : shard'[s].node[p] = shard[s].node[p]
  BY DEF Touch, Effect
<1>8. \/ shard'[s].node[o] = shard[s].node[o]
      \/ o \notin shard[s].served /\ o \notin shard[s].queue
  BY <1>3 DEF Touch, Moved
<1>. QED
  BY <1>2, <1>3, <1>5, <1>6, <1>7, <1>8

-----------------------------------------------------------------------------
(* The ranks of one shard: whoever starts gets one, nobody else's changes. *)

(* M and m rank whoever starts between sh and r: by txid from the queue,   *)
(* by the watermark and the next tick on the fast path.                    *)
Rerank(sh, r, major, minor, clock, M, m) ==
    /\ \A p \in Ops : minor[p] <= clock /\ m[p] <= clock + 1
    /\ \A p \in sh.served : M[p] = major[p] /\ m[p] = minor[p]
    /\ \A p \in Starts(sh, r) : p \notin sh.queue => ~Multi(p)
    /\ \A p \in Starts(sh, r) \cap sh.queue : M[p] = sh.node[p]
    /\ \A p \in Starts(sh, r) \ sh.queue : M[p] = sh.committed /\ m[p] = clock + 1

(* The watermark stays above the ranks of those that were served.          *)
LEMMA RankWatermark ==
    ASSUME NEW s \in Shards, NEW sh \in ShardType, NEW r \in ShardType, History(sh, r, s),
           NEW major \in Ranks, NEW minor \in Ranks, NEW clock \in Nat, RankedOn(major, minor, sh, s),
           NEW M \in Ranks, NEW m \in Ranks, Rerank(sh, r, major, minor, clock, M, m),
           NEW p \in r.served
    PROVE  M[p] \in Nat /\ r.committed \in Nat /\ M[p] <= r.committed
<1>1. p \in Ops /\ M[p] \in Nat /\ r.committed \in Nat /\ sh.committed \in Nat
  BY DEF ShardType, Ranks
<1>2. r.committed >= sh.committed
  BY DEF History
<1>3. CASE p \in sh.served
  <2>1. M[p] <= sh.committed
    BY <1>3 DEF RankedOn, Rerank
  <2>. QED
    BY <1>1, <1>2, <2>1
<1>4. CASE p \in Starts(sh, r) /\ p \in sh.queue
  <2>1. M[p] = sh.node[p] /\ r.committed >= sh.node[p]
    BY <1>4 DEF Rerank, History
  <2>. QED
    BY <1>1, <2>1
<1>5. CASE p \in Starts(sh, r) /\ p \notin sh.queue
  <2>1. M[p] = sh.committed
    BY <1>5 DEF Rerank
  <2>. QED
    BY <1>1, <1>2, <2>1
<1>6. p \in sh.served \/ p \in Starts(sh, r)
  BY DEF History
<1>. QED
  BY <1>3, <1>4, <1>5, <1>6

(* Whoever starts ranks above what conflicts with it and was served, and   *)
(* on the fast path above everybody that was served.                       *)
LEMMA RankStart ==
    ASSUME NEW s \in Shards, NEW sh \in ShardType, NEW r \in ShardType,
           NEW major \in Ranks, NEW minor \in Ranks, NEW clock \in Nat, RankedOn(major, minor, sh, s),
           NEW M \in Ranks, NEW m \in Ranks, Rerank(sh, r, major, minor, clock, M, m),
           NEW a \in sh.served, NEW b \in Starts(sh, r),
           b \in sh.queue => major[a] < sh.node[b]
    PROVE  Lower(M, m, a, b)
<1>1. a \in Ops /\ b \in Ops
  BY DEF ShardType, Starts
<1>2. M[a] = major[a] /\ m[a] = minor[a]
  BY DEF Rerank
<1>3. CASE b \in sh.queue
  BY <1>2, <1>3 DEF Rerank, Lower
<1>4. CASE b \notin sh.queue
  <2>1. M[b] = sh.committed /\ m[b] = clock + 1
    BY <1>4 DEF Rerank
  <2>2. M[a] <= sh.committed /\ m[a] <= clock
    BY <1>1, <1>2 DEF RankedOn, Rerank
  <2>3. M[a] \in Nat /\ m[a] \in Nat /\ sh.committed \in Nat
    BY <1>1 DEF Ranks, ShardType
  <2>4. m[a] < m[b]
    BY <2>1, <2>2, <2>3
  <2>5. M[a] < M[b] \/ M[a] = M[b]
    BY <2>1, <2>2, <2>3
  <2>. QED
    BY <2>4, <2>5 DEF Lower
<1>. QED
  BY <1>3, <1>4

(* The conflict order of the shard goes up in rank.                        *)
LEMMA RankBefore ==
    ASSUME NEW s \in Shards, NEW sh \in ShardType, NEW r \in ShardType, History(sh, r, s),
           sh.before \subseteq sh.served \X sh.served,
           NEW major \in Ranks, NEW minor \in Ranks, NEW clock \in Nat, RankedOn(major, minor, sh, s),
           NEW M \in Ranks, NEW m \in Ranks, Rerank(sh, r, major, minor, clock, M, m),
           NEW p \in r.before
    PROVE  Lower(M, m, p[1], p[2])
<1>1. CASE p \in sh.before
  <2>1. p[1] \in sh.served /\ p[2] \in sh.served /\ Lower(major, minor, p[1], p[2])
    BY <1>1 DEF RankedOn
  <2>2. M[p[1]] = major[p[1]] /\ m[p[1]] = minor[p[1]] /\ M[p[2]] = major[p[2]] /\ m[p[2]] = minor[p[2]]
    BY <2>1 DEF Rerank
  <2>. QED
    BY <2>1, <2>2 DEF Lower
<1>2. CASE p \notin sh.before
  <2>1. p[1] \in sh.served /\ p[2] \in Starts(sh, r) /\ Conflict(p[1], p[2], s)
    BY <1>2 DEF History
  <2>2. p[2] \notin sh.holds
    BY <2>1 DEF Starts
  <2>3. p[2] \in sh.queue => major[p[1]] < sh.node[p[2]]
    BY <2>1, <2>2 DEF RankedOn
  <2>. QED
    BY <2>1, <2>3, RankStart
<1>. QED
  BY <1>1, <1>2

(* A single-shard operation ranks above what had finished on its shard     *)
(* when it was issued.                                                     *)
LEMMA RankEarlier ==
    ASSUME NEW s \in Shards, NEW sh \in ShardType, NEW r \in ShardType, History(sh, r, s),
           NEW major \in Ranks, NEW minor \in Ranks, NEW clock \in Nat, RankedOn(major, minor, sh, s),
           NEW M \in Ranks, NEW m \in Ranks, Rerank(sh, r, major, minor, clock, M, m),
           NEW b \in r.served \ MultiShard, NEW a \in earlier[b], s \in Participants(a), a \in sh.served
    PROVE  Lower(M, m, a, b)
<1>1. b \in Ops /\ ~Multi(b)
  BY DEF ShardType, Multi
<1>2. CASE b \in sh.served
  <2>1. Lower(major, minor, a, b)
    BY <1>2 DEF RankedOn
  <2>2. M[a] = major[a] /\ m[a] = minor[a] /\ M[b] = major[b] /\ m[b] = minor[b]
    BY <1>2 DEF Rerank
  <2>. QED
    BY <2>1, <2>2 DEF Lower
<1>3. CASE b \in Starts(sh, r)
  <2>1. b \notin sh.holds
    BY <1>3 DEF Starts
  <2>2. b \in sh.queue => major[a] < sh.node[b]
    BY <1>1, <2>1 DEF RankedOn
  <2>. QED
    BY <1>3, <2>2, RankStart
<1>. QED
  BY <1>2, <1>3 DEF History

(* What waits after the step waits above every rank it must come after:    *)
(* an old waiter by its order in the queue, a new one by its fresh id.     *)
LEMMA RankWaiter ==
    ASSUME NEW s \in Shards, NEW sh \in ShardType, NEW r \in ShardType, History(sh, r, s), Orderly(sh, r, s),
           NEW major \in Ranks, NEW minor \in Ranks, NEW clock \in Nat, RankedOn(major, minor, sh, s),
           NEW M \in Ranks, NEW m \in Ranks, Rerank(sh, r, major, minor, clock, M, m),
           NEW w \in r.queue \ r.holds, w \notin sh.holds,
           w \in sh.queue => r.node[w] = sh.node[w],
           w \notin sh.queue => r.node[w] > r.committed,
           NEW a \in r.served, Conflict(a, w, s)
    PROVE  M[a] < r.node[w]
<1>1. a \in Ops /\ w \in Ops /\ r.node[w] \in Nat
  BY DEF ShardType
<1>2. CASE w \notin sh.queue
  <2>1. M[a] \in Nat /\ r.committed \in Nat /\ M[a] <= r.committed
    BY RankWatermark
  <2>. QED
    BY <1>1, <1>2, <2>1
<1>3. CASE w \in sh.queue /\ a \in sh.served
  <2>1. major[a] < sh.node[w]
    BY <1>3 DEF RankedOn
  <2>2. M[a] = major[a]
    BY <1>3 DEF Rerank
  <2>. QED
    BY <1>3, <2>1, <2>2
<1>4. CASE w \in sh.queue /\ a \in Starts(sh, r)
  <2>1. a \in r.holds /\ a \notin sh.holds /\ a # w
    BY <1>4 DEF Starts
  <2>2. a \in sh.queue /\ sh.node[a] < sh.node[w]
    BY <1>1, <1>4, <2>1 DEF Orderly
  <2>3. M[a] = sh.node[a]
    BY <1>4, <2>2 DEF Rerank
  <2>. QED
    BY <1>4, <2>2, <2>3
<1>. QED
  BY <1>2, <1>3, <1>4 DEF History

(* Multi-shard transactions rank by txid.                                  *)
LEMMA RankTxid ==
    ASSUME NEW s \in Shards, NEW sh \in ShardType, NEW r \in ShardType, History(sh, r, s),
           NEW major \in Ranks, NEW minor \in Ranks, NEW clock \in Nat, RankedOn(major, minor, sh, s),
           NEW M \in Ranks, NEW m \in Ranks, Rerank(sh, r, major, minor, clock, M, m),
           NEW p \in r.served, Multi(p),
           p \in sh.queue => sh.node[p] = txid[p],
           p \in sh.queue \/ p \in sh.served => r.node[p] = sh.node[p]
    PROVE  M[p] = txid[p] /\ r.node[p] = txid[p]
<1>1. CASE p \in sh.served
  BY <1>1 DEF RankedOn, Rerank
<1>2. CASE p \in Starts(sh, r)
  <2>1. p \in sh.queue
    BY <1>2 DEF Rerank
  <2>. QED
    BY <1>2, <2>1 DEF Rerank
<1>. QED
  BY <1>1, <1>2 DEF History

-----------------------------------------------------------------------------
(* The ranks of all shards.                                                *)

(* A finished operation ranks below every txid that is still to be drawn.  *)
LEMMA DoneBelow ==
    ASSUME IInv, Service, NEW major \in Ranks, NEW minor, NEW clock, Ranked(major, minor, clock),
           NEW a \in Ops, pc[a] = "done"
    PROVE  major[a] < nextTxid
<1>1. PICK t \in Shards : a \in shard[t].served
  BY DoneServed
<1>2. major[a] <= shard[t].committed /\ shard[t].committed < nextTxid
  BY <1>1 DEF Ranked, RankedOn, Service
<1>3. major[a] \in Nat /\ shard[t].committed \in Nat /\ nextTxid \in Nat
  BY HistoryTypes DEF Ranks
<1>. QED
  BY <1>2, <1>3

(* The shard that a step is about.                                         *)
LEMMA TouchRankedHere ==
    ASSUME IInv, IInv', OrderlyStep, Service, NEW o \in Ops, NEW s \in Shards, Touch(o, s),
           NEW major \in Ranks, NEW minor \in Ranks, NEW clock \in Nat, Ranked(major, minor, clock),
           NEW M \in Ranks, NEW m \in Ranks,
           Rerank(shard[s], shard'[s], major, minor, clock, M, m),
           \A p \in Ops : pc[p] = "done" => M[p] = major[p] /\ m[p] = minor[p]
    PROVE  RankedOn(M, m, shard'[s], s)
<1>. DEFINE sh == shard[s]
            r == shard'[s]
<1>1. /\ sh \in ShardType /\ r \in ShardType
      /\ \A p \in Ops : p \in sh.holds \ r.holds => p = o
      /\ \A p \in Ops : r.node[p] = sh.node[p] \/ (p \notin sh.served /\ p \notin sh.queue)
      /\ \A p \in Ops \ {o} : p \in r.queue => p \in sh.queue
  <2>1. \A p \in Ops \ {o} : p \in r.queue => p \in sh.queue
    BY SMTT(30) DEF Touch, Effect, SameStanding, Started
  <2>. QED
    BY <2>1, TouchFrame
<1>2. /\ History(sh, r, s) /\ RankedOn(major, minor, sh, s) /\ Orderly(sh, r, s)
      /\ sh.before \subseteq sh.served \X sh.served
  BY DEF Touch, Ranked, OrderlyStep, Service
<1>3. /\ o \in sh.holds \ r.holds => o \notin r.queue
      /\ o \in r.queue \ sh.queue =>
            /\ o \notin sh.holds /\ r.node[o] > r.committed
            /\ ~Multi(o) => r.node[o] >= nextTxid
  BY DEF Touch, Moved, Gone, Absent
<1>4. Rerank(sh, r, major, minor, clock, M, m)
  OBVIOUS
<1>5. /\ \A p \in r.served \cup r.queue \cup sh.queue : p \in Ops
      /\ \A p \in r.queue : r.node[p] \in Nat
  BY <1>1 DEF ShardType
<1>6. \A p \in sh.queue : sh.node[p] = txid[p] \/ ~Multi(p)
  BY <1>5 DEF IInv, TxidInv
<1>7. ASSUME NEW b \in Ops, NEW a \in earlier[b]
      PROVE  /\ a \in Ops /\ M[a] = major[a] /\ m[a] = minor[a] /\ major[a] < nextTxid /\ major[a] \in Nat
             /\ \A t \in Participants(a) : a \in shard[t].served
  <2>1. a \in Ops /\ pc[a] = "done"
    BY EarlierDone
  <2>2. major[a] < nextTxid /\ major[a] \in Nat
    BY <2>1, DoneBelow DEF Ranks
  <2>. QED
    BY <2>1, <2>2, DoneServed
<1>8. nextTxid \in Nat
  BY HistoryTypes
<1>. HIDE DEF sh, r
<1>9. \A p \in r.before : Lower(M, m, p[1], p[2])
  BY <1>1, <1>2, <1>4, RankBefore, SMTT(30)
<1>10. \A p \in r.served : M[p] <= r.committed
  BY <1>1, <1>2, <1>4, RankWatermark, SMTT(30)
<1>11. ASSUME NEW p \in r.served, Multi(p) PROVE M[p] = txid[p] /\ r.node[p] = txid[p]
  <2>1. /\ p \in sh.queue => sh.node[p] = txid[p]
        /\ p \in sh.queue \/ p \in sh.served => r.node[p] = sh.node[p]
    BY <1>1, <1>5, <1>6, <1>11
  <2>2. sh \in ShardType /\ r \in ShardType
    BY <1>1
  <2>. QED
    BY <1>2, <1>4, <1>11, <2>1, <2>2, RankTxid
<1>12. ASSUME NEW w \in r.queue \ r.holds
       PROVE  w \notin sh.holds /\ w \in Ops /\ (w \in sh.queue => r.node[w] = sh.node[w])
                /\ (w \notin sh.queue => w = o)
  BY <1>1, <1>3, <1>5, <1>12
<1>13. ASSUME NEW w \in r.queue \ r.holds, NEW a \in r.served, Conflict(a, w, s) PROVE M[a] < r.node[w]
  <2>1. w \notin sh.queue => r.node[w] > r.committed
    <3>1. w \notin sh.queue => w = o /\ w \in r.queue \ sh.queue
      BY <1>12, <1>13
    <3>. QED
      BY <1>3, <3>1
  <2>2. w \notin sh.holds /\ w \in Ops /\ (w \in sh.queue => r.node[w] = sh.node[w])
    BY <1>12, <1>13
  <2>3. sh \in ShardType /\ r \in ShardType
    BY <1>1
  <2>. QED
    BY <1>2, <1>4, <1>13, <2>1, <2>2, <2>3, RankWaiter
<1>14. ASSUME NEW w \in r.queue \ r.holds, ~Multi(w), NEW a \in earlier[w] PROVE M[a] < r.node[w]
  <2>1. w \in Ops /\ M[a] = major[a] /\ major[a] < nextTxid /\ major[a] \in Nat /\ r.node[w] \in Nat
    BY <1>5, <1>7, <1>14
  <2>2. CASE w \in sh.queue
    <3>1. w \in sh.queue \ sh.holds /\ r.node[w] = sh.node[w]
      BY <1>12, <1>14, <2>2
    <3>2. major[a] < sh.node[w]
      BY <1>2, <1>14, <3>1 DEF RankedOn
    <3>. QED
      BY <2>1, <3>1, <3>2
  <2>3. CASE w \notin sh.queue
    <3>1. r.node[w] >= nextTxid
      BY <1>3, <1>12, <1>14, <2>3
    <3>. QED
      BY <2>1, <3>1, <1>8
  <2>. QED
    BY <2>2, <2>3
<1>15. ASSUME NEW b \in r.served \ MultiShard, NEW a \in earlier[b], s \in Participants(a)
       PROVE  Lower(M, m, a, b)
  <2>1. a \in sh.served
    BY <1>5, <1>7, <1>15 DEF sh
  <2>2. sh \in ShardType /\ r \in ShardType
    BY <1>1
  <2>. QED
    BY <1>2, <1>4, <1>15, <2>1, <2>2, RankEarlier
<1>16. RankedOn(M, m, r, s)
  BY <1>9, <1>10, <1>11, <1>13, <1>14, <1>15 DEF RankedOn
<1>. QED
  BY <1>16 DEF r

(* Every other shard keeps its ranks.                                      *)
LEMMA TouchRankedElsewhere ==
    ASSUME IInv, Service, NEW t \in Shards,
           NEW major \in Ranks, NEW minor \in Ranks, NEW clock \in Nat, Ranked(major, minor, clock),
           NEW M \in Ranks, NEW m \in Ranks,
           \A p \in shard[t].served : M[p] = major[p] /\ m[p] = minor[p],
           \A p \in Ops : pc[p] = "done" => M[p] = major[p] /\ m[p] = minor[p]
    PROVE  RankedOn(M, m, shard[t], t)
<1>. DEFINE sh == shard[t]
<1>1. RankedOn(major, minor, sh, t) /\ sh.before \subseteq sh.served \X sh.served
  BY DEF Ranked, Service
<1>2. sh.served \subseteq Ops /\ sh.queue \subseteq Ops
  BY HistoryTypes
<1>3. ASSUME NEW b \in Ops, NEW a \in earlier[b] PROVE M[a] = major[a] /\ m[a] = minor[a]
  BY <1>3, EarlierDone
<1>4. \A p \in sh.served : M[p] = major[p] /\ m[p] = minor[p]
  OBVIOUS
<1>. HIDE DEF sh
<1>5. ASSUME NEW p \in sh.before PROVE Lower(M, m, p[1], p[2])
  <2>1. p[1] \in sh.served /\ p[2] \in sh.served /\ Lower(major, minor, p[1], p[2])
    BY <1>1 DEF RankedOn
  <2>. QED
    BY <2>1, <1>4 DEF Lower
<1>6. \A p \in sh.served : M[p] <= sh.committed /\ (Multi(p) => M[p] = txid[p] /\ sh.node[p] = txid[p])
  BY <1>1, <1>4 DEF RankedOn
<1>7. \A w \in sh.queue \ sh.holds :
         /\ \A a \in sh.served : Conflict(a, w, t) => M[a] < sh.node[w]
         /\ ~Multi(w) => \A a \in earlier[w] : M[a] < sh.node[w]
  BY <1>1, <1>2, <1>3, <1>4 DEF RankedOn
<1>8. ASSUME NEW b \in sh.served \ MultiShard, NEW a \in earlier[b], t \in Participants(a)
      PROVE  Lower(M, m, a, b)
  <2>1. b \in Ops /\ Lower(major, minor, a, b)
    BY <1>1, <1>2, <1>8 DEF RankedOn
  <2>2. M[a] = major[a] /\ m[a] = minor[a] /\ M[b] = major[b] /\ m[b] = minor[b]
    BY <1>3, <1>4, <1>8, <2>1
  <2>. QED
    BY <2>1, <2>2 DEF Lower
<1>9. RankedOn(M, m, sh, t)
  BY <1>5, <1>6, <1>7, <1>8 DEF RankedOn
<1>. QED
  BY <1>9 DEF sh

(* Who starts was not served here before, and a single-shard one nowhere.  *)
LEMMA StartFresh ==
    ASSUME IInv, IInv', Service, NEW o \in Ops, NEW s \in Shards, Touch(o, s),
           NEW p \in Starts(shard[s], shard'[s])
    PROVE  /\ p \in Ops /\ p \notin shard[s].served /\ pc[p] # "done"
           /\ p \notin shard[s].queue => ~Multi(p)
           /\ ~Multi(p) => \A t \in Shards : p \notin shard[t].served
<1>1. shard[s] \in ShardType /\ shard'[s] \in ShardType /\ (o \in shard[s].served => o \in shard[s].holds)
  BY TouchFrame
<1>2. p \in Ops /\ p \in shard'[s].holds /\ p \notin shard[s].holds
  BY <1>1 DEF Starts, ShardType
<1>3. p # o => p \in shard[s].queue
  BY <1>2 DEF Touch, Effect, SameStanding, Started
<1>4. p \notin shard[s].queue => ~Multi(p)
  BY <1>3 DEF Touch, Moved
<1>5. p \notin shard[s].served
  <2>1. ASSUME p \in shard[s].served PROVE FALSE
    <3>1. Gone(p, s)
      BY <1>2, <2>1 DEF Service
    <3>2. p \notin shard[s].queue
      BY <3>1 DEF Gone, Absent
    <3>. QED
      BY <1>1, <1>2, <1>3, <2>1, <3>2
  <2>. QED
    BY <2>1
<1>6. s \in Participants(p) /\ pc'[p] # "done"
  <2>1. (~Absent(p, shard[s]))'
    BY <1>2 DEF Absent
  <2>. QED
    BY <2>1, <1>2 DEF IInv, View
<1>7. ASSUME ~Multi(p), NEW t \in Shards, p \in shard[t].served PROVE FALSE
  <2>1. t \in Participants(p)
    BY <1>7 DEF Service
  <2>2. t = s
    BY <2>1, <1>2, <1>6, <1>7 DEF Multi, MultiShard, Participants
  <2>. QED
    BY <2>2, <1>5, <1>7
<1>8. pc' = pc
  BY DEF Touch
<1>. QED
  BY <1>2, <1>4, <1>5, <1>6, <1>7, <1>8

NextMajor(major, s) ==
    [p \in Ops |-> IF p \notin Starts(shard[s], shard'[s]) THEN major[p]
                   ELSE IF p \in shard[s].queue THEN shard[s].node[p]
                   ELSE shard[s].committed]

NextMinor(minor, clock, s) ==
    [p \in Ops |-> IF p \in Starts(shard[s], shard'[s]) \ shard[s].queue THEN clock + 1 ELSE minor[p]]

(* Ranks that matter already are kept.                                     *)
LEMMA RankKept ==
    ASSUME IInv, IInv', Service, NEW o \in Ops, NEW s \in Shards, Touch(o, s),
           NEW major \in Ranks, NEW minor \in Ranks, NEW clock \in Nat,
           Ranked(major, minor, clock), NEW p \in Ops,
           (\E t \in Shards : p \in shard[t].served) \/ pc[p] = "done"
    PROVE  NextMajor(major, s)[p] = major[p] /\ NextMinor(minor, clock, s)[p] = minor[p]
<1>1. CASE p \notin Starts(shard[s], shard'[s])
  BY <1>1 DEF NextMajor, NextMinor
<1>2. CASE p \in Starts(shard[s], shard'[s])
  <2>1. /\ pc[p] # "done" /\ (p \notin shard[s].queue => ~Multi(p))
        /\ ~Multi(p) => \A t \in Shards : p \notin shard[t].served
    BY <1>2, StartFresh
  <2>2. PICK t \in Shards : p \in shard[t].served
    BY <2>1
  <2>3. Multi(p) /\ p \in shard[s].queue
    BY <2>1, <2>2
  <2>4. major[p] = txid[p]
    BY <2>2, <2>3 DEF Ranked, RankedOn
  <2>5. shard[s].node[p] = txid[p]
    BY <2>3 DEF IInv, TxidInv
  <2>. QED
    BY <1>2, <2>3, <2>4, <2>5 DEF NextMajor, NextMinor
<1>. QED
  BY <1>1, <1>2

(* The new ranks are such ranks.                                           *)
LEMMA RankGiven ==
    ASSUME IInv, IInv', Service, NEW o \in Ops, NEW s \in Shards, Touch(o, s),
           NEW major \in Ranks, NEW minor \in Ranks, NEW clock \in Nat,
           Ranked(major, minor, clock)
    PROVE  \E M \in Ranks, m \in Ranks :
              /\ Rerank(shard[s], shard'[s], major, minor, clock, M, m)
              /\ \A t \in Shards : \A p \in shard[t].served : M[p] = major[p] /\ m[p] = minor[p]
              /\ \A p \in Ops : pc[p] = "done" => M[p] = major[p] /\ m[p] = minor[p]
<1>. DEFINE M == NextMajor(major, s)
            m == NextMinor(minor, clock, s)
            N == Starts(shard[s], shard'[s])
<1>1. shard[s].committed \in Nat /\ shard[s].node \in [Ops -> Nat]
  BY HistoryTypes
<1>2. \A p \in Ops : major[p] \in Nat /\ minor[p] \in Nat
  BY DEF Ranks
<1>3. M \in Ranks
  BY <1>1, <1>2 DEF Ranks, NextMajor
<1>4. m \in Ranks
  BY <1>2 DEF Ranks, NextMinor
<1>5. \A p \in N : p \in Ops /\ (p \notin shard[s].queue => ~Multi(p))
  BY StartFresh
<1>6. \A p \in Ops : minor[p] <= clock
  BY DEF Ranked
<1>7. \A p \in Ops : m[p] <= clock + 1
  BY <1>2, <1>6 DEF NextMinor
<1>8. \A p \in N \cap shard[s].queue : M[p] = shard[s].node[p]
  BY <1>5 DEF NextMajor
<1>9. \A p \in N \ shard[s].queue : M[p] = shard[s].committed /\ m[p] = clock + 1
  BY <1>5 DEF NextMajor, NextMinor
<1>10. \A p \in Ops : pc[p] = "done" => M[p] = major[p] /\ m[p] = minor[p]
  BY RankKept
<1>11. ASSUME NEW t \in Shards, NEW p \in shard[t].served
       PROVE  M[p] = major[p] /\ m[p] = minor[p]
  <2>1. p \in Ops
    BY HistoryTypes
  <2>. QED
    BY <2>1, RankKept
<1>. HIDE DEF M, m
<1>12. Rerank(shard[s], shard'[s], major, minor, clock, M, m)
  BY <1>5, <1>6, <1>7, <1>8, <1>9, <1>11 DEF Rerank
<1>. QED
  BY <1>3, <1>4, <1>10, <1>11, <1>12

(* After a step on a shard some ranks explain the execution again.         *)
LEMMA TouchRanked ==
    ASSUME IInv, IInv', OrderlyStep, Service, NEW o \in Ops, NEW s \in Shards, Touch(o, s),
           NEW major \in Ranks, NEW minor \in Ranks, NEW clock \in Nat,
           Ranked(major, minor, clock)
    PROVE  \E M \in Ranks, m \in Ranks, c \in Nat : Ranked(M, m, c)'
<1>1. PICK M \in Ranks, m \in Ranks :
         /\ Rerank(shard[s], shard'[s], major, minor, clock, M, m)
         /\ \A t \in Shards : \A p \in shard[t].served : M[p] = major[p] /\ m[p] = minor[p]
         /\ \A p \in Ops : pc[p] = "done" => M[p] = major[p] /\ m[p] = minor[p]
  BY RankGiven
<1>2. txid' = txid /\ earlier' = earlier
  BY DEF Touch
<1>3. \A p \in Ops : m[p] <= clock + 1
  BY <1>1 DEF Rerank
<1>4. ASSUME NEW t \in Shards PROVE RankedOn(M, m, shard'[t], t)
  <2>1. CASE t = s
    BY <1>1, <2>1, TouchRankedHere, SMTT(30)
  <2>2. CASE t # s
    <3>1. shard'[t] = shard[t]
      BY <2>2, TouchFrame
    <3>2. RankedOn(M, m, shard[t], t)
      BY <1>1, TouchRankedElsewhere, SMTT(30)
    <3>. QED
      BY <3>1, <3>2
  <2>. QED
    BY <2>1, <2>2
<1>5. ASSUME NEW b \in MultiShard, NEW a \in earlier[b] PROVE M[a] < txid[b]
  <2>1. b \in Ops /\ major[a] < txid[b]
    BY DEF Ranked, MultiShard
  <2>2. a \in Ops /\ pc[a] = "done"
    BY <2>1, EarlierDone
  <2>. QED
    BY <1>1, <2>1, <2>2
<1>6. \A t \in Shards : RankedOn(M, m, shard[t], t)'
  BY <1>2, <1>4 DEF RankedOn, Lower
<1>7. Ranked(M, m, clock + 1)'
  BY <1>2, <1>3, <1>5, <1>6 DEF Ranked
<1>. QED
  BY <1>7

(* The same ranks explain the execution: only an operation that nobody has *)
(* served yet draws a txid or is issued.                                   *)
LEMMA SettleRanked ==
    ASSUME IInv, Service, NEW o \in Ops, Settle(o),
           NEW major \in Ranks, NEW minor \in Ranks, NEW clock \in Nat,
           Ranked(major, minor, clock)
    PROVE  Ranked(major, minor, clock)'
<1>1. shard' = shard
  BY DEF Settle
<1>2. ASSUME NEW s \in Shards, NEW p \in shard[s].served
      PROVE  txid'[p] = txid[p] /\ earlier'[p] = earlier[p] /\ p \in Ops
  <2>1. p \in Ops
    BY HistoryTypes
  <2>2. pc[p] \notin {"idle", "scheduling", "cancelling"}
    BY <2>1, ServedView
  <2>. QED
    BY <2>1, <2>2 DEF Settle
<1>3. ASSUME NEW s \in Shards, NEW w \in shard[s].queue
      PROVE  earlier'[w] = earlier[w]
  <2>1. w \in Ops
    BY HistoryTypes
  <2>2. ~Absent(w, shard[s])
    BY DEF Absent
  <2>3. pc[w] # "idle"
    BY <2>1, <2>2, StandingView
  <2>. QED
    BY <2>1, <2>3 DEF Settle
<1>4. ASSUME NEW b \in MultiShard, NEW a \in earlier'[b]
      PROVE  major[a] < txid'[b]
  <2>1. b \in Ops
    BY DEF MultiShard
  <2>2. CASE earlier'[b] = earlier[b] /\ txid'[b] = txid[b]
    BY <2>2, <1>4 DEF Ranked
  <2>3. CASE b = o /\ txid'[o] = nextTxid
    <3>1. a \in Ops /\ pc[a] = "done"
      <4>1. a \in earlier[b] \/ a \in {p \in Ops : pc[p] = "done"}
        BY <2>3, <1>4 DEF Settle
      <4>. QED
        BY <2>1, <4>1, EarlierDone
    <3>2. major[a] < nextTxid
      BY <3>1, DoneBelow
    <3>. QED
      BY <3>2, <2>3
  <2>. QED
    BY <2>1, <2>2, <2>3 DEF Settle, Multi
<1>5. ASSUME NEW s \in Shards PROVE RankedOn(major, minor, shard[s], s)'
  <2>1. RankedOn(major, minor, shard[s], s)
    BY DEF Ranked
  <2>. QED
    BY <2>1, <1>1, <1>2, <1>3 DEF RankedOn, Lower
<1>6. \A p \in Ops : minor[p] <= clock
  BY DEF Ranked
<1>. QED
  BY <1>4, <1>5, <1>6, SMTT(30) DEF Ranked

-----------------------------------------------------------------------------
(* A Touch and a Settle keep the histories in order.                       *)

(* Whoever was served on s, before a Touch or by it, holds or is gone.     *)
LEMMA TouchServed ==
    ASSUME IInv, IInv', Service, NEW o \in Ops, NEW s \in Shards, Touch(o, s),
           NEW p \in shard'[s].served
    PROVE  /\ s \in Participants(p) /\ pc'[p] # "idle"
           /\ p \in shard'[s].holds \/ Gone(p, s)'
<1>1. /\ p \in Ops /\ shard'[s] \in ShardType
      /\ o \in shard[s].served => o \in shard[s].holds
      /\ p \in shard[s].holds \ shard'[s].holds => p = o
      /\ p # o /\ Absent(p, shard[s]) => Absent(p, shard'[s])
  BY TouchFrame DEF ShardType
<1>2. CASE p \in shard'[s].holds
  <2>1. (~Absent(p, shard[s]))'
    BY <1>2 DEF Absent
  <2>2. s \in Participants(p) /\ pc'[p] \notin {"idle", "done"}
    BY <2>1, <1>1 DEF IInv, View
  <2>. QED
    BY <2>2, <1>2
<1>3. CASE p \notin shard'[s].holds
  <2>1. p \in shard[s].served
    BY <1>3 DEF Touch, History, Starts
  <2>2. s \in Participants(p) /\ pc[p] # "idle" /\ (p \in shard[s].holds \/ Gone(p, s))
    BY <2>1 DEF Service
  <2>3. pc' = pc /\ releasing' = releasing
    BY DEF Touch
  <2>4. CASE p \in shard[s].holds
    <3>1. p = o
      BY <1>1, <1>3, <2>4
    <3>2. Gone(o, s)'
      BY <3>1, <1>3, <2>4 DEF Touch
    <3>. QED
      BY <2>2, <2>3, <3>1, <3>2
  <2>5. CASE p \notin shard[s].holds
    <3>1. p # o /\ Gone(p, s)
      BY <1>1, <2>1, <2>2, <2>5
    <3>2. msg'[p][s] = msg[p][s]
      BY <1>1, <3>1 DEF Touch
    <3>3. Absent(p, shard'[s])
      BY <1>1, <3>1 DEF Gone
    <3>. QED
      BY <2>2, <2>3, <3>1, <3>2, <3>3 DEF Gone
  <2>. QED
    BY <2>4, <2>5
<1>. QED
  BY <1>2, <1>3

(* A participant of a hop still owes a decrement or has served it.         *)
LEMMA TouchOwing ==
    ASSUME IInv, IInv', Service, NEW o \in Ops, NEW s \in Shards, Touch(o, s),
           NEW p \in Ops, pc'[p] \in {"executing", "done"}, NEW t \in Participants(p)
    PROVE  t \in Owing(p)' \/ p \in shard'[t].served
<1>1. pc' = pc /\ History(shard[s], shard'[s], s)
  BY DEF Touch
<1>2. t \in Shards /\ (t \in Owing(p) \/ p \in shard[t].served)
  BY <1>1 DEF Service, Participants
<1>3. p # o \/ t # s => msg'[p][t] = msg[p][t]
  BY <1>2 DEF Touch
<1>4. CASE t # s
  <2>1. shard'[t] = shard[t]
    BY <1>2, <1>4, TouchFrame
  <2>. QED
    BY <1>2, <1>3, <1>4, <2>1 DEF Owing
<1>5. CASE t = s /\ p # o
  <2>1. p \in shard[s].served => p \in shard'[s].served
    BY <1>1 DEF History
  <2>2. SameStanding(p, shard[s], shard'[s]) \/ Started(p, shard[s], shard'[s])
    BY <1>5 DEF Touch, Effect
  <2>3. CASE SameStanding(p, shard[s], shard'[s])
    BY <1>2, <1>3, <1>5, <2>1, <2>3 DEF Owing, SameStanding
  <2>4. CASE Started(p, shard[s], shard'[s])
    <3>1. p \in shard'[s].holds
      BY <2>4 DEF Started
    <3>2. shard[s].holds \subseteq shard[s].served
      BY DEF Service
    <3>. QED
      BY <1>1, <1>5, <3>1, <3>2 DEF History, Starts
  <2>. QED
    BY <2>2, <2>3, <2>4
<1>6. CASE t = s /\ p = o
  <2>1. CASE pc[o] = "executing"
    BY <1>6, <2>1 DEF Touch
  <2>2. CASE pc[o] = "done"
    <3>1. Absent(o, shard[s]) /\ msg[o][s] = "none"
      BY <2>2 DEF IInv, View
    <3>. QED
      BY <3>1 DEF Touch, Absent
  <2>. QED
    BY <1>1, <1>6, <2>1, <2>2
<1>. QED
  BY <1>4, <1>5, <1>6

(* The watermark stays below the ids that are still to be drawn.           *)
LEMMA TouchWatermark ==
    ASSUME IInv, IInv', Service, NEW o \in Ops, NEW s \in Shards, Touch(o, s), NEW t \in Shards
    PROVE  shard'[t].committed < nextTxid'
<1>1. nextTxid \in Nat /\ nextTxid' \in Nat /\ nextTxid' >= nextTxid
  BY HistoryTypes DEF Touch
<1>2. shard[t].committed \in Nat /\ shard[s].committed \in Nat /\ shard[s].node \in [Ops -> Nat]
  BY HistoryTypes
<1>3. shard[t].committed < nextTxid /\ shard[s].committed < nextTxid
  BY DEF Service
<1>4. ASSUME NEW c \in Nat, c < nextTxid PROVE c < nextTxid'
  BY <1>1, <1>4
<1>5. CASE t # s
  <2>1. shard'[t] = shard[t]
    BY <1>5, TouchFrame
  <2>. QED
    BY <2>1, <1>2, <1>3, <1>4
<1>6. CASE t = s
  <2>1. shard[s].queue \subseteq Ops
    BY HistoryTypes
  <2>2. \A q \in shard[s].queue : shard[s].node[q] < nextTxid
    BY <2>1 DEF IInv, TxidInv
  <2>3. shard'[s].committed \in {shard[s].committed} \cup {shard[s].node[q] : q \in shard[s].queue}
    BY DEF Touch, History
  <2>4. CASE shard'[s].committed = shard[s].committed
    BY <2>4, <1>2, <1>3, <1>4, <1>6
  <2>5. CASE shard'[s].committed # shard[s].committed
    <3>1. PICK q \in shard[s].queue : shard'[s].committed = shard[s].node[q]
      BY <2>3, <2>5
    <3>2. shard[s].node[q] \in Nat /\ shard[s].node[q] < nextTxid
      BY <1>2, <2>1, <2>2
    <3>. QED
      BY <3>1, <3>2, <1>4, <1>6
  <2>. QED
    BY <2>4, <2>5
<1>. QED
  BY <1>5, <1>6

(* A step on a shard keeps the histories of all shards in order.           *)
LEMMA TouchService ==
    ASSUME IInv, IInv', Service, NEW o \in Ops, NEW s \in Shards, Touch(o, s)
    PROVE  Service'
<1>1. pc' = pc /\ releasing' = releasing /\ earlier' = earlier
  BY DEF Touch
<1>2. \A t \in Shards \ {s} : shard'[t] = shard[t]
  BY TouchFrame
<1>3. \A t \in Shards :
         /\ shard[t].running \subseteq shard[t].holds /\ shard[t].holds \subseteq shard[t].served
         /\ shard[t].before \subseteq shard[t].served \X shard[t].served
  BY DEF Service
<1>4. ASSUME NEW t \in Shards
      PROVE  /\ shard'[t].running \subseteq shard'[t].holds /\ shard'[t].holds \subseteq shard'[t].served
             /\ shard'[t].before \subseteq shard'[t].served \X shard'[t].served
  <2>1. CASE t # s
    BY <2>1, <1>2, <1>3
  <2>2. CASE t = s
    <3>1. History(shard[s], shard'[s], s)
      BY DEF Touch
    <3>2. shard'[s].running \subseteq shard'[s].holds /\ shard'[s].holds \subseteq shard'[s].served
      BY <3>1, <1>3 DEF History, Starts
    <3>3. shard'[s].before \subseteq shard'[s].served \X shard'[s].served
      BY <3>1, <1>3 DEF History
    <3>. QED
      BY <2>2, <3>2, <3>3
  <2>. QED
    BY <2>1, <2>2
<1>5. ASSUME NEW t \in Shards, NEW p \in shard'[t].served
      PROVE  t \in Participants(p) /\ pc'[p] # "idle" /\ (p \in shard'[t].holds \/ Gone(p, t)')
  <2>1. CASE t = s
    BY <2>1, <1>5, TouchServed
  <2>2. CASE t # s
    <3>1. shard'[t] = shard[t] /\ p \in Ops
      BY <1>2, <1>5, <2>2, HistoryTypes
    <3>2. msg'[p][t] = msg[p][t]
      BY <2>2, <3>1 DEF Touch
    <3>3. t \in Participants(p) /\ pc[p] # "idle" /\ (p \in shard[t].holds \/ Gone(p, t))
      BY <1>5, <3>1 DEF Service
    <3>. QED
      BY <1>1, <3>1, <3>2, <3>3 DEF Gone
  <2>. QED
    BY <2>1, <2>2
<1>6. \A t \in Shards : shard'[t].committed < nextTxid'
  BY TouchWatermark
<1>7. ASSUME NEW p \in Ops, pc'[p] \in {"executing", "done"}, NEW t \in Participants(p)
      PROVE  t \in Owing(p)' \/ p \in shard'[t].served
  BY <1>7, TouchOwing
<1>8. /\ \A p \in Ops : pc'[p] # "idle" => Participants(p) # {}
      /\ \A b \in Ops : \A a \in earlier'[b] : pc'[a] = "done" /\ pc'[b] # "idle"
  BY <1>1 DEF Service
<1>. QED
  BY <1>4, <1>5, <1>6, <1>7, <1>8 DEF Service

(* The histories stay in order, though the ids have moved on.              *)
LEMMA SettleService ==
    ASSUME IInv, Service, NEW o \in Ops, Settle(o)
    PROVE  Service'
<1>1. ASSUME NEW s \in Shards, NEW p \in shard[s].served
      PROVE  s \in Participants(p) /\ pc'[p] # "idle" /\ (p \in shard[s].holds \/ Gone(p, s)')
  <2>1. p \in Ops
    BY HistoryTypes
  <2>2. s \in Participants(p) /\ pc[p] # "idle" /\ (p \in shard[s].holds \/ Gone(p, s))
    BY DEF Service
  <2>3. CASE p = o
    BY <2>2, <2>3, <1>1 DEF Settle
  <2>4. CASE p # o
    BY <2>1, <2>2, <2>4 DEF Settle, Gone
  <2>. QED
    BY <2>3, <2>4
<1>2. \A s \in Shards :
         /\ shard[s].running \subseteq shard[s].holds /\ shard[s].holds \subseteq shard[s].served
         /\ shard[s].before \subseteq shard[s].served \X shard[s].served
         /\ shard[s].committed < nextTxid'
  <2>1. nextTxid \in Nat /\ nextTxid' \in Nat /\ nextTxid' >= nextTxid
    BY HistoryTypes DEF Settle
  <2>2. ASSUME NEW s \in Shards PROVE shard[s].committed < nextTxid'
    <3>1. shard[s].committed \in Nat /\ shard[s].committed < nextTxid
      BY HistoryTypes DEF Service
    <3>. QED
      BY <2>1, <3>1
  <2>. QED
    BY <2>2 DEF Service
<1>3. \A p \in Ops : pc'[p] # "idle" => Participants(p) # {}
  BY DEF Service, Settle
<1>4. ASSUME NEW p \in Ops, pc'[p] \in {"executing", "done"}, NEW s \in Participants(p)
      PROVE  s \in Owing(p)' \/ p \in shard[s].served
  <2>1. CASE p = o
    BY <2>1, <1>4 DEF Settle
  <2>2. CASE p # o
    <3>1. pc'[p] = pc[p] /\ msg'[p] = msg[p] /\ shard' = shard
      BY <2>2 DEF Settle
    <3>2. s \in Owing(p) \/ p \in shard[s].served
      BY <3>1, <1>4 DEF Service
    <3>. QED
      BY <3>1, <3>2 DEF Owing
  <2>. QED
    BY <2>1, <2>2
<1>5. ASSUME NEW b \in Ops, NEW a \in earlier'[b]
      PROVE  pc'[a] = "done" /\ pc'[b] # "idle"
  <2>1. CASE earlier'[b] = earlier[b] /\ pc[b] # "idle"
    <3>1. a \in Ops /\ pc[a] = "done"
      BY <1>5, <2>1, EarlierDone
    <3>. QED
      BY <2>1, <3>1 DEF Settle
  <2>2. CASE b = o /\ earlier'[o] = {p \in Ops : pc[p] = "done"}
    <3>1. a \in Ops /\ pc[a] = "done"
      BY <1>5, <2>2
    <3>. QED
      BY <2>2, <3>1 DEF Settle
  <2>3. pc[b] # "idle" \/ b = o
    BY <1>5 DEF Settle, Service
  <2>. QED
    BY <2>1, <2>2, <2>3 DEF Settle
<1>. QED
  BY <1>1, <1>2, <1>3, <1>4, <1>5 DEF Settle, Service
=============================================================================
