------------------------- MODULE TxSchedulerProofs -------------------------
(***************************************************************************)
(* Proofs about TxScheduler, for every set of operations, shards and keys  *)
(* and every bound: IInv is inductive, and the safety properties follow.   *)
(***************************************************************************)
EXTENDS TxShardProofs

(* From shards to the whole system.                                        *)

(* An operation whose coordinator and messages stand still keeps its view  *)
(* of a shard that does not move it, or starts it; a start is progress     *)
(* that the barrier does not count.                                        *)
LEMMA ViewFrame ==
    ASSUME NEW p \in Ops, NEW t \in Shards, View(p, t), pc'[p] = pc[p],
           msg'[p][t] = msg[p][t], releasing'[p] = releasing[p], t \in failed'[p] <=> t \in failed[p],
           SameStanding(p, shard[t], shard'[t]) \/ Started(p, shard[t], shard'[t])
    PROVE  View(p, t)' /\ (t \in Owing(p)' <=> t \in Owing(p))
<1>1. CASE SameStanding(p, shard[t], shard'[t])
  <2>1. /\ Absent(p, shard[t])' <=> Absent(p, shard[t])
        /\ Placed(p, shard[t])' <=> Placed(p, shard[t])
        /\ Parked(p, shard[t])' <=> Parked(p, shard[t])
        /\ Active(p, shard[t])' <=> Active(p, shard[t])
        /\ p \in shard'[t].holds <=> p \in shard[t].holds
    BY <1>1 DEF SameStanding, Absent, Placed, Parked, Active
  <2>2. Resting(p, t)' <=> Resting(p, t)
    BY <2>1 DEF Resting
  <2>3. View(p, t)'
    BY <2>1, <2>2 DEF View
  <2>4. t \in Owing(p)' <=> t \in Owing(p)
    BY <1>1 DEF Owing, SameStanding
  <2>. QED
    BY <2>3, <2>4
<1>2. CASE Started(p, shard[t], shard'[t])
  <2>1. /\ p \in shard[t].queue
        /\ p \in shard'[t].holds /\ p \in shard'[t].running /\ p \notin shard'[t].armed
        /\ Multi(p) => /\ p \in shard[t].armed /\ p \notin shard[t].running
                       /\ p \in shard'[t].queue
        /\ ~Multi(p) => p \notin shard'[t].queue
    BY <1>2 DEF Started
  <2>2. ~Absent(p, shard[t]) /\ ~Resting(p, t) /\ (Multi(p) => ~Placed(p, shard[t]))
    BY <2>1 DEF Absent, Resting, Placed, Parked
  <2>3. t \in Participants(p) /\ pc[p] \notin {"idle", "done", "scheduling", "cancelling", "scheduled"}
    BY <2>2 DEF View
  <2>4. pc[p] = "executing" => msg[p][t] = "none"
    BY <2>2, <2>3 DEF View
  <2>5. Active(p, shard[t])'
    BY <2>1 DEF Active
  <2>6. View(p, t)'
    BY <2>3, <2>4, <2>5 DEF View
  <2>7. t \in Owing(p)' /\ t \in Owing(p)
    BY <2>1 DEF Owing
  <2>. QED
    BY <2>6, <2>7
<1>. QED
  BY <1>1, <1>2

(* A coordinator whose barrier is zero is owed nothing.                    *)
LEMMA BarrierZero ==
    ASSUME Counts, IInv, NEW o \in Ops, barrier[o] = 0
    PROVE  Owing(o) = {}
  BY DEF Counts, IInv, BarrierExact, Owing

(* A shard that owes no longer lowers the count by one.                    *)
LEMMA CountRemoved ==
    ASSUME Counts, NEW S, S \subseteq Shards, NEW s \in S
    PROVE  Cardinality(S \ {s}) = Cardinality(S) - 1
  BY DEF Counts

(* A step of o on shard s, whatever the handler: it is enough to know its  *)
(* effect on s, o's new view, o's new queue node and whether s still owes. *)
LEMMA ShardStep ==
    ASSUME Counts, IInv, NEW o \in Ops, NEW s \in Shards,
           shard' = [shard EXCEPT ![s] = shard'[s]], Effect(o, shard[s], shard'[s], s),
           pc' = pc, txid' = txid, releasing' = releasing, hops' = hops, earlier' = earlier,
           nextTxid' \in Nat, nextTxid <= nextTxid',
           failed' \in [Ops -> SUBSET Shards], msg' \in [Ops -> [Shards -> Phases]],
           \A p \in Ops, t \in Shards : p # o \/ t # s =>
               msg'[p][t] = msg[p][t] /\ (t \in failed'[p] <=> t \in failed[p]),
           barrier' = [barrier EXCEPT ![o] = barrier'[o]],
           View(o, s)',
           o \in shard'[s].queue => /\ shard'[s].node[o] < nextTxid'
                                    /\ Multi(o) => shard'[s].node[o] = txid[o]
                                    /\ ~Multi(o) => \A p \in Ops : txid[p] # shard'[s].node[o],
           s \in Owing(o),
           s \in Owing(o)' => barrier'[o] = barrier[o],
           s \notin Owing(o)' => barrier'[o] = barrier[o] - 1
    PROVE  IInv' /\ OrderlyStep
<1>. DEFINE r == shard'[s]
            n == nextTxid'
<1>1. /\ TypeOK /\ BypassDrains /\ (\A t \in Shards : ShardInv(shard[t], t)) /\ TxidInv
      /\ (\A p \in Ops, t \in Shards : View(p, t)) /\ BarrierExact
  BY DEF IInv
<1>2. /\ r \in ShardType /\ ShardInv(r, s) /\ r.bypass = <<>>
      /\ \A p \in Ops \ {o} : /\ SameStanding(p, shard[s], r) \/ Started(p, shard[s], r)
                              /\ r.node[p] = shard[s].node[p]
  BY DEF Effect
<1>3. shard \in [Shards -> ShardType] /\ shard'[s] = r /\ \A t \in Shards \ {s} : shard'[t] = shard[t]
  BY <1>1 DEF TypeOK
<1>4. TypeOK'
  <2>1. nextTxid' \in Nat \ {0}
    BY <1>1 DEF TypeOK
  <2>2. shard' \in [Shards -> ShardType]
    BY <1>2, <1>3
  <2>3. barrier' \in [Ops -> Int]
    <3>1. barrier \in [Ops -> Int]
      BY <1>1 DEF TypeOK
    <3>2. barrier'[o] \in Int
      BY <3>1
    <3>. QED
      BY <3>1, <3>2
  <2>. QED
    BY <1>1, <2>1, <2>2, <2>3 DEF TypeOK
<1>5. BypassDrains'
  BY <1>1, <1>2, <1>3 DEF BypassDrains
<1>6. (\A t \in Shards : ShardInv(shard[t], t))'
  BY <1>1, <1>2, <1>3
<1>7. ASSUME NEW p \in Ops, NEW t \in Shards, p # o \/ t # s
      PROVE  View(p, t)' /\ (t \in Owing(p)' <=> t \in Owing(p))
  <2>1. SameStanding(p, shard[t], shard'[t]) \/ Started(p, shard[t], shard'[t])
    BY <1>2, <1>3, <1>7 DEF SameStanding
  <2>. QED
    BY <1>1, <1>7, <2>1, ViewFrame
<1>8. (\A p \in Ops, t \in Shards : View(p, t))'
  BY <1>7
<1>9. TxidInv'
  <2>1. /\ \A p \in Ops : txid'[p] < n
        /\ \A p, q \in Ops : p # q /\ txid'[p] = txid'[q] => txid'[p] = 0
        /\ \A p \in Ops : pc'[p] # "idle" /\ Multi(p) => txid'[p] # 0
    BY <1>1 DEF TxidInv, TypeOK
  <2>2. ASSUME NEW t \in Shards, NEW p \in shard'[t].queue
        PROVE  /\ shard'[t].node[p] < n
               /\ Multi(p) => shard'[t].node[p] = txid[p]
               /\ ~Multi(p) => \A q \in Ops : txid[q] # shard'[t].node[p]
    <3>1. CASE t = s /\ p = o
      BY <3>1, <2>2, <1>3, SMTT(60)
    <3>2. CASE ~(t = s /\ p = o)
      <4>1. p \in Ops
        <5>1. shard'[t] \in ShardType
          BY <1>2, <1>3
        <5>2. shard'[t].queue \subseteq Ops
          BY <5>1 DEF ShardType
        <5>. QED
          BY <5>2, <2>2, Zenon
      <4>2. p \in shard[t].queue /\ shard'[t].node[p] = shard[t].node[p]
        BY <3>2, <4>1, <2>2, <1>2, <1>3, SMTT(60) DEF SameStanding, Started
      <4>3. shard[t].node[p] \in Nat
        BY <1>3, <4>1, SMTT(60) DEF ShardType
      <4>. QED
        BY <4>1, <4>2, <4>3, <1>1 DEF TxidInv, TypeOK
    <3>. QED
      BY <3>1, <3>2
  <2>. QED
    BY <2>1, <2>2 DEF TxidInv
<1>10. ASSUME NEW p \in Ops PROVE barrier'[p] = Cardinality(Owing(p))'
  <2>1. barrier[p] = Cardinality(Owing(p)) /\ barrier \in [Ops -> Int]
    BY <1>1 DEF BarrierExact, TypeOK
  <2>2. Owing(p) \subseteq Shards /\ Owing(p)' \subseteq Shards
    BY DEF Owing
  <2>3. CASE p # o \/ s \in Owing(o)'
    <3>1. \A t \in Shards : t \in Owing(p)' <=> t \in Owing(p)
      <4>1. ASSUME NEW t \in Shards PROVE t \in Owing(p)' <=> t \in Owing(p)
        <5>1. CASE p = o /\ t = s
          BY <5>1, <2>3
        <5>. QED
          BY <5>1, <1>7
      <4>. QED
        BY <4>1
    <3>2. Owing(p)' = Owing(p)
      BY <2>2, <3>1, ZenonT(60)
    <3>. QED
      BY <2>1, <2>3, <3>2
  <2>4. CASE p = o /\ s \notin Owing(o)'
    <3>1. Owing(o)' = Owing(o) \ {s}
      BY <2>2, <2>4, <1>7
    <3>2. Cardinality(Owing(o) \ {s}) = Cardinality(Owing(o)) - 1
      BY <2>2, <2>4, CountRemoved
    <3>. QED
      BY <2>1, <2>4, <3>1, <3>2, SMTT(60)
  <2>. QED
    BY <2>3, <2>4
<1>11. OrderlyStep
  <2>1. Orderly(shard[s], shard'[s], s)
    BY SMTT(60) DEF Effect
  <2>. QED
    BY <2>1, <1>3, SMTT(60) DEF OrderlyStep, Orderly
<1>. QED
  BY <1>4, <1>5, <1>6, <1>8, <1>9, <1>10, <1>11, SMTT(60) DEF IInv, BarrierExact

(* A coordinator step of o: no shard moves, and everyone else stands still.*)
LEMMA CoordinatorStep ==
    ASSUME IInv, TypeOK', NEW o \in Ops, shard' = shard, failed' = failed,
           \A p \in Ops \ {o} : /\ pc'[p] = pc[p] /\ txid'[p] = txid[p] /\ msg'[p] = msg[p]
                                /\ releasing'[p] = releasing[p] /\ barrier'[p] = barrier[p],
           \A t \in Shards : View(o, t)',
           barrier'[o] = Cardinality(Owing(o)'),
           \/ txid'[o] = txid[o] /\ nextTxid' = nextTxid /\ (pc[o] = "idle" /\ Multi(o) => pc'[o] = "idle")
           \/ /\ txid'[o] = nextTxid /\ nextTxid' = nextTxid + 1
              /\ \A t \in Shards : o \notin shard[t].queue
    PROVE  IInv' /\ OrderlyStep
<1>1. /\ TypeOK /\ BypassDrains /\ (\A t \in Shards : ShardInv(shard[t], t)) /\ TxidInv
      /\ (\A p \in Ops, t \in Shards : View(p, t)) /\ BarrierExact
  BY DEF IInv
<1>2. BypassDrains' /\ (\A t \in Shards : ShardInv(shard[t], t))'
  BY <1>1 DEF BypassDrains
<1>3. ASSUME NEW p \in Ops \ {o}, NEW t \in Shards
      PROVE  View(p, t)' /\ (t \in Owing(p)' <=> t \in Owing(p))
  <2>1. SameStanding(p, shard[t], shard'[t])
    BY DEF SameStanding
  <2>. QED
    BY <1>1, <2>1, ViewFrame
<1>4. (\A p \in Ops, t \in Shards : View(p, t))'
  BY <1>3
<1>5. ASSUME NEW p \in Ops PROVE barrier'[p] = Cardinality(Owing(p))'
  <2>1. CASE p # o
    <3>1. Owing(p) \subseteq Shards /\ Owing(p)' \subseteq Shards
      BY DEF Owing
    <3>2. \A t \in Shards : t \in Owing(p)' <=> t \in Owing(p)
      BY <2>1, <1>3
    <3>3. Owing(p)' = Owing(p)
      BY <3>1, <3>2, Zenon
    <3>. QED
      BY <3>3, <2>1, <1>1, SMTT(60) DEF BarrierExact
  <2>. QED
    BY <2>1
<1>6. TxidInv'
  <2>1. nextTxid \in Nat /\ nextTxid # 0 /\ txid \in [Ops -> Nat] /\ txid' \in [Ops -> Nat]
    BY <1>1, SMTT(60) DEF TypeOK
  <2>2. /\ \A p \in Ops : txid[p] < nextTxid
        /\ \A p, q \in Ops : p # q /\ txid[p] = txid[q] => txid[p] = 0
        /\ \A p \in Ops : pc[p] # "idle" /\ Multi(p) => txid[p] # 0
    BY <1>1 DEF TxidInv
  <2>3. \A p \in Ops \ {o} : txid'[p] = txid[p] /\ pc'[p] = pc[p]
    OBVIOUS
  <2>4. ASSUME NEW t \in Shards, NEW p \in shard[t].queue
        PROVE  /\ p \in Ops /\ shard[t].node[p] \in Nat
               /\ shard[t].node[p] < nextTxid
               /\ Multi(p) => shard[t].node[p] = txid[p]
               /\ ~Multi(p) => \A q \in Ops : txid[q] # shard[t].node[p]
    <3>1. shard[t] \in ShardType
      BY <1>1, SMTT(60) DEF TypeOK
    <3>2. shard[t].queue \subseteq Ops /\ shard[t].node \in [Ops -> Nat]
      BY <3>1 DEF ShardType
    <3>3. /\ shard[t].node[p] < nextTxid
          /\ Multi(p) => shard[t].node[p] = txid[p]
          /\ ~Multi(p) => \A q \in Ops : txid[q] # shard[t].node[p]
      BY <1>1, <2>4, ZenonT(60) DEF TxidInv
    <3>4. p \in Ops
      BY <2>4, <3>2, Zenon
    <3>. QED
      BY <3>2, <3>3, <3>4, SMTT(60)
  <2>5. CASE txid'[o] = txid[o] /\ nextTxid' = nextTxid /\ (pc[o] = "idle" /\ Multi(o) => pc'[o] = "idle")
    <3>1. /\ \A p \in Ops : txid'[p] = txid[p]
          /\ \A p \in Ops : pc'[p] # "idle" /\ Multi(p) => txid'[p] # 0
      BY <2>2, <2>3, <2>5, SMTT(60)
    <3>2. /\ \A p \in Ops : txid'[p] < nextTxid'
          /\ \A p, q \in Ops : p # q /\ txid'[p] = txid'[q] => txid'[p] = 0
      BY <2>2, <2>5, <3>1
    <3>3. ASSUME NEW t \in Shards, NEW p \in shard[t].queue
          PROVE  /\ shard[t].node[p] < nextTxid'
                 /\ Multi(p) => shard[t].node[p] = txid'[p]
                 /\ ~Multi(p) => \A q \in Ops : txid'[q] # shard[t].node[p]
      BY <2>4, <2>5, <3>1
    <3>. QED
      BY <3>1, <3>2, <3>3, SMTT(60) DEF TxidInv
  <2>6. CASE /\ txid'[o] = nextTxid /\ nextTxid' = nextTxid + 1
             /\ \A t \in Shards : o \notin shard[t].queue
    <3>1. /\ \A p \in Ops : txid'[p] < nextTxid'
          /\ \A p, q \in Ops : p # q /\ txid'[p] = txid'[q] => txid'[p] = 0
          /\ \A p \in Ops : pc'[p] # "idle" /\ Multi(p) => txid'[p] # 0
      BY <2>1, <2>2, <2>3, <2>6, SMTT(60)
    <3>2. ASSUME NEW t \in Shards, NEW p \in shard[t].queue
          PROVE  /\ shard[t].node[p] < nextTxid'
                 /\ Multi(p) => shard[t].node[p] = txid'[p]
                 /\ ~Multi(p) => \A q \in Ops : txid'[q] # shard[t].node[p]
      <4>1. /\ p \in Ops \ {o} /\ shard[t].node[p] \in Nat /\ shard[t].node[p] < nextTxid
            /\ Multi(p) => shard[t].node[p] = txid[p]
            /\ ~Multi(p) => \A q \in Ops : txid[q] # shard[t].node[p]
        BY <2>4, <2>6
      <4>2. shard[t].node[p] < nextTxid' /\ txid'[o] # shard[t].node[p]
        BY <2>1, <2>6, <4>1
      <4>3. Multi(p) => shard[t].node[p] = txid'[p]
        BY <2>3, <4>1
      <4>4. ~Multi(p) => \A q \in Ops : txid'[q] # shard[t].node[p]
        BY <2>3, <4>1, <4>2
      <4>. QED
        BY <4>2, <4>3, <4>4
    <3>. QED
      BY <3>1, <3>2, SMTT(60) DEF TxidInv
  <2>. QED
    BY <2>5, <2>6, SMTT(60)
<1>7. OrderlyStep
  BY SMTT(60) DEF OrderlyStep, Orderly
<1>. QED
  BY <1>2, <1>4, <1>5, <1>6, <1>7 DEF IInv, BarrierExact

-----------------------------------------------------------------------------
(* One lemma per kind of delivery.                                         *)

LEMMA DeliverScheduleStep ==
    ASSUME Counts, IInv, NEW o \in Ops, NEW s \in Shards, DeliverSchedule(o, s)
    PROVE  IInv' /\ OrderlyStep
<1>1. /\ TypeOK /\ TxidInv /\ View(o, s) /\ ShardInv(shard[s], s) /\ shard[s].bypass = <<>>
      /\ shard[s] \in ShardType /\ txid[o] \in Nat
  BY SMTT(60) DEF IInv, BypassDrains, TypeOK
<1>2. /\ msg[o][s] = "schedule" /\ s \in Owing(o) /\ s \in Participants(o)
      /\ pc[o] = "scheduling" /\ Multi(o) /\ Absent(o, shard[s])
  BY MessageView, ZenonT(60) DEF DeliverSchedule
<1>. DEFINE r == ScheduleInShard(shard[s], o, s, txid[o])
<1>3. /\ shard' = [shard EXCEPT ![s] = r]
      /\ pc' = pc /\ txid' = txid /\ releasing' = releasing /\ hops' = hops /\ earlier' = earlier
      /\ nextTxid' = nextTxid
      /\ barrier' = [barrier EXCEPT ![o] = barrier[o] - 1]
      /\ msg' = [msg EXCEPT ![o][s] = "none"]
      /\ failed' = [failed EXCEPT ![o] = IF ScheduleFails(shard[s], o, s, txid[o])
                                         THEN @ \cup {s} ELSE @ \ {s}]
  BY <1>1, ZenonT(60) DEF DeliverSchedule, Complete, TypeOK
<1>4. /\ failed' \in [Ops -> SUBSET Shards] /\ msg' \in [Ops -> [Shards -> Phases]]
      /\ msg'[o][s] = "none"
      /\ \A p \in Ops, t \in Shards : p # o \/ t # s =>
             msg'[p][t] = msg[p][t] /\ (t \in failed'[p] <=> t \in failed[p])
      /\ s \in failed'[o] <=> ScheduleFails(shard[s], o, s, txid[o])
  BY <1>1, <1>3, ZenonT(60) DEF TypeOK, Phases
<1>5. \A q \in shard[s].queue : shard[s].node[q] # txid[o]
  BY <1>1, <1>2, SMTT(60) DEF TxidInv, Absent, ShardType
<1>6. /\ Effect(o, shard[s], r, s)
      /\ IF s \in failed'[o] THEN Absent(o, r) ELSE Placed(o, r) /\ o \notin r.holds
      /\ o \in r.queue => r.node[o] = txid[o]
  <2>1. CASE ScheduleFails(shard[s], o, s, txid[o])
    <3>1. r = shard[s]
      BY <2>1, SMTT(60) DEF ScheduleInShard
    <3>2. Effect(o, shard[s], shard[s], s)
      BY <1>1 DEF Effect, SameStanding, Orderly
    <3>3. o \notin shard[s].queue
      BY <1>2, SMTT(60) DEF Absent
    <3>. QED
      BY <3>1, <3>2, <3>3, <2>1, <1>2, <1>4
  <2>2. CASE ~ScheduleFails(shard[s], o, s, txid[o])
    <3>1. Effect(o, shard[s], r, s) /\ Placed(o, r) /\ o \notin r.holds /\ r.node[o] = txid[o]
      <4>1. /\ shard[s] \in ShardType /\ ShardInv(shard[s], s) /\ shard[s].bypass = <<>>
            /\ Multi(o) /\ Absent(o, shard[s]) /\ txid[o] \in Nat
            /\ \A q \in shard[s].queue : shard[s].node[q] # txid[o]
            /\ ~ScheduleFails(shard[s], o, s, txid[o])
        BY <2>2, <1>1, <1>2, <1>5, Zenon
      <4>2. LET q == ScheduleInShard(shard[s], o, s, txid[o])
            IN  Effect(o, shard[s], q, s) /\ Placed(o, q) /\ o \notin q.holds /\ q.node[o] = txid[o]
        BY ONLY <4>1, ScheduleEffect, o \in Ops, s \in Shards, SMTT(60)
      <4>. QED
        BY <4>2
    <3>. QED
      BY <3>1, <2>2, <1>4, ZenonT(60)
  <2>. QED
    BY <2>1, <2>2, ZenonT(60)
<1>7. shard'[s] = r /\ shard' = [shard EXCEPT ![s] = shard'[s]]
  BY <1>1, <1>3, SMTT(60) DEF TypeOK
<1>. HIDE DEF r
<1>8. View(o, s)'
  BY <1>2, <1>3, <1>4, <1>6, <1>7, SMTT(60) DEF View
<1>9. s \notin Owing(o)'
  BY <1>2, <1>4, <1>6, <1>7, ZenonT(60) DEF Owing, Absent, Placed
<1>10. /\ nextTxid' \in Nat /\ nextTxid <= nextTxid' /\ txid[o] < nextTxid
       /\ barrier'[o] = barrier[o] - 1 /\ barrier' = [barrier EXCEPT ![o] = barrier'[o]]
  <2>1. nextTxid' \in Nat /\ nextTxid <= nextTxid' /\ barrier \in [Ops -> Int]
    BY <1>1, <1>3, SMTT(30) DEF TypeOK
  <2>2. txid[o] < nextTxid
    BY <1>1, Zenon DEF TxidInv
  <2>3. barrier'[o] = barrier[o] - 1 /\ barrier' = [barrier EXCEPT ![o] = barrier'[o]]
    BY <1>3, <2>1
  <2>. QED
    BY <2>1, <2>2, <2>3
<1>11. /\ Effect(o, shard[s], shard'[s], s)
       /\ o \in shard'[s].queue => shard'[s].node[o] < nextTxid' /\ shard'[s].node[o] = txid[o]
  BY <1>3, <1>6, <1>7, <1>10
<1>. QED
  BY <1>2, <1>3, <1>4, <1>7, <1>8, <1>9, <1>10, <1>11, ShardStep, ZenonT(60)

LEMMA DeliverCancelStep ==
    ASSUME Counts, IInv, NEW o \in Ops, NEW s \in Shards, DeliverCancel(o, s)
    PROVE  IInv' /\ OrderlyStep
<1>1. /\ TypeOK /\ TxidInv /\ View(o, s) /\ ShardInv(shard[s], s) /\ shard[s].bypass = <<>>
      /\ shard[s] \in ShardType
  BY SMTT(60) DEF IInv, BypassDrains, TypeOK
<1>2. /\ msg[o][s] = "cancel" /\ s \in Owing(o) /\ s \in Participants(o)
      /\ pc[o] = "cancelling" /\ Multi(o) /\ Placed(o, shard[s]) /\ o \notin shard[s].holds
  BY MessageView, SMTT(60) DEF DeliverCancel
<1>. DEFINE r == CancelInShard(shard[s], o, s)
<1>3. /\ shard' = [shard EXCEPT ![s] = r]
      /\ pc' = pc /\ txid' = txid /\ releasing' = releasing /\ hops' = hops /\ earlier' = earlier
      /\ nextTxid' = nextTxid
      /\ barrier' = [barrier EXCEPT ![o] = barrier[o] - 1]
      /\ msg' = [msg EXCEPT ![o][s] = "none"] /\ failed' = failed
  BY <1>1, SMTT(60) DEF DeliverCancel, Complete, TypeOK
<1>4. /\ failed' \in [Ops -> SUBSET Shards] /\ msg' \in [Ops -> [Shards -> Phases]]
      /\ msg'[o][s] = "none"
      /\ \A p \in Ops, t \in Shards : p # o \/ t # s =>
             msg'[p][t] = msg[p][t] /\ (t \in failed'[p] <=> t \in failed[p])
  BY <1>1, <1>3, SMTT(60) DEF TypeOK, Phases
<1>5. Effect(o, shard[s], r, s) /\ Absent(o, r)
  BY <1>1, <1>2, CancelEffect, SMTT(60)
<1>6. shard'[s] = r /\ shard' = [shard EXCEPT ![s] = shard'[s]]
  BY <1>1, <1>3, SMTT(60) DEF TypeOK
<1>. HIDE DEF r
<1>7. View(o, s)' /\ o \notin r.queue
  BY <1>2, <1>3, <1>4, <1>5, <1>6, ZenonT(60) DEF View, Absent
<1>8. s \notin Owing(o)'
  BY <1>4, <1>5, <1>6, SMTT(60) DEF Owing, Absent
<1>9. /\ nextTxid' \in Nat /\ nextTxid <= nextTxid'
      /\ barrier'[o] = barrier[o] - 1 /\ barrier' = [barrier EXCEPT ![o] = barrier'[o]]
  BY <1>1, <1>3 DEF TypeOK
<1>10. Effect(o, shard[s], shard'[s], s) /\ o \notin shard'[s].queue
  BY <1>5, <1>6, <1>7, SMTT(60)
<1>. QED
  BY <1>2, <1>3, <1>4, <1>6, <1>7, <1>8, <1>9, <1>10, ShardStep, ZenonT(60)

(* The deliveries of a hop share their frame: the barrier stays, o becomes *)
(* active on s, and only a contended command draws a txid.                 *)
LEMMA HopDelivery ==
    ASSUME Counts, IInv, NEW o \in Ops, NEW s \in Shards, msg[o][s] \in {"arm", "run"},
           shard' = [shard EXCEPT ![s] = shard'[s]],
           Effect(o, shard[s], shard'[s], s), Active(o, shard'[s]),
           pc' = pc, txid' = txid, releasing' = releasing, hops' = hops, earlier' = earlier,
           failed' = failed, barrier' = barrier, msg' = [msg EXCEPT ![o][s] = "none"],
           \/ /\ nextTxid' = nextTxid /\ shard'[s].node = shard[s].node
              /\ o \in shard'[s].queue => o \in shard[s].queue
           \/ nextTxid' = nextTxid + 1 /\ shard'[s].node[o] = nextTxid /\ ~Multi(o)
    PROVE  IInv' /\ OrderlyStep
<1>. DEFINE r == shard'[s]
<1>1. TypeOK /\ TxidInv /\ View(o, s) /\ shard[s] \in ShardType /\ nextTxid \in Nat
  BY DEF IInv, TypeOK
<1>2. s \in Owing(o) /\ s \in Participants(o) /\ pc[o] = "executing"
  BY MessageView, SMTT(60)
<1>3. /\ failed' \in [Ops -> SUBSET Shards] /\ msg' \in [Ops -> [Shards -> Phases]]
      /\ msg'[o][s] = "none"
      /\ \A p \in Ops, t \in Shards : p # o \/ t # s =>
             msg'[p][t] = msg[p][t] /\ (t \in failed'[p] <=> t \in failed[p])
  BY <1>1, SMTT(60) DEF TypeOK, Phases
<1>5. View(o, s)'
  BY <1>2, <1>3, ZenonT(60) DEF View
<1>6. s \in Owing(o)'
  BY SMTT(60) DEF Owing, Active
<1>7. o \in r.queue => /\ r.node[o] < nextTxid'
                       /\ Multi(o) => r.node[o] = txid[o]
                       /\ ~Multi(o) => \A p \in Ops : txid[p] # r.node[o]
  <2>1. /\ \A p \in Ops : txid[p] \in Nat /\ txid[p] < nextTxid
        /\ \A p \in shard[s].queue : /\ shard[s].node[p] < nextTxid
                                     /\ Multi(p) => shard[s].node[p] = txid[p]
                                     /\ ~Multi(p) => \A q \in Ops : txid[q] # shard[s].node[p]
    BY <1>1 DEF TxidInv, TypeOK
  <2>2. CASE /\ nextTxid' = nextTxid /\ shard'[s].node = shard[s].node
             /\ o \in shard'[s].queue => o \in shard[s].queue
    BY <2>1, <2>2
  <2>3. CASE nextTxid' = nextTxid + 1 /\ shard'[s].node[o] = nextTxid /\ ~Multi(o)
    BY <1>1, <2>1, <2>3
  <2>. QED
    BY <2>2, <2>3
<1>8. /\ nextTxid' \in Nat /\ nextTxid <= nextTxid' /\ barrier'[o] = barrier[o]
      /\ barrier' = [barrier EXCEPT ![o] = barrier'[o]]
  BY <1>1 DEF TypeOK
<1>. QED
  BY <1>2, <1>3, <1>5, <1>6, <1>7, <1>8, ShardStep, SMTT(60)

LEMMA HopDeliveryStep ==
    ASSUME Counts, IInv, NEW o \in Ops, NEW s \in Shards,
           \/ DeliverArm(o, s) \/ DeliverRunRetained(o, s)
           \/ DeliverRunFast(o, s) \/ DeliverRunContended(o, s)
    PROVE  IInv' /\ OrderlyStep
<1>1. /\ TypeOK /\ TxidInv /\ ShardInv(shard[s], s) /\ shard[s].bypass = <<>>
      /\ shard[s] \in ShardType /\ shard \in [Shards -> ShardType] /\ nextTxid \in Nat
  BY DEF IInv, BypassDrains, TypeOK
<1>2. CASE DeliverArm(o, s)
  <2>1. msg[o][s] = "arm" /\ Multi(o) /\ Placed(o, shard[s])
    BY <1>2, MessageView, SMTT(60) DEF DeliverArm
  <2>. DEFINE r == ArmInShard(shard[s], o, s)
  <2>2. Effect(o, shard[s], r, s) /\ Active(o, r) /\ r.node = shard[s].node
    BY <1>1, <2>1, ArmEffect
  <2>3. shard' = [shard EXCEPT ![s] = r]
    BY <1>2 DEF DeliverArm
  <2>. HIDE DEF r
  <2>4. shard'[s] = r /\ shard' = [shard EXCEPT ![s] = shard'[s]]
    BY <1>1, <2>3
  <2>5. o \in shard[s].queue
    BY <2>1 DEF Placed
  <2>. QED
    BY <1>2, <2>1, <2>2, <2>4, <2>5, HopDelivery, ZenonT(60) DEF DeliverArm
<1>3. CASE DeliverRunRetained(o, s)
  <2>1. msg[o][s] = "run" /\ ~Multi(o) /\ Parked(o, shard[s]) /\ o \in shard[s].holds
    BY <1>3, MessageView DEF DeliverRunRetained
  <2>. DEFINE r == [shard[s] EXCEPT !.running = @ \cup {o}]
  <2>2. Effect(o, shard[s], r, s) /\ Active(o, r) /\ r.node = shard[s].node
    BY <1>1, <2>1, RetainedRunEffect
  <2>3. r.queue = shard[s].queue
    BY <1>1 DEF ShardType
  <2>4. shard' = [shard EXCEPT ![s] = r]
    BY <1>3 DEF DeliverRunRetained
  <2>. HIDE DEF r
  <2>5. shard'[s] = r /\ shard' = [shard EXCEPT ![s] = shard'[s]]
    BY <1>1, <2>4
  <2>. QED
    BY <1>3, <2>1, <2>2, <2>3, <2>5, HopDelivery, ZenonT(60) DEF DeliverRunRetained
<1>4. CASE DeliverRunFast(o, s)
  <2>1. /\ msg[o][s] = "run" /\ ~Multi(o) /\ Parked(o, shard[s]) /\ o \notin shard[s].holds
        /\ Grantable(shard[s], o, s)
    BY <1>4, MessageView, SMTT(60) DEF DeliverRunFast
  <2>. DEFINE r == FastPath(shard[s], o, s)
  <2>2. Effect(o, shard[s], r, s) /\ Active(o, r) /\ r.node = shard[s].node
    BY <1>1, <2>1, FastEffect
  <2>3. o \in r.queue => o \in shard[s].queue
    BY <1>1 DEF FastPath, AcquireHolds, ShardType
  <2>4. shard' = [shard EXCEPT ![s] = r]
    BY <1>4 DEF DeliverRunFast
  <2>. HIDE DEF r
  <2>5. shard'[s] = r /\ shard' = [shard EXCEPT ![s] = shard'[s]]
    BY <1>1, <2>4
  <2>. QED
    BY <1>4, <2>1, <2>2, <2>3, <2>5, HopDelivery, ZenonT(60) DEF DeliverRunFast
<1>5. CASE DeliverRunContended(o, s)
  <2>1. /\ msg[o][s] = "run" /\ ~Multi(o) /\ Parked(o, shard[s]) /\ o \notin shard[s].holds
    BY <1>5, MessageView, SMTT(60) DEF DeliverRunContended
  <2>. DEFINE r == Enqueue(shard[s], o, nextTxid)
  <2>2. \A q \in shard[s].queue : shard[s].node[q] < nextTxid
    BY <1>1, ZenonT(60) DEF TxidInv
  <2>3. Effect(o, shard[s], r, s) /\ Active(o, r) /\ r.node[o] = nextTxid
    BY <1>1, <2>1, <2>2, EnqueueEffect, ZenonT(60)
  <2>4. shard' = [shard EXCEPT ![s] = r]
    BY <1>5, SMTT(60) DEF DeliverRunContended
  <2>. HIDE DEF r
  <2>5. shard'[s] = r /\ shard' = [shard EXCEPT ![s] = shard'[s]]
    BY <1>1, <2>4
  <2>6. Effect(o, shard[s], shard'[s], s) /\ Active(o, shard'[s]) /\ shard'[s].node[o] = nextTxid
    BY <2>3, <2>5
  <2>7. /\ pc' = pc /\ txid' = txid /\ releasing' = releasing /\ hops' = hops /\ earlier' = earlier
        /\ failed' = failed /\ barrier' = barrier /\ msg' = [msg EXCEPT ![o][s] = "none"]
        /\ nextTxid' = nextTxid + 1
    BY <1>5 DEF DeliverRunContended
  <2>. QED
    BY <2>1, <2>5, <2>6, <2>7, HopDelivery, ZenonT(60)
<1>. QED
  BY <1>2, <1>3, <1>4, <1>5, SMTT(60)

(* A callback that finishes gives back its locks or keeps them.            *)
LEMMA FinishHopStep ==
    ASSUME Counts, IInv, NEW o \in Ops, NEW s \in Shards, FinishHop(o, s)
    PROVE  IInv' /\ OrderlyStep
<1>1. /\ TypeOK /\ TxidInv /\ View(o, s) /\ ShardInv(shard[s], s) /\ shard[s].bypass = <<>>
      /\ shard[s] \in ShardType /\ shard \in [Shards -> ShardType] /\ nextTxid \in Nat
      /\ pc[o] \in {"idle", "scheduling", "cancelling", "scheduled", "executing", "done"}
  BY DEF IInv, BypassDrains, TypeOK
<1>2. o \in shard[s].running
  BY SMTT(60) DEF FinishHop
<1>3. /\ s \in Participants(o) /\ pc[o] = "executing" /\ msg[o][s] = "none"
      /\ Active(o, shard[s]) /\ s \in Owing(o)
  <2>1. ~Absent(o, shard[s]) /\ ~Resting(o, s) /\ ~Placed(o, shard[s])
    BY <1>2, SMTT(60) DEF Absent, Resting, Placed, Parked
  <2>2. s \in Participants(o) /\ pc[o] \notin {"idle", "done", "scheduling", "cancelling", "scheduled"}
    BY <1>1, <2>1 DEF View
  <2>3. s \in Owing(o)
    BY <1>2 DEF Owing
  <2>. QED
    BY <1>1, <2>1, <2>2, <2>3, ZenonT(60) DEF View
<1>. DEFINE r == IF releasing[o] THEN ReleaseInShard(shard[s], o, s) ELSE RetainInShard(shard[s], o)
<1>4. /\ Effect(o, shard[s], r, s)
      /\ IF releasing[o] THEN Absent(o, r) ELSE IF Multi(o) THEN Placed(o, r) ELSE Parked(o, r)
      /\ ~releasing[o] => r.node = shard[s].node
  <2>1. CASE releasing[o]
    <3>1. /\ Effect(o, shard[s], ReleaseInShard(shard[s], o, s), s)
          /\ Absent(o, ReleaseInShard(shard[s], o, s))
      BY <1>1, <1>2, <1>3, ReleaseEffect, ZenonT(60)
    <3>. QED
      BY <2>1, <3>1, ZenonT(60)
  <2>2. CASE ~releasing[o]
    BY <2>2, <1>1, <1>2, <1>3, RetainEffect, ZenonT(60)
  <2>. QED
    BY <2>1, <2>2, ZenonT(60)
<1>5. /\ shard' = [shard EXCEPT ![s] = r] /\ barrier' = [barrier EXCEPT ![o] = barrier[o] - 1]
      /\ pc' = pc /\ txid' = txid /\ releasing' = releasing /\ hops' = hops /\ earlier' = earlier
      /\ nextTxid' = nextTxid /\ msg' = msg /\ failed' = failed
  BY DEF FinishHop
<1>. HIDE DEF r
<1>6. shard'[s] = r /\ shard' = [shard EXCEPT ![s] = shard'[s]]
  BY <1>1, <1>5, SMTT(60)
<1>7. View(o, s)'
  BY <1>3, <1>4, <1>5, <1>6, SMTT(60) DEF View, Resting
<1>8. s \notin Owing(o)'
  BY <1>3, <1>4, <1>5, <1>6, SMTT(60) DEF Owing, Absent, Placed, Parked
<1>9. o \in shard'[s].queue => /\ shard'[s].node[o] < nextTxid' /\ Multi(o)
                               /\ shard'[s].node[o] = txid[o]
  <2>1. ASSUME o \in r.queue
        PROVE  Multi(o) /\ r.node[o] = shard[s].node[o] /\ o \in shard[s].queue
    BY <2>1, <1>3, <1>4, ZenonT(60) DEF Absent, Parked, Active
  <2>2. o \in shard[s].queue /\ Multi(o) => shard[s].node[o] = txid[o] /\ shard[s].node[o] < nextTxid
    BY <1>1, ZenonT(60) DEF TxidInv
  <2>. QED
    BY <2>1, <2>2, <1>5, <1>6, ZenonT(60)
<1>10. /\ barrier'[o] = barrier[o] - 1 /\ barrier' = [barrier EXCEPT ![o] = barrier'[o]]
       /\ nextTxid' \in Nat /\ nextTxid <= nextTxid'
       /\ failed' \in [Ops -> SUBSET Shards] /\ msg' \in [Ops -> [Shards -> Phases]]
  BY <1>1, <1>5 DEF TypeOK
<1>11. Effect(o, shard[s], shard'[s], s)
  BY <1>4, <1>6
<1>. QED
  BY <1>3, <1>5, <1>6, <1>7, <1>8, <1>9, <1>10, <1>11, ShardStep, ZenonT(60)

-----------------------------------------------------------------------------
(* The coordinator's own steps.                                            *)

(* Posting a round to participants that owe nothing sets the barrier to    *)
(* the number of its targets.                                              *)
LEMMA PostOwing ==
    ASSUME Counts, TypeOK, NEW o \in Ops, NEW phase \in Phases \ {"none"}, NEW targets \in SUBSET Shards,
           Post(o, phase, targets), Owing(o) = {}, shard' = shard
    PROVE  /\ barrier'[o] = Cardinality(Owing(o)')
           /\ barrier' \in [Ops -> Int] /\ msg' \in [Ops -> [Shards -> Phases]]
           /\ \A p \in Ops \ {o} : barrier'[p] = barrier[p] /\ msg'[p] = msg[p]
           /\ \A t \in Shards : msg'[o][t] = IF t \in targets THEN phase ELSE "none"
<1>1. /\ barrier' = [barrier EXCEPT ![o] = Cardinality(targets)]
      /\ msg' = [msg EXCEPT ![o] = [t \in Shards |-> IF t \in targets THEN phase ELSE "none"]]
  BY DEF Post
<1>2. /\ msg' \in [Ops -> [Shards -> Phases]] /\ \A p \in Ops \ {o} : msg'[p] = msg[p]
      /\ \A t \in Shards : msg'[o][t] = IF t \in targets THEN phase ELSE "none"
  BY <1>1 DEF TypeOK, Phases
<1>3. Cardinality(targets) \in Nat
  BY DEF Counts
<1>4. /\ barrier' \in [Ops -> Int] /\ \A p \in Ops \ {o} : barrier'[p] = barrier[p]
      /\ barrier'[o] = Cardinality(targets)
  BY <1>1, <1>3, SMTT(60) DEF TypeOK
<1>5. Owing(o)' = targets
  BY <1>2 DEF Owing
<1>. QED
  BY <1>2, <1>4, <1>5

(* A coordinator that is not on a shard anywhere is owed nothing.          *)
LEMMA AbsentOwing ==
    ASSUME NEW o \in Ops, \A t \in Shards : msg[o][t] = "none" /\ Absent(o, shard[t])
    PROVE  Owing(o) = {} /\ \A t \in Shards : o \notin shard[t].queue
  BY SMTT(60) DEF Owing, Absent

(* Both entries to Schedule's loop leave from a clean slate.               *)
LEMMA ScheduleRoundStep ==
    ASSUME Counts, IInv, NEW o \in Ops, Multi(o), ScheduleRound(o), earlier' \in [Ops -> SUBSET Ops],
           \A t \in Shards : msg[o][t] = "none" /\ Absent(o, shard[t])
    PROVE  IInv' /\ OrderlyStep
<1>1. TypeOK /\ nextTxid \in Nat
  BY DEF IInv, TypeOK
<1>2. Owing(o) = {} /\ \A t \in Shards : o \notin shard[t].queue
  BY AbsentOwing, ZenonT(60)
<1>3. /\ txid' = [txid EXCEPT ![o] = nextTxid] /\ nextTxid' = nextTxid + 1
      /\ pc' = [pc EXCEPT ![o] = "scheduling"] /\ Post(o, "schedule", Participants(o))
      /\ hops' = hops /\ releasing' = releasing /\ failed' = failed /\ shard' = shard
  BY DEF ScheduleRound
<1>4. Participants(o) \in SUBSET Shards /\ "schedule" \in Phases \ {"none"}
  BY SMTT(60) DEF Participants, Phases
<1>5. /\ barrier'[o] = Cardinality(Owing(o)')
      /\ barrier' \in [Ops -> Int] /\ msg' \in [Ops -> [Shards -> Phases]]
      /\ \A p \in Ops \ {o} : barrier'[p] = barrier[p] /\ msg'[p] = msg[p]
      /\ \A t \in Shards : msg'[o][t] = IF t \in Participants(o) THEN "schedule" ELSE "none"
  <2>. DEFINE phase == "schedule"
  <2>1. /\ phase \in Phases \ {"none"} /\ Participants(o) \in SUBSET Shards
        /\ Post(o, phase, Participants(o)) /\ TypeOK /\ Owing(o) = {} /\ shard' = shard
    BY <1>1, <1>2, <1>3, <1>4, ZenonT(60)
  <2>. HIDE DEF phase
  <2>2. /\ barrier'[o] = Cardinality(Owing(o)')
        /\ barrier' \in [Ops -> Int] /\ msg' \in [Ops -> [Shards -> Phases]]
        /\ \A p \in Ops \ {o} : barrier'[p] = barrier[p] /\ msg'[p] = msg[p]
        /\ \A t \in Shards : msg'[o][t] = IF t \in Participants(o) THEN phase ELSE "none"
    BY <2>1, PostOwing, ZenonT(60)
  <2>. QED
    BY <2>2, SMTT(60) DEF phase
<1>6. TypeOK'
  <2>1. /\ nextTxid' \in Nat \ {0} /\ txid' \in [Ops -> Nat]
        /\ pc' \in [Ops -> {"idle", "scheduling", "cancelling", "scheduled", "executing", "done"}]
    BY <1>1, <1>3, SMTT(60) DEF TypeOK
  <2>. QED
    BY <1>1, <1>3, <1>5, <2>1, SMTT(60) DEF TypeOK
<1>7. /\ \A p \in Ops \ {o} : pc'[p] = pc[p] /\ txid'[p] = txid[p] /\ releasing'[p] = releasing[p]
      /\ pc'[o] = "scheduling" /\ txid'[o] = nextTxid
  BY <1>1, <1>3 DEF TypeOK
<1>8. \A t \in Shards : View(o, t)'
  BY <1>3, <1>5, <1>7, ZenonT(60) DEF View
<1>. QED
  BY <1>2, <1>3, <1>5, <1>6, <1>7, <1>8, CoordinatorStep, ZenonT(60)

LEMMA ScheduleMultiStep ==
    ASSUME Counts, IInv, NEW o \in Ops, ScheduleMulti(o)
    PROVE  IInv' /\ OrderlyStep
<1>1. Multi(o) /\ ScheduleRound(o) /\ pc[o] = "idle" /\ earlier' \in [Ops -> SUBSET Ops]
  BY SMTT(60) DEF ScheduleMulti, Issue, IInv, TypeOK
<1>2. \A t \in Shards : msg[o][t] = "none" /\ Absent(o, shard[t])
  BY <1>1, ZenonT(60) DEF IInv, View
<1>. QED
  BY <1>1, <1>2, ScheduleRoundStep, SMTT(60)

(* A coordinator that must retry has left every shard.                     *)
LEMMA RetryClean ==
    ASSUME Counts, IInv, NEW o \in Ops, MustRetry(o)
    PROVE  Multi(o) /\ \A t \in Shards : msg[o][t] = "none" /\ Absent(o, shard[t])
<1>1. Owing(o) = {}
  BY BarrierZero DEF MustRetry
<1>2. \A t \in Shards : msg[o][t] = "none" /\ View(o, t)
  BY <1>1, SMTT(60) DEF Owing, IInv
<1>3. CASE pc[o] = "cancelling"
  BY <1>2, <1>3, FiniteAssumption, ZenonT(60) DEF View
<1>4. CASE pc[o] = "scheduling" /\ Participants(o) \subseteq failed[o]
  BY <1>2, <1>4, FiniteAssumption, ZenonT(60) DEF View
<1>. QED
  BY <1>3, <1>4, SMTT(60) DEF MustRetry

LEMMA RetryStep ==
    ASSUME Counts, IInv, NEW o \in Ops, Retry(o)
    PROVE  IInv' /\ OrderlyStep
<1>1. MustRetry(o) /\ ScheduleRound(o) /\ earlier' \in [Ops -> SUBSET Ops]
  BY SMTT(60) DEF Retry, IInv, TypeOK
<1>. QED
  BY <1>1, RetryClean, ScheduleRoundStep, SMTT(60)

(* A step that moves only the coordinator's position.                      *)
LEMMA PositionStep ==
    ASSUME IInv, NEW o \in Ops,
           NEW c \in {"scheduled", "done"}, pc' = [pc EXCEPT ![o] = c],
           pc[o] # "idle" \/ ~Multi(o),
           nextTxid' = nextTxid, txid' = txid, barrier' = barrier, hops' = hops,
           releasing' = releasing, msg' = msg, failed' = failed, shard' = shard,
           earlier' \in [Ops -> SUBSET Ops], \A t \in Shards : View(o, t)'
    PROVE  IInv' /\ OrderlyStep
<1>1. TypeOK /\ BarrierExact
  BY SMTT(60) DEF IInv
<1>2. TypeOK'
  <2>1. pc' \in [Ops -> {"idle", "scheduling", "cancelling", "scheduled", "executing", "done"}]
    BY <1>1, SMTT(60) DEF TypeOK
  <2>. QED
    BY <1>1, <2>1, SMTT(60) DEF TypeOK
<1>3. Owing(o)' = Owing(o)
  BY DEF Owing
<1>4. barrier'[o] = Cardinality(Owing(o)')
  BY <1>1, <1>3, SMTT(60) DEF BarrierExact
<1>5. \A p \in Ops \ {o} : pc'[p] = pc[p]
  BY <1>1 DEF TypeOK
<1>. QED
  BY <1>2, <1>4, <1>5, CoordinatorStep, ZenonT(60)

LEMMA ScheduleSingleStep ==
    ASSUME IInv, NEW o \in Ops, ScheduleSingle(o)
    PROVE  IInv' /\ OrderlyStep
<1>1. TypeOK /\ pc[o] = "idle" /\ ~Multi(o) /\ earlier' \in [Ops -> SUBSET Ops]
  BY SMTT(60) DEF ScheduleSingle, Issue, IInv, TypeOK
<1>2. \A t \in Shards : msg[o][t] = "none" /\ Absent(o, shard[t])
  BY <1>1, ZenonT(60) DEF IInv, View
<1>3. pc'[o] = "scheduled" /\ msg' = msg /\ shard' = shard
  BY <1>1 DEF ScheduleSingle, TypeOK
<1>4. \A t \in Shards : View(o, t)'
  BY <1>1, <1>2, <1>3, ZenonT(60) DEF View, Resting, Absent, Parked
<1>. QED
  BY <1>1, <1>4, PositionStep, ZenonT(60) DEF ScheduleSingle

LEMMA ScheduledStep ==
    ASSUME Counts, IInv, NEW o \in Ops, Scheduled(o)
    PROVE  IInv' /\ OrderlyStep
<1>1. TypeOK /\ pc[o] = "scheduling" /\ Owing(o) = {} /\ failed[o] = {}
  BY BarrierZero, ZenonT(60) DEF Scheduled, IInv
<1>2. \A t \in Shards : msg[o][t] = "none" /\ View(o, t)
  BY <1>1, SMTT(60) DEF Owing, IInv
<1>3. pc'[o] = "scheduled" /\ msg' = msg /\ shard' = shard
  BY <1>1 DEF Scheduled, TypeOK
<1>4. \A t \in Shards : View(o, t)'
  BY <1>1, <1>2, <1>3, Zenon DEF View, Resting
<1>. QED
  BY <1>1, <1>4, PositionStep, ZenonT(60) DEF Scheduled, TypeOK

LEMMA HopReturnedStep ==
    ASSUME Counts, IInv, NEW o \in Ops, HopReturned(o)
    PROVE  IInv' /\ OrderlyStep
<1>1. TypeOK /\ pc[o] = "executing" /\ Owing(o) = {}
  BY BarrierZero, ZenonT(60) DEF HopReturned, IInv
<1>2. \A t \in Shards : msg[o][t] = "none" /\ View(o, t) /\ ~Active(o, shard[t])
  BY <1>1 DEF Owing, IInv, Active
<1>3. /\ pc'[o] = IF releasing[o] THEN "done" ELSE "scheduled"
      /\ msg' = msg /\ shard' = shard /\ releasing' = releasing
  BY <1>1 DEF HopReturned, TypeOK
<1>4. \A t \in Shards : View(o, t)'
  BY <1>1, <1>2, <1>3, Zenon DEF View, Resting
<1>. DEFINE c == IF releasing[o] THEN "done" ELSE "scheduled"
<1>5. c \in {"scheduled", "done"} /\ pc' = [pc EXCEPT ![o] = c]
  BY Zenon, ZenonT(60) DEF HopReturned
<1>. HIDE DEF c
<1>. QED
  BY <1>1, <1>4, <1>5, PositionStep, ZenonT(60) DEF HopReturned, TypeOK

LEMMA CancelRoundStep ==
    ASSUME Counts, IInv, NEW o \in Ops, CancelRound(o)
    PROVE  IInv' /\ OrderlyStep
<1>1. TypeOK /\ pc[o] = "scheduling" /\ Owing(o) = {}
  BY BarrierZero, ZenonT(60) DEF CancelRound, IInv
<1>2. \A t \in Shards : msg[o][t] = "none" /\ View(o, t)
  BY <1>1, SMTT(60) DEF Owing, IInv
<1>. DEFINE T == Participants(o) \ failed[o]
<1>3. /\ pc' = [pc EXCEPT ![o] = "cancelling"] /\ Post(o, "cancel", T)
      /\ nextTxid' = nextTxid /\ txid' = txid /\ hops' = hops /\ releasing' = releasing
      /\ failed' = failed /\ shard' = shard /\ earlier' = earlier
  BY DEF CancelRound
<1>4. T \in SUBSET Shards /\ "cancel" \in Phases \ {"none"}
  BY DEF Participants, Phases
<1>5. /\ barrier'[o] = Cardinality(Owing(o)')
      /\ barrier' \in [Ops -> Int] /\ msg' \in [Ops -> [Shards -> Phases]]
      /\ \A p \in Ops \ {o} : barrier'[p] = barrier[p] /\ msg'[p] = msg[p]
      /\ \A t \in Shards : msg'[o][t] = IF t \in T THEN "cancel" ELSE "none"
  <2>. HIDE DEF T
  <2>. QED
    BY <1>1, <1>3, <1>4, PostOwing, ZenonT(60)
<1>6. TypeOK'
  <2>1. pc' \in [Ops -> {"idle", "scheduling", "cancelling", "scheduled", "executing", "done"}]
    BY <1>1, <1>3, SMTT(60) DEF TypeOK
  <2>. QED
    BY <1>1, <1>3, <1>5, <2>1 DEF TypeOK
<1>7. pc'[o] = "cancelling" /\ \A p \in Ops \ {o} : pc'[p] = pc[p]
  BY <1>1, <1>3 DEF TypeOK
<1>8. ASSUME NEW t \in Shards PROVE View(o, t)'
  <2>1. /\ Multi(o)
        /\ IF t \in T THEN Placed(o, shard[t]) /\ o \notin shard[t].holds ELSE Absent(o, shard[t])
    BY <1>1, <1>2, ZenonT(60) DEF View
  <2>2. t \notin Participants(o) => t \notin T
    OBVIOUS
  <2>. HIDE DEF T
  <2>. QED
    BY <2>1, <2>2, <1>3, <1>5, <1>7, ZenonT(60) DEF View
<1>. QED
  BY <1>1, <1>3, <1>5, <1>6, <1>7, <1>8, CoordinatorStep, ZenonT(60)

LEMMA ExecuteStep ==
    ASSUME Counts, IInv, NEW o \in Ops, NEW release \in BOOLEAN, Execute(o, release)
    PROVE  IInv' /\ OrderlyStep
<1>1. TypeOK /\ pc[o] = "scheduled" /\ \A t \in Shards : View(o, t)
  BY SMTT(60) DEF Execute, IInv
<1>2. ASSUME NEW t \in Shards
      PROVE  /\ t \notin Owing(o)
             /\ t \in Participants(o) => msg[o][t] = "none" /\ Resting(o, t)
             /\ t \notin Participants(o) => msg[o][t] = "none" /\ Absent(o, shard[t])
  <2>1. /\ t \in Participants(o) => msg[o][t] = "none" /\ Resting(o, t)
        /\ t \notin Participants(o) => msg[o][t] = "none" /\ Absent(o, shard[t])
    BY <1>1, ZenonT(60) DEF View
  <2>. QED
    BY <2>1 DEF Owing, Resting, Placed, Parked, Absent
<1>3. Owing(o) = {}
  <2>1. Owing(o) \subseteq Shards
    BY ZenonT(60) DEF Owing
  <2>. QED
    BY <1>2, <2>1, ZenonT(60)
<1>. DEFINE phase == IF Multi(o) THEN "arm" ELSE "run"
<1>4. /\ pc' = [pc EXCEPT ![o] = "executing"] /\ Post(o, phase, Participants(o))
      /\ hops' = [hops EXCEPT ![o] = @ + 1] /\ releasing' = [releasing EXCEPT ![o] = release]
      /\ nextTxid' = nextTxid /\ txid' = txid
      /\ failed' = failed /\ shard' = shard /\ earlier' = earlier
  BY DEF Execute
<1>5. Participants(o) \in SUBSET Shards /\ phase \in Phases \ {"none"}
  BY SMTT(60) DEF Participants, Phases
<1>. HIDE DEF phase
<1>6. /\ barrier'[o] = Cardinality(Owing(o)')
      /\ barrier' \in [Ops -> Int] /\ msg' \in [Ops -> [Shards -> Phases]]
      /\ \A p \in Ops \ {o} : barrier'[p] = barrier[p] /\ msg'[p] = msg[p]
      /\ \A t \in Shards : msg'[o][t] = IF t \in Participants(o) THEN phase ELSE "none"
  <2>1. /\ phase \in Phases \ {"none"} /\ Participants(o) \in SUBSET Shards
        /\ Post(o, phase, Participants(o)) /\ TypeOK /\ Owing(o) = {} /\ shard' = shard
    BY <1>1, <1>3, <1>4, <1>5, ZenonT(60)
  <2>. QED
    BY ONLY <2>1, PostOwing, Counts, o \in Ops
<1>7. /\ pc' \in [Ops -> {"idle", "scheduling", "cancelling", "scheduled", "executing", "done"}]
      /\ releasing' \in [Ops -> BOOLEAN] /\ hops' \in [Ops -> Nat]
  BY <1>1, <1>4, SMTT(30) DEF TypeOK
<1>8. TypeOK'
  BY <1>1, <1>4, <1>6, <1>7 DEF TypeOK
<1>9. pc'[o] = "executing" /\ \A p \in Ops \ {o} : pc'[p] = pc[p] /\ releasing'[p] = releasing[p]
  BY <1>1, <1>4 DEF TypeOK
<1>10. ASSUME NEW t \in Shards PROVE View(o, t)'
  <2>1. Resting(o, t)' <=> Resting(o, t)
    BY <1>4 DEF Resting
  <2>2. phase # "none" /\ phase = IF Multi(o) THEN "arm" ELSE "run"
    BY DEF phase
  <2>. QED
    BY <2>1, <2>2, <1>2, <1>4, <1>6, <1>9, Zenon DEF View
<1>. QED
  BY <1>1, <1>4, <1>6, <1>8, <1>9, <1>10, CoordinatorStep, ZenonT(60)

(* Initially no operation is anywhere.                                     *)
LEMMA InitIInv == Counts /\ Init => IInv
<1>. SUFFICES ASSUME Counts, Init PROVE IInv
  OBVIOUS
<1>1. /\ EmptyShard \in ShardType /\ EmptyShard.bypass = <<>>
      /\ \A s \in Shards : ShardInv(EmptyShard, s)
  <2>1. <<>> \in Seq(Ops)
    OBVIOUS
  <2>. QED
    BY <2>1, Zenon DEF EmptyShard, ShardType, ShardInv
<1>2. TypeOK
  <2>1. shard \in [Shards -> ShardType]
    BY <1>1, Zenon DEF Init
  <2>2. msg \in [Ops -> [Shards -> Phases]]
    BY DEF Init, Phases
  <2>3. /\ nextTxid \in Nat \ {0} /\ txid \in [Ops -> Nat] /\ hops \in [Ops -> Nat]
        /\ barrier \in [Ops -> Int] /\ releasing \in [Ops -> BOOLEAN]
    BY DEF Init
  <2>4. /\ pc \in [Ops -> {"idle", "scheduling", "cancelling", "scheduled", "executing", "done"}]
        /\ failed \in [Ops -> SUBSET Shards] /\ earlier \in [Ops -> SUBSET Ops]
    BY DEF Init
  <2>. QED
    BY <2>1, <2>2, <2>3, <2>4 DEF TypeOK
<1>3. BypassDrains /\ \A s \in Shards : ShardInv(shard[s], s)
  BY <1>1 DEF Init, BypassDrains
<1>4. TxidInv
  <2>1. nextTxid = 1 /\ \A o \in Ops : txid[o] = 0 /\ pc[o] = "idle"
    BY DEF Init
  <2>2. \A s \in Shards : shard[s].queue = {}
    BY Zenon DEF Init, EmptyShard
  <2>. QED
    BY <2>1, <2>2 DEF TxidInv
<1>5. ASSUME NEW o \in Ops, NEW s \in Shards
      PROVE  pc[o] = "idle" /\ msg[o][s] = "none" /\ Absent(o, shard[s])
  BY ZenonT(60) DEF Init, Absent, EmptyShard
<1>6. \A o \in Ops, s \in Shards : View(o, s)
  BY <1>5, ZenonT(60) DEF View
<1>7. BarrierExact
  BY <1>5, AbsentOwing, ZenonT(60) DEF Counts, Init, BarrierExact
<1>. QED
  BY <1>2, <1>3, <1>4, <1>6, <1>7 DEF IInv

(* Every step, one case per action, preserves the inductive invariant.     *)
LEMMA NextIInv == Counts /\ IInv /\ [Next]_vars => IInv' /\ OrderlyStep
<1>. SUFFICES ASSUME Counts, IInv, [Next]_vars PROVE IInv' /\ OrderlyStep
  OBVIOUS
<1>1. CASE UNCHANGED vars
  <2>1. /\ nextTxid' = nextTxid /\ pc' = pc /\ txid' = txid /\ barrier' = barrier /\ hops' = hops
        /\ releasing' = releasing /\ msg' = msg /\ failed' = failed /\ shard' = shard
        /\ earlier' = earlier
    BY <1>1, SMTT(60) DEF vars
  <2>2. TypeOK' /\ BypassDrains' /\ (\A s \in Shards : ShardInv(shard[s], s))'
    BY <2>1, ZenonT(60) DEF IInv, TypeOK, BypassDrains
  <2>3. TxidInv'
    BY <2>1, ZenonT(60) DEF IInv, TxidInv
  <2>4. ASSUME NEW o \in Ops, NEW s \in Shards PROVE View(o, s)'
    <3>1. SameStanding(o, shard[s], shard'[s])
      BY <2>1 DEF SameStanding
    <3>2. View(o, s)
      BY SMTT(60) DEF IInv
    <3>. QED
      BY <2>1, <3>1, <3>2, ViewFrame, ZenonT(60)
  <2>5. BarrierExact'
    BY <2>1, ZenonT(60) DEF IInv, BarrierExact, Owing
  <2>6. OrderlyStep
    BY <2>1 DEF OrderlyStep, Orderly
  <2>. QED
    BY <2>2, <2>3, <2>4, <2>5, <2>6, SMTT(60) DEF IInv
<1>2. ASSUME NEW o \in Ops, Step(o) PROVE IInv' /\ OrderlyStep
  <2>1. CASE Coordinator(o)
    BY <2>1, ScheduledStep, CancelRoundStep, RetryStep, ExecuteStep, HopReturnedStep, SMTT(60) DEF Coordinator
  <2>2. ASSUME NEW s \in Shards, Deliver(o, s) PROVE IInv' /\ OrderlyStep
    BY <2>2, DeliverScheduleStep, DeliverCancelStep, HopDeliveryStep DEF Deliver
  <2>3. ASSUME NEW s \in Shards, FinishHop(o, s) PROVE IInv' /\ OrderlyStep
    BY <2>3, FinishHopStep
  <2>. QED
    BY <1>2, <2>1, <2>2, <2>3, SMTT(60) DEF Step
<1>3. ASSUME NEW o \in Ops, ScheduleMulti(o) \/ ScheduleSingle(o) PROVE IInv' /\ OrderlyStep
  BY <1>3, ScheduleMultiStep, ScheduleSingleStep
<1>4. CASE Quiescent
  BY <1>1, <1>4 DEF Quiescent
<1>. QED
  BY <1>1, <1>2, <1>3, <1>4 DEF Next
=============================================================================
