----------------------------- MODULE TxTheorems ----------------------------
(***************************************************************************)
(* The theorems about TxScheduler, for every set of operations, shards and *)
(* keys and every bound.  IInv is inductive (TxSchedulerProofs) and the    *)
(* safety properties of a shard and of the barrier follow from it.  Each   *)
(* action is a Touch or a Settle of TxHistory, so some ranks explain every *)
(* execution (TxRankProofs), and ranks leave no cycle: the scheduler is    *)
(* serializable.                                                           *)
(***************************************************************************)
EXTENDS TxSchedulerProofs, TxRankProofs


-----------------------------------------------------------------------------
(* A new operation.                                                        *)
LEMMA IssueSettle ==
    ASSUME IInv, Service, NEW o \in Ops, ScheduleMulti(o) \/ ScheduleSingle(o)
    PROVE  Settle(o)
<1>1. /\ nextTxid \in Nat /\ pc \in [Ops -> {"idle", "scheduling", "cancelling", "scheduled", "executing", "done"}]
      /\ msg \in [Ops -> [Shards -> Phases]] /\ txid \in [Ops -> Nat] /\ earlier \in [Ops -> SUBSET Ops]
  BY DEF IInv, TypeOK
<1>2. /\ pc[o] = "idle" /\ Participants(o) # {}
      /\ earlier' = [earlier EXCEPT ![o] = {p \in Ops : pc[p] = "done"}]
      /\ shard' = shard /\ releasing' = releasing
  BY DEF ScheduleMulti, ScheduleSingle, Issue, ScheduleRound
<1>3. /\ pc'[o] \in {"scheduling", "scheduled"} /\ nextTxid' \in {nextTxid, nextTxid + 1}
      /\ \A p \in Ops \ {o} : pc'[p] = pc[p] /\ msg'[p] = msg[p] /\ txid'[p] = txid[p]
      /\ txid'[o] = nextTxid \/ (txid'[o] = txid[o] /\ ~Multi(o))
  <2>1. CASE ScheduleMulti(o)
    BY <1>1, <2>1 DEF ScheduleMulti, Issue, ScheduleRound, Post
  <2>2. CASE ScheduleSingle(o)
    BY <1>1, <2>2 DEF ScheduleSingle, Issue
  <2>. QED
    BY <2>1, <2>2
<1>4. \A s \in Shards : o \notin shard[s].served
  BY <1>2 DEF Service
<1>5. nextTxid' \in Nat /\ nextTxid' >= nextTxid
  <2>1. nextTxid \in Nat /\ nextTxid' \in {nextTxid, nextTxid + 1}
    BY <1>1, <1>3
  <2>. QED
    BY ONLY <2>1
<1>6. earlier'[o] = {p \in Ops : pc[p] = "done"} /\ \A p \in Ops \ {o} : earlier'[p] = earlier[p]
  BY <1>1, <1>2
<1>. QED
  BY <1>2, <1>3, <1>4, <1>5, <1>6 DEF Settle

(* The end of a schedule or a cancel round, and the next try.              *)
LEMMA RoundSettle ==
    ASSUME IInv, Service, NEW o \in Ops, Scheduled(o) \/ CancelRound(o) \/ Retry(o)
    PROVE  Settle(o)
<1>1. /\ nextTxid \in Nat /\ pc \in [Ops -> {"idle", "scheduling", "cancelling", "scheduled", "executing", "done"}]
      /\ msg \in [Ops -> [Shards -> Phases]] /\ txid \in [Ops -> Nat]
  BY DEF IInv, TypeOK
<1>2. pc[o] \in {"scheduling", "cancelling"} /\ shard' = shard /\ releasing' = releasing /\ earlier' = earlier
  BY DEF Scheduled, CancelRound, Retry, MustRetry, ScheduleRound
<1>3. /\ pc'[o] \in {"scheduling", "cancelling", "scheduled"} /\ nextTxid' \in {nextTxid, nextTxid + 1}
      /\ \A p \in Ops \ {o} : pc'[p] = pc[p] /\ msg'[p] = msg[p] /\ txid'[p] = txid[p]
      /\ txid'[o] \in {txid[o], nextTxid}
  BY <1>1 DEF Scheduled, CancelRound, Retry, ScheduleRound, Post
<1>4. ASSUME NEW s \in Shards PROVE o \notin shard[s].served
  BY <1>2, ServedView
<1>5. nextTxid' \in Nat /\ nextTxid' >= nextTxid
  <2>1. nextTxid \in Nat /\ nextTxid' \in {nextTxid, nextTxid + 1}
    BY <1>1, <1>3
  <2>. QED
    BY ONLY <2>1
<1>6. Participants(o) # {}
  BY <1>2 DEF Service
<1>. QED
  BY <1>2, <1>3, <1>4, <1>5, <1>6 DEF Settle

(* The next hop.                                                           *)
LEMMA ExecuteSettle ==
    ASSUME IInv, Service, NEW o \in Ops, NEW release \in BOOLEAN, Execute(o, release)
    PROVE  Settle(o)
<1>1. /\ nextTxid \in Nat /\ pc \in [Ops -> {"idle", "scheduling", "cancelling", "scheduled", "executing", "done"}]
      /\ msg \in [Ops -> [Shards -> Phases]] /\ releasing \in [Ops -> BOOLEAN]
  BY DEF IInv, TypeOK
<1>2. /\ pc[o] = "scheduled" /\ shard' = shard /\ txid' = txid /\ earlier' = earlier
      /\ nextTxid' = nextTxid /\ pc'[o] = "executing"
      /\ \A p \in Ops \ {o} : pc'[p] = pc[p] /\ msg'[p] = msg[p] /\ releasing'[p] = releasing[p]
      /\ \A s \in Participants(o) : msg'[o][s] # "none"
  BY <1>1 DEF Execute, Post, Participants
<1>3. ASSUME NEW s \in Shards, o \in shard[s].served PROVE o \in shard[s].holds
  BY <1>2, <1>3, ServedView
<1>4. \A s \in Participants(o) : s \in Owing(o)'
  BY <1>2 DEF Owing, Participants
<1>5. Participants(o) # {}
  BY <1>2 DEF Service
<1>6. nextTxid' \in Nat /\ nextTxid' >= nextTxid
  <2>1. nextTxid \in Nat /\ nextTxid' = nextTxid
    BY <1>1, <1>2
  <2>. QED
    BY ONLY <2>1
<1>. QED
  BY <1>2, <1>3, <1>4, <1>5, <1>6 DEF Settle

(* The end of a hop: nobody owes a decrement, so everybody has served it.  *)
LEMMA HopReturnedSettle ==
    ASSUME Counts, IInv, Service, NEW o \in Ops, HopReturned(o)
    PROVE  Settle(o)
<1>1. nextTxid \in Nat /\ pc \in [Ops -> {"idle", "scheduling", "cancelling", "scheduled", "executing", "done"}]
  BY DEF IInv, TypeOK
<1>2. /\ pc[o] = "executing" /\ barrier[o] = 0 /\ shard' = shard /\ txid' = txid /\ earlier' = earlier
      /\ nextTxid' = nextTxid /\ releasing' = releasing /\ msg' = msg
      /\ pc'[o] = IF releasing[o] THEN "done" ELSE "scheduled"
      /\ \A p \in Ops \ {o} : pc'[p] = pc[p]
  BY <1>1 DEF HopReturned
<1>3. ASSUME NEW s \in Shards, o \in shard[s].served, o \notin shard[s].holds PROVE Gone(o, s)'
  <2>1. Gone(o, s)
    BY <1>3 DEF Service
  <2>. QED
    BY <2>1, <1>2 DEF Gone
<1>4. ASSUME NEW s \in Participants(o) PROVE o \in shard[s].served
  <2>1. s \in Owing(o) \/ o \in shard[s].served
    BY <1>2 DEF Service
  <2>2. Owing(o) = {}
    BY <1>2, BarrierZero
  <2>. QED
    BY <2>1, <2>2
<1>5. Participants(o) # {} /\ pc'[o] # "idle"
  BY <1>2 DEF Service
<1>6. nextTxid' \in Nat /\ nextTxid' >= nextTxid
  <2>1. nextTxid \in Nat /\ nextTxid' = nextTxid
    BY <1>1, <1>2
  <2>. QED
    BY ONLY <2>1
<1>. QED
  BY <1>2, <1>3, <1>4, <1>5, <1>6 DEF Settle

-----------------------------------------------------------------------------
(* Nobody was served yet.                                                  *)
LEMMA InitService == Init => Service
<1>. SUFFICES ASSUME Init PROVE Service
  OBVIOUS
<1>1. \A s \in Shards : /\ shard[s].served = {} /\ shard[s].holds = {} /\ shard[s].running = {}
                        /\ shard[s].before = {} /\ shard[s].queue = {} /\ shard[s].committed = 0
  BY DEF Init, EmptyShard
<1>2. nextTxid = 1 /\ \A o \in Ops : pc[o] = "idle" /\ earlier[o] = {}
  BY DEF Init
<1>. QED
  BY <1>1, <1>2 DEF Service

(* Every step is a shard's, a coordinator's or a stutter.                  *)
LEMMA StepShape ==
    ASSUME Counts, IInv, Service, [Next]_vars
    PROVE  \/ \E o \in Ops, s \in Shards : Touch(o, s)
           \/ \E o \in Ops : Settle(o)
           \/ UNCHANGED vars
<1>1. ASSUME NEW o \in Ops, NEW s \in Shards, Deliver(o, s) \/ FinishHop(o, s)
      PROVE  Touch(o, s)
  BY <1>1, DeliverScheduleTouch, DeliverCancelTouch, DeliverArmTouch, DeliverRunRetainedTouch,
     DeliverRunFastTouch, DeliverRunContendedTouch, FinishHopTouch DEF Deliver
<1>2. ASSUME NEW o \in Ops, ScheduleMulti(o) \/ ScheduleSingle(o) \/ Coordinator(o)
      PROVE  Settle(o)
  BY <1>2, IssueSettle, RoundSettle, ExecuteSettle, HopReturnedSettle DEF Coordinator
<1>. QED
  BY <1>1, <1>2 DEF Next, Step, Quiescent

-----------------------------------------------------------------------------
(* Nobody was served yet: any ranks will do.                               *)
LEMMA InitSerial == Init => Serial
<1>. SUFFICES ASSUME Init PROVE Serial
  OBVIOUS
<1>1. \A s \in Shards : shard[s].served = {} /\ shard[s].before = {} /\ shard[s].queue = {}
  BY DEF Init, EmptyShard
<1>2. MultiShard \subseteq Ops /\ \A o \in Ops : earlier[o] = {}
  BY DEF Init, MultiShard
<1>. DEFINE z == [o \in Ops |-> 0]
<1>3. z \in Ranks /\ \A o \in Ops : z[o] = 0
  BY DEF Ranks
<1>. HIDE DEF z
<1>4. \A s \in Shards : RankedOn(z, z, shard[s], s)
  BY <1>1 DEF RankedOn
<1>5. Ranked(z, z, 0)
  BY <1>2, <1>3, <1>4 DEF Ranked
<1>. QED
  BY <1>3, <1>5, InitService DEF Serial

(* Every step keeps an execution explained by some ranks.                  *)
LEMMA NextSerial == Counts /\ IInv /\ Serial /\ [Next]_vars => Serial'
<1>. SUFFICES ASSUME Counts, IInv, Serial, [Next]_vars PROVE Serial'
  OBVIOUS
<1>1. IInv' /\ OrderlyStep
  BY NextIInv
<1>2. Service
  BY DEF Serial
<1>3. PICK major \in Ranks, minor \in Ranks, clock \in Nat : Ranked(major, minor, clock)
  BY DEF Serial
<1>4. ASSUME NEW o \in Ops, NEW s \in Shards, Touch(o, s) PROVE Serial'
  <2>1. Service'
    BY <1>1, <1>2, <1>4, TouchService
  <2>2. \E M \in Ranks, m \in Ranks, c \in Nat : Ranked(M, m, c)'
    BY <1>1, <1>2, <1>3, <1>4, TouchRanked
  <2>. QED
    BY <2>1, <2>2 DEF Serial
<1>5. ASSUME NEW o \in Ops, Settle(o) PROVE Serial'
  <2>1. Service'
    BY <1>2, <1>5, SettleService
  <2>2. Ranked(major, minor, clock)'
    BY <1>2, <1>3, <1>5, SettleRanked
  <2>. QED
    BY <2>1, <2>2 DEF Serial
<1>6. CASE UNCHANGED vars
  <2>1. Service'
    BY <1>2, <1>6 DEF vars, Service, Gone, Owing
  <2>2. Ranked(major, minor, clock)'
    BY <1>3, <1>6 DEF vars, Ranked, RankedOn, Lower
  <2>. QED
    BY <2>1, <2>2 DEF Serial
<1>. QED
  BY <1>2, <1>4, <1>5, <1>6, StepShape

(* Ranks order conflicts and real time.                                    *)
LEMMA RanksOrder ==
    ASSUME IInv, Service, NEW major \in Ranks, NEW minor \in Ranks, NEW clock \in Nat,
           Ranked(major, minor, clock), NEW a \in Ops, NEW b \in Ops,
           <<a, b>> \in (UNION {shard[s].before : s \in Shards}) \cup RealTime
    PROVE  /\ \E s \in Shards : a \in shard[s].served
           /\ (\E s \in Shards : b \in shard[s].served) => Lower(major, minor, a, b)
<1>1. CASE \E s \in Shards : <<a, b>> \in shard[s].before
  <2>1. PICK s \in Shards : <<a, b>> \in shard[s].before
    BY <1>1
  <2>2. a \in shard[s].served
    BY <2>1 DEF Service
  <2>3. Lower(major, minor, a, b)
    <3>1. \A p \in shard[s].before : Lower(major, minor, p[1], p[2])
      BY DEF Ranked, RankedOn
    <3>. QED
      BY <2>1, <3>1
  <2>. QED
    BY <2>2, <2>3
<1>2. CASE <<a, b>> \in RealTime
  <2>1. a \in earlier[b] /\ (Multi(b) \/ Participants(a) \cap Participants(b) # {})
    BY <1>2 DEF RealTime
  <2>2. pc[a] = "done"
    BY <2>1 DEF Service
  <2>3. \E s \in Shards : a \in shard[s].served
    BY <2>2, DoneServed
  <2>4. ASSUME NEW t \in Shards, b \in shard[t].served PROVE Lower(major, minor, a, b)
    <3>1. CASE Multi(b)
      <4>1. major[a] < txid[b] /\ major[b] = txid[b]
        BY <2>1, <2>4, <3>1 DEF Ranked, RankedOn, Multi
      <4>. QED
        BY <4>1 DEF Lower
    <3>2. CASE ~Multi(b)
      <4>1. PICK s \in Participants(a) : s \in Participants(b)
        BY <2>1, <3>2
      <4>2. t \in Participants(b)
        BY <2>4 DEF Service
      <4>3. t \in Participants(a)
        BY <3>2, <4>1, <4>2, SingleParticipant
      <4>. QED
        BY <2>1, <2>4, <3>2, <4>3 DEF Ranked, RankedOn, Multi
    <3>. QED
      BY <3>1, <3>2
  <2>. QED
    BY <2>3, <2>4
<1>. QED
  BY <1>1, <1>2

(* On a shard, the ranks of multi-shard transactions are their txids.      *)
LEMMA SerialTxids == IInv /\ Serial => TxidOrder
<1>. SUFFICES ASSUME IInv, Serial, NEW s \in Shards, NEW p \in shard[s].before, Multi(p[1]), Multi(p[2])
              PROVE  shard[s].node[p[1]] < shard[s].node[p[2]]
  BY DEF TxidOrder
<1>1. PICK major \in Ranks, minor \in Ranks, clock \in Nat : Ranked(major, minor, clock)
  BY DEF Serial
<1>2. p[1] \in shard[s].served /\ p[2] \in shard[s].served /\ Service
  BY DEF Serial, Service
<1>3. Lower(major, minor, p[1], p[2])
  BY <1>1 DEF Ranked, RankedOn
<1>4. /\ major[p[1]] = txid[p[1]] /\ shard[s].node[p[1]] = txid[p[1]]
      /\ major[p[2]] = txid[p[2]] /\ shard[s].node[p[2]] = txid[p[2]]
  BY <1>1, <1>2 DEF Ranked, RankedOn
<1>5. p[1] \in Ops /\ p[2] \in Ops /\ pc[p[1]] # "idle" /\ pc[p[2]] # "idle"
  BY <1>2 DEF Service, IInv, TypeOK, ShardType
<1>6. p[1] # p[2]
  <2>1. major[p[1]] \in Nat /\ minor[p[1]] \in Nat
    BY <1>5 DEF Ranks
  <2>. QED
    BY <1>3, <2>1 DEF Lower
<1>7. txid[p[1]] # txid[p[2]]
  BY <1>5, <1>6 DEF IInv, TxidInv
<1>. QED
  BY <1>3, <1>4, <1>7 DEF Lower

-----------------------------------------------------------------------------
(* Ranks are pairs of numbers, and numbers are well-founded.               *)
INSTANCE NaturalsInduction
INSTANCE WellFoundedInduction

(* A nonempty set of numbers has a least one.                              *)
LEMMA LeastNumber ==
    ASSUME NEW S \in SUBSET Nat, S # {}
    PROVE  \E n \in S : \A k \in S : n <= k
<1>1. PICK n \in S : \A k \in S : ~(<<k, n>> \in OpToRel(<, Nat))
  BY NatLessThanWellFounded, WFMin
<1>2. \A k \in S : ~(k < n)
  BY <1>1, ZenonT(30) DEF OpToRel
<1>. QED
  BY <1>2

(* Ranks are well-founded.                                                 *)
LEMMA LeastRank ==
    ASSUME NEW V \in SUBSET Ops, V # {}, NEW major \in Ranks, NEW minor \in Ranks
    PROVE  \E b \in V : \A a \in V : ~Lower(major, minor, a, b)
<1>0. \A o \in V : major[o] \in Nat /\ minor[o] \in Nat
  BY DEF Ranks
<1>1. PICK k \in {major[o] : o \in V} : \A j \in {major[o] : o \in V} : k <= j
  <2>1. {major[o] : o \in V} \in SUBSET Nat /\ {major[o] : o \in V} # {}
    BY <1>0
  <2>. QED
    BY <2>1, LeastNumber, ZenonT(30)
<1>. DEFINE W == {o \in V : major[o] = k}
<1>2. PICK n \in {minor[o] : o \in W} : \A j \in {minor[o] : o \in W} : n <= j
  <2>1. {minor[o] : o \in W} \in SUBSET Nat /\ {minor[o] : o \in W} # {}
    BY <1>0, <1>1
  <2>. QED
    BY <2>1, LeastNumber, ZenonT(30)
<1>3. PICK b \in W : minor[b] = n
  BY <1>2
<1>4. ASSUME NEW a \in V PROVE ~Lower(major, minor, a, b)
  <2>1. k <= major[a] /\ major[b] = k /\ (major[a] = k => n <= minor[a])
    BY <1>1, <1>2, <1>3
  <2>. QED
    BY <2>1, <1>0, <1>3 DEF Lower
<1>. QED
  BY <1>3, <1>4

(* Ranks leave no cycle: the least served operation of a set comes after   *)
(* none of the others, and one that was never served comes before nobody.  *)
LEMMA SerialAcyclic == IInv /\ Serial => Serializability
<1>. SUFFICES ASSUME IInv, Serial PROVE Serializability
  OBVIOUS
<1>1. PICK major \in Ranks, minor \in Ranks, clock \in Nat : Ranked(major, minor, clock)
  BY DEF Serial
<1>. DEFINE R == (UNION {shard[s].before : s \in Shards}) \cup RealTime
            Known(o) == \E s \in Shards : o \in shard[s].served
<1>2. \A a, b \in Ops : <<a, b>> \in R => Known(a) /\ (Known(b) => Lower(major, minor, a, b))
  BY <1>1, RanksOrder DEF Serial
<1>. HIDE DEF R
<1>3. ASSUME NEW S \in SUBSET Issued, S # {}
      PROVE  \E b \in S : \A a \in S : <<a, b>> \notin R
  <2>0. S \subseteq Ops
    BY DEF Issued
  <2>. DEFINE V == {o \in S : Known(o)}
  <2>1. CASE V = {}
    BY <2>0, <2>1, <1>2, <1>3
  <2>2. CASE V # {}
    <3>1. PICK b \in V : \A a \in V : ~Lower(major, minor, a, b)
      BY <2>0, <2>2, <1>1, LeastRank
    <3>2. ASSUME NEW a \in S PROVE <<a, b>> \notin R
      BY <3>1, <2>0, <1>2
    <3>. QED
      BY <3>1, <3>2
  <2>. QED
    BY <2>1, <2>2
<1>. QED
  BY <1>3 DEF Serializability, Acyclic, R

-----------------------------------------------------------------------------
(* The theorems.                                                           *)
INSTANCE FiniteSetTheorems

(* Sets of shards are finite, so Cardinality counts.                       *)
LEMMA ShardCounts == Counts
<1>1. ASSUME NEW S \in SUBSET Shards PROVE IsFiniteSet(S)
  BY FiniteAssumption, FS_Subset
<1>2. ASSUME NEW S \in SUBSET Shards PROVE Cardinality(S) \in Nat /\ (Cardinality(S) = 0 => S = {})
  BY <1>1, FS_EmptySet, FS_CardinalityType
<1>3. ASSUME NEW S \in SUBSET Shards, NEW s \in S PROVE Cardinality(S \ {s}) = Cardinality(S) - 1
  BY <1>1, FS_RemoveElement
<1>. QED
  BY <1>2, <1>3, FS_EmptySet DEF Counts

(* The inductive invariant holds in every reachable state.                 *)
THEOREM Inductive == Spec => []IInv
  BY ShardCounts, InitIInv, NextIInv, PTL DEF Spec

(* Every variable of the scheduler keeps its type.                         *)
THEOREM TypeCorrect == Spec => []TypeOK
<1>1. IInv => TypeOK
  BY SMTT(60) DEF IInv
<1>. QED
  BY <1>1, Inductive, PTL

(* Poll's two loops, the fast path and the bypass never let two            *)
(* conflicting operations hold a shard's keys together, whatever the       *)
(* number of shards, keys and operations.                                  *)
THEOREM Exclusion == Spec => []MutualExclusion
<1>1. IInv => MutualExclusion
  BY DEF IInv, ShardInv, MutualExclusion
<1>. QED
  BY <1>1, Inductive, PTL

(* bypass_ready_ is empty between steps: Poll's "blocked, move to the back" *)
(* branch is never taken.                                                  *)
THEOREM BypassAlwaysDrains == Spec => []BypassDrains
<1>1. IInv => BypassDrains
  BY DEF IInv
<1>. QED
  BY <1>1, Inductive, PTL

(* barrier_ counts exactly the shards that still touch the transaction.    *)
THEOREM BarrierCorrect == Spec => []BarrierExact
<1>1. IInv => BarrierExact
  BY SMTT(60) DEF IInv
<1>. QED
  BY <1>1, Inductive, PTL

(* No shard and no message refers to a transaction that has returned from  *)
(* its releasing hop or cancelled its failed round.                        *)
THEOREM CleanExit == Spec => []NothingLeftBehind
<1>1. IInv => NothingLeftBehind
  <2>. SUFFICES ASSUME IInv, NEW o \in Ops, pc[o] \in {"idle", "done"} \/ MustRetry(o), NEW s \in Shards
                PROVE  msg[o][s] = "none" /\ ~References(o, s)
    BY DEF NothingLeftBehind
  <2>1. msg[o][s] = "none" /\ Absent(o, shard[s])
    BY ShardCounts, RetryClean, ZenonT(60) DEF IInv, View
  <2>2. DOMAIN shard[s].bypass = {}
    BY DEF IInv, BypassDrains
  <2>. QED
    BY <2>1, <2>2, ZenonT(60) DEF References, Absent
<1>. QED
  BY <1>1, Inductive, PTL

(* Neither the fast path nor the bypass nor the reordering of messages     *)
(* lets an operation overtake a conflicting one that waits in the queue.   *)
THEOREM AntiBarging == Spec => NoBarging
  BY ShardCounts, Inductive, NextIInv, PTL DEF Spec, NoBarging

(* Histories stay in order: an operation that was served holds or has      *)
(* released, a watermark never passes the ids that were drawn, and at the  *)
(* end of a hop every participant has served it.                           *)
THEOREM HistoriesInOrder == Spec => []Service
<1>1. ASSUME Counts, IInv, IInv', Service, [Next]_vars PROVE Service'
  <2>1. ASSUME NEW o \in Ops, NEW s \in Shards, Touch(o, s) PROVE Service'
    BY <1>1, <2>1, TouchService
  <2>2. ASSUME NEW o \in Ops, Settle(o) PROVE Service'
    BY <1>1, <2>2, SettleService
  <2>3. CASE UNCHANGED vars
    BY <1>1, <2>3 DEF vars, Service, Gone, Owing
  <2>. QED
    BY <1>1, <2>1, <2>2, <2>3, StepShape
<1>. QED
  BY <1>1, ShardCounts, Inductive, InitService, PTL DEF Spec

(* Every execution is explained by ranks: the inductive invariant behind   *)
(* the two theorems below.                                                 *)
THEOREM RanksExplain == Spec => []Serial
  BY ShardCounts, Inductive, InitSerial, NextSerial, PTL DEF Spec

(* Conflicting multi-shard transactions hold in the order of their txids   *)
(* on every shard, whatever the order in which their messages arrive.      *)
THEOREM TxidsOrderConflicts == Spec => []TxidOrder
  BY Inductive, RanksExplain, SerialTxids, PTL

(* Conflict order and real-time order never form a cycle: the scheduler is *)
(* serializable, its fast path included.                                   *)
THEOREM Serializable == Spec => []Serializability
  BY Inductive, RanksExplain, SerialAcyclic, PTL
=============================================================================
