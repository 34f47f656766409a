---------------------------- MODULE TxScheduler ----------------------------
(***************************************************************************)
(* The transaction scheduler of src/tx: one TxShard per worker, an ordered *)
(* queue and an intent/hold lock table per shard, and coordinators that    *)
(* schedule multi-shard transactions in rounds of cross-core messages.     *)
(*                                                                         *)
(* An operation is a Transaction.  One whose keys live on one shard takes  *)
(* the key-set guard of that shard (AcquireKeys, also used directly by     *)
(* plain commands); one that spans shards draws a txid, runs a schedule    *)
(* round, and then executes hops, the last of which releases its locks.    *)
(*                                                                         *)
(* The lock counters and the tombstoned deque are abstracted to the sets   *)
(* of operations that own them; modules LockTable and TxQueue model the    *)
(* concrete structures and show that they implement these sets.            *)
(***************************************************************************)
EXTENDS Integers, Sequences, FiniteSets

CONSTANTS
    Ops,        \* the operations that clients may issue
    Shards,     \* the workers' shards
    Keys,       \* (database, fingerprint) pairs
    Owner,      \* Keys -> Shards: the home worker of a key
    Uses,       \* Ops -> set of <<key, mode>>: the AddKey calls of the operation
    MaxTxid,    \* bound: no txid above this one is drawn
    MaxHops,    \* bound: Ops -> hops executed by the operation
    MaxActive   \* bound: operations that are ever issued

Modes == {"shared", "exclusive"}

ASSUME OwnerAssumption == Owner \in [Keys -> Shards]
ASSUME UsesAssumption == Uses \in [Ops -> SUBSET (Keys \X Modes)]
ASSUME BoundsAssumption == MaxTxid \in Nat /\ MaxHops \in [Ops -> Nat] /\ MaxActive \in Nat
ASSUME FiniteAssumption == IsFiniteSet(Ops) /\ IsFiniteSet(Shards) /\ Shards # {}

VARIABLES
    nextTxid,   \* TxRuntime::next_txid_
    pc,         \* where each coordinator coroutine is
    txid,       \* Transaction::txid_
    barrier,    \* Transaction::barrier_
    hops,       \* hops executed so far
    releasing,  \* Transaction::releasing_
    msg,        \* the phase in flight to each participant, or "none"
    failed,     \* ShardData::schedule_failed_
    shard,      \* one TxShard per worker
    earlier     \* history: the operations that were done when this one was issued

vars == <<nextTxid, pc, txid, barrier, hops, releasing, msg, failed, shard, earlier>>

-----------------------------------------------------------------------------
(* Seal: the lock set of an operation on a shard, one entry per key, held  *)
(* exclusively when any occurrence of the key writes.                      *)

LockSet(o, s) == {k \in Keys : Owner[k] = s /\ \E m \in Modes : <<k, m>> \in Uses[o]}

Exclusive(o, k) == <<k, "exclusive">> \in Uses[o]

Participants(o) == {s \in Shards : LockSet(o, s) # {}}

\* Not Transaction::single_shard().
MultiShard == {o \in Ops : \E s, t \in Participants(o) : s # t}

Multi(o) == o \in MultiShard

\* Lock sets that are incompatible on a shard: a common key one of them writes.
Conflicts ==
    [s \in Shards |-> {p \in Ops \X Ops : \E k \in LockSet(p[1], s) \cap LockSet(p[2], s) :
                                            Exclusive(p[1], k) \/ Exclusive(p[2], k)}]

Conflict(a, b, s) == <<a, b>> \in Conflicts[s]

-----------------------------------------------------------------------------
(* One shard.  intents and holds are the operations whose key set is in    *)
(* each layer of the lock table; queue is the set of queued operations,    *)
(* ordered by node; node is TxWaiter::txid_.  served and before are        *)
(* history: who has ever held here, and which conflicting pairs held in    *)
(* which order.                                                            *)

EmptyShard ==
    [intents |-> {}, holds |-> {}, queue |-> {}, bypass |-> <<>>,
     armed |-> {}, running |-> {}, granted |-> {}, committed |-> 0,
     node |-> [o \in Ops |-> 0], served |-> {}, before |-> {}]

\* TxQueue::Front: no queued txid is smaller.
IsFront(sh, h) == h \in sh.queue /\ \A p \in sh.queue : sh.node[h] <= sh.node[p]

\* tail != 0 && txid < tail, with the tail of TxQueue::TailTxid.
BeforeTail(sh, id) == \E p \in sh.queue : id < sh.node[p]

\* Mutant: a newcomer is judged against running operations only.
GrantableByHolds(sh, o, s) == \A a \in sh.holds : ~Conflict(a, o, s)

\* What AcquireIntents answers for a newcomer.
Grantable(sh, o, s) == \A a \in sh.intents : ~Conflict(a, o, s)

\* AcquireHolds for the operations in S, and its history.
AcquireHolds(sh, S, s) ==
    [sh EXCEPT !.holds = @ \cup S,
               !.served = @ \cup S,
               !.before = @ \cup {p \in sh.served \X (S \ sh.holds) : Conflict(p[1], p[2], s)}]

\* committed_txid_ = max(committed_txid_, txid) over the operations in S.
Published(sh, S) ==
    CHOOSE c \in {sh.committed} \cup {sh.node[o] : o \in S} :
        c >= sh.committed /\ \A o \in S : c >= sh.node[o]

(* The bypass loop of Poll starts the armed entries of bypass_ready_ in    *)
(* order; the first one that cannot hold goes to the back and ends it.     *)
Ready(sh, i) == sh.bypass[i] \in sh.armed \ sh.running

ReadyBefore(sh, i) == {sh.bypass[j] : j \in {k \in 1..(i - 1) : Ready(sh, k)}}

BlockedEntries(sh, s) ==
    {i \in 1..Len(sh.bypass) :
        /\ Ready(sh, i)
        /\ sh.bypass[i] \notin sh.holds
        /\ \E a \in sh.holds \cup ReadyBefore(sh, i) : Conflict(a, sh.bypass[i], s)}

BypassEnd(sh, s) ==
    CHOOSE i \in BlockedEntries(sh, s) \cup {Len(sh.bypass) + 1} :
        \A j \in BlockedEntries(sh, s) : i <= j

BypassStarts(sh, s) == ReadyBefore(sh, BypassEnd(sh, s))

BypassRest(sh, s) ==
    LET end == BypassEnd(sh, s)
    IN  IF end > Len(sh.bypass) THEN <<>>
        ELSE SubSeq(sh.bypass, end + 1, Len(sh.bypass)) \o <<sh.bypass[end]>>

\* Mutant: the head starts without CanHoldAll.
HeadStartsUnchecked(sh, B, s) ==
    {h \in sh.queue : IsFront(sh, h) /\ (Multi(h) => h \in sh.armed \ (sh.running \cup B))}

(* The ordered loop of Poll on a bound shard, after the bypass loop has    *)
(* started B: at most the head starts, a transaction when it is armed.     *)
HeadStarts(sh, B, s) ==
    {h \in sh.queue :
        /\ IsFront(sh, h)
        /\ Multi(h) => h \in sh.armed \ (sh.running \cup B)
        /\ \/ Multi(h) /\ h \in sh.holds
           \/ \A a \in sh.holds \cup B : ~Conflict(a, h, s)}

(* Poll.  A plain head leaves the queue when it is resumed; a transaction  *)
(* keeps its place until its releasing hop.                                *)
Poll(sh, s) ==
    LET B == BypassStarts(sh, s)
        H == HeadStarts(sh, B, s)
    IN  IF sh.queue = {} THEN sh
        ELSE [AcquireHolds(sh, B \cup H, s) EXCEPT
                 !.committed = Published(sh, B \cup H),
                 !.armed = @ \ (B \cup H),
                 !.running = @ \cup B \cup H,
                 !.queue = @ \ {h \in H : ~Multi(h)},
                 !.bypass = BypassRest(sh, s)]

-----------------------------------------------------------------------------
(* The shard-side steps of a transaction.                                  *)

\* Mutant: the watermark is not consulted.
NeverStale(sh, id) == FALSE

StaleTxid(sh, id) == id <= sh.committed

\* Mutant: the reorder rule is missing.
NeverReordered(sh, o, s, id) == FALSE

\* Reorder rule: a conflicting entry may not be inserted before the tail.
Reordered(sh, o, s, id) == ~Grantable(sh, o, s) /\ BeforeTail(sh, id)

ScheduleFails(sh, o, s, id) == StaleTxid(sh, id) \/ Reordered(sh, o, s, id)

ScheduleInShard(sh, o, s, id) ==
    IF ScheduleFails(sh, o, s, id) THEN sh
    ELSE [sh EXCEPT !.intents = @ \cup {o},
                    !.queue = @ \cup {o},
                    !.node = [@ EXCEPT ![o] = id],
                    !.granted = IF Grantable(sh, o, s) THEN @ \cup {o} ELSE @ \ {o}]

\* Mutant: cancelling forgets the intents.
CancelKeepsIntents(sh, o, s) ==
    Poll([sh EXCEPT !.queue = @ \ {o}, !.granted = @ \ {o}], s)

CancelInShard(sh, o, s) ==
    Poll([sh EXCEPT !.intents = @ \ {o}, !.queue = @ \ {o}, !.granted = @ \ {o}], s)

\* Mutant: every armed entry takes the bypass.
ArmAlwaysBypasses(sh, o, s) ==
    Poll([sh EXCEPT !.armed = @ \cup {o}, !.bypass = Append(@, o)], s)

ArmInShard(sh, o, s) ==
    Poll([sh EXCEPT !.armed = @ \cup {o},
                    !.bypass = IF o \in sh.granted THEN Append(@, o) ELSE @], s)

\* Mutant: the release does not poll.
ReleaseWithoutPoll(sh, o, s) ==
    [sh EXCEPT !.running = @ \ {o}, !.holds = @ \ {o}, !.intents = @ \ {o}, !.queue = @ \ {o}]

\* The releasing epilogue of RunShardHop, and TxShard::Release of a guard.
ReleaseInShard(sh, o, s) ==
    Poll([sh EXCEPT !.running = @ \ {o}, !.holds = @ \ {o},
                    !.intents = @ \ {o}, !.queue = @ \ {o}], s)

\* A non-releasing hop ends: holds, intents and queue position stay.
RetainInShard(sh, o) == [sh EXCEPT !.running = @ \ {o}]

\* TryFastPath: every intent granted, so the holds follow, with no txid.
FastPath(sh, o, s) ==
    [AcquireHolds([sh EXCEPT !.intents = @ \cup {o}], {o}, s) EXCEPT !.running = @ \cup {o}]

\* The contended path keeps the intents and queues under a fresh txid.
Enqueue(sh, o, id) ==
    [sh EXCEPT !.intents = @ \cup {o}, !.queue = @ \cup {o}, !.node = [@ EXCEPT ![o] = id]]

-----------------------------------------------------------------------------
\* Mutant: the counter hands out 0, the value TailTxid uses for an empty queue.
InitFromZero ==
    /\ nextTxid = 0
    /\ pc = [o \in Ops |-> "idle"]
    /\ txid = [o \in Ops |-> 0]
    /\ barrier = [o \in Ops |-> 0]
    /\ hops = [o \in Ops |-> 0]
    /\ releasing = [o \in Ops |-> FALSE]
    /\ msg = [o \in Ops |-> [s \in Shards |-> "none"]]
    /\ failed = [o \in Ops |-> {}]
    /\ shard = [s \in Shards |-> EmptyShard]
    /\ earlier = [o \in Ops |-> {}]

Init ==
    /\ nextTxid = 1
    /\ pc = [o \in Ops |-> "idle"]
    /\ txid = [o \in Ops |-> 0]
    /\ barrier = [o \in Ops |-> 0]
    /\ hops = [o \in Ops |-> 0]
    /\ releasing = [o \in Ops |-> FALSE]
    /\ msg = [o \in Ops |-> [s \in Shards |-> "none"]]
    /\ failed = [o \in Ops |-> {}]
    /\ shard = [s \in Shards |-> EmptyShard]
    /\ earlier = [o \in Ops |-> {}]

\* Mutant: the barrier counts all shards, not the targets of the round.
PostCountsAllShards(o, phase, targets) ==
    /\ barrier' = [barrier EXCEPT ![o] = Cardinality(Shards)]
    /\ msg' = [msg EXCEPT ![o] = [s \in Shards |-> IF s \in targets THEN phase ELSE "none"]]

\* RoundAwaiter: store the barrier and post the phase to every target.
Post(o, phase, targets) ==
    /\ barrier' = [barrier EXCEPT ![o] = Cardinality(targets)]
    /\ msg' = [msg EXCEPT ![o] = [s \in Shards |-> IF s \in targets THEN phase ELSE "none"]]

\* The top of Schedule's loop: a fresh txid and a schedule round.
ScheduleRound(o) ==
    /\ nextTxid <= MaxTxid
    /\ txid' = [txid EXCEPT ![o] = nextTxid]
    /\ nextTxid' = nextTxid + 1
    /\ pc' = [pc EXCEPT ![o] = "scheduling"]
    /\ Post(o, "schedule", Participants(o))
    /\ UNCHANGED <<hops, releasing, failed, shard>>

Issue(o) ==
    /\ pc[o] = "idle"
    /\ Participants(o) # {}
    /\ Cardinality({p \in Ops : pc[p] # "idle"}) < MaxActive
    /\ earlier' = [earlier EXCEPT ![o] = {p \in Ops : pc[p] = "done"}]

ScheduleMulti(o) == Issue(o) /\ Multi(o) /\ ScheduleRound(o)

\* Schedule returns at once for a single-shard transaction.
ScheduleSingle(o) ==
    /\ Issue(o)
    /\ ~Multi(o)
    /\ pc' = [pc EXCEPT ![o] = "scheduled"]
    /\ UNCHANGED <<nextTxid, txid, barrier, hops, releasing, msg, failed, shard>>

\* CompleteShardRound on a shard that has just run its phase.
Complete(o, s) ==
    /\ barrier' = [barrier EXCEPT ![o] = @ - 1]
    /\ msg' = [msg EXCEPT ![o][s] = "none"]

DeliverSchedule(o, s) ==
    /\ msg[o][s] = "schedule"
    /\ failed' = [failed EXCEPT ![o] = IF ScheduleFails(shard[s], o, s, txid[o])
                                       THEN @ \cup {s} ELSE @ \ {s}]
    /\ shard' = [shard EXCEPT ![s] = ScheduleInShard(@, o, s, txid[o])]
    /\ Complete(o, s)
    /\ UNCHANGED <<nextTxid, pc, txid, hops, releasing, earlier>>

DeliverCancel(o, s) ==
    /\ msg[o][s] = "cancel"
    /\ shard' = [shard EXCEPT ![s] = CancelInShard(@, o, s)]
    /\ Complete(o, s)
    /\ UNCHANGED <<nextTxid, pc, txid, hops, releasing, failed, earlier>>

\* The schedule round is over and every shard accepted.
Scheduled(o) ==
    /\ pc[o] = "scheduling" /\ barrier[o] = 0
    /\ failed[o] = {}
    /\ pc' = [pc EXCEPT ![o] = "scheduled"]
    /\ UNCHANGED <<nextTxid, txid, barrier, hops, releasing, msg, failed, shard, earlier>>

\* Some shard refused: cancel where the schedule succeeded.
CancelRound(o) ==
    /\ pc[o] = "scheduling" /\ barrier[o] = 0
    /\ failed[o] # {}
    /\ Participants(o) \ failed[o] # {}
    /\ pc' = [pc EXCEPT ![o] = "cancelling"]
    /\ Post(o, "cancel", Participants(o) \ failed[o])
    /\ UNCHANGED <<nextTxid, txid, hops, releasing, failed, shard, earlier>>

\* Retry with a fresh txid, after the cancel round or when it has no target.
MustRetry(o) ==
    /\ barrier[o] = 0
    /\ \/ pc[o] = "cancelling"
       \/ pc[o] = "scheduling" /\ failed[o] # {} /\ Participants(o) \subseteq failed[o]

Retry(o) == MustRetry(o) /\ ScheduleRound(o) /\ UNCHANGED earlier

\* Execute: the caller chooses whether this hop is its last.
Execute(o, release) ==
    /\ pc[o] = "scheduled"
    /\ hops[o] < MaxHops[o]
    /\ hops[o] + 1 = MaxHops[o] => release
    /\ hops' = [hops EXCEPT ![o] = @ + 1]
    /\ releasing' = [releasing EXCEPT ![o] = release]
    /\ pc' = [pc EXCEPT ![o] = "executing"]
    /\ Post(o, IF Multi(o) THEN "arm" ELSE "run", Participants(o))
    /\ UNCHANGED <<nextTxid, txid, failed, shard, earlier>>

\* The barrier is left for the end of the hop.
DeliverArm(o, s) ==
    /\ msg[o][s] = "arm"
    /\ shard' = [shard EXCEPT ![s] = ArmInShard(@, o, s)]
    /\ msg' = [msg EXCEPT ![o][s] = "none"]
    /\ UNCHANGED <<nextTxid, pc, txid, barrier, hops, releasing, failed, earlier>>

\* ExecuteSingleShard on the owner: the guard is still held from an earlier hop.
DeliverRunRetained(o, s) ==
    /\ msg[o][s] = "run"
    /\ o \in shard[s].holds
    /\ shard' = [shard EXCEPT ![s].running = @ \cup {o}]
    /\ msg' = [msg EXCEPT ![o][s] = "none"]
    /\ UNCHANGED <<nextTxid, pc, txid, barrier, hops, releasing, failed, earlier>>

DeliverRunFast(o, s) ==
    /\ msg[o][s] = "run"
    /\ o \notin shard[s].holds
    /\ Grantable(shard[s], o, s)
    /\ shard' = [shard EXCEPT ![s] = FastPath(@, o, s)]
    /\ msg' = [msg EXCEPT ![o][s] = "none"]
    /\ UNCHANGED <<nextTxid, pc, txid, barrier, hops, releasing, failed, earlier>>

DeliverRunContended(o, s) ==
    /\ msg[o][s] = "run"
    /\ o \notin shard[s].holds
    /\ ~Grantable(shard[s], o, s)
    /\ nextTxid <= MaxTxid
    /\ nextTxid' = nextTxid + 1
    /\ shard' = [shard EXCEPT ![s] = Enqueue(@, o, nextTxid)]
    /\ msg' = [msg EXCEPT ![o][s] = "none"]
    /\ UNCHANGED <<pc, txid, barrier, hops, releasing, failed, earlier>>

\* A callback finishes on a shard, with any status: RunShardHop's epilogue,
\* or the end of the single-shard task.
FinishHop(o, s) ==
    /\ o \in shard[s].running
    /\ shard' = [shard EXCEPT ![s] = IF releasing[o] THEN ReleaseInShard(@, o, s)
                                     ELSE RetainInShard(@, o)]
    /\ barrier' = [barrier EXCEPT ![o] = @ - 1]
    /\ UNCHANGED <<nextTxid, pc, txid, hops, releasing, msg, failed, earlier>>

\* Execute returns to its caller; after a releasing hop the Transaction dies.
HopReturned(o) ==
    /\ pc[o] = "executing" /\ barrier[o] = 0
    /\ pc' = [pc EXCEPT ![o] = IF releasing[o] THEN "done" ELSE "scheduled"]
    /\ UNCHANGED <<nextTxid, txid, barrier, hops, releasing, msg, failed, shard, earlier>>

\* Clients may issue nothing more; an operation that needs a txid beyond the
\* bound also stops here.
Quiescent ==
    /\ \A o \in Ops : pc[o] \in {"idle", "done"} \/ (MustRetry(o) /\ nextTxid > MaxTxid)
    /\ UNCHANGED vars

Coordinator(o) ==
    \/ Scheduled(o) \/ CancelRound(o) \/ Retry(o)
    \/ (\E release \in BOOLEAN : Execute(o, release)) \/ HopReturned(o)

Deliver(o, s) ==
    \/ DeliverSchedule(o, s) \/ DeliverCancel(o, s) \/ DeliverArm(o, s)
    \/ DeliverRunRetained(o, s) \/ DeliverRunFast(o, s) \/ DeliverRunContended(o, s)

\* Everything that happens on behalf of an operation once it is issued.
Step(o) == Coordinator(o) \/ \E s \in Shards : Deliver(o, s) \/ FinishHop(o, s)

Next ==
    \/ \E o \in Ops : ScheduleMulti(o) \/ ScheduleSingle(o) \/ Step(o)
    \/ Quiescent

Spec == Init /\ [][Next]_vars

(* Workers run their event loops for ever, cross-core messages are not     *)
(* lost, a callback's I/O completes and a caller goes on to its releasing  *)
(* hop.  Nothing makes a client issue an operation.                        *)
Fairness == \A o \in Ops : WF_vars(Step(o))

FairSpec == Spec /\ Fairness

-----------------------------------------------------------------------------
Phases == {"none", "schedule", "cancel", "arm", "run"}

ShardType ==
    [intents : SUBSET Ops, holds : SUBSET Ops, queue : SUBSET Ops, bypass : Seq(Ops),
     armed : SUBSET Ops, running : SUBSET Ops, granted : SUBSET Ops, committed : Nat,
     node : [Ops -> Nat], served : SUBSET Ops, before : SUBSET (Ops \X Ops)]

\* Every variable keeps its type.
TypeOK ==
    /\ nextTxid \in Nat \ {0}
    /\ pc \in [Ops -> {"idle", "scheduling", "cancelling", "scheduled", "executing", "done"}]
    /\ txid \in [Ops -> Nat]
    /\ barrier \in [Ops -> Int]
    /\ hops \in [Ops -> Nat]
    /\ releasing \in [Ops -> BOOLEAN]
    /\ msg \in [Ops -> [Shards -> Phases]]
    /\ failed \in [Ops -> SUBSET Shards]
    /\ shard \in [Shards -> ShardType]
    /\ earlier \in [Ops -> SUBSET Ops]

-----------------------------------------------------------------------------
(* The inductive invariant behind the safety properties.                   *)

(* What one shard's lock table and queue promise.  The last conjunct is    *)
(* the reason the bypass is sound: whoever conflicts with an entry that    *)
(* was granted at schedule time is queued behind it and has not started.   *)
ShardInv(sh, s) ==
    /\ sh.holds \cup sh.queue \subseteq sh.intents
    /\ sh.granted \subseteq MultiShard
    /\ \A a, b \in sh.queue : a # b => sh.node[a] # sh.node[b]
    /\ \A a, b \in sh.holds : a # b => ~Conflict(a, b, s)
    /\ \A b \in (sh.granted \cap sh.queue) \ sh.holds : \A a \in sh.intents \ {b} :
          Conflict(a, b, s) => a \in sh.queue \ (sh.holds \cup sh.granted) /\ sh.node[b] < sh.node[a]

\* txids are drawn once: queued ids are in the past and never shared.
TxidInv ==
    /\ \A o \in Ops : txid[o] < nextTxid
    /\ \A o, p \in Ops : o # p /\ txid[o] = txid[p] => txid[o] = 0
    /\ \A o \in Ops : pc[o] # "idle" /\ Multi(o) => txid[o] # 0
    /\ \A s \in Shards : \A o \in shard[s].queue :
          /\ shard[s].node[o] < nextTxid
          /\ Multi(o) => shard[s].node[o] = txid[o]
          /\ ~Multi(o) => \A p \in Ops : txid[p] # shard[s].node[o]

\* Where an operation may stand on a shard.
Absent(o, sh) == o \notin sh.intents \cup sh.queue \cup sh.holds \cup sh.armed \cup sh.running

\* A transaction keeps its queue position between hops, a guard its holds.
Placed(o, sh) == o \in sh.queue /\ o \notin sh.armed \cup sh.running

Parked(o, sh) == /\ o \notin sh.queue \cup sh.armed \cup sh.running
                 /\ o \in sh.intents => o \in sh.holds

Active(o, sh) ==
    IF Multi(o)
    THEN o \in sh.queue /\ (o \in sh.armed \/ o \in sh.running) /\ o \notin sh.armed \cap sh.running
    ELSE /\ o \notin sh.armed
         /\ \/ o \in sh.queue /\ o \notin sh.holds \cup sh.running
            \/ o \in sh.running \cap sh.holds /\ o \notin sh.queue

Resting(o, s) == IF Multi(o) THEN Placed(o, shard[s]) ELSE Parked(o, shard[s])

\* What the coordinator's position and the message in flight say of a shard.
View(o, s) ==
    /\ s \notin Participants(o) => msg[o][s] = "none" /\ Absent(o, shard[s])
    /\ pc[o] \in {"idle", "done"} => msg[o][s] = "none" /\ Absent(o, shard[s])
    /\ pc[o] = "scheduling" =>
          /\ Multi(o)
          /\ msg[o][s] \in {"none", "schedule"}
          /\ IF msg[o][s] = "none" /\ s \in Participants(o) \ failed[o]
             THEN Placed(o, shard[s]) /\ o \notin shard[s].holds
             ELSE Absent(o, shard[s])
    /\ pc[o] = "cancelling" =>
          /\ Multi(o)
          /\ msg[o][s] \in {"none", "cancel"}
          /\ IF msg[o][s] = "cancel" THEN Placed(o, shard[s]) /\ o \notin shard[s].holds
             ELSE Absent(o, shard[s])
    /\ pc[o] = "scheduled" /\ s \in Participants(o) => msg[o][s] = "none" /\ Resting(o, s)
    /\ pc[o] = "executing" /\ s \in Participants(o) =>
          IF msg[o][s] = "none"
          THEN \/ Active(o, shard[s])
               \/ IF releasing[o] THEN Absent(o, shard[s]) ELSE Resting(o, s)
          ELSE msg[o][s] = (IF Multi(o) THEN "arm" ELSE "run") /\ Resting(o, s)

-----------------------------------------------------------------------------
(* Two operations whose lock sets conflict on a shard never run there at   *)
(* the same time, although callbacks suspend and holds outlive a hop.      *)
MutualExclusion ==
    \A s \in Shards : \A a, b \in shard[s].holds : a # b => ~Conflict(a, b, s)

(* Poll's requeue branch is unreachable: every bypass-ready entry starts   *)
(* in the Poll that follows its arming, so bypass_ready_ is empty between  *)
(* steps and can never keep a pointer to a Transaction that has died.      *)
BypassDrains == \A s \in Shards : shard[s].bypass = <<>>

(* On every shard, conflicting multi-shard transactions hold in the order  *)
(* of their txids, whatever the order in which their messages arrive.      *)
TxidOrder ==
    \A s \in Shards : \A p \in shard[s].before :
        Multi(p[1]) /\ Multi(p[2]) => shard[s].node[p[1]] < shard[s].node[p[2]]

Issued == {o \in Ops : pc[o] # "idle"}

\* Some operation of every set has no predecessor in it.
Acyclic(R) == \A S \in SUBSET Issued : S # {} => \E b \in S : \A a \in S : <<a, b>> \notin R

(* Finished before the other was issued, in a way the other can tell: it   *)
(* draws a txid at once, or shares a worker with the earlier one.          *)
RealTime ==
    {p \in Ops \X Ops :
        /\ p[1] \in earlier[p[2]]
        /\ Multi(p[2]) \/ Participants(p[1]) \cap Participants(p[2]) # {}}

(* Conflict order on all shards and real-time order never contradict each  *)
(* other: execution is serializable, with fast-path commands that never    *)
(* draw a txid included.  A single-shard command is not ordered after one  *)
(* that finished on another worker: a transaction that conflicts with both *)
(* through a third may still be on its way to the command's worker.        *)
Serializability == Acyclic((UNION {shard[s].before : s \in Shards}) \cup RealTime)

\* The shards that still owe the coordinator a barrier decrement.
Owing(o) ==
    {s \in Shards : \/ msg[o][s] # "none"
                    \/ o \in shard[s].armed \cup shard[s].running
                    \/ o \in shard[s].queue /\ ~Multi(o)}

(* "A shard's barrier decrement is its last access": the barrier counts    *)
(* exactly the shards that still have to touch the transaction, so the     *)
(* coordinator is resumed once per round and never early.                  *)
BarrierExact == \A o \in Ops : barrier[o] = Cardinality(Owing(o))

\* A shard that could still dereference an entry of this operation.
References(o, s) ==
    \/ o \in shard[s].intents \cup shard[s].holds \cup shard[s].queue
    \/ o \in shard[s].armed \cup shard[s].running
    \/ \E i \in DOMAIN shard[s].bypass : shard[s].bypass[i] = o

(* A transaction whose last hop has returned, or whose failed schedule     *)
(* round was cancelled, is referenced by no shard and no message, so the   *)
(* frame that embeds it may go and no lock leaks.                          *)
NothingLeftBehind ==
    \A o \in Ops : (pc[o] \in {"idle", "done"} \/ MustRetry(o)) =>
        \A s \in Shards : msg[o][s] = "none" /\ ~References(o, s)

\* Whoever begins to hold between sh and r overtakes no one who still waits.
Orderly(sh, r, s) ==
    \A o \in r.holds \ sh.holds : \A w \in (sh.queue \cap r.queue) \ (sh.holds \cup {o}) :
        Conflict(o, w, s) => o \in sh.queue /\ sh.node[o] < sh.node[w]

OrderlyStep == \A s \in Shards : Orderly(shard[s], shard'[s], s)

(* Anti-barging: an operation begins to hold past a queued conflicting one *)
(* only from an earlier place in the same queue; a fast path never         *)
(* overtakes it.                                                           *)
NoBarging == [][OrderlyStep]_vars

(* Once every participant has accepted it, an operation completes: no      *)
(* wake-up is lost between arm, release, cancel and Poll, and no two       *)
(* operations wait for each other across shards.                           *)
ScheduledCompletes == \A o \in Ops : pc[o] = "scheduled" ~> pc[o] = "done"

(* The conjunction that every step preserves.                              *)
IInv ==
    /\ TypeOK
    /\ BypassDrains
    /\ \A s \in Shards : ShardInv(shard[s], s)
    /\ TxidInv
    /\ \A o \in Ops, s \in Shards : View(o, s)
    /\ BarrierExact
=============================================================================
