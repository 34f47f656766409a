# Lavik: a TLA+ verification project

Lavik is a Redis-compatible C++23 server. Data lives in per-worker storage
engines on NVMe; a Raft-backed Meta service (`lavik-meta`) decides which node
owns a group of slots and fails groups over. This directory holds TLA+ modules
translated from that code, TLC configurations that check them on small
instances, and TLAPS proofs that hold for every instance.

Contents: [1 The system](#1-the-system) · [2 Modules](#2-modules) ·
[3 Runs](#3-runs) · [4 Findings](#4-findings) · [5 Proofs](#5-proofs) ·
[6 What is not modelled](#6-what-is-not-modelled) · [7 Running it](#7-running-it)

## 1 The system

A data process is a set of worker threads, each running coroutines. A worker
owns its connections, its transaction shard and its storage shard, and reaches
another worker only by posting a request to it (`bycorf::SubmitTaskTo`). So
interleaving happens at two grains: between workers at every message and every
load of shared state, and within a worker at every suspension point. A step of a
module is the code between two such points.

| Part | Source | Module | Status |
|---|---|---|---|
| Transaction scheduler | `src/tx`, `include/lavik/tx/transaction.h`, `tx_shard.h` | `TxScheduler` | modelled, proved |
| Lock table | `include/lavik/tx/intent_lock.h` | `LockTable`, implements `LockSets` | modelled, proved |
| Transaction queue | `include/lavik/tx/tx_queue.h` | `TxQueue`, implements `WaitSet` | modelled, proved |
| Serving state, lease guard, admission of a write | `src/cluster/topology.cpp`, `authority.cpp`, admission in `src/redis/command.cpp` | `Authority` | partly |
| Control transitions of a data node | `src/cluster/node_control.cpp`, `meta_client.cpp` | `NodeControl`, on `Authority` | partly |
| Leases across Meta leaders and owners | `src/meta/data_control_server.cpp`, `raft/engine/liveness.go`, lease part of `control_protocol.cpp` | `LeaseHandoff` | partly, proved |
| Meta state machine for one group | `src/meta/state_apply.cpp`, `topology_store.cpp`, `operation_store.cpp`, the reconcilers | `FailoverApply`, `MetaFailover` | partly, proved |
| Storage engine of one worker | `src/storage/engine` | `BlockStore`, `TxWrites`, `Reclaim`, `Storage` | partly |
| Everything else | | | section 6 |

A write is admitted by the cluster data plane (`Authority`), takes its keys from
the scheduler (`TxScheduler`), and changes the storage engine (`Storage`). Meta
decides who owns a group (`MetaFailover`), its leader hands out leases
(`LeaseHandoff`), and the node turns projections, grants and fences into what it
admits (`NodeControl`). The modules meet in two places: `NodeControl` runs against
the requests of `Authority`, and the storage modules are layers of one state
machine. Otherwise a module takes its neighbour's promise as an input: `NodeControl`
is given any grant, fence and projection a session may deliver, `LeaseHandoff` any
committed change of owner.

## 2 Modules

### TxScheduler, LockTable, TxQueue

* A *shard* is one `TxShard`: who has intents, who holds, the ordered queue, the
  bypass-ready queue, the committed watermark, and which queued transactions are
  armed, running and `granted_`. `served` and `before` are history variables.
* An *operation* is one `Transaction` coroutine. `pc` is where it is suspended;
  `msg[o][s]` is the phase on its way to shard `s`, delivered once, at any later
  time. That is what bycorf's cross-core queues give the code, and all it relies on.
* `Poll` is one operator, because a worker runs it without suspending. It drains
  the bypass queue, then starts ordered heads. Callbacks that suspend keep their
  holds; `FinishHop` is the step in which one ends, releases when it is the
  concluding hop, polls and decrements the barrier.
* An operation with keys on one shard goes through `AcquireKeys`: the fast path when
  nothing is in its way, otherwise a txid and the queue.

`TxScheduler` sees the lock counters and the tombstoned deque as sets. `LockTable`
and `TxQueue` are the real structures; they implement those sets (`LockSets`,
`WaitSet`) answer by answer, which run `tx_shard` checks and `ShardTableProofs` proves.

`Serializability` is about conflict order on all shards together with real-time
order as far as an operation can tell it: `b` comes after `a` when `a` was done before
`b` was issued, and `b` draws a txid or has a worker in common with `a`. A single-shard
command on a worker where `a` had no keys is not ordered after `a`: a transaction
that conflicts with both may be ordered between them the other way round, because its
message has yet to reach the command's worker. The code does not promise more.

### Authority and NodeControl

Requests run on every worker in parallel with the control transitions, so each load
of shared state is a step of its own. Counters that the code only compares for
equality are kept as the set of readers whose copy is still current. The control
coroutines run on worker 0 and give way only where they await: the session reader,
the lease timer, the heartbeat producer, the directive executor, storage loss.
`Scenarios` bounds what Meta does to the node (projections, sessions, population
changes, time, writes); it is a bound of the model, not code.

### LeaseHandoff

`now` is `CLOCK_BOOTTIME`; the active clock of a leader stands still while its host
is suspended. A leadership is one element of `leader`: its heartbeats sent and
confirmed, its suspension, what it has applied. `guard` is its
`MetaLeaseHandoffGuard`; `answer` and `lease` are the grant on its way to a node and
the lease the node has installed, both counted from the sending of the challenge.
A deposed leader goes on acting until its liveness runs out, and up to `RoleLag`
longer, or until it is revoked: the server asks a role that the engine publishes once
per turn of its loop. `Takeover` is the least time from a heartbeat to the next
election. It, the lag and the suspension of hosts are the environment's and are not
assumed to fit the timers; of the timers the model assumes what `ValidateOptions`
demands, `Margin >= Validity`.
The per-peer confirmations of `liveness.go` are one confirmation by the quorum.

### FailoverApply and MetaFailover

`FailoverApply` is the deterministic apply: for each command the test that its
effect is already there, its compare-and-set, and its effect at its log index.
`MetaFailover` lets proposers build commands from a committed view and keeps them in
flight while other entries commit. Proposers are free: what holds here holds
whatever a reconciler, a detector or an administrator decides. The topology
store's own test that an installed recovery deadline never changes is left out of
`Replaced`: `CutoffFixed` holds without it, so the tests of the commands suffice.

### BlockStore, TxWrites, Reclaim, Storage

`BlockStore` is the device and what a worker knows of it: append, close, flush (data,
header, completion are separate steps), allocation with the defrag reserve, deferred
retirement of what a record replaced, and recovery as operators on the device
(`Scanned`, `Candidates`, `Winners`). `TxWrites` adds tagged records, the commit
queue, rollback, and the generation cleaner. `Reclaim` adds the defragmenter, the
tomb raider, FLUSHDB in its three steps, the reclaim of the index it detaches, which
ends by closing an open block without live records, and expiration. `Storage` is all
of them interleaved, with a crash at any point. The gate that FLUSHDB closes keeps
commands out, but neither the raider nor expiration, which take the key's lock only.

Simplifications to know of:

* the claims of a raider sweep are applied at its end, not in batches of 512;
* the bit with which recovery marks an entry as shielding older records may be a
  superset of the model's, depending on the order of the scan;
* a block holds two records, so a failed *defragmentation* pass never owes a fence
  here; that debt is exercised through failed promotions only;
* dependency pins are redundant with the tagged counter at this size, so the
  model does not show that they are needed.

## 3 Runs

| Run | Instance | Shows |
|---|---|---|
| `tx_scheduler` | two shards, three keys, three multi-shard and two single-shard operations of which any three are issued, four txids | isolation, one order of conflicting transactions, serializability, exact barriers, clean exits, no barging, under every order of deliveries |
| `tx_liveness` | two shards, an operation of two hops among three, fair workers | an operation every participant accepted completes |
| `tx_shard` | five owners of one or two fingerprints; three txids in a deque of five slots | counters equal owners, entries vanish with the last intent; the live queue is sorted; both structures implement their sets |
| `node_safety` | one node, two writes, five courses of events | no write under an acknowledged fence or pause, after its lease lapsed or under a reset; lease, expiration and sources end together |
| `node_live` | the same, fair workers | every transition ends |
| `meta_failover` | two nodes, two requests, five entries, two commands in flight, all commands | restorable stores, exact replay, one grant per term, a request completes exactly with its cutover, no second effect |
| `lease_handoff` | two leaderships, two nodes, nine time units, late roles, early elections | whoever is granted a lease finds every other one ended; a deposed leader is silent once its successor has granted |
| `storage` | two keys in two databases, two transactions, four blocks of two records, nineteen budgets | recovery agrees with the index, durable state only moves forward, transactions are all or nothing, no block is freed under a record |
| `node_readmitted`, `node_reset`, `storage_reap`, `storage_promote` | one course or budget each | the violations of section 4 |

### What the passing runs leave out on purpose

Two passing runs are bounded so that they do not enter the situations of section 4,
where their properties are false. This is a limit of what they show, not a detail:

* `node_safety` allows two population changes. With a third, `FenceHolds` fails
  (`node_readmitted`).
* no budget of `storage` combines the tomb raider with transactions, or a failed
  promotion with FLUSHDB. In the budget of `storage_reap`, `RecoveryMatchesIndex` fails
  besides `ReapsOnlyUnneeded`, and with one defragmentation more `DurableForward` does;
  in that of `storage_promote`, `TxAllOrNothing` fails besides `DurableForward`.
  `IndexReadable` and `LiveExact` hold in both budgets.

So `FenceHolds`, `RecoveryMatchesIndex`, `TxAllOrNothing` and `DurableForward` are
established for the listed courses and budgets, not for the code at large.

### Bounds

* `tx_*`: a cyclic order needs two shards and two transactions; the third operation
  moves the committed watermark or takes the fast path. Three operations and four
  txids leave room for one retry. Two hops separate releasing from keeping the locks.
* `tx_shard`: two readers and a writer of one fingerprint, and a reader and a writer of
  both, bring every counter to two; three txids in five slots leave tombstones at both
  ends and between live entries.
* `node_*`: leases of one time unit, so that they lapse within the run; five short
  courses (a pause that is lifted, two writes and a fence, the move of the group, a
  population lost or rebuilt, a promoted owner losing storage) instead of one long one.
* `meta_failover`: two entries in flight are what races; five entries reach the end
  of a failover with one rival command. Two ids may be generated (of transitions,
  actions and assignments); what this run checks is also proved for any bounds.
* `lease_handoff`: window, margin and lease are two units, as the server derives them
  from one option; an election may take one and a role be one late. The first leader
  starts at 4, the quarantine of the next holder takes 4: at time 9 a second leader can
  grant. A behaviour has suspended hosts or a restarted node, not both (`MCNext`). The
  overlap of these timers is zero, so `BoundedOverlap` says that every other lease has
  ended. The instance is at the edge: without the suspend guard TLC finds
  `BoundedOverlap` violated, and with `Takeover = 0`, where `Overlap` is 1, it holds
  while two nodes do hold a lease for one unit, so the bound cannot be improved there.
* `storage`: a *budget* says how often each bounded thing happens. Each budget is one
  question, and the initial states range over all of them; flushes, refills and
  retirements are not bounded. Foreground writes may take three of the four blocks;
  the budget with six writes fills them. The budgets of the raider are too small for
  the block of a reaped tombstone to be freed; a wrong reap shows before that, as the
  tombstone may not be durable yet.

`CHECK_DEADLOCK FALSE` stands where an instance stops because its bounds are used
up. `tx_scheduler` and `tx_shard` check deadlock.

### Fairness

`TxScheduler!FairSpec` is weak fairness on the steps of each issued operation taken
together (deliveries, the end of callbacks, its coordinator): a worker's event loop
takes every posted request, callback I/O completes, and a caller goes on to its
releasing hop. The last is a duty of the callers in `src/redis`, not of the scheduler.

`NodeControl!FairSpec` is weak fairness on the topology store, the session reader and
the end of a write, and *strong* fairness on the other coroutines of worker 0, on the
loss of storage and on each request under way. It is strong because these are disabled
again and again while another coroutine publishes (a request spins meanwhile); the
event loop resumes every ready coroutine in turn, and a spinning request does see the
publication end. That a request gets through is therefore assumed, not shown.

Neither assumes that clients send anything, that Meta does, or that time passes.

## 4 Findings

Four runs show the code doing something that a comment or document in the repository
says it does not. The quotes are in `PROJECT.json`.

* `node_readmitted`. A request reads the topology before the authority generation.
  If readiness is lost and regained in between, it registers in the in-flight cell of
  the older snapshot, which has an equal token, and a later fence drains another
  cell: the fence is acknowledged while the write executes. The model takes three
  population changes to reach this.
* `node_reset`. `StartDirective` publishes the population as unready and suspends
  before the reset; meanwhile the heartbeat producer of a node that does not own the
  group republishes it as ready.
* `storage_reap`. The tomb raider sweeps blocks of records only. A committed value
  that is still in a *transaction* block claims nothing, so the tombstone that hides
  it is erased. With a defragmentation added to that budget, TLC also finds
  `DurableForward` violated, in 27 states: the block of the durable tombstone is
  released and a restart finds the deleted value.
* `storage_promote`. A failed promotion drops the fences it owes for the records it
  has moved. After FLUSHDB retires the rest, the next round frees the generation
  before the copies are durable.

All four are counterexamples of the model. None has been reproduced against the
running program, and how likely the timings are has not been studied.

One oddity is not a finding, as no text contradicts it: `RollbackTxLocal` restores
the previous index entry with the shielding bit it had when it was replaced.

## 5 Proofs

Eight modules hold the proofs; each theorem is for every value of the constants.

**TxShardProofs, TxSchedulerProofs, TxRankProofs, TxTheorems** (vocabulary in
`TxHistory`). The invariants of the runs are not inductive. `IInv` adds what the code
relies on silently: the holds of a shard are pairwise compatible, whoever conflicts
with an entry that was granted at schedule time and has not started is queued behind
it, txids are unique, and what a coordinator's position and messages say of a shard
agrees with that shard (`View`). `TxShardProofs` has the lemmas about one shard under
each handler; `TxSchedulerProofs` lifts them, one case per action. They also show that
every step is a `Touch` (one operation moves on one shard, and what else moves there
was started by `Poll`) or a `Settle` (the coordinator's own step), and the rest of the
argument is about these two shapes only.

Serializability needs a witness. An operation gets a rank `<<major, minor>>` when it
begins to hold: its txid when it comes from the queue; on the fast path, which draws no
txid, the shard's committed watermark and the tick of a global clock. `Serial` says
that ranks exist that go up along the conflict order of every shard, agree with the
txids of multi-shard transactions, stay at or below the watermark of a shard that
served them and below the queued id of every waiter that must come later, and go up
along real-time order. `TxRankProofs` shows that a `Touch` and a `Settle` keep
`Serial`. Two refusals of `ScheduleInShard` carry it. A newcomer whose id is not above
the watermark is refused, so it ranks above all that was served before it came
(`RankWaiter`). A newcomer that conflicts and would be inserted before the tail is
refused, so nobody starts past a conflicting waiter with a smaller id (`Orderly`), and
old waiters stay above whatever starts meanwhile. An order
of ranks has no cycle (the least rank of a set has no predecessor in it), which gives
`TxidsOrderConflicts` and `Serializable`. Results: `TypeCorrect`, `Exclusion`,
`BypassAlwaysDrains`, `BarrierCorrect`, `CleanExit`, `AntiBarging`, `HistoriesInOrder`,
`RanksExplain`, `TxidsOrderConflicts`, `Serializable`. Assumed: operations and shards
are finite sets (`FiniteAssumption`); the other assumptions only type the constants.

**ShardTableProofs.** For the lock table `IInv` ties each of an entry's four counters to
the number of owners it stands for; a decrement below zero, a leaked entry or a wrong
answer would contradict the count. For the queue, type and `LiveSorted` are inductive
as they stand; the work is in where the scans of `Insert`, `Remove`, `Front` and
`TailTxid` stop among the tombstones. Results: `TypeCorrect`, `CountersAreOwners`, `EntriesAreUsed`,
`MutualExclusion`, `QueueOrder`, and the refinements `Refinement` and
`QueueRefinement`, in which each method is one step of the set it implements, with the
same answer.

Facts about cardinalities and the order of the naturals enter these lemmas as named
hypotheses (`Counts`, `Counting`, `WellOrdered`), proved from the library before the
theorems use them; the theorems themselves have no such hypothesis.

**MetaFailoverProofs.** One lemma per command: from stores consistent up to entry i,
its effect at entry i + 1 is consistent again, and the authority it leaves is the old
one, one of the next term, or the first grant of a term that had none. The grants so
far never exceed the current term and stay below it while it has none. Results:
`TypeCorrect`, `AggregateAlwaysValid`, `GrantsAreUnique`.

**MetaReplayProofs** goes on from there, again with one lemma per command: what its
effect leaves alone of the requests and the transition (`EffectStep`), that its
already-applied test holds of the stores it leaves, and that the command is `Spent`,
that is, a term, revision or request life it was built from has moved on for good.
`RInv` keeps the last of these for every entry of the log. Results: `ReplayIsExact`,
`CompletionIsCutover`, `EffectsHappenOnce`, `CutoffIsFixed`.

**LeaseHandoffProofs.** How old can the heartbeat be that a grant rests on? Liveness
bounds its age in active time by `Validity`, the published role adds `RoleLag`, and
boot time adds the suspension in between (`Unnoticed`); `Oldest` is the sum. A deposed
leader's last heartbeat precedes the next election by `Takeover`, and that leader's
first grant comes a quarantine of `Validity + Margin` later. So a lease of the earlier
leader outlives the later grant by at most `Overlap`, what `Oldest` exceeds
`Takeover + Margin` by, and if `Oldest < Takeover + Validity + Margin` (`Outwaited`) the
earlier leader has made its last grant by then. `IInv` is the conjunction of `TypeOK`,
`LeadersInv`, `GuardInv`, `BeatsInv`, `QuietInv` and `ClaimsInv`, which say this of
every heartbeat, quarantine entry and outstanding claim. Results, from
`Margin >= Validity` alone: `HandoffBounded` (`BoundedOverlap`, unconditionally),
`OneHolder` (at most one holder at any time, if `Overlap = 0`), `EarlierLeadersSilent`
(`LeadersForward`, if `Outwaited`), `TypeCorrect`.

What this means for the deployed values, where `Margin = Validity`: at most one
holder as long as `RoleLag` and the suspension together do not exceed `Takeover` (+ 1),
and earlier leaders silent as long as they do not exceed `Takeover + Validity`. Take a
window of 300 ms with a heartbeat of 100 ms: etcd's ticks can bring an election one
heartbeat early (`Takeover` about 200), and a role may lag by one tick (`RoleLag` about
100). Without suspension `Oldest` is 399 and there are 101 ms to spare; that much
suspension is covered, and 400 ms by the second condition. The suspend guard bounds
`Unnoticed` only if `Validity + RoleLag <= Margin + 1`. It counts from the start of the
server, and with an equal margin and a lagging role a heartbeat from before the start can
still carry the first grant, with all the suspension before the start uncounted. A
margin that also covers the lag would close that gap; the options do not demand it.

**Only model-checked**, on the instances above:

* liveness (`ScheduledCompletes`, `TransitionsEnd`): fairness and ENABLED are out of the
  prover's reach;
* `FenceHolds`, `RecoveryMatchesIndex`, `TxAllOrNothing` and `DurableForward`: they are
  false beyond the listed courses and budgets (section 4), so there is no theorem for
  every value of the constants;
* the other properties of `NodeControl` and `Storage`. Recovery is a fold over the
  device and a live count is a sum over its records; what such a fold computes for every
  device needs an induction over data that the prover cannot do.

## 6 What is not modelled

The map names about 12,000 of some 200,000 lines of C++ and Go (6%): the modules cover
chosen protocols in depth, and most of the program is outside. Every part is listed
with a reason in `PROJECT.json`. In short:

* **Within modelled parts.** Scheduler: overflow of the lock counters and the txid, a
  guard destroyed without its releasing hop. Node: more than one group, stale reads,
  source authorizations one by one, shutdown. Lease: sole voters, clocks
  that drift apart. Storage: grouped objects, extents, checkpoints, replication
  epochs, several workers and devices, read pins, wall-clock rollback, the standby
  block, the I/O-failure latch, compensation of single commands.
* **Replication** (`src/replication`, the replication log). The largest part without a
  module, and one with real hazards: a torn snapshot of the applied frontier, an
  acknowledgement before the write that sent it resumes, progress recorded for one
  rebuild completing another, a log prefix reclaimed under a reader. An instance that
  TLC can exhaust would cut away what makes it hard.
* **Raft engine.** The protocol is an external library; the order of persist, send and
  apply and the publication of snapshots around it are not modelled.
* **Redis serving.** WATCH, blocking commands (a timeout against a wake-up), the request
  gate at shutdown, Pub/Sub and the Function catalog have races of their own.
* **Shutdown checkpoints.** A start from a checkpoint takes another path than the cold
  scan modelled here; a crash while one is written is not covered.
* **Meta evidence.** Observations, the planner's inputs and the automatic detector:
  `MetaFailover` leaves the planner free. Whether a controlled failover loses no write
  also needs the replication frontier and is not shown.
* **Data-type commands, codecs, RDB, administration, process shell.** Sequential code,
  formats and I/O.

The hazard list of `PROJECT.json` keeps one entry where several amount to the same
race; the hazards of the parts above are named here.

## 7 Running it

```
tlc -config MCStorage.cfg MCStorage      # a run: see PROJECT.json for the pairs
tlapm TxSchedulerProofs.tla              # the proofs of a module
```

The passing runs take one to five minutes each on two cores, the proofs three to
ten minutes a module.
