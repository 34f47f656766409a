------------------------------ MODULE TxHistory -----------------------------
(***************************************************************************)
(* The vocabulary of the proofs about TxScheduler: what a step on a shard  *)
(* does to each operation's standing there and to the shard's history, who *)
(* was served and in which order conflicting operations began to hold.     *)
(* Every step of TxScheduler works on one shard (Touch) or is a            *)
(* coordinator's own (Settle).                                             *)
(***************************************************************************)
EXTENDS TxScheduler

(* How a step on a shard changes the standing of an operation it is not    *)
(* about: not at all, or Poll started it.                                  *)

SameStanding(p, sh, r) ==
    /\ p \in r.intents <=> p \in sh.intents
    /\ p \in r.queue <=> p \in sh.queue
    /\ p \in r.holds <=> p \in sh.holds
    /\ p \in r.armed <=> p \in sh.armed
    /\ p \in r.running <=> p \in sh.running

Started(p, sh, r) ==
    /\ p \in sh.queue
    /\ p \in (r.holds \cap r.running) \ r.armed
    /\ IF Multi(p) THEN p \in sh.armed \ sh.running /\ p \in r.queue ELSE p \notin r.queue

\* A step about o took the shard from sh to r.
Effect(o, sh, r, s) ==
    /\ r \in ShardType
    /\ ShardInv(r, s)
    /\ r.bypass = <<>>
    /\ Orderly(sh, r, s)
    /\ \A p \in Ops \ {o} : /\ SameStanding(p, sh, r) \/ Started(p, sh, r)
                            /\ r.node[p] = sh.node[p]

-----------------------------------------------------------------------------
(* What a step on a shard adds to its history.                             *)

Starts(sh, r) == r.holds \ sh.holds

History(sh, r, s) ==
    /\ r.served = sh.served \cup Starts(sh, r)
    /\ r.before = sh.before \cup {p \in sh.served \X Starts(sh, r) : Conflict(p[1], p[2], s)}
    /\ r.running \subseteq r.holds
    /\ r.committed \in {sh.committed} \cup {sh.node[q] : q \in sh.queue}
    /\ r.committed >= sh.committed
    /\ \A o \in Starts(sh, r) \cap sh.queue : r.committed >= sh.node[o]

\* The part of Service that is about one shard's lock table.
Sound(sh) == sh.running \subseteq sh.holds /\ sh.holds \subseteq sh.served

(* What the step does to the operation it is about: it starts from the     *)
(* queue or is a fast path, and only a newcomer to the queue gets a txid,  *)
(* which is above the watermark.                                           *)
Moved(o, sh, r) ==
    /\ o \in Starts(sh, r) \ sh.queue => ~Multi(o)
    /\ r.node[o] = sh.node[o] \/ o \in r.queue \ sh.queue
    /\ o \in r.queue \ sh.queue => o \notin sh.holds /\ r.node[o] > r.committed

-----------------------------------------------------------------------------
(* What the barrier's proof uses of Cardinality.                           *)
Counts ==
    /\ Cardinality({}) = 0
    /\ \A S \in SUBSET Shards :
          /\ Cardinality(S) \in Nat
          /\ Cardinality(S) = 0 => S = {}
          /\ \A s \in S : Cardinality(S \ {s}) = Cardinality(S) - 1

\* What is left of an operation on a shard where it has released.
Gone(o, s) ==
    /\ Absent(o, shard[s])
    /\ msg[o][s] = "none"
    /\ pc[o] = "done" \/ (pc[o] = "executing" /\ releasing[o])

(* The history of a shard: whoever was served holds or is gone, and the    *)
(* participants of a hop owe a decrement or have served it.                *)
Service ==
    /\ \A s \in Shards :
          /\ shard[s].running \subseteq shard[s].holds
          /\ shard[s].holds \subseteq shard[s].served
          /\ shard[s].before \subseteq shard[s].served \X shard[s].served
          /\ shard[s].committed < nextTxid
          /\ \A o \in shard[s].served :
                /\ s \in Participants(o) /\ pc[o] # "idle"
                /\ o \in shard[s].holds \/ Gone(o, s)
    /\ \A o \in Ops : pc[o] # "idle" => Participants(o) # {}
    /\ \A o \in Ops : pc[o] \in {"executing", "done"} =>
          \A s \in Participants(o) : s \in Owing(o) \/ o \in shard[s].served
    /\ \A b \in Ops : \A a \in earlier[b] : pc[a] = "done" /\ pc[b] # "idle"

(* Every step on a shard is a Touch: o moves on s, and what else moves     *)
(* there was started by Poll.                                              *)

Touch(o, s) ==
    /\ shard' = [shard EXCEPT ![s] = shard'[s]]
    /\ Effect(o, shard[s], shard'[s], s)
    /\ History(shard[s], shard'[s], s)
    /\ Moved(o, shard[s], shard'[s])
    /\ pc' = pc /\ txid' = txid /\ releasing' = releasing /\ earlier' = earlier
    /\ nextTxid' \in Nat /\ nextTxid' >= nextTxid
    /\ \A p \in Ops, t \in Shards : p # o \/ t # s => msg'[p][t] = msg[p][t]
    /\ msg[o][s] # "none" \/ o \in shard[s].running
    /\ o \in shard[s].holds \ shard'[s].holds => Gone(o, s)'
    /\ o \in shard'[s].queue \ shard[s].queue /\ ~Multi(o) => shard'[s].node[o] >= nextTxid
    /\ pc[o] = "executing" => s \in Owing(o)' \/ o \in shard'[s].served

(* The coordinator's own steps move no shard.                              *)

Settle(o) ==
    /\ shard' = shard
    /\ nextTxid' \in Nat /\ nextTxid' >= nextTxid
    /\ \A p \in Ops \ {o} : /\ pc'[p] = pc[p] /\ msg'[p] = msg[p] /\ txid'[p] = txid[p]
                            /\ releasing'[p] = releasing[p] /\ earlier'[p] = earlier[p]
    /\ pc[o] # "done" /\ pc'[o] # "idle" /\ Participants(o) # {}
    /\ \/ pc[o] = "idle" /\ earlier'[o] = {p \in Ops : pc[p] = "done"}
       \/ pc[o] # "idle" /\ earlier'[o] = earlier[o]
    /\ \/ txid'[o] = txid[o] /\ (pc[o] = "idle" => ~Multi(o))
       \/ txid'[o] = nextTxid /\ pc[o] \in {"idle", "scheduling", "cancelling"}
    /\ \A s \in Shards : o \in shard[s].served => o \in shard[s].holds \/ Gone(o, s)'
    /\ pc'[o] \in {"executing", "done"} =>
          \A s \in Participants(o) : s \in Owing(o)' \/ o \in shard[s].served
=============================================================================
