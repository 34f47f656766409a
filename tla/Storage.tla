------------------------------ MODULE Storage ------------------------------
(***************************************************************************)
(* The storage engine of one worker: client writes and transactions, the   *)
(* flush runner, the allocator, the defragmenter, the transaction cleaner, *)
(* the tomb raider, FLUSHDB and expiration, interleaved, and a crash at    *)
(* any point.                                                              *)
(***************************************************************************)
EXTENDS Reclaim

CONSTANTS
    Expiries, \* the deadlines a client may give a value
    Budgets   \* how often each bounded thing may happen: the initial budgets

VARIABLE budget

vars == <<storeVars, txVars, reclaimVars, budget>>

Bounded == {"set", "setex", "del", "tx", "abort", "round", "defrag", "failure", "raid",
            "flushdb", "tick", "crash"}

ASSUME BoundsAssumption ==
    /\ Expiries \subseteq Nat \ {0}
    /\ \A bound \in Budgets : DOMAIN bound \subseteq Bounded /\ \A w \in DOMAIN bound : bound[w] \in Nat

Spend(what) ==
    /\ what \in DOMAIN budget /\ budget[what] > 0
    /\ budget' = [budget EXCEPT ![what] = @ - 1]

Init == StoreInit /\ TxInit /\ ReclaimInit /\ budget \in Budgets

-----------------------------------------------------------------------------
Set(k, expires) ==
    /\ ~Held(k) /\ (expires = 0 \/ expires > now)
    /\ AppendOrdinary(k, "value", expires)
    /\ UNCHANGED <<txVars, reclaimVars>>

Del(k) ==
    /\ ~Held(k) /\ index[k] # None /\ Visible(index[k].record)
    /\ AppendOrdinary(k, "tombstone", 0)
    /\ UNCHANGED <<txVars, reclaimVars>>

Begin(t, keys) == (\A k \in keys : ~Held(k)) /\ TxBegin(t, keys) /\ UNCHANGED reclaimVars

TxSet(t, k) == TxWrite(t, k, "value", 0) /\ UNCHANGED reclaimVars

TxDel(t, k) ==
    /\ index[k] # None /\ Visible(index[k].record)
    /\ TxWrite(t, k, "tombstone", 0)
    /\ UNCHANGED reclaimVars

\* A crash, and the recovery of the worker.
Crash == Restart /\ TxRestart /\ ReclaimRestart

Client ==
    \/ Spend("set") /\ \E k \in Keys : Set(k, 0)
    \/ Spend("setex") /\ \E k \in Keys, x \in Expiries : Set(k, x)
    \/ Spend("del") /\ \E k \in Keys : Del(k)
    \/ Spend("tx") /\ \E t \in Txs, ks \in SUBSET Keys : Begin(t, ks)
    \/ Spend("flushdb") /\ \E d \in Dbs : FlushDbPersist(d)

Transaction ==
    \/ \E t \in Txs, k \in Keys : TxSet(t, k) \/ TxDel(t, k)
    \/ (\E t \in Txs : TxEnqueue(t) \/ TxUndo(t) \/ TxAborted(t)) /\ UNCHANGED reclaimVars
    \/ CommitAppend /\ UNCHANGED reclaimVars

Device ==
    /\ \/ \E b \in Blocks : RefillZero(b) \/ RefillBit(b)
       \/ \E s \in Streams : PeriodicFlush(s)
       \/ FlushStart \/ FlushHeader \/ FlushDone
       \/ \E r \in settling : Settle(r)
    /\ UNCHANGED <<txVars, reclaimVars>>

Cleaner ==
    /\ \/ \E g \in 1..MaxGeneration : CleanerSeal(g)
       \/ CleanerSkip \/ CleanerSealed
       \/ \E b \in Blocks : PromoteBlock(b)
       \/ PromoteRecord \/ PromoteSalvaged \/ PromoteDurable
       \/ CleanerRetire \/ CleanerKeep \/ CleanerReturn
    /\ UNCHANGED reclaimVars

Background ==
    \/ SalvageRecord \/ SalvageDone \/ DefragRelease \/ DefragReturn
    \/ TombSnapshot \/ (\E s \in raider.blocks : TombSweep(s)) \/ TombClaim
    \/ (\E k \in Keys : TombReap(k)) \/ TombDone
    \/ FlushDbPublish \/ FlushDbDetach
    \/ (\E r \in detached : ReclaimDetached(r)) \/ SealDeadActiveBlock
    \/ \E k \in Keys : ExpireDurable(k) \/ ExpireInMemory(k)

Bound ==
    \/ Spend("abort") /\ (\E t \in Txs : TxAbort(t)) /\ UNCHANGED reclaimVars
    \/ Spend("round") /\ CleanerRound /\ UNCHANGED reclaimVars
    \/ Spend("failure") /\ PromoteFails /\ UNCHANGED reclaimVars
    \/ Spend("failure") /\ SalvageFails
    \/ Spend("defrag") /\ \E b \in Blocks : DefragStart(b)
    \/ Spend("raid") /\ TombMark
    \/ Spend("tick") /\ Tick
    \/ Spend("crash") /\ Crash

Next ==
    \/ Client
    \/ Bound
    \/ (Transaction \/ Device \/ Cleaner \/ Background) /\ UNCHANGED budget

Spec == Init /\ [][Next]_vars

-----------------------------------------------------------------------------
(* What recovery would find now: the version of each key, or None. *)

Recovered ==
    LET winner == Winners
    IN  [k \in Keys |-> LET place == winner[k] IN IF place = None THEN None ELSE At(place)]

\* The variables have their types; a block that may be handed out holds no record on
\* the device, one that is allocated has its bit set, so that a scan reads it
\* (RefillReadyBlocksLocal), and the open block of a stream belongs to that stream.
TypeOK ==
    /\ \A b \in Blocks :
          /\ block[b].state \in {"cold", "zeroed", "ready", "used", "returning"}
          /\ block[b].stream \in Streams
          /\ Len(block[b].records) \in 0..BlockRecords
          /\ block[b].durable \in 0..Len(block[b].records)
          /\ block[b].live \in 0..Len(block[b].records)
          /\ block[b].tagged \in 0..block[b].live /\ block[b].pins \in Nat
          /\ block[b].state \in {"zeroed", "ready"} => disk[b].records = <<>>
          /\ block[b].state \in {"ready", "used", "returning"} => disk[b].bit
    /\ \A s \in Streams : active[s] # None =>
          block[active[s]].state = "used" /\ block[active[s]].stream = s
    /\ \A k \in Keys : index[k] # None => index[k].record.key = k
    /\ \A w \in DOMAIN budget : w \in Bounded /\ budget[w] \in Nat

\* Recovery at any moment agrees with the index.  Nothing comes back: a value it
\* would find is the one the index names, or one that the index has replaced by a
\* newer version.  And nothing durable is missing: an index entry whose record is
\* durable, and decided if it is a transaction's, is what it finds.
RecoveryMatchesIndex ==
    LET recovered == Recovered
    IN  \A k \in Keys :
            LET found == recovered[k]
                entry == index[k]
            IN  /\ found # None /\ Visible(found) =>
                      entry # None /\ entry.record.seq >= found.seq
                /\ /\ entry # None
                   /\ dbRoot[DbOf[k]] = entry.record.epoch
                   /\ block[entry.b].durable >= entry.place
                   /\ entry.record.tx = NoTx \/ entry.record.tx \in CommittedTxs
                   => found # None /\ found.seq = entry.record.seq

\* What the tomb raider drops is not needed: when it erases the tombstone of a
\* key, no value of that key that recovery would accept survives on the device.
ReapsOnlyUnneeded ==
    [][\A k \in Keys : raider.at = "reap" /\ raider' # raider /\ index[k] # None /\ index'[k] = None =>
          ~\E p \in Candidates : At(p).key = k /\ Visible(At(p))]_vars

\* A version v of a key may give way to w on the device: a visible version only
\* to a newer one, and a tombstone never to an older value.
GivesWay(v, w, vVisible, wVisible) ==
    /\ vVisible => w # None /\ w.seq >= v.seq
    /\ wVisible => v = None \/ w.seq >= v.seq

\* The durable state of a key never goes back, until its database is flushed:
\* what recovery would find is only ever replaced by something newer.
DurableForward ==
    [][disk' # disk => \A before \in {Recovered}, after \in {Recovered'} :
          \A k \in Keys : dbRoot'[DbOf[k]] = dbRoot[DbOf[k]] =>
             GivesWay(before[k], after[k], before[k] # None /\ Visible(before[k]),
                      after[k] # None /\ Visible(after[k]))]_vars

\* Every index entry names its record in a block that is still allocated to it.
IndexReadable ==
    \A k \in Keys : index[k] # None =>
        LET e == index[k]
        IN  /\ block[e.b].state = "used" /\ block[e.b].epoch = e.epoch
            /\ e.place \in DOMAIN block[e.b].records
            /\ block[e.b].records[e.place].header = e.record

\* Transactions are all or nothing: recovery finds no version of a transaction
\* whose commit record is not durable, and every version of one whose commit
\* record is, unless it has been overwritten, deleted, flushed or has expired.
TxAllOrNothing ==
    LET recovered == Recovered
    IN  \A t \in Txs : \A k \in {j \in Keys : tx[t].wrote[j] # None} :
            LET r == tx[t].wrote[k]
                found == recovered[k]
            IN  dbRoot[DbOf[k]] = r.epoch =>
                   IF Decided(t) \/ t \in CommittedTxs
                   THEN \/ found # None /\ found.seq >= r.seq
                        \/ ~Visible(r) /\ (found = None \/ ~Visible(found))
                   ELSE found # None => found.seq # r.seq

\* The retirements that are on their way.
Pending ==
    settling \cup detached
    \cup UNION {block[b].records[i].retires : <<b, i>> \in
            {p \in Blocks \X (1..BlockRecords) : p[2] \in DOMAIN block[p[1]].records}}
    \cup UNION {tx[t].retires : t \in Txs}
    \cup UNION {{Retired(tx[t].undo[i].previous) : i \in
            {j \in DOMAIN tx[t].undo : tx[t].undo[j].previous # None}} :
            t \in {u \in Txs : tx[u].state = "undoing"}}

\* The live count of a block, which decides that it may be freed, is the number
\* of its records that the index names or whose retirement is still on its way,
\* and of its commit records; and no retirement finds its block gone.
LiveExact ==
    /\ ~fault
    /\ LET pending == Pending
       IN  \A b \in Blocks : block[b].state = "used" =>
              block[b].live =
                  Cardinality({k \in Keys : index[k] # None /\ index[k].b = b})
                  + Cardinality({r.place : r \in {q \in pending : q.b = b}})
                  + Cardinality({i \in DOMAIN block[b].records :
                                   block[b].records[i].header.kind = "commit"})
=============================================================================
