----------------------------- MODULE TxWrites ------------------------------
(***************************************************************************)
(* The durable side of multi-key transactions (src/storage/engine/         *)
(* write.cpp, tx_cleaner.cpp): the tagged records a transaction stages in  *)
(* the block of its generation, the commit record that decides them, the   *)
(* rollback of an aborted one, and the cleaner that turns the winners of a *)
(* closed generation into ordinary records and releases its blocks.        *)
(***************************************************************************)
EXTENDS BlockStore

VARIABLES
    tx,          \* TxShardWrites and the undo log of each transaction
    commitQueue, \* tx_commit_queue_
    cleaner      \* the tx cleaner's coroutine

txVars == <<tx, commitQueue, cleaner>>

\* wrote is for the properties only: the version of each key the transaction wrote.
Unwritten == [k \in Keys |-> None]

NewTx == [state |-> "new", generation |-> 0, keys |-> {}, undo |-> <<>>, retires |-> {},
          fences |-> {}, wrote |-> Unwritten]

CleanerIdle == [at |-> "idle", generation |-> 0, committed |-> {}, todo |-> {}, b |-> None,
                place |-> 0, fences |-> {}]

TxInit ==
    /\ tx = [t \in Txs |-> NewTx]
    /\ commitQueue = <<>>
    /\ cleaner = CleanerIdle

\* A key that an open transaction holds: only its own writes may change it.
Locked(key) == \E t \in Txs : tx[t].state \in {"open", "undoing"} /\ key \in tx[t].keys

\* active_transactions_ of a generation: the leases that TxShardWrites hold.
Leases(g) == {t \in Txs : tx[t].generation = g /\ tx[t].state \in {"open", "undoing", "queued"}}

-----------------------------------------------------------------------------
(* A transaction. *)

\* InitializeTxWrites, under the locks of the keys.
TxBegin(t, keys) ==
    /\ tx[t].state = "new"
    /\ keys # {} /\ \A k \in keys : ~Locked(k)
    /\ counter.generation <= MaxGeneration
    /\ tx' = [tx EXCEPT ![t].state = "open", ![t].keys = keys,
                        ![t].generation = counter.generation]
    /\ UNCHANGED <<storeVars, commitQueue, cleaner>>

\* A version that the new record replaces, as the commit record will retire it;
\* in a transaction block, it pins that block.
TxRetired(e) == [Retired(e) EXCEPT !.pinned = block[e.b].stream # Ordinary]

\* The highest staged end of each block.
MergeFence(fences, fence) ==
    {f \in fences : f.b # fence.b \/ f.epoch # fence.epoch} \cup {fence}

\* AppendLocked of a tagged record.
TxWrite(t, key, kind, expires) ==
    LET stream == tx[t].generation
        record == NewVersion(key, kind, expires, t)
        old == index[key]
        retires == IF old = None THEN {} ELSE {TxRetired(old)}
        staged == Staged(stream, record, {})
    IN  /\ tx[t].state = "open"
        /\ key \in tx[t].keys /\ tx[t].wrote[key] = None
        /\ HasRoom(stream, FALSE)
        /\ block' = [b \in Blocks |->
              [staged[b] EXCEPT !.pins = @ + Cardinality({r \in retires : r.pinned /\ r.b = b})]]
        /\ index' = [index EXCEPT ![key] = Entry(stream, record, Shields(old, expires))]
        /\ counter' = Counted(stream, TRUE)
        /\ Close(stream)
        /\ tx' = [tx EXCEPT
              ![t].undo = Append(@, [key |-> key, previous |-> old]),
              ![t].retires = @ \cup retires,
              ![t].fences = MergeFence(@, Fence(stream)),
              ![t].wrote[key] = record]
        /\ UNCHANGED <<deviceVars, flushing, settling, dbEpoch, now, fault, commitQueue, cleaner>>

\* EnqueueTxCommit: the undo log is settled and the locks are released.
TxEnqueue(t) ==
    /\ tx[t].state = "open"
    /\ \A k \in tx[t].keys : tx[t].wrote[k] # None
    /\ tx' = [tx EXCEPT ![t].state = "queued", ![t].undo = <<>>]
    /\ commitQueue' = Append(commitQueue, t)
    /\ UNCHANGED <<storeVars, cleaner>>

\* CommitTxWrites: behind the fences of every tagged record, the commit record, whose
\* flush is requested at once.
CommitAppend ==
    LET t == Head(commitQueue)
        stream == tx[t].generation
        record == Record(None, "commit", 0, t, 0, counter.lsn, 0)
    IN  /\ commitQueue # <<>>
        /\ \A f \in tx[t].fences : Durable(f)
        /\ HasRoom(stream, FALSE)
        /\ block' = Staged(stream, record, tx[t].retires)
        /\ counter' = Counted(stream, FALSE)
        /\ active' = [active EXCEPT ![stream] =
              IF Fence(stream).place < BlockRecords THEN Target(stream) ELSE None]
        /\ flushQueue' = Requested(Target(stream))
        /\ commitQueue' = Tail(commitQueue)
        /\ tx' = [tx EXCEPT ![t].state = "committed", ![t].retires = {}, ![t].fences = {}]
        /\ UNCHANGED <<deviceVars, index, flushing, settling, dbEpoch, now, fault, cleaner>>

\* RollbackTxLocal, without compensation.
TxAbort(t) ==
    /\ tx[t].state = "open"
    /\ tx' = [tx EXCEPT ![t].state = "undoing", ![t].retires = {}, ![t].fences = {}]
    /\ UNCHANGED <<storeVars, commitQueue, cleaner>>

\* One entry of the undo log, the last first: the index is rewound to a version
\* that existed, and a key that did not exist gets an ordinary tombstone.
TxUndo(t) ==
    LET last == tx[t].undo[Len(tx[t].undo)]
        applied == Retired(index[last.key])
    IN  /\ tx[t].state = "undoing" /\ tx[t].undo # <<>>
        /\ IF last.previous = None
           THEN AppendOrdinary(last.key, "tombstone", 0)
           ELSE /\ index' = [index EXCEPT ![last.key] = last.previous]
                /\ LET dead == MarkRecordDead(block, applied)
                       pinned == TxRetired(last.previous).pinned
                   IN  block' = [dead EXCEPT ![last.previous.b].pins =
                                    IF pinned THEN @ - 1 ELSE @]
                /\ UNCHANGED <<deviceVars, active, counter, flushVars, dbEpoch, now, fault>>
        /\ tx' = [tx EXCEPT ![t].undo = SubSeq(@, 1, Len(@) - 1)]
        /\ UNCHANGED <<commitQueue, cleaner>>

TxAborted(t) ==
    /\ tx[t].state = "undoing" /\ tx[t].undo = <<>>
    /\ tx' = [tx EXCEPT ![t].state = "aborted"]
    /\ UNCHANGED <<storeVars, commitQueue, cleaner>>

-----------------------------------------------------------------------------
(* The cleaner: RunTxCleaner. *)

OfGeneration(g) == {b \in Blocks : block[b].state = "used" /\ block[b].stream = g}

SealedAndDurable(g) == \A b \in OfGeneration(g) : ~InMemory(b)

\* A round closes the current generation if it has records.
CleanerRound ==
    /\ cleaner.at = "idle"
    /\ \E g \in 1..counter.generation : OfGeneration(g) # {}
    /\ cleaner' = [cleaner EXCEPT !.at = "round"]
    /\ counter' = IF \E b \in OfGeneration(counter.generation) : block[b].records # <<>>
                  THEN [counter EXCEPT !.generation = @ + 1] ELSE counter
    /\ UNCHANGED <<deviceVars, block, index, active, flushVars, dbEpoch, now, fault, tx, commitQueue>>

\* InspectTxGenerationLocal: a closed generation without leases is sealed.
CleanerSeal(g) ==
    /\ cleaner.at = "round"
    /\ g < counter.generation /\ OfGeneration(g) # {} /\ Leases(g) = {}
    /\ cleaner' = [cleaner EXCEPT
          !.at = "sealing", !.generation = g,
          !.committed = {r.header.tx : r \in {block[b].records[i] : <<b, i>> \in
              {p \in OfGeneration(g) \X (1..BlockRecords) :
                 p[2] \in DOMAIN block[p[1]].records /\
                 block[p[1]].records[p[2]].header.kind = "commit"}}}]
    /\ active' = [active EXCEPT ![g] = None]
    /\ flushQueue' = IF active[g] # None /\ Len(block[active[g]].records) > block[active[g]].durable
                     THEN Requested(active[g]) ELSE flushQueue
    /\ UNCHANGED <<deviceVars, block, index, counter, flushing, settling, dbEpoch, now, fault,
                   tx, commitQueue>>

\* Every closed generation has a lease: the round ends.
CleanerSkip ==
    /\ cleaner.at = "round"
    /\ \A g \in 1..(counter.generation - 1) : OfGeneration(g) # {} => Leases(g) # {}
    /\ cleaner' = CleanerIdle
    /\ UNCHANGED <<storeVars, tx, commitQueue>>

CleanerSealed ==
    /\ cleaner.at = "sealing" /\ SealedAndDurable(cleaner.generation)
    /\ cleaner' = [cleaner EXCEPT
          !.at = "promote", !.todo = {b \in OfGeneration(cleaner.generation) : block[b].tagged > 0}]
    /\ UNCHANGED <<storeVars, tx, commitQueue>>

\* PromoteTxGenerationLocal: block by block, what SalvageBlockRecords relocates.
PromoteBlock(b) ==
    /\ cleaner.at = "promote" /\ cleaner.b = None /\ b \in cleaner.todo
    /\ cleaner' = [cleaner EXCEPT !.b = b, !.place = 1, !.todo = @ \ {b}]
    /\ UNCHANGED <<storeVars, tx, commitQueue>>

Promotable(b, place) ==
    LET r == block[b].records[place].header
    IN  /\ r.kind # "commit" /\ r.tx \in cleaner.committed
        /\ dbEpoch[DbOf[r.key]] = r.epoch
        /\ Names(index[r.key], b, place)

Promoting == cleaner.at = "promote" /\ cleaner.b # None

PromoteMore == block[cleaner.b].live > 0 /\ cleaner.place <= Len(block[cleaner.b].records)

PromoteRecord ==
    /\ Promoting /\ PromoteMore
    /\ IF Promotable(cleaner.b, cleaner.place)
       THEN Relocate(cleaner.b, cleaner.place)
       ELSE UNCHANGED storeVars
    /\ cleaner' = [cleaner EXCEPT !.place = @ + 1]
    /\ UNCHANGED <<tx, commitQueue>>

\* The fences owed for the block are taken out of its debt and awaited.
PromoteSalvaged ==
    /\ Promoting /\ ~PromoteMore
    /\ cleaner' = [cleaner EXCEPT !.at = "fences", !.fences = block[cleaner.b].debt]
    /\ block' = [block EXCEPT ![cleaner.b].debt = {}]
    /\ UNCHANGED <<deviceVars, index, active, counter, flushVars, dbEpoch, now, fault, tx, commitQueue>>

\* A relocation fails: the fences are taken out of the debt as well, and the
\* round ends without awaiting them.
PromoteFails ==
    /\ Promoting /\ PromoteMore /\ Promotable(cleaner.b, cleaner.place)
    /\ block' = [block EXCEPT ![cleaner.b].debt = {}]
    /\ cleaner' = CleanerIdle
    /\ UNCHANGED <<deviceVars, index, active, counter, flushVars, dbEpoch, now, fault, tx, commitQueue>>

PromoteDurable ==
    /\ cleaner.at = "fences" /\ \A f \in cleaner.fences : Durable(f)
    /\ cleaner' = [cleaner EXCEPT !.at = "promote", !.b = None, !.place = 0, !.fences = {}]
    /\ UNCHANGED <<storeVars, tx, commitQueue>>

\* Mutation of CanReclaimTxGeneration: tagged winners are not waited for.
ReclaimTagged(g) ==
    /\ Leases(g) = {} /\ SealedAndDurable(g)
    /\ \A b \in OfGeneration(g) : block[b].pins = 0

\* RetireTxGenerationLocal, or a generation that is not ready for it.
CanReclaimTxGeneration(g) ==
    /\ Leases(g) = {} /\ SealedAndDurable(g)
    /\ \A b \in OfGeneration(g) : block[b].tagged = 0 /\ block[b].pins = 0

CleanerRetire ==
    /\ cleaner.at = "promote" /\ cleaner.b = None /\ cleaner.todo = {}
    /\ CanReclaimTxGeneration(cleaner.generation)
    /\ LET released == OfGeneration(cleaner.generation)
       IN  /\ block' = [b \in Blocks |->
                 IF b \in released THEN [Cold EXCEPT !.state = "returning"] ELSE block[b]]
           /\ cleaner' = [cleaner EXCEPT !.at = "return", !.todo = released]
    /\ UNCHANGED <<deviceVars, index, active, counter, flushVars, dbEpoch, now, fault, tx, commitQueue>>

CleanerKeep ==
    /\ cleaner.at = "promote" /\ cleaner.b = None /\ cleaner.todo = {}
    /\ ~CanReclaimTxGeneration(cleaner.generation)
    /\ cleaner' = CleanerIdle
    /\ UNCHANGED <<storeVars, tx, commitQueue>>

CleanerReturn ==
    /\ cleaner.at = "return"
    /\ ReturnCold(cleaner.todo)
    /\ cleaner' = CleanerIdle
    /\ UNCHANGED <<dbRoot, index, active, counter, flushVars, dbEpoch, now, fault, tx, commitQueue>>

\* The commit record of t is durable: staged, and nothing of it is waiting in
\* memory for a flush.
Decided(t) ==
    /\ tx[t].state = "committed"
    /\ \A b \in Blocks : \A i \in (block[b].durable + 1)..Len(block[b].records) :
          ~(block[b].records[i].header.kind = "commit" /\ block[b].records[i].header.tx = t)

\* A transaction without a durable commit record is gone.
TxRestart ==
    /\ tx' = [t \in Txs |->
          IF tx[t].state = "new" \/ Decided(t) \/ t \in CommittedTxs THEN tx[t]
          ELSE [NewTx EXCEPT !.state = "aborted"]]
    /\ commitQueue' = <<>>
    /\ cleaner' = CleanerIdle
=============================================================================
