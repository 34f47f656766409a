---------------------------- MODULE BlockStore -----------------------------
(***************************************************************************)
(* The log-structured block store under the key index                      *)
(* (src/storage/engine: alloc.cpp, write.cpp, flush.cpp, recovery.cpp,     *)
(* init.cpp): what is on the device, what one worker keeps in memory about *)
(* it, how a record is appended and flushed, how the version it replaces   *)
(* is retired, and what a restart makes of the device.                     *)
(*                                                                         *)
(* One worker, one device and one partition.  A record takes one of the    *)
(* BlockRecords places of a block.  A step is the code from one await to   *)
(* the next: what is done under store_state_mutex_ without suspension.     *)
(***************************************************************************)
EXTENDS Naturals, Sequences, FiniteSets, FiniteSetsExt

CONSTANTS
    Keys, Dbs, DbOf,   \* the keys, the databases, and the database of each key
    Txs,               \* transactions, each run once
    Blocks,            \* the blocks of the device, numbered
    BlockRecords,      \* records that fit in a block
    DefragReserve,     \* blocks that foreground allocation may not take
    MaxGeneration,     \* bound on the transaction generations
    NoTx, None

ASSUME StoreAssumption ==
    /\ DbOf \in [Keys -> Dbs]
    /\ Blocks \subseteq Nat
    /\ BlockRecords \in Nat \ {0} /\ DefragReserve \in Nat /\ MaxGeneration \in Nat
    /\ NoTx \notin Txs

VARIABLES
    disk,       \* what the device holds: allocation bit, header and records of a block
    dbRoot,     \* the durable epoch of each database
    block,      \* BlockState and TxBlockRuntime of each block
    index,      \* the location each key's index entry names, or None
    active,     \* the block open for appends in each stream, or None
    counter,    \* mutation_sequence_, next_lsn_, next_allocation_epoch_, current_tx_generation_
    dbEpoch,    \* db_epochs_
    flushQueue, \* flush_queue_
    flushing,   \* the block the flush runner is writing, or None
    settling,   \* retirements handed to MarkRetiredRecordsDead
    now,        \* the wall clock
    fault       \* a retirement found no record to retire: LatchRuntimeFailure

deviceVars == <<disk, dbRoot>>
writerVars == <<block, index, active, counter>>
flushVars == <<flushQueue, flushing, settling>>
storeVars == <<deviceVars, writerVars, flushVars, dbEpoch, now, fault>>

-----------------------------------------------------------------------------
(* Stream 0 takes ordinary records; stream g > 0 the tagged records and    *)
(* the commit records of transaction generation g.                         *)

Ordinary == 0
Streams == Ordinary..MaxGeneration

\* A record header: a version of a key, or the commit record of a transaction.
Record(key, kind, expires, tx, seq, lsn, epoch) ==
    [key |-> key, kind |-> kind, expires |-> expires, tx |-> tx,
     seq |-> seq, lsn |-> lsn, epoch |-> epoch]

Cold == [state |-> "cold", epoch |-> 0, stream |-> Ordinary, records |-> <<>>,
         durable |-> 0, live |-> 0, tagged |-> 0, pins |-> 0, debt |-> {}]

Ready == {b \in Blocks : block[b].state = "ready"}

IsTagged(r) == r.tx # NoTx /\ r.kind # "commit"

Expired(r) == r.kind = "value" /\ r.expires # 0 /\ r.expires <= now

\* A version that a reader would be given.
Visible(r) == r.kind = "value" /\ ~Expired(r)

\* The record an index entry names, as a retirement names it.
Retired(e) == [b |-> e.b, epoch |-> e.epoch, place |-> e.place,
               tagged |-> IsTagged(e.record), pinned |-> FALSE]

Names(e, b, place) ==
    e # None /\ e.b = b /\ e.epoch = block[b].epoch /\ e.place = place

-----------------------------------------------------------------------------
(* Retirement. *)

Owns(blocks, r) ==
    /\ blocks[r.b].state = "used" /\ blocks[r.b].epoch = r.epoch
    /\ blocks[r.b].live > 0

MarkRecordDead(blocks, r) ==
    [blocks EXCEPT ![r.b].live = @ - 1,
                   ![r.b].tagged = IF r.tagged THEN @ - 1 ELSE @,
                   ![r.b].pins = IF r.pinned THEN @ - 1 ELSE @]

\* A retirement that finds its record retires it; one that does not latches a
\* runtime failure.
Retire(r) ==
    /\ block' = IF Owns(block, r) THEN MarkRecordDead(block, r) ELSE block
    /\ fault' = (fault \/ ~Owns(block, r))

\* MarkRetiredRecordsDead, one record of the batch.
Settle(r) ==
    /\ r \in settling
    /\ settling' = settling \ {r}
    /\ Retire(r)
    /\ UNCHANGED <<deviceVars, index, active, counter, flushQueue, flushing, dbEpoch, now>>

-----------------------------------------------------------------------------
(* Allocation.  Blocks are interchangeable: the least of the ready ones is *)
(* handed out.                                                             *)

Allocatable(forDefrag) == Cardinality(Ready) > IF forDefrag THEN 0 ELSE DefragReserve

HasRoom(stream, forDefrag) == active[stream] # None \/ Allocatable(forDefrag)

\* The block that takes the next record of a stream, allocated if none is open.
Target(stream) == IF active[stream] # None THEN active[stream] ELSE Min(Ready)

OpenFor(stream) ==
    IF active[stream] # None
    THEN block
    ELSE [block EXCEPT ![Min(Ready)] =
             [Cold EXCEPT !.state = "used", !.epoch = counter.epoch, !.stream = stream]]

\* RefillReadyBlocksLocal: the stale header of a returned block is zeroed, and
\* that is durable, before its allocation bit is set.
RefillZero(b) ==
    /\ block[b].state = "cold"
    /\ block' = [block EXCEPT ![b].state = "zeroed"]
    /\ disk' = [disk EXCEPT ![b].records = <<>>]
    /\ UNCHANGED <<dbRoot, index, active, counter, flushVars, dbEpoch, now, fault>>

RefillBit(b) ==
    /\ block[b].state = "zeroed"
    /\ block' = [block EXCEPT ![b].state = "ready"]
    /\ disk' = [disk EXCEPT ![b].bit = TRUE]
    /\ UNCHANGED <<dbRoot, index, active, counter, flushVars, dbEpoch, now, fault>>

\* ReturnColdBlocks: the allocation bits of released blocks are cleared.
ReturnCold(bs) ==
    /\ block' = [b \in Blocks |-> IF b \in bs THEN Cold ELSE block[b]]
    /\ disk' = [b \in Blocks |-> IF b \in bs THEN [disk[b] EXCEPT !.bit = FALSE] ELSE disk[b]]

-----------------------------------------------------------------------------
(* WriteRecordLocked. *)

\* The blocks once a record is staged in a stream; what it retires when it is
\* flushed stays with the staged record.
Staged(stream, record, retires) ==
    [OpenFor(stream) EXCEPT ![Target(stream)] = [@ EXCEPT
        !.records = Append(@, [header |-> record, retires |-> retires]),
        !.live = @ + 1,
        !.tagged = IF IsTagged(record) THEN @ + 1 ELSE @]]

\* Where it is staged.
Fence(stream) ==
    IF active[stream] # None
    THEN [b |-> active[stream], epoch |-> block[active[stream]].epoch,
          place |-> Len(block[active[stream]].records) + 1]
    ELSE [b |-> Min(Ready), epoch |-> counter.epoch, place |-> 1]

\* RequestFlush of a block with unflushed records: the flush queue after it.
Requested(b) ==
    IF \/ \E i \in DOMAIN flushQueue : flushQueue[i] = b
       \/ flushing # None /\ flushing.b = b
    THEN flushQueue ELSE Append(flushQueue, b)

\* Mutation of Close: a full block is noticed one record late.
CloseLate(stream) ==
    IF Fence(stream).place <= BlockRecords
    THEN /\ active' = [active EXCEPT ![stream] = Target(stream)]
         /\ UNCHANGED flushQueue
    ELSE /\ active' = [active EXCEPT ![stream] = None]
         /\ flushQueue' = Requested(Target(stream))

\* A full block is closed and its flush requested.
Close(stream) ==
    IF Fence(stream).place < BlockRecords
    THEN /\ active' = [active EXCEPT ![stream] = Target(stream)]
         /\ UNCHANGED flushQueue
    ELSE /\ active' = [active EXCEPT ![stream] = None]
         /\ flushQueue' = Requested(Target(stream))

\* The counters after an append; a relocation keeps its version's sequence.
Counted(stream, newVersion) ==
    [counter EXCEPT !.lsn = @ + 1,
                    !.seq = IF newVersion THEN @ + 1 ELSE @,
                    !.epoch = IF active[stream] = None THEN @ + 1 ELSE @]

\* Whether the entry that replaces e hides an older version that could outlive it.
Shields(e, expires) ==
    /\ e # None
    /\ \/ e.shielding
       \/ /\ e.record.kind = "value"
          /\ \/ e.record.expires = 0
             \/ e.record.expires > Max({expires, now})

Entry(stream, record, shielding) ==
    LET at == Fence(stream)
    IN  [b |-> at.b, epoch |-> at.epoch, place |-> at.place, record |-> record,
         shielding |-> shielding, unclaimed |-> FALSE]

NewVersion(key, kind, expires, tx) ==
    Record(key, kind, expires, tx, counter.seq + 1, counter.lsn, dbEpoch[DbOf[key]])

\* AppendLocked of an ordinary record: the version it replaces stays charged to
\* its block until this record is durable.
AppendOrdinary(key, kind, expires) ==
    LET record == NewVersion(key, kind, expires, NoTx)
        retires == IF index[key] = None THEN {} ELSE {Retired(index[key])}
    IN  /\ HasRoom(Ordinary, FALSE)
        /\ block' = Staged(Ordinary, record, retires)
        /\ index' = [index EXCEPT
              ![key] = Entry(Ordinary, record, Shields(index[key], expires))]
        /\ counter' = Counted(Ordinary, TRUE)
        /\ Close(Ordinary)
        /\ UNCHANGED <<deviceVars, flushing, settling, dbEpoch, now, fault>>

\* RelocateIfCurrent of the record at a place of a block: the same version, with a
\* new LSN and the database epoch of its source, in the ordinary stream.
Relocate(source, place) ==
    LET old == block[source].records[place].header
        record == [old EXCEPT !.tx = NoTx, !.lsn = counter.lsn]
        debt == [Staged(Ordinary, record, {}) EXCEPT ![source].debt = @ \cup {Fence(Ordinary)}]
    IN  /\ HasRoom(Ordinary, TRUE)
        /\ block' = MarkRecordDead(debt, Retired(index[old.key]))
        /\ index' = [index EXCEPT
              ![old.key] = Entry(Ordinary, record, index[old.key].shielding)]
        /\ counter' = Counted(Ordinary, FALSE)
        /\ Close(Ordinary)
        /\ UNCHANGED <<deviceVars, flushing, settling, dbEpoch, now, fault>>

-----------------------------------------------------------------------------
(* Flush: FlushPendingBlocks.  The records are written and synchronised    *)
(* before the header that covers them, and are nothing without it.         *)

InMemory(b) ==
    \/ \E s \in Streams : active[s] = b
    \/ Len(block[b].records) > block[b].durable
    \/ flushing # None /\ flushing.b = b

\* PeriodicFlush, or a waiter on a fence, asks for the flush of an open block.
PeriodicFlush(stream) ==
    LET b == active[stream]
    IN  /\ b # None
        /\ Len(block[b].records) > block[b].durable
        /\ Requested(b) # flushQueue
        /\ flushQueue' = Requested(b)
        /\ UNCHANGED <<deviceVars, writerVars, flushing, settling, dbEpoch, now, fault>>

FlushStart ==
    /\ flushing = None
    /\ flushQueue # <<>>
    /\ LET b == Head(flushQueue)
       IN  flushing' = [b |-> b, upTo |-> Len(block[b].records), written |-> FALSE]
    /\ flushQueue' = Tail(flushQueue)
    /\ UNCHANGED <<deviceVars, writerVars, settling, dbEpoch, now, fault>>

Headers(b, upTo) == [i \in 1..upTo |-> block[b].records[i].header]

FlushHeader ==
    /\ flushing # None /\ ~flushing.written
    /\ disk' = [disk EXCEPT ![flushing.b] =
          [bit |-> @.bit, epoch |-> block[flushing.b].epoch,
           stream |-> block[flushing.b].stream, records |-> Headers(flushing.b, flushing.upTo)]]
    /\ flushing' = [flushing EXCEPT !.written = TRUE]
    /\ UNCHANGED <<dbRoot, writerVars, flushQueue, settling, dbEpoch, now, fault>>

\* Mutation of FlushDone: the retirements of the unflushed tail go with the others.
FlushDoneTail ==
    /\ flushing # None /\ flushing.written
    /\ LET b == flushing.b
           flushed == (block[b].durable + 1)..flushing.upTo
           tail == (block[b].durable + 1)..Len(block[b].records)
           closed == \A s \in Streams : active[s] # b
       IN  /\ settling' = settling \cup UNION {block[b].records[i].retires : i \in tail}
           /\ block' = [block EXCEPT
                 ![b].durable = flushing.upTo,
                 ![b].records = [i \in DOMAIN @ |->
                    IF i \in flushed THEN [@[i] EXCEPT !.retires = {}] ELSE @[i]]]
           /\ flushQueue' = IF closed /\ flushing.upTo < Len(block[b].records)
                            THEN <<b>> \o flushQueue ELSE flushQueue
    /\ flushing' = None
    /\ UNCHANGED <<deviceVars, index, active, counter, dbEpoch, now, fault>>

\* The retirements that the flushed records carry are released, and a closed
\* block with a tail is flushed again first.
FlushDone ==
    /\ flushing # None /\ flushing.written
    /\ LET b == flushing.b
           flushed == (block[b].durable + 1)..flushing.upTo
           closed == \A s \in Streams : active[s] # b
       IN  /\ settling' = settling \cup UNION {block[b].records[i].retires : i \in flushed}
           /\ block' = [block EXCEPT
                 ![b].durable = flushing.upTo,
                 ![b].records = [i \in DOMAIN @ |->
                    IF i \in flushed THEN [@[i] EXCEPT !.retires = {}] ELSE @[i]]]
           /\ flushQueue' = IF closed /\ flushing.upTo < Len(block[b].records)
                            THEN <<b>> \o flushQueue ELSE flushQueue
    /\ flushing' = None
    /\ UNCHANGED <<deviceVars, index, active, counter, dbEpoch, now, fault>>

\* AwaitRelocationDurable: a block that was released is durable elsewhere.
Durable(fence) ==
    \/ block[fence.b].state # "used"
    \/ block[fence.b].epoch # fence.epoch
    \/ block[fence.b].durable >= fence.place

-----------------------------------------------------------------------------
(* Recovery: ScanAssignedBlocks, ApplyRecovery and ApplyRecoveredRecord    *)
(* over what the device holds.                                             *)

Scanned == {b \in Blocks : disk[b].bit /\ disk[b].records # <<>>}

OnDisk == {<<b, i>> \in Scanned \X (1..BlockRecords) : i \in DOMAIN disk[b].records}

At(place) == disk[place[1]].records[place[2]]

CommittedTxs == {At(p).tx : p \in {q \in OnDisk : At(q).kind = "commit"}}

\* Mutation of Candidates: tagged records are taken without their commit record.
CandidatesUndecided ==
    {p \in OnDisk : At(p).kind # "commit" /\ At(p).epoch = dbRoot[DbOf[At(p).key]]}

\* The places of the versions that recovery considers.
Candidates ==
    LET committed == CommittedTxs
    IN  {p \in OnDisk : /\ At(p).kind # "commit"
                        /\ At(p).epoch = dbRoot[DbOf[At(p).key]]
                        /\ At(p).tx = NoTx \/ At(p).tx \in committed}

Newer(p, q) ==
    \/ At(p).seq > At(q).seq
    \/ At(p).seq = At(q).seq /\ At(p).lsn >= At(q).lsn

\* The place that wins for each key, or None.
Winners ==
    LET candidates == Candidates
    IN  [key \in Keys |->
            LET mine == {p \in candidates : At(p).key = key}
            IN  IF mine = {} THEN None
                ELSE CHOOSE p \in mine : \A q \in mine : Newer(p, q)]

\* The index entry of a winner, which shields what outlives it.
RecoveredEntry(p) ==
    LET hidden == {q \in Candidates :
            /\ At(q).key = At(p).key /\ At(q).kind = "value" /\ At(q).seq < At(p).seq
            /\ At(q).expires = 0 \/ At(q).expires > Max({At(p).expires, now})}
    IN  IF p = None THEN None
        ELSE [b |-> p[1], epoch |-> disk[p[1]].epoch, place |-> p[2], record |-> At(p),
              shielding |-> hidden # {}, unclaimed |-> FALSE]

\* A block of the device, given the places that won.
RecoveredBlock(b, won) ==
    LET mine == {p \in won : p[1] = b}
        commits == {i \in DOMAIN disk[b].records : disk[b].records[i].kind = "commit"}
    IN  CASE ~disk[b].bit -> Cold
          [] disk[b].bit /\ disk[b].records = <<>> -> [Cold EXCEPT !.state = "ready"]
          [] OTHER ->
               [Cold EXCEPT
                  !.state = "used", !.epoch = disk[b].epoch, !.stream = disk[b].stream,
                  !.records = [i \in DOMAIN disk[b].records |->
                                 [header |-> disk[b].records[i], retires |-> {}]],
                  !.durable = Len(disk[b].records),
                  !.live = Cardinality(mine) + Cardinality(commits),
                  !.tagged = Cardinality({p \in mine : IsTagged(At(p))})]

Restart ==
    /\ LET winner == Winners
       IN  /\ block' = [b \in Blocks |->
                 RecoveredBlock(b, {winner[k] : k \in Keys} \ {None})]
           /\ index' = [k \in Keys |-> RecoveredEntry(winner[k])]
    /\ active' = [s \in Streams |-> None]
    /\ counter' =
         [seq |-> Max({0} \cup {At(p).seq : p \in Candidates}),
          lsn |-> Max({0} \cup {At(p).lsn : p \in OnDisk}) + 1,
          epoch |-> Max({0} \cup {disk[b].epoch : b \in Scanned}) + 1,
          generation |-> Max({0} \cup {disk[b].stream : b \in Scanned}) + 1]
    /\ dbEpoch' = dbRoot
    /\ flushQueue' = <<>> /\ flushing' = None /\ settling' = {}
    /\ UNCHANGED <<deviceVars, now, fault>>

StoreInit ==
    /\ disk = [b \in Blocks |-> [bit |-> TRUE, epoch |-> 0, stream |-> Ordinary, records |-> <<>>]]
    /\ dbRoot = [d \in Dbs |-> 1]
    /\ block = [b \in Blocks |-> [Cold EXCEPT !.state = "ready"]]
    /\ index = [k \in Keys |-> None]
    /\ active = [s \in Streams |-> None]
    /\ counter = [seq |-> 0, lsn |-> 1, epoch |-> 1, generation |-> 1]
    /\ dbEpoch = dbRoot
    /\ flushQueue = <<>> /\ flushing = None /\ settling = {}
    /\ now = 0 /\ fault = FALSE
=============================================================================
