------------------------------ MODULE Reclaim ------------------------------
(***************************************************************************)
(* What frees space in the background (src/storage/engine/defrag.cpp,      *)
(* tomb_raider.cpp, flush_db.cpp, expire.cpp): the defragmenter of record  *)
(* blocks, the tomb raider that retires tombstones nothing on disk needs,  *)
(* FLUSHDB with the reclaim of the index it detaches, and expiration.      *)
(***************************************************************************)
EXTENDS TxWrites

VARIABLES
    defrag,   \* CleanBlockLocked of one block
    raider,   \* RunTombRaider
    flushDb,  \* FLUSHDB: the database being flushed and how far it is, or None
    detached, \* the records of detached indexes that are still to be retired
    sealDead  \* whether the reclaim of detached indexes has come to its last step

reclaimVars == <<defrag, raider, flushDb, detached, sealDead>>

DefragIdle == [at |-> "idle", b |-> None, place |-> 0, fences |-> {}]
RaiderIdle == [at |-> "idle", blocks |-> {}, claims |-> {}, tombs |-> {}]

ReclaimInit ==
    /\ defrag = DefragIdle
    /\ raider = RaiderIdle
    /\ flushDb = None
    /\ detached = {}
    /\ sealDead = FALSE

\* The gate of a database, which FLUSHDB closes, keeps the commands out.  The tomb
\* raider and the expiration take the lock of the key only, and go on.
Held(key) == Locked(key) \/ (flushDb # None /\ flushDb.db = DbOf[key])

-----------------------------------------------------------------------------
(* Defragmentation: CleanBlockLocked, SalvageBlockRecords and              *)
(* ReleaseEmptyBlock of one block at a time.                               *)

IsDefragCandidate(b) ==
    /\ block[b].state = "used" /\ block[b].stream = Ordinary
    /\ ~InMemory(b)
    /\ 2 * block[b].live <= Len(block[b].records)

DefragStart(b) ==
    /\ defrag.at = "idle"
    /\ IsDefragCandidate(b)
    /\ defrag' = [DefragIdle EXCEPT !.at = "salvage", !.b = b, !.place = 1]
    /\ UNCHANGED <<storeVars, txVars, raider, flushDb, detached, sealDead>>

SalvageMore == block[defrag.b].live > 0 /\ defrag.place <= Len(block[defrag.b].records)

Relocatable(b, place) ==
    LET r == block[b].records[place].header
    IN  dbEpoch[DbOf[r.key]] = r.epoch /\ Names(index[r.key], b, place)

SalvageRecord ==
    /\ defrag.at = "salvage" /\ SalvageMore
    /\ IF Relocatable(defrag.b, defrag.place)
       THEN Relocate(defrag.b, defrag.place)
       ELSE UNCHANGED storeVars
    /\ defrag' = [defrag EXCEPT !.place = @ + 1]
    /\ UNCHANGED <<txVars, raider, flushDb, detached, sealDead>>

\* A relocation fails: what the pass relocated so far stays owed.
SalvageFails ==
    /\ defrag.at = "salvage" /\ SalvageMore /\ Relocatable(defrag.b, defrag.place)
    /\ defrag' = DefragIdle
    /\ UNCHANGED <<storeVars, txVars, raider, flushDb, detached, sealDead>>

\* This pass's fences, and those owed by failed ones, are taken and awaited.
SalvageDone ==
    /\ defrag.at = "salvage" /\ ~SalvageMore
    /\ defrag' = [defrag EXCEPT !.at = "fences", !.fences = block[defrag.b].debt]
    /\ block' = [block EXCEPT ![defrag.b].debt = {}]
    /\ UNCHANGED <<deviceVars, index, active, counter, flushVars, dbEpoch, now, fault,
                   txVars, raider, flushDb, detached, sealDead>>

\* Mutation of DefragRelease: the relocated records are not awaited.
DefragReleaseEarly ==
    /\ defrag.at = "fences"
    /\ IF block[defrag.b].live = 0
       THEN /\ block' = [block EXCEPT ![defrag.b] = [Cold EXCEPT !.state = "returning"]]
            /\ defrag' = [defrag EXCEPT !.at = "return", !.fences = {}]
       ELSE UNCHANGED block /\ defrag' = DefragIdle
    /\ UNCHANGED <<deviceVars, index, active, counter, flushVars, dbEpoch, now, fault,
                   txVars, raider, flushDb, detached, sealDead>>

DefragRelease ==
    /\ defrag.at = "fences" /\ \A f \in defrag.fences : Durable(f)
    /\ IF block[defrag.b].live = 0
       THEN /\ block' = [block EXCEPT ![defrag.b] = [Cold EXCEPT !.state = "returning"]]
            /\ defrag' = [defrag EXCEPT !.at = "return", !.fences = {}]
       ELSE UNCHANGED block /\ defrag' = DefragIdle
    /\ UNCHANGED <<deviceVars, index, active, counter, flushVars, dbEpoch, now, fault,
                   txVars, raider, flushDb, detached, sealDead>>

DefragReturn ==
    /\ defrag.at = "return"
    /\ ReturnCold({defrag.b})
    /\ defrag' = DefragIdle
    /\ UNCHANGED <<dbRoot, index, active, counter, flushVars, dbEpoch, now, fault,
                   txVars, raider, flushDb, detached, sealDead>>

-----------------------------------------------------------------------------
(* The tomb raider. *)

\* TombMarkLocal: every tombstone and every shielding value is a candidate.
TombMark ==
    /\ raider.at = "idle"
    /\ index' = [k \in Keys |->
          IF index[k] # None /\ (index[k].record.kind = "tombstone" \/ index[k].shielding)
          THEN [index[k] EXCEPT !.unclaimed = TRUE] ELSE index[k]]
    /\ raider' = [raider EXCEPT !.at = "marked"]
    /\ UNCHANGED <<deviceVars, block, active, counter, flushVars, dbEpoch, now, fault,
                   txVars, defrag, flushDb, detached, sealDead>>

\* TombSweepLocal: the record blocks there are, then one block after the other.
TombSnapshot ==
    /\ raider.at = "marked"
    /\ raider' = [raider EXCEPT !.at = "sweep",
          !.blocks = {[b |-> b, epoch |-> block[b].epoch] : b \in
              {c \in Blocks : /\ block[c].state = "used" /\ block[c].stream = Ordinary
                              /\ block[c].records # <<>>}}]
    /\ UNCHANGED <<storeVars, txVars, defrag, flushDb, detached, sealDead>>

\* The values of a block that could still be alive claim their keys.
Claims(b) ==
    {[key |-> r.key, seq |-> r.seq] : r \in
        {h \in {block[b].records[i].header : i \in DOMAIN block[b].records} :
            h.kind # "commit" /\ Visible(h) /\ h.epoch = dbEpoch[DbOf[h.key]]}}

TombSweep(s) ==
    /\ raider.at = "sweep" /\ s \in raider.blocks
    /\ raider' = [raider EXCEPT
          !.blocks = @ \ {s},
          !.claims = IF block[s.b].state = "used" /\ block[s.b].epoch = s.epoch
                     THEN @ \cup Claims(s.b) ELSE @]
    /\ UNCHANGED <<storeVars, txVars, defrag, flushDb, detached, sealDead>>

\* TombClaimLocal, then the collection of TombReapLocal: a value nothing was
\* claimed under shields nothing any more, a tombstone may go.
Claimed(k) == \E c \in raider.claims : c.key = k /\ c.seq < index[k].record.seq

TombClaim ==
    /\ raider.at = "sweep" /\ raider.blocks = {}
    /\ index' = [k \in Keys |->
          CASE index[k] = None -> None
            [] index[k] # None /\ index[k].unclaimed /\ Claimed(k) ->
                 [index[k] EXCEPT !.unclaimed = FALSE]
            [] index[k] # None /\ index[k].unclaimed /\ ~Claimed(k)
                  /\ index[k].record.kind = "value" ->
                 [index[k] EXCEPT !.unclaimed = FALSE, !.shielding = FALSE]
            [] OTHER -> index[k]]
    /\ raider' = [RaiderIdle EXCEPT !.at = "reap",
          !.tombs = {k \in Keys : index[k] # None /\ index[k].unclaimed /\ ~Claimed(k)
                                  /\ index[k].record.kind = "tombstone"}]
    /\ UNCHANGED <<deviceVars, block, active, counter, flushVars, dbEpoch, now, fault,
                   txVars, defrag, flushDb, detached, sealDead>>

\* Mutation of TombReap: the candidate is not looked at again under the lock.
TombReapBlind(k) ==
    /\ raider.at = "reap" /\ k \in raider.tombs /\ ~Locked(k)
    /\ raider' = [raider EXCEPT !.tombs = @ \ {k}]
    /\ IF index[k] # None
       THEN /\ index' = [index EXCEPT ![k] = None]
            /\ Retire(Retired(index[k]))
       ELSE UNCHANGED <<index, block, fault>>
    /\ UNCHANGED <<deviceVars, active, counter, flushVars, dbEpoch, now,
                   txVars, defrag, flushDb, detached, sealDead>>

\* TombReapLocal of one candidate, under the key's lock.
TombReap(k) ==
    /\ raider.at = "reap" /\ k \in raider.tombs /\ ~Locked(k)
    /\ raider' = [raider EXCEPT !.tombs = @ \ {k}]
    /\ IF index[k] # None /\ index[k].record.kind = "tombstone" /\ index[k].unclaimed
       THEN /\ index' = [index EXCEPT ![k] = None]
            /\ Retire(Retired(index[k]))
       ELSE UNCHANGED <<index, block, fault>>
    /\ UNCHANGED <<deviceVars, active, counter, flushVars, dbEpoch, now,
                   txVars, defrag, flushDb, detached, sealDead>>

TombDone ==
    /\ raider.at = "reap" /\ raider.tombs = {}
    /\ raider' = RaiderIdle
    /\ UNCHANGED <<storeVars, txVars, defrag, flushDb, detached, sealDead>>

-----------------------------------------------------------------------------
(* FLUSHDB: DetachDbEpoch, then ReclaimDetachedIndexes. *)

FlushDbPersist(db) ==
    /\ flushDb = None
    /\ \A k \in Keys : DbOf[k] = db => ~Locked(k)
    /\ dbRoot' = [dbRoot EXCEPT ![db] = @ + 1]
    /\ flushDb' = [db |-> db, at |-> "persisted"]
    /\ UNCHANGED <<disk, writerVars, flushVars, dbEpoch, now, fault,
                   txVars, defrag, raider, detached, sealDead>>

FlushDbPublish ==
    /\ flushDb # None /\ flushDb.at = "persisted"
    /\ dbEpoch' = [dbEpoch EXCEPT ![flushDb.db] = dbRoot[flushDb.db]]
    /\ flushDb' = [flushDb EXCEPT !.at = "published"]
    /\ UNCHANGED <<deviceVars, writerVars, flushVars, now, fault,
                   txVars, defrag, raider, detached, sealDead>>

\* DetachDbLocal.  An index without entries that still has its storage is detached
\* as well: its reclaim has nothing to retire.
FlushDbDetach ==
    /\ flushDb # None /\ flushDb.at = "published"
    /\ LET gone == {k \in Keys : DbOf[k] = flushDb.db /\ index[k] # None}
       IN  /\ index' = [k \in Keys |-> IF k \in gone THEN None ELSE index[k]]
           /\ detached' = detached \cup {Retired(index[k]) : k \in gone}
           /\ sealDead' \in {sealDead, sealDead \/ gone = {}}
    /\ counter' = [counter EXCEPT !.seq = @ + 1]
    /\ flushDb' = None
    /\ UNCHANGED <<deviceVars, block, active, flushVars, dbEpoch, now, fault,
                   txVars, defrag, raider>>

ReclaimDetached(r) ==
    /\ r \in detached
    /\ detached' = detached \ {r}
    /\ sealDead' = (detached' = {})
    /\ Retire(r)
    /\ UNCHANGED <<deviceVars, index, active, counter, flushVars, dbEpoch, now,
                   txVars, defrag, raider, flushDb>>

\* Its last step, under store_state_mutex_: an open block without a live record
\* is closed, and flushed if it has unflushed ones.
SealDeadActiveBlock ==
    LET b == active[Ordinary]
    IN  /\ sealDead /\ sealDead' = FALSE
        /\ IF b # None /\ block[b].live = 0
           THEN /\ active' = [active EXCEPT ![Ordinary] = None]
                /\ flushQueue' = IF Len(block[b].records) > block[b].durable
                                 THEN Requested(b) ELSE flushQueue
           ELSE UNCHANGED <<active, flushQueue>>
        /\ UNCHANGED <<deviceVars, block, index, counter, flushing, settling, dbEpoch, now, fault,
                       txVars, defrag, raider, flushDb, detached>>

-----------------------------------------------------------------------------
(* Expiration: ExpireCandidate. *)

\* AllocateBlock fails for a foreground append: nothing is free, and no flush and
\* no defragmentation is on its way to free anything.  What the cleaner of
\* transactions is about to return is not waited for.
NoForegroundSpace ==
    /\ active[Ordinary] = None /\ ~Allocatable(FALSE)
    /\ \A b \in Blocks : block[b].state \notin {"cold", "zeroed"}
    /\ defrag.at = "idle" /\ \A b \in Blocks : ~IsDefragCandidate(b)
    /\ flushQueue = <<>> /\ flushing = None

ExpireDurable(k) ==
    /\ index[k] # None /\ Expired(index[k].record) /\ ~Locked(k)
    /\ AppendOrdinary(k, "tombstone", 0)
    /\ UNCHANGED <<txVars, reclaimVars>>

ExpireInMemory(k) ==
    /\ index[k] # None /\ Expired(index[k].record) /\ ~Locked(k)
    /\ NoForegroundSpace /\ ~index[k].shielding
    /\ index' = [index EXCEPT ![k] = None]
    /\ counter' = [counter EXCEPT !.seq = @ + 1]
    /\ Retire(Retired(index[k]))
    /\ UNCHANGED <<deviceVars, active, flushVars, dbEpoch, now, txVars, reclaimVars>>

Tick ==
    /\ now' = now + 1
    /\ UNCHANGED <<deviceVars, writerVars, flushVars, dbEpoch, fault, txVars, reclaimVars>>

ReclaimRestart ==
    /\ defrag' = DefragIdle
    /\ raider' = RaiderIdle
    /\ flushDb' = None
    /\ detached' = {}
    /\ sealDead' = FALSE
=============================================================================
