----------------------------- MODULE MCTxShard ------------------------------
(***************************************************************************)
(* The two data structures of a shard (include/lavik/tx/tx_shard.h), its   *)
(* lock table and its queue, side by side: TxShard calls one or the other, *)
(* in any order as far as they are concerned.                              *)
(*                                                                         *)
(* Lock table: five owners over two fingerprints, two readers and a writer *)
(* of the first, and a reader and a writer of both, so that every counter  *)
(* reaches two and the erase of one entry leaves the other.  Queue: three  *)
(* txids and five slots, so that tombstones stand at both ends, between    *)
(* entries and next to each other while two entries stay live.             *)
(***************************************************************************)
EXTENDS LockTable, TxQueue, TLC

CONSTANTS r1, r2, w1, w2, ra, k1, k2

MCOwners == {r1, r2, w1, w2, ra}

MCFps == {k1, k2}

MCWants ==
    (r1 :> (k1 :> "shared")) @@ (r2 :> (k1 :> "shared")) @@ (w1 :> (k1 :> "exclusive"))
    @@ (w2 :> (k1 :> "exclusive" @@ k2 :> "exclusive"))
    @@ (ra :> (k1 :> "shared" @@ k2 :> "shared"))

ShardInit == Init /\ QueueInit

ShardNext ==
    \/ Next /\ UNCHANGED queueVars
    \/ QueueNext /\ UNCHANGED vars

ShardSpec == ShardInit /\ [][ShardNext]_<<vars, queueVars>>
=============================================================================
