------------------------------ MODULE TxQueue -------------------------------
(***************************************************************************)
(* The per-shard transaction queue of include/lavik/tx/tx_queue.h: a deque *)
(* kept in txid order in which a removal from the middle leaves a          *)
(* tombstone.  Front drops leading tombstones; Insert and TailTxid scan    *)
(* from the back and must look through the ones they meet.                 *)
(***************************************************************************)
EXTENDS Integers, Sequences

CONSTANTS
    MaxTxid,    \* bound: the txids that are drawn
    MaxLength   \* bound: deque slots, tombstones included

ASSUME BoundsAssumption == MaxTxid \in Nat /\ MaxLength \in Nat

VARIABLES
    deque,      \* queue_, a txid for a waiter and Tombstone for nullptr
    seen        \* the last answer of Front or TailTxid, 0 for none

queueVars == <<deque, seen>>

Tombstone == 0

Live(q) == {i \in DOMAIN q : q[i] # Tombstone}

Txids(q) == {q[i] : i \in Live(q)}

-----------------------------------------------------------------------------

\* Mutation of Smaller: the scan stops at a tombstone.
SmallerOrTombstone(q, t) == {i \in DOMAIN q : q[i] < t}

\* Where the backward scan of Insert may stop.
Smaller(q, t) == {i \in Live(q) : q[i] < t}

\* The slot before the insertion point, 0 when the scan reaches the front.
LastSmaller(q, t) ==
    IF Smaller(q, t) = {} THEN 0
    ELSE CHOOSE i \in Smaller(q, t) : \A j \in Smaller(q, t) : j <= i

InsertAfter(q, i, t) == SubSeq(q, 1, i) \o <<t>> \o SubSeq(q, i + 1, Len(q))

\* The queue without its leading tombstones.
Trimmed(q) ==
    IF Live(q) = {} THEN <<>>
    ELSE LET first == CHOOSE i \in Live(q) : \A j \in Live(q) : i <= j
         IN  SubSeq(q, first, Len(q))

\* Mutation of TailTxid: the last slot is taken for the last entry.
LastSlot(q) == IF q = <<>> THEN 0 ELSE q[Len(q)]

TailTxid(q) ==
    IF Live(q) = {} THEN 0
    ELSE q[CHOOSE i \in Live(q) : \A j \in Live(q) : j <= i]

QueueInit == deque = <<>> /\ seen = 0

\* Any txid that is not queued: multi-shard scheduling may insert late.
Insert(t) ==
    /\ t \notin Txids(deque)
    /\ Len(deque) < MaxLength
    /\ deque' = InsertAfter(deque, LastSmaller(deque, t), t)
    /\ UNCHANGED seen

\* Cancellation and release: tombstone the waiter wherever it sits.
Remove(t) ==
    \E i \in Live(deque) :
        /\ deque[i] = t
        /\ deque' = [deque EXCEPT ![i] = Tombstone]
        /\ UNCHANGED seen

Front ==
    /\ deque' = Trimmed(deque)
    /\ seen' = IF deque' = <<>> THEN 0 ELSE deque'[1]

\* Poll's plain head: Front, then PopFront.
PopFront ==
    /\ Trimmed(deque) # <<>>
    /\ deque' = Tail(Trimmed(deque))
    /\ seen' = Trimmed(deque)[1]

\* The reordering rule of ScheduleInShard asks for the tail.
ReadTail == seen' = TailTxid(deque) /\ UNCHANGED deque

QueueNext ==
    \/ \E t \in 1..MaxTxid : Insert(t) \/ Remove(t)
    \/ Front
    \/ PopFront
    \/ ReadTail

QueueSpec == QueueInit /\ [][QueueNext]_queueVars

-----------------------------------------------------------------------------
(* Properties.                                                             *)

\* Slots hold txids or tombstones.
QueueTypeOK == deque \in Seq(0..MaxTxid) /\ Len(deque) <= MaxLength /\ seen \in 0..MaxTxid

\* The live entries are strictly ascending, whatever tombstones lie between
\* them: the order that Poll, Front and TailTxid rely on.
LiveSorted == \A i, j \in Live(deque) : i < j => deque[i] < deque[j]

Waiters == INSTANCE WaitSet WITH waiting <- Txids(deque)

\* Tombstones never show: Front sees the least queued txid, TailTxid the
\* greatest, and no operation loses or invents a waiter.
ImplementsWaitSet == Waiters!WaitSpec

=============================================================================
