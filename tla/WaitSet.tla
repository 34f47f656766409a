------------------------------ MODULE WaitSet -------------------------------
(***************************************************************************)
(* What the transaction queue of a shard promises: a set of txids of which *)
(* the scheduler can see the least and the greatest.  TxScheduler uses the *)
(* queue in this form; TxQueue implements it.                              *)
(***************************************************************************)
EXTENDS Naturals

CONSTANT MaxTxid

VARIABLES waiting, seen

waitVars == <<waiting, seen>>

\* The least txid of a set, or 0 for nullptr.
Least(S) == IF S = {} THEN 0 ELSE CHOOSE t \in S : \A u \in S : t <= u

Greatest(S) == IF S = {} THEN 0 ELSE CHOOSE t \in S : \A u \in S : u <= t

WaitInit == waiting = {} /\ seen = 0

WaitInsert(t) == t \notin waiting /\ waiting' = waiting \cup {t} /\ UNCHANGED seen

WaitRemove(t) == t \in waiting /\ waiting' = waiting \ {t} /\ UNCHANGED seen

WaitFront == seen' = Least(waiting) /\ UNCHANGED waiting

WaitPop == waiting # {} /\ waiting' = waiting \ {Least(waiting)} /\ seen' = Least(waiting)

WaitTail == seen' = Greatest(waiting) /\ UNCHANGED waiting

WaitNext ==
    \/ \E t \in 1..MaxTxid : WaitInsert(t) \/ WaitRemove(t)
    \/ WaitFront
    \/ WaitPop
    \/ WaitTail

WaitSpec == WaitInit /\ [][WaitNext]_waitVars

=============================================================================
