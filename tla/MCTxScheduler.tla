--------------------------- MODULE MCTxScheduler ---------------------------
(* Workloads for TxScheduler: two workers, one key on the first and two on *)
(* the second.                                                             *)
EXTENDS TxScheduler, TLC

CONSTANTS w1, w2, k1, k2, k3, t1, t2, t3, p1, p2

MCShards == {w1, w2}
MCKeys == {k1, k2, k3}
MCOwner == k1 :> w1 @@ k2 :> w2 @@ k3 :> w2

X(k) == <<k, "exclusive">>
S(k) == <<k, "shared">>

(* t1, t2, t3 span both workers (t3 names a key twice, in both modes); p1  *)
(* and p2 are single-shard.                                                *)
MixedUses == t1 :> {X(k1), X(k2)} @@ t2 :> {X(k1), X(k2)} @@ t3 :> {S(k1), X(k3), S(k3)}
             @@ p1 :> {X(k1)} @@ p2 :> {X(k2), S(k3)}
MixedOps == DOMAIN MixedUses
MixedHops == [o \in MixedOps |-> IF o = p2 THEN 2 ELSE 1]

\* t1 and t2 lock the same keys in the same modes.
Interchangeable == Permutations({t1, t2})

\* Two conflicting transactions, one of several hops, and a plain command.
HopUses == t1 :> {X(k1), X(k2)} @@ t2 :> {X(k1), S(k2)} @@ p1 :> {X(k1)}
HopOps == DOMAIN HopUses
HopHops == [o \in HopOps |-> IF o = t1 THEN 2 ELSE 1]
=============================================================================
