----------------------------- MODULE MCStorage -----------------------------
(***************************************************************************)
(* Storage for TLC: two keys in two databases, two transactions, and a set *)
(* of budgets per question.  A budget says which of the bounded things may *)
(* happen, and how often; everything else runs freely.                     *)
(***************************************************************************)
EXTENDS Storage, TLC

CONSTANTS k1, k2, d1, d2, t1, t2

MCDbOf == (k1 :> d1) @@ (k2 :> d2)

\* The keys are interchangeable together with their databases.
Symmetry ==
    {p @@ q : p \in {(k1 :> k1) @@ (k2 :> k2) @@ (d1 :> d1) @@ (d2 :> d2),
                     (k1 :> k2) @@ (k2 :> k1) @@ (d1 :> d2) @@ (d2 :> d1)},
              q \in Permutations({t1, t2})}

DefragBudgets ==
    {("set" :> 3) @@ ("del" :> 1) @@ ("defrag" :> 2) @@ ("crash" :> 1),
     ("set" :> 4) @@ ("defrag" :> 2) @@ ("failure" :> 1)}

\* The tomb raider without transactions: see ReapBudgets.
RaiderBudgets ==
    {("set" :> 2) @@ ("del" :> 1) @@ ("raid" :> 1) @@ ("defrag" :> 1),
     ("set" :> 2) @@ ("del" :> 1) @@ ("raid" :> 1) @@ ("crash" :> 1)}

TxBudgets ==
    {("tx" :> 2) @@ ("crash" :> 1),
     ("tx" :> 2) @@ ("abort" :> 1),
     ("set" :> 1) @@ ("tx" :> 1) @@ ("abort" :> 1) @@ ("crash" :> 1)}

\* The cleaner; its failed rounds without FLUSHDB: see PromoteBudgets.
CleanerBudgets ==
    {("tx" :> 2) @@ ("round" :> 1),
     ("set" :> 1) @@ ("tx" :> 1) @@ ("round" :> 1) @@ ("crash" :> 1),
     ("set" :> 1) @@ ("tx" :> 1) @@ ("round" :> 2) @@ ("failure" :> 1),
     ("set" :> 1) @@ ("tx" :> 1) @@ ("round" :> 1) @@ ("abort" :> 1) @@ ("defrag" :> 1)}

FlushDbBudgets ==
    {("set" :> 1) @@ ("tx" :> 1) @@ ("flushdb" :> 1) @@ ("crash" :> 1),
     ("set" :> 1) @@ ("tx" :> 1) @@ ("flushdb" :> 1) @@ ("round" :> 1),
     ("set" :> 3) @@ ("flushdb" :> 1) @@ ("defrag" :> 1) @@ ("crash" :> 1),
     ("set" :> 1) @@ ("del" :> 1) @@ ("raid" :> 1) @@ ("flushdb" :> 1) @@ ("crash" :> 1),
     ("set" :> 1) @@ ("setex" :> 1) @@ ("tick" :> 1) @@ ("flushdb" :> 1) @@ ("crash" :> 1)}

\* The last of these fills the device.
ExpireBudgets ==
    {("set" :> 1) @@ ("setex" :> 1) @@ ("tick" :> 2) @@ ("defrag" :> 1) @@ ("crash" :> 1),
     ("set" :> 1) @@ ("setex" :> 1) @@ ("tick" :> 2) @@ ("raid" :> 1),
     ("set" :> 5) @@ ("setex" :> 1) @@ ("tick" :> 1)}

SafeBudgets ==
    DefragBudgets \cup RaiderBudgets \cup TxBudgets \cup CleanerBudgets \cup FlushDbBudgets
    \cup ExpireBudgets

\* A committed value is deleted, and the tomb raider looks at the tombstone.
ReapBudgets == {("set" :> 1) @@ ("del" :> 1) @@ ("tx" :> 1) @@ ("raid" :> 1)}

\* A promotion fails half way, and FLUSHDB retires what it left behind.
PromoteBudgets == {("tx" :> 1) @@ ("round" :> 2) @@ ("failure" :> 1) @@ ("flushdb" :> 1)}
=============================================================================
