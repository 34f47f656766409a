------------------------------ MODULE LockTable -----------------------------
(***************************************************************************)
(* The intent/hold lock table of include/lavik/tx/intent_lock.h, driven by *)
(* the key-set operations of TxShard.  An entry exists only while some     *)
(* counter of it is positive; optimistic reads depend on that.             *)
(*                                                                         *)
(* A table belongs to one worker and its methods do not suspend, so each   *)
(* key-set operation is one step.  The databases' tables are one table     *)
(* here: a fingerprint stands for a (database, fingerprint) pair.          *)
(***************************************************************************)
EXTENDS Integers, FiniteSets

CONSTANTS
    Owners,     \* the acquisitions: transactions' shard entries and plain waiters
    Fps,        \* fingerprints
    Wants       \* Owners -> the owner's KeyRefs, a function from fingerprints to modes

LockModes == {"shared", "exclusive"}

ASSUME WantsAssumption ==
    /\ IsFiniteSet(Owners)
    /\ Wants \in [Owners -> UNION {[ks -> LockModes] : ks \in SUBSET Fps}]
    /\ \A o \in Owners : DOMAIN Wants[o] # {}

VARIABLES
    table,      \* LockTable::map_
    stage,      \* what the owner has acquired: "none", "intent" or "held"
    answer      \* the last answer of AcquireIntents, TryFastPath or CanHoldAll

vars == <<table, stage, answer>>

-----------------------------------------------------------------------------
(* IntentLock.                                                             *)

Counters == [sharedIntent : Nat, exclusiveIntent : Nat, sharedHeld : Nat, exclusiveHeld : Nat]

Free == [sharedIntent |-> 0, exclusiveIntent |-> 0, sharedHeld |-> 0, exclusiveHeld |-> 0]

\* Mutation of IsFree: an entry is never found free.
NeverFree(l) == FALSE

IsFree(l) == l = Free

\* map_[fp] creates the entry; find(fp) does not.
Entry(k) == IF k \in DOMAIN table THEN table[k] ELSE Free

-----------------------------------------------------------------------------
(* One key.  Each method takes and returns the counters of the entry.      *)

IncIntent(l, mode) ==
    IF mode = "shared" THEN [l EXCEPT !.sharedIntent = @ + 1]
                       ELSE [l EXCEPT !.exclusiveIntent = @ + 1]

DecIntent(l, mode) ==
    IF mode = "shared" THEN [l EXCEPT !.sharedIntent = @ - 1]
                       ELSE [l EXCEPT !.exclusiveIntent = @ - 1]

\* Mutation of Granted: an exclusive intent ignores the shared ones.
GrantedPastReaders(l, mode) ==
    /\ mode = "shared" => l.exclusiveIntent = 0
    /\ mode = "exclusive" => l.exclusiveIntent = 1

\* Read after the increment.
Granted(l, mode) ==
    /\ mode = "shared" => l.exclusiveIntent = 0
    /\ mode = "exclusive" => l.sharedIntent = 0 /\ l.exclusiveIntent = 1

CanHold(l, mode) ==
    /\ l.exclusiveHeld = 0
    /\ mode = "exclusive" => l.sharedHeld = 0

IncHeld(l, mode) ==
    IF mode = "shared" THEN [l EXCEPT !.sharedHeld = @ + 1]
                       ELSE [l EXCEPT !.exclusiveHeld = @ + 1]

\* Mutation of DecHeld: the shared counter is reset as the exclusive one is.
DecHeldResets(l, mode) ==
    IF mode = "shared" THEN [l EXCEPT !.sharedHeld = 0] ELSE [l EXCEPT !.exclusiveHeld = 0]

DecHeld(l, mode) ==
    IF mode = "shared" THEN [l EXCEPT !.sharedHeld = @ - 1]
                       ELSE [l EXCEPT !.exclusiveHeld = 0]

-----------------------------------------------------------------------------
(* A key set.  The refs of a set are distinct, so the loops touch each     *)
(* entry once and their order does not show.                               *)

Refs(o) == DOMAIN Wants[o]

\* The table after a method that creates the entries it updates.
Updated(new) ==
    [k \in DOMAIN table \cup DOMAIN new |-> IF k \in DOMAIN new THEN new[k] ELSE table[k]]

\* The table after a method that erases the entries it leaves free.
Pruned(new) ==
    [k \in DOMAIN table \ {j \in DOMAIN new : IsFree(new[j])} |->
        IF k \in DOMAIN new THEN new[k] ELSE table[k]]

AllGranted(o) == \A k \in Refs(o) : Granted(IncIntent(Entry(k), Wants[o][k]), Wants[o][k])

CanHoldAll(o) == \A k \in Refs(o) : CanHold(Entry(k), Wants[o][k])

IncBoth(l, mode) == IncHeld(IncIntent(l, mode), mode)

\* Mutation of DecBoth: the intent is released with the hold and once more.
DecBothTwice(l, mode) == DecIntent(DecIntent(DecHeld(l, mode), mode), mode)

DecBoth(l, mode) == DecIntent(DecHeld(l, mode), mode)

\* The entries of a key set after each loop over it.
Intended(o) == [k \in Refs(o) |-> IncIntent(Entry(k), Wants[o][k])]

Held(o) == [k \in Refs(o) |-> IncHeld(Entry(k), Wants[o][k])]

FastHeld(o) == [k \in Refs(o) |-> IncBoth(Entry(k), Wants[o][k])]

Withdrawn(o) == [k \in Refs(o) |-> DecIntent(Entry(k), Wants[o][k])]

Released(o) == [k \in Refs(o) |-> DecBoth(Entry(k), Wants[o][k])]

Init ==
    /\ table = [k \in {} |-> Free]
    /\ stage = [o \in Owners |-> "none"]
    /\ answer = TRUE

\* AcquireIntents, as ScheduleInShard calls it.
AcquireIntents(o) ==
    /\ stage[o] = "none"
    /\ table' = Updated(Intended(o))
    /\ stage' = [stage EXCEPT ![o] = "intent"]
    /\ answer' = AllGranted(o)

\* TryFastPath: a failed attempt keeps its intents, a granted one holds too.
TryFastPath(o) ==
    /\ stage[o] = "none"
    /\ answer' = AllGranted(o)
    /\ table' = IF AllGranted(o) THEN Updated(FastHeld(o)) ELSE Updated(Intended(o))
    /\ stage' = [stage EXCEPT ![o] = IF AllGranted(o) THEN "held" ELSE "intent"]

\* Poll: CanHoldAll, and AcquireHolds when it passes.
TryHold(o) ==
    /\ stage[o] = "intent"
    /\ answer' = CanHoldAll(o)
    /\ table' = IF CanHoldAll(o) THEN Updated(Held(o)) ELSE table
    /\ stage' = IF CanHoldAll(o) THEN [stage EXCEPT ![o] = "held"] ELSE stage

\* ReleaseIntents, as CancelInShard calls it.
ReleaseIntents(o) ==
    /\ stage[o] = "intent"
    /\ table' = Pruned(Withdrawn(o))
    /\ stage' = [stage EXCEPT ![o] = "none"]
    /\ UNCHANGED answer

\* Release: ReleaseHolds and ReleaseIntents, or ReleaseHoldAndIntent for one key.
Release(o) ==
    /\ stage[o] = "held"
    /\ table' = Pruned(Released(o))
    /\ stage' = [stage EXCEPT ![o] = "none"]
    /\ UNCHANGED answer

Next ==
    \E o \in Owners :
        \/ AcquireIntents(o)
        \/ TryFastPath(o)
        \/ TryHold(o)
        \/ ReleaseIntents(o)
        \/ Release(o)

Spec == Init /\ [][Next]_vars

-----------------------------------------------------------------------------
(* Properties.                                                             *)

\* Type correctness of the table, the owners' stages and the last answer.
TypeOK ==
    /\ DOMAIN table \subseteq Fps
    /\ \A k \in DOMAIN table : table[k] \in Counters
    /\ stage \in [Owners -> {"none", "intent", "held"}]
    /\ answer \in BOOLEAN

Intenders == {o \in Owners : stage[o] # "none"}

Holders == {o \in Owners : stage[o] = "held"}

In(os, k, mode) == {o \in os : k \in Refs(o) /\ Wants[o][k] = mode}

\* The four counters of every entry are the numbers of owners with an intent or
\* a hold in that mode: no method leaks a count or takes one twice.
CountersExact ==
    \A k \in Fps :
        /\ Entry(k).sharedIntent = Cardinality(In(Intenders, k, "shared"))
        /\ Entry(k).exclusiveIntent = Cardinality(In(Intenders, k, "exclusive"))
        /\ Entry(k).sharedHeld = Cardinality(In(Holders, k, "shared"))
        /\ Entry(k).exclusiveHeld = Cardinality(In(Holders, k, "exclusive"))

\* An entry exists exactly while an owner has an intent on it, so the emptiness
\* test of CanReadOptimistically is true iff nobody is queued or running.
EntriesExact == DOMAIN table = UNION {Refs(o) : o \in Intenders}

Sets == INSTANCE LockSets WITH intents <- Intenders, holds <- Holders

\* Every answer of the counters is the answer the owners' lock sets give: the
\* table implements the sets that the scheduler reasons with.
ImplementsSets == Sets!SetSpec

=============================================================================
