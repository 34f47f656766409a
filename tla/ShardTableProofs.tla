------------------------- MODULE ShardTableProofs --------------------------
(***************************************************************************)
(* The two data structures of a shard, each by itself.                     *)
(*                                                                         *)
(* The lock table, for any set of owners, fingerprints and lock sets: its  *)
(* counters are exact, its entries are those with an intent, no two        *)
(* holders clash, and every answer is the one the lock sets give.  The     *)
(* counters alone are not inductive: ReleaseHold resets the exclusive      *)
(* counter, which is right only because two holders never clash, and the   *)
(* fast path grants a hold from the intents, which is right only because a *)
(* holder keeps its intent.                                                *)
(*                                                                         *)
(* The transaction queue, for any txids and any length: the live entries   *)
(* stay in txid order, and the deque with its tombstones implements the    *)
(* set of waiters of WaitSet.                                              *)
(*                                                                         *)
(* The lemmas take the two facts they need of the library, Counting and    *)
(* WellOrdered, as hypotheses; the last section proves these facts and     *)
(* states the theorems.                                                    *)
(***************************************************************************)
EXTENDS LockTable, TxQueue, TLAPS


(* The counters that the owners with intents and holds account for.        *)
Tally(is, hs, k) ==
    [sharedIntent |-> Cardinality(In(is, k, "shared")),
     exclusiveIntent |-> Cardinality(In(is, k, "exclusive")),
     sharedHeld |-> Cardinality(In(hs, k, "shared")),
     exclusiveHeld |-> Cardinality(In(hs, k, "exclusive"))]

(* No two owners that hold want the same fingerprint unless both share it. *)
HoldersCompatible == \A o \in Holders : Sets!Compatible(o, Holders)

IInv == TypeOK /\ CountersExact /\ EntriesExact /\ HoldersCompatible

(* What the proofs use of Cardinality on sets of owners.                   *)
Counting ==
    /\ Cardinality({}) = 0
    /\ \A S \in SUBSET Owners :
          /\ Cardinality(S) \in Nat
          /\ Cardinality(S) = 0 => S = {}
          /\ \A o \in Owners \ S : Cardinality(S \cup {o}) = Cardinality(S) + 1

-----------------------------------------------------------------------------
(* Counting owners.                                                        *)

(* KeyRefs are fingerprints with one of the two modes.                     *)
LEMMA RefModes ==
    ASSUME NEW o \in Owners
    PROVE  /\ Refs(o) \subseteq Fps
           /\ \A k \in Refs(o) : Wants[o][k] = "shared" \/ Wants[o][k] = "exclusive"
<1>1. PICK ks \in SUBSET Fps : Wants[o] \in [ks -> LockModes]
  BY WantsAssumption
<1>. QED
  BY <1>1 DEF Refs, LockModes

(* The owners of a fingerprint in a mode are finitely many.                *)
LEMMA CountFinite ==
    ASSUME Counting, NEW os \in SUBSET Owners, NEW k, NEW mode
    PROVE  In(os, k, mode) \in SUBSET Owners /\ Cardinality(In(os, k, mode)) \in Nat
<1>1. In(os, k, mode) \in SUBSET Owners
  BY DEF In
<1>. QED
  BY <1>1 DEF Counting

(* An owner that joins is counted once for each of its KeyRefs.            *)
LEMMA CountJoin ==
    ASSUME Counting, NEW os \in SUBSET Owners, NEW o \in Owners, o \notin os, NEW k, NEW mode
    PROVE  Cardinality(In(os \cup {o}, k, mode)) =
               Cardinality(In(os, k, mode)) + (IF k \in Refs(o) /\ Wants[o][k] = mode THEN 1 ELSE 0)
<1>0. In(os, k, mode) \in SUBSET Owners /\ Cardinality(In(os, k, mode)) \in Nat
  BY CountFinite
<1>1. CASE k \in Refs(o) /\ Wants[o][k] = mode
  <2>1. In(os \cup {o}, k, mode) = In(os, k, mode) \cup {o} /\ o \notin In(os, k, mode)
    BY <1>1 DEF In
  <2>2. Cardinality(In(os, k, mode) \cup {o}) = Cardinality(In(os, k, mode)) + 1
    BY <1>0, <2>1 DEF Counting
  <2>. QED
    BY <1>1, <2>1, <2>2
<1>2. CASE ~(k \in Refs(o) /\ Wants[o][k] = mode)
  <2>1. In(os \cup {o}, k, mode) = In(os, k, mode)
    BY <1>2 DEF In
  <2>. QED
    BY <1>0, <1>2, <2>1
<1>. QED
  BY <1>1, <1>2

(* And an owner that leaves is taken off where it was counted.             *)
LEMMA CountLeave ==
    ASSUME Counting, NEW os \in SUBSET Owners, NEW o \in os, NEW k, NEW mode
    PROVE  Cardinality(In(os \ {o}, k, mode)) =
               Cardinality(In(os, k, mode)) - (IF k \in Refs(o) /\ Wants[o][k] = mode THEN 1 ELSE 0)
<1>1. os \ {o} \in SUBSET Owners /\ o \notin os \ {o} /\ (os \ {o}) \cup {o} = os /\ o \in Owners
  OBVIOUS
<1>2. /\ Cardinality(In(os \ {o}, k, mode)) \in Nat
      /\ Cardinality(In(os, k, mode)) \in Nat
  BY <1>1, CountFinite
<1>3. Cardinality(In((os \ {o}) \cup {o}, k, mode)) =
          Cardinality(In(os \ {o}, k, mode)) + (IF k \in Refs(o) /\ Wants[o][k] = mode THEN 1 ELSE 0)
  BY <1>1, CountJoin
<1>4. Cardinality(In((os \ {o}) \cup {o}, k, mode)) = Cardinality(In(os, k, mode))
  BY <1>1, Zenon
<1>. QED
  BY <1>2, <1>3, <1>4

(* A count is zero exactly when nobody is counted.                         *)
LEMMA CountZero ==
    ASSUME Counting, NEW os \in SUBSET Owners, NEW k, NEW mode
    PROVE  Cardinality(In(os, k, mode)) = 0 <=> \A p \in os : k \in Refs(p) => Wants[p][k] # mode
<1>1. Cardinality(In(os, k, mode)) = 0 <=> In(os, k, mode) = {}
  BY CountFinite DEF Counting
<1>. QED
  BY <1>1 DEF In

-----------------------------------------------------------------------------
(* What the four counters say of the owners.                               *)

(* An owner that records intents adds one to each of its intent counters.  *)
LEMMA TallyIntend ==
    ASSUME Counting, NEW is \in SUBSET Owners, NEW hs \in SUBSET Owners, NEW o \in Owners, o \notin is, NEW k
    PROVE  /\ k \in Refs(o) => Tally(is \cup {o}, hs, k) = IncIntent(Tally(is, hs, k), Wants[o][k])
           /\ k \notin Refs(o) => Tally(is \cup {o}, hs, k) = Tally(is, hs, k)
<1>1. ASSUME NEW mode \in LockModes
      PROVE  /\ Cardinality(In(is, k, mode)) \in Nat
             /\ Cardinality(In(is \cup {o}, k, mode)) =
                    Cardinality(In(is, k, mode)) + (IF k \in Refs(o) /\ Wants[o][k] = mode THEN 1 ELSE 0)
  <2>1. Cardinality(In(is, k, mode)) \in Nat
    BY CountFinite
  <2>2. Cardinality(In(is \cup {o}, k, mode)) =
            Cardinality(In(is, k, mode)) + (IF k \in Refs(o) /\ Wants[o][k] = mode THEN 1 ELSE 0)
    BY CountJoin
  <2>. QED
    BY <2>1, <2>2
<1>. QED
  BY <1>1, RefModes DEF Tally, IncIntent, LockModes

(* An owner that starts to hold adds one to each of its hold counters.     *)
LEMMA TallyHold ==
    ASSUME Counting, NEW is \in SUBSET Owners, NEW hs \in SUBSET Owners, NEW o \in Owners, o \notin hs, NEW k
    PROVE  /\ k \in Refs(o) => Tally(is, hs \cup {o}, k) = IncHeld(Tally(is, hs, k), Wants[o][k])
           /\ k \notin Refs(o) => Tally(is, hs \cup {o}, k) = Tally(is, hs, k)
<1>1. ASSUME NEW mode \in LockModes
      PROVE  /\ Cardinality(In(hs, k, mode)) \in Nat
             /\ Cardinality(In(hs \cup {o}, k, mode)) =
                    Cardinality(In(hs, k, mode)) + (IF k \in Refs(o) /\ Wants[o][k] = mode THEN 1 ELSE 0)
  <2>1. Cardinality(In(hs, k, mode)) \in Nat
    BY CountFinite
  <2>2. Cardinality(In(hs \cup {o}, k, mode)) =
            Cardinality(In(hs, k, mode)) + (IF k \in Refs(o) /\ Wants[o][k] = mode THEN 1 ELSE 0)
    BY CountJoin
  <2>. QED
    BY <2>1, <2>2
<1>. QED
  BY <1>1, RefModes DEF Tally, IncHeld, LockModes

(* An owner that leaves takes one off each of its intent counters.         *)
LEMMA TallyWithdraw ==
    ASSUME Counting, NEW is \in SUBSET Owners, NEW hs \in SUBSET Owners, NEW o \in is, NEW k
    PROVE  /\ k \in Refs(o) => Tally(is \ {o}, hs, k) = DecIntent(Tally(is, hs, k), Wants[o][k])
           /\ k \notin Refs(o) => Tally(is \ {o}, hs, k) = Tally(is, hs, k)
<1>1. ASSUME NEW mode \in LockModes
      PROVE  /\ Cardinality(In(is, k, mode)) \in Nat
             /\ Cardinality(In(is \ {o}, k, mode)) =
                    Cardinality(In(is, k, mode)) - (IF k \in Refs(o) /\ Wants[o][k] = mode THEN 1 ELSE 0)
  <2>1. Cardinality(In(is, k, mode)) \in Nat
    BY CountFinite
  <2>2. Cardinality(In(is \ {o}, k, mode)) =
            Cardinality(In(is, k, mode)) - (IF k \in Refs(o) /\ Wants[o][k] = mode THEN 1 ELSE 0)
    BY CountLeave
  <2>. QED
    BY <2>1, <2>2
<1>. QED
  BY <1>1, RefModes DEF Tally, DecIntent, LockModes

(* ReleaseHold resets the exclusive counter: it counted this owner only,   *)
(* because the holders are compatible.                                     *)
LEMMA TallyRelease ==
    ASSUME Counting, NEW is \in SUBSET Owners, NEW hs \in SUBSET Owners, NEW o \in hs, NEW k,
           Sets!Compatible(o, hs)
    PROVE  /\ k \in Refs(o) => Tally(is, hs \ {o}, k) = DecHeld(Tally(is, hs, k), Wants[o][k])
           /\ k \notin Refs(o) => Tally(is, hs \ {o}, k) = Tally(is, hs, k)
<1>1. ASSUME NEW mode \in LockModes
      PROVE  /\ Cardinality(In(hs, k, mode)) \in Nat
             /\ Cardinality(In(hs \ {o}, k, mode)) =
                    Cardinality(In(hs, k, mode)) - (IF k \in Refs(o) /\ Wants[o][k] = mode THEN 1 ELSE 0)
  <2>1. Cardinality(In(hs, k, mode)) \in Nat
    BY CountFinite
  <2>2. Cardinality(In(hs \ {o}, k, mode)) =
            Cardinality(In(hs, k, mode)) - (IF k \in Refs(o) /\ Wants[o][k] = mode THEN 1 ELSE 0)
    BY CountLeave
  <2>. QED
    BY <2>1, <2>2
<1>2. ASSUME k \in Refs(o), Wants[o][k] = "exclusive"
      PROVE  Cardinality(In(hs \ {o}, k, "exclusive")) = 0
  <2>1. \A p \in hs \ {o} : k \in Refs(p) => Wants[p][k] # "exclusive"
    BY <1>2 DEF Sets!Compatible, Sets!Clash, Refs
  <2>. QED
    BY <2>1, CountZero
<1>. QED
  BY <1>1, <1>2, RefModes DEF Tally, DecHeld, LockModes

(* The counters of a fingerprint are all zero when nobody has an intent.   *)
LEMMA TallyFree ==
    ASSUME Counting, NEW is \in SUBSET Owners, NEW hs \in SUBSET is, NEW k
    PROVE  Tally(is, hs, k) = Free <=> \A p \in is : k \notin Refs(p)
<1>1. hs \in SUBSET Owners
  OBVIOUS
<1>2. \A mode \in LockModes :
          /\ Cardinality(In(is, k, mode)) = 0 <=> \A p \in is : k \in Refs(p) => Wants[p][k] # mode
          /\ Cardinality(In(hs, k, mode)) = 0 <=> \A p \in hs : k \in Refs(p) => Wants[p][k] # mode
  BY <1>1, CountZero
<1>3. Tally(is, hs, k) = Free <=> \A mode \in LockModes :
          Cardinality(In(is, k, mode)) = 0 /\ Cardinality(In(hs, k, mode)) = 0
  BY DEF Tally, Free, LockModes
<1>. QED
  BY <1>2, <1>3, RefModes DEF LockModes

(* The answer read off the intent counters is the one the sets give.       *)
LEMMA GrantedIsCompatible ==
    ASSUME Counting, NEW is \in SUBSET Owners, NEW hs \in SUBSET Owners, NEW o \in Owners, o \notin is
    PROVE  (\A k \in Refs(o) : Granted(IncIntent(Tally(is, hs, k), Wants[o][k]), Wants[o][k]))
               <=> Sets!Compatible(o, is)
<1>1. ASSUME NEW k \in Refs(o)
      PROVE  Granted(IncIntent(Tally(is, hs, k), Wants[o][k]), Wants[o][k]) <=>
                 /\ \A p \in is : k \in Refs(p) => Wants[p][k] # "exclusive"
                 /\ Wants[o][k] = "exclusive" => \A p \in is : k \notin Refs(p)
  <2>1. \A mode \in LockModes :
            /\ Cardinality(In(is, k, mode)) \in Nat
            /\ Cardinality(In(is, k, mode)) = 0 <=> \A p \in is : k \in Refs(p) => Wants[p][k] # mode
    BY CountFinite, CountZero
  <2>2. Wants[o][k] \in LockModes /\ \A p \in is : k \in Refs(p) => Wants[p][k] \in LockModes
    BY <1>1, RefModes DEF LockModes
  <2>3. Granted(IncIntent(Tally(is, hs, k), Wants[o][k]), Wants[o][k]) <=>
            /\ Cardinality(In(is, k, "exclusive")) = 0
            /\ Wants[o][k] = "exclusive" => Cardinality(In(is, k, "shared")) = 0
    BY <2>1, <2>2 DEF Granted, IncIntent, Tally, LockModes
  <2>. QED
    BY <2>1, <2>2, <2>3 DEF LockModes
<1>2. Sets!Compatible(o, is) <=>
          \A k \in Refs(o) :
              /\ \A p \in is : k \in Refs(p) => Wants[p][k] # "exclusive"
              /\ Wants[o][k] = "exclusive" => \A p \in is : k \notin Refs(p)
  BY DEF Sets!Compatible, Sets!Clash, Refs
<1>. QED
  BY <1>1, <1>2

(* And so is the answer read off the hold counters.                        *)
LEMMA CanHoldIsCompatible ==
    ASSUME Counting, NEW is \in SUBSET Owners, NEW hs \in SUBSET Owners, NEW o \in Owners, o \notin hs
    PROVE  (\A k \in Refs(o) : CanHold(Tally(is, hs, k), Wants[o][k])) <=> Sets!Compatible(o, hs)
<1>1. ASSUME NEW k \in Refs(o)
      PROVE  CanHold(Tally(is, hs, k), Wants[o][k]) <=>
                 /\ \A p \in hs : k \in Refs(p) => Wants[p][k] # "exclusive"
                 /\ Wants[o][k] = "exclusive" => \A p \in hs : k \notin Refs(p)
  <2>1. \A mode \in LockModes :
            Cardinality(In(hs, k, mode)) = 0 <=> \A p \in hs : k \in Refs(p) => Wants[p][k] # mode
    BY CountZero
  <2>2. \A p \in hs : k \in Refs(p) => Wants[p][k] \in LockModes
    BY RefModes DEF LockModes
  <2>3. CanHold(Tally(is, hs, k), Wants[o][k]) <=>
            /\ Cardinality(In(hs, k, "exclusive")) = 0
            /\ Wants[o][k] = "exclusive" => Cardinality(In(hs, k, "shared")) = 0
    BY DEF CanHold, Tally
  <2>. QED
    BY <2>1, <2>2, <2>3 DEF LockModes
<1>2. Sets!Compatible(o, hs) <=>
          \A k \in Refs(o) :
              /\ \A p \in hs : k \in Refs(p) => Wants[p][k] # "exclusive"
              /\ Wants[o][k] = "exclusive" => \A p \in hs : k \notin Refs(p)
  BY DEF Sets!Compatible, Sets!Clash, Refs
<1>. QED
  BY <1>1, <1>2

-----------------------------------------------------------------------------
(* Lock sets.                                                              *)

(* An owner compatible with the holders joins them without a clash.        *)
LEMMA CompatibleJoin ==
    ASSUME NEW hs \in SUBSET Owners, NEW o \in Owners,
           \A p \in hs : Sets!Compatible(p, hs), Sets!Compatible(o, hs)
    PROVE  \A p \in hs \cup {o} : Sets!Compatible(p, hs \cup {o})
  BY DEF Sets!Compatible, Sets!Clash

(* Compatibility is a matter of each of the others.                        *)
LEMMA CompatibleSubset ==
    ASSUME NEW os, NEW hs \in SUBSET os, NEW o, Sets!Compatible(o, os)
    PROVE  Sets!Compatible(o, hs)
  BY DEF Sets!Compatible

-----------------------------------------------------------------------------
(* The table.                                                              *)

(* The counters of every entry, present or not, are the owners' tally.     *)
LEMMA EntryTally ==
    ASSUME TypeOK, CountersExact, NEW k \in Fps
    PROVE  Entry(k) = Tally(Intenders, Holders, k)
<1>1. Entry(k) \in Counters
  BY DEF TypeOK, Entry, Free, Counters
<1>. QED
  BY <1>1 DEF CountersExact, Counters, Tally

(* An owner with an intent has all its entries in the table.               *)
LEMMA EntriesPresent ==
    ASSUME EntriesExact, NEW o \in Intenders
    PROVE  Refs(o) \subseteq DOMAIN table
  BY DEF EntriesExact

(* Updated replaces or creates the entries it is given, and no other.      *)
LEMMA UpdatedEntries ==
    ASSUME NEW new, table' = Updated(new)
    PROVE  /\ DOMAIN table' = DOMAIN table \cup DOMAIN new
           /\ \A k : Entry(k)' = IF k \in DOMAIN new THEN new[k] ELSE Entry(k)
  BY DEF Updated, Entry

(* Pruned leaves no free entry of those it is given, and drops no other.   *)
LEMMA PrunedEntries ==
    ASSUME NEW new, table' = Pruned(new), DOMAIN new \subseteq DOMAIN table
    PROVE  /\ DOMAIN table' = DOMAIN table \ {k \in DOMAIN new : new[k] = Free}
           /\ \A k : Entry(k)' = IF k \in DOMAIN new THEN new[k] ELSE Entry(k)
  BY DEF Pruned, Entry, IsFree

(* What a step has to show: the new entries are the new tally.             *)
LEMMA TallyKeeps ==
    ASSUME Counting, stage' \in [Owners -> {"none", "intent", "held"}], answer' \in BOOLEAN,
           \A k \in Fps : Entry(k)' = Tally(Intenders', Holders', k),
           EntriesExact', HoldersCompatible'
    PROVE  IInv'
<1>1. Intenders' \in SUBSET Owners /\ Holders' \in SUBSET Owners
  BY DEF Intenders, Holders
<1>2. DOMAIN table' \subseteq Fps
  BY <1>1, RefModes DEF EntriesExact
<1>3. \A k : Tally(Intenders', Holders', k) \in Counters
  BY <1>1, CountFinite DEF Tally, Counters
<1>4. \A k \in DOMAIN table' : table'[k] \in Counters
  BY <1>2, <1>3 DEF Entry
<1>5. TypeOK'
  BY <1>2, <1>4 DEF TypeOK
<1>6. CountersExact'
  <2>. SUFFICES ASSUME NEW k \in Fps
               PROVE  (/\ Entry(k).sharedIntent = Cardinality(In(Intenders, k, "shared"))
                       /\ Entry(k).exclusiveIntent = Cardinality(In(Intenders, k, "exclusive"))
                       /\ Entry(k).sharedHeld = Cardinality(In(Holders, k, "shared"))
                       /\ Entry(k).exclusiveHeld = Cardinality(In(Holders, k, "exclusive")))'
    BY DEF CountersExact
  <2>1. Entry(k)' = Tally(Intenders', Holders', k)
    OBVIOUS
  <2>. QED
    BY <2>1 DEF Tally, In
<1>. QED
  BY <1>5, <1>6 DEF IInv

-----------------------------------------------------------------------------
(* One lemma per operation: the owners it moves, the invariant, and the    *)
(* step of the lock sets that it is.                                       *)

(* A holder has an intent: the comment on LockTable, "holds are a subset   *)
(* of intents".                                                            *)
LEMMA HoldersIntend == Holders \subseteq Intenders
  BY DEF Holders, Intenders

(* Recording intents, whatever the answer: AcquireIntents, and TryFastPath *)
(* when an intent of somebody else is in the way.                          *)
LEMMA IntendStep ==
    ASSUME Counting, IInv, NEW o \in Owners, stage[o] = "none", answer' = AllGranted(o),
           table' = Updated(Intended(o)), stage' = [stage EXCEPT ![o] = "intent"]
    PROVE  /\ IInv'
           /\ o \notin Intenders
           /\ Intenders' = Intenders \cup {o} /\ Holders' = Holders
           /\ answer' = Sets!Compatible(o, Intenders)
<1>1. /\ o \notin Intenders /\ Intenders' = Intenders \cup {o} /\ Holders' = Holders
      /\ Intenders \in SUBSET Owners /\ Holders \in SUBSET Owners
  BY DEF IInv, TypeOK, Intenders, Holders
<1>2. \A k \in Fps : Entry(k) = Tally(Intenders, Holders, k)
  BY EntryTally DEF IInv
<1>3. Refs(o) \subseteq Fps
  BY RefModes
<1>4. answer' = Sets!Compatible(o, Intenders)
  <2>1. AllGranted(o) <=>
            \A k \in Refs(o) : Granted(IncIntent(Tally(Intenders, Holders, k), Wants[o][k]), Wants[o][k])
    BY <1>2, <1>3 DEF AllGranted
  <2>2. AllGranted(o) <=> Sets!Compatible(o, Intenders)
    BY <1>1, <2>1, GrantedIsCompatible
  <2>. QED
    BY <2>2 DEF AllGranted, Sets!Compatible
<1>5. /\ DOMAIN table' = DOMAIN table \cup Refs(o)
      /\ \A k : Entry(k)' = IF k \in Refs(o) THEN IncIntent(Entry(k), Wants[o][k]) ELSE Entry(k)
  <2>1. /\ DOMAIN table' = DOMAIN table \cup DOMAIN Intended(o)
        /\ \A k : Entry(k)' = IF k \in DOMAIN Intended(o) THEN Intended(o)[k] ELSE Entry(k)
    BY UpdatedEntries
  <2>2. DOMAIN Intended(o) = Refs(o) /\ \A k \in Refs(o) : Intended(o)[k] = IncIntent(Entry(k), Wants[o][k])
    BY DEF Intended
  <2>. QED
    BY <2>1, <2>2
<1>6. ASSUME NEW k \in Fps
      PROVE  Entry(k)' = Tally(Intenders', Holders', k)
  <2>1. /\ k \in Refs(o) => Tally(Intenders', Holders', k) = IncIntent(Tally(Intenders, Holders, k), Wants[o][k])
        /\ k \notin Refs(o) => Tally(Intenders', Holders', k) = Tally(Intenders, Holders, k)
    BY <1>1, TallyIntend
  <2>. QED
    BY <1>2, <1>5, <2>1
<1>7. EntriesExact'
  BY <1>1, <1>5 DEF IInv, EntriesExact
<1>8. HoldersCompatible'
  BY <1>1 DEF IInv, HoldersCompatible
<1>9. stage' \in [Owners -> {"none", "intent", "held"}] /\ answer' \in BOOLEAN
  BY DEF IInv, TypeOK, AllGranted
<1>. QED
  BY <1>1, <1>4, <1>6, <1>7, <1>8, <1>9, TallyKeeps

(* The fast path when it is granted: intent and hold in one step.  The     *)
(* intents of the others are compatible, so their holds are.               *)
LEMMA FastHoldStep ==
    ASSUME Counting, IInv, NEW o \in Owners, stage[o] = "none", AllGranted(o), answer' = AllGranted(o),
           table' = Updated(FastHeld(o)), stage' = [stage EXCEPT ![o] = "held"]
    PROVE  /\ IInv'
           /\ o \notin Intenders
           /\ Intenders' = Intenders \cup {o} /\ Holders' = Holders \cup {o}
           /\ answer' = Sets!Compatible(o, Intenders)
<1>1. /\ o \notin Intenders /\ Intenders' = Intenders \cup {o}
      /\ o \notin Holders /\ Holders' = Holders \cup {o}
      /\ Intenders \in SUBSET Owners /\ Holders \in SUBSET Owners
  BY DEF IInv, TypeOK, Intenders, Holders
<1>2. \A k \in Fps : Entry(k) = Tally(Intenders, Holders, k)
  BY EntryTally DEF IInv
<1>3. Refs(o) \subseteq Fps
  BY RefModes
<1>4. Sets!Compatible(o, Intenders)
  <2>1. \A k \in Refs(o) : Granted(IncIntent(Tally(Intenders, Holders, k), Wants[o][k]), Wants[o][k])
    BY <1>2, <1>3 DEF AllGranted
  <2>. QED
    BY <1>1, <2>1, GrantedIsCompatible
<1>5. /\ DOMAIN table' = DOMAIN table \cup Refs(o)
      /\ \A k : Entry(k)' = IF k \in Refs(o) THEN IncBoth(Entry(k), Wants[o][k]) ELSE Entry(k)
  <2>1. /\ DOMAIN table' = DOMAIN table \cup DOMAIN FastHeld(o)
        /\ \A k : Entry(k)' = IF k \in DOMAIN FastHeld(o) THEN FastHeld(o)[k] ELSE Entry(k)
    BY UpdatedEntries
  <2>2. DOMAIN FastHeld(o) = Refs(o) /\ \A k \in Refs(o) : FastHeld(o)[k] = IncBoth(Entry(k), Wants[o][k])
    BY DEF FastHeld
  <2>. QED
    BY <2>1, <2>2
<1>6. ASSUME NEW k \in Fps
      PROVE  Entry(k)' = Tally(Intenders', Holders', k)
  <2>1. /\ k \in Refs(o) => Tally(Intenders \cup {o}, Holders, k) = IncIntent(Tally(Intenders, Holders, k), Wants[o][k])
        /\ k \notin Refs(o) => Tally(Intenders \cup {o}, Holders, k) = Tally(Intenders, Holders, k)
    BY <1>1, TallyIntend
  <2>2. /\ k \in Refs(o) => Tally(Intenders', Holders', k) = IncHeld(Tally(Intenders \cup {o}, Holders, k), Wants[o][k])
        /\ k \notin Refs(o) => Tally(Intenders', Holders', k) = Tally(Intenders \cup {o}, Holders, k)
    <3>1. Intenders \cup {o} \in SUBSET Owners
      BY <1>1
    <3>. QED
      BY <1>1, <3>1, TallyHold
  <2>. QED
    BY <1>2, <1>5, <2>1, <2>2 DEF IncBoth
<1>7. EntriesExact'
  BY <1>1, <1>5 DEF IInv, EntriesExact
<1>8. HoldersCompatible'
  <2>1. Sets!Compatible(o, Holders)
    BY <1>4, CompatibleSubset, HoldersIntend
  <2>2. \A p \in Holders : Sets!Compatible(p, Holders)
    BY DEF IInv, HoldersCompatible
  <2>3. \A p \in Holders \cup {o} : Sets!Compatible(p, Holders \cup {o})
    BY <1>1, <2>1, <2>2, CompatibleJoin
  <2>. QED
    BY <1>1, <2>3 DEF HoldersCompatible
<1>9. stage' \in [Owners -> {"none", "intent", "held"}] /\ answer' = TRUE
  BY DEF IInv, TypeOK, AllGranted
<1>10. answer' = Sets!Compatible(o, Intenders)
  BY <1>4, <1>9 DEF Sets!Compatible
<1>. QED
  BY <1>1, <1>6, <1>7, <1>8, <1>9, <1>10, TallyKeeps

(* Poll's answer about a queued owner is that of the holders' lock sets.   *)
LEMMA HoldAnswer ==
    ASSUME Counting, IInv, NEW o \in Owners, stage[o] = "intent"
    PROVE  CanHoldAll(o) = Sets!Compatible(o, Holders)
<1>1. o \notin Holders /\ Intenders \in SUBSET Owners /\ Holders \in SUBSET Owners
  BY DEF Intenders, Holders
<1>2. \A k \in Refs(o) : Entry(k) = Tally(Intenders, Holders, k)
  BY EntryTally, RefModes DEF IInv
<1>3. CanHoldAll(o) <=> \A k \in Refs(o) : CanHold(Tally(Intenders, Holders, k), Wants[o][k])
  BY <1>2 DEF CanHoldAll
<1>4. CanHoldAll(o) <=> Sets!Compatible(o, Holders)
  BY <1>1, <1>3, CanHoldIsCompatible
<1>. QED
  BY <1>4 DEF CanHoldAll, Sets!Compatible

(* Poll lets a queued owner hold.                                          *)
LEMMA HoldStep ==
    ASSUME Counting, IInv, NEW o \in Owners, stage[o] = "intent", CanHoldAll(o), answer' = CanHoldAll(o),
           table' = Updated(Held(o)), stage' = [stage EXCEPT ![o] = "held"]
    PROVE  IInv' /\ Intenders' = Intenders /\ Holders' = Holders \cup {o}
<1>1. /\ o \in Intenders /\ Intenders' = Intenders
      /\ o \notin Holders /\ Holders' = Holders \cup {o}
      /\ Intenders \in SUBSET Owners /\ Holders \in SUBSET Owners
  BY DEF IInv, TypeOK, Intenders, Holders
<1>2. \A k \in Fps : Entry(k) = Tally(Intenders, Holders, k)
  BY EntryTally DEF IInv
<1>3. Sets!Compatible(o, Holders)
  BY HoldAnswer
<1>4. Refs(o) \subseteq DOMAIN table
  BY <1>1, EntriesPresent DEF IInv
<1>5. /\ DOMAIN table' = DOMAIN table
      /\ \A k : Entry(k)' = IF k \in Refs(o) THEN IncHeld(Entry(k), Wants[o][k]) ELSE Entry(k)
  <2>1. /\ DOMAIN table' = DOMAIN table \cup DOMAIN Held(o)
        /\ \A k : Entry(k)' = IF k \in DOMAIN Held(o) THEN Held(o)[k] ELSE Entry(k)
    BY UpdatedEntries
  <2>2. DOMAIN Held(o) = Refs(o) /\ \A k \in Refs(o) : Held(o)[k] = IncHeld(Entry(k), Wants[o][k])
    BY DEF Held
  <2>. QED
    BY <1>4, <2>1, <2>2
<1>6. ASSUME NEW k \in Fps
      PROVE  Entry(k)' = Tally(Intenders', Holders', k)
  <2>1. /\ k \in Refs(o) => Tally(Intenders', Holders', k) = IncHeld(Tally(Intenders, Holders, k), Wants[o][k])
        /\ k \notin Refs(o) => Tally(Intenders', Holders', k) = Tally(Intenders, Holders, k)
    BY <1>1, TallyHold
  <2>. QED
    BY <1>2, <1>5, <2>1
<1>7. EntriesExact'
  BY <1>1, <1>5 DEF IInv, EntriesExact
<1>8. HoldersCompatible'
  <2>1. \A p \in Holders : Sets!Compatible(p, Holders)
    BY DEF IInv, HoldersCompatible
  <2>2. \A p \in Holders \cup {o} : Sets!Compatible(p, Holders \cup {o})
    BY <1>1, <1>3, <2>1, CompatibleJoin
  <2>. QED
    BY <1>1, <2>2 DEF HoldersCompatible
<1>9. stage' \in [Owners -> {"none", "intent", "held"}] /\ answer' \in BOOLEAN
  BY DEF IInv, TypeOK, CanHoldAll
<1>. QED
  BY <1>1, <1>6, <1>7, <1>8, <1>9, TallyKeeps

(* An owner that leaves takes its entries along when it was the last.      *)
LEMMA LastIntentErases ==
    ASSUME Counting, IInv, NEW o \in Intenders, NEW new, DOMAIN new = Refs(o),
           \A k \in Refs(o) : new[k] = Tally(Intenders', Holders', k),
           Intenders' = Intenders \ {o}, Holders' \subseteq Intenders',
           DOMAIN table' = DOMAIN table \ {k \in DOMAIN new : new[k] = Free}
    PROVE  EntriesExact'
<1>1. Intenders' \in SUBSET Owners /\ Holders' \in SUBSET Intenders'
  BY DEF Intenders
<1>2. \A k \in Refs(o) : new[k] = Free <=> \A p \in Intenders' : k \notin Refs(p)
  BY <1>1, TallyFree
<1>. QED
  BY <1>2 DEF IInv, EntriesExact

(* Cancellation withdraws the intents of an owner that never held.         *)
LEMMA WithdrawStep ==
    ASSUME Counting, IInv, NEW o \in Owners, stage[o] = "intent", UNCHANGED answer,
           table' = Pruned(Withdrawn(o)), stage' = [stage EXCEPT ![o] = "none"]
    PROVE  IInv' /\ o \in Intenders /\ Intenders' = Intenders \ {o} /\ Holders' = Holders \ {o}
<1>1. /\ o \in Intenders /\ Intenders' = Intenders \ {o}
      /\ o \notin Holders /\ Holders' = Holders
      /\ Intenders \in SUBSET Owners /\ Holders \in SUBSET Owners
  BY DEF IInv, TypeOK, Intenders, Holders
<1>2. \A k \in Fps : Entry(k) = Tally(Intenders, Holders, k)
  BY EntryTally DEF IInv
<1>3. Refs(o) \subseteq DOMAIN table /\ Refs(o) \subseteq Fps
  BY <1>1, EntriesPresent, RefModes DEF IInv
<1>4. DOMAIN Withdrawn(o) = Refs(o) /\ \A k \in Refs(o) : Withdrawn(o)[k] = DecIntent(Entry(k), Wants[o][k])
  BY DEF Withdrawn
<1>5. /\ DOMAIN table' = DOMAIN table \ {k \in DOMAIN Withdrawn(o) : Withdrawn(o)[k] = Free}
      /\ \A k : Entry(k)' = IF k \in DOMAIN Withdrawn(o) THEN Withdrawn(o)[k] ELSE Entry(k)
  BY <1>3, <1>4, PrunedEntries
<1>6. ASSUME NEW k \in Fps
      PROVE  Entry(k)' = Tally(Intenders', Holders', k)
  <2>1. /\ k \in Refs(o) => Tally(Intenders', Holders', k) = DecIntent(Tally(Intenders, Holders, k), Wants[o][k])
        /\ k \notin Refs(o) => Tally(Intenders', Holders', k) = Tally(Intenders, Holders, k)
    BY <1>1, TallyWithdraw
  <2>. QED
    BY <1>2, <1>4, <1>5, <2>1
<1>7. EntriesExact'
  <2>1. \A k \in Refs(o) : Withdrawn(o)[k] = Tally(Intenders', Holders', k)
    BY <1>3, <1>4, <1>5, <1>6
  <2>2. Holders' \subseteq Intenders'
    BY DEF Holders, Intenders
  <2>. QED
    BY <1>1, <1>4, <1>5, <2>1, <2>2, LastIntentErases
<1>8. HoldersCompatible'
  BY <1>1 DEF IInv, HoldersCompatible
<1>9. stage' \in [Owners -> {"none", "intent", "held"}] /\ answer' \in BOOLEAN
  BY DEF IInv, TypeOK
<1>. QED
  BY <1>1, <1>6, <1>7, <1>8, <1>9, TallyKeeps

(* Release gives back the hold and the intent.                             *)
LEMMA ReleaseStep ==
    ASSUME Counting, IInv, NEW o \in Owners, Release(o)
    PROVE  IInv' /\ o \in Intenders /\ Intenders' = Intenders \ {o} /\ Holders' = Holders \ {o}
<1>1. /\ o \in Intenders /\ Intenders' = Intenders \ {o}
      /\ o \in Holders /\ Holders' = Holders \ {o}
      /\ Intenders \in SUBSET Owners /\ Holders \in SUBSET Owners
  BY DEF IInv, TypeOK, Intenders, Holders, Release
<1>2. \A k \in Fps : Entry(k) = Tally(Intenders, Holders, k)
  BY EntryTally DEF IInv
<1>3. Refs(o) \subseteq DOMAIN table /\ Refs(o) \subseteq Fps
  BY <1>1, EntriesPresent, RefModes DEF IInv
<1>4. DOMAIN Released(o) = Refs(o) /\ \A k \in Refs(o) : Released(o)[k] = DecBoth(Entry(k), Wants[o][k])
  BY DEF Released
<1>5. /\ DOMAIN table' = DOMAIN table \ {k \in DOMAIN Released(o) : Released(o)[k] = Free}
      /\ \A k : Entry(k)' = IF k \in DOMAIN Released(o) THEN Released(o)[k] ELSE Entry(k)
  BY <1>3, <1>4, PrunedEntries DEF Release
<1>6. ASSUME NEW k \in Fps
      PROVE  Entry(k)' = Tally(Intenders', Holders', k)
  <2>1. Sets!Compatible(o, Holders)
    BY <1>1 DEF IInv, HoldersCompatible
  <2>2. /\ k \in Refs(o) => Tally(Intenders, Holders \ {o}, k) = DecHeld(Tally(Intenders, Holders, k), Wants[o][k])
        /\ k \notin Refs(o) => Tally(Intenders, Holders \ {o}, k) = Tally(Intenders, Holders, k)
    BY <1>1, <2>1, TallyRelease
  <2>3. /\ k \in Refs(o) => Tally(Intenders', Holders', k) = DecIntent(Tally(Intenders, Holders \ {o}, k), Wants[o][k])
        /\ k \notin Refs(o) => Tally(Intenders', Holders', k) = Tally(Intenders, Holders \ {o}, k)
    <3>1. Holders \ {o} \in SUBSET Owners
      BY <1>1
    <3>. QED
      BY <1>1, <3>1, TallyWithdraw
  <2>. QED
    BY <1>2, <1>4, <1>5, <2>2, <2>3 DEF DecBoth
<1>7. EntriesExact'
  <2>1. \A k \in Refs(o) : Released(o)[k] = Tally(Intenders', Holders', k)
    BY <1>3, <1>4, <1>5, <1>6
  <2>2. Holders' \subseteq Intenders'
    BY DEF Holders, Intenders
  <2>. QED
    BY <1>1, <1>4, <1>5, <2>1, <2>2, LastIntentErases
<1>8. HoldersCompatible'
  <2>1. \A p \in Holders : Sets!Compatible(p, Holders \ {o})
    BY CompatibleSubset DEF IInv, HoldersCompatible
  <2>. QED
    BY <1>1, <2>1 DEF HoldersCompatible
<1>9. stage' \in [Owners -> {"none", "intent", "held"}] /\ answer' \in BOOLEAN
  BY DEF IInv, TypeOK, Release
<1>. QED
  BY <1>1, <1>6, <1>7, <1>8, <1>9, TallyKeeps

-----------------------------------------------------------------------------
(* The table starts empty.                                                 *)
LEMMA InitEstablishes ==
    ASSUME Counting, Init
    PROVE  IInv /\ Sets!SetInit
<1>1. Intenders = {} /\ Holders = {}
  BY DEF Init, Intenders, Holders
<1>2. DOMAIN table = {} /\ \A k : Entry(k) = Free
  BY DEF Init, Entry
<1>3. CountersExact
  <2>1. \A k, mode : In({}, k, mode) = {}
    BY DEF In
  <2>. QED
    BY <1>1, <1>2, <2>1 DEF CountersExact, Free, Counting
<1>4. TypeOK
  BY <1>2 DEF TypeOK, Init
<1>5. EntriesExact /\ HoldersCompatible
  BY <1>1, <1>2 DEF EntriesExact, HoldersCompatible
<1>6. Sets!SetInit
  BY <1>1 DEF Init, Sets!SetInit
<1>. QED
  BY <1>3, <1>4, <1>5, <1>6 DEF IInv

(* Every step keeps the invariant and is a step of the lock sets.          *)
LEMMA StepKeeps ==
    ASSUME Counting, IInv, Next
    PROVE  IInv' /\ Sets!SetNext
<1>. PICK o \in Owners : \/ AcquireIntents(o) \/ TryFastPath(o) \/ TryHold(o)
                         \/ ReleaseIntents(o) \/ Release(o)
  BY DEF Next
<1>1. CASE AcquireIntents(o)
  <2>1. /\ IInv' /\ o \notin Intenders
        /\ Intenders' = Intenders \cup {o} /\ Holders' = Holders
        /\ answer' = Sets!Compatible(o, Intenders)
    BY <1>1, IntendStep DEF AcquireIntents
  <2>2. Sets!SetIntend(o, FALSE)
    BY <2>1 DEF Sets!SetIntend
  <2>. QED
    BY <2>1, <2>2 DEF Sets!SetNext
<1>2. CASE TryFastPath(o) /\ ~AllGranted(o)
  <2>1. /\ IInv' /\ o \notin Intenders
        /\ Intenders' = Intenders \cup {o} /\ Holders' = Holders
        /\ answer' = Sets!Compatible(o, Intenders)
    BY <1>2, IntendStep DEF TryFastPath
  <2>2. Sets!SetIntend(o, FALSE)
    BY <2>1 DEF Sets!SetIntend
  <2>. QED
    BY <2>1, <2>2 DEF Sets!SetNext
<1>3. CASE TryFastPath(o) /\ AllGranted(o)
  <2>1. /\ IInv' /\ o \notin Intenders
        /\ Intenders' = Intenders \cup {o} /\ Holders' = Holders \cup {o}
        /\ answer' = Sets!Compatible(o, Intenders)
    BY <1>3, FastHoldStep DEF TryFastPath
  <2>2. answer'
    BY <1>3 DEF TryFastPath
  <2>3. Sets!SetIntend(o, TRUE)
    BY <2>1, <2>2 DEF Sets!SetIntend
  <2>. QED
    BY <2>1, <2>3 DEF Sets!SetNext
<1>4. CASE TryHold(o) /\ ~CanHoldAll(o)
  <2>1. o \in Intenders /\ o \notin Holders /\ Intenders' = Intenders /\ Holders' = Holders
    BY <1>4 DEF TryHold, Intenders, Holders
  <2>2. answer' = Sets!Compatible(o, Holders) /\ ~answer'
    BY <1>4, HoldAnswer DEF TryHold
  <2>3. Sets!SetTryHold(o)
    BY <2>1, <2>2 DEF Sets!SetTryHold
  <2>4. IInv'
    <3>1. UNCHANGED <<table, stage>> /\ answer' \in BOOLEAN
      BY <1>4 DEF TryHold, CanHoldAll
    <3>. QED
      BY <3>1 DEF IInv, TypeOK, CountersExact, EntriesExact, HoldersCompatible, Entry, Intenders, Holders
  <2>. QED
    BY <2>3, <2>4 DEF Sets!SetNext
<1>5. CASE TryHold(o) /\ CanHoldAll(o)
  <2>1. IInv' /\ Intenders' = Intenders /\ Holders' = Holders \cup {o}
    BY <1>5, HoldStep DEF TryHold
  <2>2. answer' = Sets!Compatible(o, Holders) /\ answer'
    BY <1>5, HoldAnswer DEF TryHold
  <2>3. o \in Intenders /\ o \notin Holders
    BY <1>5 DEF TryHold, Intenders, Holders
  <2>4. Sets!SetTryHold(o)
    BY <2>1, <2>2, <2>3 DEF Sets!SetTryHold
  <2>. QED
    BY <2>1, <2>4 DEF Sets!SetNext
<1>6. CASE ReleaseIntents(o)
  <2>1. IInv' /\ o \in Intenders /\ Intenders' = Intenders \ {o} /\ Holders' = Holders \ {o}
    BY <1>6, WithdrawStep DEF ReleaseIntents
  <2>2. Sets!SetRelease(o)
    BY <1>6, <2>1 DEF Sets!SetRelease, ReleaseIntents
  <2>. QED
    BY <2>1, <2>2 DEF Sets!SetNext
<1>7. CASE Release(o)
  <2>1. IInv' /\ o \in Intenders /\ Intenders' = Intenders \ {o} /\ Holders' = Holders \ {o}
    BY <1>7, ReleaseStep
  <2>2. Sets!SetRelease(o)
    BY <1>7, <2>1 DEF Sets!SetRelease, Release
  <2>. QED
    BY <2>1, <2>2 DEF Sets!SetNext
<1>. QED
  BY <1>1, <1>2, <1>3, <1>4, <1>5, <1>6, <1>7

(* A step that changes nothing changes neither side.                       *)
LEMMA StutterKeeps ==
    ASSUME IInv, UNCHANGED vars
    PROVE  IInv' /\ UNCHANGED Sets!setVars
<1>1. UNCHANGED <<table, stage, answer>>
  BY DEF vars
<1>2. TypeOK'
  BY <1>1 DEF IInv, TypeOK
<1>3. /\ Intenders' = Intenders /\ Holders' = Holders
      /\ \A k \in Fps : Entry(k)' = Entry(k)
  BY <1>1 DEF Intenders, Holders, Entry
<1>4. CountersExact'
  BY <1>3, Zenon DEF IInv, CountersExact, In
<1>5. EntriesExact'
  BY <1>1, <1>3 DEF IInv, EntriesExact
<1>6. HoldersCompatible'
  BY <1>3 DEF IInv, HoldersCompatible, Sets!Compatible
<1>. QED
  BY <1>1, <1>2, <1>3, <1>4, <1>5, <1>6 DEF IInv, Sets!setVars

-----------------------------------------------------------------------------
(* The queue.                                                              *)


QueueIInv == QueueTypeOK /\ LiveSorted

(* A nonempty set of numbers has a least one.                              *)
WellOrdered == \A S \in SUBSET Nat : S # {} => \E n \in S : \A m \in S : n <= m

-----------------------------------------------------------------------------
(* Least and greatest numbers: where the scans of the queue stop.          *)

(* A nonempty bounded set of numbers has a greatest one.                   *)
LEMMA GreatestExists ==
    ASSUME WellOrdered, NEW N \in Nat, NEW S \in SUBSET (0..N), S # {}
    PROVE  \E n \in S : \A m \in S : m <= n
<1>. DEFINE T == {k \in 0..N : N - k \in S}
<1>1. T \in SUBSET Nat
  OBVIOUS
<1>2. T # {}
  <2>1. PICK n \in S : TRUE
    OBVIOUS
  <2>2. N - n \in T
    BY <2>1
  <2>. QED
    BY <2>2
<1>3. PICK k \in T : \A j \in T : k <= j
  BY <1>1, <1>2 DEF WellOrdered
<1>4. ASSUME NEW m \in S
      PROVE  m <= N - k
  <2>1. N - m \in T
    OBVIOUS
  <2>2. k <= N - m
    BY <1>3, <2>1
  <2>. QED
    BY <1>3, <2>2
<1>. QED
  BY <1>3, <1>4

-----------------------------------------------------------------------------
(* The deque.                                                              *)

Slots == Seq(0..MaxTxid)

Sorted(q) == \A i, j \in Live(q) : i < j => q[i] < q[j]

(* What the elements of a sequence are.                                    *)
LEMMA Elements ==
    ASSUME NEW S, NEW q \in Seq(S)
    PROVE  Len(q) \in Nat /\ DOMAIN q = 1..Len(q) /\ \A i \in 1..Len(q) : q[i] \in S
  OBVIOUS

(* Slots hold txids or tombstones, and live slots hold txids.              *)
LEMMA SlotFacts ==
    ASSUME NEW q \in Slots
    PROVE  /\ Len(q) \in Nat /\ DOMAIN q = 1..Len(q)
           /\ \A i \in 1..Len(q) : q[i] \in 0..MaxTxid
           /\ Live(q) \subseteq 1..Len(q)
           /\ \A i \in Live(q) : q[i] \in 1..MaxTxid
           /\ Txids(q) \subseteq 1..MaxTxid
<1>1. /\ Len(q) \in Nat /\ DOMAIN q = 1..Len(q)
      /\ \A i \in 1..Len(q) : q[i] \in 0..MaxTxid
  BY Elements DEF Slots
<1>2. Live(q) \subseteq 1..Len(q) /\ \A i \in Live(q) : q[i] \in 1..MaxTxid
  BY <1>1, BoundsAssumption DEF Live, Tombstone
<1>3. Txids(q) \subseteq 1..MaxTxid
  BY <1>2 DEF Txids
<1>. QED
  BY <1>1, <1>2, <1>3

(* A sequence put together from a front, an element and a back.            *)
LEMMA ThreePieces ==
    ASSUME NEW S, NEW a \in Seq(S), NEW t \in S, NEW b \in Seq(S)
    PROVE  LET r == a \o <<t>> \o b IN
           /\ r \in Seq(S) /\ Len(r) = Len(a) + 1 + Len(b)
           /\ \A j \in 1..Len(a) : r[j] = a[j]
           /\ r[Len(a) + 1] = t
           /\ \A j \in 1..Len(b) : r[Len(a) + 1 + j] = b[j]
<1>. DEFINE c == Append(a, t)
<1>1. a \o <<t>> = c
  OBVIOUS
<1>2. /\ c \in Seq(S) /\ Len(c) = Len(a) + 1
      /\ \A j \in 1..Len(a) : c[j] = a[j]
      /\ c[Len(a) + 1] = t
  OBVIOUS
<1>. HIDE DEF c
<1>3. /\ c \o b \in Seq(S) /\ Len(c \o b) = Len(c) + Len(b)
      /\ \A j \in 1..Len(c) + Len(b) : (c \o b)[j] = IF j <= Len(c) THEN c[j] ELSE b[j - Len(c)]
  BY <1>2
<1>4. Len(a) \in Nat /\ Len(b) \in Nat
  OBVIOUS
<1>. DEFINE r == c \o b
<1>. HIDE DEF r
<1>5. /\ r \in Seq(S) /\ Len(r) = Len(c) + Len(b)
      /\ \A j \in 1..Len(c) + Len(b) : r[j] = IF j <= Len(c) THEN c[j] ELSE b[j - Len(c)]
  BY <1>3 DEF r
<1>6. ASSUME NEW j \in 1..Len(b)
      PROVE  r[Len(a) + 1 + j] = b[j]
  <2>1. Len(a) + 1 + j \in 1..Len(c) + Len(b) /\ ~(Len(a) + 1 + j <= Len(c)) /\ Len(a) + 1 + j - Len(c) = j
    BY <1>2, <1>4
  <2>. QED
    BY <1>5, <2>1
<1>7. r[Len(a) + 1] = t /\ \A j \in 1..Len(a) : r[j] = a[j]
  BY <1>2, <1>4, <1>5
<1>8. r = a \o <<t>> \o b
  BY <1>1 DEF r
<1>. QED
  BY <1>2, <1>5, <1>6, <1>7, <1>8

(* queue_.insert: the slots up to i stay, the rest moves back by one.      *)
LEMMA InsertAfterSlots ==
    ASSUME NEW q \in Slots, NEW i \in 0..Len(q), NEW t \in 1..MaxTxid
    PROVE  LET r == InsertAfter(q, i, t) IN
           /\ r \in Slots /\ Len(r) = Len(q) + 1
           /\ \A j \in 1..i : r[j] = q[j]
           /\ r[i + 1] = t
           /\ \A j \in i + 1..Len(q) : r[j + 1] = q[j]
<1>. DEFINE a == SubSeq(q, 1, i)
            b == SubSeq(q, i + 1, Len(q))
            S == 0..MaxTxid
<1>0. /\ Len(q) \in Nat /\ t \in S /\ i \in Nat /\ i <= Len(q)
      /\ \A j \in 1..Len(q) : q[j] \in S
  BY SlotFacts, BoundsAssumption
<1>1. a \in Seq(S) /\ Len(a) = i /\ \A j \in 1..i : a[j] = q[j]
  <2>1. \A j \in 1..i : q[j] \in S
    BY <1>0
  <2>2. /\ a \in Seq(S)
        /\ Len(a) = IF 1 <= i THEN i - 1 + 1 ELSE 0
        /\ \A j \in 1..i - 1 + 1 : a[j] = q[1 + j - 1]
    BY <1>0, <2>1
  <2>. QED
    BY <1>0, <2>2
<1>2. /\ b \in Seq(S) /\ Len(b) = Len(q) - i
      /\ \A j \in 1..Len(q) - i : b[j] = q[i + j]
  <2>1. \A j \in i + 1..Len(q) : q[j] \in S
    BY <1>0
  <2>2. /\ b \in Seq(S)
        /\ Len(b) = IF i + 1 <= Len(q) THEN Len(q) - (i + 1) + 1 ELSE 0
        /\ \A j \in 1..Len(q) - (i + 1) + 1 : b[j] = q[i + 1 + j - 1]
    BY <1>0, <2>1
  <2>. QED
    BY <1>0, <2>2
<1>. HIDE DEF a, b, S
<1>3. LET r == a \o <<t>> \o b IN
      /\ r \in Seq(S) /\ Len(r) = i + 1 + (Len(q) - i)
      /\ \A j \in 1..i : r[j] = a[j]
      /\ r[i + 1] = t
      /\ \A j \in 1..Len(q) - i : r[i + 1 + j] = b[j]
  <2>1. LET r == a \o <<t>> \o b IN
        /\ r \in Seq(S) /\ Len(r) = Len(a) + 1 + Len(b)
        /\ \A j \in 1..Len(a) : r[j] = a[j]
        /\ r[Len(a) + 1] = t
        /\ \A j \in 1..Len(b) : r[Len(a) + 1 + j] = b[j]
    <3>1. a \in Seq(S) /\ b \in Seq(S) /\ t \in S
      BY <1>0, <1>1, <1>2
    <3>. QED
      BY ONLY <3>1, ThreePieces
  <2>. QED
    BY <1>1, <1>2, <2>1, Zenon
<1>4. InsertAfter(q, i, t) = a \o <<t>> \o b
  BY DEF InsertAfter, a, b
<1>. DEFINE r == InsertAfter(q, i, t)
<1>. HIDE DEF r
<1>5. /\ r \in Seq(S) /\ Len(r) = i + 1 + (Len(q) - i)
      /\ \A j \in 1..i : r[j] = a[j]
      /\ r[i + 1] = t
      /\ \A j \in 1..Len(q) - i : r[i + 1 + j] = b[j]
  BY <1>3, <1>4 DEF r
<1>6. ASSUME NEW j \in i + 1..Len(q)
      PROVE  r[j + 1] = q[j]
  <2>1. j - i \in 1..Len(q) - i /\ i + 1 + (j - i) = j + 1 /\ i + (j - i) = j
    BY <1>0
  <2>2. r[i + 1 + (j - i)] = b[j - i] /\ b[j - i] = q[i + (j - i)]
    BY <1>2, <1>5, <2>1
  <2>. QED
    BY <2>1, <2>2
<1>7. /\ r \in Seq(S) /\ Len(r) = Len(q) + 1
      /\ \A j \in 1..i : r[j] = q[j]
      /\ r[i + 1] = t
  BY <1>0, <1>1, <1>5
<1>. QED
  BY <1>6, <1>7 DEF r, Slots, S

(* The backward scan stops behind the last entry with a smaller txid.      *)
LEMMA ScanStops ==
    ASSUME WellOrdered, NEW q \in Slots, NEW t \in 1..MaxTxid
    PROVE  /\ LastSmaller(q, t) \in 0..Len(q)
           /\ LastSmaller(q, t) # 0 => LastSmaller(q, t) \in Live(q) /\ q[LastSmaller(q, t)] < t
           /\ \A i \in Live(q) : q[i] < t => i <= LastSmaller(q, t)
<1>0. Len(q) \in Nat /\ Live(q) \subseteq 1..Len(q) /\ Smaller(q, t) \subseteq Live(q)
  BY SlotFacts DEF Smaller
<1>1. CASE Smaller(q, t) = {}
  <2>1. LastSmaller(q, t) = 0
    BY <1>1 DEF LastSmaller
  <2>. QED
    BY <1>0, <1>1, <2>1 DEF Smaller
<1>2. CASE Smaller(q, t) # {}
  <2>1. Smaller(q, t) \in SUBSET (0..Len(q))
    BY <1>0
  <2>2. \E i \in Smaller(q, t) : \A j \in Smaller(q, t) : j <= i
    BY <1>0, <1>2, <2>1, GreatestExists
  <2>3. LastSmaller(q, t) \in Smaller(q, t) /\ \A j \in Smaller(q, t) : j <= LastSmaller(q, t)
    BY <1>2, <2>2 DEF LastSmaller
  <2>. QED
    BY <1>0, <2>3 DEF Smaller
<1>. QED
  BY <1>1, <1>2

(* A late txid lands between the smaller and the greater live entries.     *)
LEMMA InsertKeeps ==
    ASSUME WellOrdered, NEW q \in Slots, Sorted(q), NEW t \in 1..MaxTxid, t \notin Txids(q)
    PROVE  LET r == InsertAfter(q, LastSmaller(q, t), t) IN
           r \in Slots /\ Len(r) = Len(q) + 1 /\ Sorted(r) /\ Txids(r) = Txids(q) \cup {t}
<1>. DEFINE l == LastSmaller(q, t)
            r == InsertAfter(q, l, t)
<1>0. /\ Len(q) \in Nat /\ DOMAIN q = 1..Len(q)
      /\ Live(q) \subseteq 1..Len(q) /\ \A i \in Live(q) : q[i] \in 1..MaxTxid
  BY SlotFacts
<1>1. /\ l \in 0..Len(q)
      /\ l # 0 => l \in Live(q) /\ q[l] < t
      /\ \A i \in Live(q) : q[i] < t => i <= l
  BY ScanStops
<1>. HIDE DEF l
<1>2. /\ r \in Slots /\ Len(r) = Len(q) + 1
      /\ \A j \in 1..l : r[j] = q[j]
      /\ r[l + 1] = t
      /\ \A j \in l + 1..Len(q) : r[j + 1] = q[j]
  BY <1>1, InsertAfterSlots
<1>. HIDE DEF r
<1>3. DOMAIN r = 1..Len(q) + 1
  BY <1>2, SlotFacts
<1>4. ASSUME NEW j \in Live(r)
      PROVE  \/ j <= l /\ j \in Live(q) /\ r[j] = q[j]
             \/ j = l + 1 /\ r[j] = t
             \/ j > l + 1 /\ j - 1 \in Live(q) /\ r[j] = q[j - 1]
  <2>1. j \in 1..Len(q) + 1 /\ r[j] # Tombstone
    BY <1>3 DEF Live
  <2>2. CASE j <= l
    BY <1>0, <1>1, <1>2, <2>1, <2>2 DEF Live
  <2>3. CASE j > l + 1
    <3>1. j - 1 \in l + 1..Len(q) /\ j - 1 + 1 = j /\ j - 1 \in 1..Len(q)
      BY <1>0, <1>1, <2>1, <2>3
    <3>2. r[j] = q[j - 1]
      BY <1>2, <3>1
    <3>. QED
      BY <1>0, <2>1, <2>3, <3>1, <3>2 DEF Live
  <2>. QED
    BY <1>0, <1>1, <1>2, <2>1, <2>2, <2>3
<1>5. \A i \in Live(q) : i <= l => q[i] < t
  BY <1>0, <1>1 DEF Sorted
<1>6. \A i \in Live(q) : i > l => t < q[i]
  <2>1. ASSUME NEW i \in Live(q), i > l
        PROVE  t < q[i]
    <3>1. q[i] # t
      BY DEF Txids
    <3>2. ~(q[i] < t)
      BY <1>0, <1>1, <2>1
    <3>. QED
      BY <1>0, <3>1, <3>2
  <2>. QED
    BY <2>1
<1>7. Sorted(r)
  <2>. SUFFICES ASSUME NEW i \in Live(r), NEW j \in Live(r), i < j
               PROVE  r[i] < r[j]
    BY DEF Sorted
  <2>0. i \in Nat /\ j \in Nat /\ l \in Nat
    BY <1>0, <1>1, <1>3 DEF Live
  <2>1. CASE j <= l
    BY <1>4, <2>0, <2>1 DEF Sorted
  <2>2. CASE j = l + 1
    BY <1>2, <1>4, <1>5, <2>0, <2>2
  <2>3. CASE j > l + 1
    <3>1. j - 1 \in Live(q) /\ r[j] = q[j - 1] /\ t < q[j - 1]
      BY <1>4, <1>6, <2>0, <2>3
    <3>2. CASE i <= l
      BY <1>4, <2>0, <2>3, <3>1, <3>2 DEF Sorted
    <3>3. CASE i = l + 1
      BY <1>2, <3>1, <3>3
    <3>4. CASE i > l + 1
      <4>1. i - 1 \in Live(q) /\ r[i] = q[i - 1] /\ i - 1 < j - 1
        BY <1>4, <2>0, <3>4
      <4>. QED
        BY <3>1, <4>1 DEF Sorted
    <3>. QED
      BY <2>0, <3>2, <3>3, <3>4
  <2>. QED
    BY <2>0, <2>1, <2>2, <2>3
<1>8. Txids(r) \subseteq Txids(q) \cup {t}
  BY <1>4 DEF Txids
<1>9. Txids(q) \cup {t} \subseteq Txids(r)
  <2>1. l + 1 \in Live(r)
    BY <1>0, <1>1, <1>2, <1>3 DEF Live, Tombstone
  <2>2. ASSUME NEW i \in Live(q)
        PROVE  \E j \in Live(r) : r[j] = q[i]
    <3>0. i \in 1..Len(q) /\ q[i] # Tombstone /\ l \in Nat
      BY <1>0, <1>1 DEF Live
    <3>1. CASE i <= l
      <4>1. r[i] = q[i] /\ i \in DOMAIN r
        BY <1>0, <1>2, <1>3, <3>0, <3>1
      <4>. QED
        BY <3>0, <4>1 DEF Live
    <3>2. CASE i > l
      <4>1. r[i + 1] = q[i] /\ i + 1 \in DOMAIN r
        BY <1>0, <1>2, <1>3, <3>0, <3>2
      <4>. QED
        BY <3>0, <4>1 DEF Live
    <3>. QED
      BY <3>0, <3>1, <3>2
  <2>. QED
    BY <1>2, <2>1, <2>2 DEF Txids
<1>. QED
  BY <1>2, <1>7, <1>8, <1>9 DEF r, l

(* Remove leaves a tombstone in the one slot of its txid.                  *)
LEMMA RemoveKeeps ==
    ASSUME NEW q \in Slots, Sorted(q), NEW i \in Live(q)
    PROVE  LET r == [q EXCEPT ![i] = Tombstone] IN
           r \in Slots /\ Len(r) = Len(q) /\ Sorted(r) /\ Txids(r) = Txids(q) \ {q[i]}
<1>. DEFINE r == [q EXCEPT ![i] = Tombstone]
<1>0. /\ Len(q) \in Nat /\ DOMAIN q = 1..Len(q) /\ i \in 1..Len(q)
      /\ \A j \in Live(q) : j \in 1..Len(q) /\ q[j] \in 1..MaxTxid
  BY SlotFacts
<1>1. /\ r \in Slots /\ Len(r) = Len(q)
      /\ \A j \in 1..Len(q) : r[j] = IF j = i THEN Tombstone ELSE q[j]
  <2>1. Tombstone \in 0..MaxTxid
    BY BoundsAssumption DEF Tombstone
  <2>. QED
    BY <1>0, <2>1 DEF Slots
<1>2. DOMAIN r = 1..Len(q)
  BY <1>0
<1>. HIDE DEF r
<1>3. Live(r) = Live(q) \ {i} /\ \A j \in Live(r) : r[j] = q[j]
  BY <1>0, <1>1, <1>2 DEF Live
<1>4. Sorted(r)
  BY <1>3 DEF Sorted
<1>5. \A j \in Live(q) : j # i => q[j] # q[i]
  BY <1>0 DEF Sorted
<1>6. Txids(r) = Txids(q) \ {q[i]}
  BY <1>3, <1>5 DEF Txids
<1>. QED
  BY <1>1, <1>4, <1>6 DEF r

(* The first live entry has the least txid, the last one the greatest.     *)
LEMMA EndsOfQueue ==
    ASSUME NEW q \in Slots, Sorted(q), NEW i \in Live(q)
    PROVE  /\ (\A j \in Live(q) : i <= j) => q[i] = Waiters!Least(Txids(q))
           /\ (\A j \in Live(q) : j <= i) => q[i] = Waiters!Greatest(Txids(q))
<1>0. \A j \in Live(q) : j \in 1..Len(q) /\ q[j] \in 1..MaxTxid
  BY SlotFacts
<1>1. q[i] \in Txids(q) /\ \A t \in Txids(q) : t \in 1..MaxTxid
  BY <1>0 DEF Txids
<1>2. ASSUME \A j \in Live(q) : i <= j
      PROVE  q[i] = Waiters!Least(Txids(q))
  <2>1. \A t \in Txids(q) : q[i] <= t
    BY <1>0, <1>2 DEF Txids, Sorted
  <2>2. \A t \in Txids(q) : (\A u \in Txids(q) : t <= u) => t = q[i]
    BY <1>1, <2>1
  <2>. QED
    BY <1>1, <2>1, <2>2 DEF Waiters!Least
<1>3. ASSUME \A j \in Live(q) : j <= i
      PROVE  q[i] = Waiters!Greatest(Txids(q))
  <2>1. \A t \in Txids(q) : t <= q[i]
    BY <1>0, <1>3 DEF Txids, Sorted
  <2>2. \A t \in Txids(q) : (\A u \in Txids(q) : u <= t) => t = q[i]
    BY <1>1, <2>1
  <2>. QED
    BY <1>1, <2>1, <2>2 DEF Waiters!Greatest
<1>. QED
  BY <1>2, <1>3

(* What is left of the queue from slot n on.                               *)
LEMMA DropKeeps ==
    ASSUME NEW q \in Slots, Sorted(q), NEW n \in 1..Len(q) + 1
    PROVE  LET r == SubSeq(q, n, Len(q)) IN
           /\ r \in Slots /\ Len(r) = Len(q) - n + 1 /\ Sorted(r)
           /\ Txids(r) = {q[i] : i \in {j \in Live(q) : n <= j}}
           /\ n <= Len(q) => r[1] = q[n]
<1>. DEFINE r == SubSeq(q, n, Len(q))
<1>0. /\ Len(q) \in Nat /\ DOMAIN q = 1..Len(q) /\ n \in Nat /\ 1 <= n /\ n <= Len(q) + 1
      /\ \A i \in 1..Len(q) : q[i] \in 0..MaxTxid
      /\ \A i \in Live(q) : i \in 1..Len(q) /\ q[i] \in 1..MaxTxid
  BY SlotFacts
<1>1. r \in Seq(0..MaxTxid) /\ Len(r) = Len(q) - n + 1 /\ \A i \in 1..Len(q) - n + 1 : r[i] = q[n + i - 1]
  <2>1. \A i \in n..Len(q) : q[i] \in 0..MaxTxid
    BY <1>0
  <2>2. /\ r \in Seq(0..MaxTxid)
        /\ Len(r) = IF n <= Len(q) THEN Len(q) - n + 1 ELSE 0
        /\ \A i \in 1..Len(q) - n + 1 : r[i] = q[n + i - 1]
    BY <1>0, <2>1
  <2>. QED
    BY <1>0, <2>2
<1>. HIDE DEF r
<1>2. DOMAIN r = 1..Len(q) - n + 1
  BY <1>1
<1>3. ASSUME NEW i \in Live(r)
      PROVE  i \in Nat /\ n + i - 1 \in Live(q) /\ n <= n + i - 1 /\ r[i] = q[n + i - 1]
  <2>1. i \in 1..Len(q) - n + 1 /\ r[i] # Tombstone
    BY <1>2 DEF Live
  <2>2. n + i - 1 \in 1..Len(q) /\ n <= n + i - 1 /\ i \in Nat
    BY <1>0, <2>1
  <2>. QED
    BY <1>0, <1>1, <2>1, <2>2 DEF Live
<1>4. ASSUME NEW j \in Live(q), n <= j
      PROVE  j - n + 1 \in Live(r) /\ r[j - n + 1] = q[j]
  <2>1. j - n + 1 \in 1..Len(q) - n + 1 /\ n + (j - n + 1) - 1 = j
    BY <1>0, <1>4
  <2>2. r[j - n + 1] = q[j]
    BY <1>1, <2>1
  <2>. QED
    BY <1>2, <2>1, <2>2 DEF Live
<1>5. Sorted(r)
  <2>. SUFFICES ASSUME NEW i \in Live(r), NEW j \in Live(r), i < j
               PROVE  r[i] < r[j]
    BY DEF Sorted
  <2>1. n + i - 1 < n + j - 1
    BY <1>0, <1>3
  <2>. QED
    BY <1>3, <2>1 DEF Sorted
<1>6. Txids(r) = {q[i] : i \in {j \in Live(q) : n <= j}}
  <2>1. \A i \in Live(r) : \E j \in Live(q) : n <= j /\ r[i] = q[j]
    BY <1>3
  <2>2. \A j \in Live(q) : n <= j => \E i \in Live(r) : r[i] = q[j]
    BY <1>4
  <2>. QED
    BY <2>1, <2>2 DEF Txids
<1>7. n <= Len(q) => r[1] = q[n]
  BY <1>0, <1>1
<1>. QED
  BY <1>1, <1>5, <1>6, <1>7 DEF r, Slots

(* Front and PopFront: dropping leading tombstones drops no waiter, the    *)
(* head is the least, and popping it drops exactly that one.               *)
LEMMA TrimKeeps ==
    ASSUME WellOrdered, NEW q \in Slots, Sorted(q)
    PROVE  /\ Trimmed(q) \in Slots /\ Len(Trimmed(q)) <= Len(q) /\ Sorted(Trimmed(q))
           /\ Txids(Trimmed(q)) = Txids(q)
           /\ Trimmed(q) = <<>> <=> Txids(q) = {}
           /\ Trimmed(q) # <<>> =>
                 /\ Trimmed(q)[1] = Waiters!Least(Txids(q))
                 /\ Trimmed(q)[1] \in 1..MaxTxid
                 /\ Tail(Trimmed(q)) \in Slots /\ Len(Tail(Trimmed(q))) <= Len(q)
                 /\ Sorted(Tail(Trimmed(q)))
                 /\ Txids(Tail(Trimmed(q))) = Txids(q) \ {Trimmed(q)[1]}
<1>0. /\ Len(q) \in Nat /\ \A i \in Live(q) : i \in 1..Len(q) /\ q[i] \in 1..MaxTxid
  BY SlotFacts
<1>1. CASE Live(q) = {}
  <2>1. Trimmed(q) = <<>> /\ Txids(q) = {}
    BY <1>1 DEF Trimmed, Txids
  <2>2. <<>> \in Slots /\ Len(<<>>) = 0 /\ Live(<<>>) = {}
    BY DEF Slots, Live
  <2>3. Sorted(<<>>) /\ Txids(<<>>) = {}
    BY <2>2 DEF Sorted, Txids
  <2>. QED
    BY <1>0, <2>1, <2>2, <2>3
<1>2. CASE Live(q) # {}
  <2>. DEFINE f == CHOOSE i \in Live(q) : \A j \in Live(q) : i <= j
              r == SubSeq(q, f, Len(q))
  <2>1. \E i \in Live(q) : \A j \in Live(q) : i <= j
    <3>1. Live(q) \in SUBSET Nat
      BY <1>0
    <3>. QED
      BY ONLY WellOrdered, <1>2, <3>1 DEF WellOrdered
  <2>2. f \in Live(q) /\ \A j \in Live(q) : f <= j
    BY <2>1
  <2>3. Trimmed(q) = r
    BY <1>2 DEF Trimmed
  <2>. HIDE DEF f
  <2>4. f \in 1..Len(q) /\ f \in 1..Len(q) + 1 /\ q[f] \in 1..MaxTxid
    BY <1>0, <2>2
  <2>5. /\ r \in Slots /\ Len(r) = Len(q) - f + 1 /\ Sorted(r)
        /\ Txids(r) = {q[i] : i \in {j \in Live(q) : f <= j}}
        /\ r[1] = q[f]
    BY <2>4, DropKeeps
  <2>. HIDE DEF r
  <2>6. Txids(r) = Txids(q) /\ Txids(q) # {}
    BY <2>2, <2>5 DEF Txids
  <2>7. r[1] = Waiters!Least(Txids(q))
    BY <2>2, <2>5, EndsOfQueue
  <2>8. Len(r) \in Nat /\ 1 <= Len(r) /\ Len(r) <= Len(q) /\ r # <<>>
    <3>1. Len(r) \in Nat /\ 1 <= Len(r) /\ Len(r) <= Len(q)
      BY <1>0, <2>4, <2>5
    <3>2. Len(<<>>) = 0
      OBVIOUS
    <3>. QED
      BY <3>1, <3>2
  <2>9. /\ Tail(r) \in Slots /\ Len(Tail(r)) <= Len(q) /\ Sorted(Tail(r))
        /\ Txids(Tail(r)) = Txids(q) \ {r[1]}
    <3>1. Tail(r) = SubSeq(r, 2, Len(r)) /\ 2 \in 1..Len(r) + 1
      BY <2>5, <2>8 DEF Slots
    <3>2. /\ Tail(r) \in Slots /\ Len(Tail(r)) = Len(r) - 2 + 1 /\ Sorted(Tail(r))
          /\ Txids(Tail(r)) = {r[i] : i \in {j \in Live(r) : 2 <= j}}
      BY <2>5, <3>1, DropKeeps
    <3>3. 1 \in Live(r) /\ \A j \in Live(r) : j \in 1..Len(r) /\ r[j] \in 1..MaxTxid
      <4>1. DOMAIN r = 1..Len(r) /\ \A j \in Live(r) : j \in 1..Len(r) /\ r[j] \in 1..MaxTxid
        BY <2>5, SlotFacts
      <4>. QED
        BY <2>4, <2>5, <2>8, <4>1 DEF Live, Tombstone
    <3>4. \A j \in Live(r) : 2 <= j <=> r[j] # r[1]
      BY <2>5, <3>3 DEF Sorted
    <3>5. Txids(Tail(r)) = Txids(r) \ {r[1]}
      BY <3>2, <3>4 DEF Txids
    <3>. QED
      BY <1>0, <2>6, <2>8, <3>2, <3>5
  <2>. QED
    BY <2>3, <2>4, <2>5, <2>6, <2>7, <2>8, <2>9
<1>. QED
  BY <1>1, <1>2

(* TailTxid looks through trailing tombstones.                             *)
LEMMA TailIsGreatest ==
    ASSUME WellOrdered, NEW q \in Slots, Sorted(q)
    PROVE  TailTxid(q) = Waiters!Greatest(Txids(q)) /\ TailTxid(q) \in 0..MaxTxid
<1>0. Len(q) \in Nat /\ \A i \in Live(q) : i \in 1..Len(q) /\ q[i] \in 1..MaxTxid
  BY SlotFacts
<1>1. CASE Live(q) = {}
  BY <1>1, BoundsAssumption DEF TailTxid, Txids, Waiters!Greatest
<1>2. CASE Live(q) # {}
  <2>. DEFINE g == CHOOSE i \in Live(q) : \A j \in Live(q) : j <= i
  <2>1. Live(q) \in SUBSET (0..Len(q))
    BY <1>0
  <2>2. \E i \in Live(q) : \A j \in Live(q) : j <= i
    BY <1>0, <1>2, <2>1, GreatestExists
  <2>3. g \in Live(q) /\ \A j \in Live(q) : j <= g
    BY <2>2
  <2>4. TailTxid(q) = q[g]
    BY <1>2 DEF TailTxid
  <2>. HIDE DEF g
  <2>5. q[g] = Waiters!Greatest(Txids(q))
    BY <2>3, EndsOfQueue
  <2>. QED
    BY <1>0, <2>3, <2>4, <2>5
<1>. QED
  BY <1>1, <1>2

-----------------------------------------------------------------------------
(* The queue starts empty, as the set of waiters does.                     *)
LEMMA QueueInitEstablishes ==
    ASSUME QueueInit
    PROVE  QueueIInv /\ Waiters!WaitInit
<1>1. deque = <<>> /\ seen = 0
  BY DEF QueueInit
<1>2. <<>> \in Slots /\ Len(<<>>) = 0 /\ Live(<<>>) = {}
  BY DEF Slots, Live
<1>3. QueueIInv
  BY <1>1, <1>2, BoundsAssumption DEF QueueIInv, QueueTypeOK, LiveSorted, Slots
<1>4. Txids(deque) = {}
  BY <1>1, <1>2 DEF Txids
<1>. QED
  BY <1>1, <1>3, <1>4 DEF Waiters!WaitInit

(* Every method keeps the order and is a step of the set of waiters.       *)
LEMMA QueueStepKeeps ==
    ASSUME WellOrdered, QueueIInv, QueueNext
    PROVE  QueueIInv' /\ Waiters!WaitNext
<1>0. /\ deque \in Slots /\ Len(deque) \in Nat /\ Len(deque) <= MaxLength /\ Sorted(deque)
      /\ seen \in 0..MaxTxid
  BY SlotFacts DEF QueueIInv, QueueTypeOK, LiveSorted, Slots, Sorted
<1>. SUFFICES /\ deque' \in Slots /\ Len(deque') <= MaxLength /\ Sorted(deque')
              /\ seen' \in 0..MaxTxid
              /\ Waiters!WaitNext
  BY DEF QueueIInv, QueueTypeOK, LiveSorted, Slots, Sorted, Live, Tombstone
<1>1. ASSUME NEW t \in 1..MaxTxid, Insert(t)
      PROVE  /\ deque' \in Slots /\ Len(deque') <= MaxLength /\ Sorted(deque')
             /\ seen' \in 0..MaxTxid /\ Waiters!WaitNext
  <2>1. /\ deque' \in Slots /\ Len(deque') = Len(deque) + 1 /\ Sorted(deque')
        /\ Txids(deque') = Txids(deque) \cup {t}
    BY <1>0, <1>1, InsertKeeps DEF Insert
  <2>2. Waiters!WaitInsert(t)
    BY <1>1, <2>1 DEF Insert, Waiters!WaitInsert
  <2>3. Len(deque') <= MaxLength /\ seen' \in 0..MaxTxid
    BY <1>0, <1>1, <2>1, BoundsAssumption DEF Insert
  <2>. QED
    BY <2>1, <2>2, <2>3 DEF Waiters!WaitNext
<1>2. ASSUME NEW t \in 1..MaxTxid, Remove(t)
      PROVE  /\ deque' \in Slots /\ Len(deque') <= MaxLength /\ Sorted(deque')
             /\ seen' \in 0..MaxTxid /\ Waiters!WaitNext
  <2>1. PICK i \in Live(deque) : deque[i] = t /\ deque' = [deque EXCEPT ![i] = Tombstone] /\ seen' = seen
    BY <1>2 DEF Remove
  <2>2. /\ deque' \in Slots /\ Len(deque') = Len(deque) /\ Sorted(deque')
        /\ Txids(deque') = Txids(deque) \ {t}
    BY <1>0, <2>1, RemoveKeeps
  <2>3. t \in Txids(deque)
    BY <2>1 DEF Txids
  <2>4. Waiters!WaitRemove(t)
    BY <2>1, <2>2, <2>3 DEF Waiters!WaitRemove
  <2>. QED
    BY <1>0, <2>1, <2>2, <2>4 DEF Waiters!WaitNext
<1>3. ASSUME Front
      PROVE  /\ deque' \in Slots /\ Len(deque') <= MaxLength /\ Sorted(deque')
             /\ seen' \in 0..MaxTxid /\ Waiters!WaitNext
  <2>1. /\ deque' \in Slots /\ Len(deque') <= Len(deque) /\ Sorted(deque')
        /\ Txids(deque') = Txids(deque)
        /\ deque' = <<>> <=> Txids(deque) = {}
        /\ deque' # <<>> => deque'[1] = Waiters!Least(Txids(deque)) /\ deque'[1] \in 1..MaxTxid
    BY <1>0, <1>3, TrimKeeps DEF Front
  <2>2. seen' = Waiters!Least(Txids(deque)) /\ seen' \in 0..MaxTxid
    BY <1>3, <2>1, BoundsAssumption DEF Front, Waiters!Least
  <2>3. Waiters!WaitFront
    BY <2>1, <2>2 DEF Waiters!WaitFront
  <2>4. Len(deque') <= MaxLength
    BY <1>0, <2>1, SlotFacts, BoundsAssumption
  <2>. QED
    BY <2>1, <2>2, <2>3, <2>4 DEF Waiters!WaitNext
<1>4. ASSUME PopFront
      PROVE  /\ deque' \in Slots /\ Len(deque') <= MaxLength /\ Sorted(deque')
             /\ seen' \in 0..MaxTxid /\ Waiters!WaitNext
  <2>1. /\ Txids(deque) # {} /\ seen' = Waiters!Least(Txids(deque)) /\ seen' \in 1..MaxTxid
        /\ deque' \in Slots /\ Len(deque') <= Len(deque) /\ Sorted(deque')
        /\ Txids(deque') = Txids(deque) \ {seen'}
    BY <1>0, <1>4, TrimKeeps DEF PopFront
  <2>2. Waiters!WaitPop
    BY <2>1 DEF Waiters!WaitPop
  <2>3. Len(deque') <= MaxLength /\ seen' \in 0..MaxTxid
    BY <1>0, <2>1, SlotFacts, BoundsAssumption
  <2>. QED
    BY <2>1, <2>2, <2>3 DEF Waiters!WaitNext
<1>5. ASSUME ReadTail
      PROVE  /\ deque' \in Slots /\ Len(deque') <= MaxLength /\ Sorted(deque')
             /\ seen' \in 0..MaxTxid /\ Waiters!WaitNext
  <2>1. seen' = Waiters!Greatest(Txids(deque)) /\ seen' \in 0..MaxTxid /\ deque' = deque
    BY <1>0, <1>5, TailIsGreatest DEF ReadTail
  <2>2. Waiters!WaitTail
    BY <2>1 DEF Waiters!WaitTail
  <2>. QED
    BY <1>0, <2>1, <2>2 DEF Waiters!WaitNext
<1>. QED
  BY <1>1, <1>2, <1>3, <1>4, <1>5 DEF QueueNext

-----------------------------------------------------------------------------
(* The theorems.                                                           *)
INSTANCE FiniteSetTheorems
INSTANCE WellFoundedInduction

(* Owners are finitely many, so Cardinality counts them.                   *)
LEMMA OwnersCounted == Counting
<1>1. ASSUME NEW S \in SUBSET Owners PROVE IsFiniteSet(S)
  BY FS_Subset, WantsAssumption
<1>2. ASSUME NEW S \in SUBSET Owners PROVE Cardinality(S) \in Nat /\ (Cardinality(S) = 0 => S = {})
  BY <1>1, FS_EmptySet, FS_CardinalityType
<1>3. ASSUME NEW S \in SUBSET Owners, NEW o \in Owners \ S
      PROVE  Cardinality(S \cup {o}) = Cardinality(S) + 1
  BY <1>1, FS_AddElement
<1>. QED
  BY <1>2, <1>3, FS_EmptySet DEF Counting

(* The order of the natural numbers is well-founded.                       *)
LEMMA NumbersOrdered == WellOrdered
<1>. SUFFICES ASSUME NEW S \in SUBSET Nat, S # {}
              PROVE  \E n \in S : \A m \in S : n <= m
  BY DEF WellOrdered
<1>1. PICK n \in S : \A m \in S : ~(<<m, n>> \in OpToRel(<, Nat))
  BY NatLessThanWellFounded, WFMin
<1>2. \A m \in S : ~(m < n)
  BY <1>1 DEF OpToRel
<1>. QED
  BY <1>2

(* The strengthened invariant holds in every state of the table.           *)
THEOREM Invariance == Spec => []IInv
<1>1. Init => IInv
  BY OwnersCounted, InitEstablishes
<1>2. IInv /\ [Next]_vars => IInv'
  BY OwnersCounted, StepKeeps, StutterKeeps
<1>. QED
  BY <1>1, <1>2, PTL DEF Spec

(* The table keeps its type: no decrement of a LockTable method takes a     *)
(* counter below zero, for any owners and lock sets.                        *)
THEOREM TypeCorrect == Spec => []TypeOK
<1>1. IInv => TypeOK
  BY DEF IInv
<1>. QED
  BY <1>1, Invariance, PTL

(* The counters never leak or lose an owner: each equals the number of      *)
(* owners whose lock set it stands for.                                    *)
THEOREM CountersAreOwners == Spec => []CountersExact
<1>1. IInv => CountersExact
  BY DEF IInv
<1>. QED
  BY <1>1, Invariance, PTL

(* An entry disappears with its last intent, and never before it.           *)
THEOREM EntriesAreUsed == Spec => []EntriesExact
<1>1. IInv => EntriesExact
  BY DEF IInv
<1>. QED
  BY <1>1, Invariance, PTL

(* No two owners hold clashing lock sets: what the assertions of           *)
(* AcquireHold and ReleaseHold rely on.                                    *)
THEOREM MutualExclusion == Spec => []HoldersCompatible
<1>1. IInv => HoldersCompatible
  BY DEF IInv
<1>. QED
  BY <1>1, Invariance, PTL

(* The counters implement the lock sets with which TxScheduler reasons:    *)
(* every answer of AcquireIntents, TryFastPath and CanHoldAll is theirs.   *)
THEOREM Refinement == Spec => ImplementsSets
<1>1. Init => Sets!SetInit
  BY OwnersCounted, InitEstablishes
<1>2. IInv /\ [Next]_vars => [Sets!SetNext]_(Sets!setVars)
  BY OwnersCounted, StepKeeps, StutterKeeps
<1>. QED
  BY <1>1, <1>2, Invariance, PTL DEF Spec, ImplementsSets, Sets!SetSpec

(* The live entries are in txid order in every state of the queue, for any *)
(* txids, length and pattern of tombstones (TxQueue::Insert and Remove).   *)
THEOREM QueueOrder == QueueSpec => [](QueueTypeOK /\ LiveSorted)
<1>1. QueueInit => QueueIInv
  BY QueueInitEstablishes
<1>2. QueueIInv /\ [QueueNext]_queueVars => QueueIInv'
  <2>1. QueueIInv /\ UNCHANGED queueVars => QueueIInv'
    BY DEF QueueIInv, queueVars, QueueTypeOK, LiveSorted, Live, Tombstone
  <2>. QED
    BY <2>1, NumbersOrdered, QueueStepKeeps
<1>. QED
  BY <1>1, <1>2, PTL DEF QueueSpec, QueueIInv

(* The deque implements the set of waiters that TxScheduler uses: Front    *)
(* answers with the least txid, TailTxid with the greatest, and tombstones *)
(* never show.                                                             *)
THEOREM QueueRefinement == QueueSpec => ImplementsWaitSet
<1>1. QueueInit => Waiters!WaitInit
  BY QueueInitEstablishes
<1>2. QueueIInv /\ [QueueNext]_queueVars => [Waiters!WaitNext]_(Waiters!waitVars)
  <2>1. UNCHANGED queueVars => UNCHANGED Waiters!waitVars
    BY DEF queueVars, Waiters!waitVars, Txids, Live, Tombstone
  <2>. QED
    BY <2>1, NumbersOrdered, QueueStepKeeps
<1>3. QueueSpec => []QueueIInv
  BY QueueOrder, PTL DEF QueueIInv
<1>. QED
  BY <1>1, <1>2, <1>3, PTL DEF QueueSpec, ImplementsWaitSet, Waiters!WaitSpec
=============================================================================
