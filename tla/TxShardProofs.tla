--------------------------- MODULE TxShardProofs ---------------------------
(***************************************************************************)
(* What one shard of TxScheduler keeps under each of its steps: the lemmas *)
(* below are about Poll and the shard-side handlers, for any set of        *)
(* operations and keys, and end with the Touch that each handler is.       *)
(* TxSchedulerProofs builds on them.                                       *)
(***************************************************************************)
EXTENDS TxHistory, TLAPS

(* Incompatibility of lock sets is symmetric, as in LockTable's counters.  *)
LEMMA ConflictSymmetric ==
    ASSUME NEW a \in Ops, NEW b \in Ops, NEW s \in Shards, Conflict(a, b, s)
    PROVE  Conflict(b, a, s)
  BY DEF Conflict, Conflicts

(* A transaction whose Seal found one owner has no second participant.     *)
LEMMA SingleParticipant ==
    ASSUME NEW o \in Ops, ~Multi(o), NEW s \in Participants(o), NEW t \in Participants(o)
    PROVE  s = t
  BY DEF Multi, MultiShard, Participants

(* What a shard looks like when Poll is entered: at most the entry that    *)
(* has just been armed is bypass-ready.                                    *)
BypassShape(sh) ==
    \/ sh.bypass = <<>>
    \/ \E o \in sh.granted \cap sh.queue \cap (sh.armed \ sh.running) : sh.bypass = <<o>>

Bypassing(sh) == {sh.bypass[i] : i \in 1..Len(sh.bypass)}

(* Poll's bypass loop never meets an entry that cannot hold.               *)
LEMMA BypassUnblocked ==
    ASSUME NEW s \in Shards, NEW sh \in ShardType, ShardInv(sh, s), BypassShape(sh)
    PROVE  BypassRest(sh, s) = <<>> /\ BypassStarts(sh, s) = Bypassing(sh)
<1>1. CASE sh.bypass = <<>>
  <2>1. Len(sh.bypass) = 0 /\ BlockedEntries(sh, s) = {}
    BY <1>1 DEF BlockedEntries
  <2>2. BypassEnd(sh, s) = 1
    BY <2>1 DEF BypassEnd
  <2>. QED
    BY <2>1, <2>2 DEF BypassRest, BypassStarts, ReadyBefore, Bypassing
<1>2. ASSUME NEW o \in sh.granted \cap sh.queue \cap (sh.armed \ sh.running), sh.bypass = <<o>>
      PROVE  BypassRest(sh, s) = <<>> /\ BypassStarts(sh, s) = Bypassing(sh)
  <2>1. Len(sh.bypass) = 1 /\ sh.bypass[1] = o /\ Ready(sh, 1)
    BY <1>2 DEF Ready
  <2>2. ReadyBefore(sh, 1) = {}
    BY DEF ReadyBefore
  <2>3. ASSUME NEW a \in sh.holds, o \notin sh.holds
        PROVE  ~Conflict(a, o, s)
    BY <1>2, <2>3 DEF ShardInv, ShardType
  <2>4. BlockedEntries(sh, s) = {}
    BY <2>1, <2>2, <2>3 DEF BlockedEntries
  <2>5. BypassEnd(sh, s) = 2
    BY <2>1, <2>4 DEF BypassEnd
  <2>6. ReadyBefore(sh, 2) = {o} /\ Bypassing(sh) = {o}
    BY <2>1 DEF ReadyBefore, Bypassing
  <2>. QED
    BY <2>1, <2>5, <2>6 DEF BypassRest, BypassStarts
<1>. QED
  BY <1>1, <1>2 DEF BypassShape

(* The fields Poll writes keep their types.                                *)
LEMMA UpdatedShard ==
    ASSUME NEW q \in ShardType, NEW c \in Nat, NEW A \in SUBSET Ops, NEW R \in SUBSET Ops,
           NEW Q \in SUBSET Ops
    PROVE  [q EXCEPT !.committed = c, !.armed = A, !.running = R, !.queue = Q,
                     !.bypass = <<>>] \in ShardType
<1>1. <<>> \in Seq(Ops)
  OBVIOUS
<1>. QED
  BY <1>1, Zenon DEF ShardType

(* max over the watermark and at most two txids.                           *)
LEMMA GreatestOfThree ==
    ASSUME NEW c0 \in Nat, NEW f, NEW S, NEW b, NEW h, S \subseteq {b, h},
           \A o \in S : f[o] \in Nat
    PROVE  \E c \in {c0} \cup {f[o] : o \in S} : c >= c0 /\ \A o \in S : c >= f[o]
<1>. DEFINE T == {c0} \cup {f[o] : o \in S}
<1>1. PICK x \in T : x >= c0 /\ (b \in S => x >= f[b])
  BY DEF T
<1>2. PICK y \in T : y >= x /\ (h \in S => y >= f[h])
  BY <1>1
<1>3. x \in Nat /\ y \in Nat
  BY <1>1, <1>2
<1>4. y >= c0 /\ \A o \in S : y >= f[o]
  BY <1>1, <1>2, <1>3
<1>. QED
  BY <1>2, <1>4

(* The outcome of Poll in terms of the set S of operations it starts.      *)
PollOutcome(sh, r, S) ==
    /\ r.intents = sh.intents
    /\ r.granted = sh.granted
    /\ r.node = sh.node
    /\ r.bypass = <<>>
    /\ r.holds = sh.holds \cup S
    /\ r.armed = sh.armed \ S
    /\ r.running = sh.running \cup S
    /\ r.queue = sh.queue \ {h \in S : ~Multi(h)}

\* What Poll records of them: the history, and the txids it publishes.
PollRecord(sh, r, S, s) ==
    /\ r.served = sh.served \cup S
    /\ r.before = sh.before \cup {p \in sh.served \X (S \ sh.holds) : Conflict(p[1], p[2], s)}
    /\ r.committed \in {sh.committed} \cup {sh.node[o] : o \in S}
    /\ r.committed >= sh.committed
    /\ \A o \in S : r.committed >= sh.node[o]

\* What Poll may start.
Startable(sh, S, s) ==
    /\ S \subseteq sh.queue
    /\ \A o \in S : Multi(o) => o \in sh.armed \ sh.running
    /\ \A o \in S : o \in sh.granted \/ IsFront(sh, o)
    /\ \A o \in S \ sh.holds : \A a \in (sh.holds \cup S) \ {o} : ~Conflict(a, o, s)

(* Everything Poll starts is a bypass-ready or head entry that conflicts   *)
(* with no holder and with nothing else it starts.                         *)
LEMMA PollStarts ==
    ASSUME NEW s \in Shards, NEW sh \in ShardType, ShardInv(sh, s), BypassShape(sh)
    PROVE  \E S \in SUBSET sh.queue :
              /\ Startable(sh, S, s)
              /\ PollOutcome(sh, Poll(sh, s), S)
              /\ PollRecord(sh, Poll(sh, s), S, s)
              /\ Poll(sh, s) \in ShardType
<1>. DEFINE B == Bypassing(sh)
            H == HeadStarts(sh, B, s)
            S == B \cup H
<1>1. CASE sh.queue = {}
  <2>1. sh.bypass = <<>>
    BY <1>1 DEF BypassShape
  <2>2. Poll(sh, s) = sh
    BY <1>1 DEF Poll
  <2>3. PollOutcome(sh, sh, {}) /\ Startable(sh, {}, s)
    BY <2>1 DEF PollOutcome, Startable, ShardType
  <2>4. PollRecord(sh, sh, {}, s)
    BY DEF PollRecord, ShardType
  <2>. QED
    BY <2>2, <2>3, <2>4
<1>2. CASE sh.queue # {}
  <2>1. BypassRest(sh, s) = <<>> /\ BypassStarts(sh, s) = B
    BY BypassUnblocked
  <2>2. /\ B = {} \/ \E b \in Ops : B = {b}
        /\ B \subseteq sh.granted \cap sh.queue \cap (sh.armed \ sh.running)
    BY DEF BypassShape, Bypassing, ShardType
  <2>3. H = {} \/ \E h \in Ops : H = {h}
    <3>1. \A g, h \in H : g = h
      BY DEF HeadStarts, IsFront, ShardInv, ShardType
    <3>2. H \subseteq Ops
      BY DEF HeadStarts, ShardType
    <3>. QED
      BY <3>1, <3>2
  <2>4. /\ Published(sh, S) \in Nat
        /\ Published(sh, S) \in {sh.committed} \cup {sh.node[o] : o \in S}
        /\ Published(sh, S) >= sh.committed
        /\ \A o \in S : Published(sh, S) >= sh.node[o]
    <3>1. sh.committed \in Nat /\ \A o \in S : sh.node[o] \in Nat
      BY <2>2, <2>3 DEF ShardType
    <3>2. \E c \in {sh.committed} \cup {sh.node[o] : o \in S} :
             c >= sh.committed /\ \A o \in S : c >= sh.node[o]
      <4>1. \E b, h : S \subseteq {b, h}
        <5>. HIDE DEF B, H
        <5>. QED
          BY <2>2, <2>3
      <4>. HIDE DEF S
      <4>. QED
        BY <4>1, <3>1, GreatestOfThree, Zenon
    <3>3. /\ Published(sh, S) \in {sh.committed} \cup {sh.node[o] : o \in S}
          /\ Published(sh, S) >= sh.committed /\ \A o \in S : Published(sh, S) >= sh.node[o]
      BY <3>2 DEF Published
    <3>. QED
      BY <3>1, <3>3
  <2>5. Poll(sh, s) = [AcquireHolds(sh, S, s) EXCEPT
                          !.committed = Published(sh, S),
                          !.armed = @ \ S,
                          !.running = @ \cup B \cup H,
                          !.queue = @ \ {h \in H : ~Multi(h)},
                          !.bypass = <<>>]
    BY <1>2, <2>1 DEF Poll
  <2>6. \A h \in B : Multi(h)
    BY <2>2 DEF ShardInv, Multi
  <2>7. PollOutcome(sh, Poll(sh, s), S)
    BY <2>5, <2>6 DEF PollOutcome, AcquireHolds, ShardType
  <2>8. Startable(sh, S, s)
    <3>1. S \subseteq sh.queue
      BY <2>2 DEF HeadStarts
    <3>2. \A o \in S : Multi(o) => o \in sh.armed \ sh.running
      BY <2>2 DEF HeadStarts
    <3>3. \A o \in S : o \in sh.granted \/ IsFront(sh, o)
      BY <2>2 DEF HeadStarts
    <3>4. ASSUME NEW o \in S \ sh.holds, NEW a \in (sh.holds \cup S) \ {o}
          PROVE  ~Conflict(a, o, s)
      <4>1. CASE o \in H
        BY <4>1, <3>4, <2>3 DEF HeadStarts
      <4>2. CASE o \in B /\ a \in sh.holds
        BY <4>2, <3>4, <2>2 DEF ShardInv, ShardType
      <4>3. CASE o \in B /\ a \in H /\ a \notin sh.holds
        <5>1. ~Conflict(o, a, s)
          BY <4>3 DEF HeadStarts
        <5>. QED
          BY <5>1, <4>3, <3>1, ConflictSymmetric DEF ShardType
      <4>. QED
        BY <4>1, <4>2, <4>3, <3>4, <2>2
    <3>. QED
      BY <3>1, <3>2, <3>3, <3>4 DEF Startable
  <2>9. Poll(sh, s) \in ShardType
    <3>1. S \subseteq Ops
      BY <2>2, <2>3
    <3>2. AcquireHolds(sh, S, s) \in ShardType
      BY <3>1, Zenon DEF AcquireHolds, ShardType
    <3>. DEFINE q == AcquireHolds(sh, S, s)
    <3>3. /\ q.armed \ S \in SUBSET Ops
          /\ q.running \cup B \cup H \in SUBSET Ops
          /\ q.queue \ {h \in H : ~Multi(h)} \in SUBSET Ops
      BY <3>1, <3>2, Zenon DEF ShardType
    <3>4. q \in ShardType /\ Published(sh, S) \in Nat
      BY <2>4, <3>2
    <3>5. [q EXCEPT !.committed = Published(sh, S), !.armed = q.armed \ S,
                    !.running = q.running \cup B \cup H,
                    !.queue = q.queue \ {h \in H : ~Multi(h)}, !.bypass = <<>>] \in ShardType
      <4>. HIDE DEF q, S, B, H
      <4>. QED
        BY <3>3, <3>4, UpdatedShard, Zenon
    <3>. QED
      BY <2>5, <3>5, Zenon
  <2>10. PollRecord(sh, Poll(sh, s), S, s)
    <3>. DEFINE q == AcquireHolds(sh, S, s)
                E == {p \in sh.served \X (S \ sh.holds) : Conflict(p[1], p[2], s)}
    <3>1. q = [sh EXCEPT !.holds = @ \cup S, !.served = @ \cup S, !.before = @ \cup E]
      BY DEF AcquireHolds
    <3>. HIDE DEF E
    <3>2. /\ q.served = sh.served \cup S /\ q.before = sh.before \cup E
          /\ DOMAIN q = DOMAIN sh
      BY <3>1 DEF ShardType
    <3>. HIDE DEF q
    <3>3. /\ Poll(sh, s).served = q.served /\ Poll(sh, s).before = q.before
          /\ Poll(sh, s).committed = Published(sh, S)
      BY <2>5, <3>2 DEF q, ShardType
    <3>. QED
      BY <2>4, <3>2, <3>3 DEF PollRecord, E
  <2>. QED
    BY <2>7, <2>8, <2>9, <2>10 DEF Startable
<1>. QED
  BY <1>1, <1>2

(* Poll preserves what the shard promises.                                 *)
LEMMA PollPreserves ==
    ASSUME NEW s \in Shards, NEW sh \in ShardType, ShardInv(sh, s), BypassShape(sh)
    PROVE  \E S \in SUBSET sh.queue :
              /\ Startable(sh, S, s)
              /\ PollOutcome(sh, Poll(sh, s), S)
              /\ Poll(sh, s) \in ShardType
              /\ ShardInv(Poll(sh, s), s)
<1>1. PICK S \in SUBSET sh.queue : /\ Startable(sh, S, s)
                                   /\ PollOutcome(sh, Poll(sh, s), S)
                                   /\ Poll(sh, s) \in ShardType
  BY PollStarts
<1>. DEFINE r == Poll(sh, s)
<1>2. S \subseteq Ops /\ sh.holds \subseteq Ops /\ sh.intents \subseteq Ops /\ sh.node \in [Ops -> Nat]
  BY DEF ShardType
<1>3. r.holds \cup r.queue \subseteq r.intents /\ r.granted \subseteq MultiShard
  BY <1>1 DEF ShardInv, PollOutcome
<1>4. \A a, b \in r.queue : a # b => r.node[a] # r.node[b]
  BY <1>1 DEF ShardInv, PollOutcome
<1>5. ASSUME NEW a \in r.holds, NEW b \in r.holds, a # b
      PROVE  ~Conflict(a, b, s)
  <2>1. CASE a \in sh.holds /\ b \in sh.holds
    BY <2>1, <1>5 DEF ShardInv
  <2>2. CASE b \notin sh.holds
    BY <2>2, <1>1, <1>5 DEF Startable, PollOutcome
  <2>3. CASE a \notin sh.holds
    <3>1. ~Conflict(b, a, s)
      BY <2>3, <1>1, <1>5 DEF Startable, PollOutcome
    <3>2. a \in Ops /\ b \in Ops
      BY <1>1, <1>2, <1>5 DEF PollOutcome
    <3>. QED
      BY <3>1, <3>2, ConflictSymmetric
  <2>. QED
    BY <2>1, <2>2, <2>3
<1>6. ASSUME NEW b \in (r.granted \cap r.queue) \ r.holds, NEW a \in r.intents \ {b}, Conflict(a, b, s)
      PROVE  a \in r.queue \ (r.holds \cup r.granted) /\ r.node[b] < r.node[a]
  <2>1. b \in (sh.granted \cap sh.queue) \ sh.holds /\ a \in sh.intents \ {b}
    BY <1>1, <1>6 DEF PollOutcome
  <2>2. a \in sh.queue \ (sh.holds \cup sh.granted) /\ sh.node[b] < sh.node[a]
    BY <2>1, <1>6 DEF ShardInv
  <2>3. a \notin S
    <3>1. sh.node[a] \in Nat /\ sh.node[b] \in Nat
      BY <2>1, <2>2, <1>2 DEF ShardType
    <3>2. ~(sh.node[a] <= sh.node[b])
      BY <2>2, <3>1
    <3>3. ~IsFront(sh, a)
      BY <2>1, <3>2 DEF IsFront
    <3>. QED
      BY <2>2, <3>3, <1>1 DEF Startable
  <2>. QED
    BY <2>2, <2>3, <1>1 DEF PollOutcome
<1>. QED
  BY <1>1, <1>3, <1>4, <1>5, <1>6 DEF ShardInv

-----------------------------------------------------------------------------
(* Poll moves an operation only by starting it.                            *)
LEMMA PollStanding ==
    ASSUME NEW s \in Shards, NEW sh \in ShardType, ShardInv(sh, s), BypassShape(sh)
    PROVE  /\ \A p \in Ops : SameStanding(p, sh, Poll(sh, s)) \/ Started(p, sh, Poll(sh, s))
           /\ Poll(sh, s) \in ShardType
           /\ ShardInv(Poll(sh, s), s)
           /\ Poll(sh, s).bypass = <<>>
           /\ Poll(sh, s).node = sh.node
<1>1. PICK S \in SUBSET sh.queue : /\ Startable(sh, S, s)
                                   /\ PollOutcome(sh, Poll(sh, s), S)
                                   /\ Poll(sh, s) \in ShardType
                                   /\ ShardInv(Poll(sh, s), s)
  BY PollPreserves
<1>2. ASSUME NEW p \in Ops, p \in S
      PROVE  Started(p, sh, Poll(sh, s))
  <2>1. p \in sh.queue /\ p \in Poll(sh, s).holds \cap Poll(sh, s).running /\ p \notin Poll(sh, s).armed
    BY <1>1, <1>2 DEF PollOutcome
  <2>2. Multi(p) => p \in sh.armed \ sh.running /\ p \in Poll(sh, s).queue
    BY <1>1, <1>2 DEF Startable, PollOutcome
  <2>3. ~Multi(p) => p \notin Poll(sh, s).queue
    BY <1>1, <1>2 DEF PollOutcome
  <2>. QED
    BY <2>1, <2>2, <2>3 DEF Started
<1>3. ASSUME NEW p \in Ops, p \notin S
      PROVE  SameStanding(p, sh, Poll(sh, s))
  BY <1>1, <1>3 DEF PollOutcome, SameStanding
<1>. QED
  BY <1>1, <1>2, <1>3 DEF PollOutcome

(* Poll starts a granted entry, which everybody in conflict is queued      *)
(* behind, or the head, which everybody is queued behind.                  *)
LEMMA PollOrderly ==
    ASSUME NEW s \in Shards, NEW sh \in ShardType, NEW m \in ShardType, ShardInv(m, s), BypassShape(m),
           m.node = sh.node, m.queue \subseteq sh.queue, m.holds \subseteq sh.holds
    PROVE  Orderly(sh, Poll(m, s), s)
<1>1. PICK S \in SUBSET m.queue : Startable(m, S, s) /\ PollOutcome(m, Poll(m, s), S)
  BY PollPreserves
<1>. DEFINE r == Poll(m, s)
<1>2. ASSUME NEW o \in r.holds \ sh.holds, NEW w \in (sh.queue \cap r.queue) \ (sh.holds \cup {o}),
             Conflict(o, w, s)
      PROVE  o \in sh.queue /\ sh.node[o] < sh.node[w]
  <2>1. o \in S /\ o \in m.queue /\ o \notin m.holds /\ w \in m.queue /\ w # o
    BY <1>1, <1>2 DEF PollOutcome
  <2>2. o \in Ops /\ w \in Ops /\ m.node[o] \in Nat /\ m.node[w] \in Nat /\ w \in m.intents
    BY <2>1 DEF ShardType, ShardInv
  <2>3. CASE o \in m.granted
    <3>1. Conflict(w, o, s)
      BY <1>2, <2>2, ConflictSymmetric
    <3>. QED
      BY <2>1, <2>2, <2>3, <3>1 DEF ShardInv
  <2>4. CASE IsFront(m, o)
    <3>1. m.node[o] <= m.node[w] /\ m.node[o] # m.node[w]
      BY <2>1, <2>4 DEF IsFront, ShardInv
    <3>. QED
      BY <2>1, <2>2, <3>1
  <2>. QED
    BY <1>1, <2>1, <2>3, <2>4 DEF Startable
<1>. QED
  BY <1>2 DEF Orderly

(* An accepted schedule request takes a queue position and keeps every     *)
(* promise: it is granted only without conflicts, and otherwise goes       *)
(* behind everything that is queued.                                       *)
LEMMA ScheduleEffect ==
    ASSUME NEW s \in Shards, NEW sh \in ShardType, ShardInv(sh, s), sh.bypass = <<>>,
           NEW o \in Ops, Multi(o), Absent(o, sh), NEW id \in Nat,
           \A q \in sh.queue : sh.node[q] # id, ~ScheduleFails(sh, o, s, id)
    PROVE  LET r == ScheduleInShard(sh, o, s, id)
           IN  Effect(o, sh, r, s) /\ Placed(o, r) /\ o \notin r.holds /\ r.node[o] = id
<1>. DEFINE G == IF Grantable(sh, o, s) THEN sh.granted \cup {o} ELSE sh.granted \ {o}
            r == [sh EXCEPT !.intents = @ \cup {o}, !.queue = @ \cup {o},
                            !.node = [@ EXCEPT ![o] = id], !.granted = G]
<1>1. ScheduleInShard(sh, o, s, id) = r
  BY DEF ScheduleInShard
<1>2. G \in SUBSET Ops /\ sh.node \in [Ops -> Nat] /\ sh.queue \subseteq Ops
  BY DEF ShardType
<1>. HIDE DEF G
<1>3. r \in ShardType
  <2>1. [sh.node EXCEPT ![o] = id] \in [Ops -> Nat]
    BY <1>2
  <2>2. sh.intents \cup {o} \in SUBSET Ops /\ sh.queue \cup {o} \in SUBSET Ops
    BY DEF ShardType
  <2>. QED
    BY <1>2, <2>1, <2>2, Zenon DEF ShardType
<1>4. /\ r.intents = sh.intents \cup {o} /\ r.queue = sh.queue \cup {o}
      /\ r.holds = sh.holds /\ r.armed = sh.armed /\ r.running = sh.running
      /\ r.granted = G /\ r.bypass = <<>> /\ r.node = [sh.node EXCEPT ![o] = id]
  BY DEF ShardType
<1>5. r.node[o] = id /\ \A p \in Ops \ {o} : r.node[p] = sh.node[p]
  BY <1>2, <1>4
<1>. HIDE DEF r
<1>6. o \notin sh.intents /\ o \notin sh.queue /\ o \notin sh.holds /\ o \notin sh.armed /\ o \notin sh.running
  BY DEF Absent
<1>7. ShardInv(r, s)
  <2>1. r.holds \cup r.queue \subseteq r.intents /\ r.granted \subseteq MultiShard
    BY <1>4 DEF ShardInv, G, Multi
  <2>2. \A a, b \in r.queue : a # b => r.node[a] # r.node[b]
    BY <1>2, <1>4, <1>5 DEF ShardInv
  <2>3. \A a, b \in r.holds : a # b => ~Conflict(a, b, s)
    BY <1>4 DEF ShardInv
  <2>4. ASSUME NEW b \in (r.granted \cap r.queue) \ r.holds, NEW a \in r.intents \ {b}, Conflict(a, b, s)
        PROVE  a \in r.queue \ (r.holds \cup r.granted) /\ r.node[b] < r.node[a]
    <3>1. CASE b = o
      <4>1. Grantable(sh, o, s) /\ a \in sh.intents
        BY <2>4, <3>1, <1>4 DEF G
      <4>. QED
        BY <4>1, <2>4, <3>1 DEF Grantable
    <3>2. CASE b # o /\ a = o
      <4>1. b \in (sh.granted \cap sh.queue) \ sh.holds
        BY <3>2, <2>4, <1>4 DEF G
      <4>2. b \in sh.intents /\ b \in Ops /\ Conflict(b, o, s)
        BY <4>1, <3>2, <2>4, <1>2, ConflictSymmetric DEF ShardInv
      <4>3. ~Grantable(sh, o, s)
        BY <4>2 DEF Grantable
      <4>4. ~(id < sh.node[b])
        BY <4>1, <4>3 DEF ScheduleFails, Reordered, BeforeTail
      <4>5. sh.node[b] < id
        BY <4>1, <4>2, <4>4, <1>2
      <4>. QED
        BY <4>2, <4>3, <4>5, <3>2, <1>4, <1>5, <1>6 DEF G
    <3>3. CASE b # o /\ a # o
      <4>1. b \in (sh.granted \cap sh.queue) \ sh.holds /\ a \in sh.intents \ {b}
        BY <3>3, <2>4, <1>4 DEF G
      <4>2. a \in sh.queue \ (sh.holds \cup sh.granted) /\ sh.node[b] < sh.node[a]
        BY <4>1, <2>4 DEF ShardInv
      <4>. QED
        BY <4>1, <4>2, <3>3, <1>2, <1>4, <1>5, SMTT(60) DEF G
    <3>. QED
      BY <3>1, <3>2, <3>3
  <2>. QED
    BY <2>1, <2>2, <2>3, <2>4 DEF ShardInv
<1>8. Orderly(sh, r, s) /\ \A p \in Ops \ {o} : SameStanding(p, sh, r)
  BY <1>4 DEF SameStanding, Orderly
<1>. QED
  BY <1>1, <1>3, <1>4, <1>5, <1>6, <1>7, <1>8 DEF Effect, Placed

(* Every shard step that ends in Poll: if the shard keeps its promises     *)
(* just before Poll and nobody but o has moved, the step is about o.       *)
LEMMA PollEffect ==
    ASSUME NEW s \in Shards, NEW sh \in ShardType, NEW m \in ShardType, ShardInv(m, s),
           BypassShape(m), NEW o \in Ops, m.node = sh.node, m.queue \subseteq sh.queue,
           m.holds \subseteq sh.holds, \A p \in Ops \ {o} : SameStanding(p, sh, m)
    PROVE  /\ Effect(o, sh, Poll(m, s), s)
           /\ SameStanding(o, m, Poll(m, s)) \/ Started(o, m, Poll(m, s))
           /\ Poll(m, s).node = sh.node
<1>. DEFINE r == Poll(m, s)
<1>1. /\ \A p \in Ops : SameStanding(p, m, r) \/ Started(p, m, r)
      /\ r \in ShardType /\ ShardInv(r, s) /\ r.bypass = <<>> /\ r.node = m.node
      /\ Orderly(sh, r, s)
  BY PollStanding, PollOrderly
<1>. HIDE DEF r
<1>2. ASSUME NEW p \in Ops \ {o}
      PROVE  SameStanding(p, sh, r) \/ Started(p, sh, r)
  <2>1. SameStanding(p, sh, m)
    OBVIOUS
  <2>2. CASE SameStanding(p, m, r)
    BY <2>1, <2>2 DEF SameStanding
  <2>3. CASE Started(p, m, r)
    BY <2>1, <2>3 DEF SameStanding, Started
  <2>. QED
    BY <2>2, <2>3, <1>1
<1>3. Effect(o, sh, r, s)
  BY <1>1, <1>2 DEF Effect
<1>. QED
  BY <1>1, <1>3 DEF r

(* A shard without o keeps its promises.                                   *)
LEMMA WithoutShardInv ==
    ASSUME NEW s \in Shards, NEW sh \in ShardType, NEW m \in ShardType, ShardInv(sh, s),
           NEW o \in Ops, m.node = sh.node, m.granted \subseteq sh.granted,
           sh.granted \subseteq m.granted \cup {o},
           m.intents = sh.intents \ {o}, m.queue = sh.queue \ {o}, m.holds = sh.holds \ {o}
    PROVE  ShardInv(m, s)
<1>1. /\ m.holds \cup m.queue \subseteq m.intents /\ m.granted \subseteq MultiShard
      /\ \A a, b \in m.queue : a # b => m.node[a] # m.node[b]
      /\ \A a, b \in m.holds : a # b => ~Conflict(a, b, s)
  BY DEF ShardInv
<1>2. ASSUME NEW b \in (m.granted \cap m.queue) \ m.holds, NEW a \in m.intents \ {b}, Conflict(a, b, s)
      PROVE  a \in m.queue \ (m.holds \cup m.granted) /\ m.node[b] < m.node[a]
  <2>1. b \in (sh.granted \cap sh.queue) \ sh.holds /\ a \in sh.intents \ {b} /\ a # o
    BY <1>2
  <2>2. a \in sh.queue \ (sh.holds \cup sh.granted) /\ sh.node[b] < sh.node[a]
    BY <2>1, <1>2 DEF ShardInv
  <2>. QED
    BY <2>1, <2>2
<1>. QED
  BY <1>1, <1>2 DEF ShardInv

(* Cancelling removes o and can only start others.                         *)
LEMMA CancelEffect ==
    ASSUME NEW s \in Shards, NEW sh \in ShardType, ShardInv(sh, s), sh.bypass = <<>>,
           NEW o \in Ops, Placed(o, sh), o \notin sh.holds
    PROVE  LET r == CancelInShard(sh, o, s) IN Effect(o, sh, r, s) /\ Absent(o, r)
<1>. DEFINE m == [sh EXCEPT !.intents = @ \ {o}, !.queue = @ \ {o}, !.granted = @ \ {o}]
            r == Poll(m, s)
<1>1. m \in ShardType
  BY Zenon DEF ShardType
<1>2. /\ m.intents = sh.intents \ {o} /\ m.queue = sh.queue \ {o} /\ m.granted = sh.granted \ {o}
      /\ m.holds = sh.holds /\ m.armed = sh.armed /\ m.running = sh.running
      /\ m.node = sh.node /\ m.bypass = <<>>
  BY DEF ShardType
<1>3. CancelInShard(sh, o, s) = r
  BY DEF CancelInShard
<1>. HIDE DEF m
<1>4. ShardInv(m, s)
  BY <1>1, <1>2, WithoutShardInv
<1>5. BypassShape(m) /\ \A p \in Ops \ {o} : SameStanding(p, sh, m)
  BY <1>2 DEF BypassShape, SameStanding
<1>6. Effect(o, sh, r, s) /\ (SameStanding(o, m, r) \/ Started(o, m, r))
  BY <1>1, <1>2, <1>4, <1>5, PollEffect
<1>7. Absent(o, m)
  BY <1>2 DEF Absent, Placed
<1>8. Absent(o, r)
  BY <1>6, <1>7 DEF Absent, SameStanding, Started
<1>. QED
  BY <1>3, <1>6, <1>8

(* So does the release at the end of a hop.                                *)
LEMMA ReleaseEffect ==
    ASSUME NEW s \in Shards, NEW sh \in ShardType, ShardInv(sh, s), sh.bypass = <<>>,
           NEW o \in Ops, Active(o, sh), o \in sh.running
    PROVE  LET r == ReleaseInShard(sh, o, s) IN Effect(o, sh, r, s) /\ Absent(o, r)
<1>. DEFINE m == [sh EXCEPT !.running = @ \ {o}, !.holds = @ \ {o},
                            !.intents = @ \ {o}, !.queue = @ \ {o}]
            r == Poll(m, s)
<1>1. m \in ShardType
  BY Zenon DEF ShardType
<1>2. /\ m.intents = sh.intents \ {o} /\ m.queue = sh.queue \ {o} /\ m.holds = sh.holds \ {o}
      /\ m.running = sh.running \ {o} /\ m.armed = sh.armed /\ m.granted = sh.granted
      /\ m.node = sh.node /\ m.bypass = <<>>
  BY DEF ShardType
<1>3. ReleaseInShard(sh, o, s) = r
  BY DEF ReleaseInShard
<1>. HIDE DEF m
<1>4. ShardInv(m, s)
  BY <1>1, <1>2, WithoutShardInv
<1>5. BypassShape(m) /\ \A p \in Ops \ {o} : SameStanding(p, sh, m)
  BY <1>2 DEF BypassShape, SameStanding
<1>6. Effect(o, sh, r, s) /\ (SameStanding(o, m, r) \/ Started(o, m, r))
  BY <1>1, <1>2, <1>4, <1>5, PollEffect
<1>7. Absent(o, m)
  BY <1>2 DEF Absent, Active
<1>8. Absent(o, r)
  BY <1>6, <1>7 DEF Absent, SameStanding, Started
<1>. QED
  BY <1>3, <1>6, <1>8

(* Arming makes o a candidate; Poll may start it at once.                  *)
LEMMA ArmEffect ==
    ASSUME NEW s \in Shards, NEW sh \in ShardType, ShardInv(sh, s), sh.bypass = <<>>,
           NEW o \in Ops, Multi(o), Placed(o, sh)
    PROVE  LET r == ArmInShard(sh, o, s)
           IN  Effect(o, sh, r, s) /\ Active(o, r) /\ r.node = sh.node
<1>. DEFINE q == IF o \in sh.granted THEN <<o>> ELSE <<>>
            m == [sh EXCEPT !.armed = @ \cup {o}, !.bypass = q]
            r == Poll(m, s)
<1>1. q \in Seq(Ops) /\ q = IF o \in sh.granted THEN Append(sh.bypass, o) ELSE sh.bypass
  OBVIOUS
<1>2. ArmInShard(sh, o, s) = r
  BY <1>1 DEF ArmInShard, ShardType
<1>. HIDE DEF q
<1>3. m \in ShardType
  BY <1>1, Zenon DEF ShardType
<1>4. /\ m.intents = sh.intents /\ m.queue = sh.queue /\ m.granted = sh.granted
      /\ m.holds = sh.holds /\ m.armed = sh.armed \cup {o} /\ m.running = sh.running
      /\ m.node = sh.node /\ m.bypass = q
  BY DEF ShardType
<1>. HIDE DEF m
<1>5. ShardInv(m, s)
  BY <1>4 DEF ShardInv
<1>6. BypassShape(m) /\ \A p \in Ops \ {o} : SameStanding(p, sh, m)
  BY <1>4 DEF BypassShape, SameStanding, Placed, q
<1>7. /\ Effect(o, sh, r, s) /\ (SameStanding(o, m, r) \/ Started(o, m, r))
      /\ r.node = sh.node
  BY <1>3, <1>4, <1>5, <1>6, PollEffect
<1>8. o \in m.queue /\ o \in m.armed /\ o \notin m.running
  BY <1>4 DEF Placed
<1>9. Active(o, r)
  BY <1>7, <1>8 DEF Active, SameStanding, Started
<1>. QED
  BY <1>2, <1>7, <1>9

(* A hop that keeps its locks only stops running.                          *)
LEMMA RetainEffect ==
    ASSUME NEW s \in Shards, NEW sh \in ShardType, ShardInv(sh, s), sh.bypass = <<>>,
           NEW o \in Ops, Active(o, sh), o \in sh.running
    PROVE  LET r == RetainInShard(sh, o)
           IN  /\ Effect(o, sh, r, s) /\ r.node = sh.node
               /\ IF Multi(o) THEN Placed(o, r) ELSE Parked(o, r)
<1>. DEFINE r == RetainInShard(sh, o)
<1>1. r \in ShardType
  BY DEF ShardType, RetainInShard
<1>2. /\ r.intents = sh.intents /\ r.queue = sh.queue /\ r.granted = sh.granted
      /\ r.holds = sh.holds /\ r.armed = sh.armed /\ r.running = sh.running \ {o}
      /\ r.node = sh.node /\ r.bypass = <<>>
  BY DEF ShardType, RetainInShard
<1>. HIDE DEF r
<1>3. ShardInv(r, s)
  BY <1>2 DEF ShardInv
<1>4. Effect(o, sh, r, s)
  BY <1>1, <1>2, <1>3 DEF Effect, SameStanding, Orderly
<1>5. IF Multi(o) THEN Placed(o, r) ELSE Parked(o, r)
  BY <1>2 DEF Active, Placed, Parked
<1>. QED
  BY <1>2, <1>4, <1>5 DEF r

(* The next hop of a guard that is still held only starts running.         *)
LEMMA RetainedRunEffect ==
    ASSUME NEW s \in Shards, NEW sh \in ShardType, ShardInv(sh, s), sh.bypass = <<>>,
           NEW o \in Ops, ~Multi(o), Parked(o, sh), o \in sh.holds
    PROVE  LET r == [sh EXCEPT !.running = @ \cup {o}]
           IN  Effect(o, sh, r, s) /\ r.node = sh.node /\ Active(o, r)
<1>. DEFINE r == [sh EXCEPT !.running = @ \cup {o}]
<1>1. r \in ShardType
  BY DEF ShardType
<1>2. /\ r.intents = sh.intents /\ r.queue = sh.queue /\ r.granted = sh.granted
      /\ r.holds = sh.holds /\ r.armed = sh.armed /\ r.running = sh.running \cup {o}
      /\ r.node = sh.node /\ r.bypass = <<>>
  BY DEF ShardType
<1>. HIDE DEF r
<1>3. ShardInv(r, s)
  BY <1>2 DEF ShardInv
<1>4. Effect(o, sh, r, s)
  BY <1>1, <1>2, <1>3 DEF Effect, SameStanding, Orderly
<1>5. Active(o, r)
  BY <1>2 DEF Active, Parked
<1>. QED
  BY <1>2, <1>4, <1>5 DEF r

(* The fast path takes locks nobody's intents conflict with.               *)
LEMMA FastEffect ==
    ASSUME NEW s \in Shards, NEW sh \in ShardType, ShardInv(sh, s), sh.bypass = <<>>,
           NEW o \in Ops, ~Multi(o), Parked(o, sh), o \notin sh.holds, Grantable(sh, o, s)
    PROVE  LET r == FastPath(sh, o, s)
           IN  Effect(o, sh, r, s) /\ r.node = sh.node /\ Active(o, r)
<1>. DEFINE i == [sh EXCEPT !.intents = @ \cup {o}]
            h == AcquireHolds(i, {o}, s)
            r == FastPath(sh, o, s)
<1>1. r = [h EXCEPT !.running = @ \cup {o}]
  BY DEF FastPath
<1>2. i \in ShardType /\ i.intents = sh.intents \cup {o}
  BY DEF ShardType
<1>3. /\ i.queue = sh.queue /\ i.granted = sh.granted /\ i.holds = sh.holds
      /\ i.armed = sh.armed /\ i.running = sh.running /\ i.node = sh.node /\ i.bypass = <<>>
  BY DEF ShardType
<1>. HIDE DEF i
<1>4. h \in ShardType
  BY <1>2, Zenon DEF AcquireHolds, ShardType
<1>5. /\ h.intents = i.intents /\ h.queue = i.queue /\ h.granted = i.granted
      /\ h.holds = i.holds \cup {o} /\ h.armed = i.armed /\ h.running = i.running
      /\ h.node = i.node /\ h.bypass = i.bypass
  BY <1>2 DEF AcquireHolds, ShardType
<1>. HIDE DEF h, r
<1>6. r \in ShardType
  BY <1>1, <1>4, Zenon DEF ShardType
<1>7. /\ r.intents = sh.intents \cup {o} /\ r.queue = sh.queue /\ r.granted = sh.granted
      /\ r.holds = sh.holds \cup {o} /\ r.armed = sh.armed /\ r.running = sh.running \cup {o}
      /\ r.node = sh.node /\ r.bypass = <<>>
  BY <1>1, <1>2, <1>3, <1>4, <1>5 DEF ShardType
<1>8. \A a \in sh.intents : ~Conflict(a, o, s) /\ ~Conflict(o, a, s)
  BY ConflictSymmetric DEF Grantable, ShardType
<1>9. sh.holds \cup sh.queue \subseteq sh.intents
  BY DEF ShardInv
<1>10. ShardInv(r, s)
  BY <1>7, <1>8, <1>9, SMTT(60) DEF ShardInv
<1>11. Effect(o, sh, r, s)
  BY <1>6, <1>7, <1>8, <1>9, <1>10 DEF Effect, SameStanding, Orderly
<1>12. Active(o, r)
  BY <1>7 DEF Active, Parked
<1>. QED
  BY <1>7, <1>11, <1>12 DEF r

(* A contended command queues behind everybody, under a txid nobody has.   *)
LEMMA EnqueueEffect ==
    ASSUME NEW s \in Shards, NEW sh \in ShardType, ShardInv(sh, s), sh.bypass = <<>>,
           NEW o \in Ops, ~Multi(o), Parked(o, sh), o \notin sh.holds, NEW id \in Nat,
           \A q \in sh.queue : sh.node[q] < id
    PROVE  LET r == Enqueue(sh, o, id)
           IN  Effect(o, sh, r, s) /\ r.node[o] = id /\ Active(o, r)
<1>. DEFINE r == Enqueue(sh, o, id)
<1>1. sh.node \in [Ops -> Nat] /\ sh.queue \subseteq Ops
  BY DEF ShardType
<1>2. [sh.node EXCEPT ![o] = id] \in [Ops -> Nat]
  BY <1>1
<1>3. r \in ShardType
  BY <1>2, Zenon DEF ShardType, Enqueue
<1>4. /\ r.intents = sh.intents \cup {o} /\ r.queue = sh.queue \cup {o} /\ r.granted = sh.granted
      /\ r.holds = sh.holds /\ r.armed = sh.armed /\ r.running = sh.running
      /\ r.node = [sh.node EXCEPT ![o] = id] /\ r.bypass = <<>>
  BY DEF ShardType, Enqueue
<1>. HIDE DEF r
<1>5. r.node[o] = id /\ \A p \in Ops \ {o} : r.node[p] = sh.node[p]
  BY <1>1, <1>4
<1>6. o \notin sh.intents /\ o \notin sh.queue /\ o \notin sh.armed /\ o \notin sh.running
  BY DEF Parked
<1>7. o \notin sh.granted
  BY DEF ShardInv, Multi
<1>8. ShardInv(r, s)
  <2>1. r.holds \cup r.queue \subseteq r.intents /\ r.granted \subseteq MultiShard
    BY <1>4 DEF ShardInv
  <2>2. \A a, b \in r.queue : a # b => r.node[a] # r.node[b]
    BY <1>1, <1>4, <1>5, SMTT(60) DEF ShardInv
  <2>3. \A a, b \in r.holds : a # b => ~Conflict(a, b, s)
    BY <1>4 DEF ShardInv
  <2>4. ASSUME NEW b \in (r.granted \cap r.queue) \ r.holds, NEW a \in r.intents \ {b}, Conflict(a, b, s)
        PROVE  a \in r.queue \ (r.holds \cup r.granted) /\ r.node[b] < r.node[a]
    <3>1. b # o /\ b \in (sh.granted \cap sh.queue) \ sh.holds
      BY <1>4, <1>7
    <3>2. CASE a = o
      BY <3>1, <3>2, <1>1, <1>4, <1>5, <1>7
    <3>3. CASE a # o
      BY <3>1, <3>3, <2>4, <1>1, <1>4, <1>5 DEF ShardInv
    <3>. QED
      BY <3>2, <3>3
  <2>. QED
    BY <2>1, <2>2, <2>3, <2>4 DEF ShardInv
<1>9. Effect(o, sh, r, s)
  BY <1>3, <1>4, <1>5, <1>8 DEF Effect, SameStanding, Orderly
<1>10. Active(o, r)
  BY <1>4, <1>6 DEF Active
<1>. QED
  BY <1>5, <1>9, <1>10 DEF r

-----------------------------------------------------------------------------
(* What each handler adds to the shard's history.                          *)

(* Every handler that ends in a Poll records exactly what Poll starts.     *)
LEMMA PollHistory ==
    ASSUME NEW s \in Shards, NEW sh \in ShardType, NEW m \in ShardType, ShardInv(m, s),
           BypassShape(m), m.node = sh.node, m.queue \subseteq sh.queue,
           m.served = sh.served, m.before = sh.before, m.committed = sh.committed,
           m.holds \subseteq sh.holds, sh.holds \cap m.queue \subseteq m.holds,
           m.running \subseteq m.holds, sh.holds \subseteq sh.served
    PROVE  History(sh, Poll(m, s), s)
<1>. DEFINE r == Poll(m, s)
<1>1. PICK S \in SUBSET m.queue : PollOutcome(m, r, S) /\ PollRecord(m, r, S, s)
  BY PollStarts
<1>. HIDE DEF r
<1>2. Starts(sh, r) = S \ sh.holds /\ S \ m.holds = S \ sh.holds
  BY <1>1 DEF Starts, PollOutcome
<1>3. r.served = sh.served \cup Starts(sh, r)
  BY <1>1, <1>2 DEF PollRecord
<1>4. r.before = sh.before \cup {p \in sh.served \X Starts(sh, r) : Conflict(p[1], p[2], s)}
  BY <1>1, <1>2 DEF PollRecord
<1>5. r.running \subseteq r.holds
  BY <1>1 DEF PollOutcome
<1>6. r.committed \in {sh.committed} \cup {sh.node[q] : q \in sh.queue}
  BY <1>1 DEF PollRecord
<1>7. r.committed >= sh.committed /\ \A o \in Starts(sh, r) \cap sh.queue : r.committed >= sh.node[o]
  BY <1>1, <1>2 DEF PollRecord
<1>. QED
  BY <1>3, <1>4, <1>5, <1>6, <1>7 DEF History, r

(* A step that starts nobody leaves the history alone.                     *)
LEMMA QuietHistory ==
    ASSUME NEW s \in Shards, NEW sh \in ShardType, NEW r, r.holds = sh.holds, r.served = sh.served,
           r.before = sh.before, r.committed = sh.committed, r.running \subseteq r.holds
    PROVE  History(sh, r, s)
<1>1. Starts(sh, r) = {}
  BY DEF Starts
<1>2. sh.committed \in Nat
  BY DEF ShardType
<1>. QED
  BY <1>1, <1>2 DEF History

(* A schedule request that is not stale queues above the watermark.        *)
LEMMA ScheduleHistory ==
    ASSUME NEW s \in Shards, NEW sh \in ShardType, NEW o \in Ops, Absent(o, sh), Sound(sh),
           NEW id \in Nat
    PROVE  LET r == ScheduleInShard(sh, o, s, id) IN History(sh, r, s) /\ Moved(o, sh, r)
<1>. DEFINE r == ScheduleInShard(sh, o, s, id)
<1>1. /\ r.holds = sh.holds /\ r.served = sh.served /\ r.before = sh.before
      /\ r.committed = sh.committed /\ r.running = sh.running
  BY DEF ScheduleInShard, ShardType
<1>2. History(sh, r, s)
  <2>. HIDE DEF r
  <2>. QED
    BY <1>1, QuietHistory DEF Sound
<1>3. o \notin Starts(sh, r) /\ o \notin sh.holds /\ o \notin sh.queue
  BY <1>1 DEF Starts, Absent
<1>4. CASE ScheduleFails(sh, o, s, id)
  <2>1. r = sh
    BY <1>4 DEF ScheduleInShard
  <2>. QED
    BY <1>2, <1>3, <2>1 DEF Moved
<1>5. CASE ~ScheduleFails(sh, o, s, id)
  <2>1. r.queue = sh.queue \cup {o} /\ r.node = [sh.node EXCEPT ![o] = id]
    BY <1>5 DEF ScheduleInShard, ShardType
  <2>2. r.node[o] = id
    BY <2>1 DEF ShardType
  <2>3. id > sh.committed
    BY <1>5 DEF ScheduleFails, StaleTxid, ShardType
  <2>. HIDE DEF r
  <2>. QED
    BY <1>1, <1>2, <1>3, <2>1, <2>2, <2>3 DEF Moved, r
<1>. QED
  BY <1>4, <1>5

(* Taking an operation off the shard records what Poll starts instead.     *)
LEMMA CancelHistory ==
    ASSUME NEW s \in Shards, NEW sh \in ShardType, ShardInv(sh, s), sh.bypass = <<>>,
           NEW o \in Ops, Placed(o, sh), o \notin sh.holds, Sound(sh)
    PROVE  LET r == CancelInShard(sh, o, s) IN History(sh, r, s) /\ Moved(o, sh, r)
<1>. DEFINE m == [sh EXCEPT !.intents = @ \ {o}, !.queue = @ \ {o}, !.granted = @ \ {o}]
            r == Poll(m, s)
<1>1. m \in ShardType
  BY Zenon DEF ShardType
<1>2. /\ m.intents = sh.intents \ {o} /\ m.queue = sh.queue \ {o} /\ m.granted = sh.granted \ {o}
      /\ m.holds = sh.holds /\ m.armed = sh.armed /\ m.running = sh.running
      /\ m.node = sh.node /\ m.bypass = <<>>
      /\ m.served = sh.served /\ m.before = sh.before /\ m.committed = sh.committed
  BY DEF ShardType
<1>3. CancelInShard(sh, o, s) = r
  BY DEF CancelInShard
<1>. HIDE DEF m
<1>4. ShardInv(m, s)
  BY <1>1, <1>2, WithoutShardInv
<1>5. BypassShape(m)
  BY <1>2 DEF BypassShape
<1>6. History(sh, r, s)
  BY <1>1, <1>2, <1>4, <1>5, PollHistory DEF Sound
<1>7. r.node = sh.node /\ o \notin r.queue /\ o \in sh.queue
  <2>1. PICK S \in SUBSET m.queue : PollOutcome(m, r, S)
    BY <1>1, <1>4, <1>5, PollStarts
  <2>. QED
    BY <1>2, <2>1 DEF PollOutcome, Placed
<1>. QED
  BY <1>3, <1>6, <1>7 DEF Moved

(* Releasing starts whoever the poll that ends it lets through.            *)
LEMMA ReleaseHistory ==
    ASSUME NEW s \in Shards, NEW sh \in ShardType, ShardInv(sh, s), sh.bypass = <<>>,
           NEW o \in Ops, o \in sh.running, Sound(sh)
    PROVE  LET r == ReleaseInShard(sh, o, s)
           IN  History(sh, r, s) /\ Moved(o, sh, r)
<1>. DEFINE m == [sh EXCEPT !.running = @ \ {o}, !.holds = @ \ {o},
                            !.intents = @ \ {o}, !.queue = @ \ {o}]
            r == Poll(m, s)
<1>1. m \in ShardType
  BY Zenon DEF ShardType
<1>2. /\ m.intents = sh.intents \ {o} /\ m.queue = sh.queue \ {o} /\ m.holds = sh.holds \ {o}
      /\ m.running = sh.running \ {o} /\ m.armed = sh.armed /\ m.granted = sh.granted
      /\ m.node = sh.node /\ m.bypass = <<>>
      /\ m.served = sh.served /\ m.before = sh.before /\ m.committed = sh.committed
  BY DEF ShardType
<1>3. ReleaseInShard(sh, o, s) = r
  BY DEF ReleaseInShard
<1>. HIDE DEF m
<1>4. ShardInv(m, s)
  BY <1>1, <1>2, WithoutShardInv
<1>5. BypassShape(m)
  BY <1>2 DEF BypassShape
<1>6. History(sh, r, s)
  BY <1>1, <1>2, <1>4, <1>5, PollHistory DEF Sound
<1>7. r.node = sh.node /\ o \notin r.queue /\ o \in sh.holds
  <2>1. PICK S \in SUBSET m.queue : PollOutcome(m, r, S)
    BY <1>1, <1>4, <1>5, PollStarts
  <2>. QED
    BY <1>2, <2>1 DEF PollOutcome, Sound
<1>. QED
  BY <1>3, <1>6, <1>7 DEF Moved, Starts

(* Arming keeps the place in the queue, from which Poll may start it.      *)
LEMMA ArmHistory ==
    ASSUME NEW s \in Shards, NEW sh \in ShardType, ShardInv(sh, s), sh.bypass = <<>>,
           NEW o \in Ops, Multi(o), Placed(o, sh), Sound(sh)
    PROVE  LET r == ArmInShard(sh, o, s)
           IN  History(sh, r, s) /\ Moved(o, sh, r) /\ sh.holds \subseteq r.holds
<1>. DEFINE q == IF o \in sh.granted THEN <<o>> ELSE <<>>
            m == [sh EXCEPT !.armed = @ \cup {o}, !.bypass = q]
            r == Poll(m, s)
<1>1. q \in Seq(Ops) /\ q = IF o \in sh.granted THEN Append(sh.bypass, o) ELSE sh.bypass
  OBVIOUS
<1>2. ArmInShard(sh, o, s) = r
  BY <1>1 DEF ArmInShard, ShardType
<1>. HIDE DEF q
<1>3. m \in ShardType
  BY <1>1, Zenon DEF ShardType
<1>4. /\ m.intents = sh.intents /\ m.queue = sh.queue /\ m.granted = sh.granted
      /\ m.holds = sh.holds /\ m.armed = sh.armed \cup {o} /\ m.running = sh.running
      /\ m.node = sh.node /\ m.bypass = q
      /\ m.served = sh.served /\ m.before = sh.before /\ m.committed = sh.committed
  BY DEF ShardType
<1>. HIDE DEF m
<1>5. ShardInv(m, s)
  BY <1>4 DEF ShardInv
<1>6. BypassShape(m)
  BY <1>4 DEF BypassShape, Placed, q
<1>7. History(sh, r, s)
  BY <1>3, <1>4, <1>5, <1>6, PollHistory DEF Sound
<1>8. r.node = sh.node /\ o \in sh.queue /\ sh.holds \subseteq r.holds
  <2>1. PICK S \in SUBSET m.queue : PollOutcome(m, r, S)
    BY <1>3, <1>5, <1>6, PollStarts
  <2>. QED
    BY <1>4, <2>1 DEF PollOutcome, Placed
<1>. QED
  BY <1>2, <1>7, <1>8 DEF Moved

(* A hop of an operation that keeps its locks adds nothing.                *)
LEMMA RunningHistory ==
    ASSUME NEW s \in Shards, NEW sh \in ShardType, NEW o \in Ops, o \in sh.holds, Sound(sh),
           NEW R, R \subseteq sh.running \cup {o}
    PROVE  LET r == [sh EXCEPT !.running = R] IN History(sh, r, s) /\ Moved(o, sh, r)
<1>. DEFINE r == [sh EXCEPT !.running = R]
<1>1. /\ r.holds = sh.holds /\ r.served = sh.served /\ r.before = sh.before
      /\ r.committed = sh.committed /\ r.running = R /\ r.queue = sh.queue /\ r.node = sh.node
  BY DEF ShardType
<1>. HIDE DEF r
<1>2. History(sh, r, s)
  BY <1>1, QuietHistory DEF Sound
<1>3. Moved(o, sh, r)
  BY <1>1 DEF Moved, Starts
<1>. QED
  BY <1>2, <1>3 DEF r

(* The fast path starts its own operation and nobody else.                 *)
LEMMA FastHistory ==
    ASSUME NEW s \in Shards, NEW sh \in ShardType, NEW o \in Ops, ~Multi(o), o \notin sh.holds,
           o \notin sh.queue, Sound(sh)
    PROVE  LET r == FastPath(sh, o, s) IN History(sh, r, s) /\ Moved(o, sh, r)
<1>. DEFINE i == [sh EXCEPT !.intents = @ \cup {o}]
            E == {p \in i.served \X ({o} \ i.holds) : Conflict(p[1], p[2], s)}
            h == [i EXCEPT !.holds = @ \cup {o}, !.served = @ \cup {o}, !.before = @ \cup E]
            r == FastPath(sh, o, s)
<1>1. r = [h EXCEPT !.running = @ \cup {o}]
  BY DEF FastPath, AcquireHolds
<1>2. /\ i.holds = sh.holds /\ i.served = sh.served /\ i.before = sh.before
      /\ i.committed = sh.committed /\ i.running = sh.running
      /\ i.queue = sh.queue /\ i.node = sh.node /\ DOMAIN i = DOMAIN sh
  BY DEF ShardType
<1>. HIDE DEF i, E
<1>3. /\ h.holds = i.holds \cup {o} /\ h.served = i.served \cup {o} /\ h.before = i.before \cup E
      /\ h.committed = i.committed /\ h.running = i.running
      /\ h.queue = i.queue /\ h.node = i.node /\ DOMAIN h = DOMAIN i
  BY <1>2 DEF ShardType
<1>. HIDE DEF h, r
<1>4. /\ r.holds = sh.holds \cup {o} /\ r.served = sh.served \cup {o} /\ r.before = sh.before \cup E
      /\ r.committed = sh.committed /\ r.running = sh.running \cup {o}
      /\ r.queue = sh.queue /\ r.node = sh.node
  BY <1>1, <1>2, <1>3 DEF ShardType
<1>5. Starts(sh, r) = {o}
  BY <1>4 DEF Starts
<1>6. r.before = sh.before \cup {p \in sh.served \X {o} : Conflict(p[1], p[2], s)}
  <2>1. {o} \ sh.holds = {o}
    OBVIOUS
  <2>. QED
    BY <1>2, <1>4, <2>1 DEF E
<1>7. sh.committed \in Nat
  BY DEF ShardType
<1>8. History(sh, r, s)
  <2>1. r.served = sh.served \cup Starts(sh, r) /\ r.running \subseteq r.holds
    BY <1>4, <1>5 DEF Sound
  <2>2. r.before = sh.before \cup {p \in sh.served \X Starts(sh, r) : Conflict(p[1], p[2], s)}
    BY <1>5, <1>6
  <2>3. r.committed \in {sh.committed} \cup {sh.node[q] : q \in sh.queue} /\ r.committed >= sh.committed
    BY <1>4, <1>7
  <2>4. \A p \in Starts(sh, r) \cap sh.queue : r.committed >= sh.node[p]
    BY <1>5
  <2>. QED
    BY <2>1, <2>2, <2>3, <2>4 DEF History
<1>9. Moved(o, sh, r)
  BY <1>4 DEF Moved
<1>. QED
  BY <1>8, <1>9 DEF r

(* A contended command queues under a txid above every watermark.          *)
LEMMA EnqueueHistory ==
    ASSUME NEW s \in Shards, NEW sh \in ShardType, NEW o \in Ops, o \notin sh.holds,
           Sound(sh), NEW id \in Nat, sh.committed < id, o \notin sh.queue
    PROVE  LET r == Enqueue(sh, o, id) IN History(sh, r, s) /\ Moved(o, sh, r)
<1>. DEFINE r == Enqueue(sh, o, id)
<1>1. /\ r.holds = sh.holds /\ r.served = sh.served /\ r.before = sh.before
      /\ r.committed = sh.committed /\ r.running = sh.running
      /\ r.queue = sh.queue \cup {o} /\ r.node = [sh.node EXCEPT ![o] = id]
  BY DEF Enqueue, ShardType
<1>. HIDE DEF r
<1>2. r.node[o] = id /\ sh.committed \in Nat
  BY <1>1 DEF ShardType
<1>3. History(sh, r, s)
  BY <1>1, QuietHistory DEF Sound
<1>4. Moved(o, sh, r)
  BY <1>1, <1>2 DEF Moved, Starts
<1>. QED
  BY <1>3, <1>4 DEF r

-----------------------------------------------------------------------------
(* Each delivery and the end of each callback is a Touch.                  *)

(* What the message in flight says about the coordinator.                  *)
LEMMA MessageView ==
    ASSUME IInv, NEW o \in Ops, NEW s \in Shards, msg[o][s] # "none"
    PROVE  /\ s \in Participants(o) /\ s \in Owing(o)
           /\ msg[o][s] = "schedule" => pc[o] = "scheduling" /\ Multi(o) /\ Absent(o, shard[s])
           /\ msg[o][s] = "cancel" => /\ pc[o] = "cancelling" /\ Multi(o)
                                      /\ Placed(o, shard[s]) /\ o \notin shard[s].holds
           /\ msg[o][s] = "arm" => pc[o] = "executing" /\ Multi(o) /\ Placed(o, shard[s])
           /\ msg[o][s] = "run" => pc[o] = "executing" /\ ~Multi(o) /\ Parked(o, shard[s])
<1>1. View(o, s) /\ pc[o] \in {"idle", "scheduling", "cancelling", "scheduled", "executing", "done"}
  BY DEF IInv, TypeOK
<1>2. s \in Participants(o) /\ pc[o] \in {"scheduling", "cancelling", "executing"}
  BY <1>1 DEF View
<1>3. s \in Owing(o)
  BY SMTT(60) DEF Owing
<1>4. CASE pc[o] = "scheduling"
  BY <1>1, <1>2, <1>3, <1>4, ZenonT(60) DEF View
<1>5. CASE pc[o] = "cancelling"
  BY <1>1, <1>2, <1>3, <1>5, ZenonT(60) DEF View
<1>6. CASE pc[o] = "executing"
  BY <1>1, <1>2, <1>3, <1>6 DEF View, Resting
<1>. QED
  BY <1>2, <1>4, <1>5, <1>6

(* What the invariant says of one shard.                                   *)
LEMMA ShardFacts ==
    ASSUME IInv, Service, NEW s \in Shards
    PROVE  /\ ShardInv(shard[s], s) /\ shard[s].bypass = <<>> /\ shard[s] \in ShardType
           /\ shard \in [Shards -> ShardType] /\ nextTxid \in Nat /\ Sound(shard[s])
           /\ msg \in [Ops -> [Shards -> Phases]] /\ shard[s].committed < nextTxid
  BY DEF IInv, BypassDrains, TypeOK, Service, Sound

(* What runs on a shard belongs to a hop in progress.                      *)
LEMMA RunningView ==
    ASSUME IInv, NEW o \in Ops, NEW s \in Shards, o \in shard[s].running
    PROVE  s \in Participants(o) /\ pc[o] = "executing" /\ msg[o][s] = "none" /\ Active(o, shard[s])
<1>1. /\ View(o, s)
      /\ pc[o] \in {"idle", "scheduling", "cancelling", "scheduled", "executing", "done"}
  BY DEF IInv, TypeOK
<1>2. ~Absent(o, shard[s]) /\ ~Resting(o, s) /\ ~Placed(o, shard[s])
  BY DEF Absent, Resting, Placed, Parked
<1>3. s \in Participants(o) /\ pc[o] \notin {"idle", "done", "scheduling", "cancelling", "scheduled"}
  BY <1>1, <1>2 DEF View
<1>. QED
  BY <1>1, <1>2, <1>3, ZenonT(30) DEF View

(* Each message of a worker is such a step, a schedule request first.      *)
LEMMA DeliverScheduleTouch ==
    ASSUME IInv, Service, NEW o \in Ops, NEW s \in Shards, DeliverSchedule(o, s)
    PROVE  Touch(o, s)
<1>. DEFINE sh == shard[s]
            r == ScheduleInShard(sh, o, s, txid[o])
<1>1. /\ ShardInv(sh, s) /\ sh.bypass = <<>> /\ sh \in ShardType /\ Sound(sh)
      /\ shard \in [Shards -> ShardType] /\ nextTxid \in Nat /\ msg \in [Ops -> [Shards -> Phases]]
  BY ShardFacts
<1>2. TxidInv /\ txid[o] \in Nat
  BY DEF IInv, TypeOK
<1>3. msg[o][s] = "schedule" /\ pc[o] = "scheduling" /\ Multi(o) /\ Absent(o, sh)
  BY MessageView DEF DeliverSchedule
<1>4. ASSUME NEW q \in sh.queue PROVE sh.node[q] # txid[o]
  <2>1. q \in Ops /\ q # o
    BY <1>1, <1>3 DEF Absent, ShardType
  <2>2. /\ Multi(q) => sh.node[q] = txid[q]
        /\ ~Multi(q) => txid[o] # sh.node[q]
        /\ txid[q] = txid[o] => txid[o] = 0
        /\ txid[o] # 0
    BY <1>2, <1>3, <1>4, <2>1 DEF TxidInv
  <2>. QED
    BY <2>2
<1>5. Effect(o, sh, r, s)
  <2>1. CASE ScheduleFails(sh, o, s, txid[o])
    <3>1. r = sh
      BY <2>1 DEF ScheduleInShard
    <3>. QED
      BY <1>1, <3>1 DEF Effect, SameStanding, Orderly
  <2>2. CASE ~ScheduleFails(sh, o, s, txid[o])
    <3>. HIDE DEF sh
    <3>. QED
      BY <1>1, <1>2, <1>3, <1>4, <2>2, ScheduleEffect
  <2>. QED
    BY <2>1, <2>2
<1>6. History(sh, r, s) /\ Moved(o, sh, r)
  <2>. HIDE DEF sh
  <2>. QED
    BY <1>1, <1>2, <1>3, ScheduleHistory
<1>7. /\ shard' = [shard EXCEPT ![s] = r] /\ msg' = [msg EXCEPT ![o][s] = "none"]
      /\ pc' = pc /\ txid' = txid /\ releasing' = releasing /\ earlier' = earlier
      /\ nextTxid' = nextTxid
  BY <1>1, ZenonT(30) DEF DeliverSchedule, Complete
<1>. HIDE DEF r
<1>8. shard'[s] = r /\ \A p \in Ops, t \in Shards : p # o \/ t # s => msg'[p][t] = msg[p][t]
  BY <1>1, <1>7
<1>9. o \notin sh.holds
  BY <1>3 DEF Absent
<1>10. pc[o] # "executing" /\ nextTxid' \in Nat /\ nextTxid' >= nextTxid /\ msg[o][s] # "none"
  BY <1>1, <1>3, <1>7
<1>. QED
  BY <1>3, <1>5, <1>6, <1>7, <1>8, <1>9, <1>10, ZenonT(30) DEF Touch

(* A cancel.                                                               *)
LEMMA DeliverCancelTouch ==
    ASSUME IInv, Service, NEW o \in Ops, NEW s \in Shards, DeliverCancel(o, s)
    PROVE  Touch(o, s)
<1>. DEFINE sh == shard[s]
            r == CancelInShard(sh, o, s)
<1>1. /\ ShardInv(sh, s) /\ sh.bypass = <<>> /\ sh \in ShardType /\ Sound(sh)
      /\ shard \in [Shards -> ShardType] /\ nextTxid \in Nat /\ msg \in [Ops -> [Shards -> Phases]]
  BY ShardFacts
<1>2. /\ msg[o][s] = "cancel" /\ pc[o] = "cancelling" /\ Multi(o) /\ Placed(o, sh)
      /\ o \notin sh.holds
  BY MessageView DEF DeliverCancel
<1>3. Effect(o, sh, r, s) /\ Absent(o, r) /\ History(sh, r, s) /\ Moved(o, sh, r)
  <2>. HIDE DEF sh
  <2>. QED
    BY <1>1, <1>2, CancelEffect, CancelHistory
<1>4. /\ shard' = [shard EXCEPT ![s] = r] /\ msg' = [msg EXCEPT ![o][s] = "none"]
      /\ pc' = pc /\ txid' = txid /\ releasing' = releasing /\ earlier' = earlier
      /\ nextTxid' = nextTxid
  BY <1>1, ZenonT(30) DEF DeliverCancel, Complete
<1>. HIDE DEF r
<1>5. shard'[s] = r /\ \A p \in Ops, t \in Shards : p # o \/ t # s => msg'[p][t] = msg[p][t]
  BY <1>1, <1>4
<1>6. pc[o] # "executing" /\ nextTxid' \in Nat /\ nextTxid' >= nextTxid /\ msg[o][s] # "none"
  BY <1>1, <1>2, <1>4
<1>. QED
  BY <1>2, <1>3, <1>4, <1>5, <1>6, ZenonT(30) DEF Touch, Absent

(* The deliveries of a hop share their frame, as in HopDelivery.           *)
LEMMA HopTouch ==
    ASSUME IInv, Service, NEW o \in Ops, NEW s \in Shards, msg[o][s] # "none", NEW r,
           Effect(o, shard[s], r, s), History(shard[s], r, s), Moved(o, shard[s], r),
           Active(o, r), shard[s].holds \subseteq r.holds,
           shard' = [shard EXCEPT ![s] = r], msg' = [msg EXCEPT ![o][s] = "none"],
           pc' = pc, txid' = txid, releasing' = releasing, earlier' = earlier,
           nextTxid' \in {nextTxid, nextTxid + 1},
           o \in r.queue \ shard[s].queue => r.node[o] = nextTxid
    PROVE  Touch(o, s)
<1>1. /\ shard \in [Shards -> ShardType] /\ nextTxid \in Nat /\ msg \in [Ops -> [Shards -> Phases]]
  BY ShardFacts
<1>2. shard'[s] = r /\ \A p \in Ops, t \in Shards : p # o \/ t # s => msg'[p][t] = msg[p][t]
  BY <1>1
<1>3. s \in Owing(o)'
  BY <1>2 DEF Owing, Active
<1>4. nextTxid' \in Nat /\ nextTxid' >= nextTxid /\ nextTxid >= nextTxid
  BY <1>1
<1>5. o \notin shard[s].holds \ shard'[s].holds
  BY <1>2
<1>. QED
  BY <1>2, <1>3, <1>4, <1>5 DEF Touch

(* The arming of a multi-shard hop.                                        *)
LEMMA DeliverArmTouch ==
    ASSUME IInv, Service, NEW o \in Ops, NEW s \in Shards, DeliverArm(o, s)
    PROVE  Touch(o, s)
<1>. DEFINE sh == shard[s]
            r == ArmInShard(sh, o, s)
<1>1. /\ ShardInv(sh, s) /\ sh.bypass = <<>> /\ sh \in ShardType /\ Sound(sh)
  BY ShardFacts
<1>2. msg[o][s] = "arm" /\ Multi(o) /\ Placed(o, sh)
  BY MessageView DEF DeliverArm
<1>3. Effect(o, sh, r, s) /\ Active(o, r) /\ r.node = sh.node
  <2>. HIDE DEF sh
  <2>. QED
    BY <1>1, <1>2, ArmEffect
<1>4. History(sh, r, s) /\ Moved(o, sh, r) /\ sh.holds \subseteq r.holds
  <2>. HIDE DEF sh
  <2>. QED
    BY <1>1, <1>2, ArmHistory
<1>5. /\ shard' = [shard EXCEPT ![s] = r] /\ msg' = [msg EXCEPT ![o][s] = "none"]
      /\ pc' = pc /\ txid' = txid /\ releasing' = releasing /\ earlier' = earlier
      /\ nextTxid' = nextTxid
  BY DEF DeliverArm
<1>6. o \notin r.queue \ sh.queue
  BY <1>2 DEF Placed
<1>. HIDE DEF r
<1>. QED
  BY <1>2, <1>3, <1>4, <1>5, <1>6, HopTouch, ZenonT(30)

(* The next hop of a single-shard operation that still holds.              *)
LEMMA DeliverRunRetainedTouch ==
    ASSUME IInv, Service, NEW o \in Ops, NEW s \in Shards, DeliverRunRetained(o, s)
    PROVE  Touch(o, s)
<1>. DEFINE sh == shard[s]
            r == [sh EXCEPT !.running = @ \cup {o}]
<1>1. /\ ShardInv(sh, s) /\ sh.bypass = <<>> /\ sh \in ShardType /\ Sound(sh)
  BY ShardFacts
<1>2. msg[o][s] = "run" /\ ~Multi(o) /\ Parked(o, sh) /\ o \in sh.holds
  BY MessageView DEF DeliverRunRetained
<1>3. Effect(o, sh, r, s) /\ Active(o, r) /\ r.node = sh.node
  <2>. HIDE DEF sh
  <2>. QED
    BY <1>1, <1>2, RetainedRunEffect
<1>4. History(sh, r, s) /\ Moved(o, sh, r)
  <2>. HIDE DEF sh
  <2>. QED
    BY <1>1, <1>2, RunningHistory
<1>5. /\ shard' = [shard EXCEPT ![s] = r] /\ msg' = [msg EXCEPT ![o][s] = "none"]
      /\ pc' = pc /\ txid' = txid /\ releasing' = releasing /\ earlier' = earlier
      /\ nextTxid' = nextTxid
  BY DEF DeliverRunRetained
<1>6. r.queue = sh.queue /\ r.holds = sh.holds
  BY <1>1 DEF ShardType
<1>. HIDE DEF r
<1>. QED
  BY <1>2, <1>3, <1>4, <1>5, <1>6, HopTouch, ZenonT(30)

(* The fast path.                                                          *)
LEMMA DeliverRunFastTouch ==
    ASSUME IInv, Service, NEW o \in Ops, NEW s \in Shards, DeliverRunFast(o, s)
    PROVE  Touch(o, s)
<1>. DEFINE sh == shard[s]
            r == FastPath(sh, o, s)
<1>1. /\ ShardInv(sh, s) /\ sh.bypass = <<>> /\ sh \in ShardType /\ Sound(sh)
  BY ShardFacts
<1>2. /\ msg[o][s] = "run" /\ ~Multi(o) /\ Parked(o, sh) /\ o \notin sh.holds
      /\ Grantable(sh, o, s)
  BY MessageView DEF DeliverRunFast
<1>3. Effect(o, sh, r, s) /\ Active(o, r) /\ r.node = sh.node
  <2>. HIDE DEF sh
  <2>. QED
    BY <1>1, <1>2, FastEffect
<1>4. History(sh, r, s) /\ Moved(o, sh, r)
  <2>1. o \notin sh.queue
    BY <1>2 DEF Parked
  <2>. HIDE DEF sh
  <2>. QED
    BY <1>1, <1>2, <2>1, FastHistory
<1>5. /\ shard' = [shard EXCEPT ![s] = r] /\ msg' = [msg EXCEPT ![o][s] = "none"]
      /\ pc' = pc /\ txid' = txid /\ releasing' = releasing /\ earlier' = earlier
      /\ nextTxid' = nextTxid
  BY DEF DeliverRunFast
<1>6. r.queue = sh.queue /\ sh.holds \subseteq r.holds
  BY <1>1 DEF ShardType, FastPath, AcquireHolds
<1>. HIDE DEF r
<1>. QED
  BY <1>2, <1>3, <1>4, <1>5, <1>6, HopTouch

(* A single-shard operation that must queue draws its id on the spot.      *)
LEMMA DeliverRunContendedTouch ==
    ASSUME IInv, Service, NEW o \in Ops, NEW s \in Shards, DeliverRunContended(o, s)
    PROVE  Touch(o, s)
<1>. DEFINE sh == shard[s]
            r == Enqueue(sh, o, nextTxid)
<1>1. /\ ShardInv(sh, s) /\ sh.bypass = <<>> /\ sh \in ShardType /\ Sound(sh)
      /\ nextTxid \in Nat /\ sh.committed < nextTxid
  BY ShardFacts
<1>2. msg[o][s] = "run" /\ ~Multi(o) /\ Parked(o, sh) /\ o \notin sh.holds
  BY MessageView DEF DeliverRunContended
<1>3. \A q \in sh.queue : sh.node[q] < nextTxid
  BY ZenonT(30) DEF IInv, TxidInv
<1>4. Effect(o, sh, r, s) /\ Active(o, r) /\ r.node[o] = nextTxid
  <2>. HIDE DEF sh
  <2>. QED
    BY <1>1, <1>2, <1>3, EnqueueEffect
<1>5. History(sh, r, s) /\ Moved(o, sh, r)
  <2>1. o \notin sh.queue
    BY <1>2 DEF Parked
  <2>. HIDE DEF sh
  <2>. QED
    BY <1>1, <1>2, <2>1, EnqueueHistory
<1>6. /\ shard' = [shard EXCEPT ![s] = r] /\ msg' = [msg EXCEPT ![o][s] = "none"]
      /\ pc' = pc /\ txid' = txid /\ releasing' = releasing /\ earlier' = earlier
      /\ nextTxid' = nextTxid + 1
  BY DEF DeliverRunContended
<1>7. sh.holds = r.holds
  BY <1>1 DEF ShardType, Enqueue
<1>. HIDE DEF r
<1>. QED
  BY <1>2, <1>4, <1>5, <1>6, <1>7, HopTouch, ZenonT(30)

(* The end of a callback, with or without release.                         *)
LEMMA FinishHopTouch ==
    ASSUME IInv, Service, NEW o \in Ops, NEW s \in Shards, FinishHop(o, s)
    PROVE  Touch(o, s)
<1>. DEFINE sh == shard[s]
            r == IF releasing[o] THEN ReleaseInShard(sh, o, s) ELSE RetainInShard(sh, o)
<1>1. /\ ShardInv(sh, s) /\ sh.bypass = <<>> /\ sh \in ShardType /\ Sound(sh)
      /\ shard \in [Shards -> ShardType] /\ nextTxid \in Nat
  BY ShardFacts
<1>2. o \in sh.running /\ o \in sh.holds /\ o \in sh.served
  BY <1>1 DEF FinishHop, Sound
<1>3. pc[o] = "executing" /\ msg[o][s] = "none" /\ Active(o, sh)
  BY <1>2, RunningView
<1>4. /\ shard' = [shard EXCEPT ![s] = r] /\ msg' = msg
      /\ pc' = pc /\ txid' = txid /\ releasing' = releasing /\ earlier' = earlier
      /\ nextTxid' = nextTxid
  BY DEF FinishHop
<1>5. /\ Effect(o, sh, r, s) /\ History(sh, r, s) /\ Moved(o, sh, r)
      /\ o \notin r.holds => releasing[o] /\ Absent(o, r)
      /\ o \in r.queue => o \in sh.queue
  <2>1. CASE releasing[o]
    <3>1. r = ReleaseInShard(sh, o, s)
      BY <2>1
    <3>2. Effect(o, sh, ReleaseInShard(sh, o, s), s) /\ Absent(o, ReleaseInShard(sh, o, s))
      <4>. HIDE DEF sh
      <4>. QED
        BY <1>1, <1>2, <1>3, ReleaseEffect
    <3>3. History(sh, ReleaseInShard(sh, o, s), s) /\ Moved(o, sh, ReleaseInShard(sh, o, s))
      <4>. HIDE DEF sh
      <4>. QED
        BY <1>1, <1>2, ReleaseHistory
    <3>4. o \notin ReleaseInShard(sh, o, s).queue
      BY <3>2 DEF Absent
    <3>. QED
      BY <2>1, <3>1, <3>2, <3>3, <3>4
  <2>2. CASE ~releasing[o]
    <3>1. r = [sh EXCEPT !.running = sh.running \ {o}]
      BY <2>2 DEF RetainInShard
    <3>2. Effect(o, sh, RetainInShard(sh, o), s)
      <4>. HIDE DEF sh
      <4>. QED
        BY <1>1, <1>2, <1>3, RetainEffect
    <3>3. History(sh, [sh EXCEPT !.running = sh.running \ {o}], s)
          /\ Moved(o, sh, [sh EXCEPT !.running = sh.running \ {o}])
      <4>1. sh.running \ {o} \subseteq sh.running \cup {o}
        OBVIOUS
      <4>. HIDE DEF sh
      <4>. QED
        BY <1>1, <1>2, <4>1, RunningHistory
    <3>4. r.holds = sh.holds /\ r.queue = sh.queue
      BY <1>1, <3>1 DEF ShardType
    <3>. QED
      BY <1>2, <2>2, <3>1, <3>2, <3>3, <3>4
  <2>. QED
    BY <2>1, <2>2
<1>. HIDE DEF r
<1>6. shard'[s] = r
  BY <1>1, <1>4
<1>7. o \notin r.holds => Gone(o, s)'
  BY <1>3, <1>4, <1>5, <1>6 DEF Gone
<1>8. o \in r.served
  BY <1>2, <1>5 DEF History
<1>9. nextTxid' \in Nat /\ nextTxid' >= nextTxid
  BY <1>1, <1>4
<1>. QED
  BY <1>2, <1>4, <1>5, <1>6, <1>7, <1>8, <1>9, ZenonT(30) DEF Touch
=============================================================================
