------------------------ MODULE LeaseHandoffProofs -------------------------
(***************************************************************************)
(* Proofs about LeaseHandoff, for every set of nodes, any number of        *)
(* leaders, terms and restarts and all timers that the options admit: how  *)
(* long the leases of two nodes may overlap, when they never do, and when  *)
(* no leader grants a lease after a later one has.                         *)
(***************************************************************************)
EXTENDS LeaseHandoff, TLAPS

(* The inductive invariant. *)

\* Leaderships follow one another: only those up to gen exist, only a started one
\* has a quarantine entry, only a live one has heartbeats, and what one has applied the next one starts from.
LeadersInv ==
    /\ granter <= gen
    /\ \A l \in Leaders :
          /\ l > gen => leader[l].phase = "none"
          /\ leader[l].phase # "leading" => guard[l].term = 0
          /\ leader[l].baseline <= leader[l].offset /\ leader[l].offset <= MaxSuspended
          /\ ~Alive(l) => ~leader[l].sent.known /\ ~leader[l].confirmed.known
    /\ \A k, l \in Leaders : k < l /\ l <= gen => leader[k].seen <= leader[l].base

\* When a quarantine entry was made.
Entered(l) == guard[l].eligible - Validity - Margin

\* An entry is of a term that its leader has applied, and was made in the past.
GuardInv ==
    \A l \in Leaders : guard[l].term # 0 =>
        /\ guard[l].term <= leader[l].seen
        /\ Entered(l) <= now

\* The clocks of a heartbeat: one that was sent before the server of its leader
\* started was sent before any entry was made, in active time too.
BeatOf(leading, entry, beat) ==
    beat.known =>
        /\ beat.active <= beat.boot /\ beat.boot <= now
        /\ beat.boot - beat.active <= leading.offset
        /\ beat.active <= now - leading.offset
        /\ entry.term # 0 /\ beat.boot - beat.active < leading.baseline =>
              beat.active <= entry.eligible - Validity - Margin - leading.baseline

BeatOK(l, beat) == BeatOf(leader[l], guard[l], beat)

BeatsInv == \A l \in Leaders : BeatOK(l, leader[l].sent) /\ BeatOK(l, leader[l].confirmed)

\* A deposed leader's last heartbeat precedes the election of the next one, hence
\* the entries and, by a whole quarantine, the grants of every later leader.
QuietBeat(l, beat) ==
    beat.known =>
        /\ beat.boot + Takeover <= now
        /\ guard[l].term # 0 => beat.boot + Takeover <= Entered(l)
        /\ l <= granter => beat.boot + Takeover + Validity + Margin <= now

QuietInv ==
    \A k, l \in Leaders : k < l /\ l <= gen =>
        QuietBeat(l, leader[k].sent) /\ QuietBeat(l, leader[k].confirmed)

\* A claim is of the owner of its term, and ends within Overlap of the time at which a
\* later term is eligible.  It is not of a later term than the last granter has
\* applied, if leaders are outwaited.
Sound(n, claim) ==
    claim # NoClaim =>
        /\ claim.term \in 1..Len(log) /\ log[claim.term] = n
        /\ claim.sentAt <= now /\ now < Deadline(claim)
        /\ granter >= 1 /\ (Outwaited => claim.term <= leader[granter].seen)
        /\ \A l \in Leaders : claim.term < guard[l].term =>
              Deadline(claim) <= guard[l].eligible + Overlap

ClaimsInv == \A n \in Nodes : Sound(n, answer[n]) /\ Sound(n, lease[n])

IInv ==
    /\ TypeOK
    /\ LeadersInv
    /\ GuardInv
    /\ BeatsInv
    /\ QuietInv
    /\ ClaimsInv

-----------------------------------------------------------------------------
(* Lemmas. *)

\* A granted duration is positive and at most the leadership validity.
LEMMA DurationBound == Duration \in Nat /\ 1 <= Duration /\ Duration <= Validity
BY TimingAssumption DEF Duration

\* The types of a leadership's fields.
LEMMA LeaderTypes ==
    ASSUME IInv, NEW l \in Leaders
    PROVE  /\ leader[l].phase \in {"none", "elected", "leading", "revoked"}
           /\ leader[l].base \in Nat \ {0} /\ leader[l].seen \in Nat \ {0}
           /\ leader[l].offset \in Nat /\ leader[l].baseline \in Nat
           /\ leader[l].sent \in Beats /\ leader[l].confirmed \in Beats
           /\ guard[l].term \in Nat /\ guard[l].eligible \in Nat
           /\ l \in Nat /\ 1 <= l /\ l <= MaxLeaders
           /\ now \in Nat
<1>1. leader[l] \in Leaderships
  BY DEF IInv, TypeOK
<1>2. guard[l] \in Entries
  BY DEF IInv, TypeOK
<1>3. l \in Nat /\ 1 <= l /\ l <= MaxLeaders /\ now \in Nat
  BY TimingAssumption DEF IInv, TypeOK, Leaders
<1> QED
  BY <1>1, <1>2, <1>3 DEF Leaderships, Entries

\* The types of the counters.
LEMMA Counters ==
    ASSUME IInv
    PROVE  /\ gen \in Nat /\ 1 <= gen /\ gen <= MaxLeaders /\ MaxLeaders \in Nat
           /\ granter \in Nat /\ granter <= MaxLeaders
           /\ now \in Nat /\ Len(log) \in Nat
BY TimingAssumption DEF IInv, TypeOK, Leaders

\* The bounds that the timers give.
LEMMA Bounds ==
    /\ Unnoticed \in Nat /\ Oldest \in Nat /\ Overlap \in Nat
    /\ Oldest = Validity + RoleLag - 1 + Unnoticed
    /\ Oldest <= Takeover + Margin + Overlap
    /\ Unnoticed = MaxSuspended \/ (Unnoticed = Validity - 1 /\ Validity + RoleLag <= Margin + 1)
    /\ Outwaited => Oldest < Takeover + Validity + Margin
    /\ ~Outwaited => Validity <= Overlap
    /\ Overlap = 0 => Outwaited
<1>1. Unnoticed \in Nat
      /\ (Unnoticed = MaxSuspended \/ (Unnoticed = Validity - 1 /\ Validity + RoleLag <= Margin + 1))
  BY TimingAssumption DEF Unnoticed
<1>2. Oldest \in Nat /\ Oldest = Validity + RoleLag - 1 + Unnoticed
  BY <1>1, TimingAssumption DEF Oldest
<1> QED
  BY <1>1, <1>2, TimingAssumption DEF Overlap, Outwaited

\* A leader that grants a lease has a heartbeat confirmed that is not older than
\* Oldest: the runtime guard bounds the suspension since its server started, and a
\* heartbeat from before the start is too old for the active clock, or else the
\* suspension is bounded as a whole.
LEMMA FreshAtGrant ==
    ASSUME IInv, NEW l \in Leaders, Authoritative(l), ~SuspendGap(l),
           guard[l].term # 0, guard[l].eligible <= now
    PROVE  /\ leader[l].confirmed.known
           /\ now <= leader[l].confirmed.boot + Oldest
<1> DEFINE c == leader[l].confirmed
<1>1. c.known /\ c.boot \in Nat /\ c.active \in Int
  BY LeaderTypes DEF Authoritative, QuorumLive, Beats
<1>2. /\ now - leader[l].offset - c.active <= Validity + RoleLag - 1
      /\ leader[l].offset - leader[l].baseline <= Validity - 1
  BY <1>1, LeaderTypes, TimingAssumption DEF Authoritative, QuorumLive, SuspendGap, Active
<1>3. c.active <= c.boot /\ leader[l].offset <= MaxSuspended
  BY <1>1 DEF IInv, LeadersInv, BeatsInv, BeatOK, BeatOf
<1>4. leader[l].offset - (c.boot - c.active) <= Unnoticed
  <2>1. CASE Unnoticed = MaxSuspended
    BY <1>1, <1>3, <2>1, LeaderTypes, TimingAssumption
  <2>2. CASE Unnoticed = Validity - 1 /\ Validity + RoleLag <= Margin + 1
    <3>1. c.boot - c.active >= leader[l].baseline
      <4> SUFFICES ASSUME c.boot - c.active < leader[l].baseline PROVE FALSE
        BY <1>1, LeaderTypes
      <4>1. c.active <= Entered(l) - leader[l].baseline
        BY <1>1 DEF IInv, BeatsInv, BeatOK, BeatOf, Entered, Authoritative
      <4> QED
        BY <4>1, <1>1, <1>2, <2>2, LeaderTypes, TimingAssumption DEF Entered
    <3> QED
      BY <1>1, <1>2, <2>2, <3>1, LeaderTypes, TimingAssumption
  <2> QED
    BY <2>1, <2>2, Bounds
<1> QED
  BY <1>1, <1>2, <1>4, LeaderTypes, TimingAssumption, Bounds

\* Hence no later leader has granted anything, if leaders are outwaited, and what is
\* granted now outlasts the entries of the later leaders by at most Overlap.
LEMMA LaterQuarantine ==
    ASSUME IInv, NEW l \in Leaders, Authoritative(l), ~SuspendGap(l),
           guard[l].term # 0, guard[l].eligible <= now
    PROVE  /\ Outwaited => granter <= l
           /\ \A k \in Leaders : l < k /\ guard[k].term # 0 =>
                 now + Validity <= guard[k].eligible + Overlap
<1>1. /\ leader[l].confirmed.known /\ leader[l].confirmed.boot \in Nat
      /\ now <= leader[l].confirmed.boot + Oldest
  BY FreshAtGrant, LeaderTypes DEF Beats
<1>2. ASSUME NEW k \in Leaders, l < k, k <= gen
      PROVE  QuietBeat(k, leader[l].confirmed)
  BY <1>2 DEF IInv, QuietInv
<1>3. Outwaited => granter <= l
  <2> SUFFICES ASSUME Outwaited, l < granter PROVE FALSE
    BY LeaderTypes, Counters
  <2>1. granter \in Leaders /\ granter <= gen
    BY LeaderTypes, Counters DEF IInv, Leaders, LeadersInv
  <2> QED
    BY <2>1, <1>1, <1>2, LeaderTypes, TimingAssumption, Bounds DEF QuietBeat
<1>4. ASSUME NEW k \in Leaders, l < k, guard[k].term # 0
      PROVE  now + Validity <= guard[k].eligible + Overlap
  <2>1. k <= gen
    BY <1>4, LeaderTypes, Counters DEF IInv, LeadersInv
  <2>2. leader[l].confirmed.boot + Takeover <= Entered(k)
    BY <2>1, <1>4, <1>1, <1>2 DEF QuietBeat
  <2> QED
    BY <2>2, <1>1, LeaderTypes, TimingAssumption, Bounds DEF Entered
<1> QED
  BY <1>3, <1>4
-----------------------------------------------------------------------------
(* The steps. *)

\* What a step of one leader leaves alone, and what it must show.
LEMMA LeaderFrame ==
    ASSUME IInv, TypeOK', BeatsInv',
           UNCHANGED <<now, log, gen, answer, lease, granter>>,
           \A k \in Leaders :
              /\ guard'[k] = guard[k] \/ guard'[k].term = 0
              /\ leader'[k].base = leader[k].base /\ leader'[k].seen >= leader[k].seen
              /\ k > gen => leader'[k].phase = "none"
              /\ leader'[k].phase # "leading" => guard'[k].term = 0
              /\ leader'[k].baseline <= leader'[k].offset /\ leader'[k].offset <= MaxSuspended
              /\ leader'[k].phase \notin {"elected", "leading"} =>
                    ~leader'[k].sent.known /\ ~leader'[k].confirmed.known
              /\ \A beat \in {leader'[k].sent, leader'[k].confirmed} : beat.known =>
                    k = gen \/ beat = leader[k].sent \/ beat = leader[k].confirmed
              /\ \A l \in Leaders : k < l /\ l <= gen => leader'[k].seen <= leader[l].base
    PROVE  IInv'
<1>1. LeadersInv'
  BY DEF IInv, LeadersInv, Alive
<1>2. GuardInv'
  <2> SUFFICES ASSUME NEW k \in Leaders, guard'[k].term # 0
               PROVE  guard'[k].term <= leader'[k].seen /\ Entered(k)' <= now'
    BY DEF GuardInv
  <2>1. guard'[k] = guard[k] /\ leader'[k].seen >= leader[k].seen /\ now' = now
    OBVIOUS
  <2>2. guard[k].term <= leader[k].seen /\ Entered(k) <= now
    BY <2>1 DEF IInv, GuardInv
  <2>3. leader'[k].seen \in Nat
    BY DEF TypeOK, Leaderships
  <2> QED
    BY <2>1, <2>2, <2>3, LeaderTypes DEF Entered
<1>3. QuietInv'
  <2> SUFFICES ASSUME NEW k \in Leaders, NEW l \in Leaders, k < l, l <= gen,
                      NEW beat \in {leader'[k].sent, leader'[k].confirmed}
               PROVE  QuietBeat(l, beat)'
    BY DEF QuietInv
  <2> SUFFICES ASSUME beat.known PROVE QuietBeat(l, beat)'
    BY DEF QuietBeat
  <2>0. k # gen
    BY LeaderTypes, Counters
  <2>1. beat = leader[k].sent \/ beat = leader[k].confirmed
    BY <2>0
  <2>2. QuietBeat(l, beat)
    BY <2>1 DEF IInv, QuietInv
  <2>3. guard'[l] = guard[l] \/ guard'[l].term = 0
    OBVIOUS
  <2> QED
    BY <2>2, <2>3 DEF QuietBeat, Entered
<1>4. ClaimsInv'
  <2>1. ASSUME NEW n \in Nodes, NEW claim \in Claims, Sound(n, claim)
        PROVE  Sound(n, claim)'
    <3> SUFFICES ASSUME claim # NoClaim PROVE Sound(n, claim)'
      BY DEF Sound
    <3>1. granter >= 1 => leader'[granter].seen \in Nat /\ leader[granter].seen \in Nat
                          /\ leader'[granter].seen >= leader[granter].seen
      <4>1. granter >= 1 => granter \in Leaders
        BY Counters DEF Leaders
      <4> QED
        BY <4>1 DEF IInv, TypeOK, Leaderships
    <3>2. claim.term \in Nat
      BY DEF Claims
    <3>3. ASSUME NEW l \in Leaders, claim.term < guard'[l].term
          PROVE  Deadline(claim) <= guard'[l].eligible + Overlap
      <4>1. guard'[l].term # 0
        BY <3>2, <3>3
      <4>2. guard'[l] = guard[l]
        BY <4>1
      <4> QED
        BY <2>1, <3>3, <4>2 DEF Sound
    <3> QED
      BY <2>1, <3>1, <3>2, <3>3 DEF Sound, Deadline
  <2> QED
    BY <2>1 DEF IInv, ClaimsInv, TypeOK
<1> QED
  BY <1>1, <1>2, <1>3, <1>4 DEF IInv

\* A record and an entry that a step may give to a leader.
Fits(l, new, entry) ==
    /\ new \in Leaderships /\ entry \in Entries
    /\ entry = guard[l] \/ entry.term = 0
    /\ new.base = leader[l].base /\ leader[l].seen <= new.seen /\ new.seen <= Len(log)
    /\ l > gen => new.phase = "none"
    /\ new.phase # "leading" => entry.term = 0
    /\ new.baseline <= new.offset /\ new.offset <= MaxSuspended
    /\ new.phase \notin {"elected", "leading"} => ~new.sent.known /\ ~new.confirmed.known
    /\ \A k \in Leaders : l < k /\ k <= gen => new.seen <= leader[k].base
    /\ \A beat \in {new.sent, new.confirmed} :
          /\ BeatOf(new, entry, beat)
          /\ beat.known => l = gen \/ beat = leader[l].sent \/ beat = leader[l].confirmed

\* A step that gives one leader a new record and a new entry.
LEMMA OneLeader ==
    ASSUME IInv, NEW l \in Leaders, NEW new, NEW entry, Fits(l, new, entry),
           leader' = [leader EXCEPT ![l] = new],
           guard' = [guard EXCEPT ![l] = entry],
           UNCHANGED <<now, log, gen, answer, lease, boot, granter>>
    PROVE  IInv'
<1>1. \A k \in Leaders :
         /\ leader'[k] = IF k = l THEN new ELSE leader[k]
         /\ guard'[k] = IF k = l THEN entry ELSE guard[k]
  BY DEF IInv, TypeOK
<1>2. TypeOK'
  <2>1. leader' \in [Leaders -> Leaderships] /\ guard' \in [Leaders -> Entries]
    BY DEF Fits, IInv, TypeOK
  <2>2. ASSUME NEW k \in Leaders
        PROVE  leader'[k].base <= leader'[k].seen /\ leader'[k].seen <= Len(log)
    <3>1. CASE k = l
      <4>1. leader[l].base <= leader[l].seen
        BY DEF IInv, TypeOK
      <4> QED
        BY <1>1, <3>1, <4>1, LeaderTypes DEF Fits, Leaderships
    <3>2. CASE k # l
      BY <1>1, <3>2 DEF IInv, TypeOK
    <3> QED
      BY <3>1, <3>2
  <2> QED
    BY <2>1, <2>2 DEF IInv, TypeOK
<1>3. BeatsInv'
  <2> SUFFICES ASSUME NEW k \in Leaders
               PROVE  BeatOK(k, leader[k].sent)' /\ BeatOK(k, leader[k].confirmed)'
    BY DEF BeatsInv
  <2>1. CASE k = l
    BY <1>1, <2>1 DEF Fits, BeatOK, BeatOf
  <2>2. CASE k # l
    <3>1. BeatOK(k, leader[k].sent) /\ BeatOK(k, leader[k].confirmed)
      BY DEF IInv, BeatsInv
    <3> QED
      BY <1>1, <2>2, <3>1 DEF BeatOK, BeatOf
  <2> QED
    BY <2>1, <2>2
<1>4. ASSUME NEW k \in Leaders
      PROVE  /\ guard'[k] = guard[k] \/ guard'[k].term = 0
             /\ leader'[k].base = leader[k].base /\ leader'[k].seen >= leader[k].seen
             /\ k > gen => leader'[k].phase = "none"
             /\ leader'[k].phase # "leading" => guard'[k].term = 0
             /\ leader'[k].baseline <= leader'[k].offset /\ leader'[k].offset <= MaxSuspended
             /\ leader'[k].phase \notin {"elected", "leading"} =>
                   ~leader'[k].sent.known /\ ~leader'[k].confirmed.known
             /\ \A beat \in {leader'[k].sent, leader'[k].confirmed} : beat.known =>
                   k = gen \/ beat = leader[k].sent \/ beat = leader[k].confirmed
             /\ \A m \in Leaders : k < m /\ m <= gen => leader'[k].seen <= leader[m].base
  <2>1. CASE k = l
    BY <1>1, <2>1, LeaderTypes DEF Fits, Leaderships
  <2>2. CASE k # l
    BY <1>1, <2>2, LeaderTypes DEF IInv, LeadersInv, Alive
  <2> QED
    BY <2>1, <2>2
<1> QED
  BY <1>2, <1>3, <1>4, LeaderFrame

\* The facts that OneLeader asks for and the invariant gives about a leader as it is.
LEMMA AsItIs ==
    ASSUME IInv, NEW l \in Leaders
    PROVE  /\ leader[l] \in Leaderships /\ guard[l] \in Entries
           /\ leader[l].base <= leader[l].seen /\ leader[l].seen <= Len(log)
           /\ l > gen => leader[l].phase = "none"
           /\ leader[l].phase # "leading" => guard[l].term = 0
           /\ leader[l].baseline <= leader[l].offset /\ leader[l].offset <= MaxSuspended
           /\ leader[l].phase \notin {"elected", "leading"} =>
                 ~leader[l].sent.known /\ ~leader[l].confirmed.known
           /\ \A k \in Leaders : l < k /\ k <= gen => leader[l].seen <= leader[k].base
           /\ BeatOf(leader[l], guard[l], leader[l].sent)
           /\ BeatOf(leader[l], guard[l], leader[l].confirmed)
           /\ guard = [guard EXCEPT ![l] = guard[l]]
BY DEF IInv, TypeOK, LeadersInv, Alive, BeatsInv, BeatOK

\* A heartbeat is sent.
LEMMA StampHeartbeatStep ==
    ASSUME IInv, NEW l \in Leaders, StampHeartbeat(l)
    PROVE  IInv'
<1> DEFINE beat == [known |-> TRUE, boot |-> now, active |-> Active(l)]
           new == [leader[l] EXCEPT !.sent = beat]
<1>1. /\ beat \in Beats /\ beat.boot - beat.active = leader[l].offset
      /\ beat.boot = now /\ beat.active = now - leader[l].offset
  BY LeaderTypes DEF Beats, Active
<1>2. l = gen /\ leader[l].phase \in {"elected", "leading"}
  BY DEF StampHeartbeat, Alive
<1>3. leader' = [leader EXCEPT ![l] = new] /\ guard' = guard
      /\ UNCHANGED <<now, log, gen, answer, lease, boot, granter>>
  BY DEF StampHeartbeat, IInv, TypeOK
<1> HIDE DEF beat
<1>4. /\ new \in Leaderships
      /\ new.sent = beat /\ new.confirmed = leader[l].confirmed /\ new.seen = leader[l].seen
      /\ new.base = leader[l].base /\ new.phase = leader[l].phase
      /\ new.baseline = leader[l].baseline /\ new.offset = leader[l].offset
  BY <1>1, AsItIs DEF Leaderships
<1> HIDE DEF new
<1>5. BeatOf(new, guard[l], beat)
  BY <1>1, <1>4, AsItIs, LeaderTypes DEF BeatOf
<1>6. BeatOf(new, guard[l], leader[l].confirmed)
  BY <1>4, AsItIs DEF BeatOf
<1>7. leader[l].seen <= new.seen
  BY <1>4, LeaderTypes
<1>8. Fits(l, new, guard[l])
  BY <1>2, <1>4, <1>5, <1>6, <1>7, AsItIs DEF Fits
<1> QED
  BY <1>3, <1>8, AsItIs, OneLeader, ZenonT(60)

\* A heartbeat is confirmed.
LEMMA AcceptHeartbeatStep ==
    ASSUME IInv, NEW l \in Leaders, AcceptHeartbeat(l)
    PROVE  IInv'
<1> DEFINE c == IF Active(l) - leader[l].sent.active < Validity
                THEN leader[l].sent ELSE leader[l].confirmed
           new == [leader[l] EXCEPT !.confirmed = c, !.sent = NoBeat]
<1>2. leader[l].phase \in {"elected", "leading"}
  BY DEF AcceptHeartbeat, Alive
<1>1. c \in {leader[l].sent, leader[l].confirmed} /\ c \in Beats /\ NoBeat \in Beats
  BY LeaderTypes DEF Beats, NoBeat
<1>3. leader' = [leader EXCEPT ![l] = new] /\ guard' = guard
      /\ UNCHANGED <<now, log, gen, answer, lease, boot, granter>>
  BY ZenonT(60) DEF AcceptHeartbeat, IInv, TypeOK
<1> HIDE DEF c
<1>4. /\ new \in Leaderships
      /\ new.sent = NoBeat /\ new.confirmed = c /\ new.seen = leader[l].seen
      /\ new.base = leader[l].base /\ new.phase = leader[l].phase
      /\ new.baseline = leader[l].baseline /\ new.offset = leader[l].offset
  BY <1>1, AsItIs, ZenonT(60) DEF Leaderships
<1> HIDE DEF new
<1>5. ~NoBeat.known
  BY DEF NoBeat
<1>6. BeatOf(new, guard[l], c) /\ BeatOf(new, guard[l], NoBeat)
  BY <1>1, <1>4, <1>5, AsItIs DEF BeatOf
<1>7. leader[l].seen <= new.seen
  BY <1>4, LeaderTypes
<1>8. Fits(l, new, guard[l])
  BY <1>1, <1>2, <1>4, <1>5, <1>6, <1>7, AsItIs DEF Fits
<1> QED
  BY <1>3, <1>8, AsItIs, OneLeader, ZenonT(60)

\* A leader applies a committed term.
LEMMA ApplyStep ==
    ASSUME IInv, NEW l \in Leaders, Apply(l)
    PROVE  IInv'
<1> DEFINE new == [leader[l] EXCEPT !.seen = @ + 1]
<1>1. leader' = [leader EXCEPT ![l] = new] /\ guard' = guard
      /\ UNCHANGED <<now, log, gen, answer, lease, boot, granter>>
  BY DEF Apply, IInv, TypeOK
<1>2. /\ new \in Leaderships
      /\ new.sent = leader[l].sent /\ new.confirmed = leader[l].confirmed
      /\ new.seen = leader[l].seen + 1
      /\ new.base = leader[l].base /\ new.phase = leader[l].phase
      /\ new.baseline = leader[l].baseline /\ new.offset = leader[l].offset
  BY LeaderTypes, AsItIs, SMTT(40) DEF Leaderships
<1> HIDE DEF new
<1>3. l <= gen
  BY LeaderTypes, Counters, AsItIs DEF Apply, Alive
<1>4. l # gen => l + 1 \in Leaders /\ l + 1 <= gen
  BY <1>3, LeaderTypes, Counters DEF Leaders
<1>5. new.seen <= IF l = gen THEN Len(log) ELSE leader[l + 1].base
  BY <1>2, <1>4, LeaderTypes, Counters, SMTT(40) DEF Apply
<1>6. new.seen <= Len(log)
  <2>1. CASE l = gen
    BY <1>5, <2>1
  <2>2. CASE l # gen
    <3>1. leader[l + 1].base <= Len(log) /\ leader[l + 1].base \in Nat
      <4>1. leader[l + 1].base <= leader[l + 1].seen /\ leader[l + 1].seen <= Len(log)
        BY <1>4, <2>2, AsItIs
      <4> QED
        BY <4>1, <1>4, <2>2, LeaderTypes, Counters
    <3> QED
      BY <1>2, <1>5, <2>2, <3>1, LeaderTypes, Counters, SMTT(40)
  <2> QED
    BY <2>1, <2>2
<1>7. ASSUME NEW k \in Leaders, l < k, k <= gen
      PROVE  new.seen <= leader[k].base
  <2>1. l # gen /\ (k = l + 1 \/ l + 1 < k)
    BY <1>7, LeaderTypes, Counters
  <2>2. CASE k = l + 1
    BY <1>5, <2>1, <2>2
  <2>3. CASE l + 1 < k
    <3>1. leader[l + 1].seen <= leader[k].base /\ leader[l + 1].base <= leader[l + 1].seen
      BY <1>4, <1>7, <2>1, <2>3, AsItIs
    <3> QED
      BY <1>2, <1>4, <1>5, <2>1, <3>1, LeaderTypes
  <2> QED
    BY <2>1, <2>2, <2>3
<1>8. leader[l].seen <= new.seen
  BY <1>2, LeaderTypes
<1>9. BeatOf(new, guard[l], leader[l].sent) /\ BeatOf(new, guard[l], leader[l].confirmed)
  BY <1>2, AsItIs DEF BeatOf
<1>10. Fits(l, new, guard[l])
  BY <1>2, <1>6, <1>7, <1>8, <1>9, AsItIs DEF Fits
<1> QED
  BY <1>1, <1>10, AsItIs, OneLeader, ZenonT(60)

\* A leadership ends.
LEMMA RevokedStep ==
    ASSUME IInv, NEW l \in Leaders, leader' = Revoked(l), Alive(l),
           guard' = [guard EXCEPT ![l] = NoEntry],
           UNCHANGED <<now, log, gen, answer, lease, boot, granter>>
    PROVE  IInv'
<1> DEFINE new == Leadership("revoked", leader[l].base, leader[l].seen)
<1>1. leader' = [leader EXCEPT ![l] = new] /\ NoEntry \in Entries /\ NoEntry.term = 0
  BY TimingAssumption DEF Revoked, NoEntry, Entries
<1>2. /\ new \in Leaderships
      /\ new.sent = NoBeat /\ new.confirmed = NoBeat /\ new.seen = leader[l].seen
      /\ new.base = leader[l].base /\ new.phase = "revoked"
      /\ new.baseline = 0 /\ new.offset = 0
  <2>1. NoBeat \in Beats
    BY DEF NoBeat, Beats
  <2>2. leader[l].base \in Nat \ {0} /\ leader[l].seen \in Nat \ {0}
    BY LeaderTypes
  <2> QED
    BY <2>1, <2>2 DEF Leadership, Leaderships
<1> HIDE DEF new
<1>3. ~NoBeat.known
  BY DEF NoBeat
<1>4. BeatOf(new, NoEntry, NoBeat)
  BY <1>3 DEF BeatOf
<1>5. leader[l].seen <= new.seen /\ ~(l > gen) /\ new.offset <= MaxSuspended
  <2>1. leader[l].seen <= new.seen
    BY <1>2, LeaderTypes
  <2>2. ~(l > gen)
    BY AsItIs DEF Alive
  <2>3. new.offset <= MaxSuspended
    BY <1>2, TimingAssumption
  <2> QED
    BY <2>1, <2>2, <2>3
<1>6. Fits(l, new, NoEntry)
  BY <1>1, <1>2, <1>3, <1>4, <1>5, AsItIs DEF Fits
<1> QED
  BY <1>1, <1>6, OneLeader, ZenonT(60)

\* The server of a leader starts.
LEMMA StartStep ==
    ASSUME IInv, NEW l \in Leaders, Start(l)
    PROVE  IInv'
<1> DEFINE new == [leader[l] EXCEPT !.phase = "leading", !.baseline = leader[l].offset]
<1>1. leader' = [leader EXCEPT ![l] = new] /\ NoEntry \in Entries /\ NoEntry.term = 0
      /\ guard' = [guard EXCEPT ![l] = NoEntry]
      /\ UNCHANGED <<now, log, gen, answer, lease, boot, granter>>
  BY TimingAssumption, ZenonT(60) DEF Start, NoEntry, Entries, IInv, TypeOK
<1>2. /\ new \in Leaderships
      /\ new.sent = leader[l].sent /\ new.confirmed = leader[l].confirmed
      /\ new.seen = leader[l].seen
      /\ new.base = leader[l].base /\ new.phase = "leading"
      /\ new.baseline = leader[l].offset /\ new.offset = leader[l].offset
  BY LeaderTypes, AsItIs, ZenonT(60) DEF Leaderships
<1> HIDE DEF new
<1>3. ASSUME NEW beat \in Beats, BeatOf(leader[l], guard[l], beat)
      PROVE  BeatOf(new, NoEntry, beat)
  <2> SUFFICES ASSUME beat.known PROVE BeatOf(new, NoEntry, beat)
    BY DEF BeatOf
  <2>1. beat.boot \in Nat /\ beat.active \in Int /\ leader[l].offset \in Nat /\ now \in Nat
    BY LeaderTypes DEF Beats
  <2>2. beat.active <= beat.boot /\ beat.boot <= now
        /\ beat.boot - beat.active <= leader[l].offset
        /\ beat.active <= now - leader[l].offset
    BY <1>3 DEF BeatOf
  <2> QED
    BY <1>1, <1>2, <2>1, <2>2 DEF BeatOf
<1>4. /\ leader[l].seen <= new.seen /\ ~(l > gen)
      /\ new.baseline <= new.offset /\ new.offset <= MaxSuspended
  BY <1>2, LeaderTypes, Counters, AsItIs DEF Start
<1>5. BeatOf(new, NoEntry, leader[l].sent) /\ BeatOf(new, NoEntry, leader[l].confirmed)
  BY <1>3, AsItIs, LeaderTypes
<1>6. Fits(l, new, NoEntry)
  BY <1>1, <1>2, <1>4, <1>5, AsItIs DEF Fits
<1> QED
  BY <1>1, <1>6, OneLeader, ZenonT(60)

\* Time passes.
LEMMA TickStep ==
    ASSUME IInv,
           NEW suspended \in SUBSET {l \in Leaders : Alive(l) /\ leader[l].offset < MaxSuspended},
           Tick(suspended)
    PROVE  IInv'
<1>1. now' = now + 1 /\ UNCHANGED <<log, gen, guard, boot, granter>>
  BY DEF Tick
<1>2. ASSUME NEW k \in Leaders
      PROVE  /\ leader'[k] \in Leaderships
             /\ leader'[k].phase = leader[k].phase
             /\ leader'[k].base = leader[k].base /\ leader'[k].seen = leader[k].seen
             /\ leader'[k].baseline = leader[k].baseline
             /\ leader'[k].sent = leader[k].sent /\ leader'[k].confirmed = leader[k].confirmed
             /\ leader'[k].offset \in {leader[k].offset, leader[k].offset + 1}
             /\ leader'[k].offset <= MaxSuspended
  <2>1. leader'[k] = IF k \in suspended THEN [leader[k] EXCEPT !.offset = @ + 1] ELSE leader[k]
    BY DEF Tick
  <2>2. CASE k \in suspended
    <3>1. leader[k].offset + 1 <= MaxSuspended
      BY <2>2, LeaderTypes, TimingAssumption
    <3> QED
      BY <2>1, <2>2, <3>1, AsItIs, LeaderTypes, SMTT(40) DEF Leaderships
  <2>3. CASE k \notin suspended
    BY <2>1, <2>3, AsItIs
  <2> QED
    BY <2>2, <2>3
<1>3. ASSUME NEW n \in Nodes, NEW claim \in Claims, Sound(n, claim), now + 1 < Deadline(claim)
      PROVE  Sound(n, claim)'
  <2> SUFFICES ASSUME claim # NoClaim PROVE Sound(n, claim)'
    BY DEF Sound
  <2>1. granter >= 1 => granter \in Leaders
    BY Counters DEF Leaders
  <2>2. granter >= 1 => leader'[granter].seen = leader[granter].seen
    BY <1>2, <2>1
  <2>3. Deadline(claim)' = Deadline(claim) /\ claim.sentAt \in Nat
    BY DEF Deadline, Claims
  <2>4. claim.sentAt <= now'
    BY <1>1, <1>3, <2>3, Counters DEF Sound
  <2> QED
    BY <1>1, <1>3, <2>2, <2>3, <2>4 DEF Sound
<1>4. /\ answer' \in [Nodes -> Claims] /\ lease' \in [Nodes -> Claims]
      /\ \A n \in Nodes : /\ answer'[n] \in {answer[n], NoClaim} /\ lease'[n] \in {lease[n], NoClaim}
                          /\ Sound(n, answer[n])' /\ Sound(n, lease[n])'
  <2>1. NoClaim \in Claims
    BY DEF NoClaim, Claims
  <2>2. ASSUME NEW n \in Nodes
        PROVE  /\ answer'[n] = NoClaim \/ (answer'[n] = answer[n] /\ now + 1 < Deadline(answer[n]))
               /\ lease'[n] = NoClaim \/ (lease'[n] = lease[n] /\ now + 1 < Deadline(lease[n]))
    BY DEF Tick, Remaining
  <2>3. ASSUME NEW n \in Nodes
        PROVE  answer[n] \in Claims /\ lease[n] \in Claims
               /\ Sound(n, answer[n]) /\ Sound(n, lease[n])
    BY DEF IInv, TypeOK, ClaimsInv
  <2>4. ASSUME NEW n \in Nodes PROVE Sound(n, answer[n])'
    <3>1. CASE answer'[n] = NoClaim
      BY <3>1 DEF Sound
    <3>2. CASE answer'[n] = answer[n] /\ now + 1 < Deadline(answer[n])
      BY <1>3, <2>3, <3>2 DEF Sound, Deadline
    <3> QED
      BY <2>2, <3>1, <3>2
  <2>5. ASSUME NEW n \in Nodes PROVE Sound(n, lease[n])'
    <3>1. CASE lease'[n] = NoClaim
      BY <3>1 DEF Sound
    <3>2. CASE lease'[n] = lease[n] /\ now + 1 < Deadline(lease[n])
      BY <1>3, <2>3, <3>2, SMTT(40) DEF Sound, Deadline
    <3> QED
      BY <2>2, <3>1, <3>2
  <2>6. answer' \in [Nodes -> Claims] /\ lease' \in [Nodes -> Claims]
    BY <2>1, <2>2, <2>3 DEF Tick
  <2> QED
    BY <2>2, <2>4, <2>5, <2>6
<1>5. TypeOK'
  <2>1. leader' \in [Leaders -> Leaderships]
    BY <1>2 DEF Tick
  <2> QED
    BY <1>1, <1>2, <1>4, <2>1 DEF IInv, TypeOK
<1>6. LeadersInv'
  <2>1. ASSUME NEW k \in Leaders PROVE leader'[k].baseline <= leader'[k].offset
    BY <1>2, AsItIs, LeaderTypes, SMTT(40)
  <2> QED
    BY <1>1, <1>2, <2>1 DEF IInv, LeadersInv, Alive
<1>7. GuardInv'
  BY <1>1, <1>2, LeaderTypes, TimingAssumption, SMTT(40) DEF IInv, GuardInv, Entered
<1>8. BeatsInv'
  <2>1. ASSUME NEW k \in Leaders, NEW beat \in Beats, BeatOf(leader[k], guard[k], beat)
        PROVE  BeatOf(leader[k], guard[k], beat)'
    <3>1. guard'[k] = guard[k] /\ now' = now + 1 /\ now \in Nat
      BY <1>1, LeaderTypes
    <3>2. /\ leader'[k].baseline = leader[k].baseline /\ leader[k].offset \in Nat
          /\ leader'[k].offset \in {leader[k].offset, leader[k].offset + 1}
      BY <1>2, LeaderTypes
    <3>3. beat.boot \in Nat /\ beat.active \in Int
      BY DEF Beats
    <3> QED
      BY <2>1, <3>1, <3>2, <3>3 DEF BeatOf
  <2>2. ASSUME NEW k \in Leaders
        PROVE  BeatOK(k, leader[k].sent)' /\ BeatOK(k, leader[k].confirmed)'
    <3>1. /\ leader[k].sent \in Beats /\ leader[k].confirmed \in Beats
          /\ BeatOf(leader[k], guard[k], leader[k].sent)
          /\ BeatOf(leader[k], guard[k], leader[k].confirmed)
      BY AsItIs, LeaderTypes
    <3>2. leader'[k].sent = leader[k].sent /\ leader'[k].confirmed = leader[k].confirmed
      BY <1>2
    <3> QED
      BY <2>1, <3>1, <3>2 DEF BeatOK, BeatOf
  <2> QED
    BY <2>2 DEF BeatsInv
<1>9. QuietInv'
  <2>1. ASSUME NEW k \in Leaders, NEW l \in Leaders, k < l, l <= gen,
               NEW beat \in {leader[k].sent, leader[k].confirmed}
        PROVE  QuietBeat(l, beat)'
    <3>1. QuietBeat(l, beat) /\ beat \in Beats
      BY <2>1, LeaderTypes DEF IInv, QuietInv
    <3> QED
      BY <1>1, <3>1, LeaderTypes, TimingAssumption, SMTT(40) DEF QuietBeat, Entered, Beats
  <2> QED
    BY <1>1, <1>2, <2>1 DEF QuietInv, QuietBeat
<1>10. ClaimsInv'
  BY <1>4 DEF ClaimsInv
<1> QED
  BY <1>5, <1>6, <1>7, <1>8, <1>9, <1>10 DEF IInv

\* The next term is committed.
LEMMA CutoverStep ==
    ASSUME IInv, NEW n \in Nodes, Cutover(n)
    PROVE  IInv'
<1>1. log' = Append(log, n) /\ UNCHANGED <<now, gen, leader, guard, answer, lease, boot, granter>>
  BY DEF Cutover
<1>2. /\ log' \in Seq(Nodes) /\ Len(log') = Len(log) + 1 /\ Len(log) \in Nat
      /\ \A i \in 1..Len(log) : log'[i] = log[i]
  BY <1>1 DEF IInv, TypeOK
<1>3. TypeOK'
  <2>1. ASSUME NEW l \in Leaders PROVE leader'[l].base <= leader'[l].seen /\ leader'[l].seen <= Len(log')
    BY <1>1, <1>2, AsItIs, LeaderTypes
  <2> QED
    BY <1>1, <1>2, <2>1 DEF IInv, TypeOK
<1>4. LeadersInv' /\ GuardInv' /\ BeatsInv' /\ QuietInv'
  BY <1>1 DEF IInv, LeadersInv, Alive, GuardInv, Entered, BeatsInv, BeatOK, BeatOf, QuietInv,
              QuietBeat
<1>5. ClaimsInv'
  <2>1. ASSUME NEW m \in Nodes, NEW claim \in Claims, Sound(m, claim) PROVE Sound(m, claim)'
    <3> SUFFICES ASSUME claim # NoClaim PROVE Sound(m, claim)'
      BY DEF Sound
    <3>1. claim.term \in 1..Len(log') /\ log'[claim.term] = m
      BY <1>2, <2>1 DEF Sound
    <3> QED
      BY <1>1, <2>1, <3>1 DEF Sound, Deadline
  <2> QED
    BY <1>1, <2>1 DEF IInv, TypeOK, ClaimsInv
<1> QED
  BY <1>3, <1>4, <1>5 DEF IInv

\* A step of a node, after which it holds no claim that it did not hold before.
LEMMA NodeStep ==
    ASSUME IInv, UNCHANGED <<now, log, gen, leader, guard, granter>>,
           boot' \in [Nodes -> Nat],
           answer' \in [Nodes -> Claims], lease' \in [Nodes -> Claims],
           \A n \in Nodes : /\ answer'[n] \in {answer[n], lease[n], NoClaim}
                            /\ lease'[n] \in {answer[n], lease[n], NoClaim}
    PROVE  IInv'
<1>1. TypeOK'
  BY DEF IInv, TypeOK
<1>2. LeadersInv' /\ GuardInv' /\ BeatsInv' /\ QuietInv'
  BY DEF IInv, LeadersInv, Alive, GuardInv, Entered, BeatsInv, BeatOK, BeatOf, QuietInv,
         QuietBeat
<1>3. ClaimsInv'
  <2> SUFFICES ASSUME NEW n \in Nodes PROVE Sound(n, answer[n])' /\ Sound(n, lease[n])'
    BY DEF ClaimsInv
  <2>1. Sound(n, answer[n]) /\ Sound(n, lease[n])
    BY DEF IInv, ClaimsInv
  <2> QED
    BY <2>1 DEF Sound, Deadline
<1> QED
  BY <1>1, <1>2, <1>3 DEF IInv

\* The steps of a node.
LEMMA NodeSteps ==
    ASSUME IInv, NEW n \in Nodes, AcceptGrant(n) \/ LoseSession(n) \/ Restart(n)
    PROVE  IInv'
<1>1. NoClaim \in Claims /\ answer \in [Nodes -> Claims] /\ lease \in [Nodes -> Claims]
      /\ boot \in [Nodes -> Nat]
  BY DEF NoClaim, Claims, IInv, TypeOK
<1>2. CASE AcceptGrant(n)
  BY <1>1, <1>2, NodeStep DEF AcceptGrant
<1>3. CASE LoseSession(n)
  BY <1>1, <1>3, NodeStep DEF LoseSession
<1>4. CASE Restart(n)
  BY <1>1, <1>4, TimingAssumption, NodeStep DEF Restart
<1> QED
  BY <1>2, <1>3, <1>4

\* The next leader is elected.
LEMMA ElectStep ==
    ASSUME IInv, Elect
    PROVE  IInv'
<1> DEFINE sent == IF leader[gen].sent.known /\ ~(leader[gen].sent.boot + Takeover <= now)
                   THEN NoBeat ELSE leader[gen].sent
           old == [leader[gen] EXCEPT !.sent = sent]
           new == Leadership("elected", Len(log), Len(log))
           next == gen + 1
<1>1. gen' = next /\ next \in Leaders /\ gen \in Leaders /\ next # gen
      /\ UNCHANGED <<now, log, guard, answer, lease, boot, granter>>
  BY Counters DEF IInv, TypeOK, Elect, Leaders
<1>2. \A k \in Leaders : leader'[k] = IF k = next THEN new ELSE IF k = gen THEN old ELSE leader[k]
  BY <1>1 DEF Elect, IInv, TypeOK
<1>3. sent \in {NoBeat, leader[gen].sent} /\ sent \in Beats /\ NoBeat \in Beats /\ ~NoBeat.known
      /\ (sent.known => sent.boot + Takeover <= now)
  BY <1>1, LeaderTypes DEF NoBeat, Beats
<1> HIDE DEF sent
<1>4. /\ old \in Leaderships /\ old.sent = sent /\ old.confirmed = leader[gen].confirmed
      /\ old.seen = leader[gen].seen /\ old.base = leader[gen].base
      /\ old.phase = leader[gen].phase /\ old.baseline = leader[gen].baseline
      /\ old.offset = leader[gen].offset
  BY <1>1, <1>3, AsItIs DEF Leaderships
<1>5. Len(log) \in Nat \ {0}
  BY <1>1, AsItIs, LeaderTypes, Counters
<1>6. /\ new \in Leaderships /\ new.phase = "elected" /\ new.base = Len(log) /\ new.seen = Len(log)
      /\ new.offset = 0 /\ new.baseline = 0 /\ new.sent = NoBeat /\ new.confirmed = NoBeat
  BY <1>3, <1>5 DEF Leadership, Leaderships
<1> HIDE DEF old, new
<1>7. /\ leader[next].phase = "none" /\ guard[next].term = 0
      /\ \A k \in Leaders : k <= next /\ k # next => k <= gen
      /\ \A k \in Leaders : k > next => k > gen
  BY <1>1, AsItIs, LeaderTypes, Counters
<1>8. leader[gen].confirmed.known => leader[gen].confirmed.boot + Takeover <= now
  BY <1>1, AsItIs DEF Elect, Alive
<1>9. TypeOK'
  <2>1. leader' \in [Leaders -> Leaderships]
    <3>1. leader' = [k \in Leaders |-> leader'[k]]
      BY ZenonT(60) DEF Elect, IInv, TypeOK
    <3>2. ASSUME NEW k \in Leaders PROVE leader'[k] \in Leaderships
      BY <1>2, <1>4, <1>6, AsItIs
    <3> QED
      BY <3>1, <3>2
  <2>2. ASSUME NEW k \in Leaders PROVE leader'[k].base <= leader'[k].seen /\ leader'[k].seen <= Len(log)
    <3>1. CASE k = next
      BY <1>2, <1>5, <1>6, <3>1
    <3>2. CASE k = gen
      BY <1>1, <1>2, <1>4, <3>2, AsItIs
    <3>3. CASE k # gen /\ k # next
      BY <1>2, <3>3, AsItIs
    <3> QED
      BY <3>1, <3>2, <3>3
  <2> QED
    BY <1>1, <2>1, <2>2 DEF IInv, TypeOK
<1>10. LeadersInv'
  <2>1. granter' <= gen'
    BY <1>1, Counters DEF IInv, LeadersInv
  <2>2. ASSUME NEW k \in Leaders
        PROVE  /\ k > gen' => leader'[k].phase = "none"
               /\ leader'[k].phase # "leading" => guard'[k].term = 0
               /\ leader'[k].baseline <= leader'[k].offset /\ leader'[k].offset <= MaxSuspended
               /\ leader'[k].phase \notin {"elected", "leading"} =>
                     ~leader'[k].sent.known /\ ~leader'[k].confirmed.known
    <3>1. CASE k = next
      BY <1>1, <1>2, <1>6, <1>7, <3>1, Counters, TimingAssumption
    <3>2. CASE k = gen
      BY <1>1, <1>2, <1>3, <1>4, <1>7, <3>2, AsItIs, Counters, SMTT(40)
    <3>3. CASE k # gen /\ k # next
      BY <1>1, <1>2, <1>7, <3>3, AsItIs
    <3> QED
      BY <3>1, <3>2, <3>3
  <2>3. ASSUME NEW k \in Leaders, NEW l \in Leaders, k < l, l <= gen'
        PROVE  leader'[k].seen <= leader'[l].base
    <3>0. k # next
      BY <1>1, <2>3, LeaderTypes, Counters
    <3>1. leader'[k].seen = leader[k].seen
      BY <1>2, <1>4, <3>0
    <3>2. CASE l = next
      BY <1>2, <1>6, <3>1, <3>2, AsItIs
    <3>3. CASE l # next
      <4>1. l <= gen /\ leader'[l].base = leader[l].base
        BY <1>1, <1>2, <1>4, <1>7, <2>3, <3>3
      <4> QED
        BY <2>3, <3>1, <4>1, AsItIs
    <3> QED
      BY <3>2, <3>3
  <2> QED
    BY <2>1, <2>2, <2>3 DEF LeadersInv, Alive
<1>11. GuardInv'
  BY <1>1, <1>2, <1>4, <1>6, <1>7 DEF IInv, GuardInv, Entered
<1>12. BeatsInv'
  <2> SUFFICES ASSUME NEW k \in Leaders, NEW beat \in {leader'[k].sent, leader'[k].confirmed}
               PROVE  BeatOf(leader[k], guard[k], beat)'
    BY DEF BeatsInv, BeatOK
  <2> SUFFICES ASSUME beat.known PROVE BeatOf(leader[k], guard[k], beat)'
    BY DEF BeatOf
  <2>1. k # next
    BY <1>2, <1>3, <1>6
  <2>2. beat \in {leader[k].sent, leader[k].confirmed}
    BY <1>1, <1>2, <1>3, <1>4, <2>1
  <2>3. BeatOf(leader[k], guard[k], beat)
    BY <2>2, AsItIs
  <2>4. leader'[k].offset = leader[k].offset /\ leader'[k].baseline = leader[k].baseline
    BY <1>1, <1>2, <1>4, <2>1
  <2> QED
    BY <1>1, <2>3, <2>4 DEF BeatOf
<1>13. QuietInv'
  <2> SUFFICES ASSUME NEW k \in Leaders, NEW l \in Leaders, k < l, l <= gen',
                      NEW beat \in {leader'[k].sent, leader'[k].confirmed}
               PROVE  QuietBeat(l, beat)'
    BY DEF QuietInv
  <2> SUFFICES ASSUME beat.known PROVE QuietBeat(l, beat)'
    BY DEF QuietBeat
  <2>1. k # next /\ beat \in {leader[k].sent, leader[k].confirmed}
        /\ (k = gen => beat.boot + Takeover <= now)
    BY <1>1, <1>2, <1>3, <1>4, <1>8, LeaderTypes, Counters, SMTT(40)
  <2>2. CASE l = next
    <3>1. beat.boot + Takeover <= now
      <4>1. CASE k = gen
        BY <2>1, <4>1
      <4>2. CASE k # gen
        <5>1. k < gen /\ gen <= gen
          BY <1>1, <2>1, <2>2, <4>2, LeaderTypes, Counters
        <5> QED
          BY <1>1, <2>1, <5>1 DEF IInv, QuietInv, QuietBeat
      <4> QED
        BY <4>1, <4>2
    <3>2. ~(l <= granter)
      BY <1>1, <2>2, Counters DEF IInv, LeadersInv
    <3> QED
      BY <1>1, <1>7, <2>2, <3>1, <3>2 DEF QuietBeat
  <2>3. CASE l # next
    <3>1. l <= gen
      BY <1>1, <1>7, <2>3
    <3>2. QuietBeat(l, beat)
      BY <2>1, <3>1 DEF IInv, QuietInv
    <3> QED
      BY <1>1, <3>2 DEF QuietBeat, Entered
  <2> QED
    BY <2>2, <2>3
<1>14. ClaimsInv'
  <2>1. granter >= 1 => leader'[granter].seen = leader[granter].seen
    <3>1. granter >= 1 => granter \in Leaders /\ granter # next
      BY <1>1, Counters DEF IInv, LeadersInv, Leaders
    <3> QED
      BY <1>2, <1>4, <3>1
  <2>2. ASSUME NEW n \in Nodes PROVE Sound(n, answer[n])' /\ Sound(n, lease[n])'
    <3>1. Sound(n, answer[n]) /\ Sound(n, lease[n])
      BY DEF IInv, ClaimsInv
    <3> QED
      BY <1>1, <2>1, <3>1 DEF Sound, Deadline
  <2> QED
    BY <2>2 DEF ClaimsInv
<1> QED
  BY <1>9, <1>10, <1>11, <1>12, <1>13, <1>14 DEF IInv

\* A challenge is evaluated.
LEMMA EvaluateStep ==
    ASSUME IInv, NEW l \in Leaders, NEW n \in Nodes, NEW sentAt, NEW ready \in BOOLEAN,
           Evaluate(l, n, sentAt, ready)
    PROVE  /\ IInv'
           /\ Outwaited => granter' >= granter
           /\ \A m \in Nodes : m # n /\ Granted(n) => Ends(m)
<1> DEFINE t == leader[l].seen
           entry == Quarantine(l, n)
           granted == ready /\ now >= entry.eligible
           claim == Remaining([term |-> t, sentAt |-> sentAt], now)
           new == IF granted THEN claim ELSE NoClaim
<1>1. /\ Authoritative(l) /\ ~SuspendGap(l) /\ leader[l].phase = "leading" /\ log[t] = n
      /\ sentAt \in Nat /\ sentAt <= now
      /\ guard' = [guard EXCEPT ![l] = entry] /\ answer' = [answer EXCEPT ![n] = new]
      /\ granter' = (IF granted THEN l ELSE granter)
      /\ UNCHANGED <<now, log, gen, leader, lease, boot>>
  <2>1. sentAt \in 0..now /\ now \in Nat
    BY Counters DEF Evaluate
  <2>2. sentAt \in Nat /\ sentAt <= now
    BY <2>1
  <2>3. /\ Authoritative(l) /\ ~SuspendGap(l) /\ log[t] = n
        /\ guard' = [guard EXCEPT ![l] = entry] /\ answer' = [answer EXCEPT ![n] = new]
        /\ granter' = (IF granted THEN l ELSE granter)
        /\ UNCHANGED <<now, log, gen, leader, lease, boot>>
    BY DEF Evaluate
  <2> QED
    BY <2>2, <2>3 DEF Authoritative
<1>2. /\ entry \in Entries /\ entry.term = t /\ t \in Nat \ {0} /\ t <= Len(log)
      /\ entry = guard[l] \/ entry.eligible = now + Validity + Margin
  <2>1. t \in Nat \ {0} /\ guard[l] \in Entries /\ now \in Nat /\ boot[n] \in Nat /\ t <= Len(log)
    BY LeaderTypes, AsItIs DEF IInv, TypeOK
  <2> QED
    BY <2>1, TimingAssumption, SMTT(40) DEF Quarantine, Entries
<1>3. granted => entry = guard[l] /\ guard[l].term # 0 /\ guard[l].eligible <= now
  BY <1>2, LeaderTypes, TimingAssumption, SMTT(40)
<1>4. l <= gen
  BY <1>1, AsItIs, LeaderTypes, Counters, SMTT(40)
<1>5. granted => /\ Outwaited => granter <= l
                 /\ \A k \in Leaders : l < k /\ guard[k].term # 0 =>
                       now + Validity <= guard[k].eligible + Overlap
  BY <1>1, <1>3, LaterQuarantine
<1>6. /\ claim \in Claims /\ NoClaim \in Claims
      /\ claim # NoClaim => claim.term = t /\ claim.sentAt = sentAt /\ now < Deadline(claim)
  BY <1>1, <1>2 DEF Remaining, Claims, NoClaim
<1>7. \A k \in Leaders : guard'[k] = IF k = l THEN entry ELSE guard[k]
  BY <1>1 DEF IInv, TypeOK
<1> HIDE DEF t, entry, claim
<1>8. (Outwaited => granter' >= granter) /\ granter' \in 0..MaxLeaders /\ granter' <= gen'
  BY <1>1, <1>4, <1>5, LeaderTypes, Counters, SMTT(40) DEF IInv, LeadersInv
<1>9. TypeOK'
  <2>1. guard' \in [Leaders -> Entries] /\ answer' \in [Nodes -> Claims]
    BY <1>1, <1>2, <1>6 DEF IInv, TypeOK
  <2> QED
    BY <1>1, <1>8, <2>1 DEF IInv, TypeOK
<1>10. LeadersInv'
  BY <1>1, <1>7, <1>8 DEF IInv, LeadersInv, Alive
<1>11. GuardInv'
  <2> SUFFICES ASSUME NEW k \in Leaders, guard'[k].term # 0
               PROVE  guard'[k].term <= leader'[k].seen /\ Entered(k)' <= now'
    BY DEF GuardInv
  <2>1. CASE k = l
    <3>1. CASE entry = guard[l]
      BY <1>1, <1>7, <2>1, <3>1 DEF IInv, GuardInv, Entered
    <3>2. CASE entry.eligible = now + Validity + Margin
      <4>1. guard'[k] = entry /\ leader'[k] = leader[l] /\ now' = now
        BY <1>1, <1>7, <2>1
      <4>2. entry.term <= leader[l].seen
        BY <1>2, LeaderTypes DEF t
      <4>3. entry.eligible - Validity - Margin <= now
        BY <3>2, LeaderTypes, TimingAssumption
      <4> QED
        BY <4>1, <4>2, <4>3 DEF Entered
    <3> QED
      BY <1>2, <3>1, <3>2
  <2>2. CASE k # l
    BY <1>1, <1>7, <2>2 DEF IInv, GuardInv, Entered
  <2> QED
    BY <2>1, <2>2
<1>12. BeatsInv'
  <2> SUFFICES ASSUME NEW k \in Leaders, NEW beat \in {leader[k].sent, leader[k].confirmed}
               PROVE  BeatOf(leader[k], guard[k], beat)'
    BY <1>1 DEF BeatsInv, BeatOK, BeatOf
  <2>1. BeatOf(leader[k], guard[k], beat) /\ beat \in Beats
    BY AsItIs, LeaderTypes
  <2>2. CASE guard'[k] = guard[k]
    BY <1>1, <2>1, <2>2 DEF BeatOf
  <2>3. CASE guard'[k] # guard[k]
    <3>1. guard'[k].eligible = now + Validity + Margin
      BY <1>2, <1>7, <2>3
    <3>2. /\ leader[k].baseline <= leader[k].offset /\ beat.active \in Int /\ now \in Nat
          /\ leader[k].baseline \in Nat /\ leader[k].offset \in Nat
      BY <2>1, AsItIs, LeaderTypes DEF Beats
    <3>3. beat.known => beat.active <= guard'[k].eligible - Validity - Margin - leader[k].baseline
      <4>1. beat.known => beat.active <= now - leader[k].offset
        BY <2>1, ZenonT(60) DEF BeatOf
      <4>2. guard'[k].eligible - Validity - Margin - leader[k].baseline = now - leader[k].baseline
        BY <3>1, <3>2, TimingAssumption
      <4>3. now - leader[k].offset <= now - leader[k].baseline
        BY <3>2
      <4> QED
        BY <3>2, <4>1, <4>2, <4>3, SMTT(40)
    <3> QED
      BY <1>1, <2>1, <3>3 DEF BeatOf
  <2> QED
    BY <2>2, <2>3
<1>13. QuietInv'
  <2> SUFFICES ASSUME NEW k \in Leaders, NEW m \in Leaders, k < m, m <= gen,
                      NEW beat \in {leader[k].sent, leader[k].confirmed}
               PROVE  QuietBeat(m, beat)'
    BY <1>1 DEF QuietInv, QuietBeat
  <2> SUFFICES ASSUME beat.known PROVE QuietBeat(m, beat)'
    BY DEF QuietBeat
  <2>1. QuietBeat(m, beat) /\ beat.boot \in Nat
    BY LeaderTypes DEF IInv, QuietInv, Beats
  <2>2. beat.boot + Takeover <= now'
    BY <1>1, <2>1 DEF QuietBeat
  <2>3. guard'[m].term # 0 => beat.boot + Takeover <= Entered(m)'
    <3>1. CASE guard'[m] = guard[m]
      BY <2>1, <3>1 DEF QuietBeat, Entered
    <3>2. CASE guard'[m] # guard[m]
      <4>1. guard'[m].eligible = now + Validity + Margin
        BY <1>2, <1>7, <3>2
      <4> QED
        BY <2>1, <4>1, LeaderTypes, TimingAssumption, SMTT(40) DEF QuietBeat, Entered
    <3> QED
      BY <3>1, <3>2
  <2>4. m <= granter' => beat.boot + Takeover + Validity + Margin <= now'
    <3>1. CASE granted
      <4> SUFFICES ASSUME m <= l PROVE beat.boot + Takeover + Validity + Margin <= now
        BY <1>1, <3>1
      <4>1. k < l
        BY TimingAssumption DEF Leaders
      <4>2. QuietBeat(l, beat)
        BY <1>4, <4>1 DEF IInv, QuietInv
      <4> QED
        BY <1>3, <2>1, <3>1, <4>2, LeaderTypes, TimingAssumption, SMTT(40) DEF QuietBeat, Entered
    <3>2. CASE ~granted
      BY <1>1, <2>1, <3>2 DEF QuietBeat
    <3> QED
      BY <3>1, <3>2
  <2> QED
    BY <2>2, <2>3, <2>4 DEF QuietBeat
<1>14. Outwaited /\ granter >= 1 /\ granted => leader[granter].seen <= t
  <2> SUFFICES ASSUME Outwaited, granter >= 1, granted PROVE leader[granter].seen <= t
    OBVIOUS
  <2>1. granter \in Leaders /\ (granter = l \/ granter < l)
    BY <1>5, Counters, LeaderTypes DEF Leaders
  <2>2. CASE granter = l
    BY <2>2, LeaderTypes DEF t
  <2>3. CASE granter < l
    <3>1. leader[granter].seen <= leader[l].base /\ leader[l].base <= leader[l].seen
      BY <1>4, <2>1, <2>3, AsItIs
    <3> QED
      BY <2>1, <3>1, LeaderTypes DEF t
  <2> QED
    BY <2>1, <2>2, <2>3
<1>15. ASSUME NEW m \in Nodes, NEW c \in Claims, Sound(m, c)
       PROVE  Sound(m, c)'
  <2> SUFFICES ASSUME c # NoClaim PROVE Sound(m, c)'
    BY DEF Sound
  <2>1. c.term \in Nat /\ c.sentAt \in Nat /\ c.sentAt <= now /\ Deadline(c) <= now + Validity
    BY <1>15, DurationBound, Counters, TimingAssumption DEF Claims, Sound, Deadline
  <2>2. granter' >= 1 /\ (Outwaited => c.term <= leader[granter'].seen)
    <3>1. CASE granted
      <4>1. granter >= 1 /\ (Outwaited => c.term <= leader[granter].seen)
        BY <1>15 DEF Sound
      <4>2. granter' = l /\ l >= 1 /\ leader[l].seen \in Nat
        BY <1>1, <3>1, LeaderTypes
      <4>3. Outwaited => leader[granter].seen <= leader[l].seen /\ leader[granter].seen \in Nat
        BY <1>14, <3>1, <4>1, LeaderTypes, Counters DEF t, Leaders
      <4> QED
        BY <2>1, <4>1, <4>2, <4>3
    <3>2. CASE ~granted
      BY <1>1, <1>15, <3>2 DEF Sound
    <3> QED
      BY <3>1, <3>2
  <2>3. ASSUME NEW k \in Leaders, c.term < guard'[k].term
        PROVE  Deadline(c) <= guard'[k].eligible + Overlap
    <3>1. CASE guard'[k] = guard[k]
      BY <1>15, <2>3, <3>1 DEF Sound
    <3>2. CASE guard'[k] # guard[k]
      <4>1. guard'[k].eligible = now + Validity + Margin
        BY <1>2, <1>7, <3>2
      <4>2. Deadline(c) \in Int
        BY <2>1, DurationBound DEF Deadline
      <4>3. now \in Nat /\ Validity \in Nat /\ Margin \in Nat /\ Overlap \in Nat
        BY Counters, TimingAssumption, Bounds
      <4> QED
        BY <2>1, <4>1, <4>2, <4>3
    <3> QED
      BY <3>1, <3>2
  <2> QED
    BY <1>1, <1>15, <2>2, <2>3 DEF Sound, Deadline
<1>16. ASSUME granted, NEW c, c = claim PROVE Sound(n, c)'
  <2> SUFFICES ASSUME c # NoClaim PROVE Sound(n, c)'
    BY DEF Sound
  <2>1. /\ c.term = t /\ c.sentAt = sentAt /\ now < Deadline(c) /\ Deadline(c) <= now + Validity
    BY <1>1, <1>6, <1>16, DurationBound, Counters, TimingAssumption, SMTT(40) DEF Deadline
  <2>2. c.term \in 1..Len(log) /\ log[c.term] = n
    BY <1>1, <1>2, <2>1, Counters, SMTT(40)
  <2>3. granter' = l /\ l >= 1 /\ c.term <= leader[l].seen
    <3>1. granter' = l
      BY <1>1, <1>16
    <3>2. l >= 1
      BY LeaderTypes
    <3>3. leader[l].seen \in Nat /\ c.term = leader[l].seen
      BY <1>2, <2>1 DEF t
    <3> QED
      BY <3>1, <3>2, <3>3
  <2>4. ASSUME NEW k \in Leaders, c.term < guard'[k].term
        PROVE  Deadline(c) <= guard'[k].eligible + Overlap
    <3>1. k # l /\ guard'[k] = guard[k]
      BY <1>2, <1>7, <2>1, <2>4
    <3>2. l < k
      <4> SUFFICES ASSUME k < l PROVE FALSE
        BY <3>1, LeaderTypes, SMTT(40)
      <4>1. guard[k].term # 0 /\ guard[k].term <= leader[k].seen
        BY <1>2, <2>1, <2>4, <3>1, LeaderTypes, SMTT(40) DEF IInv, GuardInv
      <4>2. leader[k].seen <= leader[l].base /\ leader[l].base <= leader[l].seen
        BY <1>4, AsItIs
      <4> QED
        BY <2>1, <2>4, <3>1, <4>1, <4>2, LeaderTypes DEF t
    <3>3. guard[k].term # 0
      BY <1>2, <2>1, <2>4, <3>1, LeaderTypes
    <3>4. now + Validity <= guard[k].eligible + Overlap
      BY <1>5, <1>16, <3>2, <3>3
    <3>5. now \in Nat /\ Validity \in Nat /\ guard[k].eligible \in Nat /\ Overlap \in Nat
      BY LeaderTypes, TimingAssumption, Bounds
    <3>6. Deadline(c) \in Int
      BY <1>1, <1>16, <2>1, Counters, DurationBound DEF Deadline
    <3> QED
      BY <2>1, <3>1, <3>4, <3>5, <3>6
  <2> QED
    BY <1>1, <2>1, <2>2, <2>3, <2>4 DEF Sound, Deadline
<1>17. ClaimsInv'
  <2> SUFFICES ASSUME NEW m \in Nodes PROVE Sound(m, answer[m])' /\ Sound(m, lease[m])'
    BY DEF ClaimsInv
  <2>1. answer[m] \in Claims /\ lease[m] \in Claims /\ Sound(m, answer[m]) /\ Sound(m, lease[m])
    BY DEF IInv, TypeOK, ClaimsInv
  <2>2. Sound(m, lease[m])'
    BY <1>1, <1>15, <2>1, ZenonT(60) DEF Sound, Deadline
  <2>3. CASE m # n
    <3>1. answer'[m] = answer[m]
      BY <1>1, <2>3 DEF IInv, TypeOK
    <3> QED
      BY <1>15, <2>1, <2>2, <3>1 DEF Sound, Deadline
  <2>4. CASE m = n
    <3>1. answer'[n] = new
      BY <1>1 DEF IInv, TypeOK
    <3>2. CASE granted
      BY <1>16, <2>2, <2>4, <3>1, <3>2 DEF Sound, Deadline
    <3>3. CASE ~granted
      BY <2>2, <2>4, <3>1, <3>3 DEF Sound
    <3> QED
      BY <3>2, <3>3
  <2> QED
    BY <2>3, <2>4
<1>18. ASSUME NEW m \in Nodes, m # n, Granted(n) PROVE Ends(m)
  <2>1. granted
    BY <1>1, <1>18 DEF Granted, IInv, TypeOK
  <2>2. ASSUME NEW c \in Claims, Sound(m, c), c # NoClaim PROVE Deadline(c) <= now + Overlap
    <3>1. /\ c.term \in Nat /\ Deadline(c) \in Int /\ now \in Nat /\ Overlap \in Nat
          /\ guard[l].eligible \in Nat /\ Deadline(c) <= now + Validity /\ t \in Nat
      BY <1>2, <2>2, DurationBound, LeaderTypes, TimingAssumption, Bounds DEF Claims, Sound, Deadline
    <3>2. CASE ~Outwaited
      BY <3>1, <3>2, Bounds, TimingAssumption
    <3>3. CASE c.term < t
      <4>1. Deadline(c) <= guard[l].eligible + Overlap /\ guard[l].eligible <= now
        BY <1>2, <1>3, <2>1, <2>2, <3>3 DEF Sound
      <4> QED
        BY <3>1, <4>1
    <3>4. CASE Outwaited /\ ~(c.term < t)
      <4>1. granter >= 1 /\ c.term <= leader[granter].seen /\ leader[granter].seen <= t
        BY <1>14, <2>1, <2>2, <3>4 DEF Sound
      <4>2. leader[granter].seen \in Nat
        BY <4>1, LeaderTypes, Counters DEF Leaders
      <4>3. c.term = t
        BY <3>1, <3>4, <4>1, <4>2
      <4> QED
        BY <1>1, <1>18, <2>2, <4>3 DEF Sound
    <3> QED
      BY <3>2, <3>3, <3>4
  <2> QED
    BY <2>2 DEF Ends, IInv, TypeOK, ClaimsInv
<1> QED
  BY <1>8, <1>9, <1>10, <1>11, <1>12, <1>13, <1>17, <1>18 DEF IInv

-----------------------------------------------------------------------------
(* The theorems. *)

\* The initial state satisfies the invariant.
LEMMA InitStep ==
    ASSUME Init
    PROVE  IInv
<1> DEFINE beat == [known |-> TRUE, boot |-> now, active |-> now]
           first == [Leadership("leading", 1, 1) EXCEPT !.confirmed = beat]
           none == Leadership("none", 1, 1)
<1>1. /\ now \in Nat /\ now = Validity + Margin /\ log = <<FirstOwner>> /\ gen = 1 /\ granter = 0
      /\ Len(log) = 1 /\ log \in Seq(Nodes) /\ gen \in Leaders
      /\ \A l \in Leaders : l \in Nat /\ l >= 1
  BY TimingAssumption DEF Init, Leaders
<1>2. /\ leader = [l \in Leaders |-> IF l = 1 THEN first ELSE none]
      /\ \A l \in Leaders : guard[l] = IF l = 1
            THEN [term |-> 1, owner |-> FirstOwner, boot |-> 1, eligible |-> now] ELSE NoEntry
      /\ answer = [n \in Nodes |-> NoClaim] /\ lease = [n \in Nodes |-> NoClaim]
  BY DEF Init
<1>3. NoBeat \in Beats /\ ~NoBeat.known /\ beat \in Beats /\ beat.boot = now /\ beat.active = now
  BY <1>1 DEF NoBeat, Beats
<1> HIDE DEF beat
<1>4. /\ none \in Leaderships /\ none.phase = "none" /\ none.base = 1 /\ none.seen = 1
      /\ none.offset = 0 /\ none.baseline = 0 /\ none.sent = NoBeat /\ none.confirmed = NoBeat
  <2>1. none \in Leaderships
    BY <1>3, SMTT(40) DEF Leadership, Leaderships
  <2> QED
    BY <2>1, SMTT(40) DEF Leadership
<1>5. /\ first \in Leaderships /\ first.phase = "leading" /\ first.base = 1 /\ first.seen = 1
      /\ first.offset = 0 /\ first.baseline = 0 /\ first.sent = NoBeat /\ first.confirmed = beat
  BY <1>3 DEF Leadership, Leaderships
<1> HIDE DEF first, none
<1>6. NoEntry \in Entries /\ NoEntry.term = 0 /\ NoClaim \in Claims
  BY TimingAssumption DEF NoEntry, Entries, NoClaim, Claims
<1>7. TypeOK
  <2>1. guard \in [Leaders -> Entries] /\ boot \in [Nodes -> Nat]
    BY <1>1, <1>6, TimingAssumption DEF Init, Entries
  <2>2. leader \in [Leaders -> Leaderships]
    BY <1>2, <1>4, <1>5
  <2>3. answer \in [Nodes -> Claims] /\ lease \in [Nodes -> Claims]
    BY <1>2, <1>6
  <2>4. \A l \in Leaders : leader[l].base <= leader[l].seen /\ leader[l].seen <= Len(log)
    BY <1>1, <1>2, <1>4, <1>5
  <2>5. granter \in 0..MaxLeaders
    BY <1>1, TimingAssumption
  <2> QED
    BY <1>1, <2>1, <2>2, <2>3, <2>4, <2>5 DEF TypeOK
<1>8. LeadersInv
  BY <1>1, <1>2, <1>3, <1>4, <1>5, <1>6, TimingAssumption, SMTT(40) DEF LeadersInv, Alive
<1>9. GuardInv
  BY <1>1, <1>2, <1>4, <1>5, <1>6, TimingAssumption, SMTT(40) DEF GuardInv, Entered
<1>10. BeatsInv
  <2> SUFFICES ASSUME NEW l \in Leaders
               PROVE  BeatOf(leader[l], guard[l], leader[l].sent)
                      /\ BeatOf(leader[l], guard[l], leader[l].confirmed)
    BY DEF BeatsInv, BeatOK
  <2>1. CASE l = 1
    BY <1>1, <1>2, <1>3, <1>5, <2>1, SMTT(40) DEF BeatOf
  <2>2. CASE l # 1
    BY <1>2, <1>3, <1>4, <2>2, ZenonT(60) DEF BeatOf
  <2> QED
    BY <2>1, <2>2
<1>11. QuietInv
  BY <1>1 DEF QuietInv
<1>12. ClaimsInv
  BY <1>2 DEF ClaimsInv, Sound
<1> QED
  BY <1>7, <1>8, <1>9, <1>10, <1>11, <1>12 DEF IInv

\* Every step preserves the invariant.
LEMMA NextStep ==
    ASSUME IInv, [Next]_vars
    PROVE  IInv'
<1>1. ASSUME NEW suspended \in SUBSET {l \in Leaders : Alive(l) /\ leader[l].offset < MaxSuspended},
             Tick(suspended)
      PROVE  IInv'
  BY <1>1, TickStep
<1>2. ASSUME NEW l \in Leaders,
             StampHeartbeat(l) \/ AcceptHeartbeat(l) \/ Revoke(l) \/ Apply(l)
             \/ Start(l) \/ YieldAfterSuspend(l)
      PROVE  IInv'
  <2>1. CASE StampHeartbeat(l)
    BY <2>1, StampHeartbeatStep
  <2>2. CASE AcceptHeartbeat(l)
    BY <2>2, AcceptHeartbeatStep
  <2>3. CASE Revoke(l) \/ YieldAfterSuspend(l)
    <3>1. /\ Alive(l) /\ leader' = Revoked(l) /\ guard' = [guard EXCEPT ![l] = NoEntry]
          /\ UNCHANGED <<now, log, gen, answer, lease, boot, granter>>
      BY <2>3, ZenonT(60) DEF Revoke, YieldAfterSuspend, Authoritative, Alive
    <3> QED
      BY <3>1, RevokedStep, ZenonT(60)
  <2>4. CASE Apply(l)
    BY <2>4, ApplyStep
  <2>5. CASE Start(l)
    BY <2>5, StartStep
  <2> QED
    BY <1>2, <2>1, <2>2, <2>3, <2>4, <2>5
<1>3. ASSUME Elect PROVE IInv'
  BY <1>3, ElectStep
<1>4. ASSUME NEW n \in Nodes, Cutover(n) PROVE IInv'
  BY <1>4, CutoverStep
<1>5. ASSUME NEW l \in Leaders, NEW n \in Nodes, NEW sentAt \in now - Duration + 1..now,
             NEW ready \in BOOLEAN, Evaluate(l, n, sentAt, ready)
      PROVE  IInv'
  BY <1>5, EvaluateStep
<1>6. ASSUME NEW n \in Nodes, AcceptGrant(n) \/ LoseSession(n) \/ Restart(n) PROVE IInv'
  BY <1>6, NodeSteps
<1>7. ASSUME UNCHANGED vars PROVE IInv'
  <2>1. boot \in [Nodes -> Nat] /\ answer \in [Nodes -> Claims] /\ lease \in [Nodes -> Claims]
    BY DEF IInv, TypeOK
  <2> QED
    BY <1>7, <2>1, NodeStep DEF vars
<1> QED
  BY <1>1, <1>2, <1>3, <1>4, <1>5, <1>6, <1>7, ZenonT(60) DEF Next

\* Only a grant changes granter or makes a new claim.
LEMMA GrantStep ==
    ASSUME IInv, Next
    PROVE  /\ Outwaited => granter' >= granter
           /\ \A m, n \in Nodes : m # n /\ Granted(n) => Ends(m) /\ ~Granted(m)
<1>1. granter \in Nat
  BY Counters
<1>2. ASSUME NEW l \in Leaders, NEW n \in Nodes, NEW sentAt \in now - Duration + 1..now,
             NEW ready \in BOOLEAN, Evaluate(l, n, sentAt, ready)
      PROVE  /\ Outwaited => granter' >= granter
             /\ \A k, m \in Nodes : m # k /\ Granted(k) => Ends(m) /\ ~Granted(m)
  <2>1. \A k \in Nodes : Granted(k) => k = n
    BY <1>2 DEF Evaluate, Granted, IInv, TypeOK
  <2> QED
    BY <1>2, <2>1, EvaluateStep
<1>3. \/ granter' = granter /\ \A n \in Nodes : ~Granted(n)
      \/ \E l \in Leaders, n \in Nodes, sentAt \in now - Duration + 1..now, ready \in BOOLEAN :
            Evaluate(l, n, sentAt, ready)
  <2>1. \/ granter' = granter /\ \A n \in Nodes : answer'[n] \in {answer[n], NoClaim}
        \/ \E l \in Leaders, n \in Nodes, sentAt \in now - Duration + 1..now, ready \in BOOLEAN :
              Evaluate(l, n, sentAt, ready)
    <3>1. ASSUME NEW suspended, Tick(suspended)
          PROVE  granter' = granter /\ \A n \in Nodes : answer'[n] \in {answer[n], NoClaim}
      BY <3>1 DEF Tick, Remaining
    <3>2. ASSUME NEW l \in Leaders,
                 StampHeartbeat(l) \/ AcceptHeartbeat(l) \/ Revoke(l) \/ Apply(l)
                 \/ Start(l) \/ YieldAfterSuspend(l)
          PROVE  granter' = granter /\ answer' = answer
      BY <3>2, ZenonT(60) DEF StampHeartbeat, AcceptHeartbeat, Revoke, Apply, Start, YieldAfterSuspend
    <3>3. ASSUME Elect \/ \E n \in Nodes : Cutover(n)
          PROVE  granter' = granter /\ answer' = answer
      BY <3>3, ZenonT(60) DEF Elect, Cutover
    <3>4. ASSUME NEW n \in Nodes, AcceptGrant(n) \/ LoseSession(n) \/ Restart(n)
          PROVE  granter' = granter /\ \A m \in Nodes : answer'[m] \in {answer[m], NoClaim}
      BY <3>4 DEF AcceptGrant, LoseSession, Restart, IInv, TypeOK
    <3> QED
      BY <3>1, <3>2, <3>3, <3>4, ZenonT(60) DEF Next
  <2> QED
    BY <2>1 DEF Granted
<1> QED
  BY <1>1, <1>2, <1>3

\* A node installs nothing but what was on its way to it.
LEMMA LeaseStep ==
    ASSUME IInv, Next, NEW n \in Nodes
    PROVE  lease'[n] \in {answer[n], lease[n], NoClaim}
<1>1. ASSUME NEW suspended, Tick(suspended)
      PROVE  lease'[n] \in {lease[n], NoClaim}
  BY <1>1 DEF Tick, Remaining
<1>2. ASSUME NEW l \in Leaders,
             StampHeartbeat(l) \/ AcceptHeartbeat(l) \/ Revoke(l) \/ Apply(l)
             \/ Start(l) \/ YieldAfterSuspend(l)
      PROVE  lease' = lease
  BY <1>2, ZenonT(60) DEF StampHeartbeat, AcceptHeartbeat, Revoke, Apply, Start, YieldAfterSuspend
<1>3. ASSUME Elect \/ \E m \in Nodes : Cutover(m)
      PROVE  lease' = lease
  BY <1>3, ZenonT(60) DEF Elect, Cutover
<1>4. ASSUME NEW l \in Leaders, NEW m \in Nodes, NEW sentAt, NEW ready, Evaluate(l, m, sentAt, ready)
      PROVE  lease' = lease
  BY <1>4, ZenonT(60) DEF Evaluate
<1>5. ASSUME NEW m \in Nodes, AcceptGrant(m) \/ LoseSession(m) \/ Restart(m)
      PROVE  lease'[n] \in {answer[n], lease[n], NoClaim}
  BY <1>5 DEF AcceptGrant, LoseSession, Restart, IInv, TypeOK
<1> QED
  BY <1>1, <1>2, <1>3, <1>4, <1>5, ZenonT(60) DEF Next

\* Every reachable state satisfies the invariant.
THEOREM Invariance == Spec => []IInv
<1>1. Init => IInv
  BY InitStep
<1>2. IInv /\ [Next]_vars => IInv'
  BY NextStep
<1> QED
  BY <1>1, <1>2, PTL DEF Spec

\* Type correctness.
THEOREM TypeCorrect == Spec => []TypeOK
<1>1. IInv => TypeOK
  BY DEF IInv
<1> QED
  BY <1>1, Invariance, PTL

\* The hand-off overlap, for every number of nodes, leaders and terms and for all
\* timers that the options admit: what another node holds at a grant ends within it.
THEOREM HandoffBounded == Spec => BoundedOverlap
<1>1. IInv /\ [Next]_vars => [\A m, n \in Nodes : m # n /\ Granted(n) => Ends(m)]_vars
  BY GrantStep
<1> QED
  BY <1>1, Invariance, PTL DEF Spec, BoundedOverlap

\* Without an overlap, a step keeps the holder the only one.
LEMMA HolderStep ==
    ASSUME Overlap = 0, IInv, SingleHolder, [Next]_vars
    PROVE  SingleHolder'
<1>1. ASSUME NEW n \in Nodes, Granted(n), NEW m \in Nodes, m # n, Next
      PROVE  ~Holder(m) /\ ~Granted(m)
  <2>1. Ends(m) /\ ~Granted(m)
    BY <1>1, GrantStep
  <2>2. ASSUME NEW claim \in {answer[m], lease[m]}, claim # NoClaim PROVE FALSE
    <3>1. claim \in Claims /\ now < Deadline(claim) /\ Deadline(claim) <= now + Overlap
      BY <2>1, <2>2 DEF Ends, IInv, TypeOK, ClaimsInv, Sound
    <3>2. Deadline(claim) \in Int /\ now \in Nat
      BY <3>1, DurationBound, Counters DEF Deadline, Claims
    <3> QED
      BY <3>1, <3>2
  <2> QED
    BY <2>1, <2>2 DEF Holder
<1>2. ASSUME NEW m \in Nodes, ~Granted(m), Holder(m)', Next PROVE Holder(m)
  BY <1>2, LeaseStep DEF Holder, Granted
<1>3. CASE UNCHANGED vars
  BY <1>3 DEF vars, SingleHolder, Holder
<1>4. CASE Next
  <2> SUFFICES ASSUME NEW m \in Nodes, NEW n \in Nodes, Holder(m)', Holder(n)' PROVE m = n
    BY DEF SingleHolder
  <2>1. CASE Granted(m) \/ Granted(n)
    BY <1>1, <1>2, <1>4, <2>1
  <2>2. CASE ~Granted(m) /\ ~Granted(n)
    BY <1>2, <1>4, <2>2 DEF SingleHolder
  <2> QED
    BY <2>1, <2>2
<1> QED
  BY <1>3, <1>4

\* A group has at most one holder of a lease if the election and the margin cover the
\* oldest heartbeat that a grant can rest on.
THEOREM OneHolder == Overlap = 0 => (Spec => []SingleHolder)
<1> SUFFICES ASSUME Overlap = 0 PROVE Spec => []SingleHolder
  OBVIOUS
<1>1. Init => SingleHolder
  BY DEF Init, SingleHolder, Holder
<1>2. IInv /\ SingleHolder /\ [Next]_vars => SingleHolder'
  BY HolderStep
<1> QED
  BY <1>1, <1>2, Invariance, PTL DEF Spec

\* Once a leader has granted a lease, no earlier leader ever grants one, if the
\* quarantine of a later leader is over after the last grant of an earlier one.
THEOREM EarlierLeadersSilent == Outwaited => (Spec => LeadersForward)
<1> SUFFICES ASSUME Outwaited PROVE Spec => LeadersForward
  OBVIOUS
<1>1. IInv /\ [Next]_vars => [granter' >= granter]_vars
  BY GrantStep
<1> QED
  BY <1>1, Invariance, PTL DEF Spec, LeadersForward
=============================================================================
