--------------------------- MODULE LeaseHandoff ----------------------------
(***************************************************************************)
(* Who may hold the lease of a group while Meta leaders come and go        *)
(* (src/meta/data_control_server.cpp, raft/engine/liveness.go, the lease   *)
(* side of src/cluster/control_protocol.cpp): the quorum's heartbeats that *)
(* keep a leader's authority alive, the guard against host suspension, the *)
(* handoff quarantine in front of every new holder, and the deadline that  *)
(* a Data node counts from the moment it sent its challenge.               *)
(*                                                                         *)
(* Time is CLOCK_BOOTTIME, the same for all; the active clock of a Meta    *)
(* process stands still while its host is suspended.  One group, several   *)
(* voters; a leadership generation is one leader here, whatever process it *)
(* is.  A deposed leader does not know that it is.                         *)
(***************************************************************************)
EXTENDS Integers, Sequences

CONSTANTS
    Nodes,
    FirstOwner,
    Validity,    \* leadership_validity_ms_: the liveness window and the maximum lease
    Margin,      \* lease_handoff_safety_margin_ms_
    Policy,      \* authority_lease_duration_ms of the committed policy
    Takeover,    \* the least time from a heartbeat a quorum received to the next election
    RoleLag,     \* how long a role may be reported after its liveness has run out
    MaxSuspended, \* how long the host of a leader may be suspended in all
    MaxLeaders, MaxLog, MaxTime, MaxBoots \* bounds

Leaders == 1..MaxLeaders

\* The types, and what ValidateOptions demands of the timers.  Takeover, RoleLag and
\* MaxSuspended belong to the environment and may be anything.
ASSUME TimingAssumption ==
    /\ FirstOwner \in Nodes
    /\ Validity \in Nat \ {0} /\ Policy \in Nat \ {0} /\ Margin \in Nat
    /\ Takeover \in Nat /\ RoleLag \in Nat
    /\ MaxSuspended \in Nat
    /\ Margin >= Validity
    /\ MaxLeaders \in Nat \ {0} /\ MaxLog \in Nat /\ MaxTime \in Nat /\ MaxBoots \in Nat

VARIABLES
    now,     \* LeaseClockMillis
    log,     \* the owner of the group in each of its terms, as committed
    gen,     \* the latest leadership
    leader,  \* each leadership: Raft liveness, runtime guard, applied revision
    guard,   \* MetaLeaseHandoffGuard of each leadership: its entry for the group
    answer,  \* the grant that is on its way to each node
    lease,   \* the lease each node has installed
    boot,    \* data_boot_id of each node
    granter  \* for the properties: the leadership of the last grant, 0 before the first

vars == <<now, log, gen, leader, guard, answer, lease, boot, granter>>

-----------------------------------------------------------------------------
NoBeat == [known |-> FALSE, boot |-> 0, active |-> 0]

NoEntry == [term |-> 0, owner |-> FirstOwner, boot |-> 0, eligible |-> 0]

NoClaim == [term |-> 0, sentAt |-> 0]

\* A leadership: base is the revision it starts from and seen the one it has applied,
\* offset the time it has been suspended and baseline that at the start of its server.
Leadership(phase, base, seen) ==
    [phase |-> phase, base |-> base, seen |-> seen, offset |-> 0, baseline |-> 0,
     sent |-> NoBeat, confirmed |-> NoBeat]

\* The first leader has been there long enough for its owner's quarantine to be over.
Init ==
    /\ now = Validity + Margin
    /\ log = <<FirstOwner>>
    /\ gen = 1
    /\ leader = [l \in Leaders |->
          IF l = 1 THEN [Leadership("leading", 1, 1) EXCEPT
                            !.confirmed = [known |-> TRUE, boot |-> now, active |-> now]]
                   ELSE Leadership("none", 1, 1)]
    /\ guard = [l \in Leaders |->
          IF l = 1 THEN [term |-> 1, owner |-> FirstOwner, boot |-> 1, eligible |-> now]
                   ELSE NoEntry]
    /\ answer = [n \in Nodes |-> NoClaim]
    /\ lease = [n \in Nodes |-> NoClaim]
    /\ boot = [n \in Nodes |-> 1]
    /\ granter = 0

Alive(l) == leader[l].phase \in {"elected", "leading"}

\* ActiveClockMillis: a clock of its own, which only differences are taken of.
Active(l) == now - leader[l].offset

\* The granted duration, and the deadline that a node derives from it.
Duration == IF Policy <= Validity THEN Policy ELSE Validity

Deadline(claim) == claim.sentAt + Duration

\* What is left of a claim at a time: the expiry timer of the node.
Remaining(claim, time) == IF time < Deadline(claim) THEN claim ELSE NoClaim

-----------------------------------------------------------------------------
(* Time, and the suspension of hosts. *)

Tick(suspended) ==
    /\ now < MaxTime
    /\ now' = now + 1
    /\ leader' = [l \in Leaders |->
          IF l \in suspended THEN [leader[l] EXCEPT !.offset = @ + 1] ELSE leader[l]]
    /\ answer' = [n \in Nodes |-> Remaining(answer[n], now + 1)]
    /\ lease' = [n \in Nodes |-> Remaining(lease[n], now + 1)]
    /\ UNCHANGED <<log, gen, guard, boot, granter>>

-----------------------------------------------------------------------------
(* Raft: stampHeartbeat, acceptHeartbeat and quorumLive of liveness.go. *)

\* A heartbeat that a quorum receives; a deposed leader sends none.
StampHeartbeat(l) ==
    /\ l = gen /\ Alive(l) /\ ~leader[l].sent.known
    /\ leader[l].confirmed.known => leader[l].confirmed.active < Active(l)
    /\ leader' = [leader EXCEPT ![l].sent = [known |-> TRUE, boot |-> now, active |-> Active(l)]]
    /\ UNCHANGED <<now, log, gen, guard, answer, lease, boot, granter>>

\* The answers of the quorum, perhaps after it has elected the next leader.
AcceptHeartbeat(l) ==
    /\ Alive(l) /\ leader[l].sent.known
    /\ leader' = [leader EXCEPT
          ![l].confirmed = IF Active(l) - leader[l].sent.active < Validity
                           THEN leader[l].sent ELSE @,
          ![l].sent = NoBeat]
    /\ UNCHANGED <<now, log, gen, guard, answer, lease, boot, granter>>

\* Mutant: a liveness that never runs out.
QuorumOnce(l) == leader[l].confirmed.known

\* is_leader_alive, as late as the role may be published.
QuorumLive(l) ==
    /\ leader[l].confirmed.known
    /\ Active(l) - leader[l].confirmed.active < Validity + RoleLag

Revoked(l) == [leader EXCEPT ![l] = Leadership("revoked", leader[l].base, leader[l].seen)]

\* The epoch is revoked, for good: expiry, a higher term, a resignation or a crash.
Revoke(l) ==
    /\ Alive(l)
    /\ leader' = Revoked(l)
    /\ guard' = [guard EXCEPT ![l] = NoEntry]
    /\ UNCHANGED <<now, log, gen, answer, lease, boot, granter>>

\* The quorum of the next election has received no heartbeat for an election
\* timeout, unless the leader had given up; what it has not received is lost.
Elect ==
    LET old == leader[gen]
        Quiet(beat) == beat.known => beat.boot + Takeover <= now
    IN  /\ gen < MaxLeaders
        /\ Alive(gen) => Quiet(old.confirmed)
        /\ gen' = gen + 1
        /\ leader' = [leader EXCEPT
              ![gen].sent = IF Quiet(@) THEN @ ELSE NoBeat,
              ![gen + 1] = Leadership("elected", Len(log), Len(log))]
        /\ UNCHANGED <<now, log, guard, answer, lease, boot, granter>>

\* The latest leader commits the next term of the group and its owner.  A command
\* that changes neither, a pause of the group say, changes no lease that is granted.
Cutover(n) ==
    /\ Alive(gen) /\ Len(log) < MaxLog
    /\ log' = Append(log, n)
    /\ UNCHANGED <<now, gen, leader, guard, answer, lease, boot, granter>>

\* Mutant: a leader applies a term before it is committed.
ApplyAhead(l) ==
    /\ Alive(l) /\ leader[l].seen <= MaxLog
    /\ leader' = [leader EXCEPT ![l].seen = @ + 1]
    /\ UNCHANGED <<now, log, gen, guard, answer, lease, boot, granter>>

\* A leader applies what has been committed; a deposed one what was committed
\* before it was.
Apply(l) ==
    /\ Alive(l)
    /\ leader[l].seen < IF l = gen THEN Len(log) ELSE leader[l + 1].base
    /\ leader' = [leader EXCEPT ![l].seen = @ + 1]
    /\ UNCHANGED <<now, log, gen, guard, answer, lease, boot, granter>>

-----------------------------------------------------------------------------
(* The Data-control server of a leader. *)

\* StartOnExecutor, some time after the role was published: both guards are reset.
Start(l) ==
    /\ leader[l].phase = "elected" /\ leader[l].confirmed.known
    /\ leader' = [leader EXCEPT ![l].phase = "leading", ![l].baseline = leader[l].offset]
    /\ guard' = [guard EXCEPT ![l] = NoEntry]
    /\ UNCHANGED <<now, log, gen, answer, lease, boot, granter>>

\* AuthoritySessionsAllowed, up to the runtime guard.
Authoritative(l) == leader[l].phase = "leading" /\ QuorumLive(l)

\* MetaLeaderRuntimeGuard: how long this leadership has been suspended.
SuspendGap(l) == leader[l].offset - leader[l].baseline >= Validity

\* Observe finds a suspend gap, and the leader yields.
YieldAfterSuspend(l) ==
    /\ Authoritative(l) /\ SuspendGap(l)
    /\ leader' = Revoked(l)
    /\ guard' = [guard EXCEPT ![l] = NoEntry]
    /\ UNCHANGED <<now, log, gen, answer, lease, boot, granter>>

\* Mutant: the first owner that a leader meets is not made to wait.
QuarantineChanges(l, n) ==
    LET entry == guard[l]
    IN  IF entry.term = leader[l].seen /\ entry.owner = n /\ entry.boot = boot[n]
        THEN entry
        ELSE [term |-> leader[l].seen, owner |-> n, boot |-> boot[n],
              eligible |-> IF entry.term = 0 THEN now ELSE now + Validity + Margin]

\* MetaLeaseHandoffGuard::Enforce: the entry after an otherwise valid grant.
Quarantine(l, n) ==
    LET entry == guard[l]
    IN  IF entry.term = leader[l].seen /\ entry.owner = n /\ entry.boot = boot[n]
        THEN entry
        ELSE [term |-> leader[l].seen, owner |-> n, boot |-> boot[n],
              eligible |-> now + Validity + Margin]

\* EvaluateLeaseChallenge of a challenge that its owner sent some time ago, under the
\* revision that is the current one, and Enforce.  A healthy owner is granted when
\* the quarantine has run out; an unready one only lets it mature.  Any other
\* challenge is denied and changes nothing.
Evaluate(l, n, sentAt, ready) ==
    LET entry == Quarantine(l, n)
        granted == ready /\ now >= entry.eligible
    IN  /\ Authoritative(l) /\ ~SuspendGap(l)
        /\ log[leader[l].seen] = n
        /\ sentAt \in 0..now
        /\ guard' = [guard EXCEPT ![l] = entry]
        /\ answer' = [answer EXCEPT ![n] =
              IF granted
              THEN Remaining([term |-> leader[l].seen, sentAt |-> sentAt], now) ELSE NoClaim]
        /\ granter' = IF granted THEN l ELSE granter
        /\ UNCHANGED <<now, log, gen, leader, lease, boot>>

-----------------------------------------------------------------------------
(* A Data node. *)

\* AcceptGrant and ApplyLeaseGrantTransition.
AcceptGrant(n) ==
    /\ answer[n] # NoClaim
    /\ lease' = [lease EXCEPT ![n] = answer[n]]
    /\ answer' = [answer EXCEPT ![n] = NoClaim]
    /\ UNCHANGED <<now, log, gen, leader, guard, boot, granter>>

\* The session is lost, or the lease fenced.
LoseSession(n) ==
    /\ answer[n] # NoClaim \/ lease[n] # NoClaim
    /\ answer' = [answer EXCEPT ![n] = NoClaim]
    /\ lease' = [lease EXCEPT ![n] = NoClaim]
    /\ UNCHANGED <<now, log, gen, leader, guard, boot, granter>>

\* A new process, with a boot id that no other one has had.
Restart(n) ==
    /\ \E id \in 2..MaxBoots :
          /\ \A m \in Nodes : boot[m] < id
          /\ boot' = [boot EXCEPT ![n] = id]
    /\ answer' = [answer EXCEPT ![n] = NoClaim]
    /\ lease' = [lease EXCEPT ![n] = NoClaim]
    /\ UNCHANGED <<now, log, gen, leader, guard, granter>>

-----------------------------------------------------------------------------
Next ==
    \/ \E suspended \in SUBSET {l \in Leaders : Alive(l) /\ leader[l].offset < MaxSuspended} :
          Tick(suspended)
    \/ \E l \in Leaders :
          \/ StampHeartbeat(l) \/ AcceptHeartbeat(l) \/ Revoke(l) \/ Apply(l)
          \/ Start(l) \/ YieldAfterSuspend(l)
    \/ Elect
    \/ \E n \in Nodes : Cutover(n)
    \/ \E l \in Leaders, n \in Nodes, sentAt \in now - Duration + 1..now, ready \in BOOLEAN :
          Evaluate(l, n, sentAt, ready)
    \/ \E n \in Nodes : AcceptGrant(n) \/ LoseSession(n) \/ Restart(n)

Spec == Init /\ [][Next]_vars

-----------------------------------------------------------------------------
(* Properties. *)

Beats == [known : BOOLEAN, boot : Nat, active : Int]

Claims == [term : Nat, sentAt : Nat]

Entries == [term : Nat, owner : Nodes, boot : Nat, eligible : Nat]

Leaderships ==
    [phase : {"none", "elected", "leading", "revoked"}, base : Nat \ {0}, seen : Nat \ {0},
     offset : Nat, baseline : Nat, sent : Beats, confirmed : Beats]

\* The variables have their types, and no leader has applied a term that is not
\* committed (EvaluateLeaseChallenge reads the committed topology).
TypeOK ==
    /\ now \in Nat
    /\ log \in Seq(Nodes)
    /\ gen \in Leaders
    /\ leader \in [Leaders -> Leaderships]
    /\ \A l \in Leaders : leader[l].base <= leader[l].seen /\ leader[l].seen <= Len(log)
    /\ guard \in [Leaders -> Entries]
    /\ answer \in [Nodes -> Claims]
    /\ lease \in [Nodes -> Claims]
    /\ boot \in [Nodes -> Nat]
    /\ granter \in 0..MaxLeaders

\* The longest suspension between a heartbeat and a grant that rests on it.  The
\* runtime guard keeps it below the validity, but counts from the start of the
\* server: a heartbeat from before the start is too old at the first grant only if
\* the margin covers the lag of the role as well.
Unnoticed ==
    IF Validity <= MaxSuspended /\ Validity + RoleLag <= Margin + 1
    THEN Validity - 1 ELSE MaxSuspended

\* The age of the oldest heartbeat that a grant can rest on.
Oldest == Validity + RoleLag - 1 + Unnoticed

\* By how much that exceeds the election and the margin of the next leader.
Overlap == IF Oldest <= Takeover + Margin THEN 0 ELSE Oldest - Takeover - Margin

\* The quarantine of the next leader is over after the last grant of this one.
Outwaited == Oldest < Takeover + Validity + Margin

Granted(n) == answer'[n] \notin {answer[n], NoClaim}

Ends(n) == \A claim \in {answer[n], lease[n]} : claim # NoClaim => Deadline(claim) <= now + Overlap

\* When a node is granted a lease, whatever another node holds or may still install
\* ends within Overlap, whichever leaders issued it, however long the answers took
\* and whoever was suspended in between (MetaLeaseHandoffGuard, and the deadline that
\* a node counts from its challenge).  With no Overlap it has ended.
BoundedOverlap == [][\A m, n \in Nodes : m # n /\ Granted(n) => Ends(m)]_vars

\* The node has a lease, or a grant is on its way that it may still install.
Holder(n) == lease[n] # NoClaim \/ answer[n] # NoClaim

\* At most one node of the group holds a lease at a time.
SingleHolder == \A m, n \in Nodes : Holder(m) /\ Holder(n) => m = n

\* Once a leader has granted a lease, no earlier one ever grants again, although it
\* may not know that it is deposed.
LeadersForward == [][granter' >= granter]_vars
=============================================================================
