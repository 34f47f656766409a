---------------------------- MODULE NodeControl ----------------------------
(***************************************************************************)
(* The control transitions of a data node (src/cluster/node_control.cpp)   *)
(* as the Meta session drives them (src/cluster/meta_client.cpp), running  *)
(* against the requests of module Authority.                               *)
(*                                                                         *)
(* All control coroutines run on worker 0 and give way to one another only *)
(* where they await: the session reader (installs, lease grants, fences    *)
(* and the loss of the session, one at a time), the lease timer, the       *)
(* heartbeat producer, the directive executor and the storage-loss         *)
(* transition.  A step below is the code from one await to the next, cut   *)
(* again where a publication becomes visible to the requests.              *)
(***************************************************************************)
EXTENDS Authority, Sequences

CONSTANTS
    Scenarios,      \* the courses of events considered: see Scenario
    Duration        \* the longest lease grant

Projection == [owner : BOOLEAN, term : Terms, granted : BOOLEAN, paused : BOOLEAN,
               activation : BOOLEAN]

\* What Meta projects at each control revision, whether storage may fail, and
\* the bounds on Meta sessions, on changes of the population (its loss, the
\* start and the end of a rebuild), on the lease clock and on the writes that
\* execute at the same time.
Scenario == [projections : Seq(Projection), storageFails : BOOLEAN, sessions : Nat,
             changes : Nat, time : 0..MaxTime, writes : Nat]

ASSUME ScenariosAssumption ==
    /\ Scenarios \subseteq Scenario
    /\ \A s \in Scenarios : \A i, j \in DOMAIN s.projections :
          i < j => s.projections[i].term <= s.projections[j].term
    /\ Duration \in Nat

VARIABLES
    scenario,   \* the course of events of this behaviour
    task,       \* where each control coroutine is
    local,      \* the reader's local variables
    pub,        \* the publication a coroutine is in the middle of
    node,       \* the installer and the session
    pinned,     \* coroutines whose directive_admission_generation_ copy is current
    adapter,    \* what the ReplicationManager has been told
    history     \* for the properties only

Projections == scenario.projections

controlVars == <<task, local, pub, node, pinned, adapter, history>>

nodeVars == <<authorityVars, controlVars>>

vars == <<scenario, nodeVars>>

-----------------------------------------------------------------------------
(* node: session is the number of the last Meta session; basis is          *)
(* projection_basis_; dispatch is directive_dispatch_enabled_; schedule is *)
(* the group's LeaseExpirySchedule; drains are the cells of                *)
(* pending_drains_; floor is reject_through_; older are the transitions    *)
(* that storage loss has to join.  adapter: expiry and source are the      *)
(* deadlines of the expiration and source-admission authority, or 0.       *)

NoPub == [by |-> "none"]
NoSchedule == [deadline |-> 0]

Guarded ==
    [reader |-> {"install", "installAdmissions", "installRevoke", "installPause",
                 "installReconcile", "expireRevoke", "expireRemember", "expireAdmissions", "fence", "fenceAdmissions",
                 "fenceRevoke", "fenceCancel", "fenceDrain", "failRevoke", "failDrain",
                 "lostRevoke", "lostCancel"},
     timer |-> {"expireRevoke", "expireRemember", "expireAdmissions"},
     heartbeat |-> {"losing", "admissions", "revoke", "sources"},
     directive |-> {"losing", "revoke", "sources"},
     storage |-> {"losing", "admissions", "join", "revoke", "cancel", "drain"}]

Coroutines == DOMAIN Guarded

\* active_control_transitions_: the coroutines with a ControlTransitionGuard.
Transitions == {t \in Coroutines : task[t] \in Guarded[t]}

\* While the heartbeat producer and the directive executor may run.
Established == {"serving", "grant", "expireRevoke", "expireRemember", "expireAdmissions", "expireDone",
                "grantActivate", "grantSource", "grantFinal",
                "fence", "fenceAdmissions", "fenceRevoke", "fenceCancel", "fenceDrain", "fenceAck",
                "failRevoke", "failDrain"}

\* No other control coroutine runs inside a synchronous publication.
At(t, stage) == task[t] = stage /\ pub = NoPub

To(t, stage) == task' = [task EXCEPT ![t] = stage]

storageReady == task.storage = "up"

Live(cells) == {c \in cells : InFlight(c) # 0}

\* DrainPending.
DrainPending == Live(node.drains) # {}

\* Mutant: nothing is remembered.
ForgetDrain(v) == node.drains

\* RememberDrain: a cell without requests is not remembered.
RememberDrain(v) == IF v # NoState THEN node.drains \cup Live({v.cell}) ELSE node.drains

\* topology_.Publish(next) begins; rerouted when other groups or the epoch differ.
PublishRouted(t, next, rerouted) ==
    pub' = [by |-> t, next |-> next, rerouted |-> rerouted, before |-> current, stored |-> FALSE]

Publish(t, next) == PublishRouted(t, next, FALSE)

\* The state becomes visible, unless its content is the current one.
Store ==
    /\ pub # NoPub
    /\ ~pub.stored
    /\ IF SameContent(current, pub.next) /\ ~pub.rerouted
       THEN UNCHANGED <<current, unstable, sameSeq>>
       ELSE PublishStore(pub.next)
    /\ pub' = [pub EXCEPT !.stored = TRUE]
    /\ UNCHANGED <<clock, authority, sameGen, req, lapse, task, local, node, pinned, adapter, history>>

\* Publish returns in coroutine t.
Published(t) == pub # NoPub /\ pub.by = t /\ pub.stored /\ pub' = NoPub /\ PublishDone

\* What a step that publishes nothing and leaves the guard alone keeps.
KeepTopology == UNCHANGED <<current, unstable, sameSeq, pub>>
KeepAuthority == UNCHANGED <<authority, sameGen>>
KeepRequests == UNCHANGED <<clock, req, lapse>>

\* Mutant: source admission is not suspended.
RevokeKeepsSource == adapter' = [adapter EXCEPT !.expiry = 0]

\* RevokeClusterExpirationAuthority.
RevokeExpiration == adapter' = [adapter EXCEPT !.expiry = 0, !.source = 0]

\* directive_admissions_in_flight_ = 0.
NoAdmissions == task.directive = "idle"

\* A coroutine leaves its transition: storage loss need not wait for it.
Leave(t) == node' = [node EXCEPT !.older = @ \ {t}]

-----------------------------------------------------------------------------
(* The reader: sessions and installs.                                      *)

\* RunSession authenticates; the first message is a full desired state.
Connect ==
    /\ At("reader", "offline")
    /\ node.session < scenario.sessions
    /\ To("reader", "connected")
    /\ node' = [node EXCEPT !.session = @ + 1]
    /\ KeepTopology /\ KeepAuthority /\ KeepRequests
    /\ UNCHANGED <<local, pinned, adapter, history>>

\* The population bit survives an equal population anchor.
Carried(p) ==
    /\ current # NoState
    /\ current.population
    /\ current.owner = p.owner
    /\ current.term = p.term

Projected(p) ==
    [owner |-> p.owner, term |-> p.term, granted |-> p.granted, population |-> Carried(p),
     storage |-> storageReady, paused |-> p.paused, cell |-> 0]

Owned(v) == v # NoState /\ v.owner

AuthorityChanged(v, next) == Owned(v) /\ Token(v) # Token(next)

PauseStarted(v, next) ==
    /\ Owned(v) /\ next.owner
    /\ v.term = next.term
    /\ ~v.paused /\ next.paused

\* InstallFullStateTransition up to the publication of InstallFullStateLocal.
Install(rev) ==
    LET next == Projected(Projections[rev]) IN
    /\ pub = NoPub
    /\ task.reader \in {"connected", "serving"}
    /\ task.heartbeat = "idle"
    /\ NoAdmissions
    /\ rev >= node.basis
    /\ InvalidateAnchorsChanged(next)
    /\ Publish("reader", next)
    /\ To("reader", "install")
    /\ local' = [local EXCEPT !.rev = rev, !.retires = AuthorityChanged(current, next),
                              !.pauses = PauseStarted(current, next)]
    /\ pinned' = {}
    /\ node' = [node EXCEPT !.dispatch = FALSE]
    /\ KeepRequests
    /\ UNCHANGED <<current, unstable, sameSeq, adapter, history>>

\* The rest of InstallFullStateLocal.
Installed ==
    /\ Published("reader")
    /\ task.reader = "install"
    /\ To("reader", "installAdmissions")
    /\ node' = [node EXCEPT !.basis = local.rev,
                            !.drains = IF local.retires \/ local.pauses
                                       THEN RememberDrain(pub.before) ELSE @]
    /\ history' = [history EXCEPT !.pauseJoined = @ /\ current.paused]
    /\ KeepAuthority /\ KeepRequests
    /\ UNCHANGED <<local, pinned, adapter>>

\* WaitForDirectiveAdmissions, RetireAllLeaseSchedules.
InstallAdmissions ==
    /\ At("reader", "installAdmissions")
    /\ NoAdmissions
    /\ To("reader", IF local.retires THEN "installRevoke" ELSE "installPause")
    /\ node' = [node EXCEPT !.schedule = IF local.retires THEN NoSchedule ELSE @]
    /\ KeepTopology /\ KeepAuthority /\ KeepRequests
    /\ UNCHANGED <<local, pinned, adapter, history>>

InstallRevoke ==
    /\ At("reader", "installRevoke")
    /\ RevokeExpiration
    /\ To("reader", "installPause")
    /\ KeepTopology /\ KeepAuthority /\ KeepRequests
    /\ UNCHANGED <<local, node, pinned, history>>

\* WaitForPendingDrains(pause_drains_).
InstallPause ==
    /\ At("reader", "installPause")
    /\ local.pauses => ~DrainPending
    /\ node' = [node EXCEPT !.drains = IF local.pauses THEN Live(@) ELSE @]
    /\ To("reader", "installReconcile")
    /\ KeepTopology /\ KeepAuthority /\ KeepRequests
    /\ UNCHANGED <<local, pinned, adapter, history>>

\* ReconcileClusterControl and ReconcilePopulation, which may stop a rebuild.
Reconciled ==
    IF adapter.population = "rebuilding" THEN {"rebuilding", "none"} ELSE {adapter.population}

\* ..., WaitForPendingDrains(retired_), and the update is acknowledged.
InstallReconcile ==
    /\ At("reader", "installReconcile")
    /\ local.retires => ~DrainPending
    /\ node' = [node EXCEPT !.drains = IF local.retires THEN Live(@) ELSE @,
                            !.older = @ \ {"reader"}, !.dispatch = TRUE]
    /\ \E p \in Reconciled : adapter' = [adapter EXCEPT !.population = p]
    /\ To("reader", "serving")
    /\ history' = [history EXCEPT !.pauseJoined = current.paused]
    /\ KeepTopology /\ KeepAuthority /\ KeepRequests
    /\ UNCHANGED <<local, pinned>>

\* InstallRouting: the same local control, other routing.
InstallRouting ==
    LET next == Projected(Projections[node.basis]) IN
    /\ At("reader", "serving")
    /\ InvalidateAnchorsChanged(next)
    /\ PublishRouted("reader", next, TRUE)
    /\ To("reader", "routing")
    /\ local' = [local EXCEPT !.retires = AuthorityChanged(current, next)]
    /\ KeepRequests
    /\ UNCHANGED <<current, unstable, sameSeq, node, pinned, adapter, history>>

RoutingInstalled ==
    /\ Published("reader")
    /\ task.reader = "routing"
    /\ To("reader", "serving")
    /\ node' = [node EXCEPT !.drains = IF local.retires THEN RememberDrain(pub.before) ELSE @]
    /\ KeepAuthority /\ KeepRequests
    /\ UNCHANGED <<local, pinned, adapter, history>>

-----------------------------------------------------------------------------
(* The expiration of a lease, by the timer or by a grant that finds it     *)
(* overdue.                                                                *)

\* FinishExpiredLeaseTransition up to its first await.
StartExpiration(t) ==
    LET s == node.schedule IN
    /\ s # NoSchedule
    /\ s.deadline <= clock
    /\ ExpireLease(s.session, s.term, s.deadline)
    /\ To(t, "expireRevoke")
    /\ pinned' = {}
    /\ node' = [node EXCEPT !.schedule = NoSchedule,
                            !.due = IF ExactLeaseDue(s.session, s.term, s.deadline) THEN s.term ELSE 0]

TimerExpires ==
    /\ At("timer", "idle")
    /\ StartExpiration("timer")
    /\ KeepTopology /\ KeepRequests
    /\ UNCHANGED <<local, adapter, history>>

ExpireRevoke(t) ==
    /\ At(t, "expireRevoke")
    /\ RevokeExpiration
    /\ To(t, "expireRemember")
    /\ KeepTopology /\ KeepAuthority /\ KeepRequests
    /\ UNCHANGED <<local, node, pinned, history>>

\* RememberDrain, if the lease had not gone before and its anchor is current.
ExpireRemember(t) ==
    /\ At(t, "expireRemember")
    /\ node' = [node EXCEPT !.drains = IF current.term = node.due THEN RememberDrain(current) ELSE @]
    /\ To(t, "expireAdmissions")
    /\ KeepTopology /\ KeepAuthority /\ KeepRequests
    /\ UNCHANGED <<local, pinned, adapter, history>>

ExpireDone(t) ==
    /\ At(t, "expireAdmissions")
    /\ node.due # 0 => NoAdmissions
    /\ node' = [node EXCEPT !.due = 0, !.older = @ \ {t}]
    /\ To(t, IF t = "reader" THEN "expireDone" ELSE "idle")
    /\ KeepTopology /\ KeepAuthority /\ KeepRequests
    /\ UNCHANGED <<local, pinned, adapter, history>>

-----------------------------------------------------------------------------
(* A lease grant.                                                          *)

\* ValidateLeaseGrantContext.
ValidGrant ==
    /\ Anchored(current) /\ current.term = local.term
    /\ storageReady
    /\ local.term > node.floor
    /\ local.deadline > clock
    /\ Transitions = {}
    /\ ~DrainPending
    /\ Projections[node.basis].owner /\ Projections[node.basis].granted

\* HandleHeartbeatAck with a grant: dispatch stops and the executor is joined.
Grant(deadline) ==
    /\ At("reader", "serving")
    /\ NoAdmissions
    /\ local' = [local EXCEPT !.term = Projections[node.basis].term, !.deadline = deadline]
    /\ node' = [node EXCEPT !.dispatch = FALSE]
    /\ To("reader", "grant")
    /\ KeepTopology /\ KeepAuthority /\ KeepRequests
    /\ UNCHANGED <<pinned, adapter, history>>

\* FailClosedLeaseGrantTransition up to its first await.
FailClosed ==
    /\ pinned' = {}
    /\ InvalidateSession(node.session)
    /\ node' = [node EXCEPT !.schedule = NoSchedule,
                            !.drains = IF Owned(current) /\ current.term = local.term
                                       THEN RememberDrain(current) ELSE @]
    /\ To("reader", "failRevoke")

\* EnableClusterExpirationAuthorityUntil, which does not suspend, and RenewLease.
EnableAndRenew ==
    IF adapter.population = "ready" /\ Renewable(node.session, local.term, local.deadline)
    THEN /\ RenewLease(node.session, local.term, local.deadline)
         /\ adapter' = [adapter EXCEPT !.expiry = local.deadline]
         /\ To("reader", "grantSource")
         /\ pinned' = pinned \cup {"reader"}
         /\ node' = [node EXCEPT !.drains = {}]
    ELSE FailClosed /\ UNCHANGED adapter

\* ApplyLeaseGrantTransition, from the start and after an overdue lease was cleaned up.
GrantValidate ==
    /\ pub = NoPub
    /\ task.reader \in {"grant", "expireDone"}
    /\ \/ /\ ~ValidGrant
          /\ To("reader", "closing")
          /\ UNCHANGED <<authority, sameGen, node, pinned, adapter>>
       \/ /\ ValidGrant
          /\ task.reader = "grant"
          /\ StartExpiration("reader")
          /\ UNCHANGED adapter
       \/ /\ ValidGrant
          /\ task.reader = "grant" => node.schedule = NoSchedule \/ node.schedule.deadline > clock
          /\ IF Projections[node.basis].activation
             THEN /\ To("reader", "grantActivate")
                  /\ pinned' = pinned \cup {"reader"}
                  /\ UNCHANGED <<authority, sameGen, node, adapter>>
             ELSE EnableAndRenew
    /\ KeepTopology /\ KeepRequests
    /\ UNCHANGED <<local, history>>

\* Mutant: the control state is not looked at again after an await.
GrantNotOverdue == local.deadline > clock

\* The validation after each await of ApplyLeaseGrantTransition.
GrantStillValid == ValidGrant /\ "reader" \in pinned

\* ActivateClusterPreparedPromotion returned; it may have failed.
GrantActivate ==
    /\ At("reader", "grantActivate")
    /\ \/ FailClosed /\ UNCHANGED adapter
       \/ GrantStillValid /\ EnableAndRenew
    /\ KeepTopology /\ KeepRequests
    /\ UNCHANGED <<local, history>>

\* EnableClusterRebuildSourceAdmissionUntil.
GrantSource ==
    /\ At("reader", "grantSource")
    /\ IF adapter.population = "ready" /\ local.deadline > clock
       THEN /\ adapter' = [adapter EXCEPT !.source = local.deadline]
            /\ To("reader", "grantFinal")
            /\ UNCHANGED <<authority, sameGen, node, pinned>>
       ELSE FailClosed /\ UNCHANGED adapter
    /\ KeepTopology /\ KeepRequests
    /\ UNCHANGED <<local, history>>

\* The context is validated once more and the expiry timer scheduled.
GrantFinal ==
    /\ At("reader", "grantFinal")
    /\ IF GrantStillValid /\ HasExactLease(node.session, local.term, local.deadline)
       THEN /\ node' = [node EXCEPT !.dispatch = TRUE,
                            !.schedule = [session |-> node.session, term |-> local.term,
                                          deadline |-> local.deadline]]
            /\ To("reader", "serving")
            /\ UNCHANGED <<authority, sameGen, pinned>>
       ELSE FailClosed
    /\ KeepTopology /\ KeepRequests
    /\ UNCHANGED <<local, adapter, history>>

\* The awaits of FailClosedLeaseGrantTransition; the session then ends.
FailRevoke ==
    /\ At("reader", "failRevoke")
    /\ RevokeExpiration
    /\ To("reader", "failDrain")
    /\ KeepTopology /\ KeepAuthority /\ KeepRequests
    /\ UNCHANGED <<local, node, pinned, history>>

FailDrain ==
    /\ At("reader", "failDrain")
    /\ NoAdmissions
    /\ ~DrainPending
    /\ node' = [node EXCEPT !.drains = Live(@), !.older = @ \ {"reader"}]
    /\ To("reader", "closing")
    /\ KeepTopology /\ KeepAuthority /\ KeepRequests
    /\ UNCHANGED <<local, pinned, adapter, history>>

-----------------------------------------------------------------------------
(* A fence: Meta withdraws the grant of the installed assignment and term. *)

\* ApplyFenceTransition up to the publication.
StartFence ==
    /\ At("reader", "serving")
    /\ Owned(current)
    /\ Projections[node.basis].owner /\ current.term = Projections[node.basis].term
    /\ current.term \notin history.fenced
    /\ pinned' = {}
    /\ Fence
    /\ node' = [node EXCEPT !.dispatch = FALSE, !.schedule = NoSchedule,
                            !.floor = IF @ < current.term THEN current.term ELSE @]
    /\ Publish("reader", [current EXCEPT !.granted = FALSE])
    /\ To("reader", "fence")
    /\ KeepRequests
    /\ UNCHANGED <<current, unstable, sameSeq, local, adapter, history>>

Fenced ==
    /\ Published("reader")
    /\ task.reader = "fence"
    /\ To("reader", "fenceAdmissions")
    /\ node' = [node EXCEPT !.drains = IF pub.before.granted THEN RememberDrain(pub.before) ELSE @]
    /\ KeepAuthority /\ KeepRequests
    /\ UNCHANGED <<local, pinned, adapter, history>>

\* WaitForDirectiveAdmissions, RevokeExpirationAuthority.
FenceRevoke ==
    /\ At("reader", "fenceAdmissions")
    /\ NoAdmissions
    /\ RevokeExpiration
    /\ To("reader", "fenceCancel")
    /\ KeepTopology /\ KeepAuthority /\ KeepRequests
    /\ UNCHANGED <<local, node, pinned, history>>

\* CancelInProgressPopulation, preserving nothing.
FenceCancel ==
    /\ At("reader", "fenceCancel")
    /\ adapter' = [adapter EXCEPT !.population = IF @ = "rebuilding" THEN "none" ELSE @]
    /\ To("reader", "fenceDrain")
    /\ KeepTopology /\ KeepAuthority /\ KeepRequests
    /\ UNCHANGED <<local, node, pinned, history>>

FenceDrain ==
    /\ At("reader", "fenceDrain")
    /\ ~DrainPending
    /\ node' = [node EXCEPT !.drains = {}, !.older = @ \ {"reader"}]
    /\ To("reader", "fenceAck")
    /\ KeepTopology /\ KeepAuthority /\ KeepRequests
    /\ UNCHANGED <<local, pinned, adapter, history>>

\* The executor is joined, sources are revoked once more and Meta is told.
FenceAck ==
    /\ At("reader", "fenceAck")
    /\ NoAdmissions
    /\ pinned' = {}
    /\ history' = [history EXCEPT !.fenced = @ \cup {Projections[node.basis].term}]
    /\ To("reader", "serving")
    /\ KeepTopology /\ KeepAuthority /\ KeepRequests
    /\ UNCHANGED <<local, node, adapter>>

-----------------------------------------------------------------------------
(* The loss of the session.                                                *)

\* InvalidateSessionNow, before the session's coroutines are joined.
EndSession(stages) ==
    /\ pub = NoPub
    /\ task.reader \in stages
    /\ pinned' = {}
    /\ InvalidateSession(node.session)
    /\ node' = [node EXCEPT !.dispatch = FALSE, !.schedule = NoSchedule]
    /\ To("reader", "lostJoin")
    /\ KeepTopology /\ KeepRequests
    /\ UNCHANGED <<local, adapter, history>>

\* The connection breaks; a handler has failed.
SessionLost == EndSession({"connected", "serving"})
SessionClosed == EndSession({"closing"})

\* LoseSessionTransition up to its first await.
SessionJoined ==
    /\ At("reader", "lostJoin")
    /\ task.heartbeat = "idle"
    /\ NoAdmissions
    /\ pinned' = {}
    /\ node' = [node EXCEPT !.drains = IF Owned(current) THEN RememberDrain(current) ELSE @]
    /\ To("reader", "lostRevoke")
    /\ KeepTopology /\ KeepAuthority /\ KeepRequests
    /\ UNCHANGED <<local, adapter, history>>

SessionRevoke ==
    /\ At("reader", "lostRevoke")
    /\ RevokeExpiration
    /\ To("reader", "lostCancel")
    /\ KeepTopology /\ KeepAuthority /\ KeepRequests
    /\ UNCHANGED <<local, node, pinned, history>>

\* CancelInProgressPopulation, preserving the current follow attempt.
SessionCancel ==
    /\ At("reader", "lostCancel")
    /\ \E p \in Reconciled : adapter' = [adapter EXCEPT !.population = p]
    /\ node' = [node EXCEPT !.older = @ \ {"reader"}]
    /\ To("reader", "offline")
    /\ KeepTopology /\ KeepAuthority /\ KeepRequests
    /\ UNCHANGED <<local, pinned, history>>

-----------------------------------------------------------------------------
(* Population readiness: the heartbeat producer publishes what the         *)
(* ReplicationManager reports.                                             *)

\* SetPopulationReadinessTransitionImpl without a proof, up to the publication.
Unready(t) ==
    /\ IF current.owner
       THEN InvalidateLeases /\ node' = [node EXCEPT !.schedule = NoSchedule,
                                                     !.dispatch = @ /\ t # "heartbeat"]
       ELSE node' = [node EXCEPT !.dispatch = @ /\ t # "heartbeat"] /\ KeepAuthority
    /\ Publish(t, [current EXCEPT !.population = FALSE])
    /\ To(t, "losing")

HeartbeatLoses ==
    /\ At("heartbeat", "idle")
    /\ task.reader \in Established
    /\ current.population /\ adapter.population # "ready"
    /\ pinned' = {}
    /\ Unready("heartbeat")
    /\ KeepRequests
    /\ UNCHANGED <<current, unstable, sameSeq, local, adapter, history>>

\* A proof is refused once storage has failed.
HeartbeatGains ==
    /\ At("heartbeat", "idle")
    /\ task.reader \in Established
    /\ ~current.population /\ adapter.population = "ready"
    /\ storageReady
    /\ Publish("heartbeat", [current EXCEPT !.population = TRUE])
    /\ To("heartbeat", "gaining")
    /\ KeepAuthority /\ KeepRequests
    /\ UNCHANGED <<current, unstable, sameSeq, local, node, pinned, adapter, history>>

Gained ==
    /\ Published("heartbeat")
    /\ task.heartbeat = "gaining"
    /\ To("heartbeat", "idle")
    /\ KeepAuthority /\ KeepRequests
    /\ UNCHANGED <<local, node, pinned, adapter, history>>

\* The owner's requests are remembered; the heartbeat also waits for admissions.
Unreadied(t) ==
    /\ Published(t)
    /\ task[t] = "losing"
    /\ t \in {"heartbeat", "directive"}
    /\ node' = [node EXCEPT !.drains = IF pub.before.owner THEN RememberDrain(pub.before) ELSE @]
    /\ To(t, IF pub.before.owner THEN "revoke" ELSE "sources")
    /\ KeepAuthority /\ KeepRequests
    /\ UNCHANGED <<local, pinned, adapter, history>>

UnreadyRevoke(t) ==
    /\ At(t, "revoke")
    /\ t \in {"heartbeat", "directive"}
    /\ t = "heartbeat" => NoAdmissions
    /\ RevokeExpiration
    /\ To(t, "sources")
    /\ KeepTopology /\ KeepAuthority /\ KeepRequests
    /\ UNCHANGED <<local, node, pinned, history>>

\* RevokeSourceAuthorizationsAndWait returned: the transition is left.
HeartbeatSources ==
    /\ At("heartbeat", "sources")
    /\ NoAdmissions
    /\ To("heartbeat", "join")
    /\ Leave("heartbeat")
    /\ KeepTopology /\ KeepAuthority /\ KeepRequests
    /\ UNCHANGED <<local, pinned, adapter, history>>

\* The executor is joined and sources are revoked again, unless the reader
\* has asked the producer to pause for an install.
HeartbeatJoin ==
    /\ At("heartbeat", "join")
    /\ \/ NoAdmissions /\ pinned' = {}
       \/ task.reader = "serving" /\ UNCHANGED pinned
    /\ To("heartbeat", "idle")
    /\ KeepTopology /\ KeepAuthority /\ KeepRequests
    /\ UNCHANGED <<local, node, adapter, history>>

\* The replication stream breaks; a rebuild completes.
PopulationLost ==
    /\ pub = NoPub
    /\ adapter.population = "ready"
    /\ adapter.changes < scenario.changes
    /\ adapter' = [adapter EXCEPT !.population = "none", !.changes = @ + 1]
    /\ KeepTopology /\ KeepAuthority /\ KeepRequests
    /\ UNCHANGED <<task, local, node, pinned, history>>

RebuildDone ==
    /\ pub = NoPub
    /\ adapter.population = "rebuilding"
    /\ adapter.changes < scenario.changes
    /\ adapter' = [adapter EXCEPT !.population = "ready", !.changes = @ + 1]
    /\ KeepTopology /\ KeepAuthority /\ KeepRequests
    /\ UNCHANGED <<task, local, node, pinned, history>>

-----------------------------------------------------------------------------
(* A directive that resets and rebuilds the local population.              *)

\* Mutant: the requests of the retired assignment are not waited for.
ValidTarget ==
    /\ storageReady
    /\ Transitions \subseteq {"directive"}
    /\ Projections[node.basis].term > node.floor
    /\ ~Anchored(current)

\* ValidateDirectiveForStart; the directive's own transition is over.
ValidDirective ==
    /\ storageReady
    /\ Transitions \subseteq {"directive"}
    /\ Projections[node.basis].term > node.floor
    /\ ~Anchored(current)
    /\ ~DrainPending
    /\ InFlight(current.cell) = 0

\* StartDirective up to its first await.  If there is nothing to publish it does
\* not suspend, and neither does the ReplicationManager before it drops the proof.
StartDirective ==
    /\ At("directive", "idle")
    /\ task.reader \in Established
    /\ node.dispatch
    /\ adapter.changes < scenario.changes
    /\ ValidDirective
    /\ IF current.population
       THEN /\ Unready("directive")
            /\ pinned' = pinned \cup {"directive"}
            /\ adapter' = [adapter EXCEPT !.changes = @ + 1]
       ELSE /\ adapter' = [adapter EXCEPT !.changes = @ + 1, !.population = "rebuilding"]
            /\ UNCHANGED <<authority, sameGen, node, pub, pinned, task>>
    /\ KeepRequests
    /\ UNCHANGED <<current, unstable, sameSeq, local, history>>

\* RevokeSourceAuthorizationsAndWait returned: the second validation.
DirectiveStarts ==
    /\ At("directive", "sources")
    /\ adapter' = IF "directive" \in pinned /\ ValidDirective
                  THEN [adapter EXCEPT !.population = "rebuilding"]
                  ELSE adapter
    /\ To("directive", "idle")
    /\ pinned' = pinned \ {"directive"}
    /\ Leave("directive")
    /\ KeepTopology /\ KeepAuthority /\ KeepRequests
    /\ UNCHANGED <<local, history>>

-----------------------------------------------------------------------------
(* The loss of storage: terminal for this boot.                            *)

\* LoseStorageReadinessTransition up to the publication.
StorageLost ==
    /\ At("storage", "up")
    /\ scenario.storageFails
    /\ current # NoState
    /\ pinned' = {}
    /\ InvalidateAll
    /\ node' = [node EXCEPT !.schedule = NoSchedule, !.older = Transitions,
                            !.drains = IF Owned(current) THEN RememberDrain(current) ELSE @]
    /\ Publish("storage", [current EXCEPT !.storage = FALSE])
    /\ To("storage", "losing")
    /\ KeepRequests
    /\ UNCHANGED <<current, unstable, sameSeq, local, adapter, history>>

StorageUnready ==
    /\ Published("storage")
    /\ To("storage", "admissions")
    /\ KeepAuthority /\ KeepRequests
    /\ UNCHANGED <<local, node, pinned, adapter, history>>

\* WaitForDirectiveAdmissions, WaitForControlTransitionsBefore.
StorageJoin ==
    /\ At("storage", "admissions")
    /\ NoAdmissions
    /\ node.older = {}
    /\ To("storage", "revoke")
    /\ KeepTopology /\ KeepAuthority /\ KeepRequests
    /\ UNCHANGED <<local, node, pinned, adapter, history>>

StorageRevoke ==
    /\ At("storage", "revoke")
    /\ RevokeExpiration
    /\ To("storage", "cancel")
    /\ KeepTopology /\ KeepAuthority /\ KeepRequests
    /\ UNCHANGED <<local, node, pinned, history>>

\* CancelPopulationForShutdown.
StorageCancel ==
    /\ At("storage", "cancel")
    /\ adapter' = [adapter EXCEPT !.population = "stopped"]
    /\ To("storage", "drain")
    /\ KeepTopology /\ KeepAuthority /\ KeepRequests
    /\ UNCHANGED <<local, node, pinned, history>>

StorageDrain ==
    /\ At("storage", "drain")
    /\ ~DrainPending
    /\ node' = [node EXCEPT !.drains = {}]
    /\ To("storage", "done")
    /\ KeepTopology /\ KeepAuthority /\ KeepRequests
    /\ UNCHANGED <<local, pinned, adapter, history>>

-----------------------------------------------------------------------------
Init ==
    /\ scenario \in Scenarios
    /\ AuthorityInit
    /\ task = [t \in Coroutines |-> IF t = "reader" THEN "offline"
                                   ELSE IF t = "storage" THEN "up" ELSE "idle"]
    /\ local = [rev |-> 1, retires |-> FALSE, pauses |-> FALSE, term |-> Projections[1].term,
                deadline |-> 0]
    /\ pub = NoPub
    /\ node = [session |-> 0, basis |-> 1, dispatch |-> FALSE, schedule |-> NoSchedule,
               drains |-> {}, floor |-> 0, older |-> {}, due |-> 0]
    /\ pinned = {}
    /\ adapter = [expiry |-> 0, source |-> 0, population |-> "ready", changes |-> 0]
    /\ history = [fenced |-> {}, pauseJoined |-> FALSE]

Reader ==
    \/ Installed \/ InstallAdmissions \/ InstallRevoke \/ InstallPause \/ InstallReconcile
    \/ RoutingInstalled \/ ExpireRevoke("reader") \/ ExpireRemember("reader")
    \/ ExpireDone("reader") \/ GrantValidate \/ GrantActivate
    \/ GrantSource \/ GrantFinal \/ FailRevoke \/ FailDrain
    \/ Fenced \/ FenceRevoke \/ FenceCancel \/ FenceDrain \/ FenceAck
    \/ SessionClosed \/ SessionJoined \/ SessionRevoke \/ SessionCancel

Timer == TimerExpires \/ ExpireRevoke("timer") \/ ExpireRemember("timer") \/ ExpireDone("timer")

Heartbeat ==
    \/ HeartbeatLoses \/ HeartbeatGains \/ Gained \/ Unreadied("heartbeat")
    \/ UnreadyRevoke("heartbeat") \/ HeartbeatSources \/ HeartbeatJoin

Directive ==
    \/ Unreadied("directive") \/ UnreadyRevoke("directive") \/ DirectiveStarts

Storage == StorageUnready \/ StorageJoin \/ StorageRevoke \/ StorageCancel \/ StorageDrain

\* What arrives from Meta and from the rest of the node.
Environment ==
    \/ Connect \/ SessionLost \/ StartFence \/ InstallRouting \/ StartDirective
    \/ PopulationLost \/ RebuildDone \/ StorageLost
    \/ \E rev \in DOMAIN Projections : Install(rev)
    \/ \E d \in 1..Duration : clock + d <= scenario.time /\ Grant(clock + d)

\* The other requests leave room for one more.
Room(r) == Cardinality({q \in Requests \ {r} : req[q].pc # "idle"}) < scenario.writes

Requested(r) == Room(r) /\ Request(r) /\ UNCHANGED controlVars

Ticked == clock < scenario.time /\ Tick /\ UNCHANGED controlVars

Next ==
    /\ \/ Environment \/ Store \/ Reader \/ Timer \/ Heartbeat \/ Directive \/ Storage \/ Ticked
       \/ \E r \in Requests : Requested(r)
    /\ UNCHANGED scenario

Spec == Init /\ [][Next]_vars

\* Worker 0 runs every ready coroutine in turn, though not while another one
\* publishes; the other workers keep running their requests, which spin while a
\* publication is under way; and a handler performs finitely many mutations.
\* Nothing makes a client send a request.
FairSpec ==
    /\ Spec
    /\ WF_nodeVars(Store) /\ WF_nodeVars(Reader)
    /\ SF_nodeVars(Timer \/ Heartbeat \/ Directive) /\ SF_nodeVars(Storage)
    /\ \A r \in Requests : /\ SF_nodeVars(req[r].pc # "idle" /\ Requested(r))
                           /\ WF_nodeVars(Finish(r) /\ UNCHANGED controlVars)

-----------------------------------------------------------------------------
Schedules == [session : Nat, term : Terms, deadline : Nat] \cup {NoSchedule}

(* The state of the authority and of every control coroutine has its type. *)
TypeOK ==
    /\ AuthorityType
    /\ DOMAIN task = Coroutines
    /\ task.reader \in Guarded.reader \cup Established
                     \cup {"offline", "connected", "routing", "closing", "lostJoin"}
    /\ task.timer \in Guarded.timer \cup {"idle"}
    /\ task.heartbeat \in Guarded.heartbeat \cup {"idle", "gaining", "join"}
    /\ task.directive \in Guarded.directive \cup {"idle"}
    /\ task.storage \in Guarded.storage \cup {"up", "done"}
    /\ local \in [rev : DOMAIN Projections, retires : BOOLEAN, pauses : BOOLEAN, term : Terms,
                  deadline : Nat]
    /\ pub = NoPub \/ pub \in [by : Coroutines, next : Views, rerouted : BOOLEAN,
                               before : Views \cup {NoState}, stored : BOOLEAN]
    /\ node \in [session : Nat, basis : DOMAIN Projections, dispatch : BOOLEAN,
                 schedule : Schedules, drains : SUBSET Nat, floor : Nat,
                 older : SUBSET Coroutines, due : Nat]
    /\ pinned \subseteq {"reader", "directive"}
    /\ adapter \in [expiry : Nat, source : Nat, changes : 0..scenario.changes,
                    population : {"none", "rebuilding", "ready", "stopped"}]
    /\ history \in [fenced : SUBSET Terms, pauseJoined : BOOLEAN]

Executing == {r \in Requests : req[r].pc \in Accepted}

(* A write whose lease had lapsed when its final check read the clock does *)
(* not reach storage, however the lease is renewed, replaced or reissued   *)
(* in the meantime (RenewLease does not extend an expired lease).          *)
NoRevival == \A r \in Requests : lapse[r] = "late" => req[r].pc # "mutating"

(* Once a fence is acknowledged, no write admitted under the fenced term   *)
(* is still executing and none ever executes again in this boot            *)
(* (ApplyFenceTransition drains, reject_through_ refuses later grants).    *)
FenceHolds == \A r \in Executing : req[r].view.term \notin history.fenced

(* Once Meta has been told of a group pause, no write is executing until a *)
(* later projection lifts the pause (the pause drain of                    *)
(* InstallFullStateTransition).                                            *)
PauseHolds == history.pauseJoined => Executing = {}

(* A population is never reset under an executing write (the two           *)
(* validations of StartDirective).                                         *)
ResetHolds ==
    [][adapter'.population = "rebuilding" /\ adapter.population # "rebuilding" => Executing = {}]_vars

(* Outside a publication, a lease names the serving assignment and term,   *)
(* never a fenced one, and outside a grant the expiry timer is scheduled   *)
(* for exactly that lease.                                                 *)
LeaseSupervised ==
    pub = NoPub /\ authority.lease # NoLease =>
        /\ Anchored(current)
        /\ authority.lease.term = current.term
        /\ authority.lease.term > node.floor
        /\ task.reader \in {"grantSource", "grantFinal"} \/ node.schedule = authority.lease

(* When no transition is under way, the storage engine may expire keys and *)
(* export sources only as long as the node holds a lease at least that     *)
(* long.                                                                   *)
ExpirationFollowsLease ==
    /\ pub = NoPub
    /\ Transitions = {}
    /\ task.reader \in {"offline", "connected", "serving"}
    /\ adapter.expiry > clock \/ adapter.source > clock
    => /\ authority.lease # NoLease
       /\ authority.lease.deadline >= adapter.expiry
       /\ authority.lease.deadline >= adapter.source

(* When the storage-loss transition has finished nothing of the old        *)
(* authority is left, and nothing brings it back before a restart.  Only a *)
(* grant that was suspended inside the ReplicationManager may leave source *)
(* admission open, until it validates again and revokes it.                *)
StorageTerminal ==
    task.storage = "done" =>
        /\ authority.lease = NoLease
        /\ adapter.expiry <= clock
        /\ adapter.source <= clock \/ task.reader \in {"grantFinal", "failRevoke"}
        /\ adapter.population = "stopped"
        /\ Executing = {}

\* The session reader is inside a transition, or the loss of storage is.
Busy ==
    \/ task.reader \notin {"offline", "connected", "serving"}
    \/ task.storage \notin {"up", "done"}

(* Every transition of the session reader ends and the loss of storage is  *)
(* carried through: the waits for admissions, drains and joined coroutines *)
(* never depend on each other.                                             *)
TransitionsEnd == Busy ~> ~Busy

(* A population reset begins only after the serving state has been         *)
(* published as unready, as the comment in StartDirective says.            *)
ResetUnready ==
    [][adapter'.population = "rebuilding" /\ adapter.population # "rebuilding" => ~current.population]_vars
=============================================================================
