----------------------------- MODULE Authority -----------------------------
(***************************************************************************)
(* How a data node decides that it may execute a write: the published      *)
(* serving state (src/cluster/topology.cpp), the lease guard               *)
(* (src/cluster/authority.cpp) and the request path that consults them     *)
(* (src/redis/command.cpp).  Module NodeControl has the control            *)
(* transitions that change the state while requests run.                   *)
(*                                                                         *)
(* Requests run on every worker, in parallel with each other and with the  *)
(* control transitions, so each load of shared state is a step of its own. *)
(* One group and single-slot writes are modelled.  Counters that the code  *)
(* only compares for equality are kept as the set of readers whose copy    *)
(* is still the current value; a bump empties the set.                     *)
(***************************************************************************)
EXTENDS Integers, FiniteSets

CONSTANTS
    Requests,   \* the write commands being executed
    Terms,      \* authority anchors: an assignment at a group term
    MaxTime     \* bound: the lease clock stops here

ASSUME TermsAssumption == Terms \subseteq Nat \ {0} /\ MaxTime \in Nat

VARIABLES
    clock,      \* LeaseClockNow
    current,    \* TopologyCache::current_
    unstable,   \* publication_sequence_ is odd
    authority,  \* AuthorityGuard::published_authority_: session and lease
    sameSeq,    \* requests whose publication_before is the current sequence
    sameGen,    \* requests whose gate_generation_ is the current generation
    req,        \* the requests
    lapse       \* history: did the lease of the admission lapse, and before the last clock read

authorityVars == <<clock, current, unstable, authority, sameSeq, sameGen, req, lapse>>

-----------------------------------------------------------------------------
(* The serving state: the GroupView of the group, whether this node is its *)
(* primary, and the group's in-flight cell.                                *)

Views == [owner : BOOLEAN, term : Terms, granted : BOOLEAN, population : BOOLEAN,
          storage : BOOLEAN, paused : BOOLEAN, cell : Nat]

NoState == [cell |-> 0]

\* ComputeGroupToken: a pause is not part of the authority token.
Token(v) == <<v.owner, v.term, v.granted, v.population, v.storage>>

\* AuthorityUnchanged.
AuthorityUnchanged(v, now) == now # NoState /\ Token(v) = Token(now)

\* MutationAdmissionUnchanged.
MutationAdmissionUnchanged(v, now) == now # NoState /\ v.paused = now.paused

\* Admit, for a write to one slot.
Serves(v) == v # NoState /\ v.storage /\ v.population /\ v.owner /\ v.granted /\ ~v.paused

\* LocalPrimaryAnchor has a value.
Anchored(v) == v # NoState /\ v.owner /\ v.granted /\ v.population /\ v.storage

\* ShareInFlightCellsFrom: an unchanged token keeps the cell.
WithCells(old, v) ==
    [v EXCEPT !.cell = IF old # NoState /\ Token(old) = Token(v) THEN old.cell ELSE old.cell + 1]

\* content_hash equality: a republication of the same content is skipped.
SameContent(old, v) == old # NoState /\ Token(old) = Token(v) /\ old.paused = v.paused

-----------------------------------------------------------------------------
(* The guard.  A lease names its session, anchor and deadline.             *)

NoLease == [session |-> 0]

NoAuthority == [session |-> 0, lease |-> NoLease]

\* LeaseCovers, for the group's primary.
LeaseCovers(v, now) ==
    /\ authority.session # 0
    /\ authority.lease # NoLease
    /\ authority.lease.session = authority.session
    /\ authority.lease.deadline > now
    /\ Anchored(v)
    /\ authority.lease.term = v.term

\* PublishAuthorityLocked with ++generation_.
Bump(a) == authority' = a /\ sameGen' = {}

SameLease(session, term) ==
    authority.lease # NoLease /\ authority.lease.session = session /\ authority.lease.term = term

NewLease(session, term, deadline) ==
    Bump([session |-> session, lease |-> [session |-> session, term |-> term, deadline |-> deadline]])

\* A deadline-only renewal is invisible to admitted work.
ExtendLease(deadline) ==
    /\ authority' = [authority EXCEPT !.lease.deadline = deadline]
    /\ UNCHANGED sameGen

\* RenewLease succeeds: an expired lease is not extended.
Renewable(session, term, deadline) ==
    /\ deadline > clock
    /\ authority.session = session /\ SameLease(session, term) => authority.lease.deadline > clock

\* RenewLease.
RenewLease(session, term, deadline) ==
    IF authority.session = session /\ SameLease(session, term)
    THEN ExtendLease(deadline)
    ELSE NewLease(session, term, deadline)

\* HasExactLease.
HasExactLease(session, term, deadline) ==
    /\ authority.session = session
    /\ authority.lease = [session |-> session, term |-> term, deadline |-> deadline]
    /\ deadline > clock

ExactLeaseDue(session, term, deadline) ==
    /\ deadline <= clock
    /\ authority.session = session
    /\ authority.lease = [session |-> session, term |-> term, deadline |-> deadline]

\* Mutant: the lease is emptied instead of erased.
EmptyLease ==
    IF authority.lease # NoLease
    THEN Bump([authority EXCEPT !.lease = [term |-> @.term]])
    ELSE UNCHANGED <<authority, sameGen>>

DropLease ==
    IF authority.lease # NoLease
    THEN Bump([authority EXCEPT !.lease = NoLease])
    ELSE UNCHANGED <<authority, sameGen>>

\* ExpireLease.
ExpireLease(session, term, deadline) ==
    IF ExactLeaseDue(session, term, deadline)
    THEN DropLease
    ELSE UNCHANGED <<authority, sameGen>>

\* InvalidateSession.
InvalidateSession(session) ==
    IF authority.session = session /\ session # 0
    THEN Bump(NoAuthority)
    ELSE UNCHANGED <<authority, sameGen>>

\* Mutant: a publication leaves the leases alone.
AnchorsKept(next) == UNCHANGED <<authority, sameGen>>

\* InvalidateAnchorsChanged.
InvalidateAnchorsChanged(next) ==
    IF Anchored(next) /\ SameLease(authority.lease.session, next.term)
    THEN UNCHANGED <<authority, sameGen>>
    ELSE DropLease

\* Fence and InvalidateLeases.
Fence == DropLease
InvalidateLeases == DropLease

\* InvalidateAll.
InvalidateAll == Bump(NoAuthority)

-----------------------------------------------------------------------------
(* Publish: the new state becomes visible with the sequence odd, then the  *)
(* sequence becomes even.                                                  *)

PublishStore(next) ==
    /\ unstable' = TRUE
    /\ current' = WithCells(current, next)
    /\ sameSeq' = {}

PublishDone == unstable' = FALSE /\ UNCHANGED <<current, sameSeq>>

-----------------------------------------------------------------------------
(* A request: where it is, the clock it read, the state it was admitted    *)
(* under, and the cell it holds.                                           *)

NoRequest == [pc |-> "idle", now |-> 0, view |-> NoState, hold |-> 0]

Stages == {"idle", "retry", "lease", "admitted", "entering", "entered", "paused",
           "registerLease", "registerTopology", "executing",
           "finalLease", "finalTopology", "mutating"}

\* Registration was accepted and the guards have not been dropped.
Accepted == {"executing", "finalLease", "finalTopology", "mutating"}

InFlight(c) == Cardinality({r \in Requests : req[r].hold = c /\ c # 0})

AuthorityInit ==
    /\ clock = 0
    /\ current = NoState
    /\ unstable = FALSE
    /\ authority = NoAuthority
    /\ sameSeq = {}
    /\ sameGen = {}
    /\ req = [r \in Requests |-> NoRequest]
    /\ lapse = [r \in Requests |-> "no"]

LeaseDue(time) == authority.lease # NoLease /\ authority.lease.deadline <= time

Tick ==
    /\ clock < MaxTime
    /\ clock' = clock + 1
    /\ lapse' = [r \in Requests |-> IF lapse[r] = "no" /\ r \in sameGen /\ LeaseDue(clock + 1)
                                   THEN "lapsed" ELSE lapse[r]]
    /\ UNCHANGED <<current, unstable, authority, sameSeq, sameGen, req>>

Goto(r, stage) == req' = [req EXCEPT ![r].pc = stage]

\* Mutant: the guards of an answered command survive.
AnswerLeaks(r) ==
    /\ req' = [req EXCEPT ![r] = [NoRequest EXCEPT !.hold = req[r].hold]]
    /\ sameGen' = sameGen \ {r}
    /\ lapse' = [lapse EXCEPT ![r] = "no"]

\* The command is answered: its guards are dropped.
Answer(r) ==
    /\ req' = [req EXCEPT ![r] = NoRequest]
    /\ sameGen' = sameGen \ {r}
    /\ lapse' = [lapse EXCEPT ![r] = "no"]

\* guards->clear() after a failed registration; the command captures afresh.
Rollback(r) ==
    /\ req' = [req EXCEPT ![r] = [NoRequest EXCEPT !.pc = "retry"]]
    /\ sameGen' = sameGen \ {r}
    /\ lapse' = [lapse EXCEPT ![r] = "no"]

\* ClusterGateReject and CaptureAndAdmit: the clock, then the topology.
Capture(r) ==
    /\ req[r].pc \in {"idle", "retry"}
    /\ ~unstable
    /\ IF Serves(current)
       THEN req' = [req EXCEPT ![r] = [NoRequest EXCEPT !.pc = "lease", !.now = clock,
                                                        !.view = current]]
       ELSE req[r].pc = "retry" /\ req' = [req EXCEPT ![r] = NoRequest]
    /\ UNCHANGED <<clock, current, unstable, authority, sameSeq, sameGen, lapse>>

\* CaptureAndAdmit: the generation, and the lease.
CaptureLease(r) ==
    /\ req[r].pc = "lease"
    /\ IF LeaseCovers(req[r].view, req[r].now)
       THEN /\ Goto(r, "admitted")
            /\ sameGen' = sameGen \cup {r}
            /\ lapse' = [lapse EXCEPT ![r] = IF LeaseDue(clock) THEN "lapsed" ELSE "no"]
       ELSE Answer(r)
    /\ UNCHANGED <<clock, current, unstable, authority, sameSeq>>

\* RegisterAndRecheck: the clock, then the registration state and sequence.
Register(r) ==
    /\ req[r].pc = "admitted"
    /\ ~unstable
    /\ sameSeq' = sameSeq \cup {r}
    /\ req' = [req EXCEPT ![r].now = clock,
                          ![r].pc = IF MutationAdmissionUnchanged(req[r].view, current)
                                    THEN "entering" ELSE "paused"]
    /\ UNCHANGED <<clock, current, unstable, authority, sameGen, lapse>>

\* GroupInFlight::Enter on the cell of the admitted state.
Enter(r) ==
    /\ req[r].pc \in {"entering", "paused"}
    /\ req' = [req EXCEPT ![r].hold = req[r].view.cell,
                          ![r].pc = IF @ = "entering" THEN "entered" ELSE "paused"]
    /\ req[r].hold = 0
    /\ UNCHANGED <<clock, current, unstable, authority, sameSeq, sameGen, lapse>>

\* Mutant: the registration is not bracketed by the sequence.
EnteredUnbracketed(r) ==
    /\ req[r].pc \in {"entered", "paused"} /\ req[r].hold # 0
    /\ IF req[r].pc = "entered"
       THEN Goto(r, "registerLease") /\ UNCHANGED <<sameGen, lapse>>
       ELSE Rollback(r)
    /\ sameSeq' = sameSeq \ {r}
    /\ UNCHANGED <<clock, current, unstable, authority>>

\* RegisterAndRecheck: the sequence is unchanged and no pause was seen.
CheckSequence(r) ==
    /\ req[r].pc \in {"entered", "paused"} /\ req[r].hold # 0
    /\ IF req[r].pc = "entered" /\ r \in sameSeq
       THEN Goto(r, "registerLease") /\ UNCHANGED <<sameGen, lapse>>
       ELSE Rollback(r)
    /\ sameSeq' = sameSeq \ {r}
    /\ UNCHANGED <<clock, current, unstable, authority>>

\* Mutant: the generation alone is compared.
LeaseHoldsUndated(r) == r \in sameGen

\* The first half of Recheck.
LeaseHolds(r) == r \in sameGen /\ LeaseCovers(req[r].view, req[r].now)

RegisterLease(r) ==
    /\ req[r].pc = "registerLease"
    /\ IF LeaseHolds(r) THEN Goto(r, "registerTopology") /\ UNCHANGED <<sameGen, lapse>> ELSE Rollback(r)
    /\ UNCHANGED <<clock, current, unstable, authority, sameSeq>>

\* The second half of Recheck.
RegisterTopology(r) ==
    /\ req[r].pc = "registerTopology"
    /\ ~unstable
    /\ IF AuthorityUnchanged(req[r].view, current)
       THEN Goto(r, "executing") /\ UNCHANGED <<sameGen, lapse>>
       ELSE Rollback(r)
    /\ UNCHANGED <<clock, current, unstable, authority, sameSeq>>

\* ValidateClusterStorageMutation: RecheckAtMutation reads the clock.
BeginMutation(r) ==
    /\ req[r].pc = "executing"
    /\ req' = [req EXCEPT ![r].pc = "finalLease", ![r].now = clock]
    /\ lapse' = [lapse EXCEPT ![r] = IF @ = "no" THEN "no" ELSE "late"]
    /\ UNCHANGED <<clock, current, unstable, authority, sameSeq, sameGen>>

FinalLease(r) ==
    /\ req[r].pc = "finalLease"
    /\ IF LeaseHolds(r) THEN Goto(r, "finalTopology") /\ UNCHANGED <<sameGen, lapse>> ELSE Answer(r)
    /\ UNCHANGED <<clock, current, unstable, authority, sameSeq>>

FinalTopology(r) ==
    /\ req[r].pc = "finalTopology"
    /\ ~unstable
    /\ IF AuthorityUnchanged(req[r].view, current)
       THEN Goto(r, "mutating") /\ UNCHANGED <<sameGen, lapse>>
       ELSE Answer(r)
    /\ UNCHANGED <<clock, current, unstable, authority, sameSeq>>

\* The storage mutation the final check admitted; more may follow.
Mutate(r) ==
    /\ req[r].pc = "mutating"
    /\ Goto(r, "executing")
    /\ UNCHANGED <<clock, current, unstable, authority, sameSeq, sameGen, lapse>>

\* The handler returns.
Finish(r) ==
    /\ req[r].pc = "executing"
    /\ Answer(r)
    /\ UNCHANGED <<clock, current, unstable, authority, sameSeq>>

Request(r) ==
    \/ Capture(r) \/ CaptureLease(r) \/ Register(r) \/ Enter(r) \/ CheckSequence(r)
    \/ RegisterLease(r) \/ RegisterTopology(r) \/ BeginMutation(r) \/ FinalLease(r)
    \/ FinalTopology(r) \/ Mutate(r) \/ Finish(r)

AuthorityType ==
    /\ clock \in 0..MaxTime
    /\ current \in Views \cup {NoState}
    /\ unstable \in BOOLEAN
    /\ authority.session \in Nat
    /\ authority.lease = NoLease
       \/ authority.lease \in [session : Nat, term : Terms, deadline : Nat]
    /\ sameSeq \subseteq Requests /\ sameGen \subseteq Requests
    /\ lapse \in [Requests -> {"no", "lapsed", "late"}]
    /\ req \in [Requests -> [pc : Stages, now : Nat, view : Views \cup {NoState}, hold : Nat]]
=============================================================================
