---- MODULE FailoverApply ----
(***************************************************************************)
(* The deterministic apply of the Meta state machine for one group: what   *)
(* every committed command that touches the group's authority, membership, *)
(* failover transition or failover operations does to the stores, at the   *)
(* log index it is committed at.  A command is a record; its field t names *)
(* its type.  Each command has the three parts its Dispatch has:           *)
(*   ...Present(s, i, c)  the command's post-effect is already there, so   *)
(*                        the entry is accepted and changes nothing;       *)
(*   ...Pre(s, i, c)      the compare-and-set on the state it was built    *)
(*                        from;                                            *)
(*   ...Post(s, i, c)     the stores after it.                             *)
(* The stores are a record s:                                              *)
(*   term, owner, active, bound   MetaGroupRecord and GroupState: the      *)
(*                        group term, the (historical) owner, whether the  *)
(*                        term holds a grant, and the failover action the  *)
(*                        grant is bound to (None for an ordinary grant);  *)
(*   member               per node: is it a member, and its last           *)
(*                        assignment id;                                   *)
(*   revision, repl, epoch  membership revision, replication anchors       *)
(*                        (manifest and partition epoch), topology epoch;  *)
(*   trans                the active failover transition, or None;         *)
(*   ops                  the failover operations.  One is Submitted at    *)
(*                        revision 0 or terminal at revision 1, so life    *)
(*                        stands for the revision.                         *)
(* An operation's intent names its deadline once; the commands copy it, so *)
(* the deadline itself is left out.                                        *)
(* The cluster is in its Created lifecycle, the only one these commands    *)
(* act in.  Directives are issued by the cluster-create workflow alone,    *)
(* which has ended by then: there are none for InvalidateStaleCurrent-     *)
(* Directives to withdraw or ValidateAffectedNodeControls to count.        *)
(***************************************************************************)
EXTENDS Naturals, FiniteSets

CONSTANTS Node,     \* Data nodes
          Op,       \* failover operation ids
          Deadline, \* recovery cutoffs a reconciler may choose
          None

ASSUME NoneIsNoValue == None \notin Node \cup Op \cup Nat \cup Deadline

-----------------------------------------------------------------------------
(* The shape of the stores.  Ids and revisions are numbers; index is the    *)
(* last committed entry.                                                    *)

Optional(S) == S \cup {None}

Losses == {"none", "unknown"}

Candidates == [node : Node, assign : Nat]

Actions == [id : Nat, cand : Candidates,
            domain : [term : Nat, node : Node, assign : Nat],
            auth : Optional([rev : Nat, loss : Losses]), oper : BOOLEAN]

Transitions == [id : Nat, rev : Nat, mode : {"controlled", "uncontrolled"},
                target : Nat, action : Optional(Actions), op : Optional(Op),
                deadline : Optional(Deadline)]

Lives == {"absent", "submitted", "completed", "aborted"}

Reasons == {"none", "preempted", "aborted", "degraded"}

Operations == [life : Lives, seq : Nat, why : Reasons]

Stores == [term : Nat, owner : Node, active : BOOLEAN, bound : Optional(Nat),
           member : [Node -> [in : BOOLEAN, assign : Nat]],
           revision : Nat, repl : Nat, epoch : Nat,
           trans : Optional(Transitions), ops : [Op -> Operations]]

ASSUME NoneIsNoRecord == None \notin Transitions \cup Actions

-----------------------------------------------------------------------------
(* Facts the dispatchers read. *)

IsMember(s, n) == n \in Node /\ s.member[n].in

HasAssignment(s, n, a) == IsMember(s, n) /\ s.member[n].assign = a

\* The facts a proposer copies from its committed view and apply compares.
AnchorOf(s) == [owner |-> s.owner, assign |-> s.member[s.owner].assign,
                revision |-> s.revision, term |-> s.term, repl |-> s.repl]

AnchorHolds(s, a) ==
    /\ s.owner = a.owner
    /\ HasAssignment(s, a.owner, a.assign)
    /\ s.revision = a.revision
    /\ s.repl = a.repl

RefOf(t) == [id |-> t.id, rev |-> t.rev]

TransitionMatches(t, ref) == t.id = ref.id /\ t.rev = ref.rev

CandidateValid(s, action) ==
    HasAssignment(s, action.cand.node, action.cand.assign)

Pristine(s, o) == o \in Op /\ s.ops[o].life = "submitted"

PreemptableRequests(s) == {o \in Op : Pristine(s, o)}

Controlled(t) == t # None /\ t.mode = "controlled"

-----------------------------------------------------------------------------
(* What a transition must be by itself. *)

ValidTransition(t) ==
    /\ t.action # None =>
         /\ t.action.domain.term < t.target
         /\ t.action.auth # None => t.action.auth.rev <= t.rev
    /\ (/\ t.mode = "uncontrolled" /\ t.action # None
        /\ t.action.auth # None /\ ~t.action.oper
        /\ t.action.auth.loss = "unknown") => t.deadline # None
    /\ t.deadline # None => t.mode = "uncontrolled"
    /\ t.mode = "controlled" =>
         /\ t.op # None
         /\ t.action # None
         /\ ~t.action.oper
         /\ t.action.cand.node # t.action.domain.node
         /\ t.action.auth # None => t.action.auth.loss = "none"
    /\ t.mode = "uncontrolled" => t.op = None

(***************************************************************************)
(* The cross-store facts a snapshot restore insists on                     *)
(* (ValidateDecodedAggregate).  A snapshot that breaks one of them is      *)
(* fail-stop, so every command must preserve all of them.                  *)
(***************************************************************************)
TransitionConsistent(s) ==
    s.trans # None =>
      /\ ValidTransition(s.trans)
      /\ s.term # 0
      /\ IsMember(s, s.owner)
      /\ s.trans.mode = "controlled" =>
           /\ s.trans.target = s.term + 1
           /\ s.active
           /\ s.trans.action.domain.term = s.term
           /\ s.trans.action.domain.node = s.owner
           /\ HasAssignment(s, s.owner, s.trans.action.domain.assign)
           /\ Pristine(s, s.trans.op)
           /\ s.trans.rev > s.ops[s.trans.op].seq
      /\ s.trans.mode = "uncontrolled" =>
           /\ s.trans.target = s.term
           /\ ~s.active
      /\ s.trans.action # None => CandidateValid(s, s.trans.action)

GrantConsistent(s) ==
    s.active => s.term # 0 /\ IsMember(s, s.owner)

ConsistentStores(s) == TransitionConsistent(s) /\ GrantConsistent(s)

-----------------------------------------------------------------------------
(* Kernels shared by the commands. *)

\* BeginGroupTerm: the next term starts without a grant.
NextTerm(s) == [s EXCEPT !.term = s.term + 1, !.active = FALSE, !.bound = None]

\* The grant of the current term, and the topology epoch it is published at.
Activated(s, owner, action, epoch) ==
    [s EXCEPT !.owner = owner, !.active = TRUE, !.bound = action,
              !.epoch = epoch]

\* A term that has a grant cannot be given another one.
ActivationAllowed(s, owner, term, epoch) ==
    /\ ~s.active
    /\ term # 0
    /\ s.term = term
    /\ epoch = s.epoch + 1
    /\ IsMember(s, owner)

Ended(op, life, why) == [op EXCEPT !.life = life, !.why = why]

Finished(s, o, life, why) == [s EXCEPT !.ops[o] = Ended(s.ops[o], life, why)]

-----------------------------------------------------------------------------
(* SubmitOperation of a failover request.  A known id is a duplicate: it is *)
(* accepted and changes nothing, even while a transition is active.         *)

SubmitPresent(s, i, c) == s.ops[c.op].life # "absent"
SubmitPre(s, i, c) == s.trans = None
\* Mutant: the operation's sequence number is the next entry's.
SubmitPostLate(s, i, c) ==
    [s EXCEPT !.ops[c.op] = [life |-> "submitted", seq |-> i + 1, why |-> "none"]]

SubmitPost(s, i, c) ==
    [s EXCEPT !.ops[c.op] = [life |-> "submitted", seq |-> i, why |-> "none"]]

(* BeginGroupTerm and FenceGroup: c.term is the expected term. *)

FencePresent(s, i, c) == s.trans = None /\ s.term = c.term + 1 /\ ~s.active
FencePre(s, i, c) == s.trans = None /\ s.term = c.term
FencePost(s, i, c) == NextTerm(s)

(* ActivateAuthority: an ordinary grant, bound to no failover action. *)

ActivatePresent(s, i, c) ==
    /\ s.active /\ s.term = c.term /\ s.owner = c.owner /\ s.bound = None
    /\ s.epoch = c.epoch
ActivatePre(s, i, c) ==
    s.trans = None /\ ActivationAllowed(s, c.owner, c.term, c.epoch)
ActivatePost(s, i, c) == Activated(s, c.owner, None, c.epoch)

(* Membership and replication-anchor changes: blocked by a transition. *)

AssignPresent(s, i, c) ==
    /\ HasAssignment(s, c.node, c.assign)
    /\ s.revision = c.revision + 1 /\ s.epoch = c.epoch
AssignPre(s, i, c) ==
    /\ s.trans = None
    /\ s.revision = c.revision
    /\ ~IsMember(s, c.node)
    /\ s.member[c.node].assign # c.assign
    /\ c.epoch = s.epoch + 1
AssignPost(s, i, c) ==
    [s EXCEPT !.member[c.node] = [in |-> TRUE, assign |-> c.assign],
              !.revision = c.revision + 1, !.epoch = c.epoch]

OwnsGrant(s, n) == s.active /\ s.owner = n

RemovePresent(s, i, c) ==
    /\ ~OwnsGrant(s, c.node)
    /\ ~IsMember(s, c.node)
    /\ s.revision = c.revision + 1 /\ s.epoch = c.epoch
RemovePre(s, i, c) ==
    /\ ~OwnsGrant(s, c.node)
    /\ s.trans = None
    /\ s.revision = c.revision
    /\ IsMember(s, c.node)
    /\ c.epoch = s.epoch + 1
RemovePost(s, i, c) ==
    [s EXCEPT !.member[c.node].in = FALSE,
              !.revision = c.revision + 1, !.epoch = c.epoch]

\* SetGroupReplicationState, advancing the anchors by one.
ReplPresent(s, i, c) == s.repl = c.repl + 1 /\ s.epoch = c.epoch
ReplPre(s, i, c) ==
    s.trans = None /\ s.repl = c.repl /\ c.epoch = s.epoch + 1
ReplPost(s, i, c) == [s EXCEPT !.repl = c.repl + 1, !.epoch = c.epoch]

-----------------------------------------------------------------------------
(* Begin: install the transition.  A controlled one leaves the grant alone;  *)
(* an uncontrolled one fences the group in its next term first.              *)

BeginAnchors(s, a, action) ==
    /\ s.trans = None
    /\ AnchorHolds(s, a)
    /\ s.term = a.term
    /\ s.active
    /\ action # None => CandidateValid(s, action)

ControlledTransitionFrom(i, c) ==
    [id |-> c.id, rev |-> i, mode |-> "controlled", target |-> c.anchor.term + 1,
     action |-> c.action, op |-> c.op, deadline |-> None]

BeginControlledPresent(s, i, c) ==
    /\ s.trans = ControlledTransitionFrom(i, c)
    /\ AnchorHolds(s, c.anchor)
    /\ s.term = c.anchor.term
    /\ s.active
    /\ CandidateValid(s, c.action)
    /\ Pristine(s, c.op)
    /\ ConsistentStores(s)
\* Mutant: Begin does not look at the request it consumes.
BeginControlledPreRevived(s, i, c) ==
    /\ BeginAnchors(s, c.anchor, c.action)
    /\ c.action.domain.term = c.anchor.term
    /\ ValidTransition(ControlledTransitionFrom(i, c))

BeginControlledPre(s, i, c) ==
    /\ Pristine(s, c.op)
    /\ BeginAnchors(s, c.anchor, c.action)
    /\ c.action.domain.term = c.anchor.term
    /\ c.action.domain.node = c.anchor.owner
    /\ c.action.domain.assign = c.anchor.assign
    /\ ValidTransition(ControlledTransitionFrom(i, c))
BeginControlledPost(s, i, c) ==
    [s EXCEPT !.trans = ControlledTransitionFrom(i, c)]

UncontrolledTransitionFrom(i, c) ==
    [id |-> c.id, rev |-> i, mode |-> "uncontrolled",
     target |-> c.anchor.term + 1, action |-> c.action, op |-> None,
     deadline |-> None]

\* An automatic failover aborts every request that is still only submitted,
\* the one the proposer saw (c.hint) and any that was appended after it looked.
Preempted(s) ==
    [s EXCEPT !.ops = [o \in Op |->
        IF Pristine(s, o)
        THEN Ended(s.ops[o], "aborted", "preempted")
        ELSE s.ops[o]]]

PreemptionPresent(s, c) ==
    IF c.auto
    THEN /\ c.hint # None => /\ s.ops[c.hint].life = "aborted"
                             /\ s.ops[c.hint].why = "preempted"
         /\ PreemptableRequests(s) = {}
    ELSE c.hint = None

BeginUncontrolledPresent(s, i, c) ==
    /\ ~(c.auto /\ c.action # None)
    /\ s.trans = UncontrolledTransitionFrom(i, c)
    /\ AnchorHolds(s, c.anchor)
    /\ s.term = c.anchor.term + 1
    /\ ~s.active
    /\ c.action # None => CandidateValid(s, c.action)
    /\ PreemptionPresent(s, c)
    /\ ConsistentStores(s)
BeginUncontrolledPre(s, i, c) ==
    /\ ~(c.auto /\ c.action # None)
    /\ c.hint # None => c.auto /\ Pristine(s, c.hint)
    /\ BeginAnchors(s, c.anchor, c.action)
    /\ ValidTransition(UncontrolledTransitionFrom(i, c))
BeginUncontrolledPost(s, i, c) ==
    LET begun == [NextTerm(s) EXCEPT !.trans = UncontrolledTransitionFrom(i, c)]
    IN  IF c.auto THEN Preempted(begun) ELSE begun

-----------------------------------------------------------------------------
(* Steps of an installed transition: compare-and-set on its id and revision; *)
(* the log index becomes the new revision.                                   *)

Replaced(s, t) == [s EXCEPT !.trans = t]

\* Mutant: the post-effect is sought at the revision before the entry.
SetCandidatePresentAtRef(s, i, c) ==
    /\ i > c.ref.rev
    /\ s.trans # None
    /\ TransitionMatches(s.trans, c.ref)
    /\ s.trans.action = c.action

SetCandidatePresent(s, i, c) ==
    /\ i > c.ref.rev
    /\ s.trans # None
    /\ TransitionMatches(s.trans, [id |-> c.ref.id, rev |-> i])
    /\ s.trans.mode = "uncontrolled"
    /\ s.trans.action = c.action
    /\ s.trans.target = s.term
    /\ ~s.active
    /\ ConsistentStores(s)
SetCandidatePre(s, i, c) ==
    /\ i > c.ref.rev
    /\ s.trans # None
    /\ TransitionMatches(s.trans, c.ref)
    /\ s.trans.mode = "uncontrolled"
    /\ c.action = None => s.trans.action # None
    /\ c.action # None =>
         /\ s.trans.action # None => s.trans.action.id # c.action.id
         /\ CandidateValid(s, c.action)
    /\ ValidTransition([s.trans EXCEPT !.rev = i, !.action = c.action])
\* Mutant: a new candidate gets a new recovery cutoff.
SetCandidatePostReset(s, i, c) ==
    Replaced(s, [s.trans EXCEPT !.rev = i, !.action = c.action, !.deadline = None])

SetCandidatePost(s, i, c) ==
    Replaced(s, [s.trans EXCEPT !.rev = i, !.action = c.action])

RecoverableAction(s, c) ==
    /\ ~s.active
    /\ s.trans # None
    /\ s.trans.mode = "uncontrolled"
    /\ s.trans.action # None
    /\ s.trans.action.id = c.action
    /\ ~s.trans.action.oper
    /\ s.trans.action.auth = None

RecoverPresent(s, i, c) ==
    /\ i > c.ref.rev
    /\ RecoverableAction(s, c)
    /\ TransitionMatches(s.trans, [id |-> c.ref.id, rev |-> i])
    /\ s.trans.deadline = c.deadline
    /\ ConsistentStores(s)
RecoverPre(s, i, c) ==
    /\ i > c.ref.rev
    /\ RecoverableAction(s, c)
    /\ TransitionMatches(s.trans, c.ref)
    /\ s.trans.deadline = None
    /\ ValidTransition([s.trans EXCEPT !.rev = i, !.deadline = c.deadline])
RecoverPost(s, i, c) ==
    Replaced(s, [s.trans EXCEPT !.rev = i, !.deadline = c.deadline])

AuthorizePresent(s, i, c) ==
    /\ i > c.ref.rev
    /\ s.trans # None
    /\ TransitionMatches(s.trans, [id |-> c.ref.id, rev |-> i])
    /\ s.trans.action # None
    /\ s.trans.action.id = c.action
    /\ s.trans.action.auth = [rev |-> i, loss |-> c.loss]
    /\ ConsistentStores(s)
AuthorizedBy(t, i, c) ==
    [t EXCEPT !.rev = i, !.action = [@ EXCEPT !.auth = [rev |-> i, loss |-> c.loss]]]
AuthorizePre(s, i, c) ==
    /\ i > c.ref.rev
    /\ s.trans # None
    /\ TransitionMatches(s.trans, c.ref)
    /\ s.trans.action # None
    /\ s.trans.action.id = c.action
    /\ s.trans.action.auth = None
    /\ (s.trans.mode = "uncontrolled" /\ ~s.trans.action.oper)
          => s.trans.deadline # None
    /\ c.loss = IF s.trans.mode = "controlled" THEN "none" ELSE "unknown"
    /\ ValidTransition(AuthorizedBy(s.trans, i, c))
AuthorizePost(s, i, c) == Replaced(s, AuthorizedBy(s.trans, i, c))

(* Abort: before Begin only the request ends; after it, the transition too. *)

OwnTransition(s, o) == Controlled(s.trans) /\ s.trans.op = o

AbortPresent(s, i, c) ==
    /\ s.ops[c.op].life = "aborted"
    /\ s.ops[c.op].why = c.why
    /\ IF c.ref = None THEN ~OwnTransition(s, c.op) ELSE s.trans = None
    /\ ConsistentStores(s)
\* Mutant: an abort built before Begin also applies after it.
AbortPreStale(s, i, c) ==
    /\ Pristine(s, c.op)
    /\ c.ref # None => OwnTransition(s, c.op) /\ TransitionMatches(s.trans, c.ref)

AbortPre(s, i, c) ==
    /\ Pristine(s, c.op)
    /\ IF c.ref = None
       THEN ~OwnTransition(s, c.op)
       ELSE OwnTransition(s, c.op) /\ TransitionMatches(s.trans, c.ref)
AbortPost(s, i, c) ==
    LET ended == Finished(s, c.op, "aborted", c.why)
    IN  IF c.ref = None THEN ended ELSE Replaced(ended, None)

(* Degrade: the request is aborted and the failover goes on uncontrolled. *)

DegradedAction(c) == IF c.retain THEN c.action ELSE None

DegradePresent(s, i, c) ==
    /\ i > c.ref.rev
    /\ s.ops[c.op].life = "aborted"
    /\ s.ops[c.op].why = c.why
    /\ s.trans # None
    /\ TransitionMatches(s.trans, [id |-> c.ref.id, rev |-> i])
    /\ s.trans.mode = "uncontrolled"
    /\ s.trans.op = None
    /\ s.trans.action = DegradedAction(c)
    /\ s.term = s.trans.target
    /\ ~s.active
    /\ ConsistentStores(s)
DegradedTransition(t, i, c) ==
    [t EXCEPT !.rev = i, !.mode = "uncontrolled", !.op = None,
              !.action = DegradedAction(c)]
DegradePre(s, i, c) ==
    /\ i > c.ref.rev
    /\ Pristine(s, c.op)
    /\ OwnTransition(s, c.op)
    /\ TransitionMatches(s.trans, c.ref)
    /\ s.trans.action = c.action
    /\ s.trans.target = s.term + 1
    /\ s.active
    /\ ValidTransition(DegradedTransition(s.trans, i, c))
DegradePost(s, i, c) ==
    Replaced(Finished(NextTerm(s), c.op, "aborted", c.why),
             DegradedTransition(s.trans, i, c))

-----------------------------------------------------------------------------
(* Commit: the cutover.  A controlled one ends the old term and completes   *)
(* the request in the same entry; c.op is None for an uncontrolled one.     *)

TargetTerm(c) == IF c.op # None THEN c.anchor.term + 1 ELSE c.anchor.term

CommitPresent(s, i, c) ==
    /\ s.trans = None
    /\ s.owner = c.cand.node
    /\ HasAssignment(s, c.cand.node, c.cand.assign)
    /\ HasAssignment(s, c.anchor.owner, c.anchor.assign)
    /\ s.revision = c.anchor.revision
    /\ s.term = TargetTerm(c)
    /\ s.repl = c.anchor.repl
    /\ s.epoch = c.epoch
    /\ s.active
    /\ s.bound = c.action
    /\ c.op # None => s.ops[c.op].life = "completed"
    /\ ConsistentStores(s)

CommitPre(s, i, c) ==
    /\ s.trans # None
    /\ TransitionMatches(s.trans, c.ref)
    /\ s.trans.mode = IF c.op # None THEN "controlled" ELSE "uncontrolled"
    /\ s.trans.action # None
    /\ s.trans.action.id = c.action
    /\ s.trans.action.cand = c.cand
    /\ s.trans.action.auth # None
    /\ s.trans.action.auth.rev = c.auth
    /\ s.trans.action.auth.loss = IF c.op # None THEN "none" ELSE c.loss
    /\ AnchorHolds(s, c.anchor)
    /\ HasAssignment(s, c.cand.node, c.cand.assign)
    /\ s.term = c.anchor.term
    /\ s.trans.target = TargetTerm(c)
    /\ IF c.op # None
       THEN s.trans.op = c.op /\ s.active /\ Pristine(s, c.op)
       ELSE ~s.active
    /\ LET fenced == IF c.op # None THEN NextTerm(s) ELSE s
       IN  ActivationAllowed(fenced, c.cand.node, TargetTerm(c), c.epoch)

\* Mutant: a controlled cutover stays in the term of the old owner.
CommitPostSameTerm(s, i, c) ==
    LET cut == Replaced(Activated(s, c.cand.node, c.action, c.epoch), None)
    IN  IF c.op # None THEN Finished(cut, c.op, "completed", "none") ELSE cut

\* Mutant: the cutover leaves the request open.
CommitPostOpen(s, i, c) ==
    LET fenced == IF c.op # None THEN NextTerm(s) ELSE s
    IN  Replaced(Activated(fenced, c.cand.node, c.action, c.epoch), None)

CommitPost(s, i, c) ==
    LET fenced == IF c.op # None THEN NextTerm(s) ELSE s
        cut    == Replaced(Activated(fenced, c.cand.node, c.action, c.epoch),
                           None)
    IN  IF c.op # None THEN Finished(cut, c.op, "completed", "none") ELSE cut

-----------------------------------------------------------------------------
(* ApplyCommitted: dispatch on the command's type. *)

Present(s, i, c) ==
    CASE c.t = "submit"       -> SubmitPresent(s, i, c)
      [] c.t = "fence"        -> FencePresent(s, i, c)
      [] c.t = "activate"     -> ActivatePresent(s, i, c)
      [] c.t = "assign"       -> AssignPresent(s, i, c)
      [] c.t = "remove"       -> RemovePresent(s, i, c)
      [] c.t = "repl"         -> ReplPresent(s, i, c)
      [] c.t = "controlled"   -> BeginControlledPresent(s, i, c)
      [] c.t = "uncontrolled" -> BeginUncontrolledPresent(s, i, c)
      [] c.t = "candidate"    -> SetCandidatePresent(s, i, c)
      [] c.t = "recover"      -> RecoverPresent(s, i, c)
      [] c.t = "authorize"    -> AuthorizePresent(s, i, c)
      [] c.t = "abort"        -> AbortPresent(s, i, c)
      [] c.t = "degrade"      -> DegradePresent(s, i, c)
      [] c.t = "commit"       -> CommitPresent(s, i, c)

Pre(s, i, c) ==
    CASE c.t = "submit"       -> SubmitPre(s, i, c)
      [] c.t = "fence"        -> FencePre(s, i, c)
      [] c.t = "activate"     -> ActivatePre(s, i, c)
      [] c.t = "assign"       -> AssignPre(s, i, c)
      [] c.t = "remove"       -> RemovePre(s, i, c)
      [] c.t = "repl"         -> ReplPre(s, i, c)
      [] c.t = "controlled"   -> BeginControlledPre(s, i, c)
      [] c.t = "uncontrolled" -> BeginUncontrolledPre(s, i, c)
      [] c.t = "candidate"    -> SetCandidatePre(s, i, c)
      [] c.t = "recover"      -> RecoverPre(s, i, c)
      [] c.t = "authorize"    -> AuthorizePre(s, i, c)
      [] c.t = "abort"        -> AbortPre(s, i, c)
      [] c.t = "degrade"      -> DegradePre(s, i, c)
      [] c.t = "commit"       -> CommitPre(s, i, c)

Post(s, i, c) ==
    CASE c.t = "submit"       -> SubmitPost(s, i, c)
      [] c.t = "fence"        -> FencePost(s, i, c)
      [] c.t = "activate"     -> ActivatePost(s, i, c)
      [] c.t = "assign"       -> AssignPost(s, i, c)
      [] c.t = "remove"       -> RemovePost(s, i, c)
      [] c.t = "repl"         -> ReplPost(s, i, c)
      [] c.t = "controlled"   -> BeginControlledPost(s, i, c)
      [] c.t = "uncontrolled" -> BeginUncontrolledPost(s, i, c)
      [] c.t = "candidate"    -> SetCandidatePost(s, i, c)
      [] c.t = "recover"      -> RecoverPost(s, i, c)
      [] c.t = "authorize"    -> AuthorizePost(s, i, c)
      [] c.t = "abort"        -> AbortPost(s, i, c)
      [] c.t = "degrade"      -> DegradePost(s, i, c)
      [] c.t = "commit"       -> CommitPost(s, i, c)

Accepted(s, i, c) == Present(s, i, c) \/ Pre(s, i, c)

\* A rejected entry consumes its index and changes nothing.
Apply(s, i, c) ==
    IF ~Present(s, i, c) /\ Pre(s, i, c) THEN Post(s, i, c) ELSE s

=============================================================================
