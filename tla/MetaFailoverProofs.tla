---- MODULE MetaFailoverProofs ----
(***************************************************************************)
(* Proofs about MetaFailover, for any number of nodes, requests, entries   *)
(* and commands in flight: every committed entry keeps the stores well     *)
(* formed and consistent (TypeOK, AggregateValid), and a term is granted   *)
(* at most once (GrantOnce).                                               *)
(*                                                                         *)
(* The argument is one lemma per command: from stores that are consistent  *)
(* up to entry i, the command's post-state at entry i + 1 is again, and    *)
(* the authority it leaves is the old one, or of the next term, or the     *)
(* first grant of a term that had none (AuthorityStep).  The grants        *)
(* recorded so far never exceed the current term, and stay below it while  *)
(* it has no grant, so a new one is the only one of its term.              *)
(***************************************************************************)
EXTENDS MetaFailover, TLAPS

\* The stores after entry i.
Settled(s, i) ==
    /\ s \in Stores
    /\ ConsistentStores(s)
    /\ \A o \in Op : s.ops[o].seq <= i
    /\ s.trans # None => s.trans.rev <= i

\* What an entry may do to the authority of the group.
AuthorityStep(s, r) ==
    \/ Authority(r) = Authority(s)
    \/ r.term = s.term + 1
    \/ ~s.active /\ r.term = s.term

-----------------------------------------------------------------------------
(* The updates the post-states are made of. *)

LEMMA TermUpdate ==
    ASSUME NEW s \in Stores, NEW t \in Nat, NEW a \in BOOLEAN,
           NEW b \in Optional(Nat)
    PROVE  [s EXCEPT !.term = t, !.active = a, !.bound = b] \in Stores
BY ZenonT(60) DEF Stores

LEMMA NextTermFacts ==
    ASSUME NEW s \in Stores
    PROVE  /\ NextTerm(s) \in Stores
           /\ NextTerm(s).term = s.term + 1
           /\ ~NextTerm(s).active
           /\ NextTerm(s).owner = s.owner
           /\ NextTerm(s).member = s.member
           /\ NextTerm(s).trans = s.trans
           /\ NextTerm(s).ops = s.ops
           /\ NextTerm(s).epoch = s.epoch
<1>1. s.term + 1 \in Nat /\ None \in Optional(Nat) /\ FALSE \in BOOLEAN
  BY DEF Stores, Optional
<1>2. NextTerm(s) \in Stores
  BY <1>1, TermUpdate, Zenon DEF NextTerm
<1>. QED
  BY <1>2 DEF NextTerm, Stores

LEMMA GrantUpdate ==
    ASSUME NEW s \in Stores, NEW n \in Node, NEW e \in Nat, NEW a \in BOOLEAN,
           NEW b \in Optional(Nat)
    PROVE  [s EXCEPT !.owner = n, !.active = a, !.bound = b, !.epoch = e] \in Stores
BY ZenonT(60) DEF Stores

LEMMA ActivatedFacts ==
    ASSUME NEW s \in Stores, NEW n \in Node, NEW b \in Optional(Nat), NEW e \in Nat
    PROVE  /\ Activated(s, n, b, e) \in Stores
           /\ Activated(s, n, b, e).term = s.term
           /\ Activated(s, n, b, e).active
           /\ Activated(s, n, b, e).owner = n
           /\ Activated(s, n, b, e).bound = b
           /\ Activated(s, n, b, e).member = s.member
           /\ Activated(s, n, b, e).trans = s.trans
           /\ Activated(s, n, b, e).ops = s.ops
<1>1. Activated(s, n, b, e) \in Stores
  BY GrantUpdate, Zenon DEF Activated
<1>. QED
  BY <1>1 DEF Activated, Stores

LEMMA ReplacedFacts ==
    ASSUME NEW s \in Stores, NEW t \in Optional(Transitions)
    PROVE  /\ Replaced(s, t) \in Stores
           /\ Replaced(s, t).trans = t
           /\ Replaced(s, t).term = s.term
           /\ Replaced(s, t).owner = s.owner
           /\ Replaced(s, t).active = s.active
           /\ Replaced(s, t).bound = s.bound
           /\ Replaced(s, t).member = s.member
           /\ Replaced(s, t).ops = s.ops
BY DEF Replaced, Stores

LEMMA EndedFacts ==
    ASSUME NEW op \in Operations,
           NEW l \in Lives, NEW w \in Reasons
    PROVE  /\ Ended(op, l, w) \in Operations
           /\ Ended(op, l, w).seq = op.seq
           /\ Ended(op, l, w).life = l
BY ZenonT(60) DEF Ended, Operations

LEMMA FinishedFacts ==
    ASSUME NEW s \in Stores, NEW o \in Op,
           NEW l \in Lives, NEW w \in Reasons
    PROVE  /\ Finished(s, o, l, w) \in Stores
           /\ Finished(s, o, l, w).term = s.term
           /\ Finished(s, o, l, w).owner = s.owner
           /\ Finished(s, o, l, w).active = s.active
           /\ Finished(s, o, l, w).bound = s.bound
           /\ Finished(s, o, l, w).member = s.member
           /\ Finished(s, o, l, w).trans = s.trans
           /\ \A p \in Op : /\ Finished(s, o, l, w).ops[p].seq = s.ops[p].seq
                            /\ p # o => Finished(s, o, l, w).ops[p] = s.ops[p]
<1>1. s.ops \in [Op -> Operations]
  BY DEF Stores
<1>2. /\ Ended(s.ops[o], l, w) \in Operations
      /\ Ended(s.ops[o], l, w).seq = s.ops[o].seq
  BY <1>1, EndedFacts
<1>. QED
  BY <1>1, <1>2 DEF Finished, Stores

LEMMA OperationUpdate ==
    ASSUME NEW s \in Stores, NEW f \in [Op -> Operations]
    PROVE  /\ [s EXCEPT !.ops = f] \in Stores
           /\ [s EXCEPT !.ops = f].term = s.term
           /\ [s EXCEPT !.ops = f].owner = s.owner
           /\ [s EXCEPT !.ops = f].active = s.active
           /\ [s EXCEPT !.ops = f].bound = s.bound
           /\ [s EXCEPT !.ops = f].member = s.member
           /\ [s EXCEPT !.ops = f].trans = s.trans
           /\ [s EXCEPT !.ops = f].ops = f
BY DEF Stores

LEMMA PreemptedFacts ==
    ASSUME NEW s \in Stores
    PROVE  /\ Preempted(s) \in Stores
           /\ Preempted(s).term = s.term
           /\ Preempted(s).owner = s.owner
           /\ Preempted(s).active = s.active
           /\ Preempted(s).bound = s.bound
           /\ Preempted(s).member = s.member
           /\ Preempted(s).trans = s.trans
           /\ \A p \in Op : Preempted(s).ops[p].seq = s.ops[p].seq
<1>. DEFINE f == [o \in Op |-> IF Pristine(s, o)
                               THEN Ended(s.ops[o], "aborted", "preempted")
                               ELSE s.ops[o]]
<1>1. s.ops \in [Op -> Operations]
  BY DEF Stores
<1>2. f \in [Op -> Operations] /\ \A p \in Op : f[p].seq = s.ops[p].seq
  BY <1>1, EndedFacts DEF Lives, Reasons
<1>3. Preempted(s) = [s EXCEPT !.ops = f]
  BY DEF Preempted
<1>. HIDE DEF f
<1>. QED
  BY <1>2, <1>3, OperationUpdate

LEMMA RequestUpdate ==
    ASSUME NEW s \in Stores, NEW o \in Op, NEW v \in Operations
    PROVE  /\ [s EXCEPT !.ops[o] = v] \in Stores
           /\ [s EXCEPT !.ops[o] = v].term = s.term
           /\ [s EXCEPT !.ops[o] = v].owner = s.owner
           /\ [s EXCEPT !.ops[o] = v].active = s.active
           /\ [s EXCEPT !.ops[o] = v].bound = s.bound
           /\ [s EXCEPT !.ops[o] = v].member = s.member
           /\ [s EXCEPT !.ops[o] = v].trans = s.trans
           /\ [s EXCEPT !.ops[o] = v].ops = [s.ops EXCEPT ![o] = v]
BY DEF Stores

LEMMA MemberUpdate ==
    ASSUME NEW s \in Stores, NEW n \in Node, NEW v \in [in : BOOLEAN, assign : Nat],
           NEW x \in Nat, NEW e \in Nat
    PROVE  [s EXCEPT !.member[n] = v, !.revision = x, !.epoch = e] \in Stores
BY ZenonT(60) DEF Stores

LEMMA LeaveUpdate ==
    ASSUME NEW s \in Stores, NEW n \in Node, NEW b \in BOOLEAN,
           NEW x \in Nat, NEW e \in Nat
    PROVE  [s EXCEPT !.member[n].in = b, !.revision = x, !.epoch = e] \in Stores
BY ZenonT(60) DEF Stores

LEMMA ReplUpdate ==
    ASSUME NEW s \in Stores, NEW x \in Nat, NEW e \in Nat
    PROVE  [s EXCEPT !.repl = x, !.epoch = e] \in Stores
BY ZenonT(60) DEF Stores

-----------------------------------------------------------------------------
(* One lemma per command. *)

LEMMA LaterSeq ==
    ASSUME NEW i \in Nat, NEW s, Settled(s, i)
    PROVE  /\ s \in Stores /\ s.ops \in [Op -> Operations]
           /\ \A o \in Op : s.ops[o].seq <= i + 1
BY DEF Settled, Stores, Operations

LEMMA SettledIdle ==
    ASSUME NEW i \in Nat, NEW s \in Stores, s.trans = None,
           \A o \in Op : s.ops[o].seq <= i,
           s.active => s.term # 0 /\ s.member[s.owner].in
    PROVE  Settled(s, i)
<1>1. s.owner \in Node
  BY DEF Stores
<1>. QED
  BY <1>1 DEF Settled, ConsistentStores, TransitionConsistent, GrantConsistent, IsMember

LEMMA SubmitKeeps ==
    ASSUME NEW i \in Nat, NEW s, NEW c, Settled(s, i), c.op \in Op,
           SubmitPre(s, i + 1, c)
    PROVE  /\ Settled(SubmitPost(s, i + 1, c), i + 1)
           /\ AuthorityStep(s, SubmitPost(s, i + 1, c))
<1>. DEFINE r == SubmitPost(s, i + 1, c)
<1>1. r \in Stores /\ r.trans = s.trans /\ r.term = s.term /\ r.active = s.active
      /\ r.owner = s.owner /\ r.bound = s.bound
      /\ r.member = s.member /\ \A o \in Op : r.ops[o].seq <= i + 1
  <2>. DEFINE v == [life |-> "submitted", seq |-> i + 1, why |-> "none"]
  <2>1. v \in Operations /\ v.seq = i + 1
    BY DEF Operations, Lives, Reasons
  <2>. HIDE DEF v
  <2>2. r = [s EXCEPT !.ops[c.op] = v]
    BY DEF SubmitPost, v
  <2>. HIDE DEF r
  <2>3. /\ r \in Stores /\ r.trans = s.trans /\ r.term = s.term /\ r.active = s.active
        /\ r.owner = s.owner /\ r.bound = s.bound /\ r.member = s.member
        /\ r.ops = [s.ops EXCEPT ![c.op] = v]
    <3>1. s \in Stores
      BY LaterSeq
    <3>. QED
      BY <2>1, <2>2, <3>1, RequestUpdate
  <2>. QED
    BY <2>1, <2>3, LaterSeq DEF Operations
<1>2. s.trans = None /\ (s.active => s.term # 0 /\ s.member[s.owner].in)
  BY DEF SubmitPre, Settled, ConsistentStores, GrantConsistent, IsMember
<1>. HIDE DEF r
<1>3. Settled(r, i + 1)
  BY <1>1, <1>2, SettledIdle
<1>. QED
  BY <1>1, <1>3 DEF r, AuthorityStep, Authority

LEMMA FenceKeeps ==
    ASSUME NEW i \in Nat, NEW s, NEW c, Settled(s, i), FencePre(s, i + 1, c)
    PROVE  /\ Settled(FencePost(s, i + 1, c), i + 1)
           /\ AuthorityStep(s, FencePost(s, i + 1, c))
<1>. DEFINE r == NextTerm(s)
<1>1. r \in Stores /\ r.trans = s.trans /\ r.term = s.term + 1 /\ ~r.active
      /\ \A o \in Op : r.ops[o].seq <= i + 1
  BY LaterSeq, NextTermFacts
<1>2. s.trans = None
  BY DEF FencePre
<1>. HIDE DEF r
<1>3. Settled(r, i + 1)
  BY <1>1, <1>2, SettledIdle
<1>. QED
  BY <1>1, <1>3 DEF r, FencePost, AuthorityStep

LEMMA ActivateKeeps ==
    ASSUME NEW i \in Nat, NEW s, NEW c, Settled(s, i), ActivatePre(s, i + 1, c)
    PROVE  /\ Settled(ActivatePost(s, i + 1, c), i + 1)
           /\ AuthorityStep(s, ActivatePost(s, i + 1, c))
<1>. DEFINE r == Activated(s, c.owner, None, c.epoch)
<1>1. /\ s.trans = None /\ ~s.active /\ s.term # 0
      /\ c.owner \in Node /\ s.member[c.owner].in
      /\ c.epoch \in Nat /\ None \in Optional(Nat)
  BY LaterSeq DEF ActivatePre, ActivationAllowed, IsMember, Stores, Optional
<1>2. /\ r \in Stores /\ r.trans = s.trans /\ r.term = s.term /\ r.owner = c.owner
      /\ r.member = s.member /\ \A o \in Op : r.ops[o].seq <= i + 1
  BY <1>1, LaterSeq, ActivatedFacts
<1>. HIDE DEF r
<1>3. Settled(r, i + 1)
  BY <1>1, <1>2, SettledIdle
<1>. QED
  BY <1>1, <1>2, <1>3 DEF r, ActivatePost, AuthorityStep

LEMMA AssignKeeps ==
    ASSUME NEW i \in Nat, NEW s, NEW c, Settled(s, i), c.node \in Node,
           c.assign \in Nat, AssignPre(s, i + 1, c)
    PROVE  /\ Settled(AssignPost(s, i + 1, c), i + 1)
           /\ AuthorityStep(s, AssignPost(s, i + 1, c))
<1>. DEFINE r == AssignPost(s, i + 1, c)
<1>1. /\ s.trans = None /\ c.revision + 1 \in Nat /\ c.epoch \in Nat
      /\ s.active => s.term # 0 /\ s.member[s.owner].in
  BY LaterSeq DEF AssignPre, Stores, Settled, ConsistentStores, GrantConsistent, IsMember
<1>2. /\ r \in Stores /\ r.trans = s.trans /\ r.term = s.term /\ r.active = s.active
      /\ r.owner = s.owner /\ r.bound = s.bound /\ r.ops = s.ops
      /\ r.member = [s.member EXCEPT ![c.node] = [in |-> TRUE, assign |-> c.assign]]
  <2>1. [in |-> TRUE, assign |-> c.assign] \in [in : BOOLEAN, assign : Nat]
    OBVIOUS
  <2>2. r \in Stores
    BY <1>1, <2>1, LaterSeq, MemberUpdate, ZenonT(30) DEF AssignPost
  <2>. QED
    BY <1>1, <2>2, LaterSeq DEF AssignPost, Stores
<1>3. s.member[s.owner].in => r.member[s.owner].in
  BY <1>2, LaterSeq DEF Stores
<1>. HIDE DEF r
<1>4. Settled(r, i + 1)
  <2>1. \A o \in Op : r.ops[o].seq <= i + 1
    BY <1>2, LaterSeq
  <2>2. r.active => r.term # 0 /\ r.member[r.owner].in
    BY <1>1, <1>2, <1>3
  <2>3. r \in Stores /\ r.trans = None /\ i + 1 \in Nat
    BY <1>1, <1>2
  <2>. QED
    BY <2>1, <2>2, <2>3, SettledIdle
<1>. QED
  BY <1>2, <1>4 DEF r, AuthorityStep, Authority

LEMMA RemoveKeeps ==
    ASSUME NEW i \in Nat, NEW s, NEW c, Settled(s, i), RemovePre(s, i + 1, c)
    PROVE  /\ Settled(RemovePost(s, i + 1, c), i + 1)
           /\ AuthorityStep(s, RemovePost(s, i + 1, c))
<1>. DEFINE r == RemovePost(s, i + 1, c)
<1>1. /\ s.trans = None /\ c.revision + 1 \in Nat /\ c.epoch \in Nat /\ c.node \in Node
      /\ s.active => s.term # 0 /\ s.member[s.owner].in /\ s.owner # c.node
  BY LaterSeq DEF RemovePre, OwnsGrant, Stores, Settled, ConsistentStores,
     GrantConsistent, IsMember
<1>2. /\ r \in Stores /\ r.trans = s.trans /\ r.term = s.term /\ r.active = s.active
      /\ r.owner = s.owner /\ r.bound = s.bound /\ r.ops = s.ops
      /\ r.member = [s.member EXCEPT ![c.node].in = FALSE]
  <2>1. r \in Stores
    BY <1>1, LaterSeq, LeaveUpdate, ZenonT(30) DEF RemovePost
  <2>. QED
    BY <1>1, <2>1, LaterSeq DEF RemovePost, Stores
<1>3. s.owner # c.node => r.member[s.owner] = s.member[s.owner]
  BY <1>2, LaterSeq DEF Stores
<1>. HIDE DEF r
<1>4. Settled(r, i + 1)
  <2>1. \A o \in Op : r.ops[o].seq <= i + 1
    BY <1>2, LaterSeq
  <2>2. r.active => r.term # 0 /\ r.member[r.owner].in
    BY <1>1, <1>2, <1>3
  <2>3. r \in Stores /\ r.trans = None /\ i + 1 \in Nat
    BY <1>1, <1>2
  <2>. QED
    BY <2>1, <2>2, <2>3, SettledIdle
<1>. QED
  BY <1>2, <1>4 DEF r, AuthorityStep, Authority

LEMMA ReplKeeps ==
    ASSUME NEW i \in Nat, NEW s, NEW c, Settled(s, i), ReplPre(s, i + 1, c)
    PROVE  /\ Settled(ReplPost(s, i + 1, c), i + 1)
           /\ AuthorityStep(s, ReplPost(s, i + 1, c))
<1>. DEFINE r == ReplPost(s, i + 1, c)
<1>1. /\ s.trans = None /\ c.repl + 1 \in Nat /\ c.epoch \in Nat
      /\ s.active => s.term # 0 /\ s.member[s.owner].in
  BY LaterSeq DEF ReplPre, Stores, Settled, ConsistentStores, GrantConsistent, IsMember
<1>2. /\ r \in Stores /\ r.trans = s.trans /\ r.term = s.term /\ r.active = s.active
      /\ r.owner = s.owner /\ r.bound = s.bound /\ r.ops = s.ops /\ r.member = s.member
  <2>1. r \in Stores
    BY <1>1, LaterSeq, ReplUpdate, ZenonT(30) DEF ReplPost
  <2>. QED
    BY <1>1, <2>1, LaterSeq DEF ReplPost, Stores
<1>. HIDE DEF r
<1>3. Settled(r, i + 1)
  BY <1>1, <1>2, LaterSeq, SettledIdle
<1>. QED
  BY <1>2, <1>3 DEF r, AuthorityStep, Authority

-----------------------------------------------------------------------------
(* The commands that install, change or end a transition. *)

LEMMA SettledActive ==
    ASSUME NEW i \in Nat, NEW s \in Stores,
           \A o \in Op : s.ops[o].seq <= i,
           s.trans.rev <= i, TransitionConsistent(s), GrantConsistent(s)
    PROVE  Settled(s, i)
BY DEF Settled, ConsistentStores

\* What Settled says of the group around an installed transition.
LEMMA InstalledFacts ==
    ASSUME NEW i \in Nat, NEW s, Settled(s, i), s.trans # None
    PROVE  /\ s.trans \in Transitions
           /\ s.term # 0 /\ s.owner \in Node /\ s.member[s.owner].in
           /\ TransitionConsistent(s) /\ GrantConsistent(s)
BY DEF Settled, ConsistentStores, TransitionConsistent, IsMember, Stores, Optional

LEMMA BeginControlledKeeps ==
    ASSUME NEW i \in Nat, NEW s, NEW c, Settled(s, i), c.id \in Nat,
           c.action \in Actions, BeginControlledPre(s, i + 1, c)
    PROVE  /\ Settled(BeginControlledPost(s, i + 1, c), i + 1)
           /\ AuthorityStep(s, BeginControlledPost(s, i + 1, c))
<1>. DEFINE T == ControlledTransitionFrom(i + 1, c)
            r == Replaced(s, T)
<1>1. /\ s.active /\ s.term = c.anchor.term /\ s.term \in Nat /\ s.term # 0
      /\ s.owner = c.anchor.owner /\ IsMember(s, s.owner)
      /\ HasAssignment(s, s.owner, c.anchor.assign)
      /\ CandidateValid(s, c.action) \/ c.action = None
      /\ c.op \in Op /\ Pristine(s, c.op) /\ ValidTransition(T)
      /\ c.action.domain.term = c.anchor.term
      /\ c.action.domain.node = c.anchor.owner
      /\ c.action.domain.assign = c.anchor.assign
  BY LaterSeq DEF BeginControlledPre, BeginAnchors, AnchorHolds, Pristine, Stores,
     HasAssignment, Settled, ConsistentStores, GrantConsistent
<1>2. /\ T \in Transitions
      /\ T.rev = i + 1 /\ T.mode = "controlled" /\ T.target = s.term + 1
      /\ T.action = c.action /\ T.op = c.op
  BY <1>1 DEF ControlledTransitionFrom, Transitions, Optional
<1>. HIDE DEF T
<1>3. T \in Optional(Transitions) /\ s \in Stores
  BY <1>2, LaterSeq DEF Optional
<1>4. /\ r \in Stores /\ r.trans = T /\ r.term = s.term /\ r.owner = s.owner
      /\ r.active = s.active /\ r.bound = s.bound /\ r.member = s.member
      /\ r.ops = s.ops
  BY <1>3, ReplacedFacts, ZenonT(30)
<1>5. BeginControlledPost(s, i + 1, c) = r
  BY DEF BeginControlledPost, Replaced, T
<1>. HIDE DEF r
<1>6. i + 1 > s.ops[c.op].seq
  BY <1>1, SMTT(60) DEF Settled, Stores, Operations
<1>7. TransitionConsistent(r)
  BY <1>1, <1>2, <1>4, <1>6, ZenonT(60)
     DEF TransitionConsistent, IsMember, HasAssignment, Pristine, CandidateValid
<1>8. GrantConsistent(r)
  BY <1>1, <1>4 DEF GrantConsistent, IsMember
<1>9. Settled(r, i + 1)
  <2>1. \A o \in Op : r.ops[o].seq <= i + 1
    BY <1>4, LaterSeq
  <2>2. i + 1 \in Nat /\ r.trans.rev <= i + 1
    BY <1>2, <1>4
  <2>. QED
    BY <1>4, <1>7, <1>8, <2>1, <2>2, SettledActive
<1>. QED
  BY <1>4, <1>5, <1>9 DEF AuthorityStep, Authority

LEMMA BeginUncontrolledKeeps ==
    ASSUME NEW i \in Nat, NEW s, NEW c, Settled(s, i), c.id \in Nat,
           c.action \in Optional(Actions), BeginUncontrolledPre(s, i + 1, c)
    PROVE  /\ Settled(BeginUncontrolledPost(s, i + 1, c), i + 1)
           /\ AuthorityStep(s, BeginUncontrolledPost(s, i + 1, c))
<1>. DEFINE T == UncontrolledTransitionFrom(i + 1, c)
            n == NextTerm(s)
            b == Replaced(n, T)
            r == IF c.auto THEN Preempted(b) ELSE b
<1>1. /\ s.active /\ s.term = c.anchor.term /\ s.term \in Nat
      /\ IsMember(s, s.owner) /\ ValidTransition(T)
      /\ c.action # None => CandidateValid(s, c.action)
  BY LaterSeq DEF BeginUncontrolledPre, BeginAnchors, AnchorHolds, Stores, HasAssignment
<1>2. /\ T \in Transitions
      /\ T.rev = i + 1 /\ T.mode = "uncontrolled" /\ T.target = s.term + 1
      /\ T.action = c.action
  BY <1>1 DEF UncontrolledTransitionFrom, Transitions, Optional
<1>. HIDE DEF T
<1>3. /\ n \in Stores /\ n.term = s.term + 1 /\ ~n.active
      /\ n.owner = s.owner /\ n.member = s.member /\ n.ops = s.ops
  BY LaterSeq, NextTermFacts
<1>. HIDE DEF n
<1>4. /\ b \in Stores /\ b.trans = T /\ b.term = n.term /\ b.owner = n.owner
      /\ b.active = n.active /\ b.member = n.member /\ b.ops = n.ops
  <2>1. T \in Optional(Transitions)
    BY <1>2 DEF Optional
  <2>. QED
    BY <1>3, <2>1, ReplacedFacts, ZenonT(30)
<1>5. BeginUncontrolledPost(s, i + 1, c) = r
  BY DEF BeginUncontrolledPost, Replaced, T, n
<1>. HIDE DEF b
<1>6. /\ r \in Stores /\ r.trans = T /\ r.term = s.term + 1 /\ r.owner = s.owner
      /\ ~r.active /\ r.member = s.member
      /\ \A o \in Op : r.ops[o].seq = s.ops[o].seq
  <2>1. Preempted(b) \in Stores /\ Preempted(b).trans = b.trans
        /\ Preempted(b).term = b.term /\ Preempted(b).owner = b.owner
        /\ Preempted(b).active = b.active /\ Preempted(b).member = b.member
        /\ \A o \in Op : Preempted(b).ops[o].seq = b.ops[o].seq
    BY <1>4, PreemptedFacts, ZenonT(30)
  <2>. QED
    BY <1>3, <1>4, <2>1
<1>. HIDE DEF r
<1>7. TransitionConsistent(r)
  BY <1>1, <1>2, <1>6, SMTT(60)
     DEF TransitionConsistent, IsMember, HasAssignment, CandidateValid
<1>8. GrantConsistent(r)
  BY <1>6 DEF GrantConsistent
<1>9. Settled(r, i + 1)
  <2>1. \A o \in Op : r.ops[o].seq <= i + 1
    BY <1>6, LaterSeq
  <2>2. i + 1 \in Nat /\ r.trans.rev <= i + 1
    BY <1>2, <1>6
  <2>. QED
    BY <1>6, <1>7, <1>8, <2>1, <2>2, SettledActive
<1>. QED
  BY <1>5, <1>6, <1>9 DEF AuthorityStep

LEMMA ReplacedKeeps ==
    ASSUME NEW i \in Nat, NEW s, Settled(s, i), s.trans # None,
           NEW T \in Transitions, T.rev = i + 1, ValidTransition(T),
           T.mode = s.trans.mode, T.target = s.trans.target, T.op = s.trans.op,
           T.mode = "controlled" => T.action.domain = s.trans.action.domain,
           T.action # None => CandidateValid(s, T.action)
    PROVE  /\ Settled(Replaced(s, T), i + 1)
           /\ AuthorityStep(s, Replaced(s, T))
<1>. DEFINE r == Replaced(s, T)
<1>1. T \in Optional(Transitions) /\ s \in Stores
  BY LaterSeq, ZenonT(60) DEF Optional
<1>2. /\ r \in Stores /\ r.trans = T /\ r.term = s.term /\ r.owner = s.owner
      /\ r.active = s.active /\ r.bound = s.bound /\ r.member = s.member
      /\ r.ops = s.ops
  BY <1>1, ReplacedFacts, ZenonT(30)
<1>. HIDE DEF r
<1>3. TransitionConsistent(s) /\ GrantConsistent(s)
  BY InstalledFacts
<1>4. \A o \in Op : s.ops[o].seq \in Nat /\ i + 1 > s.ops[o].seq
  BY DEF Settled, Stores, Operations
<1>5. TransitionConsistent(r)
  BY <1>2, <1>3, <1>4, ZenonT(60)
     DEF TransitionConsistent, IsMember, HasAssignment, Pristine, CandidateValid
<1>6. GrantConsistent(r)
  BY <1>2, <1>3 DEF GrantConsistent, IsMember
<1>7. Settled(r, i + 1)
  <2>1. \A o \in Op : r.ops[o].seq <= i + 1
    BY <1>2, LaterSeq
  <2>2. i + 1 \in Nat /\ r.trans.rev <= i + 1
    BY <1>2
  <2>. QED
    BY <1>2, <1>5, <1>6, <2>1, <2>2, SettledActive
<1>. QED
  BY <1>2, <1>7 DEF r, AuthorityStep, Authority

LEMMA CandidateUpdate ==
    ASSUME NEW t \in Transitions, NEW v \in Nat, NEW a \in Optional(Actions),
           NEW T, T = [t EXCEPT !.rev = v, !.action = a]
    PROVE  T \in Transitions
BY ZenonT(60) DEF Transitions

LEMMA SetCandidateKeeps ==
    ASSUME NEW i \in Nat, NEW s, NEW c, Settled(s, i),
           c.action \in Optional(Actions), SetCandidatePre(s, i + 1, c)
    PROVE  /\ Settled(SetCandidatePost(s, i + 1, c), i + 1)
           /\ AuthorityStep(s, SetCandidatePost(s, i + 1, c))
<1>. DEFINE T == [s.trans EXCEPT !.rev = i + 1, !.action = c.action]
<1>1. /\ s.trans # None /\ s.trans.mode = "uncontrolled" /\ ValidTransition(T)
      /\ c.action # None => CandidateValid(s, c.action)
      /\ i + 1 \in Nat
  BY DEF SetCandidatePre
<1>2. s.trans \in Transitions
  BY <1>1, InstalledFacts
<1>3. /\ T \in Transitions /\ T.rev = i + 1 /\ T.action = c.action
      /\ T.mode = s.trans.mode /\ T.target = s.trans.target /\ T.op = s.trans.op
  <2>. DEFINE t == s.trans
              v == i + 1
  <2>1. t \in Transitions /\ v \in Nat
    BY <1>1, <1>2
  <2>2. T = [t EXCEPT !.rev = v, !.action = c.action]
    OBVIOUS
  <2>3. t = s.trans /\ v = i + 1
    OBVIOUS
  <2>. HIDE DEF T, t, v
  <2>4. T \in Transitions
    BY <2>1, <2>2, CandidateUpdate, ZenonT(30)
  <2>5. /\ T.rev = v /\ T.action = c.action
        /\ T.mode = t.mode /\ T.target = t.target /\ T.op = t.op
    BY <2>1, <2>2 DEF Transitions
  <2>. QED
    BY <2>3, <2>4, <2>5
<1>4. SetCandidatePost(s, i + 1, c) = Replaced(s, T)
  BY DEF SetCandidatePost
<1>. HIDE DEF T
<1>. QED
  BY <1>1, <1>3, <1>4, ReplacedKeeps

LEMMA RecoverUpdate ==
    ASSUME NEW t \in Transitions, NEW v \in Nat, NEW d \in Deadline,
           NEW T, T = [t EXCEPT !.rev = v, !.deadline = d]
    PROVE  T \in Transitions
BY ZenonT(60) DEF Transitions, Optional

LEMMA RecoverKeeps ==
    ASSUME NEW i \in Nat, NEW s, NEW c, Settled(s, i), c.deadline \in Deadline,
           RecoverPre(s, i + 1, c)
    PROVE  /\ Settled(RecoverPost(s, i + 1, c), i + 1)
           /\ AuthorityStep(s, RecoverPost(s, i + 1, c))
<1>. DEFINE T == [s.trans EXCEPT !.rev = i + 1, !.deadline = c.deadline]
<1>1. s.trans # None /\ s.trans.action # None /\ ValidTransition(T) /\ i + 1 \in Nat
  BY DEF RecoverPre, RecoverableAction
<1>2. s.trans \in Transitions /\ CandidateValid(s, s.trans.action)
  BY <1>1, InstalledFacts DEF TransitionConsistent
<1>3. /\ T \in Transitions /\ T.rev = i + 1 /\ T.action = s.trans.action
      /\ T.mode = s.trans.mode /\ T.target = s.trans.target /\ T.op = s.trans.op
  <2>. DEFINE t == s.trans
              v == i + 1
  <2>1. t \in Transitions /\ v \in Nat
    BY <1>1, <1>2
  <2>2. T = [t EXCEPT !.rev = v, !.deadline = c.deadline]
    OBVIOUS
  <2>3. t = s.trans /\ v = i + 1
    OBVIOUS
  <2>. HIDE DEF T, t, v
  <2>4. T \in Transitions
    BY <2>1, <2>2, RecoverUpdate, ZenonT(30)
  <2>5. /\ T.rev = v /\ T.action = t.action
        /\ T.mode = t.mode /\ T.target = t.target /\ T.op = t.op
    BY <2>1, <2>2 DEF Transitions
  <2>. QED
    BY <2>3, <2>4, <2>5
<1>4. RecoverPost(s, i + 1, c) = Replaced(s, T)
  BY DEF RecoverPost
<1>. HIDE DEF T
<1>. QED
  BY <1>1, <1>2, <1>3, <1>4, ReplacedKeeps

LEMMA ActionUpdate ==
    ASSUME NEW a \in Actions, NEW g \in [rev : Nat, loss : Losses]
    PROVE  /\ [a EXCEPT !.auth = g] \in Actions
           /\ [a EXCEPT !.auth = g].domain = a.domain
           /\ [a EXCEPT !.auth = g].cand = a.cand
BY DEF Actions, Optional

LEMMA AuthorizeKeeps ==
    ASSUME NEW i \in Nat, NEW s, NEW c, Settled(s, i), c.loss \in Losses,
           AuthorizePre(s, i + 1, c)
    PROVE  /\ Settled(AuthorizePost(s, i + 1, c), i + 1)
           /\ AuthorityStep(s, AuthorizePost(s, i + 1, c))
<1>. DEFINE g == [rev |-> i + 1, loss |-> c.loss]
            a == [s.trans.action EXCEPT !.auth = g]
            T == [s.trans EXCEPT !.rev = i + 1, !.action = a]
<1>1. s.trans # None /\ s.trans.action # None /\ i + 1 \in Nat
      /\ ValidTransition(AuthorizedBy(s.trans, i + 1, c))
  BY DEF AuthorizePre
<1>2. /\ s.trans \in Transitions /\ s.trans.action \in Actions
      /\ CandidateValid(s, s.trans.action)
  BY <1>1, InstalledFacts DEF TransitionConsistent, Transitions, Optional
<1>3. g \in [rev : Nat, loss : Losses]
  BY <1>1
<1>4. AuthorizedBy(s.trans, i + 1, c) = T
  BY <1>2 DEF AuthorizedBy, Transitions
<1>. HIDE DEF g
<1>5. a \in Actions /\ a.domain = s.trans.action.domain /\ a.cand = s.trans.action.cand
  BY <1>2, <1>3, ActionUpdate
<1>. HIDE DEF a
<1>6. /\ T \in Transitions /\ T.rev = i + 1 /\ T.action = a
      /\ T.mode = s.trans.mode /\ T.target = s.trans.target /\ T.op = s.trans.op
  <2>. DEFINE t == s.trans
              v == i + 1
  <2>1. t \in Transitions /\ v \in Nat /\ a \in Optional(Actions)
    BY <1>1, <1>2, <1>5 DEF Optional
  <2>2. T = [t EXCEPT !.rev = v, !.action = a]
    OBVIOUS
  <2>3. t = s.trans /\ v = i + 1
    OBVIOUS
  <2>. HIDE DEF T, t, v
  <2>4. T \in Transitions
    BY <2>1, <2>2, CandidateUpdate, ZenonT(30)
  <2>5. /\ T.rev = v /\ T.action = a
        /\ T.mode = t.mode /\ T.target = t.target /\ T.op = t.op
    BY <2>1, <2>2 DEF Transitions
  <2>. QED
    BY <2>3, <2>4, <2>5
<1>. HIDE DEF T
<1>7. CandidateValid(s, a)
  BY <1>2, <1>5 DEF CandidateValid
<1>. QED
  BY <1>1, <1>4, <1>5, <1>6, <1>7, ReplacedKeeps DEF AuthorizePost

LEMMA AbortKeeps ==
    ASSUME NEW i \in Nat, NEW s, NEW c, Settled(s, i), c.op \in Op,
           c.why \in {"aborted", "degraded"}, AbortPre(s, i + 1, c)
    PROVE  /\ Settled(AbortPost(s, i + 1, c), i + 1)
           /\ AuthorityStep(s, AbortPost(s, i + 1, c))
<1>. DEFINE e == Finished(s, c.op, "aborted", c.why)
<1>1. /\ e \in Stores /\ e.term = s.term /\ e.owner = s.owner /\ e.active = s.active
      /\ e.bound = s.bound /\ e.member = s.member /\ e.trans = s.trans
      /\ \A p \in Op : /\ e.ops[p].seq = s.ops[p].seq
                       /\ p # c.op => e.ops[p] = s.ops[p]
  <2>1. s \in Stores /\ "aborted" \in Lives
        /\ c.why \in Reasons
    BY LaterSeq DEF Lives, Reasons
  <2>. QED
    BY <2>1, FinishedFacts, ZenonT(30)
<1>. HIDE DEF e
<1>2. GrantConsistent(s) /\ TransitionConsistent(s)
  BY DEF Settled, ConsistentStores
<1>3. GrantConsistent(e) /\ \A o \in Op : e.ops[o].seq <= i + 1
  BY <1>1, <1>2, LaterSeq DEF GrantConsistent, IsMember
<1>4. CASE c.ref = None
  <2>1. ~OwnTransition(s, c.op) /\ AbortPost(s, i + 1, c) = e
    BY <1>4 DEF AbortPre, AbortPost, e
  <2>2. TransitionConsistent(e)
    <3>1. Controlled(s.trans) => /\ s.trans.op \in Op /\ s.trans.op # c.op
                                 /\ Pristine(s, s.trans.op)
      BY <1>2, <2>1 DEF TransitionConsistent, OwnTransition, Controlled, Pristine
    <3>2. Controlled(s.trans) => e.ops[s.trans.op] = s.ops[s.trans.op]
      BY <1>1, <3>1
    <3>. QED
      BY <1>1, <1>2, <3>1, <3>2, ZenonT(60) DEF TransitionConsistent, Controlled,
         IsMember, HasAssignment, Pristine, CandidateValid
  <2>3. Settled(e, i + 1)
    <3>1. e.trans # None => e.trans.rev <= i + 1
      BY <1>1, InstalledFacts DEF Settled, Transitions
    <3>. QED
      BY <1>1, <1>3, <2>2, <3>1 DEF Settled, ConsistentStores
  <2>. QED
    BY <1>1, <2>1, <2>3 DEF AuthorityStep, Authority
<1>5. CASE c.ref # None
  <2>. DEFINE r == Replaced(e, None)
  <2>1. AbortPost(s, i + 1, c) = r
    BY <1>5 DEF AbortPost, e
  <2>2. /\ r \in Stores /\ r.trans = None /\ r.term = e.term /\ r.owner = e.owner
        /\ r.active = e.active /\ r.bound = e.bound /\ r.member = e.member
        /\ r.ops = e.ops
    <3>1. None \in Optional(Transitions)
      BY DEF Optional
    <3>. QED
      BY <1>1, <3>1, ReplacedFacts, ZenonT(30)
  <2>. HIDE DEF r
  <2>3. Settled(r, i + 1)
    <3>1. /\ \A o \in Op : r.ops[o].seq <= i + 1
          /\ r.active => r.term # 0 /\ r.member[r.owner].in
          /\ i + 1 \in Nat
      BY <1>3, <2>2 DEF GrantConsistent, IsMember
    <3>. QED
      BY <2>2, <3>1, SettledIdle
  <2>. QED
    BY <1>1, <2>1, <2>2, <2>3 DEF AuthorityStep, Authority
<1>. QED
  BY <1>4, <1>5

LEMMA DegradeUpdate ==
    ASSUME NEW t \in Transitions, NEW v \in Nat,
           NEW m \in {"controlled", "uncontrolled"}, NEW o \in Optional(Op),
           NEW a \in Optional(Actions),
           NEW T, T = [t EXCEPT !.rev = v, !.mode = m, !.op = o, !.action = a]
    PROVE  T \in Transitions
BY ZenonT(60) DEF Transitions

LEMMA DegradeKeeps ==
    ASSUME NEW i \in Nat, NEW s, NEW c, Settled(s, i), c.op \in Op,
           c.why \in {"aborted", "degraded"}, DegradePre(s, i + 1, c)
    PROVE  /\ Settled(DegradePost(s, i + 1, c), i + 1)
           /\ AuthorityStep(s, DegradePost(s, i + 1, c))
<1>. DEFINE T == DegradedTransition(s.trans, i + 1, c)
            n == NextTerm(s)
            e == Finished(n, c.op, "aborted", c.why)
            r == Replaced(e, T)
<1>1. /\ s.trans # None /\ s.trans.action = c.action /\ s.trans.target = s.term + 1
      /\ s.term \in Nat /\ s.active /\ ValidTransition(T)
  BY LaterSeq DEF DegradePre, OwnTransition, Controlled, Stores
<1>2. /\ s.trans \in Transitions /\ TransitionConsistent(s)
      /\ c.action \in Optional(Actions)
  BY <1>1, InstalledFacts DEF Transitions
<1>3. /\ T \in Transitions /\ T.rev = i + 1 /\ T.mode = "uncontrolled"
      /\ T.target = s.term + 1 /\ T.action = DegradedAction(c)
  <2>. DEFINE t == s.trans
              v == i + 1
              m == "uncontrolled"
              a == DegradedAction(c)
  <2>1. /\ t \in Transitions /\ v \in Nat /\ m \in {"controlled", "uncontrolled"}
        /\ None \in Optional(Op) /\ a \in Optional(Actions)
        /\ t.target = s.term + 1
    BY <1>1, <1>2 DEF DegradedAction, Optional
  <2>2. T = [t EXCEPT !.rev = v, !.mode = m, !.op = None, !.action = a]
    BY DEF DegradedTransition
  <2>3. v = i + 1 /\ m = "uncontrolled" /\ a = DegradedAction(c)
    OBVIOUS
  <2>. HIDE DEF T, t, v, m, a
  <2>4. T \in Transitions
    BY <2>1, <2>2, DegradeUpdate, ZenonT(30)
  <2>5. T.rev = v /\ T.mode = m /\ T.target = t.target /\ T.action = a
    BY <2>1, <2>2 DEF Transitions
  <2>. QED
    BY <2>1, <2>3, <2>4, <2>5
<1>. HIDE DEF T
<1>4. /\ n \in Stores /\ n.term = s.term + 1 /\ ~n.active
      /\ n.owner = s.owner /\ n.member = s.member /\ n.ops = s.ops
  BY LaterSeq, NextTermFacts
<1>. HIDE DEF n
<1>5. /\ e \in Stores /\ e.term = n.term /\ e.owner = n.owner /\ e.active = n.active
      /\ e.member = n.member /\ \A p \in Op : e.ops[p].seq = n.ops[p].seq
  <2>1. "aborted" \in Lives
        /\ c.why \in Reasons
    BY DEF Lives, Reasons
  <2>. QED
    BY <1>4, <2>1, FinishedFacts, ZenonT(30)
<1>. HIDE DEF e
<1>6. /\ r \in Stores /\ r.trans = T /\ r.term = e.term /\ r.owner = e.owner
      /\ r.active = e.active /\ r.member = e.member /\ r.ops = e.ops
  <2>1. T \in Optional(Transitions)
    BY <1>3 DEF Optional
  <2>. QED
    BY <1>5, <2>1, ReplacedFacts, ZenonT(30)
<1>7. DegradePost(s, i + 1, c) = r
  BY DEF DegradePost, T, n, e
<1>. HIDE DEF r
<1>8. TransitionConsistent(r)
  <2>1. /\ IsMember(s, s.owner)
        /\ DegradedAction(c) # None => CandidateValid(s, DegradedAction(c))
    BY <1>1, <1>2 DEF TransitionConsistent, DegradedAction
  <2>. QED
    BY <1>1, <1>3, <1>4, <1>5, <1>6, <2>1, SMTT(60)
       DEF TransitionConsistent, IsMember, HasAssignment, CandidateValid
<1>9. Settled(r, i + 1)
  <2>1. \A o \in Op : r.ops[o].seq <= i + 1
    BY <1>4, <1>5, <1>6, LaterSeq
  <2>2. i + 1 \in Nat /\ r.trans.rev <= i + 1 /\ GrantConsistent(r)
    BY <1>3, <1>4, <1>5, <1>6 DEF GrantConsistent
  <2>. QED
    BY <1>6, <1>8, <2>1, <2>2, SettledActive, ZenonT(60)
<1>. QED
  BY <1>4, <1>5, <1>6, <1>7, <1>9 DEF AuthorityStep

LEMMA CommitKeeps ==
    ASSUME NEW i \in Nat, NEW s, NEW c, Settled(s, i), c.op \in Optional(Op),
           CommitPre(s, i + 1, c)
    PROVE  /\ Settled(CommitPost(s, i + 1, c), i + 1)
           /\ AuthorityStep(s, CommitPost(s, i + 1, c))
<1>. DEFINE n == IF c.op # None THEN NextTerm(s) ELSE s
            a == Activated(n, c.cand.node, c.action, c.epoch)
            u == Replaced(a, None)
            r == IF c.op # None THEN Finished(u, c.op, "completed", "none") ELSE u
<1>1. /\ n \in Stores /\ n.member = s.member /\ n.ops = s.ops
      /\ c.op # None => n.term = s.term + 1
      /\ c.op = None => n.term = s.term
  BY LaterSeq, NextTermFacts
<1>2. /\ c.op = None => ~s.active
      /\ ActivationAllowed(n, c.cand.node, TargetTerm(c), c.epoch)
  BY DEF CommitPre
<1>3. c.action \in Optional(Nat)
  <2>1. s.trans # None /\ s.trans.action # None /\ s.trans.action.id = c.action
    BY DEF CommitPre
  <2>2. s.trans \in Transitions
    BY <2>1, InstalledFacts, ZenonT(60)
  <2>3. s.trans.action \in Actions
    BY <2>1, <2>2 DEF Transitions, Optional
  <2>. QED
    BY <2>1, <2>3, SMTT(60) DEF Actions, Optional
<1>. HIDE DEF n
<1>4. /\ c.cand.node \in Node /\ n.member[c.cand.node].in /\ c.epoch \in Nat
      /\ n.term # 0
  BY <1>1, <1>2 DEF ActivationAllowed, IsMember, Stores
<1>5. /\ a \in Stores /\ a.term = n.term /\ a.owner = c.cand.node
      /\ a.member = n.member /\ a.ops = n.ops
  BY <1>1, <1>3, <1>4, ActivatedFacts
<1>. HIDE DEF a
<1>6. /\ u \in Stores /\ u.trans = None /\ u.term = a.term /\ u.owner = a.owner
      /\ u.member = a.member /\ u.ops = a.ops
  <2>1. None \in Optional(Transitions)
    BY DEF Optional
  <2>. QED
    BY <1>5, <2>1, ReplacedFacts, ZenonT(30)
<1>7. CommitPost(s, i + 1, c) = r
  BY SMTT(60) DEF CommitPost, n, a
<1>. HIDE DEF u
<1>8. /\ r \in Stores /\ r.trans = None /\ r.term = u.term /\ r.owner = u.owner
      /\ r.member = u.member /\ \A o \in Op : r.ops[o].seq = u.ops[o].seq
  <2>1. CASE c.op = None
    BY <1>6, <2>1
  <2>2. CASE c.op # None
    <3>. DEFINE f == Finished(u, c.op, "completed", "none")
    <3>1. c.op \in Op /\ "completed" \in Lives /\ "none" \in Reasons
      BY <2>2 DEF Optional, Lives, Reasons
    <3>2. /\ f \in Stores /\ f.trans = u.trans /\ f.term = u.term /\ f.owner = u.owner
          /\ f.member = u.member /\ \A o \in Op : f.ops[o].seq = u.ops[o].seq
      BY <1>6, <3>1, FinishedFacts, ZenonT(90)
    <3>3. r = f
      BY <2>2
    <3>. HIDE DEF f, r
    <3>. QED
      BY <1>6, <3>2, <3>3
  <2>. QED
    BY <2>1, <2>2
<1>. HIDE DEF r
<1>9. Settled(r, i + 1)
  <2>1. /\ \A o \in Op : r.ops[o].seq <= i + 1
        /\ r.term # 0 /\ r.member[r.owner].in /\ i + 1 \in Nat
    BY <1>1, <1>4, <1>5, <1>6, <1>8, LaterSeq
  <2>. QED
    BY <1>8, <2>1, SettledIdle
<1>. QED
  BY <1>1, <1>2, <1>5, <1>6, <1>7, <1>8, <1>9 DEF AuthorityStep

-----------------------------------------------------------------------------
(* A committed entry, whatever its command. *)

LEMMA PostKeeps ==
    ASSUME NEW i \in Nat, NEW s, NEW c, Settled(s, i), CommandOK(c),
           Pre(s, i + 1, c)
    PROVE  /\ Settled(Post(s, i + 1, c), i + 1)
           /\ AuthorityStep(s, Post(s, i + 1, c))
<1>1. CASE c.t = "submit"
  BY <1>1, SubmitKeeps DEF Pre, Post, CommandOK
<1>2. CASE c.t = "fence"
  BY <1>2, FenceKeeps DEF Pre, Post
<1>3. CASE c.t = "activate"
  BY <1>3, ActivateKeeps DEF Pre, Post
<1>4. CASE c.t = "assign"
  BY <1>4, AssignKeeps DEF Pre, Post, CommandOK
<1>5. CASE c.t = "remove"
  BY <1>5, RemoveKeeps DEF Pre, Post
<1>6. CASE c.t = "repl"
  BY <1>6, ReplKeeps DEF Pre, Post
<1>7. CASE c.t = "controlled"
  BY <1>7, BeginControlledKeeps DEF Pre, Post, CommandOK
<1>8. CASE c.t = "uncontrolled"
  BY <1>8, BeginUncontrolledKeeps DEF Pre, Post, CommandOK
<1>9. CASE c.t = "candidate"
  BY <1>9, SetCandidateKeeps DEF Pre, Post, CommandOK
<1>10. CASE c.t = "recover"
  BY <1>10, RecoverKeeps DEF Pre, Post, CommandOK
<1>11. CASE c.t = "authorize"
  BY <1>11, AuthorizeKeeps DEF Pre, Post, CommandOK
<1>12. CASE c.t = "abort"
  BY <1>12, AbortKeeps DEF Pre, Post, CommandOK
<1>13. CASE c.t = "degrade"
  BY <1>13, DegradeKeeps DEF Pre, Post, CommandOK
<1>14. CASE c.t = "commit"
  BY <1>14, CommitKeeps DEF Pre, Post, CommandOK
<1>. QED
  BY <1>1, <1>2, <1>3, <1>4, <1>5, <1>6, <1>7, <1>8, <1>9, <1>10, <1>11, <1>12,
     <1>13, <1>14, BoundsAssumption, ZenonT(60) DEF CommandOK

\* A command that is rejected, or whose effect is already there, is no change.
LEMMA ApplyKeeps ==
    ASSUME NEW i \in Nat, NEW s, NEW c, Settled(s, i), CommandOK(c)
    PROVE  /\ Settled(Apply(s, i + 1, c), i + 1)
           /\ AuthorityStep(s, Apply(s, i + 1, c))
<1>1. CASE Apply(s, i + 1, c) = s
  <2>1. s.trans # None => s.trans.rev \in Nat
    BY InstalledFacts DEF Transitions
  <2>. QED
    BY <1>1, <2>1, LaterSeq DEF Settled, AuthorityStep
<1>2. CASE Apply(s, i + 1, c) # s
  <2>1. Pre(s, i + 1, c) /\ Apply(s, i + 1, c) = Post(s, i + 1, c)
    BY <1>2 DEF Apply
  <2>. QED
    BY <2>1, PostKeeps
<1>. QED
  BY <1>1, <1>2

-----------------------------------------------------------------------------
(* What the proposers build is well formed. *)

LEMMA ActionType ==
    ASSUME stores \in Stores, NEW id \in Nat, NEW n \in Node, NEW oper \in BOOLEAN,
           NEW d \in [term : Nat, node : Node, assign : Nat]
    PROVE  Action(id, n, d, oper) \in Actions
<1>1. stores.member[n].assign \in Nat
  BY DEF Stores
<1>. QED
  BY <1>1 DEF Action, Actions, Candidates, Optional

LEMMA DomainType ==
    ASSUME stores \in Stores
    PROVE  /\ OwnerDomain \in [term : Nat, node : Node, assign : Nat]
           /\ stores.term # 0 => PastDomain \in [term : Nat, node : Node, assign : Nat]
<1>1. /\ stores.owner \in Node /\ stores.term \in Nat
      /\ stores.member[stores.owner].assign \in Nat
  BY DEF Stores
<1>2. stores.term # 0 => stores.term - 1 \in Nat
  BY <1>1
<1>. QED
  BY <1>1, <1>2 DEF OwnerDomain, PastDomain

LEMMA KnownOK ==
    ASSUME Settled(stores, index), index \in Nat,
           NEW c \in UNION {Submits, Administrative, Aborts, Continuations},
           c.t \in Kinds
    PROVE  CommandOK(c)
<1>1. CASE c \in Submits
  BY <1>1 DEF Submits, CommandOK
<1>2. CASE c \in Administrative
  BY <1>2 DEF Administrative, CommandOK
<1>3. CASE c \in Aborts
  BY <1>3 DEF Aborts, PreemptableRequests, CommandOK
<1>4. CASE c \in Continuations
  <2>1. stores.trans # None /\ stores.trans.action # None
    BY <1>4 DEF Continuations
  <2>2. /\ stores.trans \in Transitions /\ TransitionConsistent(stores)
        /\ stores.trans.action \in Actions /\ stores.trans.op \in Optional(Op)
    BY <2>1, InstalledFacts DEF Transitions, Optional
  <2>3. CASE c \in Recoveries
    BY <2>3 DEF Recoveries, CommandOK
  <2>4. CASE c \in Authorizations
    BY <2>4 DEF Authorizations, CommandOK, Losses
  <2>5. CASE Controlled(stores.trans) /\ c \in Degrades
    <3>1. stores.trans.op \in Op
      BY <2>2, <2>5, SMTT(60) DEF TransitionConsistent, Controlled, Pristine
    <3>. QED
      BY <2>5, <3>1 DEF Degrades, CommandOK
  <2>6. CASE stores.trans.action.auth # None /\ c \in Commits
    <3>1. stores.trans.action.auth.loss \in Losses
      BY <2>2, <2>6 DEF Actions, Optional
    <3>. QED
      BY <2>2, <2>6, <3>1, SMTT(60) DEF Commits, CommandOK
  <2>. QED
    BY <1>4, <2>1, <2>3, <2>4, <2>5, <2>6 DEF Continuations
<1>. QED
  BY <1>1, <1>2, <1>3, <1>4

LEMMA FreshOK ==
    ASSUME Settled(stores, index), index \in Nat, NEW id \in Nat,
           NEW c \in Assigns(id) \cup Begins(id), c.t \in Kinds
    PROVE  CommandOK(c)
<1>1. stores \in Stores /\ FALSE \in BOOLEAN
  BY DEF Settled
<1>2. CASE c \in Assigns(id)
  BY <1>2 DEF Assigns, CommandOK
<1>3. CASE c \in Begins(id) /\ stores.trans = None
  <2>1. CASE c \in BeginsControlled(id)
    <3>1. PICK n \in Node :
            /\ c.t = "controlled" /\ c.id = id
            /\ c.action = Action(id, n, OwnerDomain, FALSE)
      <4>1. \E n \in Members : /\ c.t = "controlled" /\ c.id = id
                               /\ c.action = Action(id, n, OwnerDomain, FALSE)
        BY <2>1, ZenonT(60) DEF BeginsControlled
      <4>. QED
        BY <4>1, ZenonT(60) DEF Members
    <3>2. c.action \in Actions
      BY <1>1, <3>1, ActionType, DomainType, ZenonT(60)
    <3>. QED
      BY <3>1, <3>2, ZenonT(60) DEF CommandOK
  <2>2. CASE c \in BeginsUncontrolled(id)
    <3>1. /\ c.t = "uncontrolled" /\ c.id = id
          /\ \/ c.action = None
             \/ \E n \in Node, oper \in BOOLEAN :
                  c.action = Action(id, n, OwnerDomain, oper)
      BY <2>2 DEF BeginsUncontrolled, Members
    <3>2. c.action \in Optional(Actions)
      BY <1>1, <3>1, ActionType, DomainType DEF Optional
    <3>. QED
      BY <3>1, <3>2 DEF CommandOK
  <2>. QED
    BY <1>3, <2>1, <2>2, SMTT(60) DEF Begins
<1>4. CASE c \in Begins(id) /\ stores.trans # None
  <2>1. /\ c.t = "candidate"
        /\ \/ c.action = None
           \/ \E n \in Node, oper \in BOOLEAN :
                c.action = Action(id, n, PastDomain, oper)
    BY <1>4 DEF Begins, SetsCandidate, Members
  <2>2. stores.term # 0
    BY <1>4, InstalledFacts
  <2>3. c.action \in Optional(Actions)
    BY <1>1, <2>1, <2>2, ActionType, DomainType DEF Optional
  <2>. QED
    BY <2>1, <2>3 DEF CommandOK
<1>. QED
  BY <1>2, <1>3, <1>4

-----------------------------------------------------------------------------
(* The inductive invariant. *)

\* Grants recorded so far are of past terms, or of the current one if it has
\* its grant.
GrantBound ==
    \A g \in grants : /\ g.term <= stores.term
                      /\ ~stores.active => g.term < stores.term

IInv == TypeOK /\ AggregateValid /\ GrantBound /\ GrantOnce

LEMMA IInvSettled ==
    ASSUME TypeOK, AggregateValid
    PROVE  index \in Nat /\ Settled(stores, index)
BY BoundsAssumption DEF TypeOK, AggregateValid, Settled

LEMMA InitIInv == Init => IInv
<1>. SUFFICES ASSUME Init PROVE IInv
  OBVIOUS
<1>1. PICK n \in Node :
        /\ stores = Genesis(n)
        /\ grants = {[term |-> 1, owner |-> n, action |-> None, op |-> None,
                      loss |-> "none"]}
  BY DEF Init
<1>2. index = 0 /\ flight = {} /\ ids = 0
  BY DEF Init
<1>3. stores \in Stores
  BY <1>1 DEF Genesis, Stores, Operations, Optional, Lives, Reasons
<1>4. /\ stores.term = 1 /\ stores.owner = n /\ stores.active /\ stores.trans = None
      /\ stores.member[n].in /\ \A o \in Op : stores.ops[o].seq = 0
  BY <1>1 DEF Genesis
<1>5. grants \subseteq Grants
  BY <1>1 DEF Grants, Optional, Losses
<1>6. TypeOK
  BY <1>2, <1>3, <1>4, <1>5, BoundsAssumption, SMTT(60) DEF TypeOK
<1>7. AggregateValid
  BY <1>4 DEF AggregateValid, ConsistentStores, TransitionConsistent,
     GrantConsistent, IsMember
<1>8. GrantBound /\ GrantOnce
  BY <1>1, <1>4 DEF GrantBound, GrantOnce
<1>. QED
  BY <1>6, <1>7, <1>8 DEF IInv

LEMMA ProposeIInv ==
    ASSUME IInv, NEW c, Propose(c), CommandOK(c), ids' \in 0..MaxId
    PROVE  IInv'
<1>1. /\ flight' = flight \cup {c}
      /\ stores' = stores /\ index' = index /\ grants' = grants
  BY DEF Propose
<1>2. \A d \in flight' : CommandOK(d)
  BY <1>1, SMTT(60) DEF IInv, TypeOK
<1>3. TypeOK'
  BY <1>1, <1>2 DEF IInv, TypeOK, CommandOK
<1>. QED
  BY <1>1, <1>3 DEF IInv, AggregateValid, GrantBound, GrantOnce

LEMMA CommitIInv ==
    ASSUME IInv, NEW c \in flight, Commit(c)
    PROVE  IInv'
<1>1. index \in Nat /\ Settled(stores, index) /\ CommandOK(c)
  BY IInvSettled DEF IInv, TypeOK
<1>2. /\ index < MaxIndex /\ index' = index + 1
      /\ stores' = Apply(stores, index + 1, c)
      /\ flight' = flight \ {c} /\ ids' = ids
      /\ grants' = IF stores'.active /\ Authority(stores') # Authority(stores)
                   THEN grants \cup {GrantOf(stores', c, LossOf(c))} ELSE grants
  BY DEF Commit
<1>3. Settled(stores', index') /\ AuthorityStep(stores, stores')
  BY <1>1, <1>2, ApplyKeeps
<1>4. stores \in Stores /\ stores' \in Stores
  BY <1>1, <1>3 DEF Settled
<1>5. grants' \subseteq Grants
  <2>1. LossOf(c) \in Losses
    BY <1>1 DEF LossOf, CommandOK, Losses
  <2>2. c.t = "commit" => c.op \in Optional(Op)
    BY <1>1, SMTT(60) DEF CommandOK
  <2>3. GrantOf(stores', c, LossOf(c)) \in Grants
    BY <1>4, <2>1, <2>2, ZenonT(60) DEF GrantOf, Grants, Stores, Optional
  <2>4. grants \subseteq Grants
    BY SMTT(60) DEF IInv, TypeOK
  <2>. QED
    BY <1>2, <2>3, <2>4
<1>6. TypeOK'
  <2>1. index' \in 0..MaxIndex /\ ids' \in 0..MaxId
    <3>1. index' \in 0..MaxIndex
      BY <1>1, <1>2, BoundsAssumption
    <3>2. ids' \in 0..MaxId
      BY <1>2, Zenon DEF IInv, TypeOK
    <3>. QED
      BY <3>1, <3>2
  <2>2. \A d \in flight' : CommandOK(d)
    BY <1>2 DEF IInv, TypeOK
  <2>. QED
    BY <1>3, <1>5, <2>1, <2>2, ZenonT(60) DEF TypeOK, Settled, CommandOK
<1>7. AggregateValid'
  BY <1>3 DEF AggregateValid, Settled
<1>8. GrantBound' /\ GrantOnce'
  <2>. DEFINE h == GrantOf(stores', c, LossOf(c))
  <2>1. /\ stores.term \in Nat /\ stores'.term \in Nat
        /\ \A g \in grants : g.term \in Nat
    BY <1>4 DEF Stores, IInv, TypeOK, Grants
  <2>2. h.term = stores'.term
    BY DEF GrantOf
  <2>. HIDE DEF h
  <2>3. CASE Authority(stores') = Authority(stores)
    <3>1. stores'.term = stores.term /\ stores'.active = stores.active
      BY <2>3 DEF Authority
    <3>2. grants' = grants
      BY <1>2, <2>3
    <3>. QED
      BY <3>1, <3>2 DEF IInv, GrantBound, GrantOnce
  <2>4. CASE Authority(stores') # Authority(stores)
    <3>1. \A g \in grants : g.term < stores'.term
      BY <1>3, <2>1, <2>4 DEF AuthorityStep, IInv, GrantBound
    <3>2. \/ ~stores'.active /\ grants' = grants
          \/ stores'.active /\ grants' = grants \cup {h}
      BY <1>2, <2>4 DEF h
    <3>. QED
      BY <2>1, <2>2, <3>1, <3>2 DEF IInv, GrantBound, GrantOnce
  <2>. QED
    BY <2>3, <2>4
<1>. QED
  BY <1>6, <1>7, <1>8, SMTT(60) DEF IInv

LEMMA NextIInv == IInv /\ [Next]_vars => IInv'
<1>. SUFFICES ASSUME IInv, [Next]_vars PROVE IInv'
  OBVIOUS
<1>1. index \in Nat /\ Settled(stores, index) /\ ids \in 0..MaxId
  BY IInvSettled DEF IInv, TypeOK
<1>2. CASE ProposeKnown
  <2>1. PICK c \in UNION {Submits, Administrative, Aborts, Continuations} : Propose(c)
    BY <1>2 DEF ProposeKnown
  <2>2. c.t \in Kinds /\ ids' \in 0..MaxId
    BY <1>1, <1>2, <2>1 DEF Propose, ProposeKnown
  <2>. QED
    BY <1>1, <2>1, <2>2, KnownOK, ProposeIInv
<1>3. CASE ProposeFresh
  <2>1. PICK c \in Assigns(ids + 1) \cup Begins(ids + 1) : Propose(c)
    BY <1>3 DEF ProposeFresh
  <2>2. c.t \in Kinds /\ ids' \in 0..MaxId /\ ids + 1 \in Nat
    BY <1>1, <1>3, <2>1, BoundsAssumption DEF Propose, ProposeFresh
  <2>. QED
    BY <1>1, <2>1, <2>2, FreshOK, ProposeIInv
<1>4. CASE \E c \in flight : Commit(c)
  BY <1>4, CommitIInv, SMTT(60)
<1>5. CASE UNCHANGED vars
  BY <1>5 DEF vars, IInv, TypeOK, AggregateValid, GrantBound, GrantOnce, CommandOK
<1>. QED
  BY <1>2, <1>3, <1>4, <1>5 DEF Next

LEMMA Invariance == Spec => []IInv
BY InitIInv, NextIInv, PTL DEF Spec

\* The stores, the commands in flight and the grants are always well formed;
\* no operation or transition carries a revision of an entry that has not been
\* committed (SubmitOperation and the failover commands stamp the log index).
THEOREM TypeCorrect == Spec => []TypeOK
BY Invariance, PTL DEF IInv

\* Whatever commands are proposed, at whatever lag, every committed entry keeps
\* the cross-store facts ValidateDecodedAggregate requires: no sequence of
\* accepted commands leads to a snapshot that a replica refuses to load.
THEOREM AggregateAlwaysValid == Spec => []AggregateValid
BY Invariance, PTL DEF IInv

\* A term is granted at most once: ActivateAuthority and the failover cutover
\* never activate two owners, or two actions, in the same group term.
THEOREM GrantsAreUnique == Spec => []GrantOnce
BY Invariance, PTL DEF IInv

=============================================================================
