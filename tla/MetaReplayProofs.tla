-------------------------- MODULE MetaReplayProofs --------------------------
(***************************************************************************)
(* More about MetaFailover, for any number of nodes, requests, entries and *)
(* commands in flight: redelivering the last entry changes nothing and has *)
(* the same verdict (ReplayExact), an entry takes effect at most once      *)
(* (NoSecondEffect), a request is complete exactly when its transition cut *)
(* over (CompletedMeansCutover), and a transition chooses its cutoff once  *)
(* (CutoffFixed).                                                          *)
(*                                                                         *)
(* The argument is again one lemma per command.  It says what the effect   *)
(* of the command leaves alone (EffectStep), that its Present condition    *)
(* holds of the stores it leaves, and that it is spent: some number or     *)
(* life that the command was built from has moved on for good.             *)
(***************************************************************************)
EXTENDS MetaFailoverProofs

Over == {"completed", "aborted"}

\* What an effective entry i keeps of the requests: a request that is over
\* stays as it is, none is forgotten, and only its cutover completes it.
RequestsStep(s, r, c) ==
    \A o \in Op :
        /\ s.ops[o].life \in Over => r.ops[o] = s.ops[o]
        /\ s.ops[o].life # "absent" => r.ops[o].life # "absent"
        /\ r.ops[o].life = "completed" =>
             s.ops[o].life = "completed" \/ (c.t = "commit" /\ c.op = o)

\* And of the transition: a change carries the entry's index, a controlled
\* transition stays its request's until that is over, and the cutoff stays.
TransitionStep(s, r, i) ==
    /\ r.trans = s.trans \/ r.trans = None \/ r.trans.rev = i
    /\ Controlled(s.trans) =>
         \/ Controlled(r.trans) /\ r.trans.op = s.trans.op
         \/ r.ops[s.trans.op].life \in Over
    /\ (/\ s.trans # None /\ r.trans # None /\ s.trans.id = r.trans.id
        /\ s.trans.deadline # None) => r.trans.deadline = s.trans.deadline

EffectStep(s, r, i, c) ==
    /\ RequestsStep(s, r, c)
    /\ TransitionStep(s, r, i)
    /\ r.revision >= s.revision /\ r.repl >= s.repl

\* The state a command was built from is over: no later entry can apply it.
SpentRef(s, i, c) ==
    /\ c.ref.rev \in Nat /\ c.ref.rev <= i
    /\ s.trans # None => c.ref.rev < s.trans.rev

Spent(s, i, c) ==
    /\ c.t = "submit" => s.ops[c.op].life # "absent"
    /\ c.t = "fence" => c.term \in Nat /\ c.term < s.term
    /\ c.t = "activate" =>
         /\ c.term \in Nat /\ c.term <= s.term
         /\ c.term = s.term => s.active
    /\ c.t \in {"assign", "remove"} => c.revision \in Nat /\ c.revision < s.revision
    /\ c.t = "repl" => c.repl \in Nat /\ c.repl < s.repl
    /\ c.t = "controlled" =>
         /\ c.op \in Op
         /\ \/ s.ops[c.op].life \in Over
            \/ Controlled(s.trans) /\ s.trans.op = c.op
    /\ c.t = "uncontrolled" => c.anchor.term \in Nat /\ c.anchor.term < s.term
    /\ c.t \in {"candidate", "recover", "authorize", "commit"} => SpentRef(s, i, c)
    /\ c.t \in {"abort", "degrade"} => s.ops[c.op].life \in Over

-----------------------------------------------------------------------------
(* A spent command does nothing, and stays spent.                          *)

(* None of the commands' preconditions holds once it is spent.             *)
LEMMA SpentInert ==
    ASSUME NEW i \in Nat, NEW s, NEW c, Settled(s, i), CommandOK(c), Spent(s, i, c)
    PROVE  Present(s, i + 1, c) \/ ~Pre(s, i + 1, c)
<1>0. s \in Stores /\ s.term \in Nat /\ s.revision \in Nat /\ s.repl \in Nat
  BY LaterSeq DEF Stores
<1>1. CASE c.t = "submit"
  BY <1>1 DEF Present, SubmitPresent, Spent
<1>2. CASE c.t = "fence"
  BY <1>0, <1>2 DEF Pre, FencePre, Spent
<1>3. CASE c.t = "activate"
  BY <1>0, <1>3 DEF Pre, ActivatePre, ActivationAllowed, Spent
<1>4. CASE c.t = "assign"
  BY <1>0, <1>4 DEF Pre, AssignPre, Spent
<1>5. CASE c.t = "remove"
  BY <1>0, <1>5 DEF Pre, RemovePre, Spent
<1>6. CASE c.t = "repl"
  BY <1>0, <1>6 DEF Pre, ReplPre, Spent
<1>7. CASE c.t = "controlled"
  BY <1>7 DEF Pre, BeginControlledPre, BeginAnchors, Pristine, Controlled, Spent, Over
<1>8. CASE c.t = "uncontrolled"
  BY <1>0, <1>8 DEF Pre, BeginUncontrolledPre, BeginAnchors, Spent
<1>9. CASE c.t = "candidate"
  BY <1>9 DEF Pre, SetCandidatePre, TransitionMatches, Spent, SpentRef
<1>10. CASE c.t = "recover"
  BY <1>10 DEF Pre, RecoverPre, RecoverableAction, TransitionMatches, Spent, SpentRef
<1>11. CASE c.t = "authorize"
  BY <1>11 DEF Pre, AuthorizePre, TransitionMatches, Spent, SpentRef
<1>12. CASE c.t = "abort"
  BY <1>12 DEF Pre, AbortPre, Pristine, Spent, Over
<1>13. CASE c.t = "degrade"
  BY <1>13 DEF Pre, DegradePre, Pristine, Spent, Over
<1>14. CASE c.t = "commit"
  BY <1>14 DEF Pre, CommitPre, TransitionMatches, Spent, SpentRef
<1>. QED
  BY <1>1, <1>2, <1>3, <1>4, <1>5, <1>6, <1>7, <1>8, <1>9, <1>10, <1>11, <1>12,
     <1>13, <1>14, BoundsAssumption, ZenonT(60) DEF CommandOK

(* What a command was built from does not come back.                       *)
LEMMA SpentStays ==
    ASSUME NEW i \in Nat, NEW s, NEW c, NEW r, NEW d, Settled(s, i), Settled(r, i + 1), CommandOK(c),
           Spent(s, i, c), EffectStep(s, r, i + 1, d), AuthorityStep(s, r)
    PROVE  Spent(r, i + 1, c)
<1>0. /\ s.term \in Nat /\ s.revision \in Nat /\ s.repl \in Nat
      /\ r.term \in Nat /\ r.revision \in Nat /\ r.repl \in Nat
  BY LaterSeq DEF Stores, Settled
<1>1. /\ s.term <= r.term
      /\ s.term = r.term /\ s.active => r.active
  BY <1>0 DEF AuthorityStep, Authority
<1>2. s.revision <= r.revision /\ s.repl <= r.repl
  BY <1>0 DEF EffectStep
<1>3. \A o \in Op : s.ops[o].life \in Over => r.ops[o].life \in Over
  BY DEF EffectStep, RequestsStep
<1>4. CASE c.t \in {"submit", "fence", "activate", "assign", "remove", "repl", "uncontrolled"}
  BY <1>0, <1>1, <1>2, <1>4 DEF Spent, CommandOK, EffectStep, RequestsStep
<1>5. CASE c.t \in {"abort", "degrade"}
  BY <1>3, <1>5 DEF Spent, CommandOK
<1>6. CASE c.t = "controlled"
  <2>1. CASE s.ops[c.op].life \in Over /\ c.op \in Op
    BY <1>3, <1>6, <2>1 DEF Spent
  <2>2. CASE Controlled(s.trans) /\ s.trans.op = c.op
    BY <1>6, <2>2 DEF Spent, EffectStep, TransitionStep
  <2>. QED
    BY <1>6, <2>1, <2>2 DEF Spent, CommandOK
<1>7. CASE c.t \in {"candidate", "recover", "authorize", "commit"}
  <2>1. SpentRef(s, i, c)
    BY <1>7 DEF Spent
  <2>2. r.trans = s.trans \/ r.trans = None \/ r.trans.rev = i + 1
    BY DEF EffectStep, TransitionStep
  <2>3. SpentRef(r, i + 1, c)
    BY <2>1, <2>2 DEF SpentRef
  <2>. QED
    BY <1>7, <2>3 DEF Spent
<1>. QED
  BY <1>4, <1>5, <1>6, <1>7, BoundsAssumption DEF CommandOK

-----------------------------------------------------------------------------
(* One lemma per command: its effect, and that it is present and spent.    *)

(* A command that leaves the requests and the transition alone.            *)
LEMMA QuietEffect ==
    ASSUME NEW i, NEW s, NEW r, NEW c,
           r.trans = s.trans, r.ops = s.ops, r.revision >= s.revision, r.repl >= s.repl
    PROVE  EffectStep(s, r, i, c)
  BY DEF EffectStep, RequestsStep, TransitionStep

(* One lemma per command: an effect leaves it present and spent.           *)
LEMMA SubmitEffect ==
    ASSUME NEW i \in Nat, NEW s, NEW c, Settled(s, i), CommandOK(c), c.t = "submit",
           ~SubmitPresent(s, i + 1, c), SubmitPre(s, i + 1, c),
           NEW r, r = SubmitPost(s, i + 1, c)
    PROVE  EffectStep(s, r, i + 1, c) /\ SubmitPresent(r, i + 1, c) /\ Spent(r, i + 1, c)
<1>. DEFINE v == [life |-> "submitted", seq |-> i + 1, why |-> "none"]
<1>1. s \in Stores /\ c.op \in Op /\ s.ops \in [Op -> Operations]
  BY LaterSeq DEF CommandOK
<1>2. s.trans = None /\ s.ops[c.op].life = "absent"
  BY DEF SubmitPre, SubmitPresent
<1>3. r = [s EXCEPT !.ops[c.op] = v] /\ v.life = "submitted"
  BY DEF SubmitPost
<1>. HIDE DEF v
<1>4. /\ r.trans = s.trans /\ r.revision = s.revision /\ r.repl = s.repl
      /\ r.ops = [s.ops EXCEPT ![c.op] = v]
  BY <1>1, <1>3 DEF Stores
<1>5. r.ops[c.op].life = "submitted" /\ \A o \in Op : o # c.op => r.ops[o] = s.ops[o]
  BY <1>1, <1>3, <1>4
<1>6. RequestsStep(s, r, c)
  BY <1>2, <1>5 DEF RequestsStep, Over
<1>7. TransitionStep(s, r, i + 1) /\ r.revision >= s.revision /\ r.repl >= s.repl
  BY <1>1, <1>2, <1>4 DEF TransitionStep, Controlled, Stores
<1>. QED
  BY <1>5, <1>6, <1>7 DEF EffectStep, SubmitPresent, Spent

LEMMA FenceEffect ==
    ASSUME NEW i \in Nat, NEW s, NEW c, Settled(s, i), c.t = "fence",
           FencePre(s, i + 1, c), NEW r, r = FencePost(s, i + 1, c)
    PROVE  EffectStep(s, r, i + 1, c) /\ FencePresent(r, i + 1, c) /\ Spent(r, i + 1, c)
<1>1. /\ s \in Stores /\ s.trans = None /\ s.term = c.term /\ s.term \in Nat
      /\ s.revision \in Nat /\ s.repl \in Nat
  BY LaterSeq DEF FencePre, Stores
<1>2. /\ r.trans = s.trans /\ r.ops = s.ops /\ r.revision = s.revision /\ r.repl = s.repl
      /\ r.term = s.term + 1 /\ ~r.active
  BY <1>1 DEF FencePost, NextTerm, Stores
<1>3. r.revision >= s.revision /\ r.repl >= s.repl
  BY <1>1, <1>2
<1>4. EffectStep(s, r, i + 1, c)
  BY ONLY <1>2, <1>3, QuietEffect
<1>. QED
  BY <1>1, <1>2, <1>4 DEF FencePresent, Spent

LEMMA ActivateEffect ==
    ASSUME NEW i \in Nat, NEW s, NEW c, Settled(s, i), c.t = "activate",
           ActivatePre(s, i + 1, c), NEW r, r = ActivatePost(s, i + 1, c)
    PROVE  EffectStep(s, r, i + 1, c) /\ ActivatePresent(r, i + 1, c) /\ Spent(r, i + 1, c)
<1>1. /\ s \in Stores /\ s.trans = None /\ s.term = c.term /\ s.term \in Nat
      /\ s.revision \in Nat /\ s.repl \in Nat
  BY LaterSeq DEF ActivatePre, ActivationAllowed, Stores
<1>2. /\ r.trans = s.trans /\ r.ops = s.ops /\ r.term = s.term
      /\ r.active /\ r.owner = c.owner /\ r.bound = None
      /\ r.revision = s.revision /\ r.repl = s.repl /\ r.epoch = c.epoch
  BY <1>1 DEF ActivatePost, Activated, Stores
<1>3. r.revision >= s.revision /\ r.repl >= s.repl
  BY <1>1, <1>2
<1>4. EffectStep(s, r, i + 1, c)
  BY ONLY <1>2, <1>3, QuietEffect
<1>. QED
  BY <1>1, <1>2, <1>4 DEF ActivatePresent, Spent

LEMMA AssignEffect ==
    ASSUME NEW i \in Nat, NEW s, NEW c, Settled(s, i), CommandOK(c), c.t = "assign",
           AssignPre(s, i + 1, c), NEW r, r = AssignPost(s, i + 1, c)
    PROVE  EffectStep(s, r, i + 1, c) /\ AssignPresent(r, i + 1, c) /\ Spent(r, i + 1, c)
<1>. DEFINE v == [in |-> TRUE, assign |-> c.assign]
            x == c.revision + 1
            e == c.epoch
            n == c.node
            m == [s.member EXCEPT ![n] = v]
<1>1. /\ s \in Stores /\ s.trans = None /\ s.revision = c.revision /\ s.revision \in Nat
      /\ s.repl \in Nat /\ n \in Node /\ x = s.revision + 1
  BY LaterSeq DEF AssignPre, CommandOK, Stores
<1>2. r = [s EXCEPT !.member = m, !.revision = x, !.epoch = e] /\ m[n] = v
  BY <1>1 DEF AssignPost, Stores
<1>3. n = c.node /\ e = c.epoch /\ v.in /\ v.assign = c.assign
  OBVIOUS
<1>. HIDE DEF v, x, e, n, m
<1>4. /\ r.trans = s.trans /\ r.ops = s.ops /\ r.repl = s.repl
      /\ r.revision = x /\ r.epoch = e /\ r.member[n] = v
  BY <1>1, <1>2 DEF Stores
<1>5. r.revision >= s.revision /\ r.repl >= s.repl
  BY <1>1, <1>4
<1>6. EffectStep(s, r, i + 1, c)
  BY ONLY <1>4, <1>5, QuietEffect
<1>. QED
  BY <1>1, <1>2, <1>3, <1>4, <1>6 DEF AssignPresent, HasAssignment, IsMember, Spent

LEMMA RemoveEffect ==
    ASSUME NEW i \in Nat, NEW s, NEW c, Settled(s, i), c.t = "remove",
           RemovePre(s, i + 1, c), NEW r, r = RemovePost(s, i + 1, c)
    PROVE  EffectStep(s, r, i + 1, c) /\ RemovePresent(r, i + 1, c) /\ Spent(r, i + 1, c)
<1>. DEFINE x == c.revision + 1
            e == c.epoch
            n == c.node
            m == [s.member EXCEPT ![n].in = FALSE]
<1>1. /\ s \in Stores /\ s.trans = None /\ s.revision = c.revision /\ s.revision \in Nat
      /\ s.repl \in Nat /\ n \in Node /\ x = s.revision + 1 /\ ~OwnsGrant(s, c.node)
  BY LaterSeq DEF RemovePre, IsMember, Stores
<1>2. /\ r = [s EXCEPT !.member = m, !.revision = x, !.epoch = e]
      /\ n = c.node /\ e = c.epoch /\ ~m[n].in
  BY <1>1 DEF RemovePost, Stores
<1>. HIDE DEF x, e, n, m
<1>3. /\ r.trans = s.trans /\ r.ops = s.ops /\ r.repl = s.repl
      /\ r.active = s.active /\ r.owner = s.owner
      /\ r.revision = x /\ r.epoch = e /\ ~r.member[n].in
  BY <1>1, <1>2 DEF Stores
<1>4. r.revision >= s.revision /\ r.repl >= s.repl
  BY <1>1, <1>3
<1>5. EffectStep(s, r, i + 1, c)
  BY ONLY <1>3, <1>4, QuietEffect
<1>. QED
  BY <1>1, <1>2, <1>3, <1>5 DEF RemovePresent, OwnsGrant, IsMember, Spent

LEMMA ReplEffect ==
    ASSUME NEW i \in Nat, NEW s, NEW c, Settled(s, i), c.t = "repl",
           ReplPre(s, i + 1, c), NEW r, r = ReplPost(s, i + 1, c)
    PROVE  EffectStep(s, r, i + 1, c) /\ ReplPresent(r, i + 1, c) /\ Spent(r, i + 1, c)
<1>. DEFINE x == c.repl + 1
            e == c.epoch
<1>1. /\ s \in Stores /\ s.trans = None /\ s.repl = c.repl /\ s.repl \in Nat
      /\ s.revision \in Nat /\ x = s.repl + 1
  BY LaterSeq DEF ReplPre, Stores
<1>2. r = [s EXCEPT !.repl = x, !.epoch = e] /\ e = c.epoch
  BY DEF ReplPost
<1>. HIDE DEF x, e
<1>3. /\ r.trans = s.trans /\ r.ops = s.ops /\ r.revision = s.revision
      /\ r.repl = x /\ r.epoch = e
  BY <1>1, <1>2 DEF Stores
<1>4. r.revision >= s.revision /\ r.repl >= s.repl
  BY <1>1, <1>3
<1>5. EffectStep(s, r, i + 1, c)
  BY ONLY <1>3, <1>4, QuietEffect
<1>. QED
  BY <1>1, <1>2, <1>3, <1>5 DEF ReplPresent, Spent

(* Begin and the steps of an installed transition. *)

LEMMA BeginControlledEffect ==
    ASSUME NEW i \in Nat, NEW s, NEW c, Settled(s, i), CommandOK(c), c.t = "controlled",
           BeginControlledPre(s, i + 1, c),
           NEW r, r = BeginControlledPost(s, i + 1, c), Settled(r, i + 1)
    PROVE  /\ EffectStep(s, r, i + 1, c) /\ BeginControlledPresent(r, i + 1, c)
           /\ Spent(r, i + 1, c)
<1>. DEFINE T == ControlledTransitionFrom(i + 1, c)
<1>1. /\ s \in Stores /\ s.trans = None /\ s.revision \in Nat /\ s.repl \in Nat
      /\ ConsistentStores(r) /\ r.trans \in Optional(Transitions)
  BY LaterSeq DEF BeginControlledPre, BeginAnchors, Settled, Stores
<1>2. /\ r.trans = T /\ r.ops = s.ops /\ r.revision = s.revision /\ r.repl = s.repl
      /\ r.term = s.term /\ r.active = s.active /\ r.owner = s.owner /\ r.member = s.member
  BY <1>1 DEF BeginControlledPost, Stores
<1>3. T.rev = i + 1 /\ T.mode = "controlled" /\ T.op = c.op /\ T.action = c.action
  BY DEF ControlledTransitionFrom
<1>4. T # None
  <2>1. T \in Transitions
    <3>1. s.term \in Nat /\ s.term = c.anchor.term
      BY <1>1 DEF BeginControlledPre, BeginAnchors, Stores
    <3>2. c.id \in Nat /\ c.action \in Actions /\ c.op \in Op
      BY DEF CommandOK, BeginControlledPre, Pristine
    <3>. QED
      BY <3>1, <3>2 DEF ControlledTransitionFrom, Transitions, Optional
  <2>. QED
    BY <2>1, NoneIsNoRecord
<1>5. /\ c.op \in Op /\ Pristine(s, c.op) /\ c.action # None
      /\ CandidateValid(s, c.action) /\ AnchorHolds(s, c.anchor)
      /\ s.term = c.anchor.term /\ s.active
  BY <1>3 DEF BeginControlledPre, BeginAnchors, Pristine, ValidTransition
<1>. HIDE DEF T
<1>6. RequestsStep(s, r, c)
  BY <1>2 DEF RequestsStep
<1>7. TransitionStep(s, r, i + 1) /\ r.revision >= s.revision /\ r.repl >= s.repl
  BY <1>1, <1>2, <1>3 DEF TransitionStep, Controlled
<1>8. BeginControlledPresent(r, i + 1, c)
  <2>1. CandidateValid(r, c.action) /\ AnchorHolds(r, c.anchor) /\ Pristine(r, c.op)
    BY <1>2, <1>5 DEF CandidateValid, AnchorHolds, HasAssignment, IsMember, Pristine
  <2>. QED
    BY <1>1, <1>2, <1>5, <2>1 DEF BeginControlledPresent, T
<1>9. Spent(r, i + 1, c)
  BY <1>2, <1>3, <1>4, <1>5 DEF Spent, Controlled
<1>. QED
  BY <1>6, <1>7, <1>8, <1>9 DEF EffectStep

(* The automatic failover's preemption, request by request. *)
LEMMA PreemptedFields ==
    ASSUME NEW s \in Stores, NEW p, p = Preempted(s)
    PROVE  /\ p.revision = s.revision /\ p.repl = s.repl
           /\ \A o \in Op :
                /\ Pristine(s, o) => p.ops[o].life = "aborted" /\ p.ops[o].why = "preempted"
                /\ ~Pristine(s, o) => p.ops[o] = s.ops[o]
<1>. DEFINE f == [o \in Op |-> IF Pristine(s, o)
                               THEN Ended(s.ops[o], "aborted", "preempted")
                               ELSE s.ops[o]]
<1>1. p = [s EXCEPT !.ops = f]
  BY DEF Preempted
<1>2. \A o \in Op :
        /\ Pristine(s, o) => f[o].life = "aborted" /\ f[o].why = "preempted"
        /\ ~Pristine(s, o) => f[o] = s.ops[o]
  BY DEF Ended, Stores, Operations
<1>. HIDE DEF f
<1>3. p.revision = s.revision /\ p.repl = s.repl /\ p.ops = f
  BY <1>1 DEF Stores
<1>. QED
  BY <1>2, <1>3

LEMMA BeginUncontrolledEffect ==
    ASSUME NEW i \in Nat, NEW s, NEW c, Settled(s, i), CommandOK(c), c.t = "uncontrolled",
           BeginUncontrolledPre(s, i + 1, c),
           NEW r, r = BeginUncontrolledPost(s, i + 1, c), Settled(r, i + 1)
    PROVE  /\ EffectStep(s, r, i + 1, c) /\ BeginUncontrolledPresent(r, i + 1, c)
           /\ Spent(r, i + 1, c)
<1>. DEFINE T == UncontrolledTransitionFrom(i + 1, c)
            b == [NextTerm(s) EXCEPT !.trans = T]
<1>1. /\ s \in Stores /\ s.trans = None /\ s.revision \in Nat /\ s.repl \in Nat
      /\ s.term \in Nat /\ s.term = c.anchor.term /\ AnchorHolds(s, c.anchor)
      /\ c.action # None => CandidateValid(s, c.action)
      /\ ConsistentStores(r)
  BY LaterSeq DEF BeginUncontrolledPre, BeginAnchors, Settled, Stores
<1>2. T \in Transitions /\ T.rev = i + 1
  BY <1>1 DEF UncontrolledTransitionFrom, Transitions, Optional, CommandOK
<1>. HIDE DEF T
<1>3. b \in Stores
  <2>1. T \in Optional(Transitions) /\ NextTerm(s) \in Stores
    BY <1>1, <1>2, NextTermFacts DEF Optional
  <2>. QED
    BY <2>1, ReplacedFacts DEF Replaced
<1>4. /\ b.trans = T /\ b.ops = s.ops /\ b.revision = s.revision /\ b.repl = s.repl
      /\ b.term = s.term + 1 /\ ~b.active /\ b.owner = s.owner /\ b.member = s.member
  BY <1>1 DEF NextTerm, Stores
<1>5. r = IF c.auto THEN Preempted(b) ELSE b
  BY DEF BeginUncontrolledPost, T
<1>. HIDE DEF b
<1>6. /\ r.trans = T /\ r.revision = s.revision /\ r.repl = s.repl
      /\ r.term = s.term + 1 /\ ~r.active /\ r.owner = s.owner /\ r.member = s.member
  BY <1>3, <1>4, <1>5, PreemptedFacts, PreemptedFields
<1>7. \A o \in Op :
        /\ c.auto /\ Pristine(s, o) => r.ops[o].life = "aborted" /\ r.ops[o].why = "preempted"
        /\ ~(c.auto /\ Pristine(s, o)) => r.ops[o] = s.ops[o]
  <2>1. \A o \in Op : Pristine(b, o) <=> Pristine(s, o)
    BY <1>4 DEF Pristine
  <2>2. CASE ~c.auto
    BY <1>4, <1>5, <2>2
  <2>3. CASE c.auto
    <3>1. r = Preempted(b)
      BY <1>5, <2>3
    <3>. QED
      BY <1>3, <1>4, <2>1, <2>3, <3>1, PreemptedFields
  <2>. QED
    BY <2>2, <2>3
<1>8. RequestsStep(s, r, c)
  BY <1>7 DEF RequestsStep, Pristine, Over
<1>9. TransitionStep(s, r, i + 1) /\ r.revision >= s.revision /\ r.repl >= s.repl
  BY <1>1, <1>2, <1>6 DEF TransitionStep, Controlled
<1>10. BeginUncontrolledPresent(r, i + 1, c)
  <2>1. AnchorHolds(r, c.anchor) /\ (c.action # None => CandidateValid(r, c.action))
    BY <1>1, <1>6 DEF CandidateValid, AnchorHolds, HasAssignment, IsMember
  <2>2. PreemptionPresent(r, c)
    <3>1. c.hint # None => c.auto /\ c.hint \in Op /\ Pristine(s, c.hint)
      BY DEF BeginUncontrolledPre, Pristine
    <3>2. c.auto => \A o \in Op : ~Pristine(r, o)
      BY <1>7 DEF Pristine
    <3>. QED
      BY <1>7, <3>1, <3>2 DEF PreemptionPresent, PreemptableRequests
  <2>3. ~(c.auto /\ c.action # None)
    BY DEF BeginUncontrolledPre
  <2>. QED
    BY <1>1, <1>6, <2>1, <2>2, <2>3 DEF BeginUncontrolledPresent, T
<1>11. Spent(r, i + 1, c)
  BY <1>1, <1>6 DEF Spent
<1>. QED
  BY <1>8, <1>9, <1>10, <1>11 DEF EffectStep

(* A step that replaces the transition and keeps its cutoff. *)
LEMMA ReplacedEffect ==
    ASSUME NEW i \in Nat, NEW s, NEW c, Settled(s, i), s.trans # None,
           NEW T \in Transitions, T.rev = i + 1, T.mode = s.trans.mode, T.op = s.trans.op,
           s.trans.deadline # None => T.deadline = s.trans.deadline,
           NEW r, r = Replaced(s, T)
    PROVE  /\ EffectStep(s, r, i + 1, c)
           /\ r.trans = T /\ r.trans # None
           /\ r.active = s.active /\ r.term = s.term
<1>1. s \in Stores /\ s.revision \in Nat /\ s.repl \in Nat /\ T # None
  BY LaterSeq, NoneIsNoRecord DEF Stores
<1>2. /\ r.trans = T /\ r.ops = s.ops /\ r.revision = s.revision /\ r.repl = s.repl
      /\ r.term = s.term /\ r.active = s.active
  BY <1>1 DEF Replaced, Stores
<1>3. RequestsStep(s, r, c) /\ r.revision >= s.revision /\ r.repl >= s.repl
  BY <1>1, <1>2 DEF RequestsStep
<1>4. TransitionStep(s, r, i + 1)
  BY <1>1, <1>2 DEF TransitionStep, Controlled
<1>. QED
  BY <1>1, <1>2, <1>3, <1>4 DEF EffectStep

(* The command's compare-and-set fails from now on: the revision moved. *)
LEMMA RefSpent ==
    ASSUME NEW i \in Nat, NEW s, NEW c, NEW r, Settled(s, i), s.trans # None,
           TransitionMatches(s.trans, c.ref), r.trans.rev = i + 1,
           c.t \in {"candidate", "recover", "authorize"}
    PROVE  Spent(r, i + 1, c)
<1>1. s.trans.rev \in Nat /\ s.trans.rev <= i
  BY InstalledFacts DEF Settled, Transitions
<1>2. SpentRef(r, i + 1, c)
  BY <1>1 DEF SpentRef, TransitionMatches
<1>. QED
  BY <1>2 DEF Spent

LEMMA SetCandidateEffect ==
    ASSUME NEW i \in Nat, NEW s, NEW c, Settled(s, i), CommandOK(c), c.t = "candidate",
           SetCandidatePre(s, i + 1, c),
           NEW r, r = SetCandidatePost(s, i + 1, c), Settled(r, i + 1)
    PROVE  /\ EffectStep(s, r, i + 1, c) /\ SetCandidatePresent(r, i + 1, c)
           /\ Spent(r, i + 1, c)
<1>. DEFINE t == s.trans
            v == i + 1
            T == [t EXCEPT !.rev = v, !.action = c.action]
<1>1. /\ t # None /\ TransitionMatches(t, c.ref) /\ t.mode = "uncontrolled" /\ v > c.ref.rev
      /\ t \in Transitions /\ TransitionConsistent(s)
  BY InstalledFacts DEF SetCandidatePre
<1>2. v \in Nat /\ c.action \in Optional(Actions)
  BY DEF CommandOK
<1>3. r = Replaced(s, T) /\ v = i + 1 /\ t = s.trans
  BY DEF SetCandidatePost
<1>4. T \in Transitions
  BY <1>1, <1>2, CandidateUpdate
<1>5. /\ T.rev = v /\ T.action = c.action /\ T.id = t.id /\ T.mode = t.mode
      /\ T.target = t.target /\ T.op = t.op /\ T.deadline = t.deadline
  BY <1>1 DEF Transitions
<1>. HIDE DEF T, t, v
<1>6. /\ EffectStep(s, r, i + 1, c) /\ r.trans = T /\ r.trans # None
      /\ r.active = s.active /\ r.term = s.term
  BY <1>1, <1>3, <1>4, <1>5, ReplacedEffect
<1>7. t.target = s.term /\ ~s.active /\ ConsistentStores(r)
  BY <1>1, <1>3 DEF TransitionConsistent, Settled
<1>8. TransitionMatches(r.trans, [id |-> c.ref.id, rev |-> i + 1])
  BY <1>1, <1>3, <1>5, <1>6 DEF TransitionMatches
<1>9. SetCandidatePresent(r, i + 1, c)
  BY <1>1, <1>3, <1>5, <1>6, <1>7, <1>8 DEF SetCandidatePresent
<1>. QED
  BY <1>1, <1>3, <1>5, <1>6, <1>9, RefSpent

LEMMA RecoverEffect ==
    ASSUME NEW i \in Nat, NEW s, NEW c, Settled(s, i), CommandOK(c), c.t = "recover",
           RecoverPre(s, i + 1, c),
           NEW r, r = RecoverPost(s, i + 1, c), Settled(r, i + 1)
    PROVE  /\ EffectStep(s, r, i + 1, c) /\ RecoverPresent(r, i + 1, c)
           /\ Spent(r, i + 1, c)
<1>. DEFINE t == s.trans
            v == i + 1
            T == [t EXCEPT !.rev = v, !.deadline = c.deadline]
<1>1. /\ t # None /\ TransitionMatches(t, c.ref) /\ RecoverableAction(s, c) /\ v > c.ref.rev
      /\ t.deadline = None /\ t \in Transitions
  BY InstalledFacts DEF RecoverPre, RecoverableAction
<1>2. v \in Nat /\ c.deadline \in Deadline
  BY DEF CommandOK
<1>3. r = Replaced(s, T) /\ v = i + 1 /\ t = s.trans
  BY DEF RecoverPost
<1>4. T \in Transitions
  BY <1>1, <1>2, RecoverUpdate
<1>5. /\ T.rev = v /\ T.action = t.action /\ T.id = t.id /\ T.mode = t.mode
      /\ T.target = t.target /\ T.op = t.op /\ T.deadline = c.deadline
  BY <1>1 DEF Transitions
<1>. HIDE DEF T, t, v
<1>6. /\ EffectStep(s, r, i + 1, c) /\ r.trans = T /\ r.trans # None
      /\ r.active = s.active /\ r.term = s.term
  BY <1>1, <1>3, <1>4, <1>5, ReplacedEffect
<1>7. RecoverableAction(r, c) /\ ConsistentStores(r)
  BY <1>1, <1>3, <1>5, <1>6 DEF RecoverableAction, Settled
<1>8. TransitionMatches(r.trans, [id |-> c.ref.id, rev |-> i + 1])
  BY <1>1, <1>3, <1>5, <1>6 DEF TransitionMatches
<1>9. RecoverPresent(r, i + 1, c)
  BY <1>1, <1>3, <1>5, <1>6, <1>7, <1>8 DEF RecoverPresent
<1>. QED
  BY <1>1, <1>3, <1>5, <1>6, <1>9, RefSpent

LEMMA AuthorizeEffect ==
    ASSUME NEW i \in Nat, NEW s, NEW c, Settled(s, i), CommandOK(c), c.t = "authorize",
           AuthorizePre(s, i + 1, c),
           NEW r, r = AuthorizePost(s, i + 1, c), Settled(r, i + 1)
    PROVE  /\ EffectStep(s, r, i + 1, c) /\ AuthorizePresent(r, i + 1, c)
           /\ Spent(r, i + 1, c)
<1>. DEFINE t == s.trans
            v == i + 1
            g == [rev |-> v, loss |-> c.loss]
            a == [t.action EXCEPT !.auth = g]
            T == [t EXCEPT !.rev = v, !.action = a]
<1>1. /\ t # None /\ TransitionMatches(t, c.ref) /\ v > c.ref.rev
      /\ t.action # None /\ t.action.id = c.action
      /\ t \in Transitions /\ t.action \in Actions
  BY InstalledFacts DEF AuthorizePre, Transitions, Optional
<1>2. v \in Nat /\ g \in [rev : Nat, loss : Losses]
  BY DEF CommandOK
<1>3. r = Replaced(s, T) /\ v = i + 1 /\ t = s.trans
  BY <1>1 DEF AuthorizePost, AuthorizedBy, Transitions
<1>4. a \in Actions /\ a.id = c.action /\ a.auth = g
  BY <1>1, <1>2, ActionUpdate DEF Actions
<1>5. g = [rev |-> i + 1, loss |-> c.loss]
  OBVIOUS
<1>. HIDE DEF a, g
<1>6. T \in Transitions
  BY <1>1, <1>2, <1>4, CandidateUpdate DEF Optional
<1>7. /\ T.rev = v /\ T.action = a /\ T.id = t.id /\ T.mode = t.mode
      /\ T.op = t.op /\ T.deadline = t.deadline
  BY <1>1 DEF Transitions
<1>. HIDE DEF T, t, v
<1>8. EffectStep(s, r, i + 1, c) /\ r.trans = T /\ r.trans # None
  BY <1>1, <1>3, <1>6, <1>7, ReplacedEffect
<1>9. TransitionMatches(r.trans, [id |-> c.ref.id, rev |-> i + 1])
  BY <1>1, <1>3, <1>7, <1>8 DEF TransitionMatches
<1>10. a # None /\ ConsistentStores(r)
  BY <1>4, NoneIsNoRecord DEF Settled
<1>11. AuthorizePresent(r, i + 1, c)
  BY <1>1, <1>3, <1>4, <1>5, <1>7, <1>8, <1>9, <1>10 DEF AuthorizePresent
<1>. QED
  BY <1>1, <1>3, <1>7, <1>8, <1>11, RefSpent

(* The end of a request, field by field. *)
LEMMA FinishedFields ==
    ASSUME NEW s \in Stores, NEW o \in Op, NEW l, NEW w, NEW e, e = Finished(s, o, l, w)
    PROVE  /\ e.term = s.term /\ e.owner = s.owner /\ e.active = s.active
           /\ e.bound = s.bound /\ e.member = s.member /\ e.trans = s.trans
           /\ e.revision = s.revision /\ e.repl = s.repl /\ e.epoch = s.epoch
           /\ e.ops[o].life = l /\ e.ops[o].why = w
           /\ \A p \in Op : p # o => e.ops[p] = s.ops[p]
<1>. DEFINE v == Ended(s.ops[o], l, w)
            f == [s.ops EXCEPT ![o] = v]
<1>1. v.life = l /\ v.why = w
  BY DEF Ended, Stores, Operations
<1>. HIDE DEF v
<1>2. f[o] = v /\ \A p \in Op : p # o => f[p] = s.ops[p]
  BY DEF Stores
<1>3. e = [s EXCEPT !.ops = f]
  BY DEF Finished, v, Stores
<1>. HIDE DEF f
<1>4. /\ e.term = s.term /\ e.owner = s.owner /\ e.active = s.active
      /\ e.bound = s.bound /\ e.member = s.member /\ e.trans = s.trans
      /\ e.revision = s.revision /\ e.repl = s.repl /\ e.epoch = s.epoch
      /\ e.ops = f
  BY <1>3 DEF Stores
<1>. QED
  BY <1>1, <1>2, <1>4

(* A request that ends, aborted or by its cutover, while it was open. *)
LEMMA EndingEffect ==
    ASSUME NEW s, NEW r, NEW c, NEW o \in Op, s.ops[o].life = "submitted",
           \/ r.ops[o].life = "aborted"
           \/ r.ops[o].life = "completed" /\ c.t = "commit" /\ c.op = o,
           \A p \in Op : p # o => r.ops[p] = s.ops[p]
    PROVE  RequestsStep(s, r, c)
BY DEF RequestsStep, Over

LEMMA AbortEffect ==
    ASSUME NEW i \in Nat, NEW s, NEW c, Settled(s, i), CommandOK(c), c.t = "abort",
           AbortPre(s, i + 1, c),
           NEW r, r = AbortPost(s, i + 1, c), Settled(r, i + 1)
    PROVE  EffectStep(s, r, i + 1, c) /\ AbortPresent(r, i + 1, c) /\ Spent(r, i + 1, c)
<1>. DEFINE e == Finished(s, c.op, "aborted", c.why)
<1>1. /\ s \in Stores /\ s.revision \in Nat /\ s.repl \in Nat /\ c.op \in Op
      /\ s.ops[c.op].life = "submitted" /\ ConsistentStores(r)
  BY LaterSeq DEF AbortPre, Pristine, Settled, Stores, CommandOK
<1>2. /\ e.trans = s.trans /\ e.revision = s.revision /\ e.repl = s.repl
      /\ e.ops[c.op].life = "aborted" /\ e.ops[c.op].why = c.why
      /\ \A p \in Op : p # c.op => e.ops[p] = s.ops[p]
  BY <1>1, FinishedFields
<1>3. e \in Stores
  BY <1>1, FinishedFacts DEF Lives, Reasons, CommandOK
<1>4. r = IF c.ref = None THEN e ELSE Replaced(e, None)
  BY DEF AbortPost
<1>. HIDE DEF e
<1>5. r.ops = e.ops /\ r.revision = e.revision /\ r.repl = e.repl
  BY <1>3, <1>4 DEF Replaced, Stores
<1>6. /\ c.ref = None => r.trans = s.trans /\ ~OwnTransition(s, c.op)
      /\ c.ref # None => r.trans = None /\ OwnTransition(s, c.op)
  BY <1>2, <1>3, <1>4 DEF AbortPre, Replaced, Stores
<1>7. RequestsStep(s, r, c)
  BY <1>1, <1>2, <1>5, EndingEffect
<1>8. TransitionStep(s, r, i + 1)
  BY <1>2, <1>5, <1>6 DEF TransitionStep, OwnTransition, Over
<1>9. r.revision >= s.revision /\ r.repl >= s.repl
  BY <1>1, <1>2, <1>5
<1>10. AbortPresent(r, i + 1, c)
  BY <1>1, <1>2, <1>5, <1>6 DEF AbortPresent, OwnTransition
<1>. QED
  BY <1>2, <1>5, <1>7, <1>8, <1>9, <1>10 DEF EffectStep, Spent, Over

LEMMA DegradeEffect ==
    ASSUME NEW i \in Nat, NEW s, NEW c, Settled(s, i), CommandOK(c), c.t = "degrade",
           DegradePre(s, i + 1, c),
           NEW r, r = DegradePost(s, i + 1, c), Settled(r, i + 1)
    PROVE  EffectStep(s, r, i + 1, c) /\ DegradePresent(r, i + 1, c) /\ Spent(r, i + 1, c)
<1>. DEFINE t == s.trans
            v == i + 1
            T == DegradedTransition(t, v, c)
            n == NextTerm(s)
            e == Finished(n, c.op, "aborted", c.why)
<1>1. /\ s \in Stores /\ s.revision \in Nat /\ s.repl \in Nat /\ c.op \in Op /\ s.term \in Nat
      /\ s.ops[c.op].life = "submitted" /\ ConsistentStores(r)
  BY LaterSeq DEF DegradePre, Pristine, Settled, Stores, CommandOK
<1>2. /\ t # None /\ Controlled(t) /\ t.op = c.op /\ TransitionMatches(t, c.ref)
      /\ t.target = s.term + 1 /\ t.action = c.action /\ t \in Transitions
      /\ v > c.ref.rev /\ ConsistentStores(s)
  BY InstalledFacts DEF DegradePre, OwnTransition, Controlled, Settled
<1>3. /\ T.rev = v /\ T.mode = "uncontrolled" /\ T.op = None /\ T.id = t.id
      /\ T.action = DegradedAction(c) /\ T.target = t.target /\ T.deadline = t.deadline
  BY <1>2 DEF DegradedTransition, Transitions
<1>4. T # None /\ t.deadline = None
  <2>1. c.action \in Optional(Actions) /\ v \in Nat
    <3>. HIDE DEF t
    <3>1. t.action \in Optional(Actions)
      BY <1>2 DEF Transitions
    <3>. QED
      BY <1>2, <3>1
  <2>2. DegradedAction(c) \in Optional(Actions)
    BY <2>1 DEF DegradedAction, Optional
  <2>3. T \in Transitions
    <3>. DEFINE m == "uncontrolled"
                a == DegradedAction(c)
    <3>1. m \in {"controlled", "uncontrolled"} /\ None \in Optional(Op) /\ a \in Optional(Actions)
      BY <2>2 DEF Optional
    <3>2. T = [t EXCEPT !.rev = v, !.mode = m, !.op = None, !.action = a]
      BY DEF DegradedTransition
    <3>. HIDE DEF T, t, v, m, a
    <3>. QED
      BY <1>2, <2>1, <3>1, <3>2, DegradeUpdate, ZenonT(30)
  <2>4. ValidTransition(t)
    BY <1>2 DEF ConsistentStores, TransitionConsistent
  <2>. QED
    BY <1>2, <2>3, <2>4, NoneIsNoRecord DEF ValidTransition, Controlled
<1>5. v = i + 1 /\ t = s.trans
  OBVIOUS
<1>. HIDE DEF T
<1>6. /\ n \in Stores /\ n.term = s.term + 1 /\ ~n.active /\ n.ops = s.ops
      /\ n.revision = s.revision /\ n.repl = s.repl
  BY <1>1, NextTermFacts DEF NextTerm, Stores
<1>. HIDE DEF n
<1>7. /\ e.term = n.term /\ e.active = n.active /\ e.revision = n.revision /\ e.repl = n.repl
      /\ e.ops[c.op].life = "aborted" /\ e.ops[c.op].why = c.why
      /\ \A p \in Op : p # c.op => e.ops[p] = n.ops[p]
  <2>1. n \in Stores /\ c.op \in Op
    BY <1>1, <1>6
  <2>2. e = Finished(n, c.op, "aborted", c.why)
    OBVIOUS
  <2>. HIDE DEF e
  <2>. QED
    BY ONLY <2>1, <2>2, FinishedFields
<1>8. e \in Stores
  BY <1>1, <1>6, FinishedFacts DEF Lives, Reasons, CommandOK
<1>9. r = Replaced(e, T)
  BY DEF DegradePost, T, n
<1>. HIDE DEF e, t, v
<1>10. /\ r.trans = T /\ r.term = e.term /\ r.active = e.active
       /\ r.revision = e.revision /\ r.repl = e.repl /\ r.ops = e.ops
  BY <1>8, <1>9 DEF Replaced, Stores
<1>11. RequestsStep(s, r, c)
  BY <1>1, <1>6, <1>7, <1>10, EndingEffect
<1>12. TransitionStep(s, r, i + 1)
  BY <1>2, <1>3, <1>4, <1>5, <1>7, <1>10 DEF TransitionStep, Over
<1>13. r.revision >= s.revision /\ r.repl >= s.repl
  BY <1>1, <1>6, <1>7, <1>10
<1>14. TransitionMatches(r.trans, [id |-> c.ref.id, rev |-> i + 1])
  BY <1>2, <1>3, <1>5, <1>10 DEF TransitionMatches
<1>15. DegradePresent(r, i + 1, c)
  BY <1>1, <1>2, <1>3, <1>4, <1>5, <1>6, <1>7, <1>10, <1>14 DEF DegradePresent
<1>. QED
  BY <1>7, <1>10, <1>11, <1>12, <1>13, <1>15 DEF EffectStep, Spent, Over

LEMMA CommitEffect ==
    ASSUME NEW i \in Nat, NEW s, NEW c, Settled(s, i), CommandOK(c), c.t = "commit",
           CommitPre(s, i + 1, c),
           NEW r, r = CommitPost(s, i + 1, c), Settled(r, i + 1)
    PROVE  EffectStep(s, r, i + 1, c) /\ CommitPresent(r, i + 1, c) /\ Spent(r, i + 1, c)
<1>. DEFINE n == IF c.op # None THEN NextTerm(s) ELSE s
            a == Activated(n, c.cand.node, c.action, c.epoch)
            u == Replaced(a, None)
<1>1. /\ s \in Stores /\ s.revision \in Nat /\ s.repl \in Nat /\ s.term \in Nat
      /\ ConsistentStores(r)
  BY LaterSeq DEF Settled, Stores
<1>2. /\ s.trans # None /\ TransitionMatches(s.trans, c.ref)
      /\ s.trans.mode = IF c.op # None THEN "controlled" ELSE "uncontrolled"
      /\ AnchorHolds(s, c.anchor) /\ HasAssignment(s, c.cand.node, c.cand.assign)
      /\ s.term = c.anchor.term
      /\ c.op # None => s.trans.op = c.op /\ c.op \in Op /\ s.ops[c.op].life = "submitted"
  BY DEF CommitPre, Pristine
<1>3. s.trans.rev \in Nat /\ s.trans.rev <= i
  BY <1>2, InstalledFacts DEF Settled, Transitions
<1>4. /\ n \in Stores /\ n.member = s.member /\ n.ops = s.ops
      /\ n.revision = s.revision /\ n.repl = s.repl
      /\ n.term = TargetTerm(c)
  BY <1>1, <1>2, NextTermFacts DEF NextTerm, Stores, TargetTerm
<1>5. r = IF c.op # None THEN Finished(u, c.op, "completed", "none") ELSE u
  BY DEF CommitPost
<1>. HIDE DEF n
<1>6. /\ u.member = n.member /\ u.ops = n.ops /\ u.term = n.term
      /\ u.revision = n.revision /\ u.repl = n.repl /\ u.epoch = c.epoch
      /\ u.owner = c.cand.node /\ u.active /\ u.bound = c.action /\ u.trans = None
  BY <1>4 DEF Activated, Replaced, Stores
<1>7. u \in Stores
  <2>1. c.cand.node \in Node /\ None \in Optional(Transitions)
    BY <1>2 DEF HasAssignment, IsMember, Optional
  <2>2. c.epoch \in Nat
    <3>1. ActivationAllowed(n, c.cand.node, TargetTerm(c), c.epoch)
      BY DEF CommitPre, n
    <3>. QED
      BY <1>4, <3>1 DEF ActivationAllowed, Stores
  <2>3. c.action \in Optional(Nat)
    <3>1. s.trans.action # None /\ s.trans.action.id = c.action
      BY DEF CommitPre
    <3>2. s.trans \in Transitions
      BY <1>2, InstalledFacts
    <3>3. s.trans.action \in Actions
      BY <3>1, <3>2 DEF Transitions, Optional
    <3>. QED
      BY <3>1, <3>3 DEF Actions, Optional
  <2>4. a \in Stores
    BY <1>4, <2>1, <2>2, <2>3, ActivatedFacts
  <2>. HIDE DEF a
  <2>. QED
    BY <2>1, <2>4, ReplacedFacts
<1>. HIDE DEF u
<1>7a. /\ r.member = u.member /\ r.term = u.term /\ r.epoch = u.epoch
       /\ r.revision = u.revision /\ r.repl = u.repl /\ r.owner = u.owner
       /\ r.active = u.active /\ r.bound = u.bound /\ r.trans = u.trans
       /\ c.op # None => /\ r.ops[c.op].life = "completed"
                         /\ \A p \in Op : p # c.op => r.ops[p] = u.ops[p]
       /\ c.op = None => r.ops = u.ops
  <2>1. CASE c.op = None
    BY <1>5, <2>1
  <2>2. CASE c.op # None
    <3>1. c.op \in Op /\ r = Finished(u, c.op, "completed", "none")
      BY <1>2, <1>5, <2>2
    <3>. QED
      BY ONLY <1>7, <2>2, <3>1, FinishedFields
  <2>. QED
    BY <2>1, <2>2
<1>8. /\ r.member = s.member /\ r.term = TargetTerm(c)
      /\ r.revision = s.revision /\ r.repl = s.repl /\ r.epoch = c.epoch
      /\ r.owner = c.cand.node /\ r.active /\ r.bound = c.action /\ r.trans = None
  BY <1>4, <1>6, <1>7a
<1>9. /\ c.op # None => /\ r.ops[c.op].life = "completed"
                        /\ \A p \in Op : p # c.op => r.ops[p] = s.ops[p]
      /\ c.op = None => r.ops = s.ops
  BY <1>4, <1>6, <1>7a
<1>10. RequestsStep(s, r, c)
  <2>1. CASE c.op = None
    BY <1>9, <2>1 DEF RequestsStep
  <2>2. CASE c.op # None
    BY <1>2, <1>9, <2>2, EndingEffect
  <2>. QED
    BY <2>1, <2>2
<1>11. TransitionStep(s, r, i + 1)
  BY <1>2, <1>8, <1>9 DEF TransitionStep, Controlled, Over
<1>12. r.revision >= s.revision /\ r.repl >= s.repl
  BY <1>1, <1>8
<1>13. CommitPresent(r, i + 1, c)
  BY <1>1, <1>2, <1>8, <1>9 DEF CommitPresent, AnchorHolds, HasAssignment, IsMember
<1>14. Spent(r, i + 1, c)
  <2>1. SpentRef(r, i + 1, c)
    BY <1>2, <1>3, <1>8 DEF SpentRef, TransitionMatches
  <2>. QED
    BY <2>1 DEF Spent
<1>. QED
  BY <1>10, <1>11, <1>12, <1>13, <1>14 DEF EffectStep

(* Whatever the command: what a committed entry that applies leaves.       *)
LEMMA PostEffect ==
    ASSUME NEW i \in Nat, NEW s, NEW c, Settled(s, i), CommandOK(c),
           ~Present(s, i + 1, c), Pre(s, i + 1, c), NEW r, r = Post(s, i + 1, c)
    PROVE  EffectStep(s, r, i + 1, c) /\ Present(r, i + 1, c) /\ Spent(r, i + 1, c)
<1>0. Settled(r, i + 1)
  BY PostKeeps
<1>1. CASE c.t = "submit"
  BY <1>1, SubmitEffect DEF Pre, Post, Present
<1>2. CASE c.t = "fence"
  BY <1>2, FenceEffect DEF Pre, Post, Present
<1>3. CASE c.t = "activate"
  BY <1>3, ActivateEffect DEF Pre, Post, Present
<1>4. CASE c.t = "assign"
  BY <1>4, AssignEffect DEF Pre, Post, Present
<1>5. CASE c.t = "remove"
  BY <1>5, RemoveEffect DEF Pre, Post, Present
<1>6. CASE c.t = "repl"
  BY <1>6, ReplEffect DEF Pre, Post, Present
<1>7. CASE c.t = "controlled"
  BY <1>0, <1>7, BeginControlledEffect DEF Pre, Post, Present
<1>8. CASE c.t = "uncontrolled"
  BY <1>0, <1>8, BeginUncontrolledEffect DEF Pre, Post, Present
<1>9. CASE c.t = "candidate"
  BY <1>0, <1>9, SetCandidateEffect DEF Pre, Post, Present
<1>10. CASE c.t = "recover"
  BY <1>0, <1>10, RecoverEffect DEF Pre, Post, Present
<1>11. CASE c.t = "authorize"
  BY <1>0, <1>11, AuthorizeEffect DEF Pre, Post, Present
<1>12. CASE c.t = "abort"
  BY <1>0, <1>12, AbortEffect DEF Pre, Post, Present
<1>13. CASE c.t = "degrade"
  BY <1>0, <1>13, DegradeEffect DEF Pre, Post, Present
<1>14. CASE c.t = "commit"
  BY <1>0, <1>14, CommitEffect DEF Pre, Post, Present
<1>. QED
  BY <1>1, <1>2, <1>3, <1>4, <1>5, <1>6, <1>7, <1>8, <1>9, <1>10, <1>11, <1>12,
     <1>13, <1>14, BoundsAssumption, ZenonT(60) DEF CommandOK

-----------------------------------------------------------------------------
(* The inductive invariant.                                                *)

\* A proposed cutover of a request was authorized without loss.
CutoverLossless ==
    \A c \in flight : c.t = "commit" /\ c.op # None => c.loss = "none"

\* An entry that took effect is spent.
Retired == \A c \in done : CommandOK(c) /\ Spent(stores, index, c)

RInv == CutoverLossless /\ Retired /\ ReplayExact /\ CompletedMeansCutover

(* An entry that changes nothing ages what is spent by one index. *)
LEMMA SpentAges ==
    ASSUME NEW i \in Nat, NEW s, NEW c, Spent(s, i, c)
    PROVE  Spent(s, i + 1, c)
<1>1. SpentRef(s, i, c) => SpentRef(s, i + 1, c)
  BY DEF SpentRef
<1>. QED
  BY <1>1 DEF Spent

(* The two ways an entry ends: it changes nothing, or it takes effect.     *)
LEMMA ApplyEffect ==
    ASSUME NEW i \in Nat, NEW s, NEW c, Settled(s, i), CommandOK(c),
           NEW r, r = Apply(s, i + 1, c)
    PROVE  \/ /\ r = s
              /\ ~(~Present(s, i + 1, c) /\ Pre(s, i + 1, c))
           \/ /\ Pre(s, i + 1, c) /\ r = Post(s, i + 1, c)
              /\ Settled(r, i + 1) /\ AuthorityStep(s, r)
              /\ EffectStep(s, r, i + 1, c) /\ Present(r, i + 1, c) /\ Spent(r, i + 1, c)
<1>1. CASE ~Present(s, i + 1, c) /\ Pre(s, i + 1, c)
  <2>1. r = Post(s, i + 1, c)
    BY <1>1 DEF Apply
  <2>2. Settled(r, i + 1) /\ AuthorityStep(s, r)
    BY <1>1, <2>1, PostKeeps
  <2>3. EffectStep(s, r, i + 1, c) /\ Present(r, i + 1, c) /\ Spent(r, i + 1, c)
    BY <1>1, <2>1, PostEffect
  <2>. QED
    BY <1>1, <2>1, <2>2, <2>3
<1>2. CASE ~(~Present(s, i + 1, c) /\ Pre(s, i + 1, c))
  BY <1>2 DEF Apply
<1>. QED
  BY <1>1, <1>2

LEMMA InitRInv == Init => RInv
<1>. SUFFICES ASSUME Init PROVE RInv
  OBVIOUS
<1>1. PICK n \in Node :
        /\ stores = Genesis(n)
        /\ grants = {[term |-> 1, owner |-> n, action |-> None, op |-> None,
                      loss |-> "none"]}
  BY DEF Init
<1>2. flight = {} /\ last = None /\ done = {}
  BY DEF Init
<1>3. \A o \in Op : stores.ops[o].life = "absent"
  BY <1>1 DEF Genesis
<1>4. \A g \in grants : g.op = None
  BY <1>1
<1>5. CompletedMeansCutover
  BY <1>3, <1>4, NoneIsNoValue DEF CompletedMeansCutover
<1>. QED
  BY <1>2, <1>5 DEF RInv, CutoverLossless, Retired, ReplayExact

(* Only a lossless cutover is proposed for a request. *)
LEMMA KnownLossless ==
    ASSUME Settled(stores, index), index \in Nat,
           NEW c \in UNION {Submits, Administrative, Aborts, Continuations},
           c.t = "commit", c.op # None
    PROVE  c.loss = "none"
<1>1. c \in Continuations
  BY DEF Submits, Administrative, Aborts
<1>2. stores.trans # None /\ stores.trans.action # None
  BY <1>1 DEF Continuations
<1>3. c \notin Recoveries /\ c \notin Authorizations /\ c \notin Degrades
  <2>1. c \notin Recoveries
    BY SMTT(30) DEF Recoveries
  <2>2. c \notin Authorizations
    BY SMTT(30) DEF Authorizations
  <2>3. c \notin Degrades
    BY SMTT(30) DEF Degrades
  <2>. QED
    BY <2>1, <2>2, <2>3
<1>4. stores.trans.action.auth # None /\ c \in Commits
  BY <1>1, <1>2, <1>3 DEF Continuations
<1>5. c.op = stores.trans.op /\ c.loss = stores.trans.action.auth.loss
  BY <1>4, SMTT(30) DEF Commits
<1>6. stores.trans \in Transitions /\ ValidTransition(stores.trans)
  BY <1>2, InstalledFacts DEF TransitionConsistent
<1>7. stores.trans.mode \in {"controlled", "uncontrolled"}
  BY <1>6 DEF Transitions
<1>. QED
  BY <1>4, <1>5, <1>6, <1>7 DEF ValidTransition

(* A new id never comes with a commit.                                     *)
LEMMA FreshNoCommit ==
    ASSUME NEW id, NEW c \in Assigns(id) \cup Begins(id)
    PROVE  c.t # "commit"
<1>1. c \in Assigns(id) => c.t = "assign"
  BY DEF Assigns
<1>2. c \in BeginsControlled(id) => c.t = "controlled"
  BY DEF BeginsControlled
<1>3. c \in BeginsUncontrolled(id) => c.t = "uncontrolled"
  BY DEF BeginsUncontrolled
<1>4. c \in SetsCandidate(id) => c.t = "candidate"
  BY SMTT(30) DEF SetsCandidate
<1>. QED
  BY <1>1, <1>2, <1>3, <1>4 DEF Begins

(* Proposing changes no store.                                             *)
LEMMA ProposeRInv ==
    ASSUME RInv, NEW c, Propose(c), c.t = "commit" /\ c.op # None => c.loss = "none"
    PROVE  RInv'
<1>1. /\ flight' = flight \cup {c} /\ stores' = stores /\ index' = index
      /\ last' = last /\ done' = done /\ grants' = grants
  BY DEF Propose
<1>2. CutoverLossless'
  BY <1>1 DEF RInv, CutoverLossless
<1>3. Retired'
  BY <1>1 DEF RInv, Retired
<1>4. ReplayExact'
  BY <1>1 DEF RInv, ReplayExact
<1>5. CompletedMeansCutover'
  BY <1>1 DEF RInv, CompletedMeansCutover
<1>. QED
  BY <1>2, <1>3, <1>4, <1>5 DEF RInv

(* What took effect stays spent, and the new command becomes so.           *)
LEMMA CommitRetired ==
    ASSUME IInv, Retired, NEW c \in flight, Commit(c)
    PROVE  Retired'
<1>1. index \in Nat /\ Settled(stores, index) /\ CommandOK(c)
  BY IInvSettled DEF IInv, TypeOK
<1>2. /\ index' = index + 1 /\ stores' = Apply(stores, index + 1, c)
      /\ done' = IF stores' # stores THEN done \cup {c} ELSE done
  BY DEF Commit
<1>3. CASE stores' = stores
  <2>1. done' = done
    BY <1>2, <1>3
  <2>2. \A d \in done : Spent(stores, index + 1, d)
    BY <1>1, SpentAges DEF Retired
  <2>. QED
    BY <1>2, <1>3, <2>1, <2>2 DEF Retired
<1>4. CASE stores' # stores
  <2>1. /\ Settled(stores', index + 1) /\ AuthorityStep(stores, stores')
        /\ EffectStep(stores, stores', index + 1, c) /\ Spent(stores', index + 1, c)
    BY <1>1, <1>2, <1>4, ApplyEffect
  <2>2. \A d \in done : Spent(stores', index + 1, d)
    BY <1>1, <2>1, SpentStays DEF Retired
  <2>3. \A d \in done' : CommandOK(d) /\ Spent(stores', index', d)
    BY <1>1, <1>2, <1>4, <2>1, <2>2 DEF Retired
  <2>. QED
    BY <2>3 DEF Retired, CommandOK
<1>. QED
  BY <1>3, <1>4

(* An entry that was accepted is present when it comes again.              *)
LEMMA CommitReplay ==
    ASSUME IInv, NEW c \in flight, Commit(c)
    PROVE  ReplayExact'
<1>1. index \in Nat /\ Settled(stores, index) /\ CommandOK(c)
  BY IInvSettled DEF IInv, TypeOK
<1>2. /\ index' = index + 1 /\ stores' = Apply(stores, index + 1, c)
      /\ last' = [cmd |-> c, ok |-> Accepted(stores, index + 1, c)]
  BY DEF Commit
<1>3. last'.cmd = c /\ last'.ok = Accepted(stores, index + 1, c)
  BY <1>2
<1>4. /\ Accepted(stores', index', c) = Accepted(stores, index + 1, c)
      /\ Apply(stores', index', c) = stores'
  <2>1. CASE stores' = stores
    BY <1>2, <2>1
  <2>2. CASE stores' # stores
    <3>1. Pre(stores, index + 1, c) /\ Present(stores', index + 1, c)
      BY <1>1, <1>2, <2>2, ApplyEffect
    <3>2. Accepted(stores, index + 1, c) /\ Accepted(stores', index + 1, c)
      BY <3>1 DEF Accepted
    <3>3. Apply(stores', index + 1, c) = stores'
      BY <3>1 DEF Apply
    <3>. QED
      BY <1>2, <3>2, <3>3 DEF Accepted
  <2>. QED
    BY <2>1, <2>2
<1>. QED
  BY <1>3, <1>4 DEF ReplayExact

(* Only a cutover completes an operation.                                  *)
LEMMA CommitCompleted ==
    ASSUME IInv, CutoverLossless, CompletedMeansCutover, NEW c \in flight, Commit(c)
    PROVE  CompletedMeansCutover'
<1>. DEFINE h == GrantOf(stores', c, LossOf(c))
<1>1. index \in Nat /\ Settled(stores, index) /\ CommandOK(c)
  BY IInvSettled DEF IInv, TypeOK
<1>2. /\ index' = index + 1 /\ stores' = Apply(stores, index + 1, c)
      /\ grants' = IF stores'.active /\ Authority(stores') # Authority(stores)
                   THEN grants \cup {h} ELSE grants
  BY DEF Commit
<1>3. CASE stores' = stores
  <2>1. grants' = grants
    BY <1>2, <1>3
  <2>. QED
    BY <1>3, <2>1 DEF CompletedMeansCutover
<1>4. CASE stores' # stores
  <2>1. /\ EffectStep(stores, stores', index + 1, c)
        /\ Pre(stores, index + 1, c) /\ Present(stores', index + 1, c)
    BY <1>1, <1>2, <1>4, ApplyEffect
  <2>2. h.op = (IF c.t = "commit" THEN c.op ELSE None) /\ h.loss = LossOf(c)
    BY DEF GrantOf
  <2>. HIDE DEF h
  <2>3. grants \subseteq grants' /\ grants' \subseteq grants \cup {h}
    BY <1>2
  <2>4. ASSUME NEW o \in Op, c.t = "commit", c.op = o
        PROVE  stores'.ops[o].life = "completed" /\ h \in grants' /\ h.op = o /\ h.loss = "none"
    <3>1. c.op # None /\ c.loss = "none"
      BY <2>4, NoneIsNoValue DEF CutoverLossless
    <3>2. CommitPre(stores, index + 1, c) /\ CommitPresent(stores', index + 1, c)
      BY <2>1, <2>4 DEF Pre, Present
    <3>3. /\ stores'.ops[o].life = "completed" /\ stores'.active
          /\ stores'.term = c.anchor.term + 1 /\ stores.term = c.anchor.term
      BY <2>4, <3>1, <3>2 DEF CommitPre, CommitPresent, TargetTerm
    <3>4. Authority(stores') # Authority(stores)
      <4>1. stores.term \in Nat
        BY <1>1 DEF Settled, Stores
      <4>2. stores'.term # stores.term
        BY <3>3, <4>1
      <4>. QED
        BY <4>2 DEF Authority
    <3>. QED
      BY <1>2, <2>2, <2>4, <3>1, <3>3, <3>4 DEF LossOf
  <2>5. ASSUME NEW o \in Op, ~(c.t = "commit" /\ c.op = o)
        PROVE  /\ stores'.ops[o].life = "completed" <=> stores.ops[o].life = "completed"
               /\ h.op # o
    BY <2>1, <2>2, <2>5, NoneIsNoValue DEF EffectStep, RequestsStep, Over
  <2>6. ASSUME NEW o \in Op
        PROVE  stores'.ops[o].life = "completed"
                 <=> \E g \in grants' : g.op = o /\ g.loss = "none"
    <3>1. CASE c.t = "commit" /\ c.op = o
      BY <2>4, <3>1
    <3>2. CASE ~(c.t = "commit" /\ c.op = o)
      BY <2>3, <2>5, <3>2 DEF CompletedMeansCutover
    <3>. QED
      BY <3>1, <3>2
  <2>. QED
    BY <2>6 DEF CompletedMeansCutover
<1>. QED
  BY <1>3, <1>4

LEMMA NextRInv == IInv /\ RInv /\ [Next]_vars => RInv'
<1>. SUFFICES ASSUME IInv, RInv, [Next]_vars PROVE RInv'
  OBVIOUS
<1>1. index \in Nat /\ Settled(stores, index)
  BY IInvSettled DEF IInv
<1>2. CASE ProposeKnown
  <2>1. PICK c \in UNION {Submits, Administrative, Aborts, Continuations} : Propose(c)
    BY <1>2 DEF ProposeKnown
  <2>2. c.t = "commit" /\ c.op # None => c.loss = "none"
    BY <1>1, <2>1, KnownLossless
  <2>. QED
    BY <2>1, <2>2, ProposeRInv
<1>3. CASE ProposeFresh
  <2>1. PICK c \in Assigns(ids + 1) \cup Begins(ids + 1) : Propose(c)
    BY <1>3 DEF ProposeFresh
  <2>2. c.t # "commit"
    BY <2>1, FreshNoCommit
  <2>. QED
    BY <2>1, <2>2, ProposeRInv
<1>4. ASSUME NEW c \in flight, Commit(c)
      PROVE  RInv'
  <2>1. CutoverLossless'
    BY <1>4 DEF Commit, RInv, CutoverLossless
  <2>2. Retired' /\ ReplayExact' /\ CompletedMeansCutover'
    BY <1>4, CommitRetired, CommitReplay, CommitCompleted DEF RInv
  <2>. QED
    BY <2>1, <2>2 DEF RInv
<1>5. CASE UNCHANGED vars
  <2>1. /\ flight' = flight /\ stores' = stores /\ index' = index
        /\ last' = last /\ done' = done /\ grants' = grants
    BY <1>5 DEF vars
  <2>2. CutoverLossless' /\ CompletedMeansCutover'
    BY <2>1 DEF RInv, CutoverLossless, CompletedMeansCutover
  <2>3. Retired' /\ ReplayExact'
    BY <2>1 DEF RInv, Retired, ReplayExact
  <2>. QED
    BY <2>2, <2>3 DEF RInv
<1>. QED
  BY <1>2, <1>3, <1>4, <1>5 DEF Next

LEMMA ReplayInvariance == Spec => [](IInv /\ RInv)
BY InitIInv, NextIInv, InitRInv, NextRInv, PTL DEF Spec

-----------------------------------------------------------------------------
(* The theorems.                                                           *)

\* Raft may hand the last entry to the state machine again, at the same index,
\* after a restart: ApplyCommitted then accepts or rejects it as before and
\* leaves the stores alone, whatever the entry is.
THEOREM ReplayIsExact == Spec => []ReplayExact
BY ReplayInvariance, PTL DEF RInv

\* A failover request is Completed exactly when CommitFailoverTransition cut
\* over its own transition without loss: aborts, degrades and preemptions that
\* race the cutover win entirely or lose entirely.
THEOREM CompletionIsCutover == Spec => []CompletedMeansCutover
BY ReplayInvariance, PTL DEF RInv

(* What Retired says of a second delivery. *)
LEMMA RetiredInert == IInv /\ RInv => NoSecondEffect
<1>. SUFFICES ASSUME IInv, RInv, NEW c \in done
              PROVE  Apply(stores, index + 1, c) = stores
  BY DEF NoSecondEffect
<1>1. index \in Nat /\ Settled(stores, index)
  BY IInvSettled DEF IInv
<1>2. Present(stores, index + 1, c) \/ ~Pre(stores, index + 1, c)
  BY <1>1, SpentInert DEF RInv, Retired
<1>. QED
  BY <1>2 DEF Apply

\* A command proposed a second time, because the outcome of the first proposal
\* was unknown, never takes effect twice, however many entries came between.
THEOREM EffectsHappenOnce == Spec => []NoSecondEffect
BY ReplayInvariance, RetiredInert, PTL

(* No command moves the deadline of the transition it finds.               *)
LEMMA CutoffStep ==
    ASSUME IInv, [Next]_vars, stores.trans # None, stores'.trans # None,
           stores.trans.id = stores'.trans.id, stores.trans.deadline # None
    PROVE  stores'.trans.deadline = stores.trans.deadline
<1>1. CASE stores' = stores
  BY <1>1
<1>2. CASE stores' # stores
  <2>1. PICK c \in flight : Commit(c)
    BY <1>2 DEF Next, ProposeKnown, ProposeFresh, Propose, vars
  <2>2. index \in Nat /\ Settled(stores, index) /\ CommandOK(c)
    BY IInvSettled DEF IInv, TypeOK
  <2>3. stores' = Apply(stores, index + 1, c)
    BY <2>1 DEF Commit
  <2>4. EffectStep(stores, stores', index + 1, c)
    BY <1>2, <2>2, <2>3, ApplyEffect
  <2>. QED
    BY <2>4 DEF EffectStep, TransitionStep
<1>. QED
  BY <1>1, <1>2

\* A transition chooses its recovery cutoff once: no later candidate, recovery
\* or authorization of the same transition moves it.
THEOREM CutoffIsFixed == Spec => CutoffFixed
<1>1. IInv /\ [Next]_vars
        => [(/\ stores.trans # None /\ stores'.trans # None
             /\ stores.trans.id = stores'.trans.id /\ stores.trans.deadline # None)
            => stores'.trans.deadline = stores.trans.deadline]_vars
  BY CutoffStep
<1>. QED
  BY <1>1, Invariance, PTL DEF Spec, CutoffFixed
=============================================================================
