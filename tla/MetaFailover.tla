---- MODULE MetaFailover ----
(***************************************************************************)
(* One group of the Meta control plane under every command that concerns   *)
(* its authority.  Proposers (the failover and automatic-failover          *)
(* reconcilers, the control endpoint, on this or on an earlier leader)     *)
(* read the committed stores, build a command from what they read, and     *)
(* hand it to Raft.  By the time the entry commits, other entries may have *)
(* been committed: the commands in flight form a set, and any of them can  *)
(* be the next entry.  An entry lost with a deposed leader is one that is  *)
(* never committed.                                                        *)
(*                                                                         *)
(* Proposers are free here: which command is built depends only on what    *)
(* the command's own encoding demands of the committed view, not on        *)
(* observations of the Data nodes.  So what holds here holds whatever a    *)
(* reconciler decides.                                                     *)
(***************************************************************************)
EXTENDS FailoverApply

CONSTANTS MaxIndex,    \* committed entries
          MaxFlight,   \* commands proposed and not yet committed
          MaxId,       \* generated transition, action and assignment ids
          Kinds        \* the types of command the proposers issue

ASSUME BoundsAssumption ==
    /\ MaxIndex \in Nat /\ MaxFlight \in Nat /\ MaxId \in Nat
    /\ Kinds \subseteq {"submit", "fence", "activate", "assign", "remove", "repl",
                       "controlled", "uncontrolled", "candidate", "recover",
                       "authorize", "abort", "degrade", "commit"}

VARIABLES stores,      \* the committed stores
          index,       \* index of the last committed entry
          flight,      \* commands in flight
          ids,         \* the last generated id
          last,        \* the last entry: its command and its verdict
          done,        \* entries that changed the stores
          grants       \* every grant ever activated

vars == <<stores, index, flight, ids, last, done, grants>>

-----------------------------------------------------------------------------
(* The group as Genesis leaves it: the first owner holds term 1. *)

Genesis(n) ==
    [term |-> 1, owner |-> n, active |-> TRUE, bound |-> None,
     member |-> [m \in Node |-> [in |-> TRUE, assign |-> 0]],
     revision |-> 0, repl |-> 0, epoch |-> 0, trans |-> None,
     ops |-> [o \in Op |-> [life |-> "absent", seq |-> 0, why |-> "none"]]]

Authority(s) == <<s.term, s.owner, s.active, s.bound>>

GrantOf(s, c, loss) ==
    [term |-> s.term, owner |-> s.owner, action |-> s.bound,
     op |-> IF c.t = "commit" THEN c.op ELSE None, loss |-> loss]

Init ==
    /\ \E n \in Node :
         /\ stores = Genesis(n)
         /\ grants = {[term |-> 1, owner |-> n, action |-> None, op |-> None,
                       loss |-> "none"]}
    /\ index = 0
    /\ flight = {}
    /\ ids = 0
    /\ last = None
    /\ done = {}

-----------------------------------------------------------------------------
(* The commands a proposer can build from the committed stores. *)

Action(id, n, domain, oper) ==
    [id |-> id, cand |-> [node |-> n, assign |-> stores.member[n].assign],
     domain |-> domain, auth |-> None, oper |-> oper]

\* The owner assignment a controlled candidate follows.
OwnerDomain == [term |-> stores.term, node |-> stores.owner,
                assign |-> stores.member[stores.owner].assign]

\* An uncontrolled candidate last followed the owner of some earlier term.
PastDomain == [term |-> stores.term - 1, node |-> stores.owner,
               assign |-> stores.member[stores.owner].assign]

Members == {n \in Node : IsMember(stores, n)}

Submits == [t : {"submit"}, op : Op]

Administrative ==
    [t : {"fence"}, term : {stores.term}]
    \cup [t : {"activate"}, owner : Members, term : {stores.term},
          epoch : {stores.epoch + 1}]
    \cup [t : {"remove"}, node : Members, revision : {stores.revision},
          epoch : {stores.epoch + 1}]
    \cup [t : {"repl"}, repl : {stores.repl}, epoch : {stores.epoch + 1}]

\* Commands that carry a freshly generated id.
Assigns(id) ==
    [t : {"assign"}, node : Node \ Members, assign : {id},
     revision : {stores.revision}, epoch : {stores.epoch + 1}]

BeginsControlled(id) ==
    [t : {"controlled"}, op : PreemptableRequests(stores), id : {id},
     anchor : {AnchorOf(stores)},
     action : {Action(id, n, OwnerDomain, FALSE) : n \in Members \ {stores.owner}}]

BeginsUncontrolled(id) ==
    {[t |-> "uncontrolled", id |-> id, anchor |-> AnchorOf(stores),
      action |-> None, auto |-> TRUE, hint |-> h] :
        h \in PreemptableRequests(stores) \cup {None}}
    \cup
    {[t |-> "uncontrolled", id |-> id, anchor |-> AnchorOf(stores),
      action |-> a, auto |-> FALSE, hint |-> None] :
        a \in {None} \cup {Action(id, n, OwnerDomain, oper) :
                             n \in Members, oper \in BOOLEAN}}

SetsCandidate(id) ==
    {[t |-> "candidate", ref |-> RefOf(stores.trans), action |-> a] :
        a \in {None} \cup {Action(id, n, PastDomain, oper) :
                             n \in Members, oper \in BOOLEAN}}

Begins(id) ==
    IF stores.trans = None
    THEN IF IsMember(stores, stores.owner)
         THEN BeginsControlled(id) \cup BeginsUncontrolled(id) ELSE {}
    ELSE SetsCandidate(id)

\* Commands about the installed transition and its action.
Recoveries ==
    {[t |-> "recover", ref |-> RefOf(stores.trans),
      action |-> stores.trans.action.id, deadline |-> d] : d \in Deadline}

Authorizations ==
    {[t |-> "authorize", ref |-> RefOf(stores.trans),
      action |-> stores.trans.action.id,
      loss |-> IF Controlled(stores.trans) THEN "none" ELSE "unknown"]}

\* Only an action authorized without loss may be retained by a degrade.
Retainable(action) == action.auth # None /\ action.auth.loss = "none"

Degrades ==
    {[t |-> "degrade", op |-> stores.trans.op, ref |-> RefOf(stores.trans),
      action |-> stores.trans.action, retain |-> r, why |-> "degraded"] :
        r \in {r \in BOOLEAN : r => Retainable(stores.trans.action)}}

Aborts ==
    {[t |-> "abort", op |-> o, why |-> "aborted",
      ref |-> IF OwnTransition(stores, o) THEN RefOf(stores.trans) ELSE None] :
        o \in PreemptableRequests(stores)}

Commits ==
    {[t |-> "commit", op |-> stores.trans.op, ref |-> RefOf(stores.trans),
      action |-> stores.trans.action.id, auth |-> stores.trans.action.auth.rev,
      cand |-> stores.trans.action.cand, anchor |-> AnchorOf(stores),
      loss |-> stores.trans.action.auth.loss, epoch |-> stores.epoch + 1]}

Continuations ==
    IF stores.trans = None \/ stores.trans.action = None THEN {}
    ELSE UNION {Recoveries, Authorizations,
                IF Controlled(stores.trans) THEN Degrades ELSE {},
                IF stores.trans.action.auth # None THEN Commits ELSE {}}

-----------------------------------------------------------------------------
Propose(c) ==
    /\ c.t \in Kinds
    /\ Cardinality(flight) < MaxFlight
    /\ index + Cardinality(flight) < MaxIndex
    /\ flight' = flight \cup {c}
    /\ UNCHANGED <<stores, index, last, done, grants>>

ProposeKnown ==
    /\ \E c \in UNION {Submits, Administrative, Aborts, Continuations} : Propose(c)
    /\ UNCHANGED ids

ProposeFresh ==
    /\ ids < MaxId
    /\ ids' = ids + 1
    /\ \E c \in Assigns(ids + 1) \cup Begins(ids + 1) : Propose(c)

\* The cutover result an activation reports.
LossOf(c) == IF c.t = "commit" THEN c.loss ELSE "unknown"

Commit(c) ==
    /\ index < MaxIndex
    /\ index' = index + 1
    /\ stores' = Apply(stores, index + 1, c)
    /\ last' = [cmd |-> c, ok |-> Accepted(stores, index + 1, c)]
    /\ done' = IF stores' # stores THEN done \cup {c} ELSE done
    /\ grants' = IF stores'.active /\ Authority(stores') # Authority(stores)
                 THEN grants \cup {GrantOf(stores', c, LossOf(c))} ELSE grants
    /\ flight' = flight \ {c}
    /\ UNCHANGED ids

Next == ProposeKnown \/ ProposeFresh \/ \E c \in flight : Commit(c)

Spec == Init /\ [][Next]_vars

-----------------------------------------------------------------------------
(* Properties. *)

\* What a command carries that the stores take over unchecked.
CommandOK(c) ==
    /\ c.t \in Kinds
    /\ c.t \in {"submit", "abort", "degrade"} => c.op \in Op
    /\ c.t \in {"abort", "degrade"} => c.why \in {"aborted", "degraded"}
    /\ c.t = "assign" => c.node \in Node /\ c.assign \in Nat
    /\ c.t = "controlled" => c.id \in Nat /\ c.action \in Actions
    /\ c.t = "uncontrolled" => c.id \in Nat /\ c.action \in Optional(Actions)
    /\ c.t = "candidate" => c.action \in Optional(Actions)
    /\ c.t = "recover" => c.deadline \in Deadline
    /\ c.t = "authorize" => c.loss \in Losses
    /\ c.t = "commit" => c.op \in Optional(Op) /\ c.loss \in Losses

Grants == [term : Nat, owner : Node, action : Optional(Nat), op : Optional(Op),
           loss : Losses]

\* The stores, the commands in flight and the history have their types.
TypeOK ==
    /\ index \in 0..MaxIndex /\ ids \in 0..MaxId
    /\ stores \in Stores
    /\ \A o \in Op : stores.ops[o].seq <= index
    /\ stores.trans # None => stores.trans.rev <= index
    /\ \A c \in flight : CommandOK(c)
    /\ grants \subseteq Grants

\* Every command keeps the cross-store facts a snapshot restore insists on
\* (ValidateDecodedAggregate): otherwise the next restart or snapshot install
\* of a Meta replica fails stop.
AggregateValid == ConsistentStores(stores)

\* Redelivering the last entry at its own index gives the verdict it had and
\* changes nothing; the audit store fails stop on a different verdict.
ReplayExact ==
    last # None => /\ Accepted(stores, index, last.cmd) = last.ok
                   /\ Apply(stores, index, last.cmd) = stores

\* A term is granted at most once, to one owner and through one action,
\* whatever commands race: two owners never hold authority in the same term.
GrantOnce == \A g, h \in grants : g.term = h.term => g = h

\* A failover request is reported complete exactly when its own transition cut
\* over without loss: an abort, degrade or preemption that races the commit
\* loses entirely or wins entirely.
CompletedMeansCutover ==
    \A o \in Op : stores.ops[o].life = "completed"
                  <=> \E g \in grants : g.op = o /\ g.loss = "none"

\* An entry that already changed the stores changes nothing when it is
\* proposed again and committed at a later index, as after a proposal whose
\* outcome was uncertain.
NoSecondEffect == \A c \in done : Apply(stores, index + 1, c) = stores

\* Between an uncontrolled Begin (or a degrade) and its cutover, the recovery
\* cutoff of the transition is chosen once: replacing the candidate keeps it.
CutoffFixed ==
    [][(/\ stores.trans # None /\ stores'.trans # None
        /\ stores.trans.id = stores'.trans.id /\ stores.trans.deadline # None)
       => stores'.trans.deadline = stores.trans.deadline]_vars

=============================================================================
