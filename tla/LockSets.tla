------------------------------ MODULE LockSets ------------------------------
(***************************************************************************)
(* What the lock table of a shard promises the scheduler, without the      *)
(* counters: who has recorded intents, who holds, and that every answer is *)
(* decided by the lock sets of the others.  TxScheduler uses the table in  *)
(* this form; LockTable implements it.                                     *)
(***************************************************************************)
EXTENDS Naturals

CONSTANTS Owners, Fps, Wants

VARIABLES intents, holds, answer

setVars == <<intents, holds, answer>>

\* Lock sets with a common fingerprint that one of the two wants exclusively.
Clash(a, b) ==
    \E k \in DOMAIN Wants[a] \cap DOMAIN Wants[b] :
        Wants[a][k] = "exclusive" \/ Wants[b][k] = "exclusive"

Compatible(o, others) == \A p \in others \ {o} : ~Clash(o, p)

SetInit == intents = {} /\ holds = {} /\ answer = TRUE

\* Intents are recorded whatever the answer; the fast path also holds.
SetIntend(o, fast) ==
    /\ o \notin intents
    /\ intents' = intents \cup {o}
    /\ answer' = Compatible(o, intents)
    /\ holds' = IF fast /\ answer' THEN holds \cup {o} ELSE holds

\* Poll asks whether the entry could hold, and lets it hold when it can.
SetTryHold(o) ==
    /\ o \in intents \ holds
    /\ answer' = Compatible(o, holds)
    /\ holds' = IF answer' THEN holds \cup {o} ELSE holds
    /\ UNCHANGED intents

SetRelease(o) ==
    /\ o \in intents
    /\ intents' = intents \ {o}
    /\ holds' = holds \ {o}
    /\ UNCHANGED answer

SetNext ==
    \E o \in Owners :
        \/ \E fast \in BOOLEAN : SetIntend(o, fast)
        \/ SetTryHold(o)
        \/ SetRelease(o)

SetSpec == SetInit /\ [][SetNext]_setVars

=============================================================================
