--------------------------- MODULE MCNodeControl ---------------------------
(* Instances of NodeControl for TLC. *)
EXTENDS NodeControl, TLC

Local(term, granted, paused, activation) ==
    [owner |-> TRUE, term |-> term, granted |-> granted, paused |-> paused, activation |-> activation]

Remote(term) ==
    [owner |-> FALSE, term |-> term, granted |-> TRUE, paused |-> FALSE, activation |-> FALSE]

\* Meta pauses the group of this node and lifts the pause.
Paused == <<Local(1, TRUE, FALSE, FALSE), Local(1, TRUE, TRUE, FALSE), Local(1, TRUE, FALSE, FALSE)>>

\* This node keeps the group.
Owner == <<Local(1, TRUE, FALSE, FALSE)>>

\* A promoted candidate keeps the group.
Sole == <<Local(1, TRUE, FALSE, TRUE)>>

\* This node loses the group and follows the new owner.
Retired == <<Local(1, TRUE, FALSE, FALSE), Remote(2)>>

Course(projections, storageFails, sessions, changes, time, writes) ==
    [projections |-> projections, storageFails |-> storageFails, sessions |-> sessions,
     changes |-> changes, time |-> time, writes |-> writes]

\* A pause that is lifted, over two sessions; two writes and a fence; the move of
\* the group to another node; a population lost or rebuilt under the owner; a
\* promoted owner whose storage fails.
SafetyScenarios ==
    {Course(Paused,  FALSE, 2, 0, 2, 1),
     Course(Owner,   FALSE, 1, 0, 1, 2),
     Course(Retired, FALSE, 1, 2, 1, 1),
     Course(Owner,   FALSE, 1, 2, 1, 1),
     Course(Sole,    TRUE,  1, 0, 2, 1)}

\* An owner whose storage fails, and one whose population is lost and rebuilt.
LiveScenarios ==
    {Course(Owner, TRUE, 1, 0, 1, 1), Course(Owner, FALSE, 1, 2, 1, 1)}

ReadmissionScenarios == {Course(Owner, FALSE, 1, 3, 1, 1)}

ResetScenarios == {Course(Retired, FALSE, 1, 1, 1, 1)}

Symmetry == Permutations(Requests)
=============================================================================
