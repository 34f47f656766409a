---- MODULE MCMetaFailover ----
(* Small instances of MetaFailover for TLC.                                *)
EXTENDS MetaFailover, TLC

NodeSymmetry == Permutations(Node)

OpSymmetry == Permutations(Op)

Symmetry == NodeSymmetry \cup OpSymmetry

AllKinds == {"submit", "fence", "activate", "assign", "remove", "repl",
             "controlled", "uncontrolled", "candidate", "recover",
             "authorize", "abort", "degrade", "commit"}

=============================================================================
