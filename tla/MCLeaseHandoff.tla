-------------------------- MODULE MCLeaseHandoff ---------------------------
(***************************************************************************)
(* LeaseHandoff for TLC: two leaderships, two Data nodes, one change of    *)
(* owner, and either one restart of a node or two units of suspension per  *)
(* leader.                                                                 *)
(* The liveness window, the margin and the lease are two units each, as    *)
(* the server derives them from one option.  An election may come one unit *)
(* after a heartbeat, which is shorter than the window, and a role may be  *)
(* withdrawn one unit late.  The first leader starts at time 4; with the   *)
(* election and the quarantine of the next holder, which is 4 units, time  *)
(* 9 is the first at which a second leader can grant.                      *)
(***************************************************************************)
EXTENDS LeaseHandoff, TLC

Restarted == \E n \in Nodes : boot[n] > 1

Suspended == \E l \in Leaders : leader[l].offset > 0

MCNext == Next /\ ~(Restarted' /\ Suspended')

MCSpec == Init /\ [][MCNext]_vars
=============================================================================
