-------------------------- MODULE MCFixedHeartbeat --------------------------
(* The cycles are numbered in the order they are begun.  The lanes differ     *)
(* only in the abort of a draft: the first cycle is in either, the second in   *)
(* one (which is that of a cycle not yet claimed, too).                       *)
EXTENDS FixedHeartbeat

MCCycles == 1 .. 2

MCNext == Next /\ claim'[2].lane = "p1"
MCFairSpec == Init /\ [][MCNext]_vars /\ Fairness

=============================================================================
