---------------------------- MODULE MCScheduler ----------------------------
(* Instances of Scheduler for TLC: quanta and boost interval scaled down   *)
(* from 5, 10, 20 and 100 ticks.                                           *)
EXTENDS SchedulerRefinement, TLC

MCQuantum == [l \in Levels |-> CASE l = 0 -> 1 [] l = 1 -> 2 [] l = 2 -> 2]

(* Two ticks at level 0, so that a thread can yield before it expires.     *)
MCLiveQuantum == [l \in Levels |-> IF l = 0 THEN 2 ELSE 1]

MCSymmetry == Permutations(Threads) \cup Permutations(Channels)
=============================================================================
