------------------------------- MODULE MCPipe -------------------------------
(* Instances of Pipe for TLC: threads of one process, and one thread each  *)
(* of the process that creates the pipe and of one it forks.               *)
EXTENDS Pipe, TLC

CONSTANTS t1, t2, t3, p1, p2

MCSiblings == [t \in Threads |-> p1]
MCOwner == [t \in Threads |-> IF t = t2 THEN p2 ELSE p1]

MCSymmetry == Permutations(Threads)
=============================================================================
