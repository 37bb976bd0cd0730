------------------------- MODULE SchedulerRefinement -------------------------
(***************************************************************************)
(* Scheduler implements AbstractScheduler: Ready and Running are runnable, *)
(* whichever queue the thread is in, and the reaper's and the idle         *)
(* thread's turns are the kernel's.                                        *)
(***************************************************************************)
EXTENDS Scheduler

AbsState == [t \in Threads |->
               CASE state[t] \in {"Ready", "Running"} -> "Runnable"
                 [] state[t] = "Terminated" -> "Dead"
                 [] OTHER -> state[t]]

Abstract == INSTANCE AbstractScheduler
              WITH Kernel <- Idle,
                   tstate <- AbsState,
                   wchan <- [t \in Threads |-> chan[t]],
                   current <- IF current \in Threads THEN current ELSE Idle

(* Every behaviour of the feedback-queue scheduler and its reaper is one   *)
(* of the abstract scheduler: only runnable threads get the CPU, a wake-up *)
(* releases the sleepers it promises and no other, and only dead threads   *)
(* are freed.                                                              *)
ImplementsAbstract == Abstract!ThreadSpec
=============================================================================
