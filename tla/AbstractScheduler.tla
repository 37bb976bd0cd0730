-------------------------- MODULE AbstractScheduler --------------------------
(***************************************************************************)
(* What the rest of the kernel may assume of its scheduler: a thread is    *)
(* runnable, sleeps on a channel, or is dead; some runnable thread, or the *)
(* kernel's own threads (idle and the reaper), have the CPU; Wake releases *)
(* every sleeper of a channel or one of them.  Order, priorities and       *)
(* quanta are left out, and so is progress: a runnable thread need not be  *)
(* chosen.  SchedulerRefinement shows that Scheduler implements it, and    *)
(* Process builds on it.                                                   *)
(***************************************************************************)
CONSTANTS
    Threads,    \* thread objects
    Channels,   \* addresses to sleep on
    NoChannel,  \* nullptr
    Kernel      \* stands for the idle and the reaper thread

VARIABLES
    tstate,     \* life of each thread
    wchan,      \* what a Blocked thread sleeps on
    current     \* the thread on the CPU

tvars == <<tstate, wchan, current>>

ThreadTypeOK ==
    /\ tstate \in [Threads -> {"Free", "Runnable", "Blocked", "Dead"}]
    /\ wchan \in [Threads -> Channels \cup {NoChannel}]
    /\ current \in Threads \cup {Kernel}

Runnable(ts) == {t \in Threads : ts[t] = "Runnable"}

(* Give the CPU to a runnable thread or to the kernel.                     *)
Dispatch(ts) ==
    /\ tstate' = ts
    /\ current' \in Runnable(ts) \cup {Kernel}

Sleepers(ch) == {t \in Threads : tstate[t] = "Blocked" /\ wchan[t] = ch}

(* The sets of threads that Wake(ch, wake_all) may release.                *)
WakeSets(ch, wake_all) ==
    IF wake_all \/ Sleepers(ch) = {} THEN {Sleepers(ch)}
    ELSE {{t} : t \in Sleepers(ch)}

Released(W) == [t \in Threads |-> IF t \in W THEN "Runnable" ELSE tstate[t]]
ReleasedChan(W) == [t \in Threads |-> IF t \in W THEN NoChannel ELSE wchan[t]]

----------------------------------------------------------------------------
ThreadInit ==
    \E init \in Threads :
        /\ tstate = [t \in Threads |-> IF t = init THEN "Runnable" ELSE "Free"]
        /\ wchan = [t \in Threads |-> NoChannel]
        /\ current = Kernel

AddThread(t) ==
    /\ current \in Threads
    /\ tstate[t] = "Free"
    /\ tstate' = [tstate EXCEPT ![t] = "Runnable"]
    /\ UNCHANGED <<wchan, current>>

(* A timer interrupt or a yield.                                           *)
Reschedule == Dispatch(tstate) /\ UNCHANGED wchan

Block(ch) ==
    /\ current \in Threads
    /\ wchan' = [wchan EXCEPT ![current] = ch]
    /\ Dispatch([tstate EXCEPT ![current] = "Blocked"])

Wake(ch, wake_all) ==
    /\ current \in Threads
    /\ \E W \in WakeSets(ch, wake_all) :
         tstate' = Released(W) /\ wchan' = ReleasedChan(W)
    /\ UNCHANGED current

Exit(ch) ==
    /\ current \in Threads
    /\ \E W \in WakeSets(ch, FALSE) :
         /\ wchan' = ReleasedChan(W)
         /\ Dispatch([Released(W) EXCEPT ![current] = "Dead"])

(* The reaper frees a dead thread.                                         *)
Reclaim(t) ==
    /\ current = Kernel
    /\ tstate[t] = "Dead"
    /\ tstate' = [tstate EXCEPT ![t] = "Free"]
    /\ UNCHANGED <<wchan, current>>

ThreadNext ==
    \/ Reschedule
    \/ \E t \in Threads : AddThread(t) \/ Reclaim(t)
    \/ \E ch \in Channels : Block(ch) \/ Exit(ch)
    \/ \E ch \in Channels, wake_all \in BOOLEAN : Wake(ch, wake_all)

ThreadSpec == ThreadInit /\ [][ThreadNext]_tvars
=============================================================================
