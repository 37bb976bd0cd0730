------------------------------ MODULE Process ------------------------------
(***************************************************************************)
(* The process tree: PIDs, fork, exit, waitpid and clone, over the         *)
(* scheduler that AbstractScheduler describes.                             *)
(*                                                                         *)
(* A Process is named by its address.  An address is used again after      *)
(* delete, so a pointer that outlives its process may come to denote       *)
(* another one.  A process is its own wait channel: waitpid sleeps on the  *)
(* child.  A system call runs with interrupts masked, so it is one action, *)
(* or two when it sleeps: the second, WaitResume, is all that a thread     *)
(* resumed inside waitpid can do, with the child pointer it read before.   *)
(***************************************************************************)
EXTENDS AbstractScheduler, Lists

CONSTANTS
    Procs,      \* addresses a Process can have: a bound on live processes
    kMaxPid     \* size of the PID bitmap

nullptr == NoChannel

ASSUME ProcsAssumption ==
    /\ Procs \subseteq Channels
    /\ NoChannel \notin Channels
    /\ Kernel \notin Threads
    /\ kMaxPid \in Nat \ {0, 1}

VARIABLES
    pstate,     \* Process::m_state; "Free": no Process at that address
    pid,        \* Process::m_pid
    parent,     \* Process::m_parent, a raw pointer
    children,   \* Process::m_children, linked through child_node
    pids,       \* s_pid_bitmap: the PIDs that are set
    owner,      \* Thread::m_process, a raw pointer
    waitFor     \* the child a thread inside waitpid holds across Block

procs == <<pstate, pid, parent, children, pids>>
vars == <<tvars, procs, owner, waitFor>>

Live == {p \in Procs : pstate[p] # "Free"}
Pids == 0..(kMaxPid - 1)

TypeOK ==
    /\ ThreadTypeOK
    /\ pstate \in [Procs -> {"Free", "Running", "Zombie"}]
    /\ pid \in [Procs -> Pids]
    /\ parent \in [Procs -> Procs \cup {nullptr}]
    /\ children \in [Procs -> Seq(Procs)]
    /\ pids \subseteq Pids
    /\ owner \in [Threads -> Procs \cup {nullptr}]
    /\ waitFor \in [Threads -> Procs \cup {nullptr}]

----------------------------------------------------------------------------
(* Spawn has created init, PID 1, with one thread; PID 0 is reserved.      *)
Init ==
    /\ ThreadInit
    /\ \E init \in Procs :
         /\ pstate = [p \in Procs |-> IF p = init THEN "Running" ELSE "Free"]
         /\ pid = [p \in Procs |-> IF p = init THEN 1 ELSE 0]
         /\ owner = [t \in Threads |-> IF tstate[t] = "Runnable" THEN init ELSE nullptr]
    /\ parent = [p \in Procs |-> nullptr]
    /\ children = [p \in Procs |-> <<>>]
    /\ pids = {0, 1}
    /\ waitFor = [t \in Threads |-> nullptr]

(* FindFirstUnsetAndSet: the first PID that is not set, if there is one.   *)
PidAlloc == {n \in Pids \ pids : \A m \in Pids \ pids : n <= m}

(* Faulty: Reap forgets the PID.                                           *)
PidFreedNever(n) == pids

(* PidFree: PID 0 and PID 1 are never recycled.                            *)
PidFreed(n) == IF n < 2 THEN pids ELSE pids \ {n}

(* A thread about to make a system call: it runs user code, so it is not   *)
(* inside waitpid, and its process exists (a thread whose process has been *)
(* deleted is beyond the model: LiveThreadsOwnLiveProcess).                *)
Calls(t, p) ==
    /\ current = t
    /\ t \in Threads
    /\ waitFor[t] = nullptr
    /\ p = owner[t]
    /\ p \in Live

(* The timer interrupt or a yield: not inside a system call.               *)
Preempt ==
    /\ current \in Threads => waitFor[current] = nullptr
    /\ Reschedule
    /\ UNCHANGED <<procs, owner, waitFor>>

(* fork, and clone without CLONE_VM.  When the bitmap is full the call     *)
(* returns EAGAIN and changes nothing.                                     *)
Fork(t, p, c, new) ==
    /\ Calls(t, p)
    /\ c \in Procs \ Live
    /\ \E n \in PidAlloc :
         /\ pid' = [pid EXCEPT ![c] = n]
         /\ pids' = pids \cup {n}
    /\ pstate' = [pstate EXCEPT ![c] = "Running"]
    /\ parent' = [parent EXCEPT ![c] = p]
    /\ children' = [children EXCEPT ![c] = <<>>, ![p] = Append(@, c)]
    /\ owner' = [owner EXCEPT ![new] = c]
    /\ AddThread(new)
    /\ UNCHANGED waitFor

(* clone with CLONE_VM: another thread of the same process.                *)
Clone(t, p, new) ==
    /\ Calls(t, p)
    /\ owner' = [owner EXCEPT ![new] = p]
    /\ AddThread(new)
    /\ UNCHANGED <<procs, waitFor>>

(* Faulty: waitpid's caller is not woken.                                  *)
ExitWakesNobody(p) == {{}}

(* Exit wakes one thread that sleeps on the process, if it has a parent.   *)
ExitWakes(p) == IF parent[p] # nullptr THEN WakeSets(p, FALSE) ELSE {{}}

(* exit, exit_group and the default action of a fatal signal: the process  *)
(* becomes a zombie, whatever other threads it has, and the calling thread *)
(* goes to the reaper and leaves the CPU.                                  *)
ExitProcess(t, p) ==
    /\ Calls(t, p)
    /\ pstate' = [pstate EXCEPT ![p] = "Zombie"]
    /\ \E W \in ExitWakes(p) :
         /\ wchan' = ReleasedChan(W)
         /\ Dispatch([Released(W) EXCEPT ![t] = "Dead"])
    /\ UNCHANGED <<pid, parent, children, pids, owner, waitFor>>

(* The first child with that PID, or the first of all when search is 0.    *)
Matches(p, search) ==
    {i \in DOMAIN children[p] : search = 0 \/ pid[children[p][i]] = search}

(* Faulty: any process with that PID will do.                              *)
FindProcess(p, search) == {q \in Live \ {p} : search = 0 \/ pid[q] = search}

FindChild(p, search) ==
    {children[p][i] : i \in {j \in Matches(p, search) :
                               \A k \in Matches(p, search) : j <= k}}

(* Faulty: the child stays in the list.                                    *)
KeepChild(p, c) == UNCHANGED children

(* The end of waitpid: RemoveChild and Reap.                               *)
RemoveChild(p, c) ==
    children' = [children EXCEPT ![p] = Sublist(@, {i \in DOMAIN @ : @[i] # c})]

Reap(c) ==
    /\ pids' = PidFreed(pid[c])
    /\ pstate' = [pstate EXCEPT ![c] = "Free"]

RemoveAndReap(p, c) ==
    /\ RemoveChild(p, c)
    /\ Reap(c)
    /\ UNCHANGED <<pid, parent>>

(* Faulty: waitpid sleeps before it looks at the child's state.            *)
WaitBlockAnyway(t, p, c) ==
    /\ waitFor' = [waitFor EXCEPT ![t] = c]
    /\ Block(c)
    /\ UNCHANGED procs

(* Faulty: waitpid takes the child without looking at its state.           *)
WaitReapAnyway(t, p, c) ==
    /\ RemoveAndReap(p, c)
    /\ UNCHANGED <<tvars, waitFor>>

(* waitpid up to its return, or up to Block.  Without a child (ECHILD) or  *)
(* with WNOHANG and a child that runs nothing changes.                     *)
WaitReap(t, p, c) ==
    /\ pstate[c] = "Zombie"
    /\ RemoveAndReap(p, c)
    /\ UNCHANGED <<tvars, waitFor>>

WaitBlock(t, p, c) ==
    /\ pstate[c] # "Zombie"
    /\ waitFor' = [waitFor EXCEPT ![t] = c]
    /\ Block(c)
    /\ UNCHANGED procs

Waitpid(t, p, search) ==
    /\ Calls(t, p)
    /\ \E c \in FindChild(p, search) : WaitReap(t, p, c) \/ WaitBlock(t, p, c)
    /\ UNCHANGED owner

(* waitpid after Block: ECHILD unless the child, whose pointer was read    *)
(* before the sleep, is a zombie.                                          *)
WaitResume(t, p, c) ==
    /\ current = t
    /\ t \in Threads
    /\ p = owner[t]
    /\ c = waitFor[t]
    /\ c # nullptr
    /\ waitFor' = [waitFor EXCEPT ![t] = nullptr]
    /\ IF pstate[c] = "Zombie" THEN RemoveAndReap(p, c) ELSE UNCHANGED procs
    /\ UNCHANGED <<tvars, owner>>

(* The reaper deletes a dead thread; it reads its process on the way.      *)
ReclaimThread(t) ==
    /\ Reclaim(t)
    /\ owner' = [owner EXCEPT ![t] = nullptr]
    /\ UNCHANGED <<procs, waitFor>>

----------------------------------------------------------------------------
SysCall(t, p) ==
    \/ ExitProcess(t, p)
    \/ \E c \in Procs, new \in Threads : Fork(t, p, c, new)
    \/ \E search \in Pids : Waitpid(t, p, search)
    \/ \E c \in Procs : WaitResume(t, p, c)

Next ==
    \/ Preempt
    \/ \E t \in Threads, p \in Procs : SysCall(t, p)
    \/ \E t \in Threads : ReclaimThread(t)

Spec == Init /\ [][Next]_vars

(* With processes that have several threads.                               *)
CloneNext == Next \/ \E t, new \in Threads, p \in Procs : Clone(t, p, new)
CloneSpec == Init /\ [][CloneNext]_vars

----------------------------------------------------------------------------
(* What the process tree promises.                                         *)

(* The bitmap is exactly PID 0 and the PIDs of the processes that exist,   *)
(* and no two of those share one: PIDs neither leak nor are given out      *)
(* twice, across any order of fork, exit, waitpid and reuse.               *)
PidPoolExact ==
    /\ pids = {0} \cup {pid[p] : p \in Live}
    /\ \A p, q \in Live : pid[p] = pid[q] => p = q
    /\ \A p \in Live : pid[p] # 0

(* A process's list of children holds each child once, and only processes  *)
(* that exist and name it as their parent, so FindChild and RemoveChild    *)
(* never follow a link into a deleted process.                             *)
ChildrenSound ==
    \A p \in Live :
        /\ NoRepeat(children[p])
        /\ \A c \in Elems(children[p]) : c \in Live /\ parent[c] = p

(* The child that waitpid read before it slept is still its child when it  *)
(* continues: it runs as long as the caller sleeps, and is a zombie, which *)
(* Reap may delete, once the caller has been woken.                        *)
WaitedChildSound ==
    \A t \in Threads : waitFor[t] # nullptr =>
        /\ waitFor[t] \in Elems(children[owner[t]])
        /\ tstate[t] = "Blocked" => pstate[waitFor[t]] = "Running"
        /\ tstate[t] = "Runnable" => pstate[waitFor[t]] = "Zombie"
        /\ tstate[t] \in {"Blocked", "Runnable"}

(* No wake-up of waitpid is lost: a thread never sleeps on a process that  *)
(* has exited or is gone.                                                  *)
NoSleeperOnZombie ==
    \A t \in Threads : tstate[t] = "Blocked" => pstate[wchan[t]] = "Running"

(* A thread that can still run belongs to a process that runs: no system   *)
(* call is made on behalf of a zombie or a deleted process.                *)
LiveThreadsOwnLiveProcess ==
    \A t \in Threads : tstate[t] \in {"Runnable", "Blocked"} =>
        /\ owner[t] \in Procs
        /\ pstate[owner[t]] = "Running"

(* A process ends only as a zombie, and by its parent's waitpid; PID 1 is  *)
(* never recycled.                                                         *)
ReapedByParentOnly ==
    [][\A p \in Live : pstate'[p] = "Free" =>
          /\ pstate[p] = "Zombie"
          /\ current \in Threads /\ parent[p] = owner[current]
          /\ pid[p] # 1]_vars

(* Reaper::ThreadFunc reads the process of the thread it deletes: that     *)
(* process must not have been deleted before it.                           *)
ReaperOwnerLive ==
    \A t \in Threads : tstate[t] = "Dead" => pstate[owner[t]] # "Free"

(* waitpid for any child sleeps only when no child is a zombie.            *)
WaitAnyFindsZombie ==
    [][\A t \in Threads, p \in Procs :
          Waitpid(t, p, 0) =>
            \/ waitFor'[t] = nullptr
            \/ \A c \in Elems(children[p]) : pstate[c] # "Zombie"]_vars

(* A zombie is a process whose parent has yet to call waitpid: some        *)
(* process that exists has it in its list of children.                     *)
ZombieHasParent ==
    \A z \in Procs : pstate[z] = "Zombie" /\ pid[z] # 1 =>
        \E p \in Live : z \in Elems(children[p])
=============================================================================
