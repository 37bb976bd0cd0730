----------------------------- MODULE ProcessProofs -----------------------------
(***************************************************************************)
(* The process tree stays sound for any number of processes, threads and   *)
(* PIDs.                                                                   *)
(*                                                                         *)
(* That waitpid finds its child again after a sleep depends on nobody else *)
(* reaping it meanwhile, hence on there being one thread per process, on   *)
(* the child naming one parent, and on Exit waking that parent.  IInv adds *)
(* to the properties what the argument needs: a thread asleep sleeps on    *)
(* the child it waits for, the thread on the CPU can run, no two threads   *)
(* that live share a process, and PID 1 is nobody's child.                 *)
(***************************************************************************)
EXTENDS Process, ListProofs

Living(t) == tstate[t] \in {"Runnable", "Blocked"}

OneThread ==
    \A t, u \in Threads : Living(t) /\ Living(u) /\ owner[t] = owner[u] => t = u

CurrentRuns == current \in Threads => tstate[current] = "Runnable"

SleepsOnChild ==
    \A t \in Threads :
        tstate[t] = "Blocked" => waitFor[t] \in Procs /\ wchan[t] = waitFor[t]

InitKeepsPid ==
    /\ 1 \in pids
    /\ \A p \in Live : \A c \in Elems(children[p]) : pid[c] # 1

(* What concerns processes only, and what concerns their threads.          *)
TreeOK == PidPoolExact /\ InitKeepsPid /\ ChildrenSound
ThreadsOK ==
    /\ WaitedChildSound
    /\ LiveThreadsOwnLiveProcess
    /\ OneThread
    /\ CurrentRuns
    /\ SleepsOnChild

IInv == TypeOK /\ TreeOK /\ ThreadsOK

----------------------------------------------------------------------------
(* nullptr is no process, and the kernel no thread.                        *)
LEMMA Distinct == nullptr \notin Procs /\ Kernel \notin Threads
BY ProcsAssumption DEF nullptr

(* A list without one child.                                               *)
Without(s, c) == Sublist(s, {i \in DOMAIN s : s[i] # c})

(* RemoveChild takes one child out of the list and keeps the others.       *)
LEMMA RemoveOne ==
  ASSUME NEW T, NEW s \in Seq(T), NEW c
  PROVE  /\ Without(s, c) \in Seq(T)
         /\ Elems(Without(s, c)) = Elems(s) \ {c}
         /\ NoRepeat(s) => NoRepeat(Without(s, c))
<1> DEFINE W == {i \in DOMAIN s : s[i] # c}
<1>1. W \in SUBSET (DOMAIN s)
  OBVIOUS
<1>2. /\ Sublist(s, W) \in Seq(T)
      /\ Elems(Sublist(s, W)) = {s[i] : i \in W}
      /\ NoRepeat(s) => NoRepeat(Sublist(s, W))
  BY <1>1, SublistElems
<1>3. {s[i] : i \in W} = Elems(s) \ {c}
  BY DEF Elems
<1> QED  BY <1>2, <1>3 DEF Without

(* The last steps of waitpid: the child of p goes, and nothing else does.  *)
LEMMA ReapStep ==
  ASSUME IInv, NEW p \in Live, NEW c \in Elems(children[p]), RemoveAndReap(p, c)
  PROVE  /\ c \in Live /\ parent[c] = p /\ pid[c] # 1
         /\ pstate' = [pstate EXCEPT ![c] = "Free"]
         /\ pstate' \in [Procs -> {"Free", "Running", "Zombie"}]
         /\ children' \in [Procs -> Seq(Procs)]
         /\ pids' \subseteq Pids
         /\ UNCHANGED <<pid, parent>>
         /\ Live' = Live \ {c}
         /\ \A q \in Procs, d \in Procs : d \in Elems(children'[q]) <=>
                d \in Elems(children[q]) /\ ~(q = p /\ d = c)
         /\ TreeOK'
<1>1. /\ p \in Procs /\ children \in [Procs -> Seq(Procs)]
      /\ pstate \in [Procs -> {"Free", "Running", "Zombie"}]
      /\ pid \in [Procs -> Pids] /\ pids \subseteq Pids
  BY DEF IInv, TypeOK, Live
<1>2. c \in Live /\ parent[c] = p /\ pid[c] # 1 /\ c \in Procs
  BY DEF IInv, TreeOK, ChildrenSound, InitKeepsPid, Live
<1> DEFINE rest == Without(children[p], c)
<1>3. /\ children' = [children EXCEPT ![p] = rest]
      /\ pids' = PidFreed(pid[c])
      /\ pstate' = [pstate EXCEPT ![c] = "Free"]
      /\ pid' = pid /\ parent' = parent
  BY DEF RemoveAndReap, RemoveChild, Reap, Without
<1>4. /\ rest \in Seq(Procs)
      /\ Elems(rest) = Elems(children[p]) \ {c}
      /\ NoRepeat(children[p]) => NoRepeat(rest)
  <2>1. children[p] \in Seq(Procs)
    BY <1>1
  <2> QED  BY <2>1, RemoveOne
<1> HIDE DEF rest
<1>5. /\ children' \in [Procs -> Seq(Procs)]
      /\ \A q \in Procs : children'[q] = IF q = p THEN rest ELSE children[q]
  BY <1>1, <1>3, <1>4
<1>6. Live' = Live \ {c}
  BY <1>1, <1>2, <1>3 DEF Live
<1>7. \A q \in Procs : /\ Elems(children'[q]) \subseteq Procs
                       /\ \A d \in Procs : d \in Elems(children'[q]) <=>
                             d \in Elems(children[q]) /\ ~(q = p /\ d = c)
  <2> TAKE q \in Procs
  <2>1. Elems(children'[q]) \subseteq Procs
    BY <1>5, ElemsType
  <2>2. CASE q = p
    BY <2>1, <2>2, <1>4, <1>5
  <2>3. CASE q # p
    BY <2>1, <2>3, <1>5
  <2> QED  BY <2>2, <2>3
<1>8. pids' = pids \ {pid[c]}
  <2>1. pid[c] \in Nat /\ pid[c] # 0
    BY <1>1, <1>2, ProcsAssumption DEF IInv, TreeOK, PidPoolExact, Pids
  <2> QED  BY <1>2, <1>3, <2>1 DEF PidFreed
<1>9. PidPoolExact'
  BY <1>2, <1>3, <1>6, <1>8 DEF IInv, TreeOK, PidPoolExact
<1>10. InitKeepsPid'
  BY <1>2, <1>3, <1>6, <1>7, <1>8 DEF IInv, TreeOK, InitKeepsPid, Live
<1>11. ChildrenSound'
  <2> SUFFICES ASSUME NEW q \in Live'
               PROVE  /\ NoRepeat(children'[q])
                      /\ \A d \in Elems(children'[q]) : d \in Live' /\ parent'[d] = q
    BY DEF ChildrenSound
  <2>1. q \in Live /\ q # c /\ q \in Procs
    BY <1>6 DEF Live
  <2>2. NoRepeat(children[q]) /\ \A d \in Elems(children[q]) : d \in Live /\ parent[d] = q
    BY <2>1 DEF IInv, TreeOK, ChildrenSound
  <2>3. NoRepeat(children'[q])
    BY <2>1, <2>2, <1>4, <1>5
  <2>4. \A d \in Elems(children'[q]) : d \in Live' /\ parent'[d] = q
    BY <2>1, <2>2, <1>2, <1>3, <1>6, <1>7
  <2> QED  BY <2>3, <2>4
<1> QED
  BY <1>1, <1>2, <1>3, <1>5, <1>6, <1>7, <1>8, <1>9, <1>10, <1>11 DEF TreeOK

----------------------------------------------------------------------------
(* waitpid reaps: whoever else waits, waits for another child, because a   *)
(* child has one parent and a process one thread.                          *)
LEMMA ReapInv ==
  ASSUME IInv, NEW t \in Threads, NEW c \in Elems(children[owner[t]]),
         current = t, owner[t] \in Live, pstate[c] = "Zombie",
         RemoveAndReap(owner[t], c),
         waitFor' = [waitFor EXCEPT ![t] = nullptr],
         UNCHANGED <<tvars, owner>>
  PROVE  IInv'
<1> DEFINE p == owner[t]
<1>1. /\ c \in Live /\ parent[c] = p
      /\ pstate' = [pstate EXCEPT ![c] = "Free"]
      /\ pstate' \in [Procs -> {"Free", "Running", "Zombie"}]
      /\ children' \in [Procs -> Seq(Procs)]
      /\ pids' \subseteq Pids
      /\ UNCHANGED <<pid, parent>>
      /\ \A q \in Procs, d \in Procs : d \in Elems(children'[q]) <=>
                d \in Elems(children[q]) /\ ~(q = p /\ d = c)
      /\ TreeOK'
  BY ReapStep
<1>2. TypeOK'
  <2>1. waitFor' \in [Threads -> Procs \cup {nullptr}]
    BY DEF IInv, TypeOK
  <2> QED
    BY <1>1, <2>1 DEF IInv, TypeOK, ThreadTypeOK, tvars
<1>3. tstate' = tstate /\ wchan' = wchan /\ current' = current /\ owner' = owner
  BY DEF tvars
<1>4. c \in Procs /\ p \in Procs /\ tstate[t] = "Runnable" /\ t \in Threads
  BY <1>1 DEF IInv, ThreadsOK, CurrentRuns, Live
<1>5. \A u \in Threads : Living(u) => owner[u] \in Procs /\ pstate[owner[u]] = "Running" /\ owner[u] # c
  BY DEF IInv, ThreadsOK, LiveThreadsOwnLiveProcess, Living
<1>6. LiveThreadsOwnLiveProcess'
  BY <1>1, <1>3, <1>5 DEF IInv, TypeOK, LiveThreadsOwnLiveProcess, Living
<1>7. OneThread' /\ CurrentRuns'
  BY <1>3 DEF IInv, ThreadsOK, OneThread, CurrentRuns, Living
<1>8. \A u \in Threads : u # t => waitFor'[u] = waitFor[u]
  BY DEF IInv, TypeOK
<1>9. waitFor'[t] = nullptr
  BY DEF IInv, TypeOK
<1>10. SleepsOnChild'
  BY <1>3, <1>4, <1>8 DEF IInv, ThreadsOK, SleepsOnChild
<1>11. WaitedChildSound'
  <2> SUFFICES ASSUME NEW u \in Threads, waitFor'[u] # nullptr
               PROVE  /\ waitFor'[u] \in Elems(children'[owner[u]])
                      /\ tstate[u] = "Blocked" => pstate'[waitFor'[u]] = "Running"
                      /\ tstate[u] = "Runnable" => pstate'[waitFor'[u]] = "Zombie"
                      /\ tstate[u] \in {"Blocked", "Runnable"}
    BY <1>3 DEF WaitedChildSound
  <2>1. u # t /\ waitFor'[u] = waitFor[u]
    BY <1>8, <1>9
  <2>2. /\ waitFor[u] \in Elems(children[owner[u]])
        /\ tstate[u] = "Blocked" => pstate[waitFor[u]] = "Running"
        /\ tstate[u] = "Runnable" => pstate[waitFor[u]] = "Zombie"
        /\ Living(u)
    BY <2>1 DEF IInv, ThreadsOK, WaitedChildSound, Living
  <2>3. waitFor[u] \in Procs
    BY <2>1 DEF IInv, TypeOK
  <2>4. owner[u] \in Live /\ owner[u] # p
    BY <2>1, <2>2, <1>4, <1>5 DEF IInv, ThreadsOK, OneThread, Living, Live
  <2>5. waitFor[u] # c
    <3>1. parent[waitFor[u]] = owner[u]
      BY <2>2, <2>4 DEF IInv, TreeOK, ChildrenSound
    <3> QED  BY <3>1, <2>4, <1>1
  <2>6. waitFor[u] \in Elems(children'[owner[u]])
    BY <2>2, <2>3, <2>4, <1>1 DEF Live
  <2>7. pstate'[waitFor[u]] = pstate[waitFor[u]]
    BY <2>3, <2>5, <1>1 DEF IInv, TypeOK
  <2> QED  BY <2>1, <2>2, <2>6, <2>7 DEF Living
<1> QED
  BY <1>1, <1>2, <1>6, <1>7, <1>10, <1>11 DEF IInv, ThreadsOK

(* A timer interrupt or a yield changes who runs, and no more.             *)
LEMMA PreemptInv ==
  ASSUME IInv, Preempt
  PROVE  IInv'
<1>1. /\ tstate' = tstate /\ wchan' = wchan
      /\ current' \in Runnable(tstate) \cup {Kernel}
      /\ UNCHANGED <<procs, owner, waitFor>>
  BY DEF Preempt, Reschedule, Dispatch
<1>2. TypeOK'
  BY <1>1 DEF IInv, TypeOK, ThreadTypeOK, Runnable, procs
<1>3. TreeOK'
  BY <1>1 DEF IInv, TreeOK, PidPoolExact, InitKeepsPid, ChildrenSound, Live, procs
<1>4. CurrentRuns'
  BY <1>1, Distinct DEF CurrentRuns, Runnable
<1>5. WaitedChildSound' /\ LiveThreadsOwnLiveProcess' /\ OneThread' /\ SleepsOnChild'
  BY <1>1 DEF IInv, ThreadsOK, WaitedChildSound, LiveThreadsOwnLiveProcess, OneThread,
              SleepsOnChild, Living, procs
<1> QED  BY <1>2, <1>3, <1>4, <1>5 DEF IInv, ThreadsOK

(* A dead thread is freed; it waits for nobody.                            *)
LEMMA ReclaimInv ==
  ASSUME IInv, NEW t \in Threads, ReclaimThread(t)
  PROVE  IInv'
<1>1. /\ tstate[t] = "Dead" /\ tstate' = [tstate EXCEPT ![t] = "Free"]
      /\ current = Kernel /\ UNCHANGED <<wchan, current>>
      /\ owner' = [owner EXCEPT ![t] = nullptr]
      /\ UNCHANGED <<procs, waitFor>>
  BY DEF ReclaimThread, Reclaim
<1>2. TypeOK'
  BY <1>1 DEF IInv, TypeOK, ThreadTypeOK, procs
<1>3. TreeOK'
  BY <1>1 DEF IInv, TreeOK, PidPoolExact, InitKeepsPid, ChildrenSound, Live, procs
<1>4. CurrentRuns'
  BY <1>1, Distinct DEF CurrentRuns
<1>5. \A u \in Threads : /\ Living(u)' <=> Living(u)
                         /\ Living(u) => tstate'[u] = tstate[u] /\ owner'[u] = owner[u]
  BY <1>1 DEF IInv, TypeOK, ThreadTypeOK, Living
<1>6. \A u \in Threads : tstate'[u] = "Blocked" => tstate[u] = "Blocked"
  BY <1>1 DEF IInv, TypeOK, ThreadTypeOK
<1>7. OneThread' /\ SleepsOnChild' /\ LiveThreadsOwnLiveProcess'
  BY <1>1, <1>5, <1>6 DEF IInv, ThreadsOK, LiveThreadsOwnLiveProcess, OneThread,
              SleepsOnChild, Living, procs
<1>8. WaitedChildSound'
  <2>1. \A u \in Threads : waitFor[u] # nullptr => Living(u)
    BY DEF IInv, ThreadsOK, WaitedChildSound, Living
  <2> QED
    BY <2>1, <1>1, <1>5 DEF IInv, ThreadsOK, WaitedChildSound, Living, procs
<1> QED  BY <1>2, <1>3, <1>4, <1>7, <1>8 DEF IInv, ThreadsOK

(* waitpid goes to sleep on a child that runs.                             *)
LEMMA WaitBlockInv ==
  ASSUME IInv, NEW t \in Threads, NEW p \in Procs, NEW c \in Elems(children[p]),
         Calls(t, p), WaitBlock(t, p, c), owner' = owner
  PROVE  IInv'
<1>1. /\ current = t /\ waitFor[t] = nullptr /\ p = owner[t] /\ p \in Live
      /\ pstate[c] # "Zombie"
      /\ waitFor' = [waitFor EXCEPT ![t] = c]
      /\ wchan' = [wchan EXCEPT ![t] = c]
      /\ tstate' = [tstate EXCEPT ![t] = "Blocked"]
      /\ current' \in Runnable(tstate') \cup {Kernel}
      /\ UNCHANGED procs /\ owner' = owner
  BY DEF Calls, WaitBlock, Block, Dispatch
<1>2. c \in Live /\ c \in Procs /\ pstate[c] = "Running"
  BY <1>1 DEF IInv, TypeOK, TreeOK, ChildrenSound, Live
<1>3. c \in Channels
  BY <1>2, ProcsAssumption
<1>4. TypeOK'
  BY <1>1, <1>2, <1>3 DEF IInv, TypeOK, ThreadTypeOK, Runnable, procs
<1>5. TreeOK'
  BY <1>1 DEF IInv, TreeOK, PidPoolExact, InitKeepsPid, ChildrenSound, Live, procs
<1>6. tstate[t] = "Runnable"
  BY <1>1 DEF IInv, ThreadsOK, CurrentRuns
<1>7. /\ tstate'[t] = "Blocked" /\ waitFor'[t] = c /\ wchan'[t] = c
      /\ \A u \in Threads : u # t =>
            tstate'[u] = tstate[u] /\ waitFor'[u] = waitFor[u] /\ wchan'[u] = wchan[u]
  BY <1>1 DEF IInv, TypeOK, ThreadTypeOK
<1>8. CurrentRuns'
  BY <1>1, Distinct DEF CurrentRuns, Runnable
<1>9. \A u \in Threads : Living(u)' <=> Living(u)
  BY <1>6, <1>7 DEF Living
<1>10. LiveThreadsOwnLiveProcess' /\ OneThread'
  BY <1>1, <1>9 DEF IInv, ThreadsOK, LiveThreadsOwnLiveProcess, OneThread, Living, procs
<1>11. SleepsOnChild'
  BY <1>2, <1>7 DEF IInv, ThreadsOK, SleepsOnChild
<1>12. WaitedChildSound'
  BY <1>1, <1>2, <1>7 DEF IInv, ThreadsOK, WaitedChildSound, procs
<1> QED  BY <1>4, <1>5, <1>8, <1>10, <1>11, <1>12 DEF IInv, ThreadsOK

(* The one thread that Exit wakes is every thread that sleeps on the       *)
(* process.                                                                *)
LEMMA ExitWakesAll ==
  ASSUME IInv, NEW p \in Procs, NEW W \in ExitWakes(p)
  PROVE  W = Sleepers(p)
<1>1. ASSUME NEW u \in Sleepers(p)
      PROVE  u \in Threads /\ Living(u) /\ owner[u] \in Procs /\ parent[p] = owner[u]
  <2>1. u \in Threads /\ tstate[u] = "Blocked" /\ wchan[u] = p
    BY DEF Sleepers
  <2>2. waitFor[u] = p /\ waitFor[u] # nullptr
    BY <2>1, Distinct DEF IInv, ThreadsOK, SleepsOnChild
  <2>3. Living(u) /\ owner[u] \in Live
    BY <2>1 DEF IInv, ThreadsOK, LiveThreadsOwnLiveProcess, Living, Live
  <2>4. p \in Elems(children[owner[u]])
    BY <2>1, <2>2 DEF IInv, ThreadsOK, WaitedChildSound
  <2> QED  BY <2>1, <2>3, <2>4 DEF IInv, TreeOK, ChildrenSound, Live
<1>2. CASE Sleepers(p) = {}
  <2>1. ExitWakes(p) = {{}}
    BY <1>2 DEF ExitWakes, WakeSets
  <2> QED  BY <1>2, <2>1
<1>3. CASE Sleepers(p) # {}
  <2>1. PICK u \in Sleepers(p) : TRUE
    BY <1>3
  <2>2. parent[p] # nullptr
    BY <1>1, <2>1, Distinct
  <2>3. ExitWakes(p) = {{v} : v \in Sleepers(p)}
    BY <1>3, <2>2 DEF ExitWakes, WakeSets
  <2>4. PICK v \in Sleepers(p) : W = {v}
    BY <2>3
  <2>5. \A x \in Sleepers(p) : x = v
    BY <1>1 DEF IInv, ThreadsOK, OneThread
  <2> QED  BY <2>4, <2>5
<1> QED  BY <1>2, <1>3

(* exit: the parent asleep in waitpid is woken as the process becomes a    *)
(* zombie, and the process had no other thread.                            *)
LEMMA ExitInv ==
  ASSUME IInv, NEW t \in Threads, NEW p \in Procs, ExitProcess(t, p)
  PROVE  IInv'
<1>1. /\ current = t /\ waitFor[t] = nullptr /\ p = owner[t] /\ p \in Live
      /\ pstate' = [pstate EXCEPT ![p] = "Zombie"]
      /\ UNCHANGED <<pid, parent, children, pids, owner, waitFor>>
  BY DEF ExitProcess, Calls
<1> DEFINE W == Sleepers(p)
<1>2. /\ wchan' = ReleasedChan(W)
      /\ tstate' = [Released(W) EXCEPT ![t] = "Dead"]
      /\ current' \in Runnable(tstate') \cup {Kernel}
  BY ExitWakesAll DEF ExitProcess, Dispatch
<1>3. tstate[t] = "Runnable" /\ t \notin W
  BY <1>1 DEF IInv, ThreadsOK, CurrentRuns, Sleepers
<1>4. /\ tstate'[t] = "Dead"
      /\ \A u \in Threads : u # t =>
            tstate'[u] = IF u \in W THEN "Runnable" ELSE tstate[u]
      /\ \A u \in Threads : wchan'[u] = IF u \in W THEN NoChannel ELSE wchan[u]
  BY <1>2 DEF Released, ReleasedChan
<1>5. TypeOK'
  BY <1>1, <1>2 DEF IInv, TypeOK, ThreadTypeOK, Runnable, Released, ReleasedChan
<1>6. Live' = Live
  BY <1>1 DEF Live, IInv, TypeOK
<1>7. TreeOK'
  BY <1>1, <1>6 DEF IInv, TreeOK, PidPoolExact, InitKeepsPid, ChildrenSound
<1>8. CurrentRuns'
  BY <1>2, Distinct DEF CurrentRuns, Runnable
<1>9. \A u \in Threads : Living(u)' <=> Living(u) /\ u # t
  BY <1>3, <1>4 DEF Living, Sleepers
<1>10. OneThread'
  BY <1>1, <1>9 DEF IInv, ThreadsOK, OneThread
<1>11. LiveThreadsOwnLiveProcess'
  <2> SUFFICES ASSUME NEW u \in Threads, Living(u)'
               PROVE  owner'[u] \in Procs /\ pstate'[owner'[u]] = "Running"
    BY DEF LiveThreadsOwnLiveProcess, Living
  <2>1. Living(u) /\ u # t
    BY <1>9
  <2>2. owner[u] \in Procs /\ pstate[owner[u]] = "Running"
    BY <2>1 DEF IInv, ThreadsOK, LiveThreadsOwnLiveProcess, Living
  <2>3. owner[u] # p
    BY <2>1, <1>1, <1>3 DEF IInv, ThreadsOK, OneThread, Living
  <2> QED  BY <2>2, <2>3, <1>1 DEF IInv, TypeOK
<1>12. SleepsOnChild'
  <2> SUFFICES ASSUME NEW u \in Threads, tstate'[u] = "Blocked"
               PROVE  waitFor'[u] \in Procs /\ wchan'[u] = waitFor'[u]
    BY DEF SleepsOnChild
  <2>1. u \notin W /\ tstate[u] = "Blocked"
    BY <1>4
  <2> QED  BY <2>1, <1>1, <1>4 DEF IInv, ThreadsOK, SleepsOnChild
<1>13. WaitedChildSound'
  <2> SUFFICES ASSUME NEW u \in Threads, waitFor[u] # nullptr
               PROVE  /\ waitFor[u] \in Elems(children[owner[u]])
                      /\ tstate'[u] = "Blocked" => pstate'[waitFor[u]] = "Running"
                      /\ tstate'[u] = "Runnable" => pstate'[waitFor[u]] = "Zombie"
                      /\ tstate'[u] \in {"Blocked", "Runnable"}
    BY <1>1 DEF WaitedChildSound
  <2>1. /\ waitFor[u] \in Elems(children[owner[u]])
        /\ tstate[u] = "Blocked" => pstate[waitFor[u]] = "Running"
        /\ tstate[u] = "Runnable" => pstate[waitFor[u]] = "Zombie"
        /\ tstate[u] \in {"Blocked", "Runnable"}
    BY DEF IInv, ThreadsOK, WaitedChildSound
  <2>2. waitFor[u] \in Procs /\ u # t
    BY <1>1 DEF IInv, TypeOK
  <2>3. pstate[p] = "Running"
    BY <1>1, <1>3 DEF IInv, ThreadsOK, LiveThreadsOwnLiveProcess
  <2>4. u \in W <=> tstate[u] = "Blocked" /\ waitFor[u] = p
    BY DEF IInv, ThreadsOK, SleepsOnChild, Sleepers
  <2>5. CASE waitFor[u] = p
    <3>1. u \in W
      BY <2>1, <2>3, <2>4, <2>5
    <3>2. pstate'[p] = "Zombie"
      BY <1>1 DEF IInv, TypeOK
    <3> QED  BY <3>1, <3>2, <2>1, <2>2, <2>5, <1>4
  <2>6. CASE waitFor[u] # p
    <3>1. tstate'[u] = tstate[u]
      BY <2>2, <2>4, <2>6, <1>4
    <3>2. pstate'[waitFor[u]] = pstate[waitFor[u]]
      BY <2>2, <2>6, <1>1 DEF IInv, TypeOK
    <3> QED  BY <3>1, <3>2, <2>1
  <2> QED  BY <2>5, <2>6
<1> QED  BY <1>5, <1>7, <1>8, <1>10, <1>11, <1>12, <1>13 DEF IInv, ThreadsOK

(* fork: the child's address and PID were nobody's, and the new thread is  *)
(* the child's only one.                                                   *)
LEMMA ForkInv ==
  ASSUME IInv, NEW t \in Threads, NEW p \in Procs, NEW c \in Procs, NEW new \in Threads,
         Fork(t, p, c, new)
  PROVE  IInv'
<1>1. PICK n \in PidAlloc : pid' = [pid EXCEPT ![c] = n] /\ pids' = pids \cup {n}
  BY DEF Fork
<1>2. /\ current = t /\ waitFor[t] = nullptr /\ p = owner[t] /\ p \in Live
      /\ c \notin Live
      /\ pstate' = [pstate EXCEPT ![c] = "Running"]
      /\ parent' = [parent EXCEPT ![c] = p]
      /\ children' = [children EXCEPT ![c] = <<>>, ![p] = Append(@, c)]
      /\ owner' = [owner EXCEPT ![new] = c]
      /\ tstate[new] = "Free" /\ tstate' = [tstate EXCEPT ![new] = "Runnable"]
      /\ UNCHANGED <<wchan, current, waitFor>>
  BY DEF Fork, Calls, AddThread
<1>3. n \in Pids /\ n \notin pids /\ p # c /\ p \in Procs
  BY <1>2 DEF PidAlloc, Live
<1>4. /\ children'[c] = <<>>
      /\ children'[p] = Append(children[p], c)
      /\ \A q \in Procs : q # p /\ q # c => children'[q] = children[q]
      /\ children' \in [Procs -> Seq(Procs)]
  <2>1. children \in [Procs -> Seq(Procs)]
    BY DEF IInv, TypeOK
  <2> DEFINE born == [children EXCEPT ![c] = <<>>]
  <2>2. born \in [Procs -> Seq(Procs)] /\ born[p] = children[p] /\ born[c] = <<>>
    BY <2>1, <1>3
  <2>3. children' = [born EXCEPT ![p] = Append(children[p], c)]
    BY <2>1, <2>2, <1>2, <1>3
  <2>4. Append(children[p], c) \in Seq(Procs)
    BY <2>1, <1>3
  <2>5. \A q \in Procs : q # c => born[q] = children[q]
    BY <2>1
  <2> HIDE DEF born
  <2> QED  BY <2>1, <2>2, <2>3, <2>4, <2>5, <1>3
<1>5. TypeOK'
  BY <1>1, <1>2, <1>3, <1>4 DEF IInv, TypeOK, ThreadTypeOK
<1>6. /\ Live' = Live \cup {c}
      /\ \A q \in Live : pid'[q] = pid[q] /\ parent'[q] = parent[q]
                         /\ pstate'[q] = pstate[q]
      /\ pid'[c] = n /\ parent'[c] = p /\ pstate'[c] = "Running"
  BY <1>1, <1>2 DEF IInv, TypeOK, Live
<1>7. n # 0 /\ n # 1
  BY <1>3 DEF IInv, TreeOK, PidPoolExact, InitKeepsPid
<1>8. PidPoolExact'
  <2>1. {pid'[q] : q \in Live'} = {pid[q] : q \in Live} \cup {n}
    BY <1>6
  <2>2. \A q \in Live : pid[q] # n
    BY <1>3 DEF IInv, TreeOK, PidPoolExact
  <2>3. \A q, r \in Live' : pid'[q] = pid'[r] => q = r
    BY <2>2, <1>6 DEF IInv, TreeOK, PidPoolExact
  <2>4. \A q \in Live' : pid'[q] # 0
    BY <1>6, <1>7 DEF IInv, TreeOK, PidPoolExact
  <2> QED  BY <1>1, <2>1, <2>3, <2>4 DEF IInv, TreeOK, PidPoolExact
<1>9. /\ Elems(children'[c]) = {}
      /\ Elems(children'[p]) = Elems(children[p]) \cup {c}
      /\ NoRepeat(children'[c])
      /\ NoRepeat(children'[p])
  <2>1. children[p] \in Seq(Procs)
    BY <1>3 DEF IInv, TypeOK
  <2>2. NoRepeat(children[p]) /\ c \notin Elems(children[p])
    BY <1>2 DEF IInv, TreeOK, ChildrenSound
  <2>3. /\ Elems(Append(children[p], c)) = Elems(children[p]) \cup {c}
        /\ NoRepeat(Append(children[p], c))
    BY <2>1, <2>2, AppendElems
  <2>4. Elems(<<>>) = {} /\ NoRepeat(<<>>)
    BY DEF Elems, NoRepeat
  <2> QED  BY <1>4, <2>3, <2>4
<1>10. ASSUME NEW q \in Live'
       PROVE  /\ NoRepeat(children'[q])
              /\ \A d \in Elems(children'[q]) : d \in Live' /\ parent'[d] = q /\ pid'[d] # 1
  <2>1. \A r \in Live : /\ NoRepeat(children[r])
                        /\ \A d \in Elems(children[r]) :
                              d \in Live /\ parent[d] = r /\ pid[d] # 1
    BY DEF IInv, TreeOK, ChildrenSound, InitKeepsPid
  <2>2. CASE q = c
    BY <2>2, <1>9
  <2>3. CASE q = p
    <3>1. ASSUME NEW d \in Elems(children'[p])
          PROVE  d \in Live' /\ parent'[d] = p /\ pid'[d] # 1
      <4>1. d = c \/ d \in Elems(children[p])
        BY <1>9
      <4> QED  BY <4>1, <2>1, <1>2, <1>6, <1>7
    <3> QED  BY <2>3, <3>1, <1>9
  <2>4. CASE q # c /\ q # p
    <3>1. q \in Live /\ q \in Procs /\ children'[q] = children[q]
      BY <2>4, <1>4, <1>6 DEF Live
    <3> QED  BY <3>1, <2>1, <1>6
  <2> QED  BY <2>2, <2>3, <2>4
<1>11. TreeOK'
  <2>1. ChildrenSound'
    BY <1>10 DEF ChildrenSound
  <2>2. InitKeepsPid'
    BY <1>1, <1>10 DEF IInv, TreeOK, InitKeepsPid
  <2> QED  BY <1>8, <2>1, <2>2 DEF TreeOK
<1>12. /\ tstate'[new] = "Runnable" /\ owner'[new] = c /\ ~Living(new)
       /\ \A u \in Threads : u # new => tstate'[u] = tstate[u] /\ owner'[u] = owner[u]
  BY <1>2 DEF IInv, TypeOK, ThreadTypeOK, Living
<1>13. \A u \in Threads : Living(u) => u # new /\ owner[u] \in Live /\ owner[u] # c
                                      /\ pstate[owner[u]] = "Running"
  BY <1>2, <1>12 DEF IInv, ThreadsOK, LiveThreadsOwnLiveProcess, Living, Live
<1>14. \A u \in Threads : Living(u)' <=> Living(u) \/ u = new
  BY <1>12 DEF Living
<1>15. OneThread'
  BY <1>12, <1>13, <1>14 DEF IInv, ThreadsOK, OneThread
<1>16. LiveThreadsOwnLiveProcess'
  <2> SUFFICES ASSUME NEW u \in Threads, Living(u)'
               PROVE  owner'[u] \in Procs /\ pstate'[owner'[u]] = "Running"
    BY DEF LiveThreadsOwnLiveProcess, Living
  <2>1. CASE u = new
    BY <2>1, <1>6, <1>12
  <2>2. CASE u # new
    BY <2>2, <1>6, <1>12, <1>13, <1>14 DEF Live
  <2> QED  BY <2>1, <2>2
<1>17. CurrentRuns'
  BY <1>2, <1>12 DEF IInv, ThreadsOK, CurrentRuns
<1>18. SleepsOnChild'
  BY <1>2, <1>12 DEF IInv, ThreadsOK, SleepsOnChild
<1>19. WaitedChildSound'
  <2> SUFFICES ASSUME NEW u \in Threads, waitFor[u] # nullptr
               PROVE  /\ waitFor[u] \in Elems(children'[owner'[u]])
                      /\ tstate'[u] = "Blocked" => pstate'[waitFor[u]] = "Running"
                      /\ tstate'[u] = "Runnable" => pstate'[waitFor[u]] = "Zombie"
                      /\ tstate'[u] \in {"Blocked", "Runnable"}
    BY <1>2 DEF WaitedChildSound
  <2>1. /\ waitFor[u] \in Elems(children[owner[u]])
        /\ tstate[u] = "Blocked" => pstate[waitFor[u]] = "Running"
        /\ tstate[u] = "Runnable" => pstate[waitFor[u]] = "Zombie"
        /\ tstate[u] \in {"Blocked", "Runnable"}
        /\ Living(u)
    BY DEF IInv, ThreadsOK, WaitedChildSound, Living
  <2>2. u # new /\ owner[u] \in Live /\ owner[u] # c /\ owner[u] \in Procs
    BY <2>1, <1>13 DEF Live
  <2>3. waitFor[u] \in Live
    BY <2>1, <2>2 DEF IInv, TreeOK, ChildrenSound
  <2>4. waitFor[u] \in Elems(children'[owner[u]])
    BY <2>1, <2>2, <1>4, <1>9
  <2> QED  BY <2>1, <2>2, <2>3, <2>4, <1>6, <1>12
<1> QED
  BY <1>5, <1>11, <1>15, <1>16, <1>17, <1>18, <1>19 DEF IInv, ThreadsOK

----------------------------------------------------------------------------
(* waitpid looks among the caller's children.                              *)
LEMMA FoundIsChild ==
  ASSUME NEW p, NEW search, NEW c \in FindChild(p, search)
  PROVE  c \in Elems(children[p])
BY DEF FindChild, Matches, Elems

(* A thread resumed inside waitpid finds a zombie.                         *)
LEMMA ResumeFinds ==
  ASSUME IInv, NEW t \in Threads, NEW p \in Procs, NEW c \in Procs, WaitResume(t, p, c)
  PROVE  /\ current = t /\ p = owner[t] /\ p \in Live
         /\ c \in Elems(children[p]) /\ pstate[c] = "Zombie"
         /\ RemoveAndReap(p, c)
<1>1. /\ current = t /\ p = owner[t] /\ c = waitFor[t] /\ c # nullptr
      /\ IF pstate[c] = "Zombie" THEN RemoveAndReap(p, c) ELSE UNCHANGED procs
  BY DEF WaitResume
<1>2. tstate[t] = "Runnable"
  BY <1>1 DEF IInv, ThreadsOK, CurrentRuns
<1>3. p \in Live
  BY <1>1, <1>2 DEF IInv, ThreadsOK, LiveThreadsOwnLiveProcess, Live
<1>4. c \in Elems(children[p]) /\ pstate[c] = "Zombie"
  BY <1>1, <1>2 DEF IInv, ThreadsOK, WaitedChildSound
<1> QED  BY <1>1, <1>3, <1>4

(* waitpid without a sleep.                                                *)
LEMMA WaitpidInv ==
  ASSUME IInv, NEW t \in Threads, NEW p \in Procs, NEW search \in Pids,
         Waitpid(t, p, search)
  PROVE  IInv'
<1>1. PICK c \in FindChild(p, search) : WaitReap(t, p, c) \/ WaitBlock(t, p, c)
  BY DEF Waitpid
<1>2. Calls(t, p) /\ owner' = owner /\ c \in Elems(children[p])
  BY <1>1, FoundIsChild DEF Waitpid
<1>3. CASE WaitReap(t, p, c)
  <2>1. /\ current = t /\ waitFor[t] = nullptr /\ p = owner[t] /\ p \in Live
        /\ pstate[c] = "Zombie" /\ RemoveAndReap(p, c)
        /\ UNCHANGED <<tvars, owner, waitFor>>
    BY <1>2, <1>3 DEF Calls, WaitReap
  <2>2. waitFor' = [waitFor EXCEPT ![t] = nullptr]
    BY <2>1 DEF IInv, TypeOK
  <2> QED  BY <1>2, <2>1, <2>2, ReapInv
<1>4. CASE WaitBlock(t, p, c)
  BY <1>2, <1>4, WaitBlockInv
<1> QED  BY <1>1, <1>3, <1>4

(* waitpid after its sleep.                                                *)
LEMMA ResumeInv ==
  ASSUME IInv, NEW t \in Threads, NEW p \in Procs, NEW c \in Procs, WaitResume(t, p, c)
  PROVE  IInv'
<1>1. /\ current = t /\ p = owner[t] /\ p \in Live
      /\ c \in Elems(children[p]) /\ pstate[c] = "Zombie"
      /\ RemoveAndReap(p, c)
  BY ResumeFinds
<1>2. waitFor' = [waitFor EXCEPT ![t] = nullptr] /\ UNCHANGED <<tvars, owner>>
  BY DEF WaitResume
<1> QED  BY <1>1, <1>2, ReapInv

(* Spawn leaves a tree of one process.                                     *)
LEMMA InitInv == Init => IInv
<1> SUFFICES ASSUME Init PROVE IInv
  OBVIOUS
<1>1. PICK it \in Threads :
        /\ tstate = [t \in Threads |-> IF t = it THEN "Runnable" ELSE "Free"]
        /\ wchan = [t \in Threads |-> NoChannel]
        /\ current = Kernel
  BY DEF Init, ThreadInit
<1>2. PICK ip \in Procs :
        /\ pstate = [p \in Procs |-> IF p = ip THEN "Running" ELSE "Free"]
        /\ pid = [p \in Procs |-> IF p = ip THEN 1 ELSE 0]
        /\ owner = [t \in Threads |-> IF tstate[t] = "Runnable" THEN ip ELSE nullptr]
  BY DEF Init
<1>3. /\ parent = [p \in Procs |-> nullptr]
      /\ children = [p \in Procs |-> <<>>]
      /\ pids = {0, 1}
      /\ waitFor = [t \in Threads |-> nullptr]
  BY DEF Init
<1>4. 0 \in Pids /\ 1 \in Pids
  BY ProcsAssumption DEF Pids
<1>5. TypeOK
  BY <1>1, <1>2, <1>3, <1>4 DEF TypeOK, ThreadTypeOK
<1>6. Live = {ip}
  BY <1>2 DEF Live
<1>7. TreeOK
  BY <1>2, <1>3, <1>6
  DEF TreeOK, PidPoolExact, InitKeepsPid, ChildrenSound, Elems, NoRepeat
<1>8. ThreadsOK
  BY <1>1, <1>2, <1>3, Distinct
  DEF ThreadsOK, WaitedChildSound, LiveThreadsOwnLiveProcess, OneThread, CurrentRuns,
      SleepsOnChild, Living
<1> QED  BY <1>5, <1>7, <1>8 DEF IInv

(* Every step of every thread keeps the tree sound.                        *)
THEOREM Invariance == Spec => []IInv
<1>1. ASSUME IInv, [Next]_vars
      PROVE  IInv'
  <2>1. CASE Preempt
    BY <1>1, <2>1, PreemptInv
  <2>2. ASSUME NEW t \in Threads, NEW p \in Procs, SysCall(t, p)
        PROVE  IInv'
    BY <1>1, <2>2, ExitInv, ForkInv, WaitpidInv, ResumeInv DEF SysCall
  <2>3. ASSUME NEW t \in Threads, ReclaimThread(t)
        PROVE  IInv'
    BY <1>1, <2>3, ReclaimInv
  <2>4. CASE UNCHANGED vars
    BY <1>1, <2>4
    DEF vars, tvars, procs, IInv, TypeOK, ThreadTypeOK, TreeOK, PidPoolExact, InitKeepsPid,
        ChildrenSound, Live, ThreadsOK, WaitedChildSound, LiveThreadsOwnLiveProcess,
        OneThread, CurrentRuns, SleepsOnChild, Living
  <2> QED  BY <1>1, <2>1, <2>2, <2>3, <2>4 DEF Next
<1> QED  BY <1>1, InitInv, PTL DEF Spec

(* Type correctness of the process tree and of its threads' pointers.      *)
THEOREM TypeCorrect == Spec => []TypeOK
<1>1. IInv => TypeOK
  BY DEF IInv
<1> QED  BY <1>1, Invariance, PTL

(* The PID bitmap is exact: no PID leaks or is given out twice, whatever   *)
(* the order of fork, exit and waitpid.                                    *)
THEOREM PidsExact == Spec => []PidPoolExact
<1>1. IInv => PidPoolExact
  BY DEF IInv, TreeOK
<1> QED  BY <1>1, Invariance, PTL

(* The list of children of a process links only processes that exist, each *)
(* once, and with it as parent.                                            *)
THEOREM TreeSound == Spec => []ChildrenSound
<1>1. IInv => ChildrenSound
  BY DEF IInv, TreeOK
<1> QED  BY <1>1, Invariance, PTL

(* The pointer that waitpid keeps across its sleep denotes the caller's    *)
(* child until waitpid returns, and a zombie when it has been woken.       *)
THEOREM WaiterSound == Spec => []WaitedChildSound
<1>1. IInv => WaitedChildSound
  BY DEF IInv, ThreadsOK
<1> QED  BY <1>1, Invariance, PTL

(* Nobody sleeps on a process that has exited: Exit's single wake-up is    *)
(* never lost.                                                             *)
THEOREM ExitWakesParent == Spec => []NoSleeperOnZombie
<1>1. IInv => NoSleeperOnZombie
  <2> SUFFICES ASSUME IInv, NEW t \in Threads, tstate[t] = "Blocked"
               PROVE  pstate[wchan[t]] = "Running"
    BY DEF NoSleeperOnZombie
  <2>1. wchan[t] = waitFor[t] /\ waitFor[t] # nullptr
    BY Distinct DEF IInv, ThreadsOK, SleepsOnChild
  <2> QED  BY <2>1 DEF IInv, ThreadsOK, WaitedChildSound
<1> QED  BY <1>1, Invariance, PTL

(* No thread that can run belongs to a zombie or to a deleted process.     *)
THEOREM OwnersLive == Spec => []LiveThreadsOwnLiveProcess
<1>1. IInv => LiveThreadsOwnLiveProcess
  BY DEF IInv, ThreadsOK
<1> QED  BY <1>1, Invariance, PTL

(* A process is deleted only as a zombie, by its parent, and never PID 1.  *)
THEOREM ReapingSound == Spec => ReapedByParentOnly
<1> DEFINE Rule == \A p \in Live : pstate'[p] = "Free" =>
                     /\ pstate[p] = "Zombie"
                     /\ current \in Threads /\ parent[p] = owner[current]
                     /\ pid[p] # 1
<1>1. ASSUME IInv, NEW t \in Threads, NEW c \in Elems(children[owner[t]]),
             current = t, owner[t] \in Live, pstate[c] = "Zombie",
             RemoveAndReap(owner[t], c)
      PROVE  Rule
  <2>1. /\ parent[c] = owner[t] /\ pid[c] # 1
        /\ pstate' = [pstate EXCEPT ![c] = "Free"]
    BY <1>1, ReapStep
  <2>2. \A p \in Live : pstate'[p] = "Free" => p = c
    BY <1>1, <2>1 DEF IInv, TypeOK, Live
  <2> QED  BY <1>1, <2>1, <2>2
<1>2. ASSUME IInv, pstate' = pstate
      PROVE  Rule
  BY <1>2 DEF Live
<1>3. ASSUME IInv, Next
      PROVE  Rule
  <2>1. CASE Preempt \/ \E t \in Threads : ReclaimThread(t)
    <3>1. pstate' = pstate
      BY <2>1 DEF Preempt, ReclaimThread, procs
    <3> QED  BY <1>2, <1>3, <3>1
  <2>2. ASSUME NEW t \in Threads, NEW p \in Procs, ExitProcess(t, p)
        PROVE  Rule
    BY <1>3, <2>2 DEF ExitProcess, IInv, TypeOK, Live
  <2>3. ASSUME NEW t \in Threads, NEW p \in Procs, NEW c \in Procs, NEW new \in Threads,
               Fork(t, p, c, new)
        PROVE  Rule
    BY <1>3, <2>3 DEF Fork, IInv, TypeOK, Live
  <2>4. ASSUME NEW t \in Threads, NEW p \in Procs, NEW search \in Pids,
               Waitpid(t, p, search)
        PROVE  Rule
    <3>1. PICK c \in FindChild(p, search) : WaitReap(t, p, c) \/ WaitBlock(t, p, c)
      BY <2>4 DEF Waitpid
    <3>2. current = t /\ p = owner[t] /\ p \in Live /\ c \in Elems(children[p])
      BY <2>4, FoundIsChild DEF Waitpid, Calls
    <3>3. CASE WaitReap(t, p, c)
      <4>1. pstate[c] = "Zombie" /\ RemoveAndReap(p, c)
        BY <3>3 DEF WaitReap
      <4> QED  BY <4>1, <3>2, <1>1, <1>3
    <3>4. CASE WaitBlock(t, p, c)
      <4>1. pstate' = pstate
        BY <3>4 DEF WaitBlock, procs
      <4> QED  BY <4>1, <1>2, <1>3
    <3> QED  BY <3>1, <3>3, <3>4
  <2>5. ASSUME NEW t \in Threads, NEW p \in Procs, NEW c \in Procs, WaitResume(t, p, c)
        PROVE  Rule
    <3>1. /\ current = t /\ p = owner[t] /\ p \in Live
          /\ c \in Elems(children[p]) /\ pstate[c] = "Zombie"
          /\ RemoveAndReap(p, c)
      BY <1>3, <2>5, ResumeFinds
    <3> QED  BY <3>1, <1>1, <1>3
  <2> HIDE DEF Rule
  <2> QED  BY <1>3, <2>1, <2>2, <2>3, <2>4, <2>5 DEF Next, SysCall
<1>4. IInv /\ [Next]_vars => [Rule]_vars
  BY <1>3
<1>5. Spec => [][Rule]_vars
  BY <1>4, Invariance, PTL DEF Spec
<1> QED  BY <1>5 DEF ReapedByParentOnly
=============================================================================
