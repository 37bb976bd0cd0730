----------------------------- MODULE Scheduler -----------------------------
(***************************************************************************)
(* The thread scheduler of the kernel (a three-level feedback queue) and   *)
(* the reaper thread that reclaims dead threads.                           *)
(*                                                                         *)
(* One CPU.  System calls run with interrupts masked (SFMASK) and the      *)
(* timer interrupt comes through an interrupt gate, so a call into the     *)
(* scheduler is atomic up to the context switch that ends it: one action   *)
(* per entry point.  Only code that runs with interrupts enabled (user     *)
(* code, the reaper's loop, the idle loop) can be interrupted by Tick.     *)
(***************************************************************************)
EXTENDS Lists

CONSTANTS
    Threads,        \* Thread objects the heap can hold besides the two below
    Reaper,         \* Reaper::s_state.reaper_thread
    Idle,           \* CpuData::idle_thread, the boot context after Start
    Channels,       \* addresses threads sleep on: processes and pipes
    NoChannel,      \* nullptr
    kQuantum,       \* ticks per level
    kBoostInterval  \* ticks between two priority boosts

(* MLFQ levels, 0 the most urgent.                                         *)
kNumLevels == 3
Levels == 0..(kNumLevels - 1)

Schedulable == Threads \cup {Reaper}
AllThreads == Schedulable \cup {Idle}

ASSUME ThreadsAssumption ==
    /\ Reaper \notin Threads
    /\ Idle \notin Threads
    /\ Reaper # Idle
    /\ NoChannel \notin Channels

ASSUME QuantumAssumption ==
    /\ kQuantum \in [Levels -> Nat \ {0}]
    /\ kBoostInterval \in Nat \ {0}

VARIABLES
    state,      \* Thread::m_state; "Free": no Thread object at that address
    level,      \* Thread::m_mlfq_level
    ticks,      \* Thread::m_ticks_remaining
    chan,       \* Thread::wait_channel
    queues,     \* MlfqImpl::queues, linked through run_node
    waitq,      \* g_wait_queue, linked through wait_node
    current,    \* CpuData::current_thread
    tick,       \* s_tick_counter, modulo kBoostInterval
    deadList,   \* Reaper::s_state.dead_list, linked through run_node
    localDead,  \* the reaper's local_dead, linked through run_node
    reaperPc    \* where the reaper's loop is

sched == <<state, level, ticks, chan, queues, waitq, current>>
reap == <<deadList, localDead, reaperPc>>
vars == <<sched, tick, reap>>

ThreadStates == {"Free", "Ready", "Running", "Blocked", "Terminated"}

TypeOK ==
    /\ state \in [AllThreads -> ThreadStates]
    /\ level \in [AllThreads -> Levels]
    /\ ticks \in [AllThreads -> Nat \ {0}]
    /\ chan \in [AllThreads -> Channels \cup {NoChannel}]
    /\ queues \in [Levels -> Seq(Schedulable)]
    /\ waitq \in Seq(Threads)
    /\ current \in AllThreads
    /\ tick \in 0..(kBoostInterval - 1)
    /\ deadList \in Seq(Threads)
    /\ localDead \in Seq(Threads)
    /\ reaperPc \in {"collect", "reclaim"}

----------------------------------------------------------------------------
(* Start has made the boot context the idle thread and queued the reaper   *)
(* at the last level; Process::Spawn has queued init's thread at level 0.  *)
(* Interrupts are off until then.                                          *)
Init ==
    \E init \in Threads :
        /\ state = [t \in AllThreads |->
                      IF t = Idle THEN "Running"
                      ELSE IF t \in {init, Reaper} THEN "Ready" ELSE "Free"]
        /\ level = [t \in AllThreads |->
                      IF t \in {Reaper, Idle} THEN kNumLevels - 1 ELSE 0]
        /\ ticks = [t \in AllThreads |->
                      IF t = Reaper THEN kQuantum[kNumLevels - 1] ELSE kQuantum[0]]
        /\ chan = [t \in AllThreads |-> NoChannel]
        /\ queues = [l \in Levels |-> IF l = 0 THEN <<init>>
                                      ELSE IF l = kNumLevels - 1 THEN <<Reaper>>
                                      ELSE <<>>]
        /\ waitq = <<>>
        /\ current = Idle
        /\ tick = 0
        /\ deadList = <<>>
        /\ localDead = <<>>
        /\ reaperPc = "collect"

----------------------------------------------------------------------------
(* The run queues.                                                         *)

PushBack(q, l, t) == [m \in Levels |-> IF m = l THEN Append(q[m], t) ELSE q[m]]
PopFront(q, l) == [m \in Levels |-> IF m = l THEN Tail(q[m]) ELSE q[m]]

Empty(q) == \A l \in Levels : q[l] = <<>>

(* The levels PopBest can take its thread from: the first non-empty one.   *)
BestLevel(q) == {l \in Levels : q[l] # <<>> /\ \A m \in 0..(l - 1) : q[m] = <<>>}

(* Faulty variants of Boost, for the mutation runs: the lower queues keep  *)
(* their nodes; nothing is moved.                                          *)
BoostKeepsNodes(q) == [q EXCEPT ![0] = q[0] \o q[1] \o q[2]]
BoostNothing(q) == q

(* Boost moves levels 1..N-1, in order, to the end of level 0.             *)
Boost(q) == [l \in Levels |-> IF l = 0 THEN q[0] \o q[1] \o q[2] ELSE <<>>]

Boosted == UNION {Elems(queues[l]) : l \in Levels \ {0}}

(* The tail of ScheduleLocked: nothing happens, and in particular the      *)
(* state is not set, when the thread picked is the one that is running.    *)
SwitchTo(st, next) ==
    /\ current' = next
    /\ state' = IF next = current THEN st ELSE [st EXCEPT ![next] = "Running"]

(* ScheduleLocked, called with run queues q and thread states st.          *)
ScheduleLocked(q, st) ==
    \/ /\ Empty(q)
       /\ queues' = q
       /\ SwitchTo(st, Idle)
    \/ \E l \in BestLevel(q) :
         /\ queues' = PopFront(q, l)
         /\ SwitchTo(st, Head(q[l]))

----------------------------------------------------------------------------
(* AddThread on a Thread just constructed by fork or clone.                *)
AddThread(t) ==
    /\ current \in Threads
    /\ state[t] = "Free"
    /\ state' = [state EXCEPT ![t] = "Ready"]
    /\ level' = [level EXCEPT ![t] = 0]
    /\ ticks' = [ticks EXCEPT ![t] = kQuantum[0]]
    /\ chan' = [chan EXCEPT ![t] = NoChannel]
    /\ queues' = PushBack(queues, 0, t)
    /\ UNCHANGED <<waitq, current, tick, reap>>

(* The timer interrupt.                                                    *)
BoostDue == (tick + 1) % kBoostInterval = 0
TickQueues == IF BoostDue THEN Boost(queues) ELSE queues
TickLevelKept == level
TickTicksKept == ticks
TickLevel == [t \in AllThreads |-> IF BoostDue /\ t \in Boosted THEN 0 ELSE level[t]]
TickTicks == [t \in AllThreads |->
                IF BoostDue /\ t \in Boosted THEN kQuantum[0] ELSE ticks[t]]

NewLevel == IF level[current] + 1 >= kNumLevels THEN kNumLevels - 1
            ELSE level[current] + 1

(* The idle thread is not charged; it gives way to any ready thread.       *)
TickIdle ==
    /\ current = Idle
    /\ level' = TickLevel
    /\ ticks' = TickTicks
    /\ ScheduleLocked(TickQueues, state)

(* Faulty: the quantum expires one tick late.                              *)
TickChargeLate ==
    /\ current # Idle
    /\ ticks[current] > 0
    /\ level' = TickLevel
    /\ ticks' = [TickTicks EXCEPT ![current] = @ - 1]
    /\ queues' = TickQueues
    /\ UNCHANGED <<state, current>>

TickCharge ==
    /\ current # Idle
    /\ ticks[current] > 1
    /\ level' = TickLevel
    /\ ticks' = [TickTicks EXCEPT ![current] = @ - 1]
    /\ queues' = TickQueues
    /\ UNCHANGED <<state, current>>

(* The quantum is used up: demote, re-enqueue, reschedule.                 *)
TickExpire ==
    /\ current # Idle
    /\ ticks[current] <= 1
    /\ level' = [TickLevel EXCEPT ![current] = NewLevel]
    /\ ticks' = [TickTicks EXCEPT ![current] = kQuantum[NewLevel]]
    /\ ScheduleLocked(PushBack(TickQueues, NewLevel, current),
                      [state EXCEPT ![current] = "Ready"])

Tick ==
    /\ tick' = (tick + 1) % kBoostInterval
    /\ TickIdle \/ TickCharge \/ TickExpire
    /\ UNCHANGED <<chan, waitq, reap>>

(* Faulty: the thread that yields keeps the state Running in its queue.    *)
YieldStaysRunning ==
    /\ state[current] = "Running"
    /\ ticks' = [ticks EXCEPT ![current] = kQuantum[level[current]]]
    /\ ScheduleLocked(PushBack(queues, level[current], current), state)

(* Scheduler::Yield, whoever calls it.                                     *)
YieldRequeue ==
    /\ state[current] = "Running"
    /\ ticks' = [ticks EXCEPT ![current] = kQuantum[level[current]]]
    /\ ScheduleLocked(PushBack(queues, level[current], current),
                      [state EXCEPT ![current] = "Ready"])

YieldNoRequeue ==
    /\ state[current] # "Running"
    /\ UNCHANGED ticks
    /\ ScheduleLocked(queues, state)

YieldCpu ==
    /\ YieldRequeue \/ YieldNoRequeue
    /\ UNCHANGED <<level, chan, waitq, tick>>

(* sched_yield, and each round of nanosleep's loop.                        *)
Yield == current \in Threads /\ YieldCpu /\ UNCHANGED reap

Block(ch) ==
    /\ current \in Threads
    /\ chan' = [chan EXCEPT ![current] = ch]
    /\ waitq' = Append(waitq, current)
    /\ ScheduleLocked(queues, [state EXCEPT ![current] = "Blocked"])
    /\ UNCHANGED <<level, ticks, tick, reap>>

(* Wake: the positions of the wait queue it unlinks, all those sleeping on *)
(* the channel or only the first, and what it does to each thread there.   *)
Sleepers(ch) == {i \in DOMAIN waitq : chan[waitq[i]] = ch}

(* Faulty: the traversal does not stop at the first match.                 *)
WokenAll(ch, wake_all) == Sleepers(ch)

Woken(ch, wake_all) ==
    {i \in Sleepers(ch) : wake_all \/ \A j \in Sleepers(ch) : i <= j}

WokenThreads(W) == {waitq[i] : i \in W}

WakeQueues(W) ==
    [l \in Levels |-> queues[l] \o Sublist(waitq, {i \in W : level[waitq[i]] = l})]

WakeStates(W) ==
    [t \in AllThreads |-> IF t \in WokenThreads(W) THEN "Ready" ELSE state[t]]

(* Faulty: wait_channel is not cleared.                                    *)
WakeKeepsChannel(W) ==
    /\ waitq' = Sublist(waitq, DOMAIN waitq \ W)
    /\ ticks' = [t \in AllThreads |->
                   IF t \in WokenThreads(W) THEN kQuantum[level[t]] ELSE ticks[t]]
    /\ UNCHANGED chan

WakeRest(W) ==
    /\ waitq' = Sublist(waitq, DOMAIN waitq \ W)
    /\ chan' = [t \in AllThreads |-> IF t \in WokenThreads(W) THEN NoChannel ELSE chan[t]]
    /\ ticks' = [t \in AllThreads |->
                   IF t \in WokenThreads(W) THEN kQuantum[level[t]] ELSE ticks[t]]

Wake(ch, wake_all) ==
    /\ current \in Threads
    /\ queues' = WakeQueues(Woken(ch, wake_all))
    /\ state' = WakeStates(Woken(ch, wake_all))
    /\ WakeRest(Woken(ch, wake_all))
    /\ UNCHANGED <<level, current, tick, reap>>

(* Faulty: the thread that exits re-enqueues itself as Yield would.        *)
ExitRequeues(ch) ==
    /\ current \in Threads
    /\ WakeRest(Woken(ch, FALSE))
    /\ deadList' = Append(deadList, current)
    /\ ScheduleLocked(PushBack(WakeQueues(Woken(ch, FALSE)), level[current], current),
                      [WakeStates(Woken(ch, FALSE)) EXCEPT ![current] = "Terminated"])
    /\ UNCHANGED <<level, tick, localDead, reaperPc>>

(* exit, exit_group and the fatal signals: Process::Exit wakes one thread  *)
(* that waits for the process, the thread is marked Terminated and put on  *)
(* the dead list, and Yield, which does not re-enqueue it, leaves it.      *)
Exit(ch) ==
    /\ current \in Threads
    /\ WakeRest(Woken(ch, FALSE))
    /\ deadList' = Append(deadList, current)
    /\ ScheduleLocked(WakeQueues(Woken(ch, FALSE)),
                      [WakeStates(Woken(ch, FALSE)) EXCEPT ![current] = "Terminated"])
    /\ UNCHANGED <<level, tick, localDead, reaperPc>>

----------------------------------------------------------------------------
(* Reaper::ThreadFunc, a loop that runs with interrupts enabled: take the  *)
(* whole dead list, delete its threads one by one, yield.                  *)

(* Faulty: the dead list keeps the nodes that were taken.                  *)
ReaperCollectKeeps ==
    /\ current = Reaper
    /\ reaperPc = "collect"
    /\ localDead' = deadList
    /\ reaperPc' = "reclaim"
    /\ UNCHANGED <<sched, tick, deadList>>

ReaperCollect ==
    /\ current = Reaper
    /\ reaperPc = "collect"
    /\ localDead' = deadList
    /\ deadList' = <<>>
    /\ reaperPc' = "reclaim"
    /\ UNCHANGED <<sched, tick>>

ReaperReclaim ==
    /\ current = Reaper
    /\ reaperPc = "reclaim"
    /\ localDead # <<>>
    /\ localDead' = Tail(localDead)
    /\ state' = [state EXCEPT ![Head(localDead)] = "Free"]
    /\ UNCHANGED <<level, ticks, chan, queues, waitq, current, tick, deadList, reaperPc>>

ReaperYield ==
    /\ current = Reaper
    /\ reaperPc = "reclaim"
    /\ localDead = <<>>
    /\ reaperPc' = "collect"
    /\ YieldCpu
    /\ UNCHANGED <<deadList, localDead>>

ReaperLoop == ReaperCollect \/ ReaperReclaim \/ ReaperYield

----------------------------------------------------------------------------
Next ==
    \/ Tick
    \/ Yield
    \/ \E t \in Threads : AddThread(t)
    \/ \E ch \in Channels : Block(ch)
    \/ \E ch \in Channels, wake_all \in BOOLEAN : Wake(ch, wake_all)
    \/ \E ch \in Channels : Exit(ch)
    \/ ReaperLoop

(* The periodic timer keeps interrupting.                                  *)
Spec == Init /\ [][Next]_vars
FairSpec == Spec /\ WF_vars(Tick)
----------------------------------------------------------------------------
(* What the scheduler promises.                                            *)

Dead == Elems(deadList) \cup Elems(localDead)

(* A thread's run_node is linked in at most one place of one list: the     *)
(* three run queues, the reaper's dead_list and its local_dead share it    *)
(* (Push, Boost, Wake, Tick, Yield, Reaper::Enqueue, ThreadFunc).          *)
RunNodeLinkedOnce ==
    NoRepeat(queues[0] \o queues[1] \o queues[2] \o deadList \o localDead)

(* PopBest only ever meets threads that may run: every queued thread is    *)
(* Ready, sits in the queue of its own level, and is not the one running,  *)
(* so no freed, blocked or dead thread is ever switched to.                *)
RunQueuesSound ==
    \A l \in Levels : \A t \in Elems(queues[l]) :
        state[t] = "Ready" /\ level[t] = l /\ t # current

(* The wait queue holds exactly the Blocked threads, each once, and a      *)
(* thread has a wait channel exactly while it sleeps: no wake-up can reach *)
(* a thread twice or leave one Blocked and unreachable.                    *)
WaitQueueSound ==
    /\ NoRepeat(waitq)
    /\ Elems(waitq) = {t \in AllThreads : state[t] = "Blocked"}
    /\ \A t \in AllThreads : chan[t] # NoChannel <=> state[t] = "Blocked"

(* The reaper holds exactly the Terminated threads, so each is deleted and *)
(* only those are, and never the thread whose kernel stack is in use.      *)
DeadThreadsSound ==
    /\ Dead = {t \in AllThreads : state[t] = "Terminated"}
    /\ current \notin Dead

(* At most one thread other than idle is Running, and it is the current    *)
(* one; the current thread is never Blocked, Terminated or freed.          *)
OnlyCurrentRuns ==
    /\ \A t \in Schedulable : state[t] = "Running" => t = current
    /\ state[current] \in {"Ready", "Running"}

(* A thread never holds more than the quantum of its level, whatever mix   *)
(* of demotions, boosts, yields and wake-ups it went through.              *)
QuantumBounded ==
    \A t \in Schedulable : ticks[t] <= kQuantum[level[t]]

(* A Terminated thread never runs again: all that happens to it is that    *)
(* the reaper frees it.                                                    *)
TerminatedNeverRuns ==
    [][\A t \in Threads : state[t] = "Terminated" =>
          state'[t] \in {"Terminated", "Free"} /\ current' # t]_vars

(* Starvation prevention: a thread that waits in a run queue gets the CPU, *)
(* as long as the timer ticks, however the other threads yield, block,     *)
(* wake each other and fork.                                               *)
InRunQueue(t) == \E l \in Levels : t \in Elems(queues[l])

QueuedThreadRuns == \A t \in Schedulable : InRunQueue(t) ~> (current = t)

(* Yield gives up the rest of a quantum, not the CPU for good: a thread    *)
(* that is Ready is in a run queue unless it is the one running.           *)
NoLostThread ==
    \A t \in Schedulable : state[t] = "Ready" => InRunQueue(t) \/ t = current
=============================================================================
