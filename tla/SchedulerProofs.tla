-------------------------- MODULE SchedulerProofs --------------------------
(***************************************************************************)
(* Scheduler keeps its lists consistent, for any number of threads and     *)
(* channels and any quanta and boost interval.                             *)
(*                                                                         *)
(* No list invariant is inductive alone: that a node pushed on a run queue *)
(* is not linked there already follows from the thread's state, and that   *)
(* the states are right follows from what the lists link.  IInv is their   *)
(* conjunction, with two facts no property needs by itself: the idle       *)
(* thread stays Running, and local_dead is empty when the reaper collects. *)
(*                                                                         *)
(* With it, every step of Scheduler is, through the mapping of             *)
(* SchedulerRefinement, a step of AbstractScheduler or a stutter.          *)
(***************************************************************************)
EXTENDS SchedulerRefinement, ListProofs

(* Run queues q are consistent with thread states st and levels lv.        *)
QueuesOK(q, st, lv) ==
    \A l \in Levels :
        /\ NoRepeat(q[l])
        /\ \A t \in Elems(q[l]) : st[t] = "Ready" /\ lv[t] = l

DeadListsOK ==
    /\ NoRepeat(deadList)
    /\ NoRepeat(localDead)
    /\ Elems(deadList) \cap Elems(localDead) = {}
    /\ reaperPc = "collect" => localDead = <<>>

CurrentOffQueues == \A l \in Levels : current \notin Elems(queues[l])

IInv ==
    /\ TypeOK
    /\ QueuesOK(queues, state, level)
    /\ CurrentOffQueues
    /\ WaitQueueSound
    /\ DeadListsOK
    /\ DeadThreadsSound
    /\ OnlyCurrentRuns
    /\ state[Idle] = "Running"

----------------------------------------------------------------------------
(* Levels, and the elements of a list of threads.                          *)
LEMMA LevelsAre == Levels = {0, 1, 2} /\ kNumLevels = 3
BY DEF Levels, kNumLevels

(* The head that PopBest takes leaves every queue consistent (PopFront).   *)
LEMMA PopFrontOK ==
  ASSUME NEW q \in [Levels -> Seq(Schedulable)], NEW st, NEW lv, NEW l \in Levels,
         QueuesOK(q, st, lv), q[l] # <<>>
  PROVE  /\ PopFront(q, l) \in [Levels -> Seq(Schedulable)]
         /\ QueuesOK(PopFront(q, l), st, lv)
         /\ Head(q[l]) \in Schedulable
         /\ st[Head(q[l])] = "Ready"
         /\ \A m \in Levels : Head(q[l]) \notin Elems(PopFront(q, l)[m])
<1>1. /\ Head(q[l]) \in Schedulable
      /\ Tail(q[l]) \in Seq(Schedulable)
      /\ Elems(q[l]) = {Head(q[l])} \cup Elems(Tail(q[l]))
      /\ NoRepeat(Tail(q[l])) /\ Head(q[l]) \notin Elems(Tail(q[l]))
  <2>1. q[l] \in Seq(Schedulable) /\ NoRepeat(q[l])
    BY DEF QueuesOK
  <2> QED  BY <2>1, TailElems
<1>2. \A m \in Levels : PopFront(q, l)[m] = IF m = l THEN Tail(q[m]) ELSE q[m]
  BY DEF PopFront
<1>3. PopFront(q, l) \in [Levels -> Seq(Schedulable)]
  BY <1>1 DEF PopFront
<1>4. st[Head(q[l])] = "Ready" /\ lv[Head(q[l])] = l
  BY <1>1 DEF QueuesOK
<1>5. QueuesOK(PopFront(q, l), st, lv)
  BY <1>1, <1>2 DEF QueuesOK
<1>6. \A m \in Levels : Head(q[l]) \notin Elems(PopFront(q, l)[m])
  BY <1>1, <1>2, <1>4 DEF QueuesOK
<1> QED  BY <1>1, <1>3, <1>4, <1>5, <1>6

(* A Ready thread pushed at its level, and in no queue before, keeps the   *)
(* queues consistent (PushBack).                                           *)
LEMMA PushBackOK ==
  ASSUME NEW q \in [Levels -> Seq(Schedulable)], NEW st, NEW lv,
         NEW l \in Levels, NEW t \in Schedulable,
         QueuesOK(q, st, lv),
         \A m \in Levels : t \notin Elems(q[m]),
         st[t] = "Ready", lv[t] = l
  PROVE  /\ PushBack(q, l, t) \in [Levels -> Seq(Schedulable)]
         /\ QueuesOK(PushBack(q, l, t), st, lv)
         /\ \A m \in Levels : Elems(PushBack(q, l, t)[m]) \subseteq Elems(q[m]) \cup {t}
<1>1. \A m \in Levels : PushBack(q, l, t)[m] = IF m = l THEN Append(q[m], t) ELSE q[m]
  BY DEF PushBack
<1>2. /\ Elems(Append(q[l], t)) = Elems(q[l]) \cup {t}
      /\ NoRepeat(Append(q[l], t))
  <2>1. q[l] \in Seq(Schedulable) /\ NoRepeat(q[l]) /\ t \notin Elems(q[l])
    BY DEF QueuesOK
  <2> QED  BY <2>1, AppendElems
<1>3. PushBack(q, l, t) \in [Levels -> Seq(Schedulable)]
  BY DEF PushBack
<1>4. QueuesOK(PushBack(q, l, t), st, lv)
  BY <1>1, <1>2 DEF QueuesOK
<1> QED  BY <1>1, <1>2, <1>3, <1>4

(* The states and levels of the threads in a queue are all that matters.   *)
LEMMA QueuesOKAgree ==
  ASSUME NEW q, NEW st, NEW lv, NEW st2, NEW lv2, QueuesOK(q, st, lv),
         \A l \in Levels : \A t \in Elems(q[l]) : st2[t] = st[t] /\ lv2[t] = lv[t]
  PROVE  QueuesOK(q, st2, lv2)
BY DEF QueuesOK

----------------------------------------------------------------------------
(* What ScheduleLocked needs and what it leaves: its caller has taken the  *)
(* current thread out of the state Running.                                *)
SchedulePre(q, st, lv) ==
    /\ q \in [Levels -> Seq(Schedulable)]
    /\ st \in [AllThreads -> ThreadStates]
    /\ QueuesOK(q, st, lv)
    /\ st[Idle] = "Running"
    /\ \A t \in Schedulable : st[t] # "Running"

SchedulePost(st, lv) ==
    /\ queues' \in [Levels -> Seq(Schedulable)]
    /\ state' \in [AllThreads -> ThreadStates]
    /\ current' \in AllThreads
    /\ QueuesOK(queues', state', lv)
    /\ CurrentOffQueues'
    /\ OnlyCurrentRuns'
    /\ state'[Idle] = "Running"
    /\ \A t \in AllThreads : \A x \in {"Free", "Blocked", "Terminated"} :
          state'[t] = x <=> st[t] = x

(* ScheduleLocked switches to a Ready thread that was queued once, or to   *)
(* idle, and to no other.                                                  *)
LEMMA ScheduleStep ==
  ASSUME NEW q, NEW st, NEW lv, SchedulePre(q, st, lv), ScheduleLocked(q, st)
  PROVE  SchedulePost(st, lv)
<1>1. /\ q \in [Levels -> Seq(Schedulable)]
      /\ st \in [AllThreads -> ThreadStates]
      /\ QueuesOK(q, st, lv)
      /\ st[Idle] = "Running"
      /\ \A t \in Schedulable : st[t] # "Running"
  BY DEF SchedulePre
<1>2. Idle \notin Schedulable /\ AllThreads = Schedulable \cup {Idle}
  BY ThreadsAssumption DEF Schedulable, AllThreads
<1>3. CASE Empty(q) /\ queues' = q /\ SwitchTo(st, Idle)
  <2>1. /\ queues' = q
        /\ current' = Idle
        /\ state' = IF Idle = current THEN st ELSE [st EXCEPT ![Idle] = "Running"]
    BY <1>3 DEF SwitchTo
  <2>2. state' = st
    BY <2>1, <1>1, <1>2
  <2>3. CurrentOffQueues'
    BY <2>1, <1>1, <1>2, ElemsType DEF CurrentOffQueues
  <2>4. OnlyCurrentRuns'
    BY <2>1, <2>2, <1>1 DEF OnlyCurrentRuns
  <2> QED  BY <2>1, <2>2, <2>3, <2>4, <1>1, <1>2 DEF SchedulePost
<1>4. ASSUME NEW l \in BestLevel(q), queues' = PopFront(q, l), SwitchTo(st, Head(q[l]))
      PROVE  SchedulePost(st, lv)
  <2> DEFINE next == Head(q[l])
  <2>1. l \in Levels /\ q[l] # <<>>
    BY <1>4 DEF BestLevel
  <2>2. /\ PopFront(q, l) \in [Levels -> Seq(Schedulable)]
        /\ QueuesOK(PopFront(q, l), st, lv)
        /\ next \in Schedulable
        /\ st[next] = "Ready"
        /\ \A m \in Levels : next \notin Elems(PopFront(q, l)[m])
    BY <1>1, <2>1, PopFrontOK
  <2> HIDE DEF next
  <2>3. /\ current' = next
        /\ state' = IF next = current THEN st ELSE [st EXCEPT ![next] = "Running"]
    BY <1>4 DEF SwitchTo, next
  <2>4. /\ state' \in [AllThreads -> ThreadStates]
        /\ \A t \in AllThreads \ {next} : state'[t] = st[t]
        /\ state'[next] \in {"Ready", "Running"}
    BY <2>2, <2>3, <1>1, <1>2 DEF ThreadStates
  <2>5. CurrentOffQueues'
    BY <2>2, <2>3, <1>4 DEF CurrentOffQueues
  <2>6. OnlyCurrentRuns'
    BY <2>3, <2>4, <1>1, <1>2 DEF OnlyCurrentRuns
  <2>7. QueuesOK(queues', state', lv)
    <3>1. \A m \in Levels : \A t \in Elems(PopFront(q, l)[m]) : state'[t] = st[t]
      <4>1. \A m \in Levels : Elems(PopFront(q, l)[m]) \subseteq Schedulable
        BY <2>2, ElemsType
      <4> QED  BY <4>1, <2>2, <2>4, <1>2
    <3> QED  BY <3>1, <2>2, <1>4, QueuesOKAgree
  <2>8. state'[Idle] = "Running"
    BY <2>2, <2>4, <1>1, <1>2
  <2>9. \A t \in AllThreads : \A x \in {"Free", "Blocked", "Terminated"} :
          state'[t] = x <=> st[t] = x
    BY <2>2, <2>4, <1>2
  <2> QED
    BY <2>2, <2>3, <2>4, <2>5, <2>6, <2>7, <2>8, <2>9, <1>2, <1>4 DEF SchedulePost
<1> QED  BY <1>3, <1>4 DEF ScheduleLocked
----------------------------------------------------------------------------
(* No thread is born, falls asleep, wakes up, dies or is freed.            *)
SameLife ==
    \A t \in AllThreads : \A x \in {"Free", "Blocked", "Terminated"} :
        state'[t] = x <=> state[t] = x

(* A step that reschedules and leaves the wait and dead lists alone keeps  *)
(* IInv when the states it starts from differ from the old ones by Ready   *)
(* and Running only.                                                       *)
LEMMA RescheduleKeeps ==
  ASSUME IInv, NEW st, SchedulePost(st, level'),
         \A t \in AllThreads : \A x \in {"Free", "Blocked", "Terminated"} :
            st[t] = x <=> state[t] = x,
         level' \in [AllThreads -> Levels],
         ticks' \in [AllThreads -> Nat \ {0}],
         tick' \in 0..(kBoostInterval - 1),
         chan' = chan, waitq' = waitq,
         deadList' = deadList, localDead' = localDead,
         reaperPc' \in {"collect", "reclaim"},
         reaperPc' = "collect" => localDead = <<>>
  PROVE  IInv' /\ SameLife
<1>1. /\ queues' \in [Levels -> Seq(Schedulable)]
      /\ state' \in [AllThreads -> ThreadStates]
      /\ current' \in AllThreads
      /\ QueuesOK(queues', state', level')
      /\ CurrentOffQueues'
      /\ OnlyCurrentRuns'
      /\ state'[Idle] = "Running"
      /\ \A t \in AllThreads : \A x \in {"Free", "Blocked", "Terminated"} :
            state'[t] = x <=> st[t] = x
  BY DEF SchedulePost
<1>2. \A t \in AllThreads : /\ state'[t] = "Blocked" <=> state[t] = "Blocked"
                            /\ state'[t] = "Terminated" <=> state[t] = "Terminated"
  BY <1>1
<1>3. TypeOK'
  BY <1>1 DEF IInv, TypeOK
<1>4. WaitQueueSound'
  BY <1>2 DEF IInv, WaitQueueSound
<1>5. DeadListsOK'
  BY DEF IInv, DeadListsOK
<1>6. DeadThreadsSound'
  <2>1. Dead' = Dead
    BY DEF Dead
  <2>2. Dead' = {t \in AllThreads : state'[t] = "Terminated"}
    BY <1>2, <2>1 DEF IInv, DeadThreadsSound
  <2>3. current' \notin Dead'
    BY <1>1, <2>2 DEF OnlyCurrentRuns
  <2> QED  BY <2>2, <2>3 DEF DeadThreadsSound
<1>7. SameLife
  BY <1>1 DEF SameLife
<1> QED  BY <1>1, <1>3, <1>4, <1>5, <1>6, <1>7 DEF IInv

(* The boost keeps the queues consistent with the levels it sets.          *)
LEMMA TickQueuesOK ==
  ASSUME IInv
  PROVE  /\ TickQueues \in [Levels -> Seq(Schedulable)]
         /\ QueuesOK(TickQueues, state, TickLevel)
         /\ \A l \in Levels : current \notin Elems(TickQueues[l])
         /\ TickLevel \in [AllThreads -> Levels]
         /\ TickTicks \in [AllThreads -> Nat \ {0}]
         /\ (tick + 1) % kBoostInterval \in 0..(kBoostInterval - 1)
<1>1. /\ queues \in [Levels -> Seq(Schedulable)]
      /\ QueuesOK(queues, state, level)
      /\ \A l \in Levels : current \notin Elems(queues[l])
      /\ level \in [AllThreads -> Levels]
      /\ ticks \in [AllThreads -> Nat \ {0}]
      /\ tick \in Nat
  BY QuantumAssumption DEF IInv, TypeOK, CurrentOffQueues
<1>2. TickLevel \in [AllThreads -> Levels]
  BY <1>1, LevelsAre DEF TickLevel
<1>3. TickTicks \in [AllThreads -> Nat \ {0}]
  BY <1>1, LevelsAre, QuantumAssumption DEF TickTicks
<1>4. (tick + 1) % kBoostInterval \in 0..(kBoostInterval - 1)
  BY <1>1, QuantumAssumption
<1>5. CASE ~BoostDue
  <2>1. TickQueues = queues /\ TickLevel = level
    BY <1>1, <1>5 DEF TickQueues, TickLevel
  <2> QED  BY <2>1, <1>1, <1>2, <1>3, <1>4
<1>6. CASE BoostDue
  <2> DEFINE q0 == queues[0]
             q1 == queues[1]
             q2 == queues[2]
             all == q0 \o q1 \o q2
  <2>0. 0 \in Levels /\ 1 \in Levels /\ 2 \in Levels
    BY LevelsAre
  <2>1. /\ \A t \in Elems(q0) : level[t] = 0
        /\ \A t \in Elems(q1) : level[t] = 1
        /\ \A t \in Elems(q2) : level[t] = 2
        /\ NoRepeat(q0) /\ NoRepeat(q1) /\ NoRepeat(q2)
    BY <2>0, <1>1 DEF QueuesOK
  <2>2. /\ q0 \in Seq(Schedulable)
        /\ q1 \in Seq(Schedulable)
        /\ q2 \in Seq(Schedulable)
    BY <2>0, <1>1
  <2>3. /\ Elems(q0) \cap Elems(q1) = {}
        /\ Elems(q0) \cap Elems(q2) = {}
        /\ Elems(q1) \cap Elems(q2) = {}
    BY <2>1
  <2>4. /\ all \in Seq(Schedulable)
        /\ Elems(all) = Elems(q0) \cup Elems(q1) \cup Elems(q2)
        /\ NoRepeat(all)
    BY <2>1, <2>2, <2>3, ConcatElems3
  <2> HIDE DEF all
  <2>5. \A l \in Levels : TickQueues[l] = IF l = 0 THEN all ELSE <<>>
    BY <1>6 DEF TickQueues, Boost, all
  <2>6. TickQueues \in [Levels -> Seq(Schedulable)]
    <3>1. TickQueues = [l \in Levels |-> TickQueues[l]]
      BY <1>6 DEF TickQueues, Boost
    <3>2. <<>> \in Seq(Schedulable)
      OBVIOUS
    <3>3. \A l \in Levels : TickQueues[l] \in Seq(Schedulable)
      BY <2>4, <2>5, <3>2, Zenon
    <3> QED  BY <3>1, <3>3
  <2>7. Elems(<<>>) = {} /\ NoRepeat(<<>>)
    BY DEF Elems, NoRepeat
  <2>8. ASSUME NEW t \in Elems(q0) \cup Elems(q1) \cup Elems(q2)
        PROVE  state[t] = "Ready" /\ TickLevel[t] = 0 /\ t # current
    <3>1. t \in AllThreads
      BY <2>2, ElemsType DEF AllThreads
    <3>2. state[t] = "Ready" /\ t # current /\ (t \in Elems(q0) => level[t] = 0)
      BY <2>0, <2>1, <1>1 DEF QueuesOK
    <3>3. t \in Elems(q1) \cup Elems(q2) => t \in Boosted
      BY LevelsAre DEF Boosted
    <3> QED  BY <3>1, <3>2, <3>3, <1>6 DEF TickLevel
  <2>9. QueuesOK(TickQueues, state, TickLevel)
    BY <2>4, <2>5, <2>7, <2>8, LevelsAre DEF QueuesOK
  <2>10. \A l \in Levels : current \notin Elems(TickQueues[l])
    BY <2>4, <2>5, <2>7, <2>8, LevelsAre
  <2> QED  BY <2>6, <2>9, <2>10, <1>2, <1>3, <1>4
<1> QED  BY <1>5, <1>6

(* The timer interrupt keeps the invariant.                                *)
LEMMA TickKeeps ==
  ASSUME IInv, Tick
  PROVE  IInv' /\ SameLife
<1>1. /\ TickQueues \in [Levels -> Seq(Schedulable)]
      /\ QueuesOK(TickQueues, state, TickLevel)
      /\ \A l \in Levels : current \notin Elems(TickQueues[l])
      /\ TickLevel \in [AllThreads -> Levels]
      /\ TickTicks \in [AllThreads -> Nat \ {0}]
      /\ (tick + 1) % kBoostInterval \in 0..(kBoostInterval - 1)
  BY TickQueuesOK
<1>2. /\ state \in [AllThreads -> ThreadStates]
      /\ level \in [AllThreads -> Levels]
      /\ ticks \in [AllThreads -> Nat \ {0}]
      /\ current \in AllThreads
      /\ \A t \in Schedulable : state[t] = "Running" => t = current
      /\ state[current] \in {"Ready", "Running"}
      /\ state[Idle] = "Running"
  BY DEF IInv, TypeOK, OnlyCurrentRuns
<1>3. Idle \notin Schedulable /\ AllThreads = Schedulable \cup {Idle}
  BY ThreadsAssumption DEF Schedulable, AllThreads
<1>4. /\ tick' \in 0..(kBoostInterval - 1)
      /\ chan' = chan /\ waitq' = waitq
      /\ deadList' = deadList /\ localDead' = localDead
      /\ reaperPc' \in {"collect", "reclaim"}
      /\ reaperPc' = "collect" => localDead = <<>>
  BY <1>1 DEF Tick, reap, IInv, TypeOK, DeadListsOK
<1>5. CASE TickIdle
  <2>1. SchedulePre(TickQueues, state, TickLevel)
    BY <1>1, <1>2, <1>3, <1>5 DEF TickIdle, SchedulePre
  <2>2. level' = TickLevel /\ ticks' = TickTicks
    BY <1>5 DEF TickIdle
  <2>3. SchedulePost(state, level')
    BY <2>1, <2>2, <1>5, ScheduleStep DEF TickIdle
  <2> QED  BY <2>2, <2>3, <1>1, <1>4, RescheduleKeeps
<1>6. CASE TickCharge
  <2>1. /\ level' = TickLevel
        /\ queues' = TickQueues
        /\ state' = state /\ current' = current
    BY <1>6 DEF TickCharge
  <2>2. ticks' \in [AllThreads -> Nat \ {0}]
    <3>1. current \notin Boosted
      BY DEF IInv, CurrentOffQueues, Boosted
    <3>2. TickTicks[current] = ticks[current] /\ ticks[current] > 1
      BY <3>1, <1>2, <1>6 DEF TickTicks, TickCharge
    <3>3. TickTicks[current] - 1 \in Nat \ {0}
      BY <3>2, <1>2
    <3>4. ticks' = [TickTicks EXCEPT ![current] = TickTicks[current] - 1]
      BY <1>6 DEF TickCharge
    <3> QED  BY <3>3, <3>4, <1>1, <1>2
  <2>3. SchedulePost(state, level')
    <3>1. QueuesOK(queues', state', level')
      BY <2>1, <1>1
    <3>2. CurrentOffQueues'
      BY <2>1, <1>1 DEF CurrentOffQueues
    <3>3. OnlyCurrentRuns'
      BY <2>1, <1>2 DEF OnlyCurrentRuns
    <3> QED  BY <3>1, <3>2, <3>3, <2>1, <1>1, <1>2 DEF SchedulePost
  <2> QED  BY <2>1, <2>2, <2>3, <1>1, <1>4, RescheduleKeeps
<1>7. CASE TickExpire
  <2> DEFINE st == [state EXCEPT ![current] = "Ready"]
             lv == [TickLevel EXCEPT ![current] = NewLevel]
             q == PushBack(TickQueues, NewLevel, current)
  <2>1. current \in Schedulable /\ current # Idle
    BY <1>2, <1>3, <1>7 DEF TickExpire
  <2>2. NewLevel \in Levels
    BY <1>2, LevelsAre DEF NewLevel
  <2>3. /\ lv \in [AllThreads -> Levels]
        /\ lv[current] = NewLevel
        /\ \A t \in AllThreads \ {current} : lv[t] = TickLevel[t]
    BY <2>2, <1>1, <1>2
  <2>4. /\ st \in [AllThreads -> ThreadStates]
        /\ st[current] = "Ready"
        /\ \A t \in AllThreads \ {current} : st[t] = state[t]
    BY <1>2 DEF ThreadStates
  <2>5. level' = lv /\ ticks' = [TickTicks EXCEPT ![current] = kQuantum[NewLevel]]
        /\ ScheduleLocked(q, st)
    BY <1>7 DEF TickExpire
  <2> HIDE DEF st, lv
  <2>6. QueuesOK(TickQueues, st, lv)
    <3>1. \A l \in Levels : Elems(TickQueues[l]) \subseteq AllThreads
      BY <1>1, <1>3, ElemsType
    <3>2. \A l \in Levels : \A t \in Elems(TickQueues[l]) :
            st[t] = state[t] /\ lv[t] = TickLevel[t]
      BY <3>1, <2>3, <2>4, <1>1
    <3> QED  BY <3>2, <1>1, QueuesOKAgree
  <2>7. q \in [Levels -> Seq(Schedulable)] /\ QueuesOK(q, st, lv)
    BY <2>1, <2>2, <2>3, <2>4, <2>6, <1>1, PushBackOK
  <2> HIDE DEF q
  <2>8. SchedulePre(q, st, lv)
    BY <2>1, <2>4, <2>7, <1>2, <1>3 DEF SchedulePre
  <2>9. SchedulePost(st, level')
    BY <2>5, <2>8, ScheduleStep
  <2>10. ticks' \in [AllThreads -> Nat \ {0}]
    BY <2>2, <2>5, <1>1, QuantumAssumption
  <2>11. \A t \in AllThreads : \A x \in {"Free", "Blocked", "Terminated"} :
            st[t] = x <=> state[t] = x
    BY <2>4, <1>2
  <2> QED  BY <2>3, <2>5, <2>9, <2>10, <2>11, <1>4, RescheduleKeeps
<1> QED  BY <1>5, <1>6, <1>7 DEF Tick
(* Yield, from a user thread or from the reaper, keeps the invariant.      *)
LEMMA YieldCpuKeeps ==
  ASSUME IInv, current \in Schedulable, YieldCpu,
         deadList' = deadList, localDead' = localDead,
         reaperPc' \in {"collect", "reclaim"},
         reaperPc' = "collect" => localDead = <<>>
  PROVE  IInv' /\ SameLife
<1>1. /\ state \in [AllThreads -> ThreadStates]
      /\ level \in [AllThreads -> Levels]
      /\ ticks \in [AllThreads -> Nat \ {0}]
      /\ queues \in [Levels -> Seq(Schedulable)]
      /\ QueuesOK(queues, state, level)
      /\ \A l \in Levels : current \notin Elems(queues[l])
      /\ \A t \in Schedulable : state[t] = "Running" => t = current
      /\ state[current] \in {"Ready", "Running"}
      /\ state[Idle] = "Running"
  BY DEF IInv, TypeOK, OnlyCurrentRuns, CurrentOffQueues
<1>2. Idle \notin Schedulable /\ AllThreads = Schedulable \cup {Idle}
  BY ThreadsAssumption DEF Schedulable, AllThreads
<1>3. /\ level' = level /\ tick' = tick /\ chan' = chan /\ waitq' = waitq
      /\ tick' \in 0..(kBoostInterval - 1)
  BY DEF YieldCpu, IInv, TypeOK
<1>4. CASE YieldRequeue
  <2> DEFINE st == [state EXCEPT ![current] = "Ready"]
             q == PushBack(queues, level[current], current)
  <2>1. /\ ticks' = [ticks EXCEPT ![current] = kQuantum[level[current]]]
        /\ ScheduleLocked(q, st)
    BY <1>4 DEF YieldRequeue
  <2>2. /\ st \in [AllThreads -> ThreadStates]
        /\ st[current] = "Ready"
        /\ \A t \in AllThreads \ {current} : st[t] = state[t]
    BY <1>1, <1>2 DEF ThreadStates
  <2> HIDE DEF st
  <2>3. QueuesOK(queues, st, level)
    <3>1. \A l \in Levels : Elems(queues[l]) \subseteq AllThreads
      BY <1>1, <1>2, ElemsType
    <3>2. \A l \in Levels : \A t \in Elems(queues[l]) : st[t] = state[t]
      BY <3>1, <2>2, <1>1
    <3> QED  BY <3>2, <1>1, QueuesOKAgree
  <2>4. level[current] \in Levels
    BY <1>1, <1>2
  <2>5. q \in [Levels -> Seq(Schedulable)] /\ QueuesOK(q, st, level)
    BY <2>2, <2>3, <2>4, <1>1, PushBackOK
  <2> HIDE DEF q
  <2>6. SchedulePre(q, st, level)
    BY <2>2, <2>5, <1>1, <1>2 DEF SchedulePre
  <2>7. SchedulePost(st, level')
    BY <2>1, <2>6, <1>3, ScheduleStep
  <2>8. ticks' \in [AllThreads -> Nat \ {0}]
    BY <2>1, <2>4, <1>1, QuantumAssumption
  <2>9. \A t \in AllThreads : \A x \in {"Free", "Blocked", "Terminated"} :
            st[t] = x <=> state[t] = x
    BY <2>2, <1>1
  <2> QED  BY <2>7, <2>8, <2>9, <1>1, <1>3, RescheduleKeeps
<1>5. CASE YieldNoRequeue
  <2>1. /\ ticks' = ticks
        /\ ScheduleLocked(queues, state)
        /\ state[current] # "Running"
    BY <1>5 DEF YieldNoRequeue
  <2>2. SchedulePre(queues, state, level)
    BY <2>1, <1>1 DEF SchedulePre
  <2>3. SchedulePost(state, level')
    BY <2>1, <2>2, <1>3, ScheduleStep
  <2> QED  BY <2>1, <2>3, <1>1, <1>3, RescheduleKeeps
<1> QED  BY <1>4, <1>5 DEF YieldCpu

(* Block moves the current thread, and no other, to the wait queue.        *)
LEMMA BlockKeeps ==
  ASSUME IInv, NEW ch \in Channels, Block(ch)
  PROVE  /\ IInv'
         /\ \A t \in AllThreads :
               /\ state'[t] = "Blocked" <=> t = current \/ state[t] = "Blocked"
               /\ state'[t] = "Terminated" <=> state[t] = "Terminated"
               /\ state'[t] = "Free" <=> state[t] = "Free"
<1>1. /\ state \in [AllThreads -> ThreadStates]
      /\ level \in [AllThreads -> Levels]
      /\ chan \in [AllThreads -> Channels \cup {NoChannel}]
      /\ queues \in [Levels -> Seq(Schedulable)]
      /\ waitq \in Seq(Threads)
      /\ QueuesOK(queues, state, level)
      /\ \A l \in Levels : current \notin Elems(queues[l])
      /\ \A t \in Schedulable : state[t] = "Running" => t = current
      /\ state[current] \in {"Ready", "Running"}
      /\ state[Idle] = "Running"
  BY DEF IInv, TypeOK, OnlyCurrentRuns, CurrentOffQueues
<1>2. /\ Idle \notin Schedulable /\ AllThreads = Schedulable \cup {Idle}
      /\ Threads \subseteq Schedulable
      /\ NoChannel \notin Channels
  BY ThreadsAssumption DEF Schedulable, AllThreads
<1> DEFINE st == [state EXCEPT ![current] = "Blocked"]
<1>3. /\ current \in Threads
      /\ chan' = [chan EXCEPT ![current] = ch]
      /\ waitq' = Append(waitq, current)
      /\ ScheduleLocked(queues, st)
      /\ level' = level /\ ticks' = ticks /\ tick' = tick
      /\ deadList' = deadList /\ localDead' = localDead /\ reaperPc' = reaperPc
  BY DEF Block, reap
<1>4. /\ st \in [AllThreads -> ThreadStates]
      /\ st[current] = "Blocked"
      /\ \A t \in AllThreads \ {current} : st[t] = state[t]
  BY <1>1, <1>2, <1>3 DEF ThreadStates
<1> HIDE DEF st
<1>5. QueuesOK(queues, st, level)
  <2>1. \A l \in Levels : Elems(queues[l]) \subseteq AllThreads
    BY <1>1, <1>2, ElemsType
  <2>2. \A l \in Levels : \A t \in Elems(queues[l]) : st[t] = state[t]
    BY <2>1, <1>1, <1>4
  <2> QED  BY <2>2, <1>1, QueuesOKAgree
<1>6. SchedulePre(queues, st, level)
  BY <1>1, <1>2, <1>3, <1>4, <1>5 DEF SchedulePre
<1>7. SchedulePost(st, level)
  BY <1>3, <1>6, ScheduleStep
<1>8. /\ queues' \in [Levels -> Seq(Schedulable)]
      /\ state' \in [AllThreads -> ThreadStates]
      /\ current' \in AllThreads
      /\ QueuesOK(queues', state', level')
      /\ CurrentOffQueues'
      /\ OnlyCurrentRuns'
      /\ state'[Idle] = "Running"
  BY <1>3, <1>7 DEF SchedulePost
<1>9. \A t \in AllThreads :
        /\ state'[t] = "Blocked" <=> t = current \/ state[t] = "Blocked"
        /\ state'[t] = "Terminated" <=> state[t] = "Terminated"
        /\ state'[t] = "Free" <=> state[t] = "Free"
  <2>1. \A t \in AllThreads : /\ state'[t] = "Blocked" <=> st[t] = "Blocked"
                              /\ state'[t] = "Terminated" <=> st[t] = "Terminated"
                              /\ state'[t] = "Free" <=> st[t] = "Free"
    BY <1>7 DEF SchedulePost
  <2> QED  BY <2>1, <1>1, <1>4
<1>10. TypeOK'
  BY <1>1, <1>2, <1>3, <1>8 DEF IInv, TypeOK
<1>11. WaitQueueSound'
  <2>1. /\ NoRepeat(waitq)
        /\ Elems(waitq) = {t \in AllThreads : state[t] = "Blocked"}
        /\ \A t \in AllThreads : chan[t] # NoChannel <=> state[t] = "Blocked"
    BY DEF IInv, WaitQueueSound
  <2>2. current \notin Elems(waitq) /\ current \in AllThreads
    BY <2>1, <1>1, <1>2, <1>3
  <2>3. Elems(waitq') = Elems(waitq) \cup {current} /\ NoRepeat(waitq')
    BY <2>1, <2>2, <1>1, <1>3, AppendElems
  <2>4. Elems(waitq') = {t \in AllThreads : state'[t] = "Blocked"}
    BY <2>1, <2>2, <2>3, <1>9
  <2>5. \A t \in AllThreads : chan'[t] # NoChannel <=> state'[t] = "Blocked"
    BY <2>1, <2>2, <1>1, <1>2, <1>3, <1>9
  <2> QED  BY <2>3, <2>4, <2>5 DEF WaitQueueSound
<1>12. DeadListsOK'
  BY <1>3 DEF IInv, DeadListsOK
<1>13. DeadThreadsSound'
  <2>1. Dead' = Dead
    BY <1>3 DEF Dead
  <2>2. Dead' = {t \in AllThreads : state'[t] = "Terminated"}
    BY <2>1, <1>9 DEF IInv, DeadThreadsSound
  <2>3. current' \notin Dead'
    BY <2>2, <1>8 DEF OnlyCurrentRuns
  <2> QED  BY <2>2, <2>3 DEF DeadThreadsSound
<1> QED  BY <1>8, <1>9, <1>10, <1>11, <1>12, <1>13 DEF IInv

(* What Wake does to the lists, for any positions W of the wait queue: the *)
(* threads there leave it, each once, for the run queue of their level.    *)
LEMMA WakeFacts ==
  ASSUME IInv, NEW W \in SUBSET (DOMAIN waitq)
  PROVE  /\ WakeQueues(W) \in [Levels -> Seq(Schedulable)]
         /\ WakeStates(W) \in [AllThreads -> ThreadStates]
         /\ QueuesOK(WakeQueues(W), WakeStates(W), level)
         /\ \A l \in Levels : current \notin Elems(WakeQueues(W)[l])
         /\ WokenThreads(W) \subseteq {t \in Threads : state[t] = "Blocked"}
         /\ \A t \in AllThreads :
               WakeStates(W)[t] = IF t \in WokenThreads(W) THEN "Ready" ELSE state[t]
<1>1. /\ state \in [AllThreads -> ThreadStates]
      /\ queues \in [Levels -> Seq(Schedulable)]
      /\ waitq \in Seq(Threads)
      /\ QueuesOK(queues, state, level)
      /\ \A l \in Levels : current \notin Elems(queues[l])
      /\ state[current] \in {"Ready", "Running"}
      /\ NoRepeat(waitq)
      /\ Elems(waitq) = {t \in AllThreads : state[t] = "Blocked"}
  BY DEF IInv, TypeOK, OnlyCurrentRuns, CurrentOffQueues, WaitQueueSound
<1>2. /\ Threads \subseteq Schedulable
      /\ Schedulable \subseteq AllThreads
  BY DEF Schedulable, AllThreads
<1>3. WokenThreads(W) \subseteq {t \in Threads : state[t] = "Blocked"}
  <2>1. WokenThreads(W) \subseteq Elems(waitq)
    BY DEF WokenThreads, Elems
  <2> QED  BY <2>1, <1>1, ElemsType
<1>4. /\ WakeStates(W) \in [AllThreads -> ThreadStates]
      /\ \A t \in AllThreads :
            WakeStates(W)[t] = IF t \in WokenThreads(W) THEN "Ready" ELSE state[t]
  BY <1>1 DEF WakeStates, ThreadStates
<1> DEFINE add(l) == Sublist(waitq, {i \in W : level[waitq[i]] = l})
<1>5. ASSUME NEW l \in Levels
      PROVE  /\ add(l) \in Seq(Schedulable)
             /\ NoRepeat(add(l))
             /\ \A t \in Elems(add(l)) : t \in WokenThreads(W) /\ level[t] = l
  <2> DEFINE V == {i \in W : level[waitq[i]] = l}
  <2>1. V \in SUBSET (DOMAIN waitq) /\ waitq \in Seq(Schedulable)
    BY <1>1, <1>2
  <2>2. /\ Sublist(waitq, V) \in Seq(Schedulable)
        /\ Elems(Sublist(waitq, V)) = {waitq[i] : i \in V}
        /\ NoRepeat(Sublist(waitq, V))
    BY <2>1, <1>1, SublistElems
  <2>3. \A t \in {waitq[i] : i \in V} : t \in WokenThreads(W) /\ level[t] = l
    BY DEF WokenThreads
  <2> QED  BY <2>2, <2>3
<1>6. \A l \in Levels : WakeQueues(W)[l] = queues[l] \o add(l)
  BY DEF WakeQueues
<1>7. WakeQueues(W) = [l \in Levels |-> WakeQueues(W)[l]]
  BY DEF WakeQueues
<1> HIDE DEF add
<1>8. ASSUME NEW l \in Levels
      PROVE  /\ WakeQueues(W)[l] \in Seq(Schedulable)
             /\ NoRepeat(WakeQueues(W)[l])
             /\ Elems(WakeQueues(W)[l]) = Elems(queues[l]) \cup Elems(add(l))
  <2>1. queues[l] \in Seq(Schedulable) /\ NoRepeat(queues[l])
    BY <1>1 DEF QueuesOK
  <2>2. Elems(queues[l]) \cap Elems(add(l)) = {}
    <3>1. \A t \in Elems(queues[l]) : state[t] = "Ready"
      BY <1>1 DEF QueuesOK
    <3>2. \A t \in Elems(add(l)) : state[t] = "Blocked"
      BY <1>3, <1>5
    <3> QED  BY <3>1, <3>2
  <2>3. queues[l] \o add(l) \in Seq(Schedulable)
    BY <2>1, <1>5
  <2>4. /\ Elems(queues[l] \o add(l)) = Elems(queues[l]) \cup Elems(add(l))
        /\ NoRepeat(queues[l] \o add(l))
    BY <2>1, <2>2, <1>5, ConcatElems
  <2> QED  BY <2>3, <2>4, <1>6
<1>9. WakeQueues(W) \in [Levels -> Seq(Schedulable)]
  BY <1>7, <1>8
<1>10. ASSUME NEW l \in Levels, NEW t \in Elems(WakeQueues(W)[l])
       PROVE  WakeStates(W)[t] = "Ready" /\ level[t] = l /\ t # current
  <2>1. t \in AllThreads
    BY <1>2, <1>8, ElemsType
  <2>2. CASE t \in Elems(queues[l])
    <3>1. state[t] = "Ready" /\ level[t] = l /\ t # current
      BY <2>2, <1>1 DEF QueuesOK
    <3> QED  BY <3>1, <2>1, <1>4
  <2>3. CASE t \in Elems(add(l))
    <3>1. t \in WokenThreads(W) /\ level[t] = l /\ state[t] = "Blocked"
      BY <2>3, <1>3, <1>5
    <3> QED  BY <3>1, <2>1, <1>1, <1>4
  <2> QED  BY <2>2, <2>3, <1>8
<1>11. QueuesOK(WakeQueues(W), WakeStates(W), level)
  BY <1>8, <1>10 DEF QueuesOK
<1> QED  BY <1>3, <1>4, <1>9, <1>10, <1>11

(* The threads Wake removes from the wait queue are those it removes from  *)
(* the sleepers, and the channel goes with them.                           *)
LEMMA WakeRestFacts ==
  ASSUME IInv, NEW W \in SUBSET (DOMAIN waitq), WakeRest(W)
  PROVE  /\ waitq' \in Seq(Threads)
         /\ chan' \in [AllThreads -> Channels \cup {NoChannel}]
         /\ ticks' \in [AllThreads -> Nat \ {0}]
         /\ NoRepeat(waitq')
         /\ Elems(waitq') = Elems(waitq) \ WokenThreads(W)
         /\ \A t \in AllThreads :
               chan'[t] # NoChannel <=> state[t] = "Blocked" /\ t \notin WokenThreads(W)
<1>1. /\ waitq \in Seq(Threads)
      /\ chan \in [AllThreads -> Channels \cup {NoChannel}]
      /\ ticks \in [AllThreads -> Nat \ {0}]
      /\ level \in [AllThreads -> Levels]
      /\ NoRepeat(waitq)
      /\ \A t \in AllThreads : chan[t] # NoChannel <=> state[t] = "Blocked"
  BY DEF IInv, TypeOK, WaitQueueSound
<1> DEFINE V == DOMAIN waitq \ W
<1>2. /\ Sublist(waitq, V) \in Seq(Threads)
      /\ Elems(Sublist(waitq, V)) = {waitq[i] : i \in V}
      /\ NoRepeat(Sublist(waitq, V))
  BY <1>1, SublistElems
<1>3. waitq' = Sublist(waitq, V)
  BY DEF WakeRest
<1>4. {waitq[i] : i \in V} = Elems(waitq) \ WokenThreads(W)
  <2>1. \A i \in V : waitq[i] \in Elems(waitq) /\ waitq[i] \notin WokenThreads(W)
    BY <1>1 DEF Elems, WokenThreads, NoRepeat
  <2>2. \A t \in Elems(waitq) \ WokenThreads(W) : \E i \in V : t = waitq[i]
    BY DEF Elems, WokenThreads
  <2> QED  BY <2>1, <2>2
<1>5. ticks' \in [AllThreads -> Nat \ {0}]
  BY <1>1, QuantumAssumption DEF WakeRest
<1>6. /\ chan' \in [AllThreads -> Channels \cup {NoChannel}]
      /\ \A t \in AllThreads :
            chan'[t] # NoChannel <=> state[t] = "Blocked" /\ t \notin WokenThreads(W)
  BY <1>1 DEF WakeRest
<1> QED  BY <1>2, <1>3, <1>4, <1>5, <1>6

(* Wake keeps the invariant, whether it wakes one thread or all.           *)
LEMMA WakeKeeps ==
  ASSUME IInv, NEW ch \in Channels, NEW wake_all \in BOOLEAN, Wake(ch, wake_all)
  PROVE  IInv'
<1> DEFINE W == Woken(ch, wake_all)
<1>1. W \in SUBSET (DOMAIN waitq)
  BY DEF Woken, Sleepers
<1>2. /\ queues' = WakeQueues(W)
      /\ state' = WakeStates(W)
      /\ WakeRest(W)
      /\ level' = level /\ current' = current /\ tick' = tick
      /\ deadList' = deadList /\ localDead' = localDead /\ reaperPc' = reaperPc
  BY DEF Wake, reap
<1> HIDE DEF W
<1>3. /\ WakeQueues(W) \in [Levels -> Seq(Schedulable)]
      /\ WakeStates(W) \in [AllThreads -> ThreadStates]
      /\ QueuesOK(WakeQueues(W), WakeStates(W), level)
      /\ \A l \in Levels : current \notin Elems(WakeQueues(W)[l])
      /\ WokenThreads(W) \subseteq {t \in Threads : state[t] = "Blocked"}
      /\ \A t \in AllThreads :
            WakeStates(W)[t] = IF t \in WokenThreads(W) THEN "Ready" ELSE state[t]
  BY <1>1, WakeFacts
<1>4. /\ waitq' \in Seq(Threads)
      /\ chan' \in [AllThreads -> Channels \cup {NoChannel}]
      /\ ticks' \in [AllThreads -> Nat \ {0}]
      /\ NoRepeat(waitq')
      /\ Elems(waitq') = Elems(waitq) \ WokenThreads(W)
      /\ \A t \in AllThreads :
            chan'[t] # NoChannel <=> state[t] = "Blocked" /\ t \notin WokenThreads(W)
  BY <1>1, <1>2, WakeRestFacts
<1>5. \A t \in AllThreads :
        /\ state'[t] = "Blocked" <=> state[t] = "Blocked" /\ t \notin WokenThreads(W)
        /\ state'[t] = "Terminated" <=> state[t] = "Terminated"
        /\ state'[t] = "Running" <=> state[t] = "Running"
  BY <1>2, <1>3
<1>6. TypeOK'
  BY <1>2, <1>3, <1>4 DEF IInv, TypeOK
<1>7. QueuesOK(queues', state', level') /\ CurrentOffQueues'
  BY <1>2, <1>3 DEF CurrentOffQueues
<1>8. WaitQueueSound'
  BY <1>4, <1>5 DEF IInv, WaitQueueSound
<1>9. OnlyCurrentRuns' /\ state'[Idle] = "Running"
  <2>1. Schedulable \subseteq AllThreads /\ current \in AllThreads /\ Idle \in AllThreads
    BY DEF AllThreads, IInv, TypeOK
  <2> QED  BY <2>1, <1>2, <1>3, <1>5 DEF IInv, OnlyCurrentRuns
<1>10. DeadListsOK'
  BY <1>2 DEF IInv, DeadListsOK
<1>11. DeadThreadsSound'
  <2>1. Dead' = Dead
    BY <1>2 DEF Dead
  <2> QED  BY <2>1, <1>2, <1>5 DEF IInv, DeadThreadsSound
<1> QED  BY <1>6, <1>7, <1>8, <1>9, <1>10, <1>11 DEF IInv

(* Exit keeps the invariant: the thread that leaves is on the dead list    *)
(* and on no queue.                                                        *)
LEMMA ExitKeeps ==
  ASSUME IInv, NEW ch \in Channels, Exit(ch)
  PROVE  /\ IInv'
         /\ \A t \in AllThreads :
               /\ state'[t] = "Blocked" <=>
                    state[t] = "Blocked" /\ t \notin WokenThreads(Woken(ch, FALSE))
               /\ state'[t] = "Terminated" <=> state[t] = "Terminated" \/ t = current
               /\ state'[t] = "Free" <=> state[t] = "Free"
<1> DEFINE W == Woken(ch, FALSE)
           st == [WakeStates(W) EXCEPT ![current] = "Terminated"]
<1>1. W \in SUBSET (DOMAIN waitq)
  BY DEF Woken, Sleepers
<1>2. /\ current \in Threads
      /\ WakeRest(W)
      /\ deadList' = Append(deadList, current)
      /\ ScheduleLocked(WakeQueues(W), st)
      /\ level' = level /\ tick' = tick /\ localDead' = localDead /\ reaperPc' = reaperPc
  BY DEF Exit
<1> HIDE DEF W
<1>3. /\ WakeQueues(W) \in [Levels -> Seq(Schedulable)]
      /\ WakeStates(W) \in [AllThreads -> ThreadStates]
      /\ QueuesOK(WakeQueues(W), WakeStates(W), level)
      /\ \A l \in Levels : current \notin Elems(WakeQueues(W)[l])
      /\ WokenThreads(W) \subseteq {t \in Threads : state[t] = "Blocked"}
      /\ \A t \in AllThreads :
            WakeStates(W)[t] = IF t \in WokenThreads(W) THEN "Ready" ELSE state[t]
  BY <1>1, WakeFacts
<1>4. /\ waitq' \in Seq(Threads)
      /\ chan' \in [AllThreads -> Channels \cup {NoChannel}]
      /\ ticks' \in [AllThreads -> Nat \ {0}]
      /\ NoRepeat(waitq')
      /\ Elems(waitq') = Elems(waitq) \ WokenThreads(W)
      /\ \A t \in AllThreads :
            chan'[t] # NoChannel <=> state[t] = "Blocked" /\ t \notin WokenThreads(W)
  BY <1>1, <1>2, WakeRestFacts
<1>5. /\ Idle \notin Schedulable /\ AllThreads = Schedulable \cup {Idle}
      /\ Threads \subseteq Schedulable
      /\ current \in AllThreads
  BY <1>2, ThreadsAssumption DEF Schedulable, AllThreads
<1>6. /\ \A t \in Schedulable : state[t] = "Running" => t = current
      /\ state[current] \in {"Ready", "Running"}
      /\ state[Idle] = "Running"
  BY DEF IInv, OnlyCurrentRuns
<1>7. /\ st \in [AllThreads -> ThreadStates]
      /\ st[current] = "Terminated"
      /\ \A t \in AllThreads \ {current} : st[t] = WakeStates(W)[t]
  BY <1>3, <1>5 DEF ThreadStates
<1> HIDE DEF st
<1>8. QueuesOK(WakeQueues(W), st, level)
  <2>1. \A l \in Levels : Elems(WakeQueues(W)[l]) \subseteq AllThreads
    BY <1>3, <1>5, ElemsType
  <2>2. \A l \in Levels : \A t \in Elems(WakeQueues(W)[l]) : st[t] = WakeStates(W)[t]
    BY <2>1, <1>3, <1>7
  <2> QED  BY <2>2, <1>3, QueuesOKAgree
<1>9. SchedulePre(WakeQueues(W), st, level)
  <2>1. \A t \in Schedulable : st[t] # "Running"
    BY <1>3, <1>5, <1>6, <1>7
  <2>2. st[Idle] = "Running"
    BY <1>2, <1>3, <1>5, <1>6, <1>7
  <2> QED  BY <2>1, <2>2, <1>3, <1>7, <1>8 DEF SchedulePre
<1>10. SchedulePost(st, level)
  BY <1>2, <1>9, ScheduleStep
<1>11. /\ queues' \in [Levels -> Seq(Schedulable)]
       /\ state' \in [AllThreads -> ThreadStates]
       /\ current' \in AllThreads
       /\ QueuesOK(queues', state', level')
       /\ CurrentOffQueues'
       /\ OnlyCurrentRuns'
       /\ state'[Idle] = "Running"
  BY <1>2, <1>10 DEF SchedulePost
<1>12. \A t \in AllThreads :
        /\ state'[t] = "Blocked" <=> state[t] = "Blocked" /\ t \notin WokenThreads(W)
        /\ state'[t] = "Terminated" <=> state[t] = "Terminated" \/ t = current
        /\ state'[t] = "Free" <=> state[t] = "Free"
  <2>1. \A t \in AllThreads : /\ state'[t] = "Blocked" <=> st[t] = "Blocked"
                              /\ state'[t] = "Terminated" <=> st[t] = "Terminated"
                              /\ state'[t] = "Free" <=> st[t] = "Free"
    BY <1>10 DEF SchedulePost
  <2> QED  BY <2>1, <1>3, <1>5, <1>6, <1>7
<1>13. TypeOK'
  <2>1. deadList' \in Seq(Threads)
    BY <1>2 DEF IInv, TypeOK
  <2> QED  BY <2>1, <1>2, <1>4, <1>11 DEF IInv, TypeOK
<1>14. WaitQueueSound'
  BY <1>4, <1>12 DEF IInv, WaitQueueSound
<1>15. /\ Elems(deadList') = Elems(deadList) \cup {current}
       /\ current \notin Dead
       /\ DeadListsOK'
  <2>1. /\ deadList \in Seq(Threads)
        /\ current \notin Dead
        /\ NoRepeat(deadList) /\ NoRepeat(localDead)
        /\ Elems(deadList) \cap Elems(localDead) = {}
        /\ reaperPc = "collect" => localDead = <<>>
    BY DEF IInv, TypeOK, DeadThreadsSound, DeadListsOK
  <2>2. Elems(deadList') = Elems(deadList) \cup {current} /\ NoRepeat(deadList')
    BY <2>1, <1>2, AppendElems DEF Dead
  <2>3. DeadListsOK'
    BY <2>1, <2>2, <1>2 DEF DeadListsOK, Dead
  <2> QED  BY <2>1, <2>2, <2>3
<1>16. DeadThreadsSound'
  <2>1. Dead' = Dead \cup {current}
    BY <1>2, <1>15 DEF Dead
  <2>2. Dead' = {t \in AllThreads : state'[t] = "Terminated"}
    BY <2>1, <1>5, <1>12 DEF IInv, DeadThreadsSound
  <2>3. current' \notin Dead'
    BY <2>2, <1>11 DEF OnlyCurrentRuns
  <2> QED  BY <2>2, <2>3 DEF DeadThreadsSound
<1>17. IInv'
  BY <1>11, <1>13, <1>14, <1>15, <1>16 DEF IInv
<1> QED  BY <1>12, <1>17 DEF W

(* A new thread is linked nowhere, so AddThread may link it.               *)
LEMMA AddThreadKeeps ==
  ASSUME IInv, NEW t \in Threads, AddThread(t)
  PROVE  IInv'
<1>1. /\ current \in Threads
      /\ state[t] = "Free"
      /\ state' = [state EXCEPT ![t] = "Ready"]
      /\ level' = [level EXCEPT ![t] = 0]
      /\ ticks' = [ticks EXCEPT ![t] = kQuantum[0]]
      /\ chan' = [chan EXCEPT ![t] = NoChannel]
      /\ queues' = PushBack(queues, 0, t)
      /\ waitq' = waitq /\ current' = current /\ tick' = tick
      /\ deadList' = deadList /\ localDead' = localDead /\ reaperPc' = reaperPc
  BY DEF AddThread, reap
<1>2. /\ state \in [AllThreads -> ThreadStates]
      /\ level \in [AllThreads -> Levels]
      /\ ticks \in [AllThreads -> Nat \ {0}]
      /\ chan \in [AllThreads -> Channels \cup {NoChannel}]
      /\ queues \in [Levels -> Seq(Schedulable)]
      /\ QueuesOK(queues, state, level)
      /\ \A l \in Levels : current \notin Elems(queues[l])
      /\ \A u \in Schedulable : state[u] = "Running" => u = current
      /\ state[current] \in {"Ready", "Running"}
      /\ state[Idle] = "Running"
  BY DEF IInv, TypeOK, OnlyCurrentRuns, CurrentOffQueues
<1>3. /\ Idle \notin Schedulable /\ AllThreads = Schedulable \cup {Idle}
      /\ t \in Schedulable /\ t \in AllThreads /\ t # Idle
      /\ 0 \in Levels
  BY ThreadsAssumption, LevelsAre DEF Schedulable, AllThreads
<1>4. \A l \in Levels : t \notin Elems(queues[l])
  BY <1>1, <1>2 DEF QueuesOK
<1>5. /\ state' \in [AllThreads -> ThreadStates]
      /\ level' \in [AllThreads -> Levels]
      /\ ticks' \in [AllThreads -> Nat \ {0}]
      /\ chan' \in [AllThreads -> Channels \cup {NoChannel}]
      /\ state'[t] = "Ready" /\ level'[t] = 0 /\ chan'[t] = NoChannel
      /\ \A u \in AllThreads \ {t} :
            state'[u] = state[u] /\ level'[u] = level[u] /\ chan'[u] = chan[u]
  BY <1>1, <1>2, <1>3, QuantumAssumption DEF ThreadStates
<1>6. QueuesOK(queues, state', level')
  <2>1. \A l \in Levels : Elems(queues[l]) \subseteq AllThreads \ {t}
    BY <1>2, <1>3, <1>4, ElemsType
  <2>2. \A l \in Levels : \A u \in Elems(queues[l]) :
          state'[u] = state[u] /\ level'[u] = level[u]
    BY <2>1, <1>5
  <2> QED  BY <2>2, <1>2, QueuesOKAgree
<1>7. /\ PushBack(queues, 0, t) \in [Levels -> Seq(Schedulable)]
      /\ QueuesOK(PushBack(queues, 0, t), state', level')
      /\ \A m \in Levels : Elems(PushBack(queues, 0, t)[m]) \subseteq Elems(queues[m]) \cup {t}
  BY <1>2, <1>3, <1>4, <1>5, <1>6, PushBackOK
<1>8. current # t
  BY <1>1, <1>2
<1>9. QueuesOK(queues', state', level') /\ CurrentOffQueues'
  BY <1>1, <1>2, <1>7, <1>8 DEF CurrentOffQueues
<1>10. TypeOK'
  BY <1>1, <1>5, <1>7 DEF IInv, TypeOK
<1>11. WaitQueueSound'
  BY <1>1, <1>3, <1>5 DEF IInv, WaitQueueSound
<1>12. OnlyCurrentRuns' /\ state'[Idle] = "Running"
  <2>1. current \in AllThreads
    BY DEF IInv, TypeOK
  <2> QED  BY <2>1, <1>1, <1>2, <1>3, <1>5, <1>8 DEF OnlyCurrentRuns
<1>13. DeadListsOK'
  BY <1>1 DEF IInv, DeadListsOK
<1>14. DeadThreadsSound'
  <2>1. Dead' = Dead
    BY <1>1 DEF Dead
  <2> QED  BY <2>1, <1>1, <1>3, <1>5 DEF IInv, DeadThreadsSound
<1> QED  BY <1>9, <1>10, <1>11, <1>12, <1>13, <1>14 DEF IInv

(* The reaper moves dead threads between its lists and frees them.         *)
LEMMA ReaperLoopKeeps ==
  ASSUME IInv, ReaperLoop
  PROVE  IInv'
<1>1. CASE ReaperCollect
  <2>1. /\ state' = state /\ level' = level /\ ticks' = ticks /\ chan' = chan
        /\ queues' = queues /\ waitq' = waitq /\ current' = current /\ tick' = tick
        /\ localDead' = deadList /\ deadList' = <<>> /\ reaperPc' = "reclaim"
        /\ localDead = <<>>
    BY <1>1 DEF ReaperCollect, sched, IInv, DeadListsOK
  <2>2. Elems(<<>>) = {} /\ NoRepeat(<<>>)
    BY DEF Elems, NoRepeat
  <2>3. Dead' = Dead
    BY <2>1, <2>2 DEF Dead
  <2>4. TypeOK'
    BY <2>1 DEF IInv, TypeOK
  <2>5. DeadListsOK'
    BY <2>1, <2>2 DEF IInv, DeadListsOK
  <2>6. DeadThreadsSound'
    BY <2>1, <2>3 DEF IInv, DeadThreadsSound
  <2>7. WaitQueueSound' /\ OnlyCurrentRuns' /\ CurrentOffQueues'
    BY <2>1 DEF IInv, WaitQueueSound, OnlyCurrentRuns, CurrentOffQueues
  <2> QED  BY <2>1, <2>4, <2>5, <2>6, <2>7 DEF IInv
<1>2. CASE ReaperReclaim
  <2> DEFINE dead == Head(localDead)
  <2>1. /\ state' = [state EXCEPT ![dead] = "Free"]
        /\ level' = level /\ ticks' = ticks /\ chan' = chan
        /\ queues' = queues /\ waitq' = waitq /\ current' = current /\ tick' = tick
        /\ localDead # <<>> /\ localDead' = Tail(localDead)
        /\ deadList' = deadList /\ reaperPc' = "reclaim"
    BY <1>2 DEF ReaperReclaim
  <2>2. /\ dead \in Threads
        /\ Tail(localDead) \in Seq(Threads)
        /\ Elems(localDead) = {dead} \cup Elems(Tail(localDead))
        /\ NoRepeat(Tail(localDead)) /\ dead \notin Elems(Tail(localDead))
    <3>1. localDead \in Seq(Threads) /\ NoRepeat(localDead)
      BY DEF IInv, TypeOK, DeadListsOK
    <3> QED  BY <3>1, <2>1, TailElems
  <2> HIDE DEF dead
  <2>3. dead \in AllThreads /\ state[dead] = "Terminated" /\ dead # Idle /\ dead # current
    BY <2>2, ThreadsAssumption DEF IInv, DeadThreadsSound, Dead, AllThreads, Schedulable
  <2>4. /\ state' \in [AllThreads -> ThreadStates]
        /\ state'[dead] = "Free"
        /\ \A t \in AllThreads \ {dead} : state'[t] = state[t]
    BY <2>1, <2>3 DEF IInv, TypeOK, ThreadStates
  <2>5. TypeOK'
    BY <2>1, <2>2, <2>4 DEF IInv, TypeOK
  <2>6. DeadListsOK'
    BY <2>1, <2>2 DEF IInv, DeadListsOK
  <2>7. Dead' = Dead \ {dead}
    BY <2>1, <2>2 DEF Dead, IInv, DeadListsOK
  <2>8. DeadThreadsSound'
    BY <2>1, <2>4, <2>7 DEF IInv, DeadThreadsSound
  <2>9. WaitQueueSound'
    BY <2>1, <2>3, <2>4 DEF IInv, WaitQueueSound
  <2>10. OnlyCurrentRuns' /\ CurrentOffQueues' /\ state'[Idle] = "Running"
    <3>1. Schedulable \subseteq AllThreads /\ current \in AllThreads /\ Idle \in AllThreads
      BY DEF AllThreads, IInv, TypeOK
    <3> QED
      BY <3>1, <2>1, <2>3, <2>4 DEF IInv, OnlyCurrentRuns, CurrentOffQueues
  <2>11. QueuesOK(queues', state', level')
    <3>1. \A l \in Levels : Elems(queues[l]) \subseteq AllThreads
      BY ElemsType DEF IInv, TypeOK, AllThreads
    <3>2. \A l \in Levels : dead \notin Elems(queues[l])
      BY <2>3 DEF IInv, QueuesOK
    <3>3. \A l \in Levels : \A t \in Elems(queues[l]) : state'[t] = state[t]
      BY <3>1, <3>2, <2>4
    <3>4. QueuesOK(queues, state', level)
      BY <3>3, QueuesOKAgree DEF IInv
    <3> QED  BY <3>4, <2>1
  <2> QED  BY <2>5, <2>6, <2>8, <2>9, <2>10, <2>11 DEF IInv
<1>3. CASE ReaperYield
  <2>1. /\ current \in Schedulable
        /\ YieldCpu
        /\ deadList' = deadList /\ localDead' = localDead
        /\ reaperPc' = "collect" /\ localDead = <<>>
    BY <1>3 DEF ReaperYield, Schedulable
  <2> QED  BY <2>1, YieldCpuKeeps
<1> QED  BY <1>1, <1>2, <1>3 DEF ReaperLoop

(* Start and Spawn establish the invariant.                                *)
LEMMA InitEstablishes ==
  ASSUME Init
  PROVE  IInv
<1>1. PICK init \in Threads :
        /\ state = [t \in AllThreads |->
                      IF t = Idle THEN "Running"
                      ELSE IF t \in {init, Reaper} THEN "Ready" ELSE "Free"]
        /\ level = [t \in AllThreads |->
                      IF t \in {Reaper, Idle} THEN kNumLevels - 1 ELSE 0]
        /\ ticks = [t \in AllThreads |->
                      IF t = Reaper THEN kQuantum[kNumLevels - 1] ELSE kQuantum[0]]
        /\ chan = [t \in AllThreads |-> NoChannel]
        /\ queues = [l \in Levels |-> IF l = 0 THEN <<init>>
                                      ELSE IF l = kNumLevels - 1 THEN <<Reaper>>
                                      ELSE <<>>]
        /\ waitq = <<>>
        /\ current = Idle
        /\ tick = 0
        /\ deadList = <<>>
        /\ localDead = <<>>
        /\ reaperPc = "collect"
  BY DEF Init
<1>2. /\ Idle \in AllThreads /\ Reaper \in AllThreads /\ init \in AllThreads
      /\ Reaper \in Schedulable /\ init \in Schedulable
      /\ init # Reaper /\ init # Idle /\ Reaper # Idle
      /\ Idle \notin Schedulable /\ Schedulable \subseteq AllThreads
  BY ThreadsAssumption DEF AllThreads, Schedulable
<1>3. /\ Elems(<<>>) = {} /\ NoRepeat(<<>>)
      /\ Elems(<<init>>) = {init} /\ NoRepeat(<<init>>)
      /\ Elems(<<Reaper>>) = {Reaper} /\ NoRepeat(<<Reaper>>)
  BY DEF Elems, NoRepeat
<1>4. \A l \in Levels : \/ l = 0 /\ queues[l] = <<init>>
                        \/ l = 1 /\ queues[l] = <<>>
                        \/ l = 2 /\ queues[l] = <<Reaper>>
  BY <1>1, LevelsAre
<1>5. TypeOK
  <2>1. state \in [AllThreads -> ThreadStates]
    BY <1>1 DEF ThreadStates
  <2>2. level \in [AllThreads -> Levels]
    BY <1>1, LevelsAre
  <2>3. ticks \in [AllThreads -> Nat \ {0}]
    BY <1>1, LevelsAre, QuantumAssumption
  <2>4. <<init>> \in Seq(Schedulable) /\ <<Reaper>> \in Seq(Schedulable)
        /\ <<>> \in Seq(Schedulable) /\ <<>> \in Seq(Threads)
    BY <1>2
  <2>5. queues \in [Levels -> Seq(Schedulable)]
    <3>1. \A l \in Levels : queues[l] \in Seq(Schedulable)
      BY <2>4, <1>4
    <3>2. queues = [l \in Levels |-> queues[l]]
      BY <1>1
    <3> QED  BY <3>1, <3>2
  <2>6. tick \in 0..(kBoostInterval - 1)
    BY <1>1, QuantumAssumption
  <2> QED  BY <2>1, <2>2, <2>3, <2>4, <2>5, <2>6, <1>1, <1>2 DEF TypeOK
<1>6. QueuesOK(queues, state, level)
  <2>1. state[init] = "Ready" /\ level[init] = 0
    BY <1>1, <1>2
  <2>2. state[Reaper] = "Ready" /\ level[Reaper] = 2
    BY <1>1, <1>2, LevelsAre
  <2> QED  BY <2>1, <2>2, <1>3, <1>4 DEF QueuesOK
<1>7. CurrentOffQueues
  BY <1>1, <1>2, <1>3, <1>4 DEF CurrentOffQueues
<1>8. WaitQueueSound
  BY <1>1, <1>3 DEF WaitQueueSound
<1>9. DeadListsOK
  BY <1>1, <1>3 DEF DeadListsOK
<1>10. DeadThreadsSound
  BY <1>1, <1>3 DEF DeadThreadsSound, Dead
<1>11. OnlyCurrentRuns /\ state[Idle] = "Running"
  BY <1>1, <1>2 DEF OnlyCurrentRuns
<1> QED  BY <1>5, <1>6, <1>7, <1>8, <1>9, <1>10, <1>11 DEF IInv

(* Every step of the scheduler and of the reaper keeps the invariant.      *)
LEMMA StepKeeps ==
  ASSUME IInv, [Next]_vars
  PROVE  IInv'
<1>1. CASE Tick
  BY <1>1, TickKeeps
<1>2. CASE Yield
  <2>1. /\ current \in Schedulable
        /\ YieldCpu
        /\ deadList' = deadList /\ localDead' = localDead /\ reaperPc' = reaperPc
    BY <1>2 DEF Yield, reap, Schedulable
  <2>2. reaperPc \in {"collect", "reclaim"} /\ (reaperPc = "collect" => localDead = <<>>)
    BY DEF IInv, TypeOK, DeadListsOK
  <2> QED  BY <2>1, <2>2, YieldCpuKeeps
<1>3. ASSUME NEW t \in Threads, AddThread(t)
      PROVE  IInv'
  BY <1>3, AddThreadKeeps
<1>4. ASSUME NEW ch \in Channels, Block(ch)
      PROVE  IInv'
  BY <1>4, BlockKeeps
<1>5. ASSUME NEW ch \in Channels, NEW wake_all \in BOOLEAN, Wake(ch, wake_all)
      PROVE  IInv'
  BY <1>5, WakeKeeps
<1>6. ASSUME NEW ch \in Channels, Exit(ch)
      PROVE  IInv'
  BY <1>6, ExitKeeps
<1>7. CASE ReaperLoop
  BY <1>7, ReaperLoopKeeps
<1>8. CASE UNCHANGED vars
  BY <1>8 DEF vars, sched, reap, IInv, TypeOK, QueuesOK, CurrentOffQueues,
              WaitQueueSound, DeadListsOK, DeadThreadsSound, Dead, OnlyCurrentRuns
<1> QED  BY <1>1, <1>2, <1>3, <1>4, <1>5, <1>6, <1>7, <1>8 DEF Next

(* The inductive invariant holds in every reachable state.                 *)
THEOREM Invariance == Spec => []IInv
<1>1. Init => IInv
  BY InitEstablishes
<1>2. IInv /\ [Next]_vars => IInv'
  BY StepKeeps
<1> QED  BY <1>1, <1>2, PTL DEF Spec
----------------------------------------------------------------------------
(* Every variable keeps its type: in particular no thread's quantum ever   *)
(* reaches zero between two ticks, which Tick would charge below zero.     *)
THEOREM TypeCorrect == Spec => []TypeOK
<1>1. IInv => TypeOK
  BY DEF IInv
<1> QED  BY <1>1, Invariance, PTL

(* A run_node is linked in one place of one list only: linking it again    *)
(* from Push, Boost, Wake, Tick, Yield or Reaper::Enqueue would corrupt    *)
(* the run queues and the dead list it is on.                              *)
THEOREM LinkedOnce == Spec => []RunNodeLinkedOnce
<1>1. ASSUME IInv
      PROVE  RunNodeLinkedOnce
  <2> DEFINE q0 == queues[0]
             q1 == queues[1]
             q2 == queues[2]
             q == q0 \o q1 \o q2
  <2>1. 0 \in Levels /\ 1 \in Levels /\ 2 \in Levels
    BY LevelsAre
  <2>2. /\ q0 \in Seq(Schedulable) /\ q1 \in Seq(Schedulable) /\ q2 \in Seq(Schedulable)
        /\ deadList \in Seq(Schedulable) /\ localDead \in Seq(Schedulable)
    BY <1>1, <2>1 DEF IInv, TypeOK, Schedulable
  <2>3. /\ \A t \in Elems(q0) : state[t] = "Ready" /\ level[t] = 0
        /\ \A t \in Elems(q1) : state[t] = "Ready" /\ level[t] = 1
        /\ \A t \in Elems(q2) : state[t] = "Ready" /\ level[t] = 2
        /\ NoRepeat(q0) /\ NoRepeat(q1) /\ NoRepeat(q2)
    BY <1>1, <2>1 DEF IInv, QueuesOK
  <2>4. /\ Elems(q0) \cap Elems(q1) = {}
        /\ Elems(q0) \cap Elems(q2) = {}
        /\ Elems(q1) \cap Elems(q2) = {}
    BY <2>3
  <2>5. /\ q \in Seq(Schedulable)
        /\ Elems(q) = Elems(q0) \cup Elems(q1) \cup Elems(q2)
        /\ NoRepeat(q)
    BY <2>2, <2>3, <2>4, ConcatElems3
  <2>6. \A t \in Dead : state[t] = "Terminated"
    BY <1>1 DEF IInv, DeadThreadsSound
  <2>7. /\ Elems(q) \cap Elems(deadList) = {}
        /\ Elems(q) \cap Elems(localDead) = {}
    BY <2>3, <2>5, <2>6 DEF Dead
  <2>8. NoRepeat(deadList) /\ NoRepeat(localDead) /\ Elems(deadList) \cap Elems(localDead) = {}
    BY <1>1 DEF IInv, DeadListsOK
  <2> HIDE DEF q
  <2>9. NoRepeat(q \o deadList \o localDead)
    BY <2>2, <2>5, <2>7, <2>8, ConcatElems3
  <2> QED  BY <2>9, Zenon DEF RunNodeLinkedOnce, q
<1> QED  BY <1>1, Invariance, PTL

(* PopBest meets only Ready threads, at their level, and never the one     *)
(* that is running.                                                        *)
THEOREM QueuesSound == Spec => []RunQueuesSound
<1>1. IInv => RunQueuesSound
  BY DEF IInv, RunQueuesSound, QueuesOK, CurrentOffQueues
<1> QED  BY <1>1, Invariance, PTL

(* The wait queue is exactly the Blocked threads: Wake misses none.        *)
THEOREM SleepersSound == Spec => []WaitQueueSound
<1>1. IInv => WaitQueueSound
  BY DEF IInv
<1> QED  BY <1>1, Invariance, PTL

(* The reaper deletes Terminated threads only, and never the current one.  *)
THEOREM ReaperSound == Spec => []DeadThreadsSound
<1>1. IInv => DeadThreadsSound
  BY DEF IInv
<1> QED  BY <1>1, Invariance, PTL

(* One Running thread besides idle, the current one.                       *)
THEOREM RunningSound == Spec => []OnlyCurrentRuns
<1>1. IInv => OnlyCurrentRuns
  BY DEF IInv
<1> QED  BY <1>1, Invariance, PTL

(* A Terminated thread never gets the CPU back: every step either leaves   *)
(* it on the reaper's lists or frees it.                                   *)
THEOREM TerminationFinal == Spec => TerminatedNeverRuns
<1> DEFINE Final == \A t \in Threads : state[t] = "Terminated" =>
                      state'[t] \in {"Terminated", "Free"} /\ current' # t
<1>1. ASSUME IInv, IInv', Next
      PROVE  Final
  <2> SUFFICES ASSUME NEW t \in Threads, state[t] = "Terminated"
               PROVE  state'[t] \in {"Terminated", "Free"} /\ current' # t
    OBVIOUS
  <2>1. t \in AllThreads /\ t # Reaper
    BY ThreadsAssumption DEF AllThreads, Schedulable
  <2>2. t \in Dead
    BY <1>1, <2>1 DEF IInv, DeadThreadsSound
  <2>3. ASSUME t \in Dead'
        PROVE  state'[t] = "Terminated" /\ current' # t
    BY <1>1, <2>3 DEF IInv, DeadThreadsSound
  <2>4. CASE Dead \subseteq Dead'
    BY <2>2, <2>3, <2>4
  <2>5. CASE UNCHANGED <<deadList, localDead>>
    BY <2>5, <2>4 DEF Dead
  <2>6. CASE Tick \/ Yield
    BY <2>5, <2>6 DEF Tick, Yield, reap
  <2>7. CASE \/ \E u \in Threads : AddThread(u)
             \/ \E ch \in Channels : Block(ch)
             \/ \E ch \in Channels, wake_all \in BOOLEAN : Wake(ch, wake_all)
    BY <2>5, <2>7 DEF AddThread, Block, Wake, reap
  <2>8. CASE \E ch \in Channels : Exit(ch)
    <3>1. deadList' = Append(deadList, current) /\ localDead' = localDead
      BY <2>8 DEF Exit
    <3>2. Elems(deadList') = Elems(deadList) \cup {current}
      BY <1>1, <3>1, AppendElems DEF IInv, TypeOK
    <3> QED  BY <3>1, <3>2, <2>4 DEF Dead
  <2>9. CASE ReaperCollect
    <3>1. Elems(<<>>) = {}
      BY DEF Elems
    <3>2. Elems(localDead) = {}
      BY <1>1, <2>9, <3>1 DEF IInv, DeadListsOK, ReaperCollect
    <3> QED  BY <3>2, <2>4, <2>9 DEF Dead, ReaperCollect
  <2>10. CASE ReaperReclaim
    <3>1. /\ localDead \in Seq(Threads) /\ localDead # <<>>
          /\ localDead' = Tail(localDead) /\ deadList' = deadList
          /\ state' = [state EXCEPT ![Head(localDead)] = "Free"]
          /\ current' = Reaper
      BY <1>1, <2>10 DEF IInv, TypeOK, ReaperReclaim
    <3>2. Elems(localDead) = {Head(localDead)} \cup Elems(Tail(localDead))
      BY <3>1, TailElems
    <3>3. CASE t = Head(localDead)
      <4>1. state'[t] = "Free"
        BY <3>1, <3>3, <2>1, <1>1 DEF IInv, TypeOK
      <4> QED  BY <4>1, <3>1, <2>1
    <3>4. CASE t # Head(localDead)
      <4>1. t \in Dead'
        BY <3>1, <3>2, <3>4, <2>2 DEF Dead
      <4> QED  BY <4>1, <2>3
    <3> QED  BY <3>3, <3>4
  <2>11. CASE ReaperYield
    BY <2>5, <2>11 DEF ReaperYield
  <2> QED
    BY <1>1, <2>6, <2>7, <2>8, <2>9, <2>10, <2>11 DEF Next, ReaperLoop
<1>2. IInv /\ IInv' /\ [Next]_vars => [Final]_vars
  BY <1>1
<1>3. Spec => [][Final]_vars
  BY <1>2, Invariance, PTL DEF Spec
<1> QED  BY <1>3 DEF TerminatedNeverRuns
(* No thread ever holds more ticks than the quantum of its level.          *)
THEOREM QuantumRespected == Spec => []QuantumBounded
<1>1. Init => QuantumBounded
  <2> SUFFICES ASSUME Init
               PROVE  QuantumBounded
    OBVIOUS
  <2>1. /\ ticks = [t \in AllThreads |->
                      IF t = Reaper THEN kQuantum[kNumLevels - 1] ELSE kQuantum[0]]
        /\ level = [t \in AllThreads |->
                      IF t \in {Reaper, Idle} THEN kNumLevels - 1 ELSE 0]
    BY DEF Init
  <2>2. \A l \in Levels : kQuantum[l] \in Nat
    BY QuantumAssumption
  <2>3. \A t \in Schedulable : t \in AllThreads /\ t # Idle
    BY ThreadsAssumption DEF AllThreads, Schedulable
  <2>4. \A t \in Schedulable : ticks[t] = kQuantum[level[t]] /\ level[t] \in Levels
    BY <2>1, <2>3, LevelsAre
  <2> QED  BY <2>2, <2>4 DEF QuantumBounded
<1>2. ASSUME IInv, QuantumBounded, [Next]_vars
      PROVE  QuantumBounded'
  <2>1. /\ level \in [AllThreads -> Levels]
        /\ ticks \in [AllThreads -> Nat \ {0}]
        /\ current \in AllThreads
        /\ \A t \in Schedulable : ticks[t] <= kQuantum[level[t]]
        /\ Schedulable \subseteq AllThreads
    BY <1>2 DEF IInv, TypeOK, QuantumBounded, AllThreads
  <2>2. \A l \in Levels : kQuantum[l] \in Nat
    BY QuantumAssumption
  <2>3. \A t \in Schedulable : level[t] \in Levels /\ ticks[t] \in Nat
    BY <2>1
  <2>4. 0 \in Levels
    BY LevelsAre
  <2>5. CASE UNCHANGED <<level, ticks>>
    BY <2>1, <2>5 DEF QuantumBounded
  <2>6. \A t \in Schedulable : TickTicks[t] <= kQuantum[TickLevel[t]]
    BY <2>1, <2>2, <2>4 DEF TickTicks, TickLevel
  <2>7. CASE TickIdle
    BY <2>6, <2>7 DEF TickIdle, QuantumBounded
  <2>8. /\ TickTicks \in [AllThreads -> Nat \ {0}]
        /\ TickLevel \in [AllThreads -> Levels]
    BY <1>2, TickQueuesOK
  <2>9. CASE TickCharge
    <3>1. /\ level' = TickLevel
          /\ ticks' = [TickTicks EXCEPT ![current] = TickTicks[current] - 1]
      BY <2>9 DEF TickCharge
    <3>2. ASSUME NEW t \in Schedulable
          PROVE  ticks'[t] <= TickTicks[t]
      <4>1. TickTicks[t] \in Nat /\ TickTicks[current] \in Nat
        BY <2>1, <2>8
      <4> QED  BY <4>1, <3>1, <2>1, <2>8
    <3>3. ASSUME NEW t \in Schedulable
          PROVE  ticks'[t] <= kQuantum[level'[t]]
      <4>1. ticks'[t] \in Int /\ TickTicks[t] \in Int /\ kQuantum[TickLevel[t]] \in Int
        BY <3>1, <2>1, <2>2, <2>8
      <4> QED  BY <4>1, <3>1, <3>2, <2>6
    <3> QED  BY <3>3 DEF QuantumBounded
  <2>10. CASE TickExpire
    <3>1. /\ level' = [TickLevel EXCEPT ![current] = NewLevel]
          /\ ticks' = [TickTicks EXCEPT ![current] = kQuantum[NewLevel]]
      BY <2>10 DEF TickExpire
    <3>2. NewLevel \in Levels
      BY <2>1, LevelsAre DEF NewLevel
    <3> QED  BY <3>1, <3>2, <2>1, <2>2, <2>6, <2>8 DEF QuantumBounded
  <2>11. CASE YieldCpu
    <3>1. CASE YieldRequeue
      BY <3>1, <2>1, <2>2, <2>3, <2>11 DEF YieldCpu, YieldRequeue, QuantumBounded
    <3>2. CASE YieldNoRequeue
      BY <3>2, <2>5, <2>11 DEF YieldCpu, YieldNoRequeue
    <3> QED  BY <3>1, <3>2, <2>11 DEF YieldCpu
  <2>12. ASSUME NEW t \in Threads, AddThread(t)
         PROVE  QuantumBounded'
    BY <2>12, <2>1, <2>2, <2>4 DEF AddThread, QuantumBounded
  <2>13. ASSUME NEW W, WakeRest(W), level' = level
         PROVE  QuantumBounded'
    BY <2>13, <2>1, <2>2, <2>3 DEF WakeRest, QuantumBounded
  <2>14. ASSUME NEW ch \in Channels, Block(ch)
         PROVE  QuantumBounded'
    BY <2>14, <2>5 DEF Block
  <2>15. ASSUME NEW ch \in Channels, NEW wake_all \in BOOLEAN, Wake(ch, wake_all)
         PROVE  QuantumBounded'
    BY <2>13, <2>15 DEF Wake
  <2>16. ASSUME NEW ch \in Channels, Exit(ch)
         PROVE  QuantumBounded'
    BY <2>13, <2>16 DEF Exit
  <2>17. CASE ReaperLoop
    BY <2>5, <2>11, <2>17 DEF ReaperLoop, ReaperCollect, ReaperReclaim, ReaperYield, sched
  <2>18. CASE UNCHANGED vars
    BY <2>5, <2>18 DEF vars, sched
  <2> QED
    BY <1>2, <2>7, <2>9, <2>10, <2>11, <2>12, <2>14, <2>15, <2>16, <2>17, <2>18
    DEF Next, Tick, Yield
<1> QED  BY <1>1, <1>2, Invariance, PTL DEF Spec

----------------------------------------------------------------------------
(* Scheduler implements AbstractScheduler.                                 *)

(* What a thread's state is to the rest of the kernel.                     *)
AbsOf(s) ==
    IF s = "Terminated" THEN "Dead" ELSE IF s \in {"Free", "Blocked"} THEN s ELSE "Runnable"

AbsChan == [t \in Threads |-> chan[t]]
AbsCurrent == IF current \in Threads THEN current ELSE Idle

(* The mapping, thread by thread, before and after a step; a thread of the *)
(* abstract scheduler that has the CPU is runnable.                        *)
LEMMA AbsIs ==
  ASSUME IInv, IInv'
  PROVE  /\ Threads \subseteq AllThreads /\ Idle \notin Threads
         /\ AbsState = [t \in Threads |-> AbsOf(state[t])]
         /\ AbsState' = [t \in Threads |-> AbsOf(state'[t])]
         /\ AbsCurrent' \in {t \in Threads : AbsOf(state'[t]) = "Runnable"} \cup {Idle}
<1>1. Threads \subseteq AllThreads /\ Idle \notin Threads
  BY ThreadsAssumption DEF AllThreads, Schedulable
<1>2. /\ \A t \in Threads : state[t] \in ThreadStates /\ state'[t] \in ThreadStates
      /\ state'[current'] \in {"Ready", "Running"}
  BY <1>1 DEF IInv, TypeOK, OnlyCurrentRuns
<1>3. AbsState = [t \in Threads |-> AbsOf(state[t])]
  BY <1>2 DEF AbsState, AbsOf, ThreadStates
<1>4. AbsState' = [t \in Threads |-> AbsOf(state'[t])]
  BY <1>2 DEF AbsState, AbsOf, ThreadStates
<1>5. AbsCurrent' \in {t \in Threads : AbsOf(state'[t]) = "Runnable"} \cup {Idle}
  BY <1>2 DEF AbsCurrent, AbsOf
<1> QED  BY <1>1, <1>3, <1>4, <1>5

(* A step that only reschedules.                                           *)
LEMMA RescheduleMaps ==
  ASSUME IInv, IInv', SameLife, chan' = chan
  PROVE  Abstract!Reschedule
<1>1. \A t \in Threads : AbsOf(state'[t]) = AbsOf(state[t])
  BY AbsIs DEF SameLife, AbsOf
<1>2. AbsState' = AbsState
  BY <1>1, AbsIs
<1>3. AbsCurrent' \in {t \in Threads : AbsState[t] = "Runnable"} \cup {Idle}
  BY <1>2, AbsIs
<1>4. AbsChan' = AbsChan
  BY DEF AbsChan
<1> QED
  BY <1>2, <1>3, <1>4 DEF Abstract!Reschedule, Abstract!Dispatch, Abstract!Runnable,
                          AbsChan, AbsCurrent

(* AddThread: a free thread sleeps on nothing.                             *)
LEMMA AddThreadMaps ==
  ASSUME IInv, IInv', NEW t \in Threads, AddThread(t)
  PROVE  Abstract!AddThread(t)
<1>1. /\ current \in Threads /\ current' = current /\ state[t] = "Free"
      /\ state' = [state EXCEPT ![t] = "Ready"] /\ chan' = [chan EXCEPT ![t] = NoChannel]
  BY DEF AddThread
<1>2. /\ state \in [AllThreads -> ThreadStates] /\ t \in AllThreads
      /\ chan \in [AllThreads -> Channels \cup {NoChannel}] /\ chan[t] = NoChannel
  BY <1>1, AbsIs DEF IInv, TypeOK, WaitQueueSound
<1>3. AbsState[t] = "Free" /\ AbsState' = [AbsState EXCEPT ![t] = "Runnable"]
  <2>1. \A u \in Threads : AbsOf(state'[u]) = IF u = t THEN "Runnable" ELSE AbsOf(state[u])
    BY <1>1, <1>2, AbsIs DEF AbsOf
  <2> QED  BY <1>1, <2>1, AbsIs DEF AbsOf
<1>4. chan' = chan
  BY <1>1, <1>2
<1>5. AbsChan' = AbsChan /\ AbsCurrent' = AbsCurrent /\ AbsCurrent \in Threads
  BY <1>1, <1>4 DEF AbsChan, AbsCurrent
<1> QED  BY <1>3, <1>5 DEF Abstract!AddThread, AbsChan, AbsCurrent

(* Block.                                                                  *)
LEMMA BlockMaps ==
  ASSUME IInv, IInv', NEW ch \in Channels, Block(ch)
  PROVE  Abstract!Block(ch)
<1>1. current \in Threads /\ chan' = [chan EXCEPT ![current] = ch]
  BY DEF Block
<1>2. \A t \in AllThreads :
        /\ state'[t] = "Blocked" <=> t = current \/ state[t] = "Blocked"
        /\ state'[t] = "Terminated" <=> state[t] = "Terminated"
        /\ state'[t] = "Free" <=> state[t] = "Free"
  BY BlockKeeps
<1>3. \A t \in Threads : AbsOf(state'[t]) = IF t = current THEN "Blocked" ELSE AbsOf(state[t])
  BY <1>1, <1>2, AbsIs DEF AbsOf
<1>4. AbsCurrent = current /\ AbsState' = [AbsState EXCEPT ![current] = "Blocked"]
  BY <1>1, <1>3, AbsIs DEF AbsCurrent
<1>5. AbsCurrent' \in {t \in Threads : [AbsState EXCEPT ![current] = "Blocked"][t] = "Runnable"}
                        \cup {Idle}
  BY <1>4, AbsIs
<1>6. AbsChan' = [AbsChan EXCEPT ![current] = ch]
  <2>1. chan \in [AllThreads -> Channels \cup {NoChannel}]
    BY DEF IInv, TypeOK
  <2> QED  BY <1>1, <2>1, AbsIs DEF AbsChan
<1> QED
  BY <1>1, <1>4, <1>5, <1>6
  DEF Abstract!Block, Abstract!Dispatch, Abstract!Runnable, AbsChan, AbsCurrent

(* The threads that Wake releases are those that the abstract scheduler    *)
(* may release: all the sleepers of the channel, or one if there is any.   *)
LEMMA WakeSetMaps ==
  ASSUME IInv, IInv', NEW ch \in Channels, NEW wake_all \in BOOLEAN
  PROVE  WokenThreads(Woken(ch, wake_all)) \in Abstract!WakeSets(ch, wake_all)
<1> DEFINE S == Sleepers(ch)
           A == {t \in Threads : AbsState[t] = "Blocked" /\ AbsChan[t] = ch}
           W == Woken(ch, wake_all)
<1>1. /\ waitq \in Seq(Threads) /\ Elems(waitq) = {t \in AllThreads : state[t] = "Blocked"}
      /\ DOMAIN waitq \subseteq Nat
  <2>1. waitq \in Seq(Threads) /\ Elems(waitq) = {t \in AllThreads : state[t] = "Blocked"}
    BY DEF IInv, TypeOK, WaitQueueSound
  <2>2. DOMAIN waitq = 1..Len(waitq) /\ Len(waitq) \in Nat
    BY <2>1
  <2> QED  BY <2>1, <2>2
<1>2. \A t \in Threads : AbsState[t] = "Blocked" <=> t \in Elems(waitq)
  <2>1. \A t \in Threads : AbsState[t] = "Blocked" <=> state[t] = "Blocked"
    BY AbsIs DEF AbsOf
  <2> QED  BY <1>1, <2>1, AbsIs
<1>3. A = {waitq[i] : i \in S}
  <2>1. Elems(waitq) \subseteq Threads
    BY <1>1, ElemsType
  <2> QED  BY <1>2, <2>1 DEF AbsChan, Sleepers, Elems
<1>4. W \subseteq S /\ (wake_all => W = S) /\ (S = {} => W = {})
  BY DEF Woken
<1>5. WokenThreads(W) = {waitq[i] : i \in W}
  BY DEF WokenThreads
<1>6. CASE wake_all \/ A = {}
  <2>1. WokenThreads(W) = A
    BY <1>3, <1>4, <1>5, <1>6
  <2>2. Abstract!WakeSets(ch, wake_all) = {A}
    BY <1>6 DEF Abstract!WakeSets, Abstract!Sleepers, AbsChan
  <2> QED  BY <2>1, <2>2
<1>7. CASE ~wake_all /\ A # {}
  <2>1. S # {} /\ S \subseteq Nat
    BY <1>1, <1>3, <1>7 DEF Sleepers
  <2>2. PICK m \in S : \A n \in S : m <= n
    BY <2>1, LeastElement
  <2>3. W = {m}
    <3>1. \A i \in S : (\A j \in S : i <= j) <=> i = m
      BY <2>1, <2>2
    <3> QED  BY <1>7, <2>2, <3>1 DEF Woken
  <2>4. WokenThreads(W) = {waitq[m]} /\ waitq[m] \in A
    BY <1>3, <1>5, <2>2, <2>3
  <2>5. Abstract!WakeSets(ch, wake_all) = {{t} : t \in A}
    BY <1>7 DEF Abstract!WakeSets, Abstract!Sleepers, AbsChan
  <2> QED  BY <2>4, <2>5
<1> QED  BY <1>6, <1>7

(* The channels of the released threads.                                   *)
LEMMA ReleasedChanMaps ==
  ASSUME IInv, NEW W \in SUBSET (DOMAIN waitq), WakeRest(W)
  PROVE  AbsChan' = Abstract!ReleasedChan(WokenThreads(W))
<1>1. chan' = [t \in AllThreads |-> IF t \in WokenThreads(W) THEN NoChannel ELSE chan[t]]
  BY DEF WakeRest
<1>2. Threads \subseteq AllThreads
  BY DEF AllThreads, Schedulable
<1> QED  BY <1>1, <1>2 DEF AbsChan, Abstract!ReleasedChan

(* Wake.                                                                   *)
LEMMA WakeMaps ==
  ASSUME IInv, IInv', NEW ch \in Channels, NEW wake_all \in BOOLEAN, Wake(ch, wake_all)
  PROVE  Abstract!Wake(ch, wake_all)
<1> DEFINE W == Woken(ch, wake_all)
           T == WokenThreads(W)
<1>1. W \in SUBSET (DOMAIN waitq)
  BY DEF Woken, Sleepers
<1>2. current \in Threads /\ state' = WakeStates(W) /\ WakeRest(W) /\ current' = current
  BY DEF Wake
<1>3. T \in Abstract!WakeSets(ch, wake_all)
  BY WakeSetMaps
<1>4. AbsChan' = Abstract!ReleasedChan(T)
  BY <1>1, <1>2, ReleasedChanMaps
<1>5. AbsState' = Abstract!Released(T)
  <2>1. \A t \in Threads : AbsOf(state'[t]) = IF t \in T THEN "Runnable" ELSE AbsOf(state[t])
    BY <1>1, <1>2, WakeFacts, AbsIs DEF AbsOf
  <2> QED  BY <2>1, AbsIs DEF Abstract!Released
<1>6. AbsCurrent' = AbsCurrent /\ AbsCurrent \in Threads
  BY <1>2 DEF AbsCurrent
<1> HIDE DEF T
<1> QED  BY <1>3, <1>4, <1>5, <1>6 DEF Abstract!Wake, AbsChan, AbsCurrent

(* Exit.                                                                   *)
LEMMA ExitMaps ==
  ASSUME IInv, IInv', NEW ch \in Channels, Exit(ch)
  PROVE  Abstract!Exit(ch)
<1> DEFINE W == Woken(ch, FALSE)
           T == WokenThreads(W)
<1>1. W \in SUBSET (DOMAIN waitq)
  BY DEF Woken, Sleepers
<1>2. current \in Threads /\ WakeRest(W)
  BY DEF Exit
<1>3. T \in Abstract!WakeSets(ch, FALSE)
  BY WakeSetMaps
<1>4. AbsChan' = Abstract!ReleasedChan(T)
  BY <1>1, <1>2, ReleasedChanMaps
<1>5. T \subseteq {t \in Threads : state[t] = "Blocked"}
  BY <1>1, WakeFacts
<1>6. \A t \in AllThreads :
        /\ state'[t] = "Blocked" <=> state[t] = "Blocked" /\ t \notin T
        /\ state'[t] = "Terminated" <=> state[t] = "Terminated" \/ t = current
        /\ state'[t] = "Free" <=> state[t] = "Free"
  BY ExitKeeps
<1> HIDE DEF T
<1> DEFINE ts == [Abstract!Released(T) EXCEPT ![current] = "Dead"]
<1>7. AbsState' = ts
  <2>1. \A t \in Threads : AbsOf(state'[t]) =
          IF t = current THEN "Dead" ELSE IF t \in T THEN "Runnable" ELSE AbsOf(state[t])
    BY <1>5, <1>6, AbsIs DEF AbsOf
  <2> QED  BY <1>2, <2>1, AbsIs DEF Abstract!Released
<1>8. AbsCurrent' \in {t \in Threads : ts[t] = "Runnable"} \cup {Idle}
  BY <1>7, AbsIs
<1>9. AbsCurrent = current
  BY <1>2 DEF AbsCurrent
<1> QED
  BY <1>2, <1>3, <1>4, <1>7, <1>8, <1>9
  DEF Abstract!Exit, Abstract!Dispatch, Abstract!Runnable, AbsChan, AbsCurrent

(* The reaper frees a thread that is dead.                                 *)
LEMMA ReclaimMaps ==
  ASSUME IInv, IInv', ReaperReclaim
  PROVE  \E t \in Threads : Abstract!Reclaim(t)
<1> DEFINE dead == Head(localDead)
<1>1. /\ current = Reaper /\ current' = current /\ chan' = chan /\ localDead # <<>>
      /\ state' = [state EXCEPT ![dead] = "Free"] /\ localDead \in Seq(Threads)
  BY DEF ReaperReclaim, IInv, TypeOK
<1>2. dead \in Threads /\ dead \in Elems(localDead)
  BY <1>1, TailElems
<1> HIDE DEF dead
<1>3. state[dead] = "Terminated" /\ dead \in AllThreads /\ state \in [AllThreads -> ThreadStates]
  BY <1>2, AbsIs DEF IInv, TypeOK, DeadThreadsSound, Dead
<1>4. AbsState[dead] = "Dead" /\ AbsState' = [AbsState EXCEPT ![dead] = "Free"]
  <2>1. \A t \in Threads : AbsOf(state'[t]) = IF t = dead THEN "Free" ELSE AbsOf(state[t])
    BY <1>1, <1>3, AbsIs DEF AbsOf
  <2> QED  BY <1>2, <1>3, <2>1, AbsIs DEF AbsOf
<1>5. AbsCurrent' = AbsCurrent /\ AbsCurrent = Idle /\ AbsChan' = AbsChan
  BY <1>1, ThreadsAssumption DEF AbsCurrent, AbsChan
<1>6. Abstract!Reclaim(dead)
  BY <1>4, <1>5 DEF Abstract!Reclaim, AbsCurrent, AbsChan
<1> QED  BY <1>2, <1>6

(* Every step of the scheduler and of the reaper is one of the abstract    *)
(* scheduler, or none.                                                     *)
LEMMA StepMaps ==
  ASSUME IInv, IInv', [Next]_vars
  PROVE  [Abstract!ThreadNext]_(Abstract!tvars)
<1>1. CASE Tick
  <2>1. SameLife /\ chan' = chan
    BY <1>1, TickKeeps DEF Tick
  <2> QED  BY <2>1, RescheduleMaps DEF Abstract!ThreadNext
<1>2. CASE Yield \/ ReaperYield
  <2>1. /\ current \in Schedulable /\ YieldCpu /\ chan' = chan
        /\ deadList' = deadList /\ localDead' = localDead
        /\ reaperPc' \in {"collect", "reclaim"} /\ (reaperPc' = "collect" => localDead = <<>>)
    BY <1>2 DEF Yield, ReaperYield, YieldCpu, reap, Schedulable, IInv, TypeOK, DeadListsOK
  <2>2. SameLife
    BY <2>1, YieldCpuKeeps
  <2> QED  BY <2>1, <2>2, RescheduleMaps DEF Abstract!ThreadNext
<1>3. ASSUME NEW t \in Threads, AddThread(t) PROVE Abstract!ThreadNext
  BY <1>3, AddThreadMaps DEF Abstract!ThreadNext
<1>4. ASSUME NEW ch \in Channels, Block(ch) PROVE Abstract!ThreadNext
  BY <1>4, BlockMaps DEF Abstract!ThreadNext
<1>5. ASSUME NEW ch \in Channels, NEW wake_all \in BOOLEAN, Wake(ch, wake_all)
      PROVE  Abstract!ThreadNext
  BY <1>5, WakeMaps DEF Abstract!ThreadNext
<1>6. ASSUME NEW ch \in Channels, Exit(ch) PROVE Abstract!ThreadNext
  BY <1>6, ExitMaps DEF Abstract!ThreadNext
<1>7. CASE ReaperReclaim
  BY <1>7, ReclaimMaps DEF Abstract!ThreadNext
<1>8. CASE ReaperCollect \/ UNCHANGED vars
  <2>1. UNCHANGED <<state, chan, current>>
    BY <1>8 DEF ReaperCollect, vars, sched
  <2> QED  BY <2>1 DEF Abstract!tvars, AbsState
<1> QED
  BY <1>1, <1>2, <1>3, <1>4, <1>5, <1>6, <1>7, <1>8 DEF Next, ReaperLoop

(* The feedback-queue scheduler and its reaper are a scheduler as the rest *)
(* of the kernel sees one: only runnable threads get the CPU, Wake         *)
(* releases the sleepers it promises and no other, and only dead threads   *)
(* are freed.                                                              *)
THEOREM IsAbstractScheduler == Spec => ImplementsAbstract
<1>1. Init => Abstract!ThreadInit
  <2> SUFFICES ASSUME Init PROVE Abstract!ThreadInit
    OBVIOUS
  <2>1. PICK init \in Threads :
          /\ state = [t \in AllThreads |->
                        IF t = Idle THEN "Running"
                        ELSE IF t \in {init, Reaper} THEN "Ready" ELSE "Free"]
          /\ chan = [t \in AllThreads |-> NoChannel]
          /\ current = Idle
    BY DEF Init
  <2>2. Threads \subseteq AllThreads /\ Idle \notin Threads /\ Reaper \notin Threads
    BY ThreadsAssumption DEF AllThreads, Schedulable
  <2>3. AbsState = [t \in Threads |-> IF t = init THEN "Runnable" ELSE "Free"]
    BY <2>1, <2>2 DEF AbsState
  <2>4. AbsChan = [t \in Threads |-> NoChannel] /\ AbsCurrent = Idle
    BY <2>1, <2>2 DEF AbsChan, AbsCurrent
  <2> QED  BY <2>3, <2>4 DEF Abstract!ThreadInit, AbsChan, AbsCurrent
<1>2. IInv /\ IInv' /\ [Next]_vars => [Abstract!ThreadNext]_(Abstract!tvars)
  BY StepMaps
<1> QED  BY <1>1, <1>2, Invariance, PTL DEF Spec, ImplementsAbstract, Abstract!ThreadSpec
=============================================================================
