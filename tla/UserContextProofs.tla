--------------------------- MODULE UserContextProofs ---------------------------
(***************************************************************************)
(* Entering and leaving the kernel keeps the GS bases, the interrupt flag  *)
(* and the contexts of threads right, for any threads, signals and stacks. *)
(*                                                                         *)
(* What a thread finds when it gets the CPU depends on how it lost it, so  *)
(* IInv says where threads off the CPU may be and which interrupt flag     *)
(* they will put back; and that each thread's frame is on its own kernel   *)
(* stack, which is the one the CPU takes for the next entry.               *)
(***************************************************************************)
EXTENDS UserContext, ListProofs

(* The types of what concerns signals, and of the rest.                    *)
SigTypeOK ==
    /\ pending \in [Users -> SUBSET Sigs]
    /\ blocked \in [Users -> SUBSET Sigs]
    /\ action \in [Users -> [Sigs -> {"SIG_DFL", "SIG_IGN", "handler"}]]
    /\ sigframes \in [Users -> [0..StackTop -> Context \cup {Nothing}]]

CoreTypeOK ==
    /\ gs \in {"percpu", "user"} /\ kernelGs \in {"percpu", "user"}
    /\ regs \in Context \cup {Nothing}
    /\ current \in Threads
    /\ userRsp \in 0..StackTop
    /\ state \in [Threads -> {"unborn", "Ready", "Running", "Blocked", "Terminated"}]
    /\ phase \in [Threads -> Phases]
    /\ krsp \in [Threads -> Threads]
    /\ frames \in [Threads -> Context \cup {Nothing}]
    /\ entry \in [Threads -> Context \cup {Nothing}]

FlagsTypeOK == intr \in BOOLEAN /\ savedIntr \in [Threads -> BOOLEAN]

(* The kernel stack of the current thread is the one for the next entry,   *)
(* and kernel code runs on its thread's own stack.                         *)
StackOK == kernelStack = current /\ \A t \in Threads : krsp[t] = t

(* The frame on a thread's kernel stack is what the thread has to get back.*)
FramesOK ==
    \A t \in Threads :
        /\ frames[t] = entry[t]
        /\ phase[t] \in InCall \cup InInterrupt \cup {"ForkReturn"} => entry[t] \in Context

KernelPhases ==
    \A t \in Threads :
        t \in {Idle, Reaper} <=> phase[t] \in {"kernel", "kinterrupt", "ThreadTrampoline"}

CurrentRunning == state[current] = "Running"

(* A thread that may get the CPU starts, or resumes inside the scheduler   *)
(* with the flag it had there.                                             *)
Resumable(t) == t = Idle \/ state[t] \in {"Ready", "Blocked"}
Suspended == {"iret", "kinterrupt", "slept", "nap"}
OffCpuOK ==
    \A t \in Threads : t # current /\ Resumable(t) =>
        /\ phase[t] \in New \cup Suspended \cup {"kernel"}
        /\ phase[t] \in Suspended => ~savedIntr[t]
        /\ phase[t] = "kernel" => savedIntr[t]

CoreOK ==
    /\ CoreTypeOK /\ FlagsTypeOK
    /\ StackOK /\ FramesOK /\ KernelPhases /\ CurrentRunning /\ OffCpuOK
    /\ GsSound /\ InterruptFlagSound

IInv == CoreOK /\ SigTypeOK

USE UserContextAssumption

----------------------------------------------------------------------------
(* The threads of the kernel are not the users' threads.                   *)
LEMMA KernelThreads ==
  /\ Threads = Users \cup {Idle, Reaper} /\ Users \cap {Idle, Reaper} = {}
  /\ Nothing \notin Context
BY DEF Threads

(* A thread of a user enters the kernel.                                   *)
LEMMA EnterKernelOK ==
  ASSUME IInv, NEW t \in Users, NEW c \in Context, NEW ph \in {"call", "interrupt"},
         EnterKernel(t, ph, c), userRsp' \in 0..StackTop
  PROVE  CoreOK' /\ SigTypeOK'
<1>1. /\ current = t /\ phase[t] = "user"
      /\ gs' = kernelGs /\ kernelGs' = gs
      /\ intr' = FALSE
      /\ frames' = [frames EXCEPT ![kernelStack] = c]
      /\ krsp' = [krsp EXCEPT ![t] = kernelStack]
      /\ entry' = [entry EXCEPT ![t] = c]
      /\ regs' = Nothing
      /\ phase' = [phase EXCEPT ![t] = ph]
      /\ UNCHANGED <<current, kernelStack, state, savedIntr, signals>>
  BY DEF EnterKernel, At, Swapgs, Goto
<1>2. kernelStack = t /\ krsp[t] = t /\ t \in Threads
  BY <1>1, KernelThreads DEF IInv, CoreOK, StackOK
<1>3. CoreTypeOK'
  BY <1>1, <1>2 DEF IInv, CoreOK, CoreTypeOK, Phases, InCall, InInterrupt
<1>4. FlagsTypeOK'
  BY <1>1 DEF IInv, CoreOK, FlagsTypeOK
<1>5. /\ phase'[t] = ph /\ \A u \in Threads : u # t => phase'[u] = phase[u]
      /\ entry'[t] = c /\ frames'[t] = c /\ krsp'[t] = t
      /\ \A u \in Threads : u # t => entry'[u] = entry[u] /\ frames'[u] = frames[u]
                                     /\ krsp'[u] = krsp[u]
  BY <1>1, <1>2 DEF IInv, CoreOK, CoreTypeOK
<1>6. StackOK' /\ FramesOK'
  BY <1>1, <1>2, <1>5 DEF IInv, CoreOK, StackOK, FramesOK
<1>7. KernelPhases' /\ CurrentRunning'
  BY <1>1, <1>5, KernelThreads DEF IInv, CoreOK, KernelPhases, CurrentRunning
<1>8. OffCpuOK'
  BY <1>1, <1>5 DEF IInv, CoreOK, OffCpuOK, Resumable
<1>9. GsSound' /\ InterruptFlagSound'
  BY <1>1, <1>5 DEF IInv, CoreOK, GsSound, InterruptFlagSound
<1>10. SigTypeOK'
  BY <1>1 DEF signals, IInv, SigTypeOK
<1> QED  BY <1>3, <1>4, <1>6, <1>7, <1>8, <1>9, <1>10 DEF CoreOK

(* A thread of a user goes on in user code.                                *)
LEMMA EnterUserOK ==
  ASSUME IInv, NEW t \in Users, NEW c \in Context, current = t,
         phase[t] \in {"UserspaceTrampoline", "ForkReturn", "sysret", "iret"},
         EnterUser(t, c)
  PROVE  CoreOK'
<1>1. /\ gs' = kernelGs /\ kernelGs' = gs
      /\ intr' = TRUE
      /\ regs' = c
      /\ frames' = [frames EXCEPT ![krsp[t]] = Nothing]
      /\ entry' = [entry EXCEPT ![t] = Nothing]
      /\ phase' = [phase EXCEPT ![t] = "user"]
      /\ UNCHANGED <<current, kernelStack, userRsp, state, krsp, savedIntr>>
  BY DEF EnterUser, Swapgs, Goto, percpu
<1>2. krsp[t] = t /\ t \in Threads
  BY <1>1, KernelThreads DEF IInv, CoreOK, StackOK
<1>3. CoreTypeOK'
  BY <1>1, <1>2 DEF IInv, CoreOK, CoreTypeOK, Phases
<1>4. FlagsTypeOK'
  BY <1>1 DEF IInv, CoreOK, FlagsTypeOK
<1>5. /\ phase'[t] = "user" /\ \A u \in Threads : u # t => phase'[u] = phase[u]
      /\ entry'[t] = Nothing /\ frames'[t] = Nothing
      /\ \A u \in Threads : u # t => entry'[u] = entry[u] /\ frames'[u] = frames[u]
  BY <1>1, <1>2 DEF IInv, CoreOK, CoreTypeOK
<1>6. StackOK' /\ FramesOK'
  BY <1>1, <1>5 DEF IInv, CoreOK, StackOK, FramesOK, InCall, InInterrupt
<1>7. KernelPhases' /\ CurrentRunning'
  BY <1>1, <1>5, KernelThreads DEF IInv, CoreOK, KernelPhases, CurrentRunning
<1>8. OffCpuOK'
  BY <1>1, <1>5 DEF IInv, CoreOK, OffCpuOK, Resumable
<1>9. GsSound' /\ InterruptFlagSound'
  BY <1>1, <1>5 DEF IInv, CoreOK, GsSound, InterruptFlagSound, InCall, InInterrupt
<1> QED  BY <1>3, <1>4, <1>6, <1>7, <1>8, <1>9 DEF CoreOK

(* A step of a call or of an interrupt handler that keeps the CPU.  What   *)
(* it may do to other threads is to make sleepers ready.                   *)
LEMMA StayOK ==
  ASSUME IInv, NEW t \in Users, NEW ph \in InCall \cup InInterrupt \cup {"hung"},
         current = t, phase[t] \in InCall \cup InInterrupt,
         Goto(t, ph), UNCHANGED <<cpu, percpu, krsp, savedIntr>>,
         state' \in [Threads -> {"unborn", "Ready", "Running", "Blocked", "Terminated"}],
         \A u \in Threads : state'[u] = state[u] \/ (state[u] = "Blocked" /\ state'[u] = "Ready"),
         frames' \in [Threads -> Context \cup {Nothing}],
         entry' \in [Threads -> Context \cup {Nothing}],
         \A u \in Threads : u # t => frames'[u] = frames[u] /\ entry'[u] = entry[u],
         frames'[t] = entry'[t], entry'[t] \in Context
  PROVE  CoreOK'
<1>1. /\ phase' = [phase EXCEPT ![t] = ph]
      /\ UNCHANGED <<gs, kernelGs, intr, regs, current, kernelStack, userRsp, krsp, savedIntr>>
  BY DEF Goto, cpu, percpu
<1>2. t \in Threads
  BY KernelThreads
<1>3. CoreTypeOK'
  BY <1>1, <1>2 DEF IInv, CoreOK, CoreTypeOK, Phases
<1>4. FlagsTypeOK'
  BY <1>1 DEF IInv, CoreOK, FlagsTypeOK
<1>5. phase'[t] = ph /\ \A u \in Threads : u # t => phase'[u] = phase[u]
  BY <1>1, <1>2 DEF IInv, CoreOK, CoreTypeOK
<1>6. StackOK' /\ FramesOK'
  BY <1>1, <1>2, <1>5 DEF IInv, CoreOK, StackOK, FramesOK
<1>7. KernelPhases'
  BY <1>1, <1>5, KernelThreads DEF IInv, CoreOK, KernelPhases, InCall, InInterrupt
<1>8. CurrentRunning'
  BY <1>1, <1>2 DEF IInv, CoreOK, CurrentRunning
<1>9. OffCpuOK'
  BY <1>1, <1>5 DEF IInv, CoreOK, OffCpuOK, Resumable
<1>10. GsSound' /\ InterruptFlagSound'
  BY <1>1, <1>2, <1>5 DEF IInv, CoreOK, GsSound, InterruptFlagSound, InCall, InInterrupt
<1> QED  BY <1>3, <1>4, <1>6, <1>7, <1>8, <1>9, <1>10 DEF CoreOK

(* Yield, Block and the tick: whoever gets the CPU finds the interrupt     *)
(* flag it needs.                                                          *)
LEMMA ScheduleOK ==
  ASSUME IInv, NEW t \in Threads, NEW s, NEW ph \in Suspended \cup {"kernel"},
         current = t, Schedule(t, s, ph), UNCHANGED <<frames, entry>>,
         s \in {"Ready", "Blocked"} \/ (t = Idle /\ s = "Running" /\ current' # t),
         ph \in Suspended => ~intr,
         ph = "kernel" => intr,
         phase[t] \notin {"user", "lost"},
         t \in Users <=> ph \in {"iret", "slept", "nap"},
         t \in Users => entry[t] \in Context
  PROVE  CoreOK'
<1> DEFINE st == [state EXCEPT ![t] = s]
           ready == {n \in Threads : st[n] = "Ready"}
<1>1. PICK n \in IF ready = {} THEN {Idle} ELSE ready :
          /\ state' = [st EXCEPT ![n] = "Running"]
          /\ Goto(t, ph)
          /\ savedIntr' = [savedIntr EXCEPT ![t] = intr]
          /\ IF n = t
             THEN UNCHANGED <<percpu, intr>>
             ELSE PerformSwitch(t, n) /\ intr' = ResumedIntr(t, n)
          /\ UNCHANGED <<gs, kernelGs, regs, krsp>>
  BY DEF Schedule
<1>2. n \in Threads
  BY KernelThreads
<1>3. /\ state \in [Threads -> {"unborn", "Ready", "Running", "Blocked", "Terminated"}]
      /\ phase \in [Threads -> Phases]
      /\ savedIntr \in [Threads -> BOOLEAN] /\ intr \in BOOLEAN
  BY DEF IInv, CoreOK, CoreTypeOK, FlagsTypeOK
<1>4. st \in [Threads -> {"unborn", "Ready", "Running", "Blocked", "Terminated"}]
      /\ st[t] = s /\ \A u \in Threads : u # t => st[u] = state[u]
  BY <1>3
<1>5. /\ state' \in [Threads -> {"unborn", "Ready", "Running", "Blocked", "Terminated"}]
      /\ state'[n] = "Running"
      /\ \A u \in Threads : u # n => state'[u] = st[u]
  BY <1>1, <1>2, <1>4
<1>6. n # t => Resumable(n)
  BY <1>1, <1>2, <1>4 DEF Resumable
<1>7. n = t => s # "Running"
  BY <1>1, <1>2, <1>4 DEF percpu
<1>8. current' = n /\ kernelStack' = n /\ userRsp' = userRsp
  <2>1. kernelStack = current
    BY DEF IInv, CoreOK, StackOK
  <2> QED  BY <1>1, <2>1 DEF percpu, PerformSwitch
<1>9. /\ phase' = [phase EXCEPT ![t] = ph]
      /\ phase'[t] = ph /\ \A u \in Threads : u # t => phase'[u] = phase[u]
  BY <1>1, <1>3 DEF Goto
<1> HIDE DEF st, ready
<1>10. CoreTypeOK'
  BY <1>1, <1>2, <1>5, <1>8, <1>9
  DEF IInv, CoreOK, CoreTypeOK, Phases, Suspended, InCall, InInterrupt
<1>11. StackOK' /\ FramesOK'
  BY <1>1, <1>8, <1>9 DEF IInv, CoreOK, StackOK, FramesOK, Suspended, InCall, InInterrupt
<1>12. KernelPhases'
  BY <1>9, KernelThreads DEF IInv, CoreOK, KernelPhases, Suspended
<1>13. CurrentRunning'
  BY <1>5, <1>8 DEF CurrentRunning
<1>14. /\ savedIntr'[t] = intr
       /\ \A u \in Threads : u # t => savedIntr'[u] = savedIntr[u]
       /\ savedIntr' \in [Threads -> BOOLEAN]
  BY <1>1, <1>3
<1>15. OffCpuOK'
  <2> SUFFICES ASSUME NEW u \in Threads, u # current', Resumable(u)'
               PROVE  /\ phase'[u] \in New \cup Suspended \cup {"kernel"}
                      /\ phase'[u] \in Suspended => ~savedIntr'[u]
                      /\ phase'[u] = "kernel" => savedIntr'[u]
    BY DEF OffCpuOK
  <2>1. CASE u = t
    BY <2>1, <1>9, <1>14
  <2>2. CASE u # t
    <3>1. Resumable(u)
      BY <2>2, <1>4, <1>5, <1>8 DEF Resumable
    <3>2. /\ phase[u] \in New \cup Suspended \cup {"kernel"}
          /\ phase[u] \in Suspended => ~savedIntr[u]
          /\ phase[u] = "kernel" => savedIntr[u]
      BY <2>2, <3>1 DEF IInv, CoreOK, OffCpuOK
    <3> QED  BY <2>2, <3>2, <1>9, <1>14
  <2> QED  BY <2>1, <2>2
<1>16. phase'[n] # "user"
  <2>1. CASE n = t
    BY <2>1, <1>9 DEF Suspended
  <2>2. CASE n # t
    BY <2>2, <1>2, <1>6, <1>9 DEF IInv, CoreOK, OffCpuOK, Suspended, New
  <2> QED  BY <2>1, <2>2
<1>17. GsSound'
  BY <1>1, <1>8, <1>16 DEF IInv, CoreOK, GsSound
<1>18. FlagsTypeOK' /\ InterruptFlagSound'
  <2>1. CASE n = t
    <3>1. intr' = intr
      BY <2>1, <1>1
    <3> QED
      BY <3>1, <2>1, <1>3, <1>8, <1>9, <1>14
      DEF FlagsTypeOK, InterruptFlagSound, Suspended, InCall, InInterrupt
  <2>2. CASE n # t
    <3>1. /\ phase[n] \in New \cup Suspended \cup {"kernel"}
          /\ phase[n] \in Suspended => ~savedIntr[n]
          /\ phase[n] = "kernel" => savedIntr[n]
      BY <2>2, <1>2, <1>6 DEF IInv, CoreOK, OffCpuOK
    <3>2. intr' = IF phase[n] \in New THEN FALSE ELSE savedIntr[n]
      BY <2>2, <1>1 DEF ResumedIntr
    <3>3. intr' \in BOOLEAN
      BY <3>2, <1>2, <1>3
    <3>4. phase[n] = "kernel" => intr'
      BY <3>1, <3>2 DEF New
    <3>5. phase[n] \in Suspended => ~intr'
      BY <3>1, <3>2 DEF New, Suspended
    <3>6. phase'[current'] = phase[n]
      BY <2>2, <1>2, <1>8, <1>9
    <3> QED
      BY <3>1, <3>3, <3>4, <3>5, <3>6, <1>14
      DEF FlagsTypeOK, InterruptFlagSound, Suspended, New, InCall, InInterrupt
  <2> QED  BY <2>1, <2>2
<1> QED
  BY <1>10, <1>11, <1>12, <1>13, <1>15, <1>17, <1>18 DEF CoreOK

(* The thread of a user exits, or a signal ends it.                        *)
LEMMA ExitOK ==
  ASSUME IInv, NEW t \in Users, current = t, phase[t] \in {"call", "sysret", "iret"}, Exit(t)
  PROVE  CoreOK' /\ SigTypeOK'
<1> DEFINE Wakes == {{}} \cup {{u} : u \in {v \in Users : state[v] = "Blocked"}}
           ready(W) == {n \in Threads : state[n] = "Ready"} \cup W
           Switch(W, n) ==
             /\ state' = [u \in Threads |-> IF u = n THEN "Running"
                                            ELSE IF u = t THEN "Terminated"
                                            ELSE IF u \in W THEN "Ready" ELSE state[u]]
             /\ Goto(t, "unborn")
             /\ PerformSwitch(t, n)
             /\ intr' = ResumedIntr(t, n)
             /\ frames' = [frames EXCEPT ![krsp[t]] = Nothing]
             /\ entry' = [entry EXCEPT ![t] = Nothing]
             /\ pending' = [pending EXCEPT ![t] = {}]
             /\ blocked' = [blocked EXCEPT ![t] = {}]
             /\ action' = [action EXCEPT ![t] = [s \in Sigs |-> "SIG_DFL"]]
             /\ sigframes' = [sigframes EXCEPT ![t] = NoFrames]
             /\ UNCHANGED <<gs, kernelGs, regs, krsp, savedIntr>>
<1>0. \E W \in Wakes : \E n \in IF ready(W) = {} THEN {Idle} ELSE ready(W) : Switch(W, n)
  BY Zenon DEF Exit
<1> HIDE DEF Switch
<1>1. PICK W \in Wakes : \E n \in IF ready(W) = {} THEN {Idle} ELSE ready(W) : Switch(W, n)
  BY <1>0
<1>2. \A u \in W : u \in Users /\ state[u] = "Blocked"
  OBVIOUS
<1>3. PICK next \in Threads : /\ next = Idle \/ state[next] = "Ready" \/ next \in W
                             /\ Switch(W, next)
  <2>1. PICK n \in IF ready(W) = {} THEN {Idle} ELSE ready(W) : Switch(W, n)
    BY <1>1
  <2>2. n \in Threads /\ (n = Idle \/ state[n] = "Ready" \/ n \in W)
    BY <1>2, <2>1, KernelThreads
  <2> QED  BY <2>1, <2>2
<1> USE DEF Switch
<1>4. /\ state \in [Threads -> {"unborn", "Ready", "Running", "Blocked", "Terminated"}]
      /\ phase \in [Threads -> Phases]
      /\ savedIntr \in [Threads -> BOOLEAN] /\ intr \in BOOLEAN
      /\ state[t] = "Running" /\ t \in Threads /\ krsp[t] = t
  BY KernelThreads
  DEF IInv, CoreOK, CoreTypeOK, FlagsTypeOK, CurrentRunning, StackOK
<1>5. next # t /\ Resumable(next)
  BY <1>3, <1>2, <1>4, KernelThreads DEF Resumable
<1>6. current' = next /\ kernelStack' = next /\ userRsp' = userRsp
  BY <1>3 DEF PerformSwitch
<1>7. /\ phase' = [phase EXCEPT ![t] = "unborn"]
      /\ phase'[t] = "unborn" /\ \A u \in Threads : u # t => phase'[u] = phase[u]
  BY <1>3, <1>4 DEF Goto
<1>8. /\ state'[next] = "Running" /\ state'[t] = "Terminated"
      /\ \A u \in Threads : u # next /\ u # t => (Resumable(u)' => Resumable(u))
  BY <1>3, <1>2, <1>4, <1>5 DEF Resumable
<1>9. state' \in [Threads -> {"unborn", "Ready", "Running", "Blocked", "Terminated"}]
  BY <1>3, <1>4
<1>10. CoreTypeOK'
  BY <1>3, <1>4, <1>6, <1>7, <1>9 DEF IInv, CoreOK, CoreTypeOK, Phases
<1>11. /\ entry'[t] = Nothing /\ frames'[t] = Nothing
       /\ \A u \in Threads : u # t => entry'[u] = entry[u] /\ frames'[u] = frames[u]
  BY <1>3, <1>4 DEF IInv, CoreOK, CoreTypeOK
<1>12. StackOK' /\ FramesOK'
  BY <1>3, <1>6, <1>7, <1>11 DEF IInv, CoreOK, StackOK, FramesOK, InCall, InInterrupt
<1>13. KernelPhases' /\ CurrentRunning'
  BY <1>6, <1>7, <1>8, KernelThreads DEF IInv, CoreOK, KernelPhases, CurrentRunning
<1>14. /\ phase[next] \in New \cup Suspended \cup {"kernel"}
       /\ phase[next] \in Suspended => ~savedIntr[next]
       /\ phase[next] = "kernel" => savedIntr[next]
  BY <1>5 DEF IInv, CoreOK, OffCpuOK
<1>15. OffCpuOK'
  <2> SUFFICES ASSUME NEW u \in Threads, u # next, Resumable(u)'
               PROVE  /\ phase'[u] \in New \cup Suspended \cup {"kernel"}
                      /\ phase'[u] \in Suspended => ~savedIntr[u]
                      /\ phase'[u] = "kernel" => savedIntr[u]
    BY <1>3, <1>6 DEF OffCpuOK
  <2>1. u # t
    BY <1>8, KernelThreads DEF Resumable
  <2> QED  BY <2>1, <1>7, <1>8 DEF IInv, CoreOK, OffCpuOK
<1>16. GsSound'
  BY <1>3, <1>5, <1>6, <1>7, <1>14 DEF IInv, CoreOK, GsSound, New, Suspended
<1>17. FlagsTypeOK' /\ InterruptFlagSound'
  <2>1. intr' = IF phase[next] \in New THEN FALSE ELSE savedIntr[next]
    BY <1>3 DEF ResumedIntr
  <2>2. intr' \in BOOLEAN
    BY <2>1, <1>4
  <2>3. phase[next] = "kernel" => intr'
    BY <2>1, <1>14 DEF New
  <2>4. phase[next] \in Suspended => ~intr'
    BY <2>1, <1>14 DEF New, Suspended
  <2>5. phase'[current'] = phase[next] /\ savedIntr' = savedIntr
    BY <1>3, <1>5, <1>6, <1>7
  <2> QED
    BY <2>2, <2>3, <2>4, <2>5, <1>4, <1>14
    DEF FlagsTypeOK, InterruptFlagSound, Suspended, New, InCall, InInterrupt
<1>18. SigTypeOK'
  BY <1>3 DEF IInv, SigTypeOK, NoFrames
<1> QED
  BY <1>10, <1>12, <1>13, <1>15, <1>16, <1>17, <1>18 DEF CoreOK

(* The kernel's own threads start, are interrupted and go on.              *)
LEMMA KernelStepOK ==
  ASSUME IInv, NEW t \in {Idle, Reaper}, NEW ph \in {"kernel", "kinterrupt"}, current = t,
         Goto(t, ph), intr' = (ph = "kernel"),
         UNCHANGED <<gs, kernelGs, regs, percpu, state, krsp, frames, savedIntr, signals, entry>>
  PROVE  CoreOK' /\ SigTypeOK'
<1>1. /\ phase' = [phase EXCEPT ![t] = ph] /\ t \in Threads
      /\ UNCHANGED <<gs, kernelGs, regs, current, kernelStack, userRsp, state, krsp, frames,
                     savedIntr, entry>>
  BY KernelThreads DEF Goto, percpu
<1>2. phase'[t] = ph /\ \A u \in Threads : u # t => phase'[u] = phase[u]
  BY <1>1 DEF IInv, CoreOK, CoreTypeOK
<1>3. CoreTypeOK'
  BY <1>1 DEF IInv, CoreOK, CoreTypeOK, Phases
<1>4. StackOK' /\ FramesOK'
  BY <1>1, <1>2 DEF IInv, CoreOK, StackOK, FramesOK, InCall, InInterrupt
<1>5. KernelPhases' /\ CurrentRunning' /\ OffCpuOK'
  BY <1>1, <1>2 DEF IInv, CoreOK, KernelPhases, CurrentRunning, OffCpuOK, Resumable
<1>6. GsSound'
  <2>1. phase[t] \notin {"user", "lost"}
    BY <1>1 DEF IInv, CoreOK, KernelPhases
  <2> QED  BY <2>1, <1>1, <1>2 DEF IInv, CoreOK, GsSound
<1>7. FlagsTypeOK' /\ InterruptFlagSound'
  BY <1>1, <1>2 DEF IInv, CoreOK, FlagsTypeOK, InterruptFlagSound, InCall, InInterrupt
<1>8. SigTypeOK'
  BY DEF IInv, SigTypeOK, signals
<1> QED  BY <1>3, <1>4, <1>5, <1>6, <1>7, <1>8 DEF CoreOK

(* arch_prctl(ARCH_SET_GS) takes the per-CPU data from the kernel, and     *)
(* nothing else from anyone.                                               *)
LEMMA PrctlGsOK ==
  ASSUME IInv, NEW t \in Users, SysArchPrctlGs(t)
  PROVE  CoreOK' /\ SigTypeOK'
<1>1. /\ current = t /\ phase[t] = "call" /\ t \in Threads
      /\ gs' = "user" /\ phase' = [phase EXCEPT ![t] = "lost"]
      /\ UNCHANGED <<kernelGs, intr, regs, current, kernelStack, userRsp, state, krsp, frames,
                     savedIntr, entry>>
  BY KernelThreads DEF SysArchPrctlGs, At, Goto, percpu
<1>2. phase'[t] = "lost" /\ \A u \in Threads : u # t => phase'[u] = phase[u]
  BY <1>1 DEF IInv, CoreOK, CoreTypeOK
<1>3. CoreTypeOK' /\ FlagsTypeOK'
  BY <1>1 DEF IInv, CoreOK, CoreTypeOK, FlagsTypeOK, Phases
<1>4. StackOK' /\ FramesOK'
  BY <1>1, <1>2 DEF IInv, CoreOK, StackOK, FramesOK, InCall, InInterrupt
<1>5. KernelPhases' /\ CurrentRunning' /\ OffCpuOK'
  BY <1>1, <1>2, KernelThreads
  DEF IInv, CoreOK, KernelPhases, CurrentRunning, OffCpuOK, Resumable
<1>6. GsSound' /\ InterruptFlagSound'
  BY <1>1, <1>2 DEF GsSound, InterruptFlagSound, InCall, InInterrupt
<1>7. SigTypeOK'
  BY DEF SysArchPrctlGs, IInv, SigTypeOK, signals
<1> QED  BY <1>3, <1>4, <1>5, <1>6, <1>7 DEF CoreOK

(* fork: the child starts with a copy of its parent's frame.               *)
LEMMA ForkOK ==
  ASSUME IInv, NEW t \in Users, NEW child \in Users, SysFork(t, child)
  PROVE  CoreOK' /\ SigTypeOK'
<1>1. /\ current = t /\ phase[t] = "call" /\ state[child] = "unborn"
      /\ state' = [state EXCEPT ![child] = "Ready"]
      /\ phase' = [phase EXCEPT ![t] = "sysret", ![child] = "ForkReturn"]
      /\ frames' = [frames EXCEPT ![child] = frames[krsp[t]]]
      /\ entry' = [entry EXCEPT ![child] = entry[t]]
      /\ action' = [action EXCEPT ![child] = action[t]]
      /\ sigframes' = [sigframes EXCEPT ![child] = sigframes[t]]
      /\ UNCHANGED <<gs, kernelGs, intr, regs, current, kernelStack, userRsp, krsp, savedIntr,
                     pending, blocked>>
  BY DEF SysFork, At, Frame, cpu, percpu
<1>2. /\ t \in Threads /\ child \in Threads /\ krsp[t] = t /\ frames[t] = entry[t]
      /\ entry[t] \in Context /\ child # t
  BY <1>1, KernelThreads
  DEF IInv, CoreOK, StackOK, FramesOK, CurrentRunning, InCall
<1>3. /\ phase'[t] = "sysret" /\ phase'[child] = "ForkReturn"
      /\ \A u \in Threads : u # t /\ u # child => phase'[u] = phase[u]
      /\ phase' \in [Threads -> Phases]
  <2>1. phase \in [Threads -> Phases] /\ "sysret" \in Phases /\ "ForkReturn" \in Phases
    BY DEF IInv, CoreOK, CoreTypeOK, Phases, InCall, New
  <2> QED  BY <2>1, <1>1, <1>2
<1>4. /\ entry'[child] = entry[t] /\ frames'[child] = entry[t] /\ state'[child] = "Ready"
      /\ \A u \in Threads : u # child => /\ entry'[u] = entry[u] /\ frames'[u] = frames[u]
                                         /\ state'[u] = state[u]
  BY <1>1, <1>2 DEF IInv, CoreOK, CoreTypeOK
<1>5. CoreTypeOK' /\ FlagsTypeOK'
  BY <1>1, <1>2, <1>3 DEF IInv, CoreOK, CoreTypeOK, FlagsTypeOK
<1>6. StackOK' /\ FramesOK'
  BY <1>1, <1>2, <1>3, <1>4 DEF IInv, CoreOK, StackOK, FramesOK
<1>7. KernelPhases' /\ CurrentRunning'
  BY <1>1, <1>2, <1>3, <1>4, KernelThreads DEF IInv, CoreOK, KernelPhases, CurrentRunning
<1>8. OffCpuOK'
  BY <1>1, <1>2, <1>3, <1>4 DEF IInv, CoreOK, OffCpuOK, Resumable, New, Suspended
<1>9. GsSound' /\ InterruptFlagSound'
  BY <1>1, <1>2, <1>3 DEF IInv, CoreOK, GsSound, InterruptFlagSound, InCall, InInterrupt
<1>10. SigTypeOK'
  BY <1>1 DEF IInv, SigTypeOK
<1> QED  BY <1>5, <1>6, <1>7, <1>8, <1>9, <1>10 DEF CoreOK

(* A step of a call or a handler that only goes on, or makes a sleeper     *)
(* ready.                                                                  *)
LEMMA GoesOnOK ==
  ASSUME IInv, NEW t \in Users, NEW ph \in InCall \cup InInterrupt \cup {"hung"},
         current = t, phase[t] \in InCall \cup InInterrupt,
         Goto(t, ph), UNCHANGED <<cpu, percpu, krsp, savedIntr>>, UNCHANGED <<frames, entry>>,
         \/ UNCHANGED state
         \/ \E u \in Users : state[u] = "Blocked" /\ state' = [state EXCEPT ![u] = "Ready"]
  PROVE  CoreOK'
<1>1. t \in Threads /\ Users \subseteq Threads
  BY KernelThreads
<1>2. state \in [Threads -> {"unborn", "Ready", "Running", "Blocked", "Terminated"}]
  BY DEF IInv, CoreOK, CoreTypeOK
<1>3. state' \in [Threads -> {"unborn", "Ready", "Running", "Blocked", "Terminated"}]
  BY <1>1, <1>2
<1>4. \A u \in Threads : state'[u] = state[u] \/ (state[u] = "Blocked" /\ state'[u] = "Ready")
  BY <1>1, <1>2
<1>5. /\ frames' \in [Threads -> Context \cup {Nothing}]
      /\ entry' \in [Threads -> Context \cup {Nothing}]
  BY DEF IInv, CoreOK, CoreTypeOK
<1>6. frames'[t] = entry'[t] /\ entry'[t] \in Context
  BY <1>1 DEF IInv, CoreOK, FramesOK
<1> QED  BY <1>1, <1>3, <1>4, <1>5, <1>6, StayOK

(* A call that rewrites its own frame.                                     *)
LEMMA SetFrameOK ==
  ASSUME IInv, NEW t \in Users, NEW c \in Context, At(t, "call"), SetFrame(t, c)
  PROVE  CoreOK'
<1>1. /\ frames' = [frames EXCEPT ![krsp[t]] = c]
      /\ entry' = [entry EXCEPT ![t] = c]
      /\ UNCHANGED state
      /\ current = t /\ phase[t] = "call"
      /\ Goto(t, "sysret")
      /\ UNCHANGED <<cpu, percpu, krsp, savedIntr>>
  BY DEF SetFrame, Finish, At
<1>2. /\ t \in Threads /\ krsp[t] = t
      /\ state \in [Threads -> {"unborn", "Ready", "Running", "Blocked", "Terminated"}]
      /\ frames \in [Threads -> Context \cup {Nothing}]
      /\ entry \in [Threads -> Context \cup {Nothing}]
  BY KernelThreads DEF IInv, CoreOK, CoreTypeOK, StackOK
<1>3. /\ frames' \in [Threads -> Context \cup {Nothing}]
      /\ entry' \in [Threads -> Context \cup {Nothing}]
      /\ \A u \in Threads : u # t => frames'[u] = frames[u] /\ entry'[u] = entry[u]
      /\ frames'[t] = entry'[t] /\ entry'[t] \in Context
  BY <1>1, <1>2
<1>4. "sysret" \in InCall /\ "call" \in InCall
  BY DEF InCall
<1> QED  BY <1>1, <1>2, <1>3, <1>4, StayOK

(* What a thread inside a call or an interrupt has to get back.            *)
LEMMA FrameOK ==
  ASSUME IInv, NEW t \in Users, phase[t] \in InCall \cup InInterrupt \cup {"ForkReturn"}
  PROVE  Frame(t) = entry[t] /\ Frame(t) \in Context /\ entry[t] \in Context
BY KernelThreads DEF IInv, CoreOK, StackOK, FramesOK, Frame

----------------------------------------------------------------------------
(* Initially the boot flow is the idle thread and nothing has been entered.*)
LEMMA InitInv == Init => IInv
<1> SUFFICES ASSUME Init PROVE IInv
  OBVIOUS
<1>1. First \in Threads /\ Idle \in Threads /\ Reaper \in Threads
  BY KernelThreads
<1>2. /\ phase \in [Threads -> Phases]
      /\ state \in [Threads -> {"unborn", "Ready", "Running", "Blocked", "Terminated"}]
  BY DEF Init, Phases, New
<1>3. CoreTypeOK /\ FlagsTypeOK
  BY <1>1, <1>2 DEF Init, CoreTypeOK, FlagsTypeOK
<1>4. StackOK /\ FramesOK
  BY <1>1 DEF Init, StackOK, FramesOK, InCall, InInterrupt
<1>5. KernelPhases /\ CurrentRunning /\ OffCpuOK
  BY <1>1, KernelThreads
  DEF Init, KernelPhases, CurrentRunning, OffCpuOK, Resumable, New, Suspended
<1>6. GsSound /\ InterruptFlagSound
  BY <1>1 DEF Init, GsSound, InterruptFlagSound, InCall, InInterrupt
<1>7. SigTypeOK
  BY DEF Init, SigTypeOK, NoFrames
<1> QED  BY <1>3, <1>4, <1>5, <1>6, <1>7 DEF IInv, CoreOK

(* The bodies of system calls.                                             *)
LEMMA CallInv ==
  ASSUME IInv, NEW t \in Users, Call(t)
  PROVE  IInv'
<1> USE DEF InCall, InInterrupt
<1>1. CASE CallReturns(t)
  <2>1. CoreOK'
    BY <1>1, GoesOnOK DEF CallReturns, Finish, Untouched
  <2>2. SigTypeOK'
    BY <1>1 DEF CallReturns, IInv, SigTypeOK, signals
  <2> QED  BY <2>1, <2>2 DEF IInv
<1>2. CASE CallSleeps(t)
  <2>1. /\ current = t /\ phase[t] \in {"call", "slept"} /\ Schedule(t, "Blocked", "slept")
        /\ UNCHANGED <<frames, entry>>
    BY <1>2 DEF CallSleeps
  <2>2. ~intr /\ entry[t] \in Context /\ t \in Threads
    BY <2>1, FrameOK, KernelThreads DEF IInv, CoreOK, InterruptFlagSound
  <2>3. CoreOK'
    BY <2>1, <2>2, ScheduleOK DEF Suspended
  <2>4. SigTypeOK'
    BY <1>2 DEF CallSleeps, IInv, SigTypeOK, signals
  <2> QED  BY <2>3, <2>4 DEF IInv
<1>3. CASE SysNanosleep(t)
  <2>1. /\ current = t /\ phase[t] \in {"call", "nap"} /\ Schedule(t, "Ready", "nap")
        /\ UNCHANGED <<frames, entry>>
    BY <1>3 DEF SysNanosleep
  <2>2. ~intr /\ entry[t] \in Context /\ t \in Threads
    BY <2>1, FrameOK, KernelThreads DEF IInv, CoreOK, InterruptFlagSound
  <2>3. CoreOK'
    BY <2>1, <2>2, ScheduleOK DEF Suspended
  <2>4. SigTypeOK'
    BY <1>3 DEF SysNanosleep, IInv, SigTypeOK, signals
  <2> QED  BY <2>3, <2>4 DEF IInv
<1>4. CASE CallFaults(t)
  <2>1. CoreOK'
    BY <1>4, GoesOnOK DEF CallFaults, Hang
  <2>2. SigTypeOK'
    BY <1>4 DEF CallFaults, IInv, SigTypeOK
  <2> QED  BY <2>1, <2>2 DEF IInv
<1>5. CASE SysExit(t)
  BY <1>5, ExitOK DEF SysExit, At, IInv
<1>6. CASE SysExecve(t)
  <2>1. [rip |-> EntryRip, rsp |-> StackTop] \in Context
    BY DEF Context
  <2>2. CoreOK'
    BY <1>6, <2>1, SetFrameOK DEF SysExecve
  <2>3. SigTypeOK'
    BY <1>6 DEF SysExecve, IInv, SigTypeOK, NoFrames
  <2> QED  BY <2>2, <2>3 DEF IInv
<1>7. CASE SysSigreturn(t)
  <2>1. userRsp \in 0..StackTop
    BY DEF IInv, CoreOK, CoreTypeOK
  <2>2. sigframes[t][userRsp] \in Context
    BY <1>7, <2>1 DEF SysSigreturn, IInv, SigTypeOK
  <2>3. CoreOK'
    BY <1>7, <2>2, SetFrameOK DEF SysSigreturn
  <2>4. SigTypeOK'
    BY <1>7, <2>1 DEF SysSigreturn, IInv, SigTypeOK
  <2> QED  BY <2>3, <2>4 DEF IInv
<1>8. CASE \E u \in Users : CallWakes(t, u)
  <2>1. PICK u \in Users : CallWakes(t, u)
    BY <1>8
  <2>2. CoreOK'
    BY <2>1, GoesOnOK DEF CallWakes, Finish, At
  <2>3. SigTypeOK'
    BY <2>1 DEF CallWakes, IInv, SigTypeOK, signals
  <2> QED  BY <2>2, <2>3 DEF IInv
<1>9. CASE \E child \in Users : SysFork(t, child)
  BY <1>9, ForkOK DEF IInv
<1>10. CASE \E s \in Sigs : SysTkill(t, s)
  <2>1. PICK s \in Sigs : SysTkill(t, s)
    BY <1>10
  <2>2. CoreOK'
    BY <2>1, GoesOnOK DEF SysTkill, Finish, Untouched, At
  <2>3. SigTypeOK'
    BY <2>1 DEF SysTkill, IInv, SigTypeOK
  <2> QED  BY <2>2, <2>3 DEF IInv
<1>11. CASE \E s \in Sigs, a \in {"SIG_DFL", "SIG_IGN", "handler"} : SysSigaction(t, s, a)
  <2>1. PICK s \in Sigs, a \in {"SIG_DFL", "SIG_IGN", "handler"} : SysSigaction(t, s, a)
    BY <1>11
  <2>2. CoreOK'
    BY <2>1, GoesOnOK DEF SysSigaction, Finish, Untouched, At
  <2>3. SigTypeOK'
    BY <2>1 DEF SysSigaction, IInv, SigTypeOK
  <2> QED  BY <2>2, <2>3 DEF IInv
<1>12. CASE \E S \in SUBSET Sigs, how \in {"SIG_BLOCK", "SIG_UNBLOCK", "SIG_SETMASK"} :
              SysSigprocmask(t, how, S)
  <2>1. PICK S \in SUBSET Sigs, how \in {"SIG_BLOCK", "SIG_UNBLOCK", "SIG_SETMASK"} :
              SysSigprocmask(t, how, S)
    BY <1>12
  <2>2. CoreOK'
    BY <2>1, GoesOnOK DEF SysSigprocmask, Finish, Untouched, At
  <2>3. SigTypeOK'
    BY <2>1 DEF SysSigprocmask, IInv, SigTypeOK
  <2> QED  BY <2>2, <2>3 DEF IInv
<1>13. CASE SysArchPrctlGs(t)
  BY <1>13, PrctlGsOK DEF IInv
<1> QED
  BY <1>1, <1>2, <1>3, <1>4, <1>5, <1>6, <1>7, <1>8, <1>9, <1>10, <1>11, <1>12, <1>13 DEF Call

(* The ways back to user code, and the signals acted on there.             *)
LEMMA LeaveInv ==
  ASSUME IInv, NEW t \in Users, Leave(t)
  PROVE  IInv'
<1> USE DEF InCall, InInterrupt
<1>0. /\ pending \in [Users -> SUBSET Sigs] /\ userRsp \in 0..StackTop
      /\ ClearPassed(t) => pending' \in [Users -> SUBSET Sigs]
  <2>1. pending \in [Users -> SUBSET Sigs] /\ userRsp \in 0..StackTop
    BY DEF IInv, CoreOK, CoreTypeOK, SigTypeOK
  <2> DEFINE left == pending[t] \ {s \in Deliverable(t) : \A r \in ActedOn(t) : s <= r}
  <2>2. left \in SUBSET Sigs
    BY <2>1
  <2>3. ClearPassed(t) => pending' = [pending EXCEPT ![t] = left]
    BY DEF ClearPassed
  <2> HIDE DEF left
  <2> QED  BY <2>1, <2>2, <2>3
<1>1. CASE UserspaceTrampoline(t)
  <2>1. [rip |-> EntryRip, rsp |-> StackTop] \in Context
    BY DEF Context
  <2>2. CoreOK'
    BY <1>1, <2>1, EnterUserOK DEF UserspaceTrampoline, At
  <2>3. SigTypeOK'
    BY <1>1 DEF UserspaceTrampoline, IInv, SigTypeOK, signals
  <2> QED  BY <2>2, <2>3 DEF IInv
<1>2. CASE ForkReturn(t)
  <2>1. current = t /\ phase[t] = "ForkReturn" /\ EnterUser(t, Frame(t))
    BY <1>2 DEF ForkReturn, At
  <2>2. Frame(t) \in Context
    BY <2>1, FrameOK
  <2>3. CoreOK'
    BY <2>1, <2>2, EnterUserOK
  <2>4. SigTypeOK'
    BY <1>2 DEF ForkReturn, IInv, SigTypeOK, signals
  <2> QED  BY <2>3, <2>4 DEF IInv
<1>3. CASE SysretPlain(t)
  <2>1. /\ current = t /\ phase[t] = "sysret"
        /\ EnterUser(t, [rip |-> Frame(t).rip, rsp |-> userRsp])
    BY <1>3 DEF SysretPlain, At
  <2>2. Frame(t) \in Context
    BY <2>1, FrameOK
  <2>3. [rip |-> Frame(t).rip, rsp |-> userRsp] \in Context
    BY <1>0, <2>2 DEF Context
  <2>4. CoreOK'
    BY <2>1, <2>3, EnterUserOK
  <2>5. SigTypeOK'
    BY <1>0, <1>3 DEF SysretPlain, IInv, SigTypeOK
  <2> QED  BY <2>4, <2>5 DEF IInv
<1>4. CASE SysretKilled(t)
  BY <1>4, ExitOK DEF SysretKilled, SignalKills, At, IInv
<1>5. CASE SysretHandler(t) \/ IretNoRoom(t)
  <2>1. current = t /\ phase[t] \in {"sysret", "iret"} /\ SetupFrameFaults(t)
    BY <1>5 DEF SysretHandler, IretNoRoom, At
  <2>2. CoreOK'
    BY <2>1, GoesOnOK DEF SetupFrameFaults, Hang
  <2>3. SigTypeOK'
    BY <1>0, <2>1 DEF SetupFrameFaults, IInv, SigTypeOK
  <2> QED  BY <2>2, <2>3 DEF IInv
<1>6. CASE IretPlain(t)
  <2>1. current = t /\ phase[t] = "iret" /\ EnterUser(t, Frame(t))
    BY <1>6 DEF IretPlain, At
  <2>2. Frame(t) \in Context
    BY <2>1, FrameOK
  <2>3. CoreOK'
    BY <2>1, <2>2, EnterUserOK
  <2>4. SigTypeOK'
    BY <1>0, <1>6 DEF IretPlain, IInv, SigTypeOK
  <2> QED  BY <2>3, <2>4 DEF IInv
<1>7. CASE IretHandler(t)
  <2> DEFINE c == Frame(t)
             h == [rip |-> HandlerRip, rsp |-> c.rsp - 1]
  <2>1. /\ current = t /\ phase[t] = "iret" /\ c.rsp >= 1 /\ EnterUser(t, h)
        /\ sigframes' = [sigframes EXCEPT ![t][c.rsp - 1] = c]
        /\ ClearPassed(t) /\ UNCHANGED <<blocked, action>>
    BY <1>7 DEF IretHandler, At
  <2>2. c \in Context
    BY <2>1, FrameOK
  <2> HIDE DEF c
  <2>3. c.rsp - 1 \in 0..StackTop
    BY <2>1, <2>2 DEF Context
  <2>4. h \in Context
    BY <2>3 DEF Context
  <2>5. CoreOK'
    BY <2>1, <2>4, EnterUserOK
  <2>6. SigTypeOK'
    BY <1>0, <2>1, <2>2, <2>3 DEF IInv, SigTypeOK
  <2> QED  BY <2>5, <2>6 DEF IInv
<1>8. CASE IretKilled(t)
  BY <1>8, ExitOK DEF IretKilled, SignalKills, At, IInv
<1> QED
  BY <1>1, <1>2, <1>3, <1>4, <1>5, <1>6, <1>7, <1>8 DEF Leave

(* The timer takes the CPU away, from kernel threads too.                  *)
LEMMA TickInv ==
  ASSUME IInv, NEW t \in Threads, TickPreempts(t)
  PROVE  IInv'
<1> DEFINE s == IF t = Idle THEN "Running" ELSE "Ready"
           ph == IF t \in Users THEN "iret" ELSE phase[t]
<1>1. /\ current = t /\ phase[t] \in {"interrupt", "kinterrupt"}
      /\ Schedule(t, s, ph) /\ current' # t
      /\ UNCHANGED <<frames, signals, entry>>
  BY DEF TickPreempts
<1>2. t \in Users => phase[t] = "interrupt"
  BY <1>1, KernelThreads DEF IInv, CoreOK, KernelPhases
<1>3. t \notin Users => phase[t] = "kinterrupt"
  BY <1>1, KernelThreads DEF IInv, CoreOK, KernelPhases
<1>4. ph \in Suspended /\ (t \in Users <=> ph \in {"iret", "slept", "nap"}) /\ ph # "kernel"
  BY <1>2, <1>3 DEF Suspended
<1>5. ~intr
  BY <1>1 DEF IInv, CoreOK, InterruptFlagSound, InInterrupt
<1>6. t \in Users => entry[t] \in Context
  BY <1>2, FrameOK DEF InInterrupt
<1>7. s \in {"Ready", "Blocked"} \/ (t = Idle /\ s = "Running" /\ current' # t)
  BY <1>1
<1> HIDE DEF s, ph
<1>8. CoreOK'
  BY <1>1, <1>4, <1>5, <1>6, <1>7, ScheduleOK
<1>9. SigTypeOK'
  BY <1>1 DEF IInv, SigTypeOK, signals
<1> QED  BY <1>8, <1>9 DEF IInv

(* The invariant is inductive.                                             *)
LEMMA NextInv == IInv /\ [Next]_vars => IInv'
<1> SUFFICES ASSUME IInv, [Next]_vars PROVE IInv'
  OBVIOUS
<1>1. ASSUME NEW t \in Users, NEW c \in Reach[t], SyscallEntry(t, c) PROVE IInv'
  <2>1. c \in Context /\ userRsp' = c.rsp /\ EnterKernel(t, "call", c)
    BY <1>1 DEF SyscallEntry
  <2>2. c.rsp \in 0..StackTop
    BY <2>1 DEF Context
  <2> QED  BY <2>1, <2>2, EnterKernelOK DEF IInv
<1>2. ASSUME NEW t \in Users, NEW c \in Reach[t], InterruptEntry(t, c) PROVE IInv'
  <2>1. c \in Context /\ userRsp' = userRsp /\ EnterKernel(t, "interrupt", c)
    BY <1>2 DEF InterruptEntry
  <2>2. userRsp \in 0..StackTop
    BY DEF IInv, CoreOK, CoreTypeOK
  <2> QED  BY <2>1, <2>2, EnterKernelOK DEF IInv
<1>3. ASSUME NEW t \in Users, Call(t) \/ Leave(t) PROVE IInv'
  BY <1>3, CallInv, LeaveInv
<1>4. ASSUME NEW t \in Users, Handle(t) PROVE IInv'
  <2>1. current = t /\ phase[t] = "interrupt"
    BY <1>4 DEF Handle, HandlerReturns, ExceptionSignal, At
  <2>2. CoreOK'
    BY <1>4, <2>1, GoesOnOK DEF Handle, HandlerReturns, ExceptionSignal, InInterrupt
  <2>3. SigTypeOK'
    <3>1. CASE HandlerReturns(t)
      BY <3>1 DEF HandlerReturns, IInv, SigTypeOK, signals
    <3>2. CASE ExceptionSignal(t)
      BY <3>2 DEF ExceptionSignal, IInv, SigTypeOK
    <3> QED  BY <1>4, <3>1, <3>2 DEF Handle
  <2> QED  BY <2>2, <2>3 DEF IInv
<1>5. ASSUME NEW t \in Threads, TickPreempts(t) PROVE IInv'
  BY <1>5, TickInv
<1>6. ASSUME NEW t \in {Idle, Reaper}, KernelInterrupt(t) PROVE IInv'
  <2>1. /\ current = t /\ intr' = FALSE /\ Goto(t, "kinterrupt")
        /\ UNCHANGED <<gs, kernelGs, regs, percpu, state, krsp, frames, savedIntr, signals, entry>>
    BY <1>6 DEF KernelInterrupt, At
  <2>2. intr' = ("kinterrupt" = "kernel")
    BY <2>1
  <2> QED  BY <2>1, <2>2, KernelStepOK DEF IInv
<1>7. ASSUME NEW t \in {Idle, Reaper}, KernelIret(t) \/ ThreadTrampoline(t) PROVE IInv'
  <2>1. /\ current = t /\ intr' = TRUE /\ Goto(t, "kernel")
        /\ UNCHANGED <<gs, kernelGs, regs, percpu, state, krsp, frames, savedIntr, signals, entry>>
    BY <1>7 DEF KernelIret, ThreadTrampoline, At
  <2>2. intr' = ("kernel" = "kernel")
    BY <2>1
  <2> QED  BY <2>1, <2>2, KernelStepOK DEF IInv
<1>8. CASE ReaperYields
  <2>1. /\ current = Reaper /\ phase[Reaper] = "kernel" /\ Schedule(Reaper, "Ready", "kernel")
        /\ UNCHANGED <<frames, signals, entry>> /\ Reaper \in Threads /\ Reaper \notin Users
    BY <1>8, KernelThreads DEF ReaperYields, At
  <2>2. intr
    BY <2>1 DEF IInv, CoreOK, InterruptFlagSound
  <2>3. CoreOK'
    BY <2>1, <2>2, ScheduleOK DEF Suspended
  <2>4. SigTypeOK'
    BY <2>1 DEF IInv, SigTypeOK, signals
  <2> QED  BY <2>3, <2>4 DEF IInv
<1>9. CASE FaultAgain \/ UNCHANGED vars
  <2>1. /\ UNCHANGED <<gs, kernelGs, intr, regs, current, kernelStack, userRsp>>
        /\ UNCHANGED <<state, phase, krsp, frames, savedIntr, entry>>
        /\ UNCHANGED <<pending, blocked, action, sigframes>>
    BY <1>9 DEF FaultAgain, vars, cpu, percpu, kernel, signals
  <2>2. CoreOK'
    BY <2>1
    DEF IInv, CoreOK, CoreTypeOK, FlagsTypeOK, StackOK, FramesOK, KernelPhases, CurrentRunning,
        OffCpuOK, Resumable, GsSound, InterruptFlagSound
  <2>3. SigTypeOK'
    BY <2>1 DEF IInv, SigTypeOK
  <2> QED  BY <2>2, <2>3 DEF IInv
<1> QED
  BY <1>1, <1>2, <1>3, <1>4, <1>5, <1>6, <1>7, <1>8, <1>9 DEF Next

(* IInv holds of every reachable state.                                    *)
THEOREM Invariance == Spec => []IInv
BY InitInv, NextInv, PTL DEF Spec

(* The type invariant.                                                     *)
THEOREM TypeCorrect == Spec => []TypeOK
<1>1. IInv => TypeOK
  <2> SUFFICES ASSUME IInv PROVE TypeOK
    OBVIOUS
  <2> QED
    BY DEF IInv, CoreOK, CoreTypeOK, FlagsTypeOK, SigTypeOK, StackOK, TypeOK
<1> QED  BY <1>1, Invariance, PTL

(* swapgs is balanced on every path in and out of the kernel, until a      *)
(* program calls arch_prctl(ARCH_SET_GS).                                  *)
THEOREM GsAlwaysSound == Spec => []GsSound
<1>1. IInv => GsSound
  BY DEF IInv, CoreOK
<1> QED  BY <1>1, Invariance, PTL

(* Calls and interrupt handlers run with interrupts masked, user code and  *)
(* kernel threads never do, however the CPU came to them.                  *)
THEOREM InterruptsMaskedRight == Spec => []InterruptFlagSound
<1>1. IInv => InterruptFlagSound
  BY DEF IInv, CoreOK
<1> QED  BY <1>1, Invariance, PTL

----------------------------------------------------------------------------
(* The scheduler and Exit take no thread to user code.                     *)
LEMMA SwitchPhases ==
  /\ \A t, s, ph : Schedule(t, s, ph) => Goto(t, ph)
  /\ \A t : Exit(t) => Goto(t, "unborn")
<1>1. ASSUME NEW t, NEW s, NEW ph, Schedule(t, s, ph) PROVE Goto(t, ph)
  BY <1>1, Zenon DEF Schedule
<1>2. ASSUME NEW t, Exit(t) PROVE Goto(t, "unborn")
  BY <1>2, Zenon DEF Exit
<1> QED  BY <1>1, <1>2, Zenon

(* The only ways to user code, and they take one thread there.             *)
LEMMA WaysToUser ==
  ASSUME IInv, [Next]_vars, NEW t \in Users, EntersUser(t)
  PROVE  \/ UserspaceTrampoline(t) \/ ForkReturn(t)
         \/ SysretPlain(t) \/ IretPlain(t) \/ IretHandler(t)
<1> DEFINE Elsewhere == \E u \in Threads : \E ph : ph # "user" /\ Goto(u, ph)
<1>0. phase \in [Threads -> Phases] /\ t \in Threads /\ Users \subseteq Threads
      /\ {Idle, Reaper} \subseteq Threads
  BY KernelThreads DEF IInv, CoreOK, CoreTypeOK
<1>1. ~Elsewhere
  <2> SUFFICES ASSUME NEW u \in Threads, NEW ph, ph # "user", Goto(u, ph) PROVE FALSE
    OBVIOUS
  <2> QED  BY <1>0 DEF Goto, EntersUser
<1>2. phase' # phase
  BY DEF EntersUser
<1>3. ASSUME NEW u \in Users, NEW c, SyscallEntry(u, c) \/ InterruptEntry(u, c) PROVE Elsewhere
  BY <1>0, <1>3 DEF SyscallEntry, InterruptEntry, EnterKernel
<1>4. ASSUME NEW u \in Users, Call(u) PROVE FALSE
  <2>1. CASE \E child \in Users : SysFork(u, child)
    <3>1. PICK child \in Users : SysFork(u, child)
      BY <2>1
    <3>2. phase' = [phase EXCEPT ![u] = "sysret", ![child] = "ForkReturn"]
      BY <3>1 DEF SysFork
    <3> QED  BY <1>0, <3>2 DEF EntersUser
  <2>2. CASE SysExit(u) \/ CallSleeps(u) \/ SysNanosleep(u)
    <3>1. Goto(u, "unborn") \/ Goto(u, "slept") \/ Goto(u, "nap")
      BY <2>2, SwitchPhases, Zenon DEF SysExit, CallSleeps, SysNanosleep
    <3> QED  BY <1>0, <1>1, <3>1
  <2>3. CASE CallFaults(u) \/ SysArchPrctlGs(u)
    <3>1. Goto(u, "hung") \/ Goto(u, "lost")
      BY <2>3 DEF CallFaults, Hang, SysArchPrctlGs
    <3> QED  BY <1>0, <1>1, <3>1
  <2>4. CASE ~(\/ \E child \in Users : SysFork(u, child)
               \/ SysExit(u) \/ CallSleeps(u) \/ SysNanosleep(u) \/ CallFaults(u)
               \/ SysArchPrctlGs(u))
    <3>1. Goto(u, "sysret")
      BY <1>4, <2>4
      DEF Call, CallReturns, CallWakes, SysExecve, SysSigreturn, SysTkill, SysSigaction,
          SysSigprocmask, SetFrame, Finish
    <3> QED  BY <1>0, <1>1, <3>1
  <2> QED  BY <2>1, <2>2, <2>3, <2>4
<1>5. ASSUME NEW u \in Users, Handle(u) PROVE Elsewhere
  <2>1. Goto(u, "iret")
    BY <1>5 DEF Handle, HandlerReturns, ExceptionSignal
  <2> QED  BY <1>0, <2>1
<1>6. ASSUME NEW u \in Users,
             SysretKilled(u) \/ SysretHandler(u) \/ IretKilled(u) \/ IretNoRoom(u)
      PROVE  Elsewhere
  <2>1. Goto(u, "unborn") \/ Goto(u, "hung")
    BY <1>6, SwitchPhases, Zenon
    DEF SysretKilled, SysretHandler, IretKilled, IretNoRoom, SignalKills, SetupFrameFaults, Hang
  <2> QED  BY <1>0, <2>1
<1>7. ASSUME NEW u \in Threads, TickPreempts(u) PROVE Elsewhere
  <2> DEFINE ph == IF u \in Users THEN "iret" ELSE phase[u]
  <2>1. Goto(u, ph) /\ phase[u] \in {"interrupt", "kinterrupt"}
    BY <1>7, SwitchPhases, Zenon DEF TickPreempts
  <2> QED  BY <2>1
<1>8. ASSUME NEW u \in {Idle, Reaper}, KernelInterrupt(u) \/ KernelIret(u) \/ ThreadTrampoline(u)
      PROVE  Elsewhere
  <2>1. Goto(u, "kinterrupt") \/ Goto(u, "kernel")
    BY <1>8 DEF KernelInterrupt, KernelIret, ThreadTrampoline
  <2> QED  BY <1>0, <2>1
<1>9. ASSUME ReaperYields PROVE Elsewhere
  <2>1. Goto(Reaper, "kernel")
    BY <1>9, SwitchPhases, Zenon DEF ReaperYields
  <2> QED  BY <1>0, <2>1
<1>10. ASSUME FaultAgain \/ UNCHANGED vars PROVE phase' = phase
  BY <1>10 DEF FaultAgain, vars, kernel
<1>11. PICK u \in Users : Leave(u)
  BY <1>1, <1>2, <1>3, <1>4, <1>5, <1>7, <1>8, <1>9, <1>10 DEF Next
<1>12. \/ UserspaceTrampoline(u) \/ ForkReturn(u)
       \/ SysretPlain(u) \/ IretPlain(u) \/ IretHandler(u)
  BY <1>1, <1>6, <1>11 DEF Leave
<1>13. Goto(u, "user")
  BY <1>12 DEF UserspaceTrampoline, ForkReturn, SysretPlain, IretPlain, IretHandler, EnterUser
<1>14. u = t
  BY <1>0, <1>13 DEF Goto, EntersUser
<1> QED  BY <1>12, <1>14

(* The way back from an interrupt through a handler: the context it had is *)
(* in the signal frame that the handler's stack pointer names.             *)
LEMMA HandlerFrame ==
  ASSUME IInv, NEW t \in Users, IretHandler(t)
  PROVE  regs'.rip = HandlerRip /\ sigframes'[t][regs'.rsp] = entry[t]
<1> DEFINE c == Frame(t)
<1>1. /\ phase[t] = "iret" /\ c.rsp >= 1
      /\ EnterUser(t, [rip |-> HandlerRip, rsp |-> c.rsp - 1])
      /\ sigframes' = [sigframes EXCEPT ![t][c.rsp - 1] = c]
  BY DEF IretHandler, At
<1>2. regs' = [rip |-> HandlerRip, rsp |-> c.rsp - 1]
  BY <1>1 DEF EnterUser
<1>3. c = entry[t] /\ c \in Context
  BY <1>1, FrameOK DEF InInterrupt
<1> HIDE DEF c
<1>4. c.rsp - 1 \in 0..StackTop
  BY <1>1, <1>3 DEF Context
<1>5. sigframes \in [Users -> [0..StackTop -> Context \cup {Nothing}]]
  BY DEF IInv, SigTypeOK
<1>6. sigframes'[t][c.rsp - 1] = c
  BY <1>1, <1>4, <1>5
<1> QED  BY <1>2, <1>3, <1>6

(* A thread that an interrupt took off the CPU, or that fork made, gets    *)
(* exactly its own context back, or finds it in the signal frame.          *)
THEOREM OwnContextBack == Spec => InterruptReturnsOwnContext
<1>1. ASSUME IInv, [Next]_vars
      PROVE  [\A t \in Users :
                EntersUser(t) /\ phase[t] \in {"iret", "ForkReturn"} =>
                  \/ regs' = entry[t]
                  \/ /\ regs'.rip = HandlerRip
                     /\ sigframes'[t][regs'.rsp] = entry[t]]_vars
  <2> SUFFICES ASSUME NEW t \in Users, EntersUser(t), phase[t] \in {"iret", "ForkReturn"}
               PROVE  \/ regs' = entry[t]
                      \/ /\ regs'.rip = HandlerRip
                         /\ sigframes'[t][regs'.rsp] = entry[t]
    OBVIOUS
  <2>1. ForkReturn(t) \/ IretPlain(t) \/ IretHandler(t)
    BY <1>1, WaysToUser DEF UserspaceTrampoline, SysretPlain, At
  <2>2. CASE ForkReturn(t) \/ IretPlain(t)
    <3>1. regs' = Frame(t)
      BY <2>2 DEF ForkReturn, IretPlain, EnterUser
    <3> QED  BY <1>1, <3>1, FrameOK DEF InInterrupt
  <2>3. CASE IretHandler(t)
    BY <1>1, <2>3, HandlerFrame
  <2> QED  BY <2>1, <2>2, <2>3
<1> QED  BY <1>1, Invariance, PTL DEF Spec, InterruptReturnsOwnContext

(* A system call returns to its caller's next instruction, to the program  *)
(* that execve loaded, or to where the signal came.                        *)
THEOREM CallsReturnToCaller == Spec => CallReturnsToCaller
<1>1. ASSUME IInv, [Next]_vars
      PROVE  [\A t \in Users :
                EntersUser(t) /\ phase[t] = "sysret" => regs'.rip = entry[t].rip]_vars
  <2> SUFFICES ASSUME NEW t \in Users, EntersUser(t), phase[t] = "sysret"
               PROVE  regs'.rip = entry[t].rip
    OBVIOUS
  <2>1. SysretPlain(t)
    BY <1>1, WaysToUser DEF UserspaceTrampoline, ForkReturn, IretPlain, IretHandler, At
  <2>2. regs' = [rip |-> Frame(t).rip, rsp |-> userRsp]
    BY <2>1 DEF SysretPlain, EnterUser
  <2>3. Frame(t) = entry[t]
    BY <1>1, FrameOK DEF InCall
  <2> QED  BY <2>2, <2>3
<1> QED  BY <1>1, Invariance, PTL DEF Spec, CallReturnsToCaller

(* The loop of DoPendingSignals stops at a signal whenever one is due.     *)
LEMMA DueIsActedOn ==
  ASSUME IInv, NEW t \in Users, NEW s \in Deliverable(t), ~Skipped(t, s)
  PROVE  ActedOn(t) # {}
<1> DEFINE due == {r \in Deliverable(t) : ~Skipped(t, r)}
<1>1. Deliverable(t) \subseteq Nat
  BY DEF Deliverable, IInv, SigTypeOK
<1>2. due \subseteq Nat /\ due # {}
  BY <1>1
<1> HIDE DEF due
<1>3. PICK m \in due : \A n \in due : m <= n
  BY <1>2, LeastElement
<1> USE DEF due
<1>4. m \in Deliverable(t) /\ ~Skipped(t, m)
  BY <1>3
<1>5. \A r \in Deliverable(t) : r < m => Skipped(t, r)
  BY <1>1, <1>3, <1>4
<1> QED  BY <1>4, <1>5 DEF ActedOn

(* No signal that is due is passed over on the way back from an interrupt, *)
(* whatever lower signals are ignored.                                     *)
THEOREM NoSignalPassedOver == Spec => SignalsNotPassedOver
<1>1. ASSUME IInv, [Next]_vars
      PROVE  [\A t \in Users :
                EntersUser(t) /\ phase[t] = "iret"
                  /\ (\E s \in Deliverable(t) : ~Skipped(t, s))
                => regs'.rip = HandlerRip /\ sigframes'[t][regs'.rsp] = entry[t]]_vars
  <2> SUFFICES ASSUME NEW t \in Users, EntersUser(t), phase[t] = "iret",
                      NEW s \in Deliverable(t), ~Skipped(t, s)
               PROVE  regs'.rip = HandlerRip /\ sigframes'[t][regs'.rsp] = entry[t]
    OBVIOUS
  <2>1. IretPlain(t) \/ IretHandler(t)
    BY <1>1, WaysToUser DEF UserspaceTrampoline, ForkReturn, SysretPlain, At
  <2>2. ~IretPlain(t)
    BY <1>1, DueIsActedOn DEF IretPlain
  <2> QED  BY <1>1, <2>1, <2>2, HandlerFrame
<1> QED  BY <1>1, Invariance, PTL DEF Spec, SignalsNotPassedOver
=============================================================================
