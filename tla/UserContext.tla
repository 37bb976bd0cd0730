----------------------------- MODULE UserContext -----------------------------
(***************************************************************************)
(* Entering and leaving the kernel: the SYSCALL and interrupt stubs, the   *)
(* per-CPU data they use, context switches, the trampolines on which new   *)
(* threads start, and signals, which are acted on just before a thread     *)
(* returns to user code.                                                   *)
(*                                                                         *)
(* One CPU; every process has one thread.  A user context is reduced to    *)
(* rip, of which the kernel looks at the two low bits, and rsp.  Stack     *)
(* addresses are counted in units of a signal frame with the return        *)
(* address below it, and name the frame that starts there.  Programs do    *)
(* not rewrite the frames that the kernel leaves on their stacks.  The GS  *)
(* bases are the per-CPU data or an address of the program.  What the      *)
(* kernel does once it has lost its per-CPU data is not followed.  entry   *)
(* is a history variable.                                                  *)
(***************************************************************************)
EXTENDS Integers, FiniteSets

CONSTANTS
    Users,      \* threads that run user code
    First,      \* the one that Spawn has made
    Idle,       \* the idle thread (the flow that booted)
    Reaper,     \* the reaper's kernel thread
    Sigs,       \* signal numbers
    SIGKILL,    \* stands for SIGSTOP too
    SIGEXC,     \* stands for the signals that exceptions send (SIGFPE, SIGILL, SIGSEGV)
    Fatal,      \* signals whose default action ends the process
    Rips,       \* user code addresses
    EntryRip,   \* where a program starts
    HandlerRip, \* where its signal handlers are
    StackTop,   \* stack addresses are 0..StackTop
    Signalled,  \* bound: threads that use signals
    Reach,      \* bound: contexts that the program of a thread gets to
    Nothing     \* no context: a free stack, registers that hold no user code

Threads == Users \cup {Idle, Reaper}
Context == [rip : Rips, rsp : 0..StackTop]

ASSUME UserContextAssumption ==
    /\ First \in Users
    /\ Idle \notin Users /\ Reaper \notin Users /\ Idle # Reaper
    /\ Sigs \subseteq Nat \ {0}
    /\ {SIGKILL, SIGEXC} \subseteq Fatal /\ Fatal \subseteq Sigs
    /\ Rips \subseteq Nat /\ {EntryRip, HandlerRip} \subseteq Rips
    /\ StackTop \in Nat
    /\ Signalled \subseteq Users
    /\ Reach \in [Users -> SUBSET Context]
    /\ Nothing \notin Context

VARIABLES
    gs, kernelGs,   \* the two GS bases that swapgs exchanges
    intr,           \* the interrupt flag
    regs,           \* the registers with which user code goes on
    current,        \* CpuData::current_thread
    kernelStack,    \* CpuData::kernel_stack and TSS rsp0: whose stack
    userRsp,        \* CpuData::user_rsp, gs:24
    state,          \* Thread::m_state
    phase,          \* how far the thread is in the kernel, or in user code
    krsp,           \* the kernel stack the thread's kernel code runs on
    frames,         \* the InterruptFrame at the top of each kernel stack
    savedIntr,      \* interrupt flag kept by InterruptSafeSpinLock
    pending, blocked,   \* Thread::m_pending_signals, m_blocked_signals
    action,         \* Process::m_signal_actions
    sigframes,      \* signal frames on each user stack, by address
    entry           \* history: the context that the thread has to get back

cpu == <<gs, kernelGs, intr, regs>>
percpu == <<current, kernelStack, userRsp>>
kernel == <<state, phase, krsp, frames, savedIntr>>
signals == <<pending, blocked, action, sigframes>>
vars == <<cpu, percpu, kernel, signals, entry>>

New == {"ThreadTrampoline", "UserspaceTrampoline", "ForkReturn"}
InCall == {"call", "slept", "nap", "sysret"}
InInterrupt == {"interrupt", "iret"}
Phases == New \cup InCall \cup InInterrupt
              \cup {"unborn", "user", "kernel", "kinterrupt", "hung", "lost"}

TypeOK ==
    /\ {gs, kernelGs} \subseteq {"percpu", "user"}
    /\ intr \in BOOLEAN
    /\ regs \in Context \cup {Nothing}
    /\ {current, kernelStack} \subseteq Threads
    /\ userRsp \in 0..StackTop
    /\ state \in [Threads -> {"unborn", "Ready", "Running", "Blocked", "Terminated"}]
    /\ phase \in [Threads -> Phases]
    /\ krsp \in [Threads -> Threads]
    /\ frames \in [Threads -> Context \cup {Nothing}]
    /\ savedIntr \in [Threads -> BOOLEAN]
    /\ {pending, blocked} \subseteq [Users -> SUBSET Sigs]
    /\ action \in [Users -> [Sigs -> {"SIG_DFL", "SIG_IGN", "handler"}]]
    /\ sigframes \in [Users -> [0..StackTop -> Context \cup {Nothing}]]
    /\ entry \in [Threads -> Context \cup {Nothing}]

NoFrames == [a \in 0..StackTop |-> Nothing]

(* The boot flow has become the idle thread, the first program has been    *)
(* spawned and the kernel thread created.                                  *)
Init ==
    /\ gs = "percpu" /\ kernelGs = "user"
    /\ intr = TRUE
    /\ regs = Nothing
    /\ current = Idle /\ kernelStack = Idle
    /\ userRsp = 0
    /\ state = [t \in Threads |-> IF t = Idle THEN "Running"
                                  ELSE IF t \in {First, Reaper} THEN "Ready" ELSE "unborn"]
    /\ phase = [t \in Threads |-> IF t = Idle THEN "kernel"
                                  ELSE IF t = Reaper THEN "ThreadTrampoline"
                                  ELSE IF t = First THEN "UserspaceTrampoline" ELSE "unborn"]
    /\ krsp = [t \in Threads |-> t]
    /\ frames = [t \in Threads |-> Nothing]
    /\ savedIntr = [t \in Threads |-> FALSE]
    /\ pending = [t \in Users |-> {}]
    /\ blocked = [t \in Users |-> {}]
    /\ action = [t \in Users |-> [s \in Sigs |-> "SIG_DFL"]]
    /\ sigframes = [t \in Users |-> NoFrames]
    /\ entry = [t \in Threads |-> Nothing]

----------------------------------------------------------------------------
(* Machine and stubs.                                                      *)

Swapgs == gs' = kernelGs /\ kernelGs' = gs

At(t, ph) == current = t /\ phase[t] = ph
Goto(t, ph) == phase' = [phase EXCEPT ![t] = ph]

(* Thread t leaves user code, which has got to context c by then.  The CPU *)
(* masks interrupts and takes the stack from the TSS, or the stub takes it *)
(* from gs:16; the stub pushes the user context.                           *)
EnterKernel(t, ph, c) ==
    /\ At(t, "user")
    /\ Swapgs
    /\ intr' = FALSE
    /\ frames' = [frames EXCEPT ![kernelStack] = c]
    /\ krsp' = [krsp EXCEPT ![t] = kernelStack]
    /\ entry' = [entry EXCEPT ![t] = c]
    /\ regs' = Nothing
    /\ Goto(t, ph)
    /\ UNCHANGED <<current, kernelStack, state, savedIntr, signals>>

SyscallEntry(t, c) ==
    /\ EnterKernel(t, "call", c)
    /\ userRsp' = c.rsp

(* A device interrupt or an exception in user code.                        *)
InterruptEntry(t, c) ==
    /\ intr
    /\ EnterKernel(t, "interrupt", c)
    /\ UNCHANGED userRsp

(* An interrupt of a kernel thread: no swapgs, and no change of stack.     *)
KernelInterrupt(t) ==
    /\ At(t, "kernel")
    /\ intr
    /\ intr' = FALSE
    /\ Goto(t, "kinterrupt")
    /\ UNCHANGED <<gs, kernelGs, regs, percpu, state, krsp, frames, savedIntr, signals, entry>>

(* The end of the stubs: thread t goes on in user code with context c, its *)
(* kernel stack empty.                                                     *)
EnterUser(t, c) ==
    /\ Swapgs
    /\ intr' = TRUE
    /\ regs' = c
    /\ frames' = [frames EXCEPT ![krsp[t]] = Nothing]
    /\ entry' = [entry EXCEPT ![t] = Nothing]
    /\ Goto(t, "user")
    /\ UNCHANGED <<percpu, state, krsp, savedIntr>>

Frame(t) == frames[krsp[t]]

ThreadTrampoline(t) ==
    /\ At(t, "ThreadTrampoline")
    /\ intr' = TRUE
    /\ Goto(t, "kernel")
    /\ UNCHANGED <<gs, kernelGs, regs, percpu, state, krsp, frames, savedIntr, signals, entry>>

UserspaceTrampoline(t) ==
    /\ At(t, "UserspaceTrampoline")
    /\ EnterUser(t, [rip |-> EntryRip, rsp |-> StackTop])
    /\ UNCHANGED signals

(* Faulty: the fork child keeps the kernel's GS base.                      *)
ForkReturnNoSwap(t) ==
    /\ At(t, "ForkReturn")
    /\ intr' = TRUE
    /\ regs' = Frame(t)
    /\ frames' = [frames EXCEPT ![krsp[t]] = Nothing]
    /\ entry' = [entry EXCEPT ![t] = Nothing]
    /\ Goto(t, "user")
    /\ UNCHANGED <<gs, kernelGs, percpu, state, krsp, savedIntr, signals>>

ForkReturn(t) ==
    /\ At(t, "ForkReturn")
    /\ EnterUser(t, Frame(t))
    /\ UNCHANGED signals

----------------------------------------------------------------------------
(* The scheduler, as far as the CPU sees it.                               *)

(* PerformSwitch: thread n gets the CPU, and its kernel stack is the one   *)
(* for the next entry.                                                     *)
PerformSwitch(t, n) ==
    /\ current' = n
    /\ kernelStack' = n
    /\ UNCHANGED userRsp

(* Faulty: SwitchContext goes on with the flag of the thread that left.    *)
ResumedIntrOfPrev(t, n) == intr

(* The interrupt flag after the switch.  A thread resumed inside the       *)
(* scheduler leaves its InterruptSafeSpinLock, which puts back the flag it *)
(* found; one that starts finds interrupts masked by the lock of the       *)
(* thread that left.                                                       *)
ResumedIntr(t, n) == IF phase[n] \in New THEN FALSE ELSE savedIntr[n]

(* Yield, Block, or a tick at the end of a quantum: t becomes s, goes on   *)
(* at ph when it is resumed, and the scheduler takes the CPU to a ready    *)
(* thread, or to the idle thread when there is none.                       *)
Schedule(t, s, ph) ==
    LET st == [state EXCEPT ![t] = s]
        ready == {n \in Threads : st[n] = "Ready"}
    IN  \E n \in IF ready = {} THEN {Idle} ELSE ready :
          /\ state' = [st EXCEPT ![n] = "Running"]
          /\ Goto(t, ph)
          /\ savedIntr' = [savedIntr EXCEPT ![t] = intr]
          /\ IF n = t
             THEN UNCHANGED <<percpu, intr>>
             ELSE PerformSwitch(t, n) /\ intr' = ResumedIntr(t, n)
          /\ UNCHANGED <<gs, kernelGs, regs, krsp>>

(* The reaper gives up the CPU after each look at its list.                *)
ReaperYields ==
    /\ At(Reaper, "kernel")
    /\ Schedule(Reaper, "Ready", "kernel")
    /\ UNCHANGED <<frames, signals, entry>>

(* Tick and the other interrupt handlers; the reaper is preempted too.      *)
TickPreempts(t) ==
    /\ current = t
    /\ phase[t] \in {"interrupt", "kinterrupt"}
    /\ Schedule(t, IF t = Idle THEN "Running" ELSE "Ready",
                IF t \in Users THEN "iret" ELSE phase[t])
    /\ current' # t
    /\ UNCHANGED <<frames, signals, entry>>

HandlerReturns(t) ==
    /\ At(t, "interrupt")
    /\ Goto(t, "iret")
    /\ UNCHANGED <<cpu, percpu, state, krsp, frames, savedIntr, signals, entry>>

(* An exception, or a page fault that HandleFault does not resolve.        *)
ExceptionSignal(t) ==
    /\ At(t, "interrupt") /\ t \in Signalled
    /\ Goto(t, "iret")
    /\ pending' = [pending EXCEPT ![t] = @ \cup {SIGEXC}]
    /\ UNCHANGED <<cpu, percpu, state, krsp, frames, savedIntr, blocked, action, sigframes, entry>>

KernelIret(t) ==
    /\ At(t, "kinterrupt")
    /\ intr' = TRUE
    /\ Goto(t, "kernel")
    /\ UNCHANGED <<gs, kernelGs, regs, percpu, state, krsp, frames, savedIntr, signals, entry>>

----------------------------------------------------------------------------
(* System calls.                                                           *)

(* The call of t ends and leaves all but signals alone.                    *)
Finish(t) ==
    /\ Goto(t, "sysret")
    /\ UNCHANGED <<cpu, percpu, krsp, savedIntr>>

Untouched == UNCHANGED <<state, frames, entry>>

CallReturns(t) ==
    /\ current = t /\ phase[t] \in {"call", "slept", "nap"}
    /\ Finish(t) /\ Untouched /\ UNCHANGED signals

(* A call that wakes a thread.                                             *)
CallWakes(t, u) ==
    /\ At(t, "call") /\ state[u] = "Blocked"
    /\ state' = [state EXCEPT ![u] = "Ready"]
    /\ Finish(t) /\ UNCHANGED <<frames, entry, signals>>

(* A call that sleeps, once or again.                                      *)
CallSleeps(t) ==
    /\ current = t /\ phase[t] \in {"call", "slept"}
    /\ Schedule(t, "Blocked", "slept")
    /\ UNCHANGED <<frames, signals, entry>>

(* nanosleep gives up the CPU until its time has come.                     *)
SysNanosleep(t) ==
    /\ current = t /\ phase[t] \in {"call", "nap"}
    /\ Schedule(t, "Ready", "nap")
    /\ UNCHANGED <<frames, signals, entry>>

(* The kernel touches user memory that is not there: the page fault sends  *)
(* SIGSEGV and the same instruction runs again, with interrupts masked.    *)
Hang(t) ==
    /\ Goto(t, "hung")
    /\ UNCHANGED <<cpu, percpu, state, krsp, frames, savedIntr, entry>>

CallFaults(t) ==
    /\ current = t /\ phase[t] \in {"call", "slept"}
    /\ Hang(t)
    /\ pending' = [pending EXCEPT ![t] = @ \cup {SIGEXC}]
    /\ UNCHANGED <<blocked, action, sigframes>>

(* arch_prctl(ARCH_SET_GS) writes the base that is active, which inside a  *)
(* call is the kernel's.  From here on the kernel takes its current thread *)
(* and stacks from an address of the program, the check for signals on the *)
(* way out first: anything may follow.                                     *)
SysArchPrctlGs(t) ==
    /\ At(t, "call")
    /\ gs' = "user"
    /\ Goto(t, "lost")
    /\ UNCHANGED <<kernelGs, intr, regs, percpu, state, krsp, frames, savedIntr, signals, entry>>

(* The end of what is modelled: a kernel that hangs, or has lost its data. *)
Stopped == phase[current] \in {"hung", "lost"}
FaultAgain == Stopped /\ UNCHANGED vars

(* Exit, then Yield by a thread that is not put back in a run queue.  The  *)
(* parent may be woken.  What the process knew of signals goes with it.    *)
Exit(t) ==
    \E W \in {{}} \cup {{u} : u \in {v \in Users : state[v] = "Blocked"}} :
      LET ready == {n \in Threads : state[n] = "Ready"} \cup W
      IN  \E next \in IF ready = {} THEN {Idle} ELSE ready :
            /\ state' = [u \in Threads |-> IF u = next THEN "Running"
                                           ELSE IF u = t THEN "Terminated"
                                           ELSE IF u \in W THEN "Ready" ELSE state[u]]
            /\ Goto(t, "unborn")
            /\ PerformSwitch(t, next)
            /\ intr' = ResumedIntr(t, next)
            /\ frames' = [frames EXCEPT ![krsp[t]] = Nothing]
            /\ entry' = [entry EXCEPT ![t] = Nothing]
            /\ pending' = [pending EXCEPT ![t] = {}]
            /\ blocked' = [blocked EXCEPT ![t] = {}]
            /\ action' = [action EXCEPT ![t] = [s \in Sigs |-> "SIG_DFL"]]
            /\ sigframes' = [sigframes EXCEPT ![t] = NoFrames]
            /\ UNCHANGED <<gs, kernelGs, regs, krsp, savedIntr>>

SysExit(t) == At(t, "call") /\ Exit(t)

SysFork(t, child) ==
    /\ At(t, "call") /\ state[child] = "unborn"
    /\ state' = [state EXCEPT ![child] = "Ready"]
    /\ phase' = [phase EXCEPT ![t] = "sysret", ![child] = "ForkReturn"]
    /\ frames' = [frames EXCEPT ![child] = Frame(t)]
    /\ entry' = [entry EXCEPT ![child] = entry[t]]
    /\ action' = [action EXCEPT ![child] = action[t]]
    /\ sigframes' = [sigframes EXCEPT ![child] = sigframes[t]]
    /\ UNCHANGED <<cpu, percpu, krsp, savedIntr, pending, blocked>>

(* Faulty: the registers kept elsewhere change, not the frame on the stack. *)
SetFrameElsewhere(t, c) ==
    /\ entry' = [entry EXCEPT ![t] = c]
    /\ Finish(t) /\ UNCHANGED <<state, frames>>

(* The rest of the call works on the frame: regs->rip and regs->rsp.       *)
SetFrame(t, c) ==
    /\ frames' = [frames EXCEPT ![krsp[t]] = c]
    /\ entry' = [entry EXCEPT ![t] = c]
    /\ Finish(t) /\ UNCHANGED state

(* execve, once the program is loaded: a new stack, the same signal        *)
(* actions.                                                                *)
SysExecve(t) ==
    /\ At(t, "call")
    /\ SetFrame(t, [rip |-> EntryRip, rsp |-> StackTop])
    /\ sigframes' = [sigframes EXCEPT ![t] = NoFrames]
    /\ UNCHANGED <<pending, blocked, action>>

SysTkill(t, s) ==
    /\ At(t, "call")
    /\ pending' = [pending EXCEPT ![t] = @ \cup {s}]
    /\ Finish(t) /\ Untouched /\ UNCHANGED <<blocked, action, sigframes>>

SysSigaction(t, s, a) ==
    /\ At(t, "call") /\ s # SIGKILL
    /\ action' = [action EXCEPT ![t][s] = a]
    /\ Finish(t) /\ Untouched /\ UNCHANGED <<pending, blocked, sigframes>>

SysSigprocmask(t, how, S) ==
    /\ At(t, "call")
    /\ blocked' = [blocked EXCEPT ![t] = CASE how = "SIG_BLOCK" -> @ \cup (S \ {SIGKILL})
                                           [] how = "SIG_UNBLOCK" -> @ \ S
                                           [] how = "SIG_SETMASK" -> S \ {SIGKILL}]
    /\ Finish(t) /\ Untouched /\ UNCHANGED <<pending, action, sigframes>>

(* rt_sigreturn: the frame is where gs:24 points, and the mask in it is    *)
(* the empty one that SetupFrame left there.                               *)
SysSigreturn(t) ==
    /\ At(t, "call") /\ sigframes[t][userRsp] # Nothing
    /\ SetFrame(t, sigframes[t][userRsp])
    /\ blocked' = [blocked EXCEPT ![t] = {}]
    /\ sigframes' = [sigframes EXCEPT ![t][userRsp] = Nothing]
    /\ UNCHANGED <<pending, action>>

----------------------------------------------------------------------------
(* DoPendingSignals.                                                       *)

Deliverable(t) == pending[t] \ blocked[t]

Skipped(t, s) ==
    action[t][s] = "SIG_IGN" \/ (action[t][s] = "SIG_DFL" /\ s \notin Fatal)

(* Faulty: the loop gives up at a signal that is ignored.                  *)
ActedOnFirst(t) ==
    {s \in Deliverable(t) : ~Skipped(t, s) /\ \A r \in Deliverable(t) : s <= r}

(* The signal the loop stops at, if there is one: the lowest that is not   *)
(* skipped.                                                                *)
ActedOn(t) ==
    {s \in Deliverable(t) : ~Skipped(t, s) /\ \A r \in Deliverable(t) : r < s => Skipped(t, r)}

(* The loop has cleared the bits it passed.                                *)
ClearPassed(t) ==
    pending' = [pending EXCEPT ![t] =
                    @ \ {s \in Deliverable(t) : \A r \in ActedOn(t) : s <= r}]

SignalKills(t) ==
    /\ \E s \in ActedOn(t) : action[t][s] = "SIG_DFL"
    /\ Exit(t)

Handled(t) == \E s \in ActedOn(t) : action[t][s] = "handler"

(* SetupFrame with no room below rsp.                                      *)
SetupFrameFaults(t) ==
    /\ Handled(t)
    /\ Hang(t)
    /\ pending' = [pending EXCEPT ![t] =
                     (@ \ {s \in Deliverable(t) : \A r \in ActedOn(t) : s <= r}) \cup {SIGEXC}]
    /\ UNCHANGED <<blocked, action, sigframes>>

(* Faulty: signals are looked at on the way out of system calls only.      *)
IretPlainUnchecked(t) ==
    /\ At(t, "iret")
    /\ EnterUser(t, Frame(t))
    /\ UNCHANGED signals

(* The return from an interrupt.                                           *)
IretPlain(t) ==
    /\ At(t, "iret")
    /\ ActedOn(t) = {}
    /\ EnterUser(t, Frame(t))
    /\ ClearPassed(t)
    /\ UNCHANGED <<blocked, action, sigframes>>

(* Faulty: the saved context is the one of the handler.                    *)
IretHandlerSavesLate(t) ==
    LET c == Frame(t)
        h == [rip |-> HandlerRip, rsp |-> c.rsp - 1]
    IN  /\ At(t, "iret") /\ Handled(t) /\ c.rsp >= 1
        /\ sigframes' = [sigframes EXCEPT ![t][c.rsp - 1] = h]
        /\ EnterUser(t, h)
        /\ ClearPassed(t)
        /\ UNCHANGED <<blocked, action>>

(* SetupFrame: the context is saved in a signal frame, and the thread goes *)
(* on in the handler, whose return address is below the frame.             *)
IretHandler(t) ==
    LET c == Frame(t)
    IN  /\ At(t, "iret") /\ Handled(t) /\ c.rsp >= 1
        /\ sigframes' = [sigframes EXCEPT ![t][c.rsp - 1] = c]
        /\ EnterUser(t, [rip |-> HandlerRip, rsp |-> c.rsp - 1])
        /\ ClearPassed(t)
        /\ UNCHANGED <<blocked, action>>

IretKilled(t) == At(t, "iret") /\ SignalKills(t)
IretNoRoom(t) == At(t, "iret") /\ Frame(t).rsp < 1 /\ SetupFrameFaults(t)

(* The return from a system call.  SignalCheckPending is given a frame     *)
(* that starts one word too low: its cs is the rip of the caller, so a     *)
(* caller whose two low bits are clear is taken for kernel code.           *)
SignalsChecked(t) == Frame(t).rip % 4 # 0

(* rip comes from the frame, rsp from gs:24.                               *)
SysretPlain(t) ==
    /\ At(t, "sysret")
    /\ SignalsChecked(t) => ActedOn(t) = {}
    /\ EnterUser(t, [rip |-> Frame(t).rip, rsp |-> userRsp])
    /\ IF SignalsChecked(t) THEN ClearPassed(t) ELSE UNCHANGED pending
    /\ UNCHANGED <<blocked, action, sigframes>>

SysretKilled(t) == At(t, "sysret") /\ SignalsChecked(t) /\ SignalKills(t)

(* SetupFrame takes the flags for the stack pointer and writes to the      *)
(* first page, which is not mapped.                                        *)
SysretHandler(t) == At(t, "sysret") /\ SignalsChecked(t) /\ SetupFrameFaults(t)

----------------------------------------------------------------------------
Call(t) ==
    \/ CallReturns(t)
    \/ CallSleeps(t)
    \/ SysNanosleep(t)
    \/ CallFaults(t)
    \/ SysArchPrctlGs(t)
    \/ SysExit(t)
    \/ SysExecve(t)
    \/ SysSigreturn(t)
    \/ \E u \in Users : CallWakes(t, u)
    \/ \E child \in Users : SysFork(t, child)
    \/ /\ t \in Signalled
       /\ \/ \E s \in Sigs : SysTkill(t, s)
          \/ \E s \in Sigs, a \in {"SIG_DFL", "SIG_IGN", "handler"} : SysSigaction(t, s, a)
          \/ \E S \in SUBSET Sigs, how \in {"SIG_BLOCK", "SIG_UNBLOCK", "SIG_SETMASK"} :
               SysSigprocmask(t, how, S)

Leave(t) ==
    \/ UserspaceTrampoline(t) \/ ForkReturn(t)
    \/ SysretPlain(t) \/ SysretKilled(t) \/ SysretHandler(t)
    \/ IretPlain(t) \/ IretHandler(t) \/ IretKilled(t) \/ IretNoRoom(t)

Handle(t) == HandlerReturns(t) \/ ExceptionSignal(t)

Next ==
    \/ \E t \in Users : \E c \in Reach[t] : SyscallEntry(t, c) \/ InterruptEntry(t, c)
    \/ \E t \in Users : Call(t) \/ Handle(t) \/ Leave(t)
    \/ \E t \in Threads : TickPreempts(t)
    \/ \E t \in {Idle, Reaper} : KernelInterrupt(t) \/ KernelIret(t) \/ ThreadTrampoline(t)
    \/ ReaperYields
    \/ FaultAgain

Spec == Init /\ [][Next]_vars

(* The CPU does not stop.  The timer fires again and again, and an         *)
(* interrupt that comes while interrupts are masked is taken as soon as    *)
(* they are not, so user code that is always let back in is interrupted.   *)
(* A thread that is ready is dispatched: Scheduler's QueuedThreadRuns.     *)
Dispatched(t) ==
    /\ ReaperYields \/ \E u \in Threads : TickPreempts(u)
    /\ current' = t

FairSpec ==
    /\ Spec
    /\ WF_vars(Next)
    /\ SF_vars(\E t \in Users : \E c \in Reach[t] : InterruptEntry(t, c))
    /\ \A t \in Users : SF_vars(Dispatched(t))

----------------------------------------------------------------------------
(* swapgs is never one too many or too few: kernel code runs with GS on    *)
(* the per-CPU data, user code with its own and the per-CPU data behind it,*)
(* for as long as no program has called arch_prctl(ARCH_SET_GS).           *)
GsSound ==
    \/ phase[current] = "lost"
    \/ IF phase[current] = "user" THEN gs = "user" /\ kernelGs = "percpu"
       ELSE gs = "percpu" /\ kernelGs = "user"

(* "GS_BASE is for kernel use": whatever programs call, kernel code finds  *)
(* the per-CPU data behind GS.                                             *)
KernelHasPerCpu == phase[current] # "user" => gs = "percpu"

(* Interrupts are masked in system calls and interrupt handlers, whichever *)
(* thread was switched away from to get there (so a call is atomic up to   *)
(* its next sleep), and never left masked in user code or a kernel thread. *)
InterruptFlagSound ==
    /\ phase[current] \in {"user", "kernel"} => intr
    /\ phase[current] \in InCall \cup InInterrupt \cup {"kinterrupt"} => ~intr

EntersUser(t) == phase[t] # "user" /\ phase'[t] = "user"

(* A thread that an interrupt took off the CPU, or that fork made, goes on *)
(* with exactly the context it had, however many threads ran in between;   *)
(* or in its handler, with that context in the signal frame.               *)
InterruptReturnsOwnContext ==
    [][\A t \in Users :
        EntersUser(t) /\ phase[t] \in {"iret", "ForkReturn"} =>
            \/ regs' = entry[t]
            \/ /\ regs'.rip = HandlerRip
               /\ sigframes'[t][regs'.rsp] = entry[t]]_vars

(* A system call returns to the instruction after it, to the program that  *)
(* execve loaded, or to where the signal came, also when it has slept.     *)
CallReturnsToCaller ==
    [][\A t \in Users :
        EntersUser(t) /\ phase[t] = "sysret" => regs'.rip = entry[t].rip]_vars

(* A signal that is due is never passed over: a thread that an interrupt   *)
(* lets back into user code with one that is neither blocked nor ignored   *)
(* goes to a handler, also when lower signals are ignored.                 *)
SignalsNotPassedOver ==
    [][\A t \in Users :
        EntersUser(t) /\ phase[t] = "iret"
          /\ (\E s \in Deliverable(t) : ~Skipped(t, s))
        => regs'.rip = HandlerRip /\ sigframes'[t][regs'.rsp] = entry[t]]_vars

(* A signal that is due, and the lowest, is acted on, even if every call   *)
(* of the program returns without looking at it.  (A thread asleep in a    *)
(* call is not woken for it, and a kernel that hangs, or has lost its      *)
(* per-CPU data to arch_prctl, does nothing that can be relied on.)        *)
Due(t, s) == s \in Deliverable(t) /\ \A r \in Deliverable(t) : s <= r

LowestSignalActedOn ==
    \A t \in Signalled, s \in Sigs :
        Due(t, s) ~> \/ ~Due(t, s)
                     \/ state[t] = "Blocked" \/ phase[t] = "nap" \/ Stopped

(* sysret gives the thread back its stack: after a call that slept, after  *)
(* execve and after sigreturn.                                             *)
SysretRestoresUserRsp ==
    [][\A t \in Users :
        EntersUser(t) /\ phase[t] = "sysret" => regs'.rsp = entry[t].rsp]_vars
=============================================================================
