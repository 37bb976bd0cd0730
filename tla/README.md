# A TLA+ verification of the ceryx kernel

ceryx is a small x86_64 kernel for one CPU, written in C++ on top of FoundationKit
(an external library: intrusive lists, locks, smart pointers, memory management; its
source is not in this repository). This directory holds TLA+ modules for the parts
that carry the kernel's own logic, the TLC instances that check them, and TLAPS
proofs of nearly all the safety properties they check. Nothing of FoundationKit is verified: where the
kernel calls it, the models contain what those calls must do for the kernel to work,
and let them fail where they can fail.

## 1. Inventory

| Part | State | Operations | Hard behaviour | What makes it correct |
|---|---|---|---|---|
| Scheduler (`proc/Scheduler.cpp`) | three run queues, wait queue, current thread, tick counter; state, level, quantum, wait channel per thread | Tick, Yield, Block, Wake, AddThread | preemption at any user instruction; boost moving list nodes; starvation | every list agrees with the thread states; nobody starves or is lost |
| Reaper (`proc/Reaper.cpp`) | dead list, local list | Enqueue, loop of the reaper thread | preempted in its loop while others exit | frees exactly the dead threads, never one in use |
| Process tree (`proc/Process.cpp`, `waitpid`, `clone`) | PID bitmap, parent and children, zombie state | fork, exit, waitpid, reap, clone | child pointer held across a sleep; reuse of PIDs and addresses; orphans; several threads | no lost wake-up, no PID leaked or doubled, reaping only one's own zombies |
| Descriptor tables (`Process::AllocateFd` ..., `fs/FileDescription.hpp`) | slots, shared reference-counted descriptions | open, close, dup, dup2, F_DUPFD, copy at fork, release at exit | an end of a pipe closes when the last of many references goes, perhaps at the return of another thread's call | an end is open as long as somebody can use it |
| Pipe (`fs/pipe/`) | ring buffer, counts of readers and writers, two condition variables | Read, Write, Open, Close | partial writes, several sleepers woken at once, closing under sleepers | bytes in order and once; end of file and broken pipe are reported when, and only when, they are due |
| Call and interrupt entry, context switch (`cpu/*.asm`, `cpu/Idt.cpp`, `proc/Switch.asm`) | GS bases, interrupt flag, per-CPU stack pointers, saved frames | entry, return, switch, three trampolines for new threads | a thread enters one way and another leaves another way; per-CPU scratch across a sleep; frame layout | every thread returns with its own registers; GS and interrupt flag always right |
| Signals (`proc/Signal.cpp`) | pending and blocked sets, actions, frames on user stacks | tkill, sigaction, sigprocmask, delivery, sigreturn, fatal signals | delivery after a switch, several signals at once, a fault while delivering | a due signal is acted on, the interrupted context is kept |
| RamFs, Vfs, PseudoFs and the file calls (`fs/`) | tree of vnodes, pages of files, descriptions with offsets | open, read, write, lseek, dup, getdents64, stat, close | page boundaries, memory running out half way, shared offsets, truncation, creation while listing | a read returns what was written; no page lost or shared; each entry listed once |
| ELF loader, address spaces, brk and mmap (`proc/ElfLoader.hpp`, `mm/UserAddressSpace.cpp`) | page table roots, mappings, heap bounds, CR3 | spawn, fork, execve, exit, reap, brk, mmap, munmap | failure at each step while the CPU is in a half-made address space | CR3 is never a freed table; failures undo everything; the heap is mapped |
| CPIO loader (`fs/CpioLoader.hpp`) | position in the archive | Populate | alignment, repeated paths, memory running out | the tree is what the archive lists |
| Console (`lib/linearfb.cpp`) | cursor, glyph cells | putc, scroll | no lock: the reaper prints with interrupts enabled | cursor stays on the screen; the screen shows the end of the output |
| Compiler runtime (`lib/compiler_rt.cpp`) | - | 128-bit division, remainder, product | borders of the fast paths | C's arithmetic, no divide fault |
| GDT, IDT, APIC and memory set-up, boot | hardware | straight-line initialisation | - | - |

Interaction: system calls call into Process, Pipe and Scheduler directly; Process
and Pipe sleep and wake through `Scheduler::Block` and `Wake` (Pipe via the
condition variables of FoundationKit and `lib/osl_stub.cpp`); `exit` hands threads
to the reaper; the timer interrupt calls `Scheduler::Tick`; spawn, fork and execve
call the address spaces and the ELF loader; the file calls go through descriptions to
the vnode operations of RamFs, PseudoFs or Pipe; boot fills RamFs from the archive.

**Atomicity.** `SYSCALL` masks interrupts (`SFMASK`, `SyscallDispatch.cpp:48-49`), all
interrupt vectors are interrupt gates, and there is one CPU. A system call or an
interrupt therefore runs without interference until it calls the scheduler, and
continues, again without interference, when its thread is next chosen. Hence one
action per call, and a second one for what follows a sleep. User code, the idle
loop and the reaper's loop run with interrupts enabled and may be preempted between
any two of their steps. `s_lock`, `m_lock` and the reaper's lock add nothing to this
on one CPU, as far as mutual exclusion is concerned. That interrupts really are masked
in every call and handler, whichever thread was switched away from to get there, is not
assumed only: `UserContext` has the flag as a variable, and `InterruptFlagSound` is
checked.

## 2. Modules

| Module | Models |
|---|---|
| `Lists` | FoundationKit's intrusive list as the kernel uses it (external) |
| `Scheduler` | feedback queue, sleeping and waking, reaper |
| `AbstractScheduler` | what the rest of the kernel relies on: runnable, blocked, dead; somebody runnable runs |
| `SchedulerRefinement` | the mapping that shows `Scheduler` implements `AbstractScheduler` |
| `Process` | process tree, PIDs, fork, clone, exit, waitpid, over `AbstractScheduler` |
| `FdTable` | operators of a descriptor table |
| `Pipe` | a pipe, the descriptor tables that hold its ends, the calls on it; over `FdTable` |
| `ByteStream` | what a pipe promises |
| `ListProofs`, `SchedulerProofs`, `ProcessProofs`, `PipeProofs`, `UserContextProofs`, `AddressSpacesProofs`, `FileSystemProofs`, `LibraryProofs` | lemmas on lists; the theorems on the module of that name, and on `Console`, `CompilerRt` and `CpioLoader` (section 4) |
| `UserContext` | entry and exit of the kernel, per-CPU data, switches as the CPU sees them, trampolines, signals |
| `RamFs` | vnodes, RamFs, PseudoFs and the path walk, as operators on a record |
| `FileSystem` | the file calls, over `RamFs` and `FdTable` |
| `ByteFile` | what files and open descriptions promise |
| `ElfLoader` | which pages an executable occupies, as operators |
| `AddressSpaces` | spawn, fork, execve, exit, waitpid, brk, mmap and munmap step by step, over `ElfLoader` |
| `CpioLoader` | loading the boot archive, over `RamFs` |
| `CompilerRt`, `Console` | the arithmetic runtime; the text console |
| `MC*` | instances for TLC |

`PROJECT.json` maps every definition to the lines it models. Definitions with a
comment "Faulty" are not used by any specification; they are variants of the
definition after them, used to see that a property notices such a mistake.

### Scheduler

`queues[l]` is `MlfqImpl::queues[l]`, `waitq` is `g_wait_queue`, `deadList` and
`localDead` are the reaper's lists; the run queues and both dead lists link the same
`run_node`. `Tick` is split as in the code: boost if due, then idle (reschedule),
charge one tick, or expire (demote, re-enqueue, reschedule). `ScheduleLocked`
reproduces that nothing is done, not even setting the state, when the thread picked
is the one running. `Exit` is the sequence that `exit`, `exit_group` and fatal
signals share: `Process::Exit` wakes one waiter, the thread is marked Terminated,
enqueued at the reaper, and yields. The tick counter is kept modulo
`kBoostInterval`, the only way it is used. `Init` is the state when boot enables
interrupts: idle runs, the reaper and init's thread are queued.

Wake is called by system calls only, so its guard, like that of Block and Exit, is
that a user thread is current. Any thread may sleep on any channel.

### Process

A process is named by its address, which may be used again after `delete`; `parent`
and `owner` are raw pointers and may dangle. `Calls` says who may make a system
call: the current thread, outside waitpid, whose process exists; what a thread does
with a deleted process is outside the model, and `LiveThreadsOwnLiveProcess` says
when that cannot happen. `Waitpid` is the part before `Block`, `WaitResume` the part
after it, with the child pointer of before. Calls that fail without effect (EAGAIN,
ECHILD, WNOHANG with a running child) are stuttering steps. `Spec` has one thread per
process; `CloneSpec` adds `clone` with `CLONE_VM`. Sleeping on pipes is left to
`Pipe`: here such a thread is a runnable one that is not chosen.

### Pipe

The two descriptions that `pipe()` creates are `"r"` and `"w"`. References are held by
table slots and by calls under way (`end[t]`); when a step drops the last one,
`FileDescription::Destroy` closes the end, the count of readers or writers goes
down, and at zero the other side is notified, all in that step (`Settle`). `Read` and
`Write` start at the test of their loops, so the same operators serve a new call and
one that was woken. As in the code, no call checks the direction of the description,
and a write that finds room after being woken does not look at the readers again.
Which thread runs is left open, as in `AbstractScheduler`. A byte is written as
<<t, k>>, the k-th byte of thread t, so that order, loss and duplication show.

### UserContext

A thread's `phase` says where it is: in user code, in one of the three trampolines, in
a call (before, asleep in, napping in, or leaving it), in an interrupt handler, hung, or
lost. `frames[t]` is the `InterruptFrame` at the top of the kernel stack of t;
`kernelStack` stands for both `gs:16` and the `rsp0` of the TSS, which `PerformSwitch`
sets together. A user context is rip and rsp: the properties tell apart whose context
is restored, and of which part. Rips are small numbers because the kernel looks at
their two low bits: the frame that `SignalCheckPending` gets on the way out of a call
starts one word too low (`Syscall.asm:53-56`), so what it takes for `cs` is the caller's
rip, and what it takes for `rsp` is the flags. Hence `SignalsChecked` and
`SysretHandler`, whose write goes to an unmapped page and hangs. `SysArchPrctlGs` is
arch_prctl(ARCH_SET_GS): it writes the GS base that is active (`SyscallDispatch.cpp:630`),
which inside a call is the kernel's, and from then on the kernel reads its current thread and
its stacks from an address of the program. What it does with them is not followed: the thread
is `"lost"` and the behaviour ends there, as at a hang. `Schedule` chooses any
ready thread: which one is the subject of `Scheduler`. `entry` is a history variable,
the context that the thread has to get back.

### RamFs, FileSystem, ByteFile

The file system is one record: nodes in order of creation, frames with their bytes, the
free frames. `RamFsWrite` yields one outcome (`WriteOutcome`) for each choice of frames by the allocator
(`Allocations`), a prefix of the data and ENOMEM when they run out. Lookup, Create and Mkdir compare whole
names, and a name may contain a slash, because `open("/f", O_CREAT)` stores one
(`SyscallDispatch.cpp:409-411`): the path walk never finds such a node again. A call is
one step. `SysReadv` and `SysWritev` go through their buffers one by one (`ReadBuffers`,
`WriteBuffers`: a short read or a failed write ends the loop, empty buffers are passed over);
read is readv of one buffer, but write is not writev of one: it hands an empty buffer to
RamFs, which moves the size of the file up to the position (`RamFs.hpp:169`).

Buffers may begin anywhere. When the page is there already, `Write` adds the offset within
the page (`RamFs.hpp:162`) to an address which, as `Read` takes it (line 118), contains the
offset: `Store` puts the bytes where that address is, which may be another frame, or memory
that the model does not have. Which of the two lines is right depends on `VmObject::Lookup` of
FoundationKit; the model takes the reading of `Read`, because with the other one every read
that begins inside a page would be wrong instead. `InPlace` says that a write does not meet
this case, and `io.straight` that none of the buffers of the last call did. In `Read`,
`offset + size` is a machine word (line 102): a length so large that the sum wraps is not cut
to the file, and the copy runs on until it leaves the buffer and faults inside the kernel,
which hangs it (`SysReadFaults`; `BufferMax` is the room that any buffer has). `Write` forms
the same sum, but files longer than `MaxSize` are beyond the model.

`ByteFile` says what remains when pages are forgotten; `ImplementsByteFile` maps
vnodes to arrays of bytes through `ByteAt`. A read there returns all the bytes asked for, or
all there are; a write stores some of its data, acknowledges no more than it stored, and if it
does not acknowledge all has not stored all; `WriteNothing` is the write of an empty buffer.
Two things in it are weaker than a program would like, because the code is: a write that is
not straight moves sizes and positions as it should but may change any byte of any file
(`WriteStores`, which says that it should not, does not hold: section 5), and a read of a file
whose end would be past 2^64 may stop the machine (`Hang`).
Truncation hides bytes and does not erase them, as in the code. To state this, `io` records
the transfer of the last call: the bytes, and for a read how many were asked for.

### AddressSpaces, ElfLoader

Spawn, fork and execve run with interrupts masked but take several steps here, one for
each thing that can fail; `call` is the call under way and `call.before` the memory it
started with. `mapped[r]` says what each user page under root r is used for. Any frame
may become a root, so roots are reused at once. FoundationKit's `MapAnonymous`,
`HandleFault`, `Unmap` and `Fork` do what they say or fail. mmap (with MAP_FIXED) and munmap
go to FoundationKit with whatever range the program gives: image, stack and heap included. What
they do to pages inside the heap is kept apart, as `"cover"` and `"hole"`, so that `HeapCovered`
can tell what a program did to its own heap from what the kernel lost. Whether `MapAnonymous`
replaces what is mapped already is not known here: it may do that or fail. PIDs are counted, not named:
`Process` names them.

### CpioLoader, Console, CompilerRt

The archive is laid out as cpio does it, with offsets in bytes and sizes in hexadecimal
digits; `LoadEntry` is one round of the loop in `Populate`. The loop ends at any path that
begins with the ten characters of the trailer's name (`CpioLoader.hpp:46`), here a path whose
first component is in `TrailerNames`, and the entries behind it are not loaded. `EntriesReadInTurn` says that the
addresses it computes are those of the entries, `InitrdLoaded` what it has made of them. In `Console` a character of a
system call is one step, and each access of the reaper to the cursor is one: it prints
with interrupts enabled, and the others may print in between. `terminal` is a history
variable, what the output so far looks like on a terminal that never scrolls. `CompilerRt` runs a
function on words of W bits, a step for each path and each round of its loop.
`MCLibrary` puts the three side by side and lets only one of them move in a behaviour,
since they share nothing; this asks the same questions as three runs.

## 3. Runs

| Run | Checks | Instance |
|---|---|---|
| `scheduler_safety` | list and state invariants, quantum, `TerminatedNeverRuns`, `ImplementsAbstract` | 3 threads, 2 channels, quanta 1/2/2, boost every 3 ticks, symmetry |
| `scheduler_starvation` | `QueuedThreadRuns` under `FairSpec` | 2 threads, quanta 2/1/1, boost every 3 |
| `process_tree` | PIDs, tree, waiters, reaping | 4 addresses, 4 threads, 3 usable PIDs, symmetry |
| `pipe_wakeups` | `NoLostWakeup` | 3 threads of one process, 2 slots, 1 byte, calls of 0 to 2 bytes, symmetry |
| `pipe_stream` | `ImplementsByteStream`; `EofReachesReaders`, `BrokenPipeReachesWriters` under `FairSpec` | 2 processes of one thread each, 2 slots, 2 bytes, calls of 0 to 3 bytes |
| `user_context` | `GsSound`, `InterruptFlagSound`, `InterruptReturnsOwnContext`, `CallReturnsToCaller`, `SignalsNotPassedOver`; `LowestSignalActedOn` under `FairSpec` | 2 user threads, idle, reaper; 2 signals; 2 rips, one of which the call path takes for kernel code; 2 stack slots |
| `file_system` | `TypeOK`, `FramesExclusive`, `EachEntryOnce`, `ImplementsByteFile` | 2 new files, 2 frames of 2 bytes, 2 slots, 2 descriptions, offsets modulo 16, positions to 3, buffers of at most 4 bytes, seeks by -1 and 0, readv of 2 and 1 bytes and of 1 and 15 (which wraps), writes of 0, 1 and 3 bytes, a writev of 2, 0 and 1, a view without the record `io` of the last transfer, which no call reads; no symmetry of frames, since a misplaced write reaches the next one |
| `address_spaces` | `Cr3Sound`, `RootsExact`, `HeapCovered`, `FailureUndoesAll` | 3 processes, 3 roots, 2 PIDs, 5 pages of 2 bytes, mmap and munmap of two adjacent pages that the heap may reach, three executables: a fixed program of one page, a position independent one whose segment crosses a page boundary and that has a segment to ignore, one with a segment on page 0; symmetry of roots |
| `library` | `ArithmeticRight`, `CursorInRange`, `ScreenShowsTail`, `EntriesReadInTurn`, `InitrdLoaded` | words of 3 bits, all arguments; 2x2 screen, 2 glyphs, 6 characters; archives of up to 3 entries of 7 kinds with and without trailer, and with a path that only begins like it, 4 frames, 3 new nodes |

Three further runs show where the code disagrees with its own comments (section 5).

**Why the bounds suffice to make the interesting things happen.** Three threads beside
the reaper let one run while another is queued at each level or two sleep on one
channel; quanta and interval are scaled so that expiry, demotion and boost coincide
in all ways. For processes: grandchildren, two children of one parent, full PID
bitmap, reuse of PIDs and of addresses. For pipes: a write larger than the buffer,
two sleepers on one side, both ends closed in every order, a sibling closing the
descriptor of a call under way. Two slots are enough for dup2 over an end, for a
full table and for a process that holds one end twice.

For contexts: a thread that sleeps in a call while the other makes calls, forks, is
killed or is replaced by execve; a handler interrupted by another signal; no room for a
frame. One thread uses signals and the other makes it lose the CPU in every way. For
files: a write over two pages with room for none, one or both; truncation and rewriting; a
second short write inside a page of the first, which lands in the next byte, the other frame
or outside both; a read whose length wraps;
two descriptors with one description or two of one file; a directory that is listed in two
calls with a file created between them. For address spaces: a third process that finds
no PID although it found a root, execve failing at each segment, a heap that ends inside a
page, brk into a mapping. For the library: both fast paths at their borders and up to
three rounds of the loop; scrolling twice; an archive that fills both the frames and the
nodes.

Deadlock is checked in the scheduler, process, context and file runs. In
the pipe runs it is not: processes may all have exited, or wait for each other as
their program tells them to. Neither in `address_spaces`: when the first program cannot
be spawned nothing runs in user mode and the kernel only idles. Neither in `library`: a division by zero stops the kernel,
the archive is loaded once, and output is bounded by `MaxOutput`.

The bounds are constants: `MaxSize` and `Landing` (file positions followed), `MaxNodes` and
`MaxDescs` (kernel heap), `BufferMax` (room in user memory), `MapArgs` (ranges for mmap and
munmap), `Reach` and `Signalled` (what programs do), `MaxOutput`,
`BrkArgs`, `Archives`.

**Fairness.** `Scheduler!FairSpec` assumes that the timer interrupt keeps coming
(the APIC timer is periodic). That is not so once a call or a handler has faulted on user
memory (`MemoryManager.cpp:255`, `Hang` in `UserContext`, `SysReadFaults` in `FileSystem`): the
kernel then faults again for ever with interrupts off, and no thread runs. `QueuedThreadRuns` is
about a kernel that has not come to that; the other paths with interrupts off end.
Nothing is assumed of threads: they may yield, block or run as they like.
`Pipe!FairSpec` assumes that a thread that has been woken inside a call continues:
`Wake` puts it in a run queue, and `QueuedThreadRuns` shows that a queued thread runs.
`UserContext!FairSpec` assumes that the CPU does not stop (weak fairness of `Next`), that
user code which is let in again and again is interrupted (strong fairness: the APIC holds a
timer interrupt that comes while interrupts are masked until they are not), and that a
ready thread is dispatched, which is `QueuedThreadRuns` again. It does not assume that
programs make calls, or that a thread asleep wakes up.

## 4. Proofs

Every theorem is about the `Spec` that the runs check (`ConsoleSpec` for the console,
`ArithSpec` for the compiler runtime and `LoaderSpec` for the boot archive, which `library`
runs side by side) and holds for every value of the constants that satisfies the `ASSUME`s,
so for any number of threads, processes, PIDs, channels, pages, capacities, quanta, cells,
bits or archive entries. Each proof has the same shape: an inductive invariant `IInv`, model-checked
before it was proved, one lemma per action that keeps it, the theorem `Invariance`, and the
properties as consequences of `IInv` or, for action properties, of `IInv` and one step. The
type invariants of `Process` and `UserContext` are proved only.
(`FileSystemProofs!IInv` quantifies over all values, which the provers like and TLC cannot
evaluate; TLC checks the three invariants that it is made of.)

| Module | Theorem: property |
|---|---|
| `SchedulerProofs` | `TypeCorrect`: `TypeOK`; `LinkedOnce`: `RunNodeLinkedOnce`; `QueuesSound`: `RunQueuesSound`; `SleepersSound`: `WaitQueueSound`; `ReaperSound`: `DeadThreadsSound`; `RunningSound`: `OnlyCurrentRuns`; `QuantumRespected`: `QuantumBounded`; `TerminationFinal`: `TerminatedNeverRuns`; `IsAbstractScheduler`: the refinement `ImplementsAbstract` |
| `ProcessProofs` | `TypeCorrect`: `TypeOK`; `PidsExact`: `PidPoolExact`; `TreeSound`: `ChildrenSound`; `WaiterSound`: `WaitedChildSound`; `ExitWakesParent`: `NoSleeperOnZombie`; `OwnersLive`: `LiveThreadsOwnLiveProcess`; `ReapingSound`: `ReapedByParentOnly` |
| `PipeProofs` | `TypeCorrect`: `TypeOK`; `WakeupsKept`: `NoLostWakeup`; `CountsExact`: `CountExact`; `IsByteStream`: the refinement `ImplementsByteStream` |
| `UserContextProofs` | `TypeCorrect`: `TypeOK`; `GsAlwaysSound`: `GsSound`; `InterruptsMaskedRight`: `InterruptFlagSound`; `OwnContextBack`: `InterruptReturnsOwnContext`; `CallsReturnToCaller`: `CallReturnsToCaller`; `NoSignalPassedOver`: `SignalsNotPassedOver` |
| `AddressSpacesProofs` | `Cr3AlwaysSound`: `Cr3Sound`; `RootsAlwaysExact`: `RootsExact`; `HeapAlwaysCovered`: `HeapCovered`; `FailuresUndone`: `FailureUndoesAll` |
| `LibraryProofs` | `CursorAlwaysInRange`: `CursorInRange`; `TailAlwaysShown`: `ScreenShowsTail`; `ArithmeticIsRight`: `ArithmeticRight`; `EntriesAlwaysInTurn`: `EntriesReadInTurn` |
| `FileSystemProofs` | `TypeCorrect`: `TypeOK`; `FramesAlwaysExclusive`: `FramesExclusive`; `EntriesReadOnce`: `EachEntryOnce`; `VnodesStay`: no vnode goes and no directory entry moves; `IsByteFile`: the refinement `ImplementsByteFile` |

**Scheduler.** `IInv` conjoins the list invariants because none is
inductive alone: that pushing a node on a queue does not link it twice follows from
the thread's state (a Running thread is in no queue), and that the states are right
follows from what the lists hold. Two conjuncts serve the induction only: idle stays
Running, and `localDead` is empty when the reaper is about to collect. What Boost, Wake and
ScheduleLocked do to lists is stated once in lemmas. `ListProofs` has the facts on `Append`,
concatenation, `Tail` and `Sublist` that they need; the last rests on a bijection between
positions and ranks. The refinement needs `IInv` too: that Wake releases exactly the threads
blocked on a channel follows from the wait queue holding exactly those. What remains are
lemmas that say how each operation changes the states, and that this is what the abstract
operation does.

**Process.** That waitpid finds its child after a sleep rests on nobody else reaping it
meanwhile: one thread per process, one parent per child, and an Exit that wakes that parent.
`IInv` adds that a sleeper sleeps on the child it waits for, that the thread on the CPU can
run, that threads that live share no process, and that PID 1 is nobody's child.

**Pipe.** Whether a sleeper is woken when an end closes depends on the counts of readers and
writers being positive exactly while somebody holds the end, through a slot or a call under
way. `IInv` says so, and that a thread asleep sleeps on the condition of its own call; the
refinement to `ByteStream` then goes action by action. Assumed: finitely many threads and
processes, which the code has (a PID bitmap of fixed size), so that references can be counted.

**UserContext.** What a thread finds when it gets the CPU depends on how it lost it. `IInv`
says, for threads off the CPU, at which points they may be and which interrupt flag they put
back (a thread that has called arch_prctl(ARCH_SET_GS) never leaves the CPU again, and `GsSound`
says nothing from there on); for the one on it, how the GS bases lie at each phase; and that every frame is on the
kernel stack of its own thread, the one the CPU takes for the next entry.

**AddressSpaces.** Between calls the memory is `Good`. Inside a call it is not, so `IInv`
describes it there by what the call has done so far to the memory it found, which was `Good`:
for each step of Spawn, Fork and execve, the root, the PID and the pages added since. This is
also what makes `FailureUndoesAll` provable. `HeapCovered` says of each page of the heap that it
is mapped or that the program, or the one that forked it, has itself unmapped or mapped it over:
fork copies such pages, execve starts without, and brk over one maps it afresh. Assumed: finitely many processes, segments that
are typed as the ELF header types them, break arguments that are numbers, and a name for the
kernel that is no process.

**Console.** `CursorInRange` needs, for each point where the reaper can be preempted inside
putc, the bounds between which the cursor and the reaper's register lie, all of which the
putc of another thread keeps. `ScreenShowsTail` needs, for the same points, how far the
screen is behind the text: the glyph drawn and the column not moved, or a new line pending.
Lemmas say what the last lines of a text look like after a glyph, a new line and a scroll.
Assumed: a screen of at least one cell, and control characters that are no glyphs.

**Compiler runtime.** The invariant (`ArithInvariant`) says of the shift-and-subtract loop that
the dividend is `q * 2 * d_shifted + r` with `r < 2 * d_shifted`, and that `d_shifted` is the
divisor times two to the power of the rounds left after this one. It begins true because,
shifted by the leading zeros of its high word, the divisor fits in two words and its double
does not (`Normalised`), so nothing is shifted out; a round keeps it and cannot overflow the
quotient (`Round`); after the last round it is the definition of quotient and remainder, of
which there is only one (`DivisionOnly`). On the other paths the high word is below the
divisor whenever divq executes, so that it does not fault (`WordDivision`), and two divisions
compose to one (`TwoDivisions`). The signs and the cross products differ from what C means
by multiples of two to the power of two words (`SignedDivision`, `WideProduct`). Assumed: a
word has at least one bit. That the recursive `Pow2` obeys its equation is proved (`Pow2Is`).

**FileSystem.** `IInv` is `FsOK`, about the file system, and `Slots`, about the descriptors.
`FsOK` says that the directories form a tree (`TreeOK`: every vnode but the root is an entry
of exactly one directory, once) and that a frame is a page of exactly one file or free
(`FramesOK`). Each operator of RamFs keeps it, failing or not, and only ever extends what is
there (`Extends`): nothing in these calls removes a vnode, changes its kind or moves an
entry. That is why the vnode of a description stays valid and its cookie keeps its meaning
while others create files, which `Slots` states. `EachEntryOnce` is part of `Slots` because
it has to survive every other call. What open gives out is a vnode because the path walk
stays in the tree, and a writev over any number of buffers keeps `FsOK` because each of them
does: both are inductions along a sequence, done by taking the least position at which the
claim fails; that the recursive functions exist and obey their equations is proved in the
same way. Assumed (`FileSystemAssumption`): the heap has room
for the vnodes that boot makes (that these are eleven TLC evaluates), offsets are
machine words larger than any file or directory, a file fits in user memory and the two together
in the address space, paths and buffers are sequences, and the
mark of a free slot is no description.

**Files as arrays of bytes.** `IsByteFile` shows that the calls implement `ByteFile`. It rests
on one fact about pages: because a frame is a page of one file only (`FramesOK`), a byte of a
frame is the byte of one position of one file. When a write begins a page or fills a new one
(`InPlace`), every byte goes to the address of its position (`StorePlaces`), so `Store` changes
the bytes of the positions it writes and no others (`StoreBytes`), and the pages it adds are zero
elsewhere. When it does not, nothing is said of the bytes, only that the frames stay exclusive. A write that
runs out of frames has stored a prefix: the positions before the first page refused are
closed downwards, hence an interval (`CopiedPrefix`). Along the buffers of a writev, what is
stored is a prefix of their concatenation (`WriteBuffersBytes`), and along those of a readv
what is read is one run of bytes that ends where the file or the room does
(`ReadBuffersBytes`); both again by the least buffer at which it fails, for any number of
buffers of any lengths. The code's count of the bytes to read is the right one unless the sum
wraps, and then it is more than any buffer has room for (`CountIs`). The invariant of the refinement, `RInv`, adds to `IInv` that none of
the vnodes of boot is a regular file of RamFs, so that every file is one that open made and
began empty. Then each call is a step of `ByteFile`: a slot that changes takes at most one
description away, open truncates or makes an empty file, and the rest moves one position.

**Boot archive.** `EntriesAlwaysInTurn` compares two computations of where an entry begins:
cpio's, which adds up padded sizes, and the loader's, which reads the sizes back from their
digits and rounds an address up twice. Eight digits of a size that fits give that size again
(`ParsesBack`), rounding moves past an aligned address (`PaddedIs`), so one round advances by
the size of one entry (`SizeIs`). The invariant adds that the archive is one that cpio wrote
and needs that entries begin at distinct, growing addresses (`SumsGrow`), which is why the
header found at an address is the one meant. Assumed (`CpioAssumption`): the module is at a
multiple of four, as Limine's page-aligned modules are, and every size has eight digits.

**Only model-checked**, and why:

* `QueuedThreadRuns`, `EofReachesReaders`, `BrokenPipeReachesWriters`, `LowestSignalActedOn`:
  liveness; fairness and `ENABLED` are out of the prover's reach.
* `InitrdLoaded`: it compares what the loader leaves with a reference that reads the whole
  archive. Both go along the entries, but not in step: an entry may fail half way through its
  path or its data, or be masked by one before it, and a proof would need what the tree
  contains by name after every prefix of the archive. The half of it that is about addresses is
  proved (`EntriesAlwaysInTurn`); the rest is checked for all archives of up to three of seven
  entries.

## 5. Where the code disagrees with its comments

* `scheduler_lost_thread`: a thread alone at the best level that yields twice is never
  scheduled again (`Scheduler.cpp:247` returns without setting it Running).
* `process_reaper_owner`: waitpid frees a process before the reaper has deleted its
  thread, contrary to `Signal.cpp:118-119`; the reaper then reads it.
* `user_rsp`: `Syscall.asm:84`, "Restore user RSP", takes the stack pointer from per-CPU
  data. A call that slept returns with the stack pointer of the last thread that made a
  call; execve and sigreturn return with that of the call instead of the one they stored
  in the frame. The rip is right in all cases (`CallReturnsToCaller`), and so are returns
  from interrupts (`InterruptReturnsOwnContext`).

Without a run of their own:

* "GS_BASE is for kernel use" (`Cpu.cpp:19`), but arch_prctl(ARCH_SET_GS) writes the active base,
  MSR 0xC0000101, in the middle of a call (`SyscallDispatch.cpp:617`, `:630`), where the base of
  the program is in the other one. The way out of that call already takes the current thread and
  the stack pointer from the program's address. `UserContext!KernelHasPerCpu` fails in one call;
* a write that begins inside a page of the file goes to the wrong bytes (`RamFs.hpp:162` against
  `:118`): the second of two short writes is not where a read looks for it, and may have
  overwritten the file whose frame is next. `FileSystem!WriteStores` fails in the instance of
  `file_system` (under the reading of `Lookup` that section 2 gives; under the other one reads
  would be wrong);
* "any child" of waitpid is the first child (`Process!WaitAnyFindsZombie` fails);
* orphans are not adopted: their zombies stay, and `m_parent` dangles
  (`Process!ZombieHasParent` fails);
* with several threads per process (`Process!CloneSpec`) `Exit` wakes one waiter only, and
  exit and fatal signals end the calling thread only, so `NoSleeperOnZombie` and
  `LiveThreadsOwnLiveProcess`, which `process_tree` establishes for one thread per process,
  fail there;
* "all threads are boosted" (`Scheduler.hpp:15`) holds for queued threads only, a sleeping
  one keeps its level;
* tkill and tgkill send the signal to the caller, whatever thread they name
  (`SyscallDispatch.cpp:842`);
* a thread that slept in waitpid uses the child pointer it read before
  (`SyscallDispatch.cpp:370`): a sibling thread may have reaped the child by then. With one thread
  per process `WaitedChildSound` shows that this cannot happen;
* the write of no bytes that makes a file longer, and the names with a slash of `open`
  (section 2).

`NoLostThread` failing does not contradict the other scheduler results: a lost thread
is in no queue, and `QueuedThreadRuns` speaks of queued threads.

## 6. Not modelled, and what is left

Not modelled, and why:

* FoundationKit (lists, locks, `AddressSpace`, `VmObject`, the allocators): not in this
  repository. In particular, who releases `s_lock` after a switch to a thread that starts
  in a trampoline depends on its spin lock.
* GDT, IDT, APIC and memory manager set-up, boot requests: straight-line code on hardware;
  the models begin in the state it leaves. Glyph bitmaps and port output.
* Exceptions that stop the kernel, mprotect, the FS base, SSE registers: no state in the models
  depends on them. What the kernel does after `ARCH_SET_GS` has taken its per-CPU data away.
* Files longer than `MaxSize`: a write whose offset and size wrap (`RamFs.hpp:169`) is beyond
  that bound. Memory outside the frames of files, where a misplaced write may land. The pseudo
  files are in the tree that boot makes, but `file_system` opens none of them.
* `RamFsOpsImpl::Destroy` and `Mknod`, `UserAddressSpace::MapUserPage`: nothing reaches them.
* Contents of the pages of executables and of copied address spaces.
* `userspace/init.c`, a test program.
