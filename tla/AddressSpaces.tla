---------------------------- MODULE AddressSpaces ----------------------------
(***************************************************************************)
(* The address spaces of processes of one thread each: their page table    *)
(* roots, what is mapped under them, the heap, and the CR3 register.       *)
(* Spawn, fork and execve take several steps, each of which may fail; they *)
(* run with interrupts masked, so no other process gets in between, but    *)
(* what they leave behind at each step is visible here.                    *)
(* FoundationKit's AddressSpace is external: MapAnonymous, HandleFault,    *)
(* Unmap and Fork do what they say or fail.  What MapAnonymous does where  *)
(* something is mapped is not known here: it fails, or replaces it.        *)
(***************************************************************************)
EXTENDS ElfLoader

CONSTANTS
    Procs, InitProc,    \* Process objects; the one main spawns
    Roots,              \* frames that can hold a top-level page table
    KernelRoot,         \* the kernel's page table
    NoRoot,             \* a process that does not exist
    Kernel,             \* the CPU runs a kernel thread
    MaxPids,            \* process identifiers in the pool
    Executables,        \* the files that Spawn and execve are given
    UserPages,          \* pages of the user half, StackPage included
    StackPage,          \* the page of the user stack
    BrkArgs,            \* addresses programs pass to brk
    MapArgs             \* ranges of pages programs pass to mmap and munmap

ASSUME SpacesAssumption ==
    /\ InitProc \in Procs /\ Kernel \notin Procs /\ IsFiniteSet(Procs)
    /\ KernelRoot \notin Roots /\ NoRoot \notin Roots
    /\ MaxPids \in Nat \ {0}
    /\ UserPages \subseteq Nat \ {0} /\ StackPage \in UserPages
    /\ BrkArgs \subseteq Nat /\ MapArgs \subseteq SUBSET UserPages
    /\ \A elf \in Executables :
         elf.segments \in Seq([load : BOOLEAN, vaddr : Nat, memsz : Nat])

VARIABLES
    state,      \* state[p]: "none", "Running" or "Zombie"
    root,       \* root[p]: the address space of a process
    heap,       \* heap[p] = [start, end]: m_heap_start, m_heap_end
    parent,     \* parent[p]
    pids,       \* process identifiers in use
    tables,     \* roots allocated
    mapped,     \* mapped[r]: the use of each page under a root
    cr3,        \* the page table the CPU translates with
    current,    \* the process whose thread runs, or Kernel
    call        \* the Spawn, Fork or execve under way

memory == <<state, root, heap, parent, pids, tables, mapped, cr3>>
vars == <<memory, current, call>>

NoCall == [op |-> "none"]

(* "hole" and "cover" are pages of the heap that the program has unmapped, *)
(* and mapped over.                                                        *)
HeapUses == {"heap", "hole", "cover"}
Uses == HeapUses \cup {"free", "image", "stack", "mmap"}
NoHeap == [start |-> 0, end |-> 0]
Unmapped == [pg \in UserPages |-> "free"]
HeapPages(h) == PagesIn(h.start, AlignUp(h.end) - h.start)
Exists(p) == state[p] # "none"
Idle == call = NoCall
In(op, step) == ~Idle /\ call.op = op /\ call.step = step

TypeOK ==
    /\ state \in [Procs -> {"none", "new", "Running", "Zombie"}]
    /\ root \in [Procs -> Roots \cup {NoRoot}]
    /\ \A p \in Procs : {heap[p].start, heap[p].end} \subseteq Nat
    /\ parent \in [Procs -> Procs \cup {Kernel}]
    /\ pids \in 0..MaxPids
    /\ tables \subseteq Roots
    /\ mapped \in [Roots -> [UserPages -> Uses]]
    /\ cr3 \in Roots \cup {KernelRoot}
    /\ current \in Procs \cup {Kernel}
    /\ Idle \/ call.op \in {"spawn", "fork", "exec"}

Init ==
    /\ state = [p \in Procs |-> "none"]
    /\ root = [p \in Procs |-> NoRoot]
    /\ heap = [p \in Procs |-> NoHeap]
    /\ parent = [p \in Procs |-> Kernel]
    /\ pids = 0
    /\ tables = {}
    /\ mapped = [r \in Roots |-> Unmapped]
    /\ cr3 = KernelRoot
    /\ current = Kernel
    /\ call = NoCall

-----------------------------------------------------------------------------
(* UserAddressSpace::Create: any free frame becomes a root, empty but for  *)
(* the kernel's half.  (It fails, and the call with it, when there is      *)
(* none.)                                                                  *)
Create(r) ==
    /\ r \in Roots \ tables
    /\ tables' = tables \cup {r}

(* Faulty: the mappings go and the root stays allocated.                   *)
DestroyKeepsRoot(r) ==
    /\ mapped' = [mapped EXCEPT ![r] = Unmapped]
    /\ UNCHANGED tables

(* UserAddressSpace::Destroy: unmap everything, free the root.             *)
Destroy(r) ==
    /\ mapped' = [mapped EXCEPT ![r] = Unmapped]
    /\ tables' = tables \ {r}

(* Reap and Process::Destroy; the PID of init does not go back.            *)
DeleteProcess(p) ==
    /\ Destroy(root[p])
    /\ pids' = IF p = InitProc THEN pids ELSE pids - 1
    /\ state' = [state EXCEPT ![p] = "none"]
    /\ root' = [root EXCEPT ![p] = NoRoot]
    /\ heap' = [heap EXCEPT ![p] = NoHeap]
    /\ parent' = [parent EXCEPT ![p] = Kernel]

Goto(step) == call' = [call EXCEPT !.step = step]
Done == call' = NoCall

(* A call begins: before is what a failure has to bring back.              *)
Begin(op, p, elf, new, step) ==
    call' = [op |-> op, step |-> step, proc |-> p, elf |-> elf, new |-> new,
             old |-> root[p], prev |-> cr3, prevLoad |-> cr3, at |-> 1,
             before |-> memory]

-----------------------------------------------------------------------------
(* ElfLoader::Load on the space call.new, for Spawn and for execve.        *)

(* The header is good: the loader switches to the new table.               *)
LoadStarts ==
    /\ ~Idle /\ call.step = "load" /\ HeaderGood(call.elf)
    /\ cr3' = call.new
    /\ call' = [call EXCEPT !.step = "segments", !.prevLoad = cr3]
    /\ UNCHANGED <<state, root, heap, parent, pids, tables, mapped, current>>

(* One segment is mapped, faulted in and filled.                           *)
LoadSegment ==
    /\ ~Idle /\ call.step = "segments" /\ call.at \in DOMAIN call.elf.segments
    /\ LET pages == SegmentPages(call.elf, call.at)
       IN  IF call.elf.segments[call.at].load
           THEN /\ OffNullPage(call.elf, call.at)
                /\ pages \subseteq UserPages
                /\ mapped' = [mapped EXCEPT ![call.new] =
                                 [pg \in UserPages |-> IF pg \in pages THEN "image" ELSE @[pg]]]
           ELSE UNCHANGED mapped
    /\ call' = [call EXCEPT !.at = @ + 1]
    /\ UNCHANGED <<state, root, heap, parent, pids, tables, cr3, current>>

(* The stack is mapped, and the loader switches back.                      *)
LoadStack ==
    /\ ~Idle /\ call.step = "segments" /\ call.at = Len(call.elf.segments) + 1
    /\ mapped' = [mapped EXCEPT ![call.new][StackPage] = "stack"]
    /\ cr3' = call.prevLoad
    /\ Goto("loaded")
    /\ UNCHANGED <<state, root, heap, parent, pids, tables, current>>

(* A bad header, a segment on the page at 0, or MapAnonymous or            *)
(* HandleFault fails; the loader switches back if it had switched.         *)
LoadFails ==
    /\ ~Idle /\ call.step \in {"load", "segments"}
    /\ cr3' = IF call.step = "segments" THEN call.prevLoad ELSE cr3
    /\ Goto("failed")
    /\ UNCHANGED <<state, root, heap, parent, pids, tables, mapped, current>>

-----------------------------------------------------------------------------
(* Process::Spawn of the first program, from start_kernel.                 *)
SpawnCreate(elf, r) ==
    /\ Idle /\ current = Kernel /\ pids = 0
    /\ Create(r)
    /\ pids' = 1
    /\ state' = [state EXCEPT ![InitProc] = "new"]
    /\ root' = [root EXCEPT ![InitProc] = r]
    /\ Begin("spawn", InitProc, elf, r, "load")
    /\ UNCHANGED <<heap, parent, mapped, cr3, current>>

SpawnStarts ==
    /\ In("spawn", "loaded")
    /\ state' = [state EXCEPT ![InitProc] = "Running"]
    /\ heap' = [heap EXCEPT ![InitProc] =
                   [start |-> HeapBase(call.elf), end |-> HeapBase(call.elf)]]
    /\ Done
    /\ UNCHANGED <<root, parent, pids, tables, mapped, cr3, current>>

SpawnFails ==
    /\ In("spawn", "failed")
    /\ DeleteProcess(InitProc)
    /\ Done
    /\ UNCHANGED <<cr3, current>>

-----------------------------------------------------------------------------
(* Process::Fork.                                                          *)
ForkCreate(p, child, r) ==
    /\ Idle /\ current = p /\ state[child] = "none" /\ child # InitProc
    /\ Create(r)
    /\ Begin("fork", child, "none", r, "clone")
    /\ UNCHANGED <<state, root, heap, parent, pids, mapped, cr3, current>>

(* AddressSpace::Fork: the child sees the pages of its parent.             *)
ForkClone ==
    /\ In("fork", "clone")
    /\ mapped' = [mapped EXCEPT ![call.new] = mapped[root[current]]]
    /\ Goto("pid")
    /\ UNCHANGED <<state, root, heap, parent, pids, tables, cr3, current>>

(* Faulty: only the error of AddressSpace::Fork cleans up.                 *)
ForkSpaceFailsLeaks ==
    /\ In("fork", "clone") \/ (In("fork", "pid") /\ pids = MaxPids)
    /\ IF call.step = "clone" THEN Destroy(call.new) ELSE UNCHANGED <<tables, mapped>>
    /\ Goto("undone")
    /\ UNCHANGED <<state, root, heap, parent, pids, cr3, current>>

(* AddressSpace::Fork fails, having cloned some pages, or PidAlloc finds   *)
(* no identifier: the new space is destroyed.                              *)
ForkSpaceFails ==
    /\ In("fork", "clone") \/ (In("fork", "pid") /\ pids = MaxPids)
    /\ Destroy(call.new)
    /\ Goto("undone")
    /\ UNCHANGED <<state, root, heap, parent, pids, cr3, current>>

ForkPid ==
    /\ In("fork", "pid") /\ pids < MaxPids
    /\ pids' = pids + 1
    /\ state' = [state EXCEPT ![call.proc] = "new"]
    /\ root' = [root EXCEPT ![call.proc] = call.new]
    /\ Goto("thread")
    /\ UNCHANGED <<heap, parent, tables, mapped, cr3, current>>

(* The child gets the heap bounds, its parent and a thread.                *)
ForkStarts ==
    /\ In("fork", "thread")
    /\ state' = [state EXCEPT ![call.proc] = "Running"]
    /\ heap' = [heap EXCEPT ![call.proc] = heap[current]]
    /\ parent' = [parent EXCEPT ![call.proc] = current]
    /\ Done
    /\ UNCHANGED <<root, pids, tables, mapped, cr3, current>>

(* The table cannot be resized or the thread cannot be made: Reap.         *)
ForkThreadFails ==
    /\ In("fork", "thread")
    /\ DeleteProcess(call.proc)
    /\ Goto("undone")
    /\ UNCHANGED <<cr3, current>>

-----------------------------------------------------------------------------
(* execve: the process and the CPU are in the new space while it loads.    *)
ExecCreate(p, elf, r) ==
    /\ Idle /\ current = p
    /\ Create(r)
    /\ root' = [root EXCEPT ![p] = r]
    /\ cr3' = r
    /\ Begin("exec", p, elf, r, "load")
    /\ UNCHANGED <<state, heap, parent, pids, mapped, current>>

(* The heap starts anew and the old space goes.                            *)
ExecStarts ==
    /\ In("exec", "loaded")
    /\ heap' = [heap EXCEPT ![call.proc] =
                   [start |-> HeapBase(call.elf), end |-> HeapBase(call.elf)]]
    /\ Destroy(call.old)
    /\ Done
    /\ UNCHANGED <<state, root, parent, pids, cr3, current>>

(* Faulty: the CPU is left in the space that is about to be destroyed.     *)
ExecRestoresSpaceOnly ==
    /\ In("exec", "failed")
    /\ root' = [root EXCEPT ![call.proc] = call.old]
    /\ Goto("restored")
    /\ UNCHANGED <<state, heap, parent, pids, tables, mapped, cr3, current>>

(* Load failed: back to the old space, then the new one goes.              *)
ExecRestores ==
    /\ In("exec", "failed")
    /\ root' = [root EXCEPT ![call.proc] = call.old]
    /\ cr3' = call.prev
    /\ Goto("restored")
    /\ UNCHANGED <<state, heap, parent, pids, tables, mapped, current>>

ExecFails ==
    /\ In("exec", "restored")
    /\ Destroy(call.new)
    /\ Goto("undone")
    /\ UNCHANGED <<state, root, heap, parent, pids, cr3, current>>

(* A call that has failed and cleaned up returns its error.                *)
ReturnError ==
    /\ ~Idle /\ call.step = "undone"
    /\ Done
    /\ UNCHANGED <<memory, current>>

-----------------------------------------------------------------------------
(* PerformSwitch: CR3 becomes the root of the next thread's process, or    *)
(* the kernel's.                                                           *)
PerformSwitch(next) ==
    /\ current' = next
    /\ cr3' = IF next = Kernel THEN KernelRoot ELSE root[next]

CanRun(next) == next = Kernel \/ (next \in Procs /\ state[next] = "Running")

Switch(next) ==
    /\ Idle /\ next # current /\ CanRun(next)
    /\ PerformSwitch(next)
    /\ UNCHANGED <<state, root, heap, parent, pids, tables, mapped, call>>

(* Exit keeps the space for Reap and the CPU leaves it at the switch.      *)
(* (Orphans are the subject of Process: children go first here.)           *)
SysExit(p, next) ==
    /\ Idle /\ current = p /\ p # InitProc
    /\ \A q \in Procs : Exists(q) => parent[q] # p
    /\ next # p /\ CanRun(next)
    /\ state' = [state EXCEPT ![p] = "Zombie"]
    /\ PerformSwitch(next)
    /\ UNCHANGED <<root, heap, parent, pids, tables, mapped, call>>

SysWaitpid(p, child) ==
    /\ Idle /\ current = p /\ state[child] = "Zombie" /\ parent[child] = p
    /\ DeleteProcess(child)
    /\ UNCHANGED <<cr3, current, call>>

-----------------------------------------------------------------------------
SetPages(r, pages, use) ==
    mapped' = [mapped EXCEPT ![r] =
                  [pg \in UserPages |-> IF pg \in pages THEN use ELSE @[pg]]]
SetHeap(p, brk) == heap' = [heap EXCEPT ![p].end = brk]
Others == UNCHANGED <<state, root, parent, pids, tables, cr3, current, call>>

(* Faulty: the pages between the two ends, neither of them rounded.        *)
GrownPagesUnaligned(p, brk) == PagesIn(heap[p].end, brk - heap[p].end)

(* The pages between the heap's end and a new one, both rounded up.        *)
GrownPages(p, brk) ==
    PagesIn(AlignUp(heap[p].end), AlignUp(brk) - AlignUp(heap[p].end))
ShrunkPages(p, brk) == PagesIn(AlignUp(brk), AlignUp(heap[p].end) - AlignUp(brk))

(* brk upwards.  (When MapAnonymous fails the call changes nothing.)       *)
SysBrkGrows(p, brk) ==
    /\ Idle /\ current = p
    /\ brk >= heap[p].start /\ brk > heap[p].end
    /\ GrownPages(p, brk) \subseteq UserPages
    /\ SetPages(root[p], GrownPages(p, brk), "heap")
    /\ SetHeap(p, brk)
    /\ Others

(* brk downwards.  The end moves even if Unmap fails.                      *)
SysBrkShrinks(p, brk) ==
    /\ Idle /\ current = p
    /\ brk # 0 /\ brk >= heap[p].start /\ brk < heap[p].end
    /\ SetPages(root[p], ShrunkPages(p, brk), "free") \/ UNCHANGED mapped
    /\ SetHeap(p, brk)
    /\ Others

(* Pages of the program get a new use: one inside the heap, one elsewhere. *)
SetUse(p, pages, inHeap, elsewhere) ==
    mapped' = [mapped EXCEPT ![root[p]] =
                  [pg \in UserPages |->
                      IF pg \notin pages THEN @[pg]
                      ELSE IF pg \in HeapPages(heap[p]) THEN inHeap ELSE elsewhere]]

(* mmap of anonymous memory: anywhere, with MAP_FIXED.                     *)
SysMmap(p, pages) ==
    /\ Idle /\ current = p
    /\ SetUse(p, pages, "cover", "mmap")
    /\ Others /\ UNCHANGED heap

(* munmap: any range, whatever is mapped there.                            *)
SysMunmap(p, pages) ==
    /\ Idle /\ current = p
    /\ SetUse(p, pages, "hole", "free")
    /\ Others /\ UNCHANGED heap

Next ==
    \/ \E elf \in Executables, r \in Roots :
          SpawnCreate(elf, r) \/ \E p \in Procs : ExecCreate(p, elf, r)
    \/ LoadStarts \/ LoadSegment \/ LoadStack \/ LoadFails
    \/ SpawnStarts \/ SpawnFails
    \/ \E p, child \in Procs, r \in Roots : ForkCreate(p, child, r)
    \/ ForkClone \/ ForkSpaceFails \/ ForkPid \/ ForkStarts \/ ForkThreadFails
    \/ ExecStarts \/ ExecRestores \/ ExecFails \/ ReturnError
    \/ \E next \in Procs \cup {Kernel} :
          Switch(next) \/ \E p \in Procs : SysExit(p, next)
    \/ \E p, child \in Procs : SysWaitpid(p, child)
    \/ \E p \in Procs, brk \in BrkArgs : SysBrkGrows(p, brk) \/ SysBrkShrinks(p, brk)
    \/ \E p \in Procs, pages \in MapArgs : SysMmap(p, pages) \/ SysMunmap(p, pages)

Spec == Init /\ [][Next]_vars

-----------------------------------------------------------------------------
(* The CPU never translates with a page table that has been freed, at any  *)
(* step of a call, and between calls it is in the space of the process     *)
(* that runs, or the kernel's.                                             *)
Cr3Sound ==
    /\ cr3 \in tables \cup {KernelRoot}
    /\ Idle => cr3 = IF current = Kernel THEN KernelRoot ELSE root[current]

(* Between calls every root is one process's, and every PID but init's     *)
(* belongs to a process: no failure half way leaks either.                 *)
RootsExact ==
    Idle => /\ tables = {root[p] : p \in {q \in Procs : Exists(q)}}
            /\ \A p, q \in Procs : Exists(p) /\ root[p] = root[q] => p = q
            /\ pids > 0 => pids = 1 + Cardinality({p \in Procs \ {InitProc} : Exists(p)})

(* Between calls every page of a program's heap is mapped as heap, up to   *)
(* the end that brk has reported, whatever fork, execve and failures did;  *)
(* but for the pages that the program, or the one that forked it, has      *)
(* itself unmapped or mapped over since brk gave them.                     *)
HeapCovered ==
    Idle => \A p \in Procs : Exists(p) =>
        \A pg \in HeapPages(heap[p]) : mapped[root[p]][pg] \in HeapUses

(* A Fork or an execve that fails leaves memory as it found it.            *)
FailureUndoesAll ==
    [][~Idle /\ call.step = "undone" => memory = call.before]_vars
=============================================================================
