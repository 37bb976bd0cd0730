------------------------- MODULE AddressSpacesProofs -------------------------
(***************************************************************************)
(* Page table roots, CR3 and heaps are right for any processes, frames and *)
(* executables, at whatever step a Spawn, Fork or execve fails.            *)
(*                                                                         *)
(* Between calls the memory is Good.  Inside a call it is not, so IInv     *)
(* describes it there by what the call has done so far to the memory that  *)
(* it found, which was Good; that is also what a failure has to bring back.*)
(***************************************************************************)
EXTENDS AddressSpaces, ListProofs

(* The memory between calls: state, root, heap, parent, pids, tables,      *)
(* mapped and cr3.                                                         *)
LifeOK(s, rt, h, pa) ==
    /\ s \in [Procs -> {"none", "Running", "Zombie"}] /\ s[InitProc] # "Zombie"
    /\ rt \in [Procs -> Roots \cup {NoRoot}]
    /\ h \in [Procs -> [start : Nat, end : Nat]]
    /\ pa \in [Procs -> Procs \cup {Kernel}]
    /\ \A p \in Procs : s[p] = "none" <=> rt[p] = NoRoot
    /\ \A p \in Procs : s[p] = "none" => h[p] = NoHeap /\ pa[p] = Kernel

Alive(s) == {p \in Procs \ {InitProc} : s[p] # "none"}

PidsOK(s, n) ==
    /\ n \in 0..MaxPids
    /\ n = 0 => \A p \in Procs : s[p] = "none"
    /\ n > 0 => n = 1 + Cardinality(Alive(s))

RootsOK(s, rt, t) ==
    /\ t \subseteq Roots
    /\ \A r \in Roots : r \in t <=> \E p \in Procs : s[p] # "none" /\ rt[p] = r
    /\ \A p, q \in Procs : s[p] # "none" /\ rt[p] = rt[q] => p = q

MapsOK(s, rt, h, t, m) ==
    /\ m \in [Roots -> [UserPages -> Uses]]
    /\ \A r \in Roots \ t : m[r] = Unmapped
    /\ \A p \in Procs : s[p] # "none" =>
         \A pg \in HeapPages(h[p]) : pg \in UserPages /\ m[rt[p]][pg] \in HeapUses

CpuOK(s, rt, c) ==
    /\ current \in Procs \cup {Kernel}
    /\ current \in Procs => s[current] = "Running"
    /\ c = IF current = Kernel THEN KernelRoot ELSE rt[current]

Good(s, rt, h, pa, n, t, m, c) ==
    /\ LifeOK(s, rt, h, pa) /\ PidsOK(s, n) /\ RootsOK(s, rt, t)
    /\ MapsOK(s, rt, h, t, m) /\ CpuOK(s, rt, c)

GoodNow == Good(state, root, heap, parent, pids, tables, mapped, cr3)

(* What the call under way found, and what it has done to it.              *)
state0 == call.before[1]
root0 == call.before[2]
heap0 == call.before[3]
parent0 == call.before[4]
pids0 == call.before[5]
tables0 == call.before[6]
mapped0 == call.before[7]
cr30 == call.before[8]

Before == Good(state0, root0, heap0, parent0, pids0, tables0, mapped0, cr30)

CallShape ==
    /\ call = [op |-> call.op, step |-> call.step, proc |-> call.proc, elf |-> call.elf,
               new |-> call.new, old |-> call.old, prev |-> call.prev,
               prevLoad |-> call.prevLoad, at |-> call.at, before |-> call.before]
    /\ call.before = <<state0, root0, heap0, parent0, pids0, tables0, mapped0, cr30>>

SpawnOK ==
    /\ call.proc = InitProc /\ current = Kernel /\ pids0 = 0 /\ call.elf \in Executables
    /\ call.step \in {"load", "segments", "loaded", "failed"}
    /\ state = [state0 EXCEPT ![InitProc] = "new"]
    /\ root = [root0 EXCEPT ![InitProc] = call.new]
    /\ pids = 1 /\ tables = tables0 \cup {call.new}
    /\ cr3 = IF call.step = "segments" THEN call.new ELSE KernelRoot
    /\ call.step = "segments" => call.prevLoad = KernelRoot

ForkOK ==
    /\ call.proc \in Procs \ {InitProc} /\ current \in Procs /\ state0[call.proc] = "none"
    /\ call.step \in {"clone", "pid", "thread", "undone"}
    /\ cr3 = cr30
    /\ call.step # "undone" => tables = tables0 \cup {call.new}
    /\ call.step \in {"clone", "pid"} => state = state0 /\ root = root0 /\ pids = pids0
    /\ call.step = "thread" => /\ state = [state0 EXCEPT ![call.proc] = "new"]
                               /\ root = [root0 EXCEPT ![call.proc] = call.new]
                               /\ pids0 < MaxPids /\ pids = pids0 + 1
    /\ call.step \in {"pid", "thread"} => mapped[call.new] = mapped0[root0[current]]

ExecOK ==
    /\ call.proc = current /\ current \in Procs /\ call.elf \in Executables
    /\ call.old = root0[current] /\ call.prev = cr30
    /\ state = state0 /\ pids = pids0
    /\ call.step \in {"load", "segments", "loaded", "failed", "restored", "undone"}
    /\ call.step # "undone" => tables = tables0 \cup {call.new}
    /\ call.step \in {"load", "segments", "loaded", "failed"} =>
         root = [root0 EXCEPT ![current] = call.new] /\ cr3 = call.new
    /\ call.step = "segments" => call.prevLoad = call.new
    /\ call.step = "restored" => root = root0 /\ cr3 = cr30

CallOK ==
    /\ CallShape /\ Before
    /\ call.new \in Roots \ tables0
    /\ mapped \in [Roots -> [UserPages -> Uses]]
    /\ \A r \in Roots : r # call.new => mapped[r] = mapped0[r]
    /\ heap = heap0 /\ parent = parent0
    /\ call.op \in {"spawn", "fork", "exec"}
    /\ call.op = "spawn" => SpawnOK
    /\ call.op = "fork" => ForkOK
    /\ call.op = "exec" => ExecOK
    /\ call.step = "undone" => memory = call.before

IInv == IF Idle THEN GoodNow ELSE CallOK

USE ElfAssumption

----------------------------------------------------------------------------
(* Page arithmetic: quotient and remainder.                                *)
LEMMA DivMod ==
  ASSUME NEW a \in Nat
  PROVE  /\ a \div PageBytes \in Nat /\ a % PageBytes \in 0..(PageBytes - 1)
         /\ a = PageBytes * (a \div PageBytes) + (a % PageBytes)
OBVIOUS

(* The number of whole pages below an address grows with it.               *)
LEMMA DivMono ==
  ASSUME NEW a \in Nat, NEW b \in Nat, a <= b
  PROVE  a \div PageBytes <= b \div PageBytes
OBVIOUS

(* Rounding up leaves the start of a page alone.                           *)
LEMMA AlignUpStart ==
  ASSUME NEW b \in Nat, NEW q \in Nat, b = PageBytes * q
  PROVE  AlignUp(b) = b
<1>1. b + PageBytes - 1 \in Nat
  OBVIOUS
<1>2. (b + PageBytes - 1) % PageBytes = PageBytes - 1
  <2> DEFINE k == (b + PageBytes - 1) \div PageBytes
             r == (b + PageBytes - 1) % PageBytes
  <2>1. k \in Nat /\ r \in 0..(PageBytes - 1) /\ b + PageBytes - 1 = PageBytes * k + r
    BY <1>1, DivMod
  <2> HIDE DEF k, r
  <2>2. PageBytes * (k - q) = PageBytes - 1 - r
    BY <2>1
  <2>3. k - q <= 0 => PageBytes * (k - q) <= 0
    BY <2>1
  <2>4. k - q >= 1 => PageBytes * (k - q) >= PageBytes
    BY <2>1
  <2>5. r = PageBytes - 1
    BY <2>1, <2>2, <2>3, <2>4
  <2> QED  BY <2>5 DEF r
<1> QED  BY <1>1, <1>2 DEF AlignUp, AlignDown

(* Rounding up gives the start of the page that the last byte before it is *)
(* on, or of the next.                                                     *)
LEMMA AlignUpQuotient ==
  ASSUME NEW a \in Nat
  PROVE  /\ (a + PageBytes - 1) \div PageBytes \in Nat
         /\ AlignUp(a) = PageBytes * ((a + PageBytes - 1) \div PageBytes)
         /\ AlignUp(a) \in Nat
<1> DEFINE b == a + PageBytes - 1
           q == b \div PageBytes
<1>1. b \in Nat
  OBVIOUS
<1>2. AlignUp(a) = b - (b % PageBytes)
  BY DEF AlignUp, AlignDown
<1> HIDE DEF b
<1>3. q \in Nat /\ b % PageBytes \in 0..(PageBytes - 1) /\ b = PageBytes * q + (b % PageBytes)
  BY <1>1, DivMod
<1> HIDE DEF q
<1>4. PageBytes * q \in Nat
  BY <1>3
<1>5. AlignUp(a) = PageBytes * q
  BY <1>1, <1>2, <1>3, <1>4
<1> QED  BY <1>3, <1>4, <1>5 DEF b, q

(* Rounding up gives the start of a page.                                  *)
LEMMA AlignUpPage ==
  ASSUME NEW a \in Nat
  PROVE  AlignUp(a) \in Nat /\ AlignUp(AlignUp(a)) = AlignUp(a)
BY AlignUpQuotient, AlignUpStart

(* Rounding up keeps the order of addresses.                               *)
LEMMA AlignUpMono ==
  ASSUME NEW a \in Nat, NEW b \in Nat, a <= b
  PROVE  AlignUp(a) <= AlignUp(b)
<1> DEFINE q == (a + PageBytes - 1) \div PageBytes
           r == (b + PageBytes - 1) \div PageBytes
<1>1. q \in Nat /\ r \in Nat /\ AlignUp(a) = PageBytes * q /\ AlignUp(b) = PageBytes * r
  BY AlignUpQuotient
<1>2. q <= r
  <2>1. a + PageBytes - 1 \in Nat /\ b + PageBytes - 1 \in Nat
        /\ a + PageBytes - 1 <= b + PageBytes - 1
    OBVIOUS
  <2> QED  BY <2>1, DivMono
<1> HIDE DEF q, r
<1>3. PageBytes * (r - q) >= 0
  BY <1>1, <1>2
<1> QED  BY <1>1, <1>3

(* The heap of a program that has just been loaded is empty.               *)
LEMMA HeapBaseOK ==
  ASSUME NEW elf \in Executables
  PROVE  /\ HeapBase(elf) \in Nat
         /\ HeapPages([start |-> HeapBase(elf), end |-> HeapBase(elf)]) = {}
<1> DEFINE segs == elf.segments
           S == 1..Len(segs)
           ends == {Vaddr(elf, i) + segs[i].memsz : i \in PtLoad(elf)}
           last == CHOOSE e \in ends : \A f \in ends : f <= e
<1>1. segs \in Seq([load : BOOLEAN, vaddr : Nat, memsz : Nat])
  BY SpacesAssumption
<1> HIDE DEF segs
<1>2. /\ Len(segs) \in Nat /\ DOMAIN segs = S
      /\ \A i \in S : segs[i].vaddr \in Nat /\ segs[i].memsz \in Nat
  <2>1. Len(segs) \in Nat /\ DOMAIN segs = S
    BY <1>1
  <2>2. ASSUME NEW T, segs \in Seq(T) PROVE \A i \in S : segs[i] \in T
    BY <2>2
  <2>3. \A i \in S : segs[i] \in [load : BOOLEAN, vaddr : Nat, memsz : Nat]
    BY <1>1, <2>2
  <2> QED  BY <2>1, <2>3
<1>3. PtLoad(elf) \subseteq S
  BY <1>2 DEF PtLoad, segs
<1>4. \A i \in S : Vaddr(elf, i) + segs[i].memsz \in Nat
  <2>1. EffectiveBias(elf) \in Nat
    BY DEF EffectiveBias
  <2>2. \A i \in S : Vaddr(elf, i) = segs[i].vaddr + EffectiveBias(elf)
    BY DEF Vaddr, segs
  <2> QED  BY <1>2, <2>1, <2>2
<1>5. ends \subseteq Nat
  BY <1>3, <1>4
<1>6. IsFiniteSet(ends)
  <2> DEFINE f == [i \in PtLoad(elf) |-> Vaddr(elf, i) + segs[i].memsz]
  <2>1. IsFiniteSet(S)
    BY <1>2, FS_Interval
  <2>2. IsFiniteSet(PtLoad(elf))
    BY <1>3, <2>1, FS_Subset
  <2>3. f \in Surjection(PtLoad(elf), ends)
    BY DEF Surjection
  <2> QED  BY <2>2, <2>3, FS_Surjection
<1>7. HeapBase(elf) = IF ends = {} THEN 0 ELSE AlignUp(last)
  BY DEF HeapBase, segs
<1>8. ends # {} => last \in Nat
  <2> SUFFICES ASSUME ends # {} PROVE last \in Nat
    OBVIOUS
  <2> HIDE DEF ends
  <2>1. \E e \in ends : \A f \in ends : f <= e
    BY <1>5, <1>6, GreatestElement
  <2> QED  BY <1>5, <2>1
<1> HIDE DEF ends, last
<1>9. AlignUp(0) = 0
  <2>1. 0 = PageBytes * 0
    OBVIOUS
  <2> QED  BY <2>1, AlignUpStart
<1>10. HeapBase(elf) \in Nat /\ AlignUp(HeapBase(elf)) = HeapBase(elf)
  BY <1>7, <1>8, <1>9, AlignUpPage
<1>11. ASSUME NEW b \in Nat, AlignUp(b) = b
       PROVE  HeapPages([start |-> b, end |-> b]) = {}
  <2>1. HeapPages([start |-> b, end |-> b]) = (b \div PageBytes)..(b \div PageBytes - 1)
    BY <1>11 DEF HeapPages, PagesIn
  <2>2. b \div PageBytes \in Nat
    BY DivMod
  <2> QED  BY <2>1, <2>2
<1> QED  BY <1>10, <1>11

----------------------------------------------------------------------------
(* What a call found does not change while it is under way.                *)
Same ==
    /\ call'.op = call.op /\ call'.proc = call.proc /\ call'.elf = call.elf
    /\ call'.new = call.new /\ call'.old = call.old /\ call'.prev = call.prev
    /\ call'.before = call.before

USE DEF state0, root0, heap0, parent0, pids0, tables0, mapped0, cr30

(* A call takes its first step.                                            *)
LEMMA BeginOK ==
  ASSUME GoodNow, NEW op \in {"spawn", "fork", "exec"}, NEW p, NEW elf, NEW new, NEW step,
         Begin(op, p, elf, new, step), UNCHANGED current
  PROVE  /\ CallShape' /\ Before' /\ ~Idle'
         /\ call'.op = op /\ call'.step = step /\ call'.proc = p /\ call'.elf = elf
         /\ call'.new = new /\ call'.old = root[p] /\ call'.prev = cr3
         /\ call'.before = memory
<1>1. call' = [op |-> op, step |-> step, proc |-> p, elf |-> elf, new |-> new,
               old |-> root[p], prev |-> cr3, prevLoad |-> cr3, at |-> 1, before |-> memory]
  BY DEF Begin
<1>2. /\ call'.op = op /\ call'.step = step /\ call'.proc = p /\ call'.elf = elf
      /\ call'.new = new /\ call'.old = root[p] /\ call'.prev = cr3
      /\ call'.before = memory
  BY <1>1
<1>3. CallShape'
  BY <1>1 DEF CallShape, memory
<1>4. ~Idle'
  BY <1>2 DEF Idle, NoCall
<1>5. Before'
  <2>1. /\ state0' = state /\ root0' = root /\ heap0' = heap /\ parent0' = parent
        /\ pids0' = pids /\ tables0' = tables /\ mapped0' = mapped /\ cr30' = cr3
    BY <1>2 DEF memory
  <2> QED
    BY <2>1 DEF Before, GoodNow, Good, LifeOK, Alive, PidsOK, RootsOK, MapsOK, CpuOK
<1> QED  BY <1>2, <1>3, <1>4, <1>5

(* The record of a call with another step, prevLoad and at.                *)
CallAt(step, prevLoad, at) ==
    [op |-> call.op, step |-> step, proc |-> call.proc, elf |-> call.elf,
     new |-> call.new, old |-> call.old, prev |-> call.prev,
     prevLoad |-> prevLoad, at |-> at, before |-> call.before]

(* The updates of the call's record that the steps make.                   *)
LEMMA CallUpdates ==
  ASSUME CallShape, NEW s, NEW x
  PROVE  /\ [call EXCEPT !.step = s] = CallAt(s, call.prevLoad, call.at)
         /\ [call EXCEPT !.step = s, !.prevLoad = x] = CallAt(s, x, call.at)
         /\ [call EXCEPT !.at = x] = CallAt(call.step, call.prevLoad, x)
<1>1. [call EXCEPT !.step = s] = CallAt(s, call.prevLoad, call.at)
  BY DEF CallShape, CallAt
<1>2. [call EXCEPT !.at = x] = CallAt(call.step, call.prevLoad, x)
  BY DEF CallShape, CallAt
<1> DEFINE d == [call EXCEPT !.step = s]
<1>3. d = [op |-> d.op, step |-> d.step, proc |-> d.proc, elf |-> d.elf,
           new |-> d.new, old |-> d.old, prev |-> d.prev,
           prevLoad |-> d.prevLoad, at |-> d.at, before |-> d.before]
      /\ d.op = call.op /\ d.step = s /\ d.proc = call.proc /\ d.elf = call.elf
      /\ d.new = call.new /\ d.old = call.old /\ d.prev = call.prev /\ d.at = call.at
      /\ d.before = call.before
  BY <1>1 DEF CallAt
<1> HIDE DEF d
<1>4. [d EXCEPT !.prevLoad = x]
        = [op |-> d.op, step |-> d.step, proc |-> d.proc, elf |-> d.elf,
           new |-> d.new, old |-> d.old, prev |-> d.prev,
           prevLoad |-> x, at |-> d.at, before |-> d.before]
  BY <1>3
<1>5. [d EXCEPT !.prevLoad = x] = CallAt(s, x, call.at)
  BY <1>3, <1>4 DEF CallAt
<1>6. [call EXCEPT !.step = s, !.prevLoad = x] = CallAt(s, x, call.at)
  BY <1>5 DEF d
<1> QED  BY <1>1, <1>2, <1>6

(* A call goes to its next step.                                           *)
LEMMA GoesOnOK ==
  ASSUME CallOK, NEW s, NEW pl, NEW at, call' = CallAt(s, pl, at), UNCHANGED current
  PROVE  /\ CallShape' /\ Before' /\ ~Idle' /\ Same
         /\ call'.step = s /\ call'.prevLoad = pl
<1>1. Same /\ call'.step = s /\ call'.prevLoad = pl
  BY DEF Same, CallAt
<1>2. CallShape'
  BY DEF CallOK, CallShape, CallAt
<1>3. ~Idle'
  BY <1>1 DEF Same, Idle, NoCall, CallOK
<1>4. Before'
  <2>1. call'.before = call.before
    BY <1>1 DEF Same
  <2>2. /\ state0' = state0 /\ root0' = root0 /\ heap0' = heap0 /\ parent0' = parent0
        /\ pids0' = pids0 /\ tables0' = tables0 /\ mapped0' = mapped0 /\ cr30' = cr30
    BY <2>1
  <2> QED
    BY <2>2 DEF Before, CallOK, Good, LifeOK, Alive, PidsOK, RootsOK, MapsOK, CpuOK
<1> QED  BY <1>1, <1>2, <1>3, <1>4

(* A step of a call that works on its own space only.                      *)
LEMMA StepOK ==
  ASSUME CallOK, NEW s, NEW pl, NEW at, call' = CallAt(s, pl, at), UNCHANGED current,
         mapped' \in [Roots -> [UserPages -> Uses]],
         \A r \in Roots : r # call.new => mapped'[r] = mapped[r],
         heap' = heap, parent' = parent,
         call.op = "spawn" => SpawnOK', call.op = "fork" => ForkOK', call.op = "exec" => ExecOK',
         s = "undone" => memory' = call.before
  PROVE  IInv'
<1>1. CallShape' /\ Before' /\ ~Idle' /\ Same /\ call'.step = s
  BY GoesOnOK
<1>2. CallOK'
  <2>1. call'.op = call.op /\ call'.new = call.new /\ call'.before = call.before
    BY <1>1 DEF Same
  <2>2. call.new \in Roots \ tables0 /\ heap = heap0 /\ parent = parent0
        /\ call.op \in {"spawn", "fork", "exec"}
        /\ \A r \in Roots : r # call.new => mapped[r] = mapped0[r]
    BY DEF CallOK
  <2> QED  BY <1>1, <2>1, <2>2 DEF CallOK
<1> QED  BY <1>1, <1>2 DEF IInv

(* The facts about a call that its steps use.                              *)
LEMMA CallFacts ==
  ASSUME CallOK
  PROVE  /\ CallShape /\ Before /\ call.op \in {"spawn", "fork", "exec"}
         /\ call.op = "spawn" => SpawnOK
         /\ call.op = "fork" => ForkOK
         /\ call.op = "exec" => ExecOK
         /\ call.new \in Roots /\ call.new \notin tables0
         /\ mapped \in [Roots -> [UserPages -> Uses]]
         /\ mapped0 \in [Roots -> [UserPages -> Uses]] /\ mapped0[call.new] = Unmapped
         /\ \A r \in Roots : r # call.new => mapped[r] = mapped0[r]
         /\ heap = heap0 /\ parent = parent0
BY DEF CallOK, Before, Good, MapsOK

(* ElfLoader::Load.                                                        *)
LEMMA LoadStepsOK ==
  ASSUME CallOK, LoadStarts \/ LoadSegment \/ LoadStack \/ LoadFails
  PROVE  IInv'
<1>1. call.step \in {"load", "segments"} /\ UNCHANGED <<state, root, heap, parent, pids, tables, current>>
  BY DEF LoadStarts, LoadSegment, LoadStack, LoadFails
<1>2. call.op \in {"spawn", "exec"}
  BY <1>1, CallFacts DEF ForkOK
<1>3. CASE LoadStarts
  <2>1. cr3' = call.new /\ mapped' = mapped /\ call.step = "load"
        /\ call' = [call EXCEPT !.step = "segments", !.prevLoad = cr3]
    BY <1>3 DEF LoadStarts
  <2>2. call' = CallAt("segments", cr3, call.at)
    BY <2>1, CallFacts, CallUpdates
  <2>3. Same /\ call'.step = "segments" /\ call'.prevLoad = cr3
    BY <1>1, <2>2, GoesOnOK
  <2>4. call.op = "spawn" => SpawnOK'
    BY <1>1, <2>1, <2>3, CallFacts DEF Same, SpawnOK
  <2>5. call.op = "exec" => ExecOK'
    BY <1>1, <2>1, <2>3, CallFacts DEF Same, ExecOK
  <2> QED  BY <1>1, <1>2, <2>1, <2>2, <2>4, <2>5, CallFacts, StepOK
<1>4. CASE LoadSegment
  <2>1. cr3' = cr3 /\ call.step = "segments" /\ call' = [call EXCEPT !.at = call.at + 1]
    BY <1>4 DEF LoadSegment
  <2>2. call' = CallAt("segments", call.prevLoad, call.at + 1)
    BY <2>1, CallFacts, CallUpdates
  <2>3. Same /\ call'.step = "segments" /\ call'.prevLoad = call.prevLoad
    BY <1>1, <2>2, GoesOnOK
  <2>4. mapped' \in [Roots -> [UserPages -> Uses]]
        /\ \A r \in Roots : r # call.new => mapped'[r] = mapped[r]
    <3> DEFINE pages == SegmentPages(call.elf, call.at)
               table == [pg \in UserPages |-> IF pg \in pages THEN "image" ELSE mapped[call.new][pg]]
    <3>1. mapped' = mapped \/ mapped' = [mapped EXCEPT ![call.new] = table]
      BY <1>4 DEF LoadSegment
    <3>2. table \in [UserPages -> Uses]
      BY CallFacts DEF Uses
    <3> HIDE DEF table
    <3> QED  BY <3>1, <3>2, CallFacts
  <2>5. call.op = "spawn" => SpawnOK'
    BY <1>1, <2>1, <2>3, CallFacts DEF Same, SpawnOK
  <2>6. call.op = "exec" => ExecOK'
    BY <1>1, <2>1, <2>3, CallFacts DEF Same, ExecOK
  <2> QED  BY <1>1, <1>2, <2>2, <2>4, <2>5, <2>6, StepOK
<1>5. CASE LoadStack
  <2>1. /\ cr3' = call.prevLoad /\ call.step = "segments" /\ call' = [call EXCEPT !.step = "loaded"]
        /\ mapped' = [mapped EXCEPT ![call.new][StackPage] = "stack"]
    BY <1>5 DEF LoadStack, Goto
  <2>2. call' = CallAt("loaded", call.prevLoad, call.at)
    BY <2>1, CallFacts, CallUpdates
  <2>3. Same /\ call'.step = "loaded"
    BY <1>1, <2>2, GoesOnOK
  <2>4. mapped' \in [Roots -> [UserPages -> Uses]]
        /\ \A r \in Roots : r # call.new => mapped'[r] = mapped[r]
    BY <2>1, CallFacts, SpacesAssumption DEF Uses
  <2>5. call.op = "spawn" => SpawnOK'
    BY <1>1, <2>1, <2>3, CallFacts DEF Same, SpawnOK
  <2>6. call.op = "exec" => ExecOK'
    BY <1>1, <2>1, <2>3, CallFacts DEF Same, ExecOK
  <2> QED  BY <1>1, <1>2, <2>2, <2>4, <2>5, <2>6, StepOK
<1>6. CASE LoadFails
  <2>1. /\ cr3' = IF call.step = "segments" THEN call.prevLoad ELSE cr3
        /\ call' = [call EXCEPT !.step = "failed"] /\ mapped' = mapped
    BY <1>6 DEF LoadFails, Goto
  <2>2. call' = CallAt("failed", call.prevLoad, call.at)
    BY <2>1, CallFacts, CallUpdates
  <2>3. Same /\ call'.step = "failed"
    BY <1>1, <2>2, GoesOnOK
  <2>4. call.op = "spawn" => SpawnOK'
    BY <1>1, <2>1, <2>3, CallFacts DEF Same, SpawnOK
  <2>5. call.op = "exec" => ExecOK'
    BY <1>1, <2>1, <2>3, CallFacts DEF Same, ExecOK
  <2> QED  BY <1>1, <1>2, <2>1, <2>2, <2>4, <2>5, CallFacts, StepOK
<1> QED  BY <1>3, <1>4, <1>5, <1>6

(* Destroy of the call's new space brings back the frames and mappings     *)
(* that the call found.                                                    *)
LEMMA DestroyNew ==
  ASSUME CallOK, tables = tables0 \cup {call.new}, Destroy(call.new)
  PROVE  tables' = tables0 /\ mapped' = mapped0
<1>1. tables' = tables0
  BY CallFacts DEF Destroy
<1>2. mapped' = [mapped EXCEPT ![call.new] = Unmapped]
  BY DEF Destroy
<1>3. \A r \in Roots : mapped'[r] = mapped0[r]
  BY <1>2, CallFacts
<1>4. mapped' = mapped0
  BY <1>2, <1>3, CallFacts
<1> QED  BY <1>1, <1>4

(* The steps of Fork before the child runs.                                *)
LEMMA ForkStepsOK ==
  ASSUME CallOK, ForkClone \/ ForkSpaceFails \/ ForkPid \/ ForkThreadFails
  PROVE  IInv'
<1> DEFINE p == call.proc
<1>1. call.op = "fork" /\ ForkOK /\ UNCHANGED <<cr3, current>>
  BY CallFacts DEF ForkClone, ForkSpaceFails, ForkPid, ForkThreadFails, In
<1>2. /\ p \in Procs /\ p # InitProc /\ current \in Procs /\ current # p
      /\ state0 \in [Procs -> {"none", "Running", "Zombie"}] /\ state0[p] = "none"
      /\ state0[current] = "Running"
      /\ root0 \in [Procs -> Roots \cup {NoRoot}] /\ root0[p] = NoRoot /\ root0[current] \in Roots
      /\ heap0 \in [Procs -> [start : Nat, end : Nat]] /\ heap0[p] = NoHeap
      /\ parent0 \in [Procs -> Procs \cup {Kernel}] /\ parent0[p] = Kernel
      /\ root0[current] \in tables0 /\ pids0 \in Nat
  <2>1. Before /\ ForkOK
    BY <1>1, CallFacts
  <2>2. p \in Procs /\ p # InitProc /\ current \in Procs /\ state0[p] = "none"
    BY <2>1 DEF ForkOK
  <2>3. /\ state0 \in [Procs -> {"none", "Running", "Zombie"}]
        /\ root0 \in [Procs -> Roots \cup {NoRoot}] /\ root0[p] = NoRoot
        /\ heap0 \in [Procs -> [start : Nat, end : Nat]] /\ heap0[p] = NoHeap
        /\ parent0 \in [Procs -> Procs \cup {Kernel}] /\ parent0[p] = Kernel
    BY <2>1, <2>2 DEF Before, Good, LifeOK
  <2>4. state0[current] = "Running" /\ current # p
    BY <2>1, <2>2, SpacesAssumption DEF Before, Good, CpuOK
  <2>5. root0[current] \in Roots
    BY <2>1, <2>2, <2>3, <2>4 DEF Before, Good, LifeOK
  <2>6. root0[current] \in tables0
    BY <2>1, <2>2, <2>4, <2>5 DEF Before, Good, RootsOK
  <2>7. pids0 \in Nat
    BY <2>1, SpacesAssumption DEF Before, Good, PidsOK
  <2> QED  BY <2>2, <2>3, <2>4, <2>5, <2>6, <2>7
<1>3. CASE ForkClone
  <2>1. /\ call.step = "clone" /\ mapped' = [mapped EXCEPT ![call.new] = mapped[root[current]]]
        /\ call' = [call EXCEPT !.step = "pid"]
        /\ UNCHANGED <<state, root, heap, parent, pids, tables>>
    BY <1>3 DEF ForkClone, In, Goto
  <2>2. call' = CallAt("pid", call.prevLoad, call.at)
    BY <2>1, CallFacts, CallUpdates
  <2>3. Same /\ call'.step = "pid"
    BY <1>1, <2>2, GoesOnOK
  <2>4. root = root0 /\ call.new # root0[current]
    BY <1>1, <1>2, <2>1, CallFacts DEF ForkOK
  <2>5. /\ mapped' \in [Roots -> [UserPages -> Uses]]
        /\ \A r \in Roots : r # call.new => mapped'[r] = mapped[r]
        /\ mapped'[call.new] = mapped0[root0[current]]
    BY <1>2, <2>1, <2>4, CallFacts
  <2>6. ForkOK'
    BY <1>1, <2>1, <2>3, <2>5 DEF Same, ForkOK
  <2> QED  BY <1>1, <2>1, <2>2, <2>5, <2>6, StepOK
<1>4. CASE ForkSpaceFails
  <2>1. /\ call.step \in {"clone", "pid"} /\ Destroy(call.new)
        /\ call' = [call EXCEPT !.step = "undone"]
        /\ UNCHANGED <<state, root, heap, parent, pids>>
    BY <1>4 DEF ForkSpaceFails, In, Goto
  <2>2. call' = CallAt("undone", call.prevLoad, call.at)
    BY <2>1, CallFacts, CallUpdates
  <2>3. Same /\ call'.step = "undone"
    BY <1>1, <2>2, GoesOnOK
  <2>4. tables' = tables0 /\ mapped' = mapped0
    BY <1>1, <2>1, DestroyNew DEF ForkOK
  <2>5. memory' = call.before
    BY <1>1, <2>1, <2>4, CallFacts DEF ForkOK, memory, CallShape
  <2>6. ForkOK'
    BY <1>1, <2>1, <2>3 DEF Same, ForkOK
  <2> QED  BY <1>1, <2>1, <2>2, <2>4, <2>5, <2>6, CallFacts, StepOK
<1>5. CASE ForkPid
  <2>1. /\ call.step = "pid" /\ pids < MaxPids /\ pids' = pids + 1
        /\ state' = [state EXCEPT ![p] = "new"]
        /\ root' = [root EXCEPT ![p] = call.new]
        /\ call' = [call EXCEPT !.step = "thread"]
        /\ UNCHANGED <<heap, parent, tables, mapped>>
    BY <1>5 DEF ForkPid, In, Goto
  <2>2. call' = CallAt("thread", call.prevLoad, call.at)
    BY <2>1, CallFacts, CallUpdates
  <2>3. Same /\ call'.step = "thread"
    BY <1>1, <2>2, GoesOnOK
  <2>4. ForkOK'
    BY <1>1, <2>1, <2>3 DEF Same, ForkOK
  <2> QED  BY <1>1, <2>1, <2>2, <2>4, CallFacts, StepOK
<1>6. CASE ForkThreadFails
  <2>1. /\ call.step = "thread" /\ Destroy(root[p]) /\ pids' = pids - 1
        /\ state' = [state EXCEPT ![p] = "none"]
        /\ root' = [root EXCEPT ![p] = NoRoot]
        /\ heap' = [heap EXCEPT ![p] = NoHeap]
        /\ parent' = [parent EXCEPT ![p] = Kernel]
        /\ call' = [call EXCEPT !.step = "undone"]
    BY <1>2, <1>6 DEF ForkThreadFails, DeleteProcess, In, Goto
  <2>2. call' = CallAt("undone", call.prevLoad, call.at)
    BY <2>1, CallFacts, CallUpdates
  <2>3. Same /\ call'.step = "undone"
    BY <1>1, <2>2, GoesOnOK
  <2>4. /\ state = [state0 EXCEPT ![p] = "new"] /\ root = [root0 EXCEPT ![p] = call.new]
        /\ pids = pids0 + 1 /\ tables = tables0 \cup {call.new}
    BY <1>1, <2>1 DEF ForkOK
  <2>5. state' = state0 /\ root' = root0 /\ root[p] = call.new
    BY <1>2, <2>1, <2>4
  <2>6. heap' = heap0 /\ parent' = parent0 /\ heap' = heap /\ parent' = parent
    BY <1>2, <2>1, CallFacts
  <2>7. pids' = pids0
    BY <1>2, <2>1, <2>4
  <2>8. tables' = tables0 /\ mapped' = mapped0
    BY <2>1, <2>4, <2>5, DestroyNew
  <2>9. memory' = call.before
    BY <1>1, <2>5, <2>6, <2>7, <2>8, CallFacts DEF ForkOK, memory, CallShape
  <2>10. ForkOK'
    BY <1>1, <2>3 DEF Same, ForkOK
  <2> QED  BY <1>1, <2>2, <2>6, <2>8, <2>9, <2>10, CallFacts, StepOK
<1> QED  BY <1>3, <1>4, <1>5, <1>6

(* An execve that fails goes back to the old space before the new one goes.*)
LEMMA ExecStepsOK ==
  ASSUME CallOK, ExecRestores \/ ExecFails
  PROVE  IInv'
<1>1. call.op = "exec" /\ ExecOK /\ UNCHANGED <<state, heap, parent, pids, current>>
  BY CallFacts DEF ExecRestores, ExecFails, In
<1>2. /\ current \in Procs /\ root0 \in [Procs -> Roots \cup {NoRoot}]
      /\ call.proc = current /\ call.old = root0[current] /\ call.prev = cr30
  BY <1>1, CallFacts DEF ExecOK, Before, Good, LifeOK
<1>3. CASE ExecRestores
  <2>1. /\ call.step = "failed" /\ root' = [root EXCEPT ![call.proc] = call.old]
        /\ cr3' = call.prev /\ call' = [call EXCEPT !.step = "restored"]
        /\ UNCHANGED <<tables, mapped>>
    BY <1>3 DEF ExecRestores, In, Goto
  <2>2. call' = CallAt("restored", call.prevLoad, call.at)
    BY <2>1, CallFacts, CallUpdates
  <2>3. Same /\ call'.step = "restored"
    BY <1>1, <2>2, GoesOnOK
  <2>4. root = [root0 EXCEPT ![current] = call.new]
    BY <1>1, <2>1 DEF ExecOK
  <2>5. root' = root0
    BY <1>2, <2>1, <2>4
  <2>6. ExecOK'
    BY <1>1, <1>2, <2>1, <2>3, <2>5 DEF Same, ExecOK
  <2> QED  BY <1>1, <2>1, <2>2, <2>6, CallFacts, StepOK
<1>4. CASE ExecFails
  <2>1. /\ call.step = "restored" /\ Destroy(call.new) /\ call' = [call EXCEPT !.step = "undone"]
        /\ UNCHANGED <<root, cr3>>
    BY <1>4 DEF ExecFails, In, Goto
  <2>2. call' = CallAt("undone", call.prevLoad, call.at)
    BY <2>1, CallFacts, CallUpdates
  <2>3. Same /\ call'.step = "undone"
    BY <1>1, <2>2, GoesOnOK
  <2>4. tables' = tables0 /\ mapped' = mapped0
    BY <1>1, <2>1, DestroyNew DEF ExecOK
  <2>5. memory' = call.before
    BY <1>1, <2>1, <2>4, CallFacts DEF ExecOK, memory, CallShape
  <2>6. ExecOK'
    BY <1>1, <2>1, <2>3 DEF Same, ExecOK
  <2> QED  BY <1>1, <2>2, <2>4, <2>5, <2>6, CallFacts, StepOK
<1> QED  BY <1>3, <1>4

(* The first steps of Spawn, Fork and execve.                              *)
LEMMA BeginStepsOK ==
  ASSUME Idle, GoodNow, NEW r \in Roots, NEW elf, NEW p \in Procs, NEW child \in Procs,
         \/ elf \in Executables /\ (SpawnCreate(elf, r) \/ ExecCreate(p, elf, r))
         \/ ForkCreate(p, child, r)
  PROVE  IInv'
<1>1. /\ r \notin tables /\ tables' = tables \cup {r} /\ current' = current
      /\ mapped' = mapped /\ heap' = heap /\ parent' = parent
  BY DEF SpawnCreate, ForkCreate, ExecCreate, Create
<1>2. /\ mapped \in [Roots -> [UserPages -> Uses]]
      /\ cr3 = IF current = Kernel THEN KernelRoot ELSE root[current]
      /\ Kernel \notin Procs
  BY SpacesAssumption DEF GoodNow, Good, MapsOK, CpuOK
<1>3. ASSUME NEW op \in {"spawn", "fork", "exec"}, NEW q, NEW e, NEW step,
             Begin(op, q, e, r, step), step # "undone",
             op = "spawn" => SpawnOK', op = "fork" => ForkOK', op = "exec" => ExecOK'
      PROVE  IInv'
  <2>1. /\ CallShape' /\ Before' /\ ~Idle' /\ call'.op = op /\ call'.step = step
        /\ call'.new = r /\ call'.before = memory
    BY <1>1, <1>3, BeginOK
  <2>2. /\ tables0' = tables /\ mapped0' = mapped /\ heap0' = heap /\ parent0' = parent
    BY <2>1 DEF memory
  <2>3. CallOK'
    BY <1>1, <1>2, <1>3, <2>1, <2>2 DEF CallOK
  <2> QED  BY <2>1, <2>3 DEF IInv
<1>4. ASSUME NEW op \in {"spawn", "fork", "exec"}, NEW q, NEW e, NEW step,
             Begin(op, q, e, r, step)
      PROVE  /\ call'.step = step /\ call'.proc = q /\ call'.elf = e
             /\ call'.new = r /\ call'.old = root[q] /\ call'.prev = cr3
             /\ state0' = state /\ root0' = root /\ pids0' = pids /\ tables0' = tables
             /\ cr30' = cr3
  <2>1. /\ call'.step = step /\ call'.proc = q /\ call'.elf = e
        /\ call'.new = r /\ call'.old = root[q] /\ call'.prev = cr3 /\ call'.before = memory
    BY <1>1, <1>4, BeginOK
  <2> QED  BY <2>1 DEF memory
<1>5. CASE elf \in Executables /\ SpawnCreate(elf, r)
  <2>1. /\ Begin("spawn", InitProc, elf, r, "load") /\ pids = 0 /\ pids' = 1 /\ current = Kernel
        /\ state' = [state EXCEPT ![InitProc] = "new"] /\ cr3' = cr3
        /\ root' = [root EXCEPT ![InitProc] = r]
    BY <1>5 DEF SpawnCreate
  <2>2. /\ call'.step = "load" /\ call'.proc = InitProc /\ call'.elf = elf /\ call'.new = r
        /\ state0' = state /\ root0' = root /\ pids0' = pids /\ tables0' = tables
    BY <1>4, <2>1
  <2>3. cr3' = KernelRoot
    BY <1>2, <2>1
  <2>4. SpawnOK'
    BY <1>1, <1>5, <2>1, <2>2, <2>3 DEF SpawnOK
  <2> QED  BY <1>3, <2>1, <2>4
<1>6. CASE ForkCreate(p, child, r)
  <2>1. /\ Begin("fork", child, "none", r, "clone") /\ current = p /\ state[child] = "none"
        /\ child # InitProc /\ UNCHANGED <<state, root, pids, cr3>>
    BY <1>6 DEF ForkCreate
  <2>2. ForkOK'
    BY <1>1, <1>4, <2>1 DEF ForkOK
  <2> QED  BY <1>3, <2>1, <2>2
<1>7. CASE elf \in Executables /\ ExecCreate(p, elf, r)
  <2>1. /\ Begin("exec", p, elf, r, "load") /\ current = p /\ cr3' = r
        /\ root' = [root EXCEPT ![p] = r] /\ UNCHANGED <<state, pids>>
    BY <1>7 DEF ExecCreate
  <2>2. /\ call'.step = "load" /\ call'.proc = p /\ call'.elf = elf /\ call'.new = r
        /\ call'.old = root[p] /\ call'.prev = cr3 /\ state0' = state /\ root0' = root
        /\ pids0' = pids /\ tables0' = tables /\ cr30' = cr3
    BY <1>4, <2>1
  <2>3. ExecOK'
    BY <1>1, <1>7, <2>1, <2>2 DEF ExecOK
  <2> QED  BY <1>3, <2>1, <2>3
<1> QED  BY <1>5, <1>6, <1>7

(* Spawn begins with no process at all.                                    *)
LEMMA SpawnFacts ==
  ASSUME CallOK, call.op = "spawn"
  PROVE  /\ state0 \in [Procs -> {"none", "Running", "Zombie"}]
         /\ root0 \in [Procs -> Roots \cup {NoRoot}]
         /\ heap0 \in [Procs -> [start : Nat, end : Nat]]
         /\ parent0 \in [Procs -> Procs \cup {Kernel}]
         /\ \A p \in Procs : /\ state0[p] = "none" /\ root0[p] = NoRoot
                             /\ heap0[p] = NoHeap /\ parent0[p] = Kernel
         /\ tables0 = {} /\ \A r \in Roots : mapped0[r] = Unmapped
<1>1. Before /\ pids0 = 0
  BY CallFacts DEF SpawnOK
<1>2. \A p \in Procs : state0[p] = "none"
  BY <1>1 DEF Before, Good, PidsOK
<1>3. tables0 = {} /\ \A r \in Roots : mapped0[r] = Unmapped
  BY <1>1, <1>2 DEF Before, Good, RootsOK, MapsOK
<1> QED  BY <1>1, <1>2, <1>3 DEF Before, Good, LifeOK

(* With init or without, a machine of no other process has one PID in use. *)
LEMMA OnePid ==
  ASSUME NEW s, \A p \in Procs \ {InitProc} : s[p] = "none"
  PROVE  PidsOK(s, 1)
<1>1. Alive(s) = {}
  BY DEF Alive
<1>2. Cardinality(Alive(s)) = 0
  BY <1>1, FS_EmptySet
<1> QED  BY <1>2, SpacesAssumption DEF PidsOK

(* Spawn ends.                                                             *)
LEMMA SpawnEndsOK ==
  ASSUME CallOK, SpawnStarts \/ SpawnFails
  PROVE  IInv'
<1>1. /\ call.op = "spawn" /\ SpawnOK /\ call' = NoCall /\ UNCHANGED <<cr3, current>>
      /\ call.step \in {"loaded", "failed"}
  BY CallFacts DEF SpawnStarts, SpawnFails, In, Done
<1>2. /\ current = Kernel /\ cr3 = KernelRoot /\ pids = 1 /\ tables = {call.new}
      /\ state = [state0 EXCEPT ![InitProc] = "new"]
      /\ root = [root0 EXCEPT ![InitProc] = call.new]
      /\ call.elf \in Executables
  BY <1>1, SpawnFacts DEF SpawnOK
<1>3. InitProc \in Procs /\ Kernel \notin Procs /\ NoRoot \notin Roots
  BY SpacesAssumption
<1> DEFINE S == {"none", "Running", "Zombie"}
<1>4. CpuOK(state, root, cr3)'
  BY <1>1, <1>2, <1>3 DEF CpuOK
<1>5. CASE SpawnStarts
  <2> DEFINE b == HeapBase(call.elf)
  <2>1. /\ state' = [state EXCEPT ![InitProc] = "Running"]
        /\ heap' = [heap EXCEPT ![InitProc] = [start |-> b, end |-> b]]
        /\ UNCHANGED <<root, parent, pids, tables, mapped>>
    BY <1>5 DEF SpawnStarts
  <2>2. b \in Nat /\ HeapPages([start |-> b, end |-> b]) = {}
    BY <1>2, HeapBaseOK
  <2> HIDE DEF b
  <2>3. /\ state' \in [Procs -> S] /\ state'[InitProc] = "Running"
        /\ \A p \in Procs : p # InitProc => state'[p] = "none"
    BY <1>1, <1>2, <1>3, <2>1, SpawnFacts
  <2>4. /\ root' \in [Procs -> Roots \cup {NoRoot}] /\ root'[InitProc] = call.new
        /\ \A p \in Procs : p # InitProc => root'[p] = NoRoot
    BY <1>1, <1>2, <1>3, <2>1, SpawnFacts, CallFacts
  <2>5. /\ heap' \in [Procs -> [start : Nat, end : Nat]]
        /\ heap'[InitProc] = [start |-> b, end |-> b]
        /\ \A p \in Procs : p # InitProc => heap'[p] = NoHeap
    BY <1>1, <1>3, <2>1, <2>2, SpawnFacts, CallFacts
  <2>6. parent' \in [Procs -> Procs \cup {Kernel}] /\ \A p \in Procs : parent'[p] = Kernel
    BY <1>1, <2>1, SpawnFacts, CallFacts
  <2>7. LifeOK(state, root, heap, parent)'
    BY <1>3, <2>3, <2>4, <2>5, <2>6, CallFacts DEF LifeOK
  <2>8. PidsOK(state, pids)'
    BY <1>2, <2>1, <2>3, OnePid
  <2>9. RootsOK(state, root, tables)'
    BY <1>2, <1>3, <2>1, <2>3, <2>4, CallFacts DEF RootsOK
  <2>10. MapsOK(state, root, heap, tables, mapped)'
    BY <1>1, <1>2, <2>1, <2>2, <2>3, <2>5, SpawnFacts, CallFacts DEF MapsOK
  <2> QED  BY <1>1, <1>4, <2>7, <2>8, <2>9, <2>10 DEF IInv, Idle, GoodNow, Good
<1>6. CASE SpawnFails
  <2>1. /\ Destroy(root[InitProc]) /\ pids' = pids
        /\ state' = [state EXCEPT ![InitProc] = "none"]
        /\ root' = [root EXCEPT ![InitProc] = NoRoot]
        /\ heap' = [heap EXCEPT ![InitProc] = NoHeap]
        /\ parent' = [parent EXCEPT ![InitProc] = Kernel]
    BY <1>6 DEF SpawnFails, DeleteProcess
  <2>2. root[InitProc] = call.new
    BY <1>1, <1>2, <1>3, SpawnFacts
  <2>3. tables' = {} /\ mapped' = mapped0
    BY <1>1, <1>2, <2>1, <2>2, DestroyNew, SpawnFacts
  <2>4. state' \in [Procs -> S] /\ \A p \in Procs : state'[p] = "none"
    BY <1>1, <1>2, <1>3, <2>1, SpawnFacts
  <2>5. root' \in [Procs -> Roots \cup {NoRoot}] /\ \A p \in Procs : root'[p] = NoRoot
    BY <1>1, <1>2, <1>3, <2>1, SpawnFacts
  <2>6. /\ heap' \in [Procs -> [start : Nat, end : Nat]] /\ \A p \in Procs : heap'[p] = NoHeap
        /\ parent' \in [Procs -> Procs \cup {Kernel}] /\ \A p \in Procs : parent'[p] = Kernel
    BY <1>1, <1>3, <2>1, SpawnFacts, CallFacts DEF NoHeap
  <2>7. LifeOK(state, root, heap, parent)'
    BY <1>3, <2>4, <2>5, <2>6 DEF LifeOK
  <2>8. PidsOK(state, pids)'
    BY <1>2, <2>1, <2>4, OnePid
  <2>9. RootsOK(state, root, tables)' /\ MapsOK(state, root, heap, tables, mapped)'
    BY <1>1, <2>3, <2>4, SpawnFacts, CallFacts DEF RootsOK, MapsOK
  <2> QED  BY <1>1, <1>4, <2>7, <2>8, <2>9 DEF IInv, Idle, GoodNow, Good
<1> QED  BY <1>5, <1>6

(* Fork ends: the child runs with a copy of its parent's pages and heap.   *)
LEMMA ForkStartsOK ==
  ASSUME CallOK, ForkStarts
  PROVE  IInv'
<1> DEFINE p == call.proc
           S == {"none", "Running", "Zombie"}
<1>1. /\ call.op = "fork" /\ call.step = "thread" /\ ForkOK /\ call' = NoCall
      /\ UNCHANGED <<root, pids, tables, mapped, cr3, current>>
      /\ state' = [state EXCEPT ![p] = "Running"]
      /\ heap' = [heap EXCEPT ![p] = heap[current]]
      /\ parent' = [parent EXCEPT ![p] = current]
  BY CallFacts DEF ForkStarts, In, Done
<1>2. /\ p \in Procs /\ p # InitProc /\ current \in Procs /\ state0[p] = "none"
      /\ state = [state0 EXCEPT ![p] = "new"] /\ root = [root0 EXCEPT ![p] = call.new]
      /\ pids0 < MaxPids /\ pids = pids0 + 1 /\ tables = tables0 \cup {call.new}
      /\ mapped[call.new] = mapped0[root0[current]] /\ cr3 = cr30
  BY <1>1 DEF ForkOK
<1>3. /\ InitProc \in Procs /\ Kernel \notin Procs /\ NoRoot \notin Roots /\ IsFiniteSet(Procs)
      /\ MaxPids \in Nat
  BY SpacesAssumption
<1>4. /\ LifeOK(state0, root0, heap0, parent0) /\ PidsOK(state0, pids0)
      /\ RootsOK(state0, root0, tables0) /\ MapsOK(state0, root0, heap0, tables0, mapped0)
      /\ CpuOK(state0, root0, cr30)
  BY CallFacts DEF Before, Good
<1>5. state0[current] = "Running" /\ current # p /\ cr30 = root0[current]
  BY <1>2, <1>3, <1>4 DEF CpuOK
<1>6. /\ state' \in [Procs -> S] /\ state'[p] = "Running"
      /\ \A q \in Procs : q # p => state'[q] = state0[q]
  BY <1>1, <1>2, <1>4 DEF LifeOK
<1>7. /\ root' \in [Procs -> Roots \cup {NoRoot}] /\ root'[p] = call.new
      /\ \A q \in Procs : q # p => root'[q] = root0[q]
  BY <1>1, <1>2, <1>4, CallFacts DEF LifeOK
<1>8. /\ heap' \in [Procs -> [start : Nat, end : Nat]] /\ heap'[p] = heap0[current]
      /\ \A q \in Procs : q # p => heap'[q] = heap0[q]
  BY <1>1, <1>2, <1>4, CallFacts DEF LifeOK
<1>9. /\ parent' \in [Procs -> Procs \cup {Kernel}]
      /\ \A q \in Procs : q # p => parent'[q] = parent0[q]
  BY <1>1, <1>2, <1>4, CallFacts DEF LifeOK
<1>10. LifeOK(state, root, heap, parent)'
  <2>1. state'[InitProc] # "Zombie"
    BY <1>2, <1>3, <1>4, <1>6 DEF LifeOK
  <2>2. call.new # NoRoot
    BY <1>3, CallFacts
  <2>3. \A q \in Procs : state'[q] = "none" <=> root'[q] = NoRoot
    BY <1>4, <1>6, <1>7, <2>2 DEF LifeOK
  <2>4. \A q \in Procs : state'[q] = "none" => heap'[q] = NoHeap /\ parent'[q] = Kernel
    BY <1>4, <1>6, <1>8, <1>9 DEF LifeOK
  <2> QED  BY <1>6, <1>7, <1>8, <1>9, <2>1, <2>3, <2>4 DEF LifeOK
<1>11. PidsOK(state, pids)'
  <2>1. pids0 \in Nat /\ pids' = pids0 + 1 /\ pids' \in 0..MaxPids
    BY <1>1, <1>2, <1>3, <1>4 DEF PidsOK
  <2>2. pids0 # 0
    BY <1>2, <1>4, <1>5 DEF PidsOK
  <2>3. pids0 = 1 + Cardinality(Alive(state0))
    BY <1>4, <2>1, <2>2 DEF PidsOK
  <2>4. Alive(state') = Alive(state0) \cup {p} /\ p \notin Alive(state0)
    BY <1>2, <1>6 DEF Alive
  <2>5. IsFiniteSet(Alive(state0))
    BY <1>3, FS_Subset DEF Alive
  <2>6. Cardinality(Alive(state')) = Cardinality(Alive(state0)) + 1
    BY <2>4, <2>5, FS_AddElement
  <2>7. Cardinality(Alive(state0)) \in Nat
    BY <2>5, FS_CardinalityType
  <2> QED  BY <2>1, <2>3, <2>6, <2>7 DEF PidsOK
<1>12. RootsOK(state, root, tables)'
  <2>1. tables' \subseteq Roots /\ tables' = tables0 \cup {call.new}
    BY <1>1, <1>2, <1>4, CallFacts DEF RootsOK
  <2>2. ASSUME NEW r \in Roots
        PROVE  r \in tables' <=> \E q \in Procs : state'[q] # "none" /\ root'[q] = r
    <3>1. r \in tables0 <=> \E q \in Procs : state0[q] # "none" /\ root0[q] = r
      BY <1>4 DEF RootsOK
    <3> QED  BY <1>2, <1>6, <1>7, <2>1, <3>1
  <2>3. \A q \in Procs : root0[q] # call.new
    BY <1>3, <1>4, CallFacts DEF RootsOK, LifeOK
  <2>4. \A q, r \in Procs : state'[q] # "none" /\ root'[q] = root'[r] => q = r
    BY <1>2, <1>4, <1>6, <1>7, <2>3 DEF RootsOK
  <2> QED  BY <2>1, <2>2, <2>4 DEF RootsOK
<1>13. MapsOK(state, root, heap, tables, mapped)'
  <2>1. mapped' \in [Roots -> [UserPages -> Uses]]
    BY <1>1, CallFacts
  <2>2. \A r \in Roots \ tables' : mapped'[r] = Unmapped
    BY <1>1, <1>2, <1>4, CallFacts DEF MapsOK
  <2>3. ASSUME NEW q \in Procs, state'[q] # "none", NEW pg \in HeapPages(heap'[q])
        PROVE  pg \in UserPages /\ mapped'[root'[q]][pg] \in HeapUses
    <3>1. CASE q = p
      <4>1. pg \in HeapPages(heap0[current]) /\ mapped'[root'[q]] = mapped0[root0[current]]
        BY <1>1, <1>2, <1>7, <1>8, <2>3, <3>1
      <4> QED  BY <1>2, <1>4, <1>5, <4>1 DEF MapsOK
    <3>2. CASE q # p
      <4>1. state0[q] # "none" /\ pg \in HeapPages(heap0[q]) /\ root'[q] = root0[q]
        BY <1>6, <1>7, <1>8, <2>3, <3>2
      <4>2. root0[q] \in Roots /\ root0[q] # call.new
        BY <1>4, <4>1, CallFacts DEF RootsOK, LifeOK
      <4>3. mapped'[root'[q]] = mapped0[root0[q]]
        BY <1>1, <4>1, <4>2, CallFacts
      <4> QED  BY <1>4, <4>1, <4>3 DEF MapsOK
    <3> QED  BY <3>1, <3>2
  <2> QED  BY <2>1, <2>2, <2>3 DEF MapsOK
<1>14. CpuOK(state, root, cr3)'
  BY <1>1, <1>2, <1>3, <1>5, <1>6, <1>7 DEF CpuOK
<1> QED  BY <1>1, <1>10, <1>11, <1>12, <1>13, <1>14 DEF IInv, Idle, GoodNow, Good

(* execve ends: the heap starts anew and the old space goes.               *)
LEMMA ExecStartsOK ==
  ASSUME CallOK, ExecStarts
  PROVE  IInv'
<1> DEFINE p == current
           b == HeapBase(call.elf)
<1>1. /\ call.op = "exec" /\ call.step = "loaded" /\ ExecOK /\ call' = NoCall
      /\ UNCHANGED <<state, root, parent, pids, cr3, current>>
      /\ heap' = [heap EXCEPT ![call.proc] = [start |-> b, end |-> b]]
      /\ mapped' = [mapped EXCEPT ![call.old] = Unmapped]
      /\ tables' = tables \ {call.old}
  BY CallFacts DEF ExecStarts, In, Done, Destroy
<1>2. /\ call.proc = p /\ p \in Procs /\ call.elf \in Executables /\ call.old = root0[p]
      /\ state = state0 /\ pids = pids0 /\ tables = tables0 \cup {call.new}
      /\ root = [root0 EXCEPT ![p] = call.new] /\ cr3 = call.new
  BY <1>1 DEF ExecOK
<1>3. b \in Nat /\ HeapPages([start |-> b, end |-> b]) = {}
  BY <1>2, HeapBaseOK
<1> HIDE DEF b
<1>4. Kernel \notin Procs /\ NoRoot \notin Roots
  BY SpacesAssumption
<1>5. /\ LifeOK(state0, root0, heap0, parent0) /\ PidsOK(state0, pids0)
      /\ RootsOK(state0, root0, tables0) /\ MapsOK(state0, root0, heap0, tables0, mapped0)
      /\ CpuOK(state0, root0, cr30)
  BY CallFacts DEF Before, Good
<1>6. state0[p] = "Running" /\ root0[p] \in Roots /\ root0[p] \in tables0
  <2>1. state0[p] = "Running"
    BY <1>2, <1>5 DEF CpuOK
  <2>2. root0[p] \in Roots
    BY <1>2, <1>5, <2>1 DEF LifeOK
  <2> QED  BY <1>2, <1>5, <2>1, <2>2 DEF RootsOK
<1>7. /\ root' \in [Procs -> Roots \cup {NoRoot}] /\ root'[p] = call.new
      /\ \A q \in Procs : q # p => root'[q] = root0[q]
  BY <1>1, <1>2, <1>5, CallFacts DEF LifeOK
<1>8. /\ heap' \in [Procs -> [start : Nat, end : Nat]] /\ heap'[p] = [start |-> b, end |-> b]
      /\ \A q \in Procs : q # p => heap'[q] = heap0[q]
  BY <1>1, <1>2, <1>3, <1>5, CallFacts DEF LifeOK
<1>9. LifeOK(state, root, heap, parent)'
  BY <1>1, <1>2, <1>4, <1>5, <1>6, <1>7, <1>8, CallFacts DEF LifeOK
<1>10. PidsOK(state, pids)'
  BY <1>1, <1>2, <1>5
<1>11. \A q \in Procs : state0[q] # "none" => root0[q] \in Roots /\ root0[q] # call.new
  BY <1>5, CallFacts DEF RootsOK, LifeOK
<1>12. RootsOK(state, root, tables)'
  <2>1. tables' \subseteq Roots /\ tables' = (tables0 \cup {call.new}) \ {root0[p]}
    BY <1>1, <1>2, <1>5, CallFacts DEF RootsOK
  <2>2. ASSUME NEW r \in Roots
        PROVE  r \in tables' <=> \E q \in Procs : state'[q] # "none" /\ root'[q] = r
    <3>1. CASE r = call.new
      BY <1>1, <1>2, <1>6, <1>7, <2>1, <3>1, CallFacts
    <3>2. CASE r # call.new
      <4>1. r \in tables' <=> r \in tables0 /\ r # root0[p]
        BY <2>1, <3>2
      <4>2. r \in tables0 <=> \E q \in Procs : state0[q] # "none" /\ root0[q] = r
        BY <1>5 DEF RootsOK
      <4>3. \A q \in Procs : state0[q] # "none" /\ root0[q] = root0[p] => q = p
        BY <1>2, <1>5 DEF RootsOK
      <4> QED  BY <1>1, <1>2, <1>7, <3>2, <4>1, <4>2, <4>3
    <3> QED  BY <3>1, <3>2
  <2>3. \A q \in Procs : root0[q] # call.new
    BY <1>4, <1>5, CallFacts DEF RootsOK, LifeOK
  <2>4. \A q, r \in Procs : state'[q] # "none" /\ root'[q] = root'[r] => q = r
    BY <1>1, <1>2, <1>5, <1>7, <2>3 DEF RootsOK
  <2> QED  BY <2>1, <2>2, <2>4 DEF RootsOK
<1>13. MapsOK(state, root, heap, tables, mapped)'
  <2>1. mapped' \in [Roots -> [UserPages -> Uses]]
    BY <1>1, CallFacts DEF Unmapped, Uses
  <2>2. \A r \in Roots \ tables' : mapped'[r] = Unmapped
    BY <1>1, <1>2, <1>5, CallFacts DEF MapsOK
  <2>3. ASSUME NEW q \in Procs, state'[q] # "none", NEW pg \in HeapPages(heap'[q])
        PROVE  pg \in UserPages /\ mapped'[root'[q]][pg] \in HeapUses
    <3>1. q # p
      BY <1>3, <1>8, <2>3
    <3>2. state0[q] # "none" /\ pg \in HeapPages(heap0[q]) /\ root'[q] = root0[q]
      BY <1>1, <1>2, <1>7, <1>8, <2>3, <3>1
    <3>3. root0[q] \in Roots /\ root0[q] # call.new
      BY <1>11, <3>2
    <3>4. root0[q] # root0[p]
      BY <1>2, <1>5, <3>1, <3>2 DEF RootsOK
    <3>5. mapped'[root'[q]] = mapped0[root0[q]]
      BY <1>1, <1>2, <3>2, <3>3, <3>4, CallFacts
    <3> QED  BY <1>5, <3>2, <3>5 DEF MapsOK
  <2> QED  BY <2>1, <2>2, <2>3 DEF MapsOK
<1>14. CpuOK(state, root, cr3)'
  BY <1>1, <1>2, <1>4, <1>6, <1>7 DEF CpuOK
<1> QED  BY <1>1, <1>9, <1>10, <1>12, <1>13, <1>14 DEF IInv, Idle, GoodNow, Good

(* A call that failed returns with the memory that it found.               *)
LEMMA ReturnErrorOK ==
  ASSUME CallOK, ReturnError
  PROVE  IInv'
<1>1. memory' = call.before /\ current' = current /\ call' = NoCall
  BY DEF ReturnError, Done, CallOK
<1>2. Before
  BY CallFacts
<1>3. /\ state' = state0 /\ root' = root0 /\ heap' = heap0 /\ parent' = parent0
      /\ pids' = pids0 /\ tables' = tables0 /\ mapped' = mapped0 /\ cr3' = cr30
  BY <1>1 DEF memory
<1>4. GoodNow'
  BY <1>1, <1>2, <1>3 DEF Before, GoodNow, Good, LifeOK, Alive, PidsOK, RootsOK, MapsOK, CpuOK
<1> QED  BY <1>1, <1>4 DEF IInv, Idle

----------------------------------------------------------------------------
(* The parts of the memory between calls.                                  *)
LEMMA GoodFacts ==
  ASSUME GoodNow
  PROVE  /\ LifeOK(state, root, heap, parent) /\ PidsOK(state, pids)
         /\ RootsOK(state, root, tables) /\ MapsOK(state, root, heap, tables, mapped)
         /\ CpuOK(state, root, cr3)
BY DEF GoodNow, Good

(* Context switches and Exit.                                              *)
LEMMA SwitchStepsOK ==
  ASSUME Idle, GoodNow, NEW next \in Procs \cup {Kernel}, NEW p \in Procs,
         Switch(next) \/ SysExit(p, next)
  PROVE  IInv'
<1> DEFINE S == {"none", "Running", "Zombie"}
<1>1. /\ UNCHANGED <<root, heap, parent, pids, tables, mapped, call>>
      /\ current' = next /\ cr3' = IF next = Kernel THEN KernelRoot ELSE root[next]
      /\ next = Kernel \/ state[next] = "Running"
  BY DEF Switch, SysExit, PerformSwitch, CanRun
<1>2. InitProc \in Procs /\ Kernel \notin Procs
  BY SpacesAssumption
<1>3. /\ state \in [Procs -> S]
      /\ \A q \in Procs : state[q] = "none" <=> root[q] = NoRoot
  BY GoodFacts DEF LifeOK
<1>4. /\ state' \in [Procs -> S] /\ state'[InitProc] # "Zombie"
      /\ \A q \in Procs : state'[q] = "none" <=> state[q] = "none"
      /\ next # Kernel => state'[next] = "Running"
  <2>1. CASE Switch(next)
    BY <1>1, <1>3, <2>1, GoodFacts DEF Switch, LifeOK
  <2>2. CASE SysExit(p, next)
    <3>1. /\ state' = [state EXCEPT ![p] = "Zombie"] /\ p # InitProc /\ next # p /\ current = p
      BY <2>2 DEF SysExit
    <3>2. state[p] = "Running" /\ state[InitProc] # "Zombie"
      BY <3>1, GoodFacts DEF CpuOK, LifeOK
    <3> QED  BY <1>1, <1>2, <1>3, <3>1, <3>2
  <2> QED  BY <2>1, <2>2
<1>5. LifeOK(state, root, heap, parent)'
  BY <1>1, <1>4, GoodFacts DEF LifeOK
<1>6. PidsOK(state, pids)'
  <2>1. Alive(state') = Alive(state)
    BY <1>4 DEF Alive
  <2> QED  BY <1>1, <1>4, <2>1, GoodFacts DEF PidsOK
<1>7. RootsOK(state, root, tables)'
  BY <1>1, <1>4, GoodFacts DEF RootsOK
<1>8. MapsOK(state, root, heap, tables, mapped)'
  BY <1>1, <1>4, GoodFacts DEF MapsOK
<1>9. CpuOK(state, root, cr3)'
  BY <1>1, <1>2, <1>4 DEF CpuOK
<1> QED  BY <1>1, <1>5, <1>6, <1>7, <1>8, <1>9 DEF IInv, Idle, GoodNow, Good

(* waitpid deletes a zombie and its space.                                 *)
LEMMA WaitpidOK ==
  ASSUME Idle, GoodNow, NEW p \in Procs, NEW child \in Procs, SysWaitpid(p, child)
  PROVE  IInv'
<1> DEFINE S == {"none", "Running", "Zombie"}
<1>1. InitProc \in Procs /\ Kernel \notin Procs /\ NoRoot \notin Roots /\ IsFiniteSet(Procs)
      /\ MaxPids \in Nat
  BY SpacesAssumption
<1>2. /\ current = p /\ state[child] = "Zombie" /\ UNCHANGED <<cr3, current, call>>
      /\ mapped' = [mapped EXCEPT ![root[child]] = Unmapped] /\ tables' = tables \ {root[child]}
      /\ pids' = IF child = InitProc THEN pids ELSE pids - 1
      /\ state' = [state EXCEPT ![child] = "none"]
      /\ root' = [root EXCEPT ![child] = NoRoot]
      /\ heap' = [heap EXCEPT ![child] = NoHeap]
      /\ parent' = [parent EXCEPT ![child] = Kernel]
  BY DEF SysWaitpid, DeleteProcess, Destroy
<1>3. state[p] = "Running" /\ child # p /\ child # InitProc
  BY <1>2, GoodFacts DEF CpuOK, LifeOK
<1>4. /\ root[child] \in Roots
      /\ \A q \in Procs : state[q] # "none" /\ q # child =>
            root[q] \in Roots /\ root[q] # root[child]
  BY <1>2, GoodFacts DEF LifeOK, RootsOK
<1>5. /\ state' \in [Procs -> S] /\ state'[child] = "none"
      /\ \A q \in Procs : q # child => state'[q] = state[q]
  BY <1>2, GoodFacts DEF LifeOK
<1>6. /\ root' \in [Procs -> Roots \cup {NoRoot}] /\ root'[child] = NoRoot
      /\ \A q \in Procs : q # child => root'[q] = root[q]
  BY <1>2, GoodFacts DEF LifeOK
<1>7. /\ heap' \in [Procs -> [start : Nat, end : Nat]] /\ heap'[child] = NoHeap
      /\ \A q \in Procs : q # child => heap'[q] = heap[q]
  BY <1>2, GoodFacts DEF LifeOK, NoHeap
<1>8. /\ parent' \in [Procs -> Procs \cup {Kernel}] /\ parent'[child] = Kernel
      /\ \A q \in Procs : q # child => parent'[q] = parent[q]
  BY <1>2, GoodFacts DEF LifeOK
<1>9. LifeOK(state, root, heap, parent)'
  <2>1. state'[InitProc] # "Zombie"
    BY <1>1, <1>3, <1>5, GoodFacts DEF LifeOK
  <2>2. \A q \in Procs : state'[q] = "none" <=> root'[q] = NoRoot
    BY <1>5, <1>6, GoodFacts DEF LifeOK
  <2>3. \A q \in Procs : state'[q] = "none" => heap'[q] = NoHeap /\ parent'[q] = Kernel
    BY <1>5, <1>7, <1>8, GoodFacts DEF LifeOK
  <2> QED  BY <1>5, <1>6, <1>7, <1>8, <2>1, <2>2, <2>3 DEF LifeOK
<1>10. PidsOK(state, pids)'
  <2>1. pids \in 0..MaxPids /\ pids # 0
    BY <1>1, <1>3, GoodFacts DEF PidsOK
  <2>2. pids = 1 + Cardinality(Alive(state)) /\ pids' = pids - 1
    BY <1>1, <1>2, <1>3, <2>1, GoodFacts DEF PidsOK
  <2>3. Alive(state') = Alive(state) \ {child} /\ child \in Alive(state)
    BY <1>2, <1>3, <1>5 DEF Alive
  <2>4. IsFiniteSet(Alive(state))
    BY <1>1, FS_Subset DEF Alive
  <2>5. IsFiniteSet(Alive(state')) /\ Cardinality(Alive(state')) = Cardinality(Alive(state)) - 1
    BY <2>3, <2>4, FS_RemoveElement
  <2>6. Cardinality(Alive(state)) \in Nat /\ Cardinality(Alive(state')) \in Nat
    BY <2>4, <2>5, FS_CardinalityType
  <2>7. pids' = 1 + Cardinality(Alive(state')) /\ pids' \in 0..MaxPids /\ pids' > 0
    BY <1>1, <2>1, <2>2, <2>5, <2>6
  <2> QED  BY <2>7 DEF PidsOK
<1>11. RootsOK(state, root, tables)'
  <2>1. tables' \subseteq Roots
    BY <1>2, GoodFacts DEF RootsOK
  <2>2. ASSUME NEW r \in Roots
        PROVE  r \in tables' <=> \E q \in Procs : state'[q] # "none" /\ root'[q] = r
    <3>1. r \in tables <=> \E q \in Procs : state[q] # "none" /\ root[q] = r
      BY GoodFacts DEF RootsOK
    <3> QED  BY <1>2, <1>4, <1>5, <1>6, <3>1
  <2>3. \A q, r \in Procs : state'[q] # "none" /\ root'[q] = root'[r] => q = r
    <3>1. \A q, r \in Procs : state[q] # "none" /\ root[q] = root[r] => q = r
      BY GoodFacts DEF RootsOK
    <3> QED  BY <1>1, <1>4, <1>5, <1>6, <3>1
  <2> QED  BY <2>1, <2>2, <2>3 DEF RootsOK
<1>12. MapsOK(state, root, heap, tables, mapped)'
  <2>1. mapped' \in [Roots -> [UserPages -> Uses]]
        /\ \A r \in Roots : mapped'[r] = IF r = root[child] THEN Unmapped ELSE mapped[r]
    BY <1>2, GoodFacts DEF MapsOK, Unmapped, Uses
  <2>2. \A r \in Roots \ tables' : mapped'[r] = Unmapped
    BY <1>2, <2>1, GoodFacts DEF MapsOK
  <2>3. ASSUME NEW q \in Procs, state'[q] # "none", NEW pg \in HeapPages(heap'[q])
        PROVE  pg \in UserPages /\ mapped'[root'[q]][pg] \in HeapUses
    <3>1. q # child /\ state[q] # "none" /\ pg \in HeapPages(heap[q]) /\ root'[q] = root[q]
      BY <1>5, <1>6, <1>7, <2>3
    <3>2. mapped'[root'[q]] = mapped[root[q]]
      BY <1>4, <2>1, <3>1
    <3> QED  BY <3>1, <3>2, GoodFacts DEF MapsOK
  <2> QED  BY <2>1, <2>2, <2>3 DEF MapsOK
<1>13. CpuOK(state, root, cr3)'
  BY <1>1, <1>2, <1>3, <1>5, <1>6, GoodFacts DEF CpuOK
<1> QED  BY <1>2, <1>9, <1>10, <1>11, <1>12, <1>13 DEF IInv, Idle, GoodNow, Good

(* A system call of the running process that changes its own table and its *)
(* own heap bounds, and leaves every page of the heap mapped as heap.      *)
LEMMA OwnPagesOK ==
  ASSUME Idle, GoodNow, NEW p \in Procs, current = p, Others,
         NEW h \in [start : Nat, end : Nat], heap' = [heap EXCEPT ![p] = h],
         NEW f \in [UserPages -> Uses], mapped' = [mapped EXCEPT ![root[p]] = f],
         \A pg \in HeapPages(h) : pg \in UserPages /\ f[pg] \in HeapUses
  PROVE  IInv'
<1>1. UNCHANGED <<state, root, parent, pids, tables, cr3, current, call>>
  BY DEF Others
<1>2. state[p] = "Running" /\ root[p] \in Roots /\ root[p] \in tables
  <2>1. state[p] = "Running"
    BY GoodFacts DEF CpuOK
  <2>2. root[p] \in Roots
    BY <2>1, GoodFacts DEF LifeOK
  <2> QED  BY <2>1, <2>2, GoodFacts DEF RootsOK
<1>3. /\ heap' \in [Procs -> [start : Nat, end : Nat]] /\ heap'[p] = h
      /\ \A q \in Procs : q # p => heap'[q] = heap[q]
  BY GoodFacts DEF LifeOK
<1>4. /\ mapped' \in [Roots -> [UserPages -> Uses]] /\ mapped'[root[p]] = f
      /\ \A r \in Roots : r # root[p] => mapped'[r] = mapped[r]
  BY <1>2, GoodFacts DEF MapsOK
<1>5. LifeOK(state, root, heap, parent)'
  BY <1>1, <1>2, <1>3, GoodFacts DEF LifeOK
<1>6. PidsOK(state, pids)' /\ RootsOK(state, root, tables)'
  BY <1>1, GoodFacts
<1>7. MapsOK(state, root, heap, tables, mapped)'
  <2>1. \A r \in Roots \ tables' : mapped'[r] = Unmapped
    BY <1>1, <1>2, <1>4, GoodFacts DEF MapsOK
  <2>2. ASSUME NEW q \in Procs, state'[q] # "none", NEW pg \in HeapPages(heap'[q])
        PROVE  pg \in UserPages /\ mapped'[root'[q]][pg] \in HeapUses
    <3>1. CASE q = p
      BY <1>1, <1>3, <1>4, <2>2, <3>1
    <3>2. CASE q # p
      <4>1. state[q] # "none" /\ pg \in HeapPages(heap[q]) /\ root'[q] = root[q]
        BY <1>1, <1>3, <2>2, <3>2
      <4>2. root[q] \in Roots /\ root[q] # root[p]
        BY <3>2, <4>1, GoodFacts DEF LifeOK, RootsOK
      <4>3. mapped'[root'[q]] = mapped[root[q]]
        BY <1>4, <4>1, <4>2
      <4> QED  BY <4>1, <4>3, GoodFacts DEF MapsOK
    <3> QED  BY <3>1, <3>2
  <2> QED  BY <1>4, <2>1, <2>2 DEF MapsOK
<1>8. CpuOK(state, root, cr3)'
  BY <1>1, GoodFacts DEF CpuOK
<1> QED  BY <1>1, <1>5, <1>6, <1>7, <1>8 DEF IInv, Idle, GoodNow, Good

(* What brk, mmap and munmap find.                                         *)
LEMMA OwnFacts ==
  ASSUME GoodNow, NEW p \in Procs, current = p
  PROVE  /\ heap \in [Procs -> [start : Nat, end : Nat]]
         /\ heap[p] \in [start : Nat, end : Nat]
         /\ mapped[root[p]] \in [UserPages -> Uses]
         /\ mapped \in [Roots -> [UserPages -> Uses]] /\ root[p] \in Roots
         /\ \A pg \in HeapPages(heap[p]) : pg \in UserPages /\ mapped[root[p]][pg] \in HeapUses
<1>1. state[p] = "Running"
  BY GoodFacts DEF CpuOK
<1>2. root[p] \in Roots
  BY <1>1, GoodFacts DEF LifeOK
<1> QED  BY <1>1, <1>2, GoodFacts DEF LifeOK, MapsOK

(* The pages of a heap, and those between two ends.                        *)
LEMMA HeapIs ==
  ASSUME NEW a \in Nat, NEW b \in Nat
  PROVE  HeapPages([start |-> a, end |-> b])
           = (a \div PageBytes)..(AlignUp(b) \div PageBytes - 1)
<1>1. a + (AlignUp(b) - a) = AlignUp(b)
  BY AlignUpQuotient
<1> QED  BY <1>1 DEF HeapPages, PagesIn

(* brk.                                                                    *)
LEMMA BrkOK ==
  ASSUME Idle, GoodNow, NEW p \in Procs, NEW brk \in BrkArgs,
         SysBrkGrows(p, brk) \/ SysBrkShrinks(p, brk)
  PROVE  IInv'
<1> DEFINE a == heap[p].start
           e == heap[p].end
           h == [start |-> a, end |-> brk]
           first == a \div PageBytes
           old == AlignUp(e) \div PageBytes
           new == AlignUp(brk) \div PageBytes
           table(pages, use) ==
             [pg \in UserPages |-> IF pg \in pages THEN use ELSE mapped[root[p]][pg]]
<1>1. current = p /\ Others /\ brk \in Nat
  BY SpacesAssumption DEF SysBrkGrows, SysBrkShrinks
<1>2. a \in Nat /\ e \in Nat /\ heap[p] = [start |-> a, end |-> e]
  BY <1>1, OwnFacts
<1>3. heap' = [heap EXCEPT ![p] = h] /\ h \in [start : Nat, end : Nat]
  <2>1. heap' = [heap EXCEPT ![p] = [heap[p] EXCEPT !.end = brk]]
    BY DEF SysBrkGrows, SysBrkShrinks, SetHeap
  <2>2. [heap[p] EXCEPT !.end = brk] = h
    BY <1>2
  <2> QED  BY <1>1, <1>2, <2>1, <2>2
<1>4. /\ AlignUp(e) \in Nat /\ AlignUp(brk) \in Nat
      /\ first \in Nat /\ old \in Nat /\ new \in Nat
  <2>1. AlignUp(e) \in Nat /\ AlignUp(brk) \in Nat
    BY <1>1, <1>2, AlignUpQuotient
  <2> QED  BY <1>2, <2>1, DivMod
<1>5. HeapPages(heap[p]) = first..(old - 1) /\ HeapPages(h) = first..(new - 1)
  BY <1>1, <1>2, HeapIs
<1>6. \A pg \in first..(old - 1) : pg \in UserPages /\ mapped[root[p]][pg] \in HeapUses
  BY <1>1, <1>5, OwnFacts
<1>7. mapped \in [Roots -> [UserPages -> Uses]] /\ root[p] \in Roots
      /\ mapped[root[p]] \in [UserPages -> Uses]
  BY <1>1, OwnFacts
<1>8. CASE SysBrkGrows(p, brk)
  <2> DEFINE pages == GrownPages(p, brk)
             f == table(pages, "heap")
  <2>1. pages = old..(new - 1)
    <3>1. AlignUp(e) + (AlignUp(brk) - AlignUp(e)) = AlignUp(brk)
      BY <1>4
    <3> QED  BY <3>1 DEF GrownPages, PagesIn
  <2>2. pages \subseteq UserPages /\ mapped' = [mapped EXCEPT ![root[p]] = f]
    BY <1>8 DEF SysBrkGrows, SetPages
  <2> HIDE DEF a, e, first, old, new, pages
  <2>3. f \in [UserPages -> Uses]
    BY <1>7 DEF Uses, HeapUses
  <2>4. ASSUME NEW pg \in first..(new - 1) PROVE pg \in UserPages /\ f[pg] \in HeapUses
    <3>1. pg \in first..(old - 1) \/ pg \in pages
      BY <1>4, <2>1
    <3> QED  BY <1>6, <2>2, <3>1 DEF HeapUses
  <2> HIDE DEF f, h
  <2>5. \A pg \in HeapPages(h) : pg \in UserPages /\ f[pg] \in HeapUses
    BY <1>5, <2>4
  <2> QED  BY <1>1, <1>3, <2>2, <2>3, <2>5, OwnPagesOK
<1>9. CASE SysBrkShrinks(p, brk)
  <2> DEFINE pages == ShrunkPages(p, brk)
             f == table(pages, "free")
  <2>1. pages = new..(old - 1)
    <3>1. AlignUp(brk) + (AlignUp(e) - AlignUp(brk)) = AlignUp(e)
      BY <1>4
    <3> QED  BY <3>1 DEF ShrunkPages, PagesIn
  <2>2. mapped' = [mapped EXCEPT ![root[p]] = f] \/ mapped' = mapped
    BY <1>9 DEF SysBrkShrinks, SetPages
  <2>3. brk < e
    BY <1>9 DEF SysBrkShrinks
  <2>4. AlignUp(brk) <= AlignUp(e)
    BY <1>1, <1>2, <2>3, AlignUpMono
  <2>5. new <= old
    BY <1>4, <2>4, DivMono
  <2> HIDE DEF a, e, first, old, new, pages
  <2>6. f \in [UserPages -> Uses]
    BY <1>7 DEF Uses
  <2>7. ASSUME NEW pg \in first..(new - 1)
        PROVE  pg \in UserPages /\ f[pg] \in HeapUses /\ mapped[root[p]][pg] \in HeapUses
    <3>1. pg \in first..(old - 1) /\ pg \notin pages
      BY <1>4, <2>1, <2>5
    <3> QED  BY <1>6, <3>1
  <2> HIDE DEF f, h
  <2>8. \A pg \in HeapPages(h) :
          pg \in UserPages /\ f[pg] \in HeapUses /\ mapped[root[p]][pg] \in HeapUses
    BY <1>5, <2>7
  <2>9. CASE mapped' = [mapped EXCEPT ![root[p]] = f]
    <3>1. \A pg \in HeapPages(h) : pg \in UserPages /\ f[pg] \in HeapUses
      BY <2>8
    <3> QED  BY <1>1, <1>3, <2>6, <2>9, <3>1, OwnPagesOK
  <2>10. CASE mapped' = mapped
    <3>1. mapped' = [mapped EXCEPT ![root[p]] = mapped[root[p]]]
      BY <1>7, <2>10
    <3>2. \A pg \in HeapPages(h) : pg \in UserPages /\ mapped[root[p]][pg] \in HeapUses
      BY <2>8
    <3>3. mapped[root[p]] \in [UserPages -> Uses]
      BY <1>7
    <3> QED  BY <1>1, <1>3, <3>1, <3>2, <3>3, OwnPagesOK
  <2> QED  BY <2>2, <2>9, <2>10
<1> QED  BY <1>8, <1>9

(* mmap and munmap.                                                        *)
LEMMA MmapOK ==
  ASSUME Idle, GoodNow, NEW p \in Procs, NEW pages \in MapArgs,
         SysMmap(p, pages) \/ SysMunmap(p, pages)
  PROVE  IInv'
<1> DEFINE table(inHeap, elsewhere) ==
      [pg \in UserPages |-> IF pg \notin pages THEN mapped[root[p]][pg]
                            ELSE IF pg \in HeapPages(heap[p]) THEN inHeap ELSE elsewhere]
<1>1. current = p /\ Others /\ heap' = heap
  BY DEF SysMmap, SysMunmap
<1>2. PICK inHeap \in {"cover", "hole"}, elsewhere \in {"mmap", "free"} :
          mapped' = [mapped EXCEPT ![root[p]] = table(inHeap, elsewhere)]
  BY DEF SysMmap, SysMunmap, SetUse
<1> DEFINE f == table(inHeap, elsewhere)
<1>3. f \in [UserPages -> Uses]
  BY <1>1, OwnFacts DEF Uses, HeapUses
<1>4. heap' = [heap EXCEPT ![p] = heap[p]]
  BY <1>1, OwnFacts
<1>5. \A pg \in HeapPages(heap[p]) : pg \in UserPages /\ f[pg] \in HeapUses
  BY <1>1, OwnFacts DEF HeapUses
<1>6. heap[p] \in [start : Nat, end : Nat]
  BY <1>1, OwnFacts
<1> QED  BY <1>1, <1>2, <1>3, <1>4, <1>5, <1>6, OwnPagesOK

----------------------------------------------------------------------------
(* Nothing runs at first.                                                  *)
LEMMA InitInv == Init => IInv
<1> SUFFICES ASSUME Init PROVE IInv
  OBVIOUS
<1>1. /\ state = [p \in Procs |-> "none"] /\ root = [p \in Procs |-> NoRoot]
      /\ heap = [p \in Procs |-> NoHeap] /\ parent = [p \in Procs |-> Kernel]
      /\ pids = 0 /\ tables = {} /\ mapped = [r \in Roots |-> Unmapped]
      /\ cr3 = KernelRoot /\ current = Kernel /\ call = NoCall
  BY DEF Init
<1>2. LifeOK(state, root, heap, parent)
  BY <1>1, SpacesAssumption DEF LifeOK, NoHeap
<1>3. PidsOK(state, pids)
  BY <1>1, SpacesAssumption DEF PidsOK
<1>4. RootsOK(state, root, tables) /\ MapsOK(state, root, heap, tables, mapped)
  BY <1>1 DEF RootsOK, MapsOK, Unmapped, Uses
<1>5. CpuOK(state, root, cr3)
  BY <1>1, SpacesAssumption DEF CpuOK
<1> QED  BY <1>1, <1>2, <1>3, <1>4, <1>5 DEF IInv, Idle, GoodNow, Good

(* Every step keeps the invariant: between calls the memory is Good, and   *)
(* inside one it is what the call found but for what the call has done.    *)
THEOREM Invariance == Spec => []IInv
<1>1. Init => IInv
  BY InitInv
<1>2. IInv /\ [Next]_vars => IInv'
  <2> SUFFICES ASSUME IInv, [Next]_vars PROVE IInv'
    OBVIOUS
  <2>1. CASE Idle
    <3> USE <2>1
    <3>1. GoodNow
      BY DEF IInv
    <3>2. ASSUME NEW elf \in Executables, NEW r \in Roots, SpawnCreate(elf, r) PROVE IInv'
      BY <3>1, <3>2, BeginStepsOK, SpacesAssumption
    <3>3. ASSUME NEW elf \in Executables, NEW r \in Roots, NEW p \in Procs, ExecCreate(p, elf, r)
          PROVE  IInv'
      BY <3>1, <3>3, BeginStepsOK
    <3>4. ASSUME NEW p \in Procs, NEW child \in Procs, NEW r \in Roots, ForkCreate(p, child, r)
          PROVE  IInv'
      BY <3>1, <3>4, BeginStepsOK
    <3>5. ASSUME NEW next \in Procs \cup {Kernel}, Switch(next) PROVE IInv'
      BY <3>1, <3>5, SwitchStepsOK, SpacesAssumption
    <3>6. ASSUME NEW next \in Procs \cup {Kernel}, NEW p \in Procs, SysExit(p, next) PROVE IInv'
      BY <3>1, <3>6, SwitchStepsOK
    <3>7. ASSUME NEW p \in Procs, NEW child \in Procs, SysWaitpid(p, child) PROVE IInv'
      BY <3>1, <3>7, WaitpidOK
    <3>8. ASSUME NEW p \in Procs, NEW brk \in BrkArgs, SysBrkGrows(p, brk) \/ SysBrkShrinks(p, brk)
          PROVE  IInv'
      BY <3>1, <3>8, BrkOK
    <3>9. ASSUME NEW p \in Procs, NEW pages \in MapArgs, SysMmap(p, pages) \/ SysMunmap(p, pages)
          PROVE  IInv'
      BY <3>1, <3>9, MmapOK
    <3>10. CASE UNCHANGED vars
      BY <3>10 DEF vars, memory, IInv, Idle, GoodNow, Good, LifeOK, Alive, PidsOK, RootsOK,
                   MapsOK, CpuOK
    <3>11. ~(\/ LoadStarts \/ LoadSegment \/ LoadStack \/ LoadFails \/ SpawnStarts \/ SpawnFails
             \/ ForkClone \/ ForkSpaceFails \/ ForkPid \/ ForkStarts \/ ForkThreadFails
             \/ ExecStarts \/ ExecRestores \/ ExecFails \/ ReturnError)
      BY DEF LoadStarts, LoadSegment, LoadStack, LoadFails, SpawnStarts, SpawnFails, ForkClone,
             ForkSpaceFails, ForkPid, ForkStarts, ForkThreadFails, ExecStarts, ExecRestores,
             ExecFails, ReturnError, In
    <3> QED
      BY <3>2, <3>3, <3>4, <3>5, <3>6, <3>7, <3>8, <3>9, <3>10, <3>11 DEF Next
  <2>2. CASE ~Idle
    <3> USE <2>2
    <3>1. CallOK
      BY DEF IInv
    <3>2. CASE LoadStarts \/ LoadSegment \/ LoadStack \/ LoadFails
      BY <3>1, <3>2, LoadStepsOK
    <3>3. CASE SpawnStarts \/ SpawnFails
      BY <3>1, <3>3, SpawnEndsOK
    <3>4. CASE ForkClone \/ ForkSpaceFails \/ ForkPid \/ ForkThreadFails
      BY <3>1, <3>4, ForkStepsOK
    <3>5. CASE ForkStarts
      BY <3>1, <3>5, ForkStartsOK
    <3>6. CASE ExecStarts
      BY <3>1, <3>6, ExecStartsOK
    <3>7. CASE ExecRestores \/ ExecFails
      BY <3>1, <3>7, ExecStepsOK
    <3>8. CASE ReturnError
      BY <3>1, <3>8, ReturnErrorOK
    <3>9. CASE UNCHANGED vars
      <4>1. /\ call' = call /\ current' = current /\ mapped' = mapped /\ heap' = heap
            /\ parent' = parent /\ state' = state /\ root' = root /\ pids' = pids
            /\ tables' = tables /\ cr3' = cr3 /\ memory' = memory
        BY <3>9 DEF vars, memory
      <4>2. call' = CallAt(call.step, call.prevLoad, call.at)
        BY <3>1, <4>1, CallFacts DEF CallShape, CallAt
      <4>3. /\ call.op = "spawn" => SpawnOK'
            /\ call.op = "fork" => ForkOK'
            /\ call.op = "exec" => ExecOK'
        BY <3>1, <4>1, CallFacts DEF SpawnOK, ForkOK, ExecOK
      <4>4. call.step = "undone" => memory' = call.before
        BY <3>1, <4>1 DEF CallOK
      <4>5. /\ mapped' \in [Roots -> [UserPages -> Uses]]
            /\ \A r \in Roots : r # call.new => mapped'[r] = mapped[r]
        BY <3>1, <4>1, CallFacts
      <4>6. heap' = heap /\ parent' = parent /\ current' = current
        BY <4>1
      <4> QED  BY <3>1, <4>2, <4>3, <4>4, <4>5, <4>6, StepOK
    <3>10. ~(\/ \E elf \in Executables, r \in Roots :
                   SpawnCreate(elf, r) \/ \E p \in Procs : ExecCreate(p, elf, r)
             \/ \E p, child \in Procs, r \in Roots : ForkCreate(p, child, r)
             \/ \E next \in Procs \cup {Kernel} :
                   Switch(next) \/ \E p \in Procs : SysExit(p, next)
             \/ \E p, child \in Procs : SysWaitpid(p, child)
             \/ \E p \in Procs, brk \in BrkArgs : SysBrkGrows(p, brk) \/ SysBrkShrinks(p, brk)
             \/ \E p \in Procs, pages \in MapArgs : SysMmap(p, pages) \/ SysMunmap(p, pages))
      BY DEF SpawnCreate, ExecCreate, ForkCreate, Switch, SysExit, SysWaitpid, SysBrkGrows,
             SysBrkShrinks, SysMmap, SysMunmap
    <3> QED
      BY <3>2, <3>3, <3>4, <3>5, <3>6, <3>7, <3>8, <3>9, <3>10 DEF Next
  <2> QED  BY <2>1, <2>2
<1> QED  BY <1>1, <1>2, PTL DEF Spec

(* The space of the process that runs is allocated.                        *)
LEMMA CurrentAllocated ==
  ASSUME NEW s, NEW rt, NEW h, NEW pa, NEW t, NEW c,
         LifeOK(s, rt, h, pa), RootsOK(s, rt, t), CpuOK(s, rt, c)
  PROVE  c \in t \cup {KernelRoot}
<1>1. CASE current = Kernel
  BY <1>1 DEF CpuOK
<1>2. CASE current # Kernel
  <2>1. current \in Procs /\ s[current] = "Running" /\ c = rt[current]
    BY <1>2 DEF CpuOK
  <2>2. rt[current] \in Roots
    BY <2>1 DEF LifeOK
  <2> QED  BY <2>1, <2>2 DEF RootsOK
<1> QED  BY <1>1, <1>2

(* The CPU never translates with a freed page table: not between calls,    *)
(* and not at any step of Spawn, Fork and execve, their failures included. *)
THEOREM Cr3AlwaysSound == Spec => []Cr3Sound
<1>1. IInv => Cr3Sound
  <2> SUFFICES ASSUME IInv PROVE Cr3Sound
    OBVIOUS
  <2>1. CASE Idle
    <3>1. GoodNow
      BY <2>1 DEF IInv
    <3>2. cr3 = IF current = Kernel THEN KernelRoot ELSE root[current]
      BY <3>1, GoodFacts DEF CpuOK
    <3>3. cr3 \in tables \cup {KernelRoot}
      BY <3>1, GoodFacts, CurrentAllocated
    <3> QED  BY <3>2, <3>3 DEF Cr3Sound
  <2>2. CASE ~Idle
    <3>1. CallOK
      BY <2>2 DEF IInv
    <3>2. cr30 \in tables0 \cup {KernelRoot}
      BY <3>1, CallFacts, CurrentAllocated DEF Before, Good
    <3>3. call.step = "undone" => tables = tables0 /\ cr3 = cr30
      BY <3>1 DEF CallOK, memory
    <3>4. call.op = "spawn" => cr3 \in tables \cup {KernelRoot}
      BY <3>1, CallFacts DEF SpawnOK
    <3>5. call.op = "fork" => cr3 \in tables \cup {KernelRoot}
      BY <3>1, <3>2, <3>3, CallFacts DEF ForkOK
    <3>6. call.op = "exec" => cr3 \in tables \cup {KernelRoot}
      BY <3>1, <3>2, <3>3, CallFacts DEF ExecOK
    <3> QED  BY <2>2, <3>1, <3>4, <3>5, <3>6, CallFacts DEF Cr3Sound
  <2> QED  BY <2>1, <2>2
<1> QED  BY <1>1, Invariance, PTL

(* Between calls every allocated root is the space of exactly one process, *)
(* and every PID but init's is that of a process: no failure of Spawn,     *)
(* Fork or execve leaks a page table or a PID, or frees one too many.      *)
THEOREM RootsAlwaysExact == Spec => []RootsExact
<1>1. IInv => RootsExact
  <2> SUFFICES ASSUME IInv, Idle PROVE RootsExact
    BY DEF RootsExact
  <2>1. GoodNow
    BY DEF IInv
  <2>2. tables = {root[p] : p \in {q \in Procs : Exists(q)}}
    <3>1. \A p \in Procs : state[p] # "none" => root[p] \in Roots
      BY <2>1, GoodFacts DEF LifeOK
    <3> QED  BY <2>1, <3>1, GoodFacts DEF RootsOK, Exists
  <2>3. \A p, q \in Procs : Exists(p) /\ root[p] = root[q] => p = q
    BY <2>1, GoodFacts DEF RootsOK, Exists
  <2>4. pids > 0 => pids = 1 + Cardinality({p \in Procs \ {InitProc} : Exists(p)})
    BY <2>1, GoodFacts DEF PidsOK, Alive, Exists
  <2> QED  BY <2>2, <2>3, <2>4 DEF RootsExact
<1> QED  BY <1>1, Invariance, PTL

(* Between calls every page of every heap is mapped as heap, up to the end *)
(* that brk has reported.                                                  *)
THEOREM HeapAlwaysCovered == Spec => []HeapCovered
<1>1. IInv => HeapCovered
  BY GoodFacts DEF IInv, HeapCovered, MapsOK, Exists
<1> QED  BY <1>1, Invariance, PTL

(* A Fork or an execve that has failed and cleaned up has brought back the *)
(* processes, spaces, PIDs, mappings and CR3 that it found, all of them.   *)
THEOREM FailuresUndone == Spec => FailureUndoesAll
<1>1. IInv => [~Idle /\ call.step = "undone" => memory = call.before]_vars
  BY DEF IInv, CallOK
<1> QED  BY <1>1, Invariance, PTL DEF FailureUndoesAll
=============================================================================
