------------------------------ MODULE ElfLoader ------------------------------
(***************************************************************************)
(* ElfLoader::Load: which pages an executable occupies and where its heap  *)
(* begins.  An executable is [magic, type, segments]; a segment is         *)
(* [load, vaddr, memsz], an address is in bytes.                           *)
(***************************************************************************)
EXTENDS Integers, Sequences, FiniteSets

CONSTANTS
    PageBytes,  \* 0x1000
    PieBias     \* 0x400000: where a position independent program goes

ASSUME ElfAssumption == PageBytes \in Nat \ {0} /\ PieBias \in Nat

AlignDown(a) == a - (a % PageBytes)
AlignUp(a) == AlignDown(a + PageBytes - 1)
PagesIn(first, len) == (first \div PageBytes)..((first + len) \div PageBytes - 1)

EffectiveBias(elf) == IF elf.type = "ET_EXEC" THEN 0 ELSE PieBias

PtLoad(elf) == {i \in DOMAIN elf.segments : elf.segments[i].load}
Vaddr(elf, i) == elf.segments[i].vaddr + EffectiveBias(elf)

(* The pages mapped and faulted in for a segment: mem_size bytes from      *)
(* page_aligned_vaddr.                                                     *)
SegmentPages(elf, i) ==
    LET padding == Vaddr(elf, i) - AlignDown(Vaddr(elf, i))
    IN  PagesIn(AlignDown(Vaddr(elf, i)),
                AlignUp(elf.segments[i].memsz + padding))

(* The loader refuses a file without the magic number or of another type.  *)
HeaderGood(elf) == elf.magic /\ elf.type \in {"ET_EXEC", "ET_DYN"}

(* A segment may not be on the page at address 0.                          *)
OffNullPage(elf, i) == AlignDown(Vaddr(elf, i)) # 0

(* The page after the last byte of any segment; 0 without segments.        *)
HeapBase(elf) ==
    LET ends == {Vaddr(elf, i) + elf.segments[i].memsz : i \in PtLoad(elf)}
    IN  IF ends = {} THEN 0
        ELSE AlignUp(CHOOSE e \in ends : \A f \in ends : f <= e)
=============================================================================
