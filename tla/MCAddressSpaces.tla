---------------------------- MODULE MCAddressSpaces ----------------------------
(* An instance of AddressSpaces for TLC: pages of two bytes; a fixed       *)
(* program of one page, a position independent one that crosses a page     *)
(* boundary, and one with a segment on the page at address 0.              *)
EXTENDS AddressSpaces, TLC

Seg(load, vaddr, memsz) == [load |-> load, vaddr |-> vaddr, memsz |-> memsz]

MCExecutables ==
    {[magic |-> TRUE, type |-> "ET_EXEC", segments |-> <<Seg(TRUE, 2, 1)>>],
     [magic |-> TRUE, type |-> "ET_DYN",
      segments |-> <<Seg(FALSE, 0, 1), Seg(TRUE, 1, 2)>>],
     [magic |-> TRUE, type |-> "ET_EXEC",
      segments |-> <<Seg(TRUE, 4, 1), Seg(TRUE, 1, 1)>>]}

MCSymmetry == Permutations(Roots)
=============================================================================
