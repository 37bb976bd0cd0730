------------------------------ MODULE FdTable ------------------------------
(***************************************************************************)
(* The file descriptor table of a process, a function from numbers to open *)
(* descriptions.  The vector that holds it grows on demand; a slot past    *)
(* its end and an empty slot are both Closed.  A description is reference  *)
(* counted (RefPtr): by the slots that hold it and by the system calls     *)
(* under way on it.                                                        *)
(***************************************************************************)
EXTENDS Integers, FiniteSets

CONSTANTS
    Closed,     \* an empty slot
    kMaxFds     \* slots of a table

Fds == 0..(kMaxFds - 1)

EmptyTable == [fd \in Fds |-> Closed]

GetFd(table, fd) == table[fd]

(* The search of AllocateFd and of F_DUPFD, which starts at a given slot.  *)
FirstFreeFrom(table, low) ==
    {fd \in Fds : fd >= low /\ table[fd] = Closed
                  /\ \A g \in low..(fd - 1) : table[g] # Closed}

(* AllocateFd: the first empty slot, if there is one (else EMFILE).        *)
AllocateFd(table, file) ==
    {[table EXCEPT ![fd] = file] : fd \in FirstFreeFrom(table, 0)}

(* AllocateFdAt: whatever the slot held is closed first.                   *)
AllocateFdAt(table, fd, file) == [table EXCEPT ![fd] = file]

FreeFd(table, fd) == [table EXCEPT ![fd] = Closed]

(* The references that the slots of some tables hold to a description.     *)
SlotRefs(tables, file) ==
    Cardinality({x \in (DOMAIN tables) \X Fds : tables[x[1]][x[2]] = file})
=============================================================================
