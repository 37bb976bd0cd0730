------------------------------- MODULE Lists -------------------------------
(***************************************************************************)
(* FoundationKit's IntrusiveDoublyLinkedList, which lives outside this     *)
(* repository, as the kernel uses it: a list is the sequence of its nodes, *)
(* PushBack is Append, PopFront is Head and Tail, and a traversal that     *)
(* unlinks some nodes leaves the others in their order.  A node belongs to *)
(* one list only: linking it twice corrupts both lists, which is what the  *)
(* scheduler's invariants exclude.                                         *)
(***************************************************************************)
EXTENDS Integers, Sequences, FiniteSets

(* The nodes a list links.                                                 *)
Elems(s) == {s[i] : i \in DOMAIN s}

(* No node is linked twice in the list.                                    *)
NoRepeat(s) == \A i, j \in DOMAIN s : s[i] = s[j] => i = j

(* The place of position i among the positions W.                          *)
Rank(W, i) == Cardinality({j \in W : j <= i})

(* The nodes of s at the positions W, in the order of s: what a traversal  *)
(* that unlinks every node outside W leaves, and the order in which one    *)
(* that visits the nodes of W reaches them.                                *)
Sublist(s, W) == [k \in 1..Cardinality(W) |-> s[CHOOSE i \in W : Rank(W, i) = k]]
=============================================================================
