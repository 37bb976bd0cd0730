--------------------------- MODULE MCUserContext ---------------------------
(* Instances of UserContext for TLC: a program that forks another, which   *)
(* uses signals.  The first one gets to one context besides its first.     *)
EXTENDS UserContext

CONSTANTS u1, u2

MCReach == [t \in Users |-> IF t = u1 THEN {[rip |-> 1, rsp |-> 0]} ELSE Context]
MCReachAll == [t \in Users |-> Context]
=============================================================================
