----------------------------- MODULE MCProcess -----------------------------
(* Instance of Process for TLC.                                            *)
EXTENDS Process, TLC

MCSymmetry == Permutations(Threads) \cup Permutations(Procs)
=============================================================================
