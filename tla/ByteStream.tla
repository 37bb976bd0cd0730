----------------------------- MODULE ByteStream -----------------------------
(***************************************************************************)
(* What a pipe promises its users: bytes arrive once each, in the order in *)
(* which the pipe took them; at most Capacity are under way; end of file   *)
(* is reported only when nobody can write any more and everything has been *)
(* read, a broken pipe only when nobody can read any more.                 *)
(***************************************************************************)
EXTENDS Integers, Sequences

CONSTANTS Threads, Capacity

VARIABLES
    transit,    \* bytes taken and not delivered; <<t, k>> is t's k-th byte
    taken,      \* how many bytes of each thread the pipe took
    wopen,      \* somebody may still write
    ropen,      \* somebody may still read
    result      \* the end of file or broken pipe that the last step reported

svars == <<transit, taken, wopen, ropen, result>>

StreamInit ==
    /\ transit = <<>>
    /\ taken = [t \in Threads |-> 0]
    /\ wopen = TRUE
    /\ ropen = TRUE
    /\ result = "none"

Take(t, n) ==
    /\ Len(transit) + n <= Capacity
    /\ transit' = transit \o [i \in 1..n |-> <<t, taken[t] + i>>]
    /\ taken' = [taken EXCEPT ![t] = @ + n]
    /\ result' = "none"

Deliver(n) ==
    /\ n <= Len(transit)
    /\ transit' = SubSeq(transit, n + 1, Len(transit))
    /\ result' = "none"
    /\ UNCHANGED taken

EndOfFile ==
    /\ ~wopen
    /\ transit = <<>>
    /\ result' = "eof"
    /\ UNCHANGED <<transit, taken>>

(* A write may have been taken in part.                                    *)
BrokenPipe(t, n) ==
    /\ ~ropen
    /\ Len(transit) + n <= Capacity
    /\ transit' = transit \o [i \in 1..n |-> <<t, taken[t] + i>>]
    /\ taken' = [taken EXCEPT ![t] = @ + n]
    /\ result' = "epipe"

(* An end that nobody holds stays closed.                                  *)
Ends == (wopen' => wopen) /\ (ropen' => ropen)

(* Anything else that happens to the pipe or to the descriptors.           *)
Other == result' = "none" /\ UNCHANGED <<transit, taken>>

StreamNext ==
    /\ Ends
    /\ \/ \E t \in Threads, n \in 0..Capacity : Take(t, n) \/ BrokenPipe(t, n)
       \/ \E n \in 0..Capacity : Deliver(n)
       \/ EndOfFile
       \/ Other

StreamSpec == StreamInit /\ [][StreamNext]_svars
=============================================================================
