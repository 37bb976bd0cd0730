-------------------------------- MODULE Pipe --------------------------------
(***************************************************************************)
(* One pipe, the descriptor tables through which processes hold its two    *)
(* ends, and the calls that threads make on it.                            *)
(*                                                                         *)
(* A system call runs with interrupts masked and Pipe::m_lock is given up  *)
(* while a thread sleeps on a condition variable, so nobody ever waits for *)
(* the lock: a call is one step up to its return or its next sleep, and    *)
(* one step each time it is woken.  Which thread steps next is up to the   *)
(* scheduler.  A call holds a reference to the description it works on     *)
(* (the RefPtr that GetFd returned) until it returns.  Neither end is      *)
(* checked against the direction of the call.                              *)
(***************************************************************************)
EXTENDS FdTable, Sequences

CONSTANTS
    Threads,    \* threads that use the pipe
    Procs,      \* processes
    Owner,      \* the process of each thread (clone shares a process)
    Creator,    \* the process that calls pipe()
    Capacity,   \* kDefaultCapacity
    MaxCall,    \* bound: bytes asked for in one call
    MaxBytes    \* bound: bytes a thread hands to write in a behaviour

ASSUME PipeAssumption ==
    /\ IsFiniteSet(Threads) /\ IsFiniteSet(Procs)
    /\ Owner \in [Threads -> Procs]
    /\ Creator \in Procs
    /\ Capacity \in Nat \ {0}
    /\ MaxCall \in Nat
    /\ MaxBytes \in Nat
    /\ kMaxFds \in Nat \ {0, 1}

Ends == {"r", "w"}
ASSUME ClosedAssumption == Closed \notin Ends

VARIABLES
    proc,       \* life of each process
    fds,        \* Process::m_fd_table
    buf,        \* Pipe::m_buffer; <<t, k>> is the k-th byte t handed over
    count,      \* m_readers and m_writers: open descriptions of each end
    call,       \* the call each thread is in
    end,        \* the description that call works on
    left,       \* bytes that call still has to move
    asleep,     \* the condition variable each thread sleeps on
    given,      \* bytes of each thread pushed so far
    result      \* the end of file or broken pipe that the last step returned

vars == <<proc, fds, buf, count, call, end, left, asleep, given, result>>

TypeOK ==
    /\ proc \in [Procs -> {"unborn", "alive", "zombie"}]
    /\ fds \in [Procs -> [Fds -> Ends \cup {Closed}]]
    /\ buf \in Seq(Threads \X (1..MaxBytes))
    /\ Len(buf) <= Capacity
    /\ count \in [Ends -> {0, 1}]
    /\ call \in [Threads -> {"none", "read", "write", "gone"}]
    /\ end \in [Threads -> Ends \cup {Closed}]
    /\ left \in [Threads -> 0..MaxCall]
    /\ asleep \in [Threads -> {"no", "can_read", "can_write"}]
    /\ given \in [Threads -> 0..MaxBytes]
    /\ result \in {"none", "eof", "epipe"}

(* sys_pipe has made one description per end, the first two slots.         *)
Init ==
    /\ proc = [p \in Procs |-> IF p = Creator THEN "alive" ELSE "unborn"]
    /\ fds = [p \in Procs |->
                IF p = Creator THEN [EmptyTable EXCEPT ![0] = "r", ![1] = "w"]
                ELSE EmptyTable]
    /\ buf = <<>>
    /\ count = [e \in Ends |-> 1]
    /\ call = [t \in Threads |-> "none"]
    /\ end = [t \in Threads |-> Closed]
    /\ left = [t \in Threads |-> 0]
    /\ asleep = [t \in Threads |-> "no"]
    /\ given = [t \in Threads |-> 0]
    /\ result = "none"

----------------------------------------------------------------------------
(* References to an end, with tables fs and calls under way on en.         *)
Refs(fs, en, e) == SlotRefs(fs, e) + Cardinality({t \in Threads : en[t] = e})

(* FileDescription::Destroy, when the last reference goes: the ends closed *)
(* by a step that leaves tables fs and calls on en.                        *)
ClosedEnds(fs, en) == {e \in Ends : count[e] # 0 /\ Refs(fs, en, e) = 0}

(* Faulty: the last writer leaves silently; the last reader does.          *)
CloseNotifiesWriters(E) == IF "r" \in E THEN {"can_write"} ELSE {}
CloseNotifiesReaders(E) == IF "w" \in E THEN {"can_read"} ELSE {}

(* DecrementReaders and DecrementWriters: when none is left, NotifyAll on  *)
(* the condition that the other side sleeps on.                            *)
CloseNotifies(E) ==
    {IF e = "r" THEN "can_write" ELSE "can_read" : e \in {x \in E : count[x] = 1}}

(* A step that leaves tables fs and calls on en: descriptions no longer    *)
(* referenced are closed, and the sleepers on the conditions C and on      *)
(* those that closing notifies are woken.                                  *)
Settle(fs, en, C) ==
    /\ fds' = fs
    /\ end' = en
    /\ count' = [e \in Ends |-> IF e \in ClosedEnds(fs, en) THEN count[e] - 1 ELSE count[e]]
    /\ asleep' = [t \in Threads |->
                    IF asleep[t] \in C \cup CloseNotifies(ClosedEnds(fs, en)) THEN "no"
                    ELSE asleep[t]]

(* The call of t returns.                                                  *)
Return(t, C, r) ==
    /\ call' = [call EXCEPT ![t] = "none"]
    /\ left' = [left EXCEPT ![t] = 0]
    /\ result' = r
    /\ Settle(fds, [end EXCEPT ![t] = Closed], C)

(* t, in call c on end e with n bytes to move, waits for condition cv      *)
(* after it has notified the conditions C.                                 *)
Wait(t, c, e, n, cv, C) ==
    /\ call' = [call EXCEPT ![t] = c]
    /\ left' = [left EXCEPT ![t] = n]
    /\ result' = "none"
    /\ end' = [end EXCEPT ![t] = e]
    /\ asleep' = [u \in Threads |-> IF u = t THEN cv
                                    ELSE IF asleep[u] \in C THEN "no" ELSE asleep[u]]
    /\ UNCHANGED <<fds, count>>

Min2(a, b) == IF a <= b THEN a ELSE b

(* Faulty: the writers are looked at before the buffer.                    *)
ReadEofFirst(t) ==
    /\ count["w"] = 0
    /\ Return(t, {}, "eof")
    /\ UNCHANGED <<buf, given>>

(* Pipe::Read from the test of its loop on, for n bytes through end e.     *)
ReadEof(t) ==
    /\ buf = <<>>
    /\ count["w"] = 0
    /\ Return(t, {}, "eof")
    /\ UNCHANGED <<buf, given>>

(* Faulty: Read does not tell writers that there is room.                  *)
ReadDataSilently(t, n) ==
    /\ buf # <<>>
    /\ buf' = SubSeq(buf, Min2(n, Len(buf)) + 1, Len(buf))
    /\ Return(t, {}, "none")
    /\ UNCHANGED given

ReadData(t, n) ==
    /\ buf # <<>>
    /\ buf' = SubSeq(buf, Min2(n, Len(buf)) + 1, Len(buf))
    /\ Return(t, IF n > 0 THEN {"can_write"} ELSE {}, "none")
    /\ UNCHANGED given

ReadWait(t, e, n) ==
    /\ buf = <<>>
    /\ count["w"] # 0
    /\ Wait(t, "read", e, n, "can_read", {})
    /\ UNCHANGED <<buf, given>>

Read(t, e, n) == ReadEof(t) \/ ReadData(t, n) \/ ReadWait(t, e, n)

(* Faulty: one byte more than the buffer holds.                            *)
RoomOneMore(n) == Min2(n, Capacity + 1 - Len(buf))

(* Pipe::Write from the test of its loop on, with n bytes left.  Nobody    *)
(* runs between NotifyAll and the next sleep, so a step fills the buffer   *)
(* once.                                                                   *)
Room(n) == Min2(n, Capacity - Len(buf))

Push(t, k) ==
    /\ buf' = buf \o [i \in 1..k |-> <<t, given[t] + i>>]
    /\ given' = [given EXCEPT ![t] = @ + k]

Notified(k) == IF k > 0 THEN {"can_read"} ELSE {}

WriteAll(t, n) ==
    /\ Room(n) = n
    /\ Push(t, n)
    /\ Return(t, Notified(n), "none")

(* Full, after as many bytes as fit.                                       *)
WriteBroken(t, n) ==
    /\ Room(n) < n
    /\ count["r"] = 0
    /\ Push(t, Room(n))
    /\ Return(t, Notified(Room(n)), "epipe")

WriteWait(t, e, n) ==
    /\ Room(n) < n
    /\ count["r"] # 0
    /\ Push(t, Room(n))
    /\ Wait(t, "write", e, n - Room(n), "can_write", Notified(Room(n)))

Write(t, e, n) == WriteAll(t, n) \/ WriteBroken(t, n) \/ WriteWait(t, e, n)

(* The first test of Pipe::Write.                                          *)
WriteNoReader(t) ==
    /\ count["r"] = 0
    /\ Return(t, {}, "epipe")
    /\ UNCHANGED <<buf, given>>

----------------------------------------------------------------------------
(* System calls.                                                           *)

InUserCode(t) == proc[Owner[t]] # "unborn" /\ call[t] = "none"
InCall(t, c) == call[t] = c /\ asleep[t] = "no"

SysRead(t, fd, n) ==
    /\ InUserCode(t)
    /\ GetFd(fds[Owner[t]], fd) # Closed
    /\ Read(t, GetFd(fds[Owner[t]], fd), n)
    /\ UNCHANGED proc

SysWrite(t, fd, n) ==
    /\ InUserCode(t)
    /\ GetFd(fds[Owner[t]], fd) # Closed
    /\ given[t] + n <= MaxBytes
    /\ \/ WriteNoReader(t)
       \/ count["r"] # 0 /\ Write(t, GetFd(fds[Owner[t]], fd), n)
    /\ UNCHANGED proc

(* A thread woken inside a call.                                           *)
ResumeRead(t) == InCall(t, "read") /\ Read(t, end[t], left[t]) /\ UNCHANGED proc
ResumeWrite(t) == InCall(t, "write") /\ Write(t, end[t], left[t]) /\ UNCHANGED proc

(* A call that replaces the table of the caller's process.                 *)
SetTable(t, table) ==
    /\ InUserCode(t)
    /\ Settle([fds EXCEPT ![Owner[t]] = table], end, {})
    /\ result' = "none"
    /\ UNCHANGED <<proc, buf, call, left, given>>

SysClose(t, fd) == SetTable(t, FreeFd(fds[Owner[t]], fd))

SysDup(t, fd) ==
    /\ GetFd(fds[Owner[t]], fd) # Closed
    /\ \E table \in AllocateFd(fds[Owner[t]], GetFd(fds[Owner[t]], fd)) :
         SetTable(t, table)

SysDup2(t, old, new) ==
    /\ old # new
    /\ GetFd(fds[Owner[t]], old) # Closed
    /\ SetTable(t, AllocateFdAt(fds[Owner[t]], new, GetFd(fds[Owner[t]], old)))

(* F_DUPFD and F_DUPFD_CLOEXEC: the first empty slot from arg on.          *)
SysFcntlDup(t, fd, arg) ==
    /\ GetFd(fds[Owner[t]], fd) # Closed
    /\ \E new \in FirstFreeFrom(fds[Owner[t]], arg) :
         SetTable(t, AllocateFdAt(fds[Owner[t]], new, GetFd(fds[Owner[t]], fd)))

(* fork: each slot of the child's table gets a copy of the reference.      *)
SysFork(t, child) ==
    /\ InUserCode(t)
    /\ proc[child] = "unborn"
    /\ proc' = [proc EXCEPT ![child] = "alive"]
    /\ fds' = [fds EXCEPT ![child] = fds[Owner[t]]]
    /\ result' = "none"
    /\ UNCHANGED <<buf, count, call, end, left, asleep, given>>

(* exit: the process's table is emptied and the calling thread is gone;    *)
(* other threads of the process go on with an empty table.                 *)
SysExit(t) ==
    /\ InUserCode(t)
    /\ proc' = [proc EXCEPT ![Owner[t]] = "zombie"]
    /\ call' = [call EXCEPT ![t] = "gone"]
    /\ Settle([fds EXCEPT ![Owner[t]] = EmptyTable], end, {})
    /\ result' = "none"
    /\ UNCHANGED <<buf, left, given>>

----------------------------------------------------------------------------
Next ==
    \E t \in Threads :
        \/ \E fd \in Fds, n \in 0..MaxCall : SysRead(t, fd, n) \/ SysWrite(t, fd, n)
        \/ ResumeRead(t)
        \/ ResumeWrite(t)
        \/ \E fd \in Fds : SysClose(t, fd) \/ SysDup(t, fd)
        \/ \E old, new \in Fds : SysDup2(t, old, new) \/ SysFcntlDup(t, old, new)
        \/ \E child \in Procs : SysFork(t, child)
        \/ SysExit(t)

Spec == Init /\ [][Next]_vars

(* A thread that Wake has put back in a run queue gets the CPU: that is    *)
(* what Scheduler's QueuedThreadRuns establishes.                          *)
FairSpec ==
    /\ Spec
    /\ \A t \in Threads : WF_vars(ResumeRead(t)) /\ WF_vars(ResumeWrite(t))

----------------------------------------------------------------------------
(* What the pipe promises.                                                 *)

(* No wake-up is lost: a thread sleeps in read only while the pipe is      *)
(* empty and has a writer, and in write only while it is full and has a    *)
(* reader.                                                                 *)
NoLostWakeup ==
    \A t \in Threads :
        /\ asleep[t] = "can_read" => buf = <<>> /\ count["w"] # 0
        /\ asleep[t] = "can_write" => Len(buf) = Capacity /\ count["r"] # 0

(* End of file reaches everybody: once the last write descriptor is gone,  *)
(* every thread that is in read returns.                                   *)
EofReachesReaders ==
    \A t \in Threads :
        (call[t] = "read" /\ count["w"] = 0) ~> (call[t] # "read")

(* A broken pipe reaches everybody: once the last read descriptor is gone, *)
(* every thread that is in write returns.                                  *)
BrokenPipeReachesWriters ==
    \A t \in Threads :
        (call[t] = "write" /\ count["r"] = 0) ~> (call[t] # "write")

(* The pipe is a byte stream: order and once-only delivery are kept when   *)
(* writes are taken in pieces between other writers' bytes, end of file    *)
(* means that no process holds the write end, and a broken pipe that none  *)
(* holds the read end.                                                     *)
Stream == INSTANCE ByteStream
            WITH transit <- buf, taken <- given,
                 wopen <- (Refs(fds, end, "w") > 0),
                 ropen <- (Refs(fds, end, "r") > 0)

ImplementsByteStream == Stream!StreamSpec
=============================================================================
