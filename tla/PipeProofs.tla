----------------------------- MODULE PipeProofs -----------------------------
(***************************************************************************)
(* No wake-up on a pipe is lost, and a pipe is a byte stream, for any      *)
(* threads, processes, capacity and sizes of calls.                        *)
(*                                                                         *)
(* Neither follows from the buffer alone.  Whether a sleeper is woken when *)
(* an end closes depends on the counts of readers and writers being those  *)
(* of the descriptors and calls that hold the ends, so IInv says that they *)
(* are; and that a thread sleeps on the condition of the call it is in.    *)
(***************************************************************************)
EXTENDS Pipe, FiniteSetTheorems, TLAPS

(* Somebody holds end e, with tables fs and calls under way on en.         *)
Held(fs, en, e) ==
    \/ \E p \in Procs, fd \in Fds : fs[p][fd] = e
    \/ \E t \in Threads : en[t] = e

(* The counts of readers and writers are right.                            *)
CountExact == \A e \in Ends : count[e] # 0 <=> Held(fds, end, e)

(* A thread sleeps only inside a call, on the condition that call waits    *)
(* for; and a write never hands over more bytes than the thread has.       *)
CallsSound ==
    \A t \in Threads :
        /\ call[t] \in {"none", "gone"} => asleep[t] = "no" /\ end[t] = Closed
        /\ call[t] = "read" => asleep[t] \in {"no", "can_read"} /\ end[t] # Closed
        /\ call[t] = "write" => /\ asleep[t] \in {"no", "can_write"} /\ end[t] # Closed
                                /\ given[t] + left[t] <= MaxBytes

(* A process that fork has not made yet holds nothing.                     *)
UnbornSound ==
    \A p \in Procs : proc[p] = "unborn" => \A fd \in Fds : fds[p][fd] = Closed

IInv == TypeOK /\ CountExact /\ CallsSound /\ UnbornSound /\ NoLostWakeup

Tables == [Procs -> [Fds -> Ends \cup {Closed}]]
Bytes == Threads \X (1..MaxBytes)

(* An end that nobody holds stays closed.                                  *)
StaysClosed == \A e \in Ends : Held(fds, end, e)' => Held(fds, end, e)

USE PipeAssumption, ClosedAssumption

----------------------------------------------------------------------------
(* The reference counts of descriptions: an end has none exactly when no   *)
(* slot and no call holds it.                                              *)
LEMMA RefsHeld ==
  ASSUME NEW fs \in Tables, NEW en \in [Threads -> Ends \cup {Closed}], NEW e
  PROVE  Refs(fs, en, e) \in Nat /\ (Refs(fs, en, e) = 0 <=> ~Held(fs, en, e))
<1> DEFINE S == {x \in (DOMAIN fs) \X Fds : fs[x[1]][x[2]] = e}
           U == {t \in Threads : en[t] = e}
<1>1. IsFiniteSet(S) /\ IsFiniteSet(U)
  <2>1. IsFiniteSet(Fds)
    <3>1. 0 \in Int /\ kMaxFds - 1 \in Int
      OBVIOUS
    <3> QED  BY <3>1, FS_Interval DEF Fds
  <2>2. IsFiniteSet(Procs \X Fds)
    BY <2>1, FS_Product
  <2>3. S \subseteq Procs \X Fds
    BY DEF Tables
  <2> QED  BY <2>2, <2>3, FS_Subset
<1>2. /\ Cardinality(S) \in Nat /\ Cardinality(U) \in Nat
      /\ Cardinality(S) = 0 <=> S = {}
      /\ Cardinality(U) = 0 <=> U = {}
  BY <1>1, FS_CardinalityType, FS_EmptySet
<1>3. Refs(fs, en, e) = Cardinality(S) + Cardinality(U)
  BY DEF Refs, SlotRefs
<1>4. S = {} <=> ~ \E p \in Procs, fd \in Fds : fs[p][fd] = e
  <2>1. DOMAIN fs = Procs
    BY DEF Tables
  <2>2. ASSUME NEW p \in Procs, NEW fd \in Fds, fs[p][fd] = e PROVE S # {}
    <3>1. <<p, fd>> \in S
      BY <2>1, <2>2
    <3> QED  BY <3>1
  <2>3. ASSUME NEW x \in S PROVE \E p \in Procs, fd \in Fds : fs[p][fd] = e
    <3>1. x[1] \in Procs /\ x[2] \in Fds /\ fs[x[1]][x[2]] = e
      BY <2>1
    <3> QED  BY <3>1
  <2> QED  BY <2>2, <2>3
<1>5. U = {} <=> ~ \E t \in Threads : en[t] = e
  OBVIOUS
<1> HIDE DEF S, U
<1> QED  BY <1>2, <1>3, <1>4, <1>5 DEF Held

(* Closing what is no longer held keeps the counts right, and wakes        *)
(* everybody whose condition the closing decides.                          *)
LEMMA SettleOK ==
  ASSUME TypeOK, CountExact, NEW fs \in Tables, NEW en \in [Threads -> Ends \cup {Closed}],
         \A e \in Ends : Held(fs, en, e) => Held(fds, end, e),
         NEW C, Settle(fs, en, C)
  PROVE  /\ count' \in [Ends -> {0, 1}] /\ CountExact'
         /\ fds' \in Tables /\ end' = en
         /\ asleep' \in [Threads -> {"no", "can_read", "can_write"}]
         /\ \A t \in Threads : /\ asleep'[t] \in {"no", asleep[t]}
                               /\ asleep[t] \in C => asleep'[t] = "no"
         /\ \A t \in Threads :
              /\ asleep'[t] = "can_read" /\ count["w"] # 0 => count'["w"] # 0
              /\ asleep'[t] = "can_write" /\ count["r"] # 0 => count'["r"] # 0
<1> DEFINE E == ClosedEnds(fs, en)
<1>1. /\ fds' = fs /\ end' = en
      /\ count' = [e \in Ends |-> IF e \in E THEN count[e] - 1 ELSE count[e]]
      /\ asleep' = [t \in Threads |-> IF asleep[t] \in C \cup CloseNotifies(E) THEN "no"
                                      ELSE asleep[t]]
  BY DEF Settle
<1>2. \A e \in Ends : e \in E <=> count[e] # 0 /\ ~Held(fs, en, e)
  BY RefsHeld DEF ClosedEnds
<1>3. /\ count \in [Ends -> {0, 1}]
      /\ asleep \in [Threads -> {"no", "can_read", "can_write"}]
  BY DEF TypeOK
<1>4. /\ "w" \in E => "can_read" \in CloseNotifies(E)
      /\ "r" \in E => "can_write" \in CloseNotifies(E)
  BY <1>2, <1>3 DEF CloseNotifies, ClosedEnds, Ends
<1> HIDE DEF E
<1>5. count' \in [Ends -> {0, 1}]
  BY <1>1, <1>2, <1>3
<1>6. CountExact'
  BY <1>1, <1>2, <1>3 DEF CountExact, Held
<1>7. /\ asleep' \in [Threads -> {"no", "can_read", "can_write"}]
      /\ \A t \in Threads : /\ asleep'[t] \in {"no", asleep[t]}
                            /\ asleep[t] \in C => asleep'[t] = "no"
  BY <1>1, <1>3
<1>8. ASSUME NEW t \in Threads
      PROVE  /\ asleep'[t] = "can_read" /\ count["w"] # 0 => count'["w"] # 0
             /\ asleep'[t] = "can_write" /\ count["r"] # 0 => count'["r"] # 0
  BY <1>1, <1>3, <1>4 DEF Ends
<1> QED  BY <1>1, <1>5, <1>6, <1>7, <1>8

(* What a call leaves in the buffer is enough for its types and for the    *)
(* sleepers it does not wake.                                              *)
BufferOK(C) ==
    /\ buf' \in Seq(Bytes) /\ Len(buf') <= Capacity
    /\ buf = <<>> => buf' = <<>> \/ "can_read" \in C
    /\ Len(buf) = Capacity => Len(buf') = Capacity \/ "can_write" \in C

GivenOK(t) ==
    /\ given' \in [Threads -> 0..MaxBytes]
    /\ \A u \in Threads : u # t => given'[u] = given[u]

(* A call that returns keeps the invariant if it notifies the conditions   *)
(* that it has made true.                                                  *)
LEMMA ReturnOK ==
  ASSUME IInv, NEW t \in Threads, NEW C, NEW r \in {"none", "eof", "epipe"},
         asleep[t] = "no", Return(t, C, r), BufferOK(C), GivenOK(t), UNCHANGED proc
  PROVE  IInv' /\ StaysClosed
<1> DEFINE en == [end EXCEPT ![t] = Closed]
<1>1. /\ call' = [call EXCEPT ![t] = "none"]
      /\ left' = [left EXCEPT ![t] = 0]
      /\ result' = r
      /\ Settle(fds, en, C)
  BY DEF Return
<1>2. /\ TypeOK /\ CountExact /\ CallsSound /\ NoLostWakeup
      /\ fds \in Tables /\ end \in [Threads -> Ends \cup {Closed}]
  BY DEF IInv, TypeOK, Tables
<1>3. /\ en \in [Threads -> Ends \cup {Closed}] /\ en[t] = Closed
      /\ \A u \in Threads : u # t => en[u] = end[u]
  BY <1>2
<1> HIDE DEF en
<1>4. \A e \in Ends : Held(fds, en, e) => Held(fds, end, e)
  BY <1>3 DEF Held
<1>5. /\ count' \in [Ends -> {0, 1}] /\ CountExact'
      /\ fds' \in Tables /\ end' = en
      /\ asleep' \in [Threads -> {"no", "can_read", "can_write"}]
      /\ \A u \in Threads : /\ asleep'[u] \in {"no", asleep[u]}
                            /\ asleep[u] \in C => asleep'[u] = "no"
      /\ \A u \in Threads :
           /\ asleep'[u] = "can_read" /\ count["w"] # 0 => count'["w"] # 0
           /\ asleep'[u] = "can_write" /\ count["r"] # 0 => count'["r"] # 0
  BY <1>1, <1>2, <1>3, <1>4, SettleOK
<1>6. TypeOK'
  <2>1. /\ call' \in [Threads -> {"none", "read", "write", "gone"}]
        /\ left' \in [Threads -> 0..MaxCall]
        /\ proc' \in [Procs -> {"unborn", "alive", "zombie"}]
    BY <1>1, <1>2 DEF TypeOK
  <2> QED  BY <1>1, <1>3, <1>5, <2>1 DEF TypeOK, Tables, BufferOK, Bytes, GivenOK
<1>7. CallsSound'
  <2> SUFFICES ASSUME NEW u \in Threads
               PROVE  /\ call'[u] \in {"none", "gone"} => asleep'[u] = "no" /\ end'[u] = Closed
                      /\ call'[u] = "read" => asleep'[u] \in {"no", "can_read"} /\ end'[u] # Closed
                      /\ call'[u] = "write" => /\ asleep'[u] \in {"no", "can_write"}
                                               /\ end'[u] # Closed
                                               /\ given'[u] + left'[u] <= MaxBytes
    BY DEF CallsSound
  <2>1. CASE u = t
    BY <2>1, <1>1, <1>2, <1>3, <1>5 DEF TypeOK
  <2>2. CASE u # t
    <3>1. call'[u] = call[u] /\ left'[u] = left[u] /\ given'[u] = given[u] /\ end'[u] = end[u]
      BY <2>2, <1>1, <1>2, <1>3, <1>5 DEF TypeOK, GivenOK
    <3> QED  BY <3>1, <1>2, <1>5 DEF CallsSound
  <2> QED  BY <2>1, <2>2
<1>8. NoLostWakeup'
  <2> SUFFICES ASSUME NEW u \in Threads
               PROVE  /\ asleep'[u] = "can_read" => buf' = <<>> /\ count'["w"] # 0
                      /\ asleep'[u] = "can_write" => Len(buf') = Capacity /\ count'["r"] # 0
    BY DEF NoLostWakeup
  <2>1. asleep'[u] = "can_read" => asleep[u] = "can_read" /\ "can_read" \notin C
    BY <1>5
  <2>2. asleep'[u] = "can_write" => asleep[u] = "can_write" /\ "can_write" \notin C
    BY <1>5
  <2> QED  BY <2>1, <2>2, <1>2, <1>5 DEF NoLostWakeup, BufferOK
<1>9. StaysClosed /\ UnbornSound'
  BY <1>1, <1>4, <1>5 DEF StaysClosed, Held, Settle, UnbornSound, IInv
<1> QED  BY <1>5, <1>6, <1>7, <1>8, <1>9 DEF IInv

(* A call that goes to sleep keeps the invariant if what it waits for is   *)
(* not there when it goes to sleep.                                        *)
LEMMA WaitOK ==
  ASSUME IInv, NEW t \in Threads, NEW c \in {"read", "write"}, NEW e \in Ends,
         NEW n \in 0..MaxCall, NEW C,
         asleep[t] = "no", end[t] \in {Closed, e}, Held(fds, end, e),
         Wait(t, c, e, n, IF c = "read" THEN "can_read" ELSE "can_write", C),
         BufferOK(C), GivenOK(t), UNCHANGED proc,
         c = "read" => buf' = <<>> /\ count["w"] # 0,
         c = "write" => /\ Len(buf') = Capacity /\ count["r"] # 0
                        /\ given'[t] + n <= MaxBytes
  PROVE  IInv' /\ StaysClosed
<1> DEFINE cv == IF c = "read" THEN "can_read" ELSE "can_write"
<1>1. /\ call' = [call EXCEPT ![t] = c]
      /\ left' = [left EXCEPT ![t] = n]
      /\ result' = "none"
      /\ end' = [end EXCEPT ![t] = e]
      /\ asleep' = [u \in Threads |-> IF u = t THEN cv
                                      ELSE IF asleep[u] \in C THEN "no" ELSE asleep[u]]
      /\ UNCHANGED <<fds, count>>
  BY DEF Wait
<1>2. /\ TypeOK /\ CountExact /\ CallsSound /\ NoLostWakeup
  BY DEF IInv
<1>3. TypeOK'
  BY <1>1, <1>2 DEF TypeOK, BufferOK, Bytes, GivenOK
<1>4. /\ call'[t] = c /\ left'[t] = n /\ end'[t] = e /\ asleep'[t] = cv
      /\ \A u \in Threads : u # t =>
           /\ call'[u] = call[u] /\ left'[u] = left[u] /\ end'[u] = end[u]
           /\ asleep'[u] = IF asleep[u] \in C THEN "no" ELSE asleep[u]
  BY <1>1, <1>2 DEF TypeOK
<1>5. \A x \in Ends : Held(fds, end, x)' <=> Held(fds, end, x)
  <2> SUFFICES ASSUME NEW x \in Ends
               PROVE  Held(fds, end', x) <=> Held(fds, end, x)
    BY <1>1 DEF Held
  <2>1. CASE x = e
    BY <2>1, <1>4 DEF Held
  <2>2. CASE x # e
    BY <2>2, <1>4 DEF Held
  <2> QED  BY <2>1, <2>2
<1>6. CountExact'
  BY <1>1, <1>2, <1>5 DEF CountExact
<1>7. CallsSound'
  BY <1>2, <1>4 DEF CallsSound, GivenOK
<1>8. NoLostWakeup'
  <2> SUFFICES ASSUME NEW u \in Threads
               PROVE  /\ asleep'[u] = "can_read" => buf' = <<>> /\ count["w"] # 0
                      /\ asleep'[u] = "can_write" => Len(buf') = Capacity /\ count["r"] # 0
    BY <1>1 DEF NoLostWakeup
  <2>1. CASE u = t
    BY <2>1, <1>4
  <2>2. CASE u # t
    BY <2>2, <1>2, <1>4 DEF NoLostWakeup, BufferOK
  <2> QED  BY <2>1, <2>2
<1>9. StaysClosed /\ UnbornSound'
  BY <1>1, <1>5 DEF StaysClosed, UnbornSound, IInv
<1> QED  BY <1>3, <1>6, <1>7, <1>8, <1>9 DEF IInv

(* The bytes that a write puts in the buffer.                              *)
LEMMA PushOK ==
  ASSUME IInv, NEW t \in Threads, NEW k \in 0..(Capacity - Len(buf)),
         given[t] + k <= MaxBytes, Push(t, k)
  PROVE  /\ buf' \in Seq(Bytes) /\ Len(buf') = Len(buf) + k
         /\ k = 0 => buf' = buf
         /\ GivenOK(t) /\ given'[t] = given[t] + k
<1>1. /\ buf' = buf \o [i \in 1..k |-> <<t, given[t] + i>>]
      /\ given' = [given EXCEPT ![t] = given[t] + k]
  BY DEF Push
<1>2. /\ buf \in Seq(Bytes) /\ Len(buf) \in Nat /\ given \in [Threads -> 0..MaxBytes] /\ k \in Nat
  BY DEF IInv, TypeOK, Bytes
<1>3. given' \in [Threads -> 0..MaxBytes] /\ given'[t] = given[t] + k
      /\ \A u \in Threads : u # t => given'[u] = given[u]
  BY <1>1, <1>2
<1> DEFINE new == [i \in 1..k |-> <<t, given[t] + i>>]
<1>4. new \in Seq(Bytes) /\ Len(new) = k
  <2>1. \A i \in 1..k : <<t, given[t] + i>> \in Bytes
    BY <1>2 DEF Bytes
  <2> QED  BY <1>2, <2>1
<1>5. k = 0 => new = <<>>
  BY <1>4
<1> HIDE DEF new
<1>6. buf \o new \in Seq(Bytes) /\ Len(buf \o new) = Len(buf) + k
  <2>1. \A s, u \in Seq(Bytes) : s \o u \in Seq(Bytes) /\ Len(s \o u) = Len(s) + Len(u)
    OBVIOUS
  <2> QED  BY <2>1, <1>2, <1>4
<1>7. k = 0 => buf \o new = buf
  <2>1. buf \o <<>> = buf
    BY <1>2
  <2> QED  BY <2>1, <1>5
<1>8. buf' = buf \o new
  BY <1>1 DEF new
<1> QED  BY <1>3, <1>6, <1>7, <1>8 DEF GivenOK

----------------------------------------------------------------------------
(* The rest of Pipe::Read.                                                 *)
LEMMA ReadOK ==
  ASSUME IInv, NEW t \in Threads, NEW e \in Ends, NEW n \in 0..MaxCall,
         asleep[t] = "no", end[t] \in {Closed, e}, Held(fds, end, e),
         Read(t, e, n), UNCHANGED proc
  PROVE  IInv' /\ StaysClosed
<1>1. /\ buf \in Seq(Bytes) /\ Len(buf) \in Nat /\ Len(buf) <= Capacity
      /\ given \in [Threads -> 0..MaxBytes] /\ n \in Nat
  BY DEF IInv, TypeOK, Bytes
<1>2. UNCHANGED given => GivenOK(t)
  BY <1>1 DEF GivenOK
<1>3. CASE ReadEof(t)
  BY <1>1, <1>2, <1>3, ReturnOK DEF ReadEof, BufferOK
<1>4. CASE ReadData(t, n)
  <2> DEFINE k == Min2(n, Len(buf))
             C == IF n > 0 THEN {"can_write"} ELSE {}
  <2>1. /\ buf # <<>> /\ buf' = SubSeq(buf, k + 1, Len(buf))
        /\ Return(t, C, "none") /\ UNCHANGED given
    BY <1>4 DEF ReadData
  <2>2. k \in 0..Len(buf) /\ (n = 0 => k = 0)
    BY <1>1 DEF Min2
  <2> HIDE DEF k
  <2>3. buf' \in Seq(Bytes) /\ Len(buf') = Len(buf) - k
    BY <1>1, <2>1, <2>2
  <2>4. BufferOK(C)
    BY <1>1, <2>1, <2>2, <2>3 DEF BufferOK
  <2> HIDE DEF C
  <2> QED  BY <1>2, <2>1, <2>4, ReturnOK
<1>5. CASE ReadWait(t, e, n)
  <2>1. /\ buf = <<>> /\ count["w"] # 0 /\ Wait(t, "read", e, n, "can_read", {})
        /\ UNCHANGED <<buf, given>>
    BY <1>5 DEF ReadWait
  <2>2. BufferOK({}) /\ GivenOK(t)
    BY <1>1, <1>2, <2>1 DEF BufferOK
  <2> QED  BY <2>1, <2>2, WaitOK
<1> QED  BY <1>3, <1>4, <1>5 DEF Read

(* The room that a write finds, and what it leaves.                        *)
LEMMA RoomOK ==
  ASSUME IInv, NEW t \in Threads, NEW n \in 0..MaxCall, given[t] + n <= MaxBytes
  PROVE  /\ Room(n) \in 0..(Capacity - Len(buf)) /\ Room(n) <= n
         /\ given[t] + Room(n) <= MaxBytes
         /\ Room(n) < n => Room(n) = Capacity - Len(buf)
         /\ Len(buf) \in Nat /\ given[t] \in Nat
<1>1. /\ Len(buf) \in Nat /\ Len(buf) <= Capacity /\ given[t] \in Nat /\ n \in Nat
  BY DEF IInv, TypeOK
<1> QED  BY <1>1 DEF Room, Min2

(* A write that takes k bytes leaves what the sleepers need, as it         *)
(* notifies readers when there is something to read.                       *)
LEMMA TakenOK ==
  ASSUME IInv, NEW t \in Threads, NEW k \in 0..(Capacity - Len(buf)),
         given[t] + k <= MaxBytes, Push(t, k)
  PROVE  BufferOK(Notified(k)) /\ GivenOK(t) /\ given'[t] = given[t] + k
         /\ Len(buf') = Len(buf) + k
<1>1. Len(buf) \in Nat /\ k \in Nat /\ Len(buf) <= Capacity
  BY DEF IInv, TypeOK
<1>2. /\ buf' \in Seq(Bytes) /\ Len(buf') = Len(buf) + k
      /\ k = 0 => buf' = buf
      /\ GivenOK(t) /\ given'[t] = given[t] + k
  BY PushOK
<1>3. k # 0 => "can_read" \in Notified(k)
  BY <1>1 DEF Notified
<1> QED  BY <1>1, <1>2, <1>3 DEF BufferOK

(* The rest of Pipe::Write.                                                *)
LEMMA WriteOK ==
  ASSUME IInv, NEW t \in Threads, NEW e \in Ends, NEW n \in 0..MaxCall,
         asleep[t] = "no", end[t] \in {Closed, e}, Held(fds, end, e),
         given[t] + n <= MaxBytes, Write(t, e, n), UNCHANGED proc
  PROVE  IInv' /\ StaysClosed
<1> DEFINE k == Room(n)
<1>1. /\ k \in 0..(Capacity - Len(buf)) /\ k <= n
      /\ given[t] + k <= MaxBytes
      /\ k < n => k = Capacity - Len(buf)
      /\ Len(buf) \in Nat /\ given[t] \in Nat
  BY RoomOK
<1>2. Push(t, k) /\ \/ k = n /\ Return(t, Notified(k), "none")
                    \/ k < n /\ Return(t, Notified(k), "epipe")
                    \/ /\ k < n /\ count["r"] # 0
                       /\ Wait(t, "write", e, n - k, "can_write", Notified(k))
  BY DEF Write, WriteAll, WriteBroken, WriteWait
<1> HIDE DEF k
<1>3. BufferOK(Notified(k)) /\ GivenOK(t) /\ given'[t] = given[t] + k /\ Len(buf') = Len(buf) + k
  BY <1>1, <1>2, TakenOK
<1>4. CASE Return(t, Notified(k), "none") \/ Return(t, Notified(k), "epipe")
  BY <1>3, <1>4, ReturnOK
<1>5. CASE k < n /\ count["r"] # 0 /\ Wait(t, "write", e, n - k, "can_write", Notified(k))
  <2>1. n - k \in 0..MaxCall
    BY <1>1, <1>5
  <2>2. Len(buf') = Capacity
    BY <1>1, <1>3, <1>5
  <2>3. given'[t] + (n - k) <= MaxBytes
    BY <1>1, <1>3
  <2> QED  BY <1>3, <1>5, <2>1, <2>2, <2>3, WaitOK
<1> QED  BY <1>2, <1>4, <1>5

(* A call that replaces the table of the caller's process by one that      *)
(* holds no other ends.                                                    *)
LEMMA TableOK ==
  ASSUME IInv, NEW t \in Threads, NEW table \in [Fds -> Ends \cup {Closed}],
         \A fd \in Fds : table[fd] \in {Closed} \cup {fds[Owner[t]][g] : g \in Fds},
         Settle([fds EXCEPT ![Owner[t]] = table], end, {}), result' = "none",
         proc[Owner[t]] # "unborn",
         proc' \in {proc, [proc EXCEPT ![Owner[t]] = "zombie"]},
         call' = call \/ (call[t] = "none" /\ call' = [call EXCEPT ![t] = "gone"]),
         UNCHANGED <<buf, left, given>>
  PROVE  IInv' /\ StaysClosed
<1> DEFINE fs == [fds EXCEPT ![Owner[t]] = table]
<1>1. /\ TypeOK /\ CountExact /\ CallsSound /\ NoLostWakeup
      /\ fds \in Tables /\ end \in [Threads -> Ends \cup {Closed}] /\ Owner[t] \in Procs
  BY DEF IInv, TypeOK, Tables
<1>2. /\ fs \in Tables /\ fs[Owner[t]] = table
      /\ \A p \in Procs : p # Owner[t] => fs[p] = fds[p]
  BY <1>1 DEF Tables
<1> HIDE DEF fs
<1>3. \A e \in Ends : Held(fs, end, e) => Held(fds, end, e)
  BY <1>1, <1>2 DEF Held
<1>4. Settle(fs, end, {})
  BY DEF fs
<1>5. /\ count' \in [Ends -> {0, 1}] /\ CountExact'
      /\ fds' \in Tables /\ end' = end
      /\ asleep' \in [Threads -> {"no", "can_read", "can_write"}]
      /\ \A u \in Threads : asleep'[u] \in {"no", asleep[u]}
      /\ \A u \in Threads :
           /\ asleep'[u] = "can_read" /\ count["w"] # 0 => count'["w"] # 0
           /\ asleep'[u] = "can_write" /\ count["r"] # 0 => count'["r"] # 0
  BY <1>1, <1>2, <1>3, <1>4, SettleOK
<1>6. TypeOK'
  <2>1. call \in [Threads -> {"none", "read", "write", "gone"}]
    BY <1>1 DEF TypeOK
  <2>2. [call EXCEPT ![t] = "gone"] \in [Threads -> {"none", "read", "write", "gone"}]
    BY <2>1
  <2>3. call' \in [Threads -> {"none", "read", "write", "gone"}]
    BY <2>1, <2>2
  <2>4. proc' \in [Procs -> {"unborn", "alive", "zombie"}]
    BY <1>1 DEF TypeOK
  <2> QED  BY <1>1, <1>5, <2>3, <2>4 DEF TypeOK, Tables
<1>7. CallsSound'
  <2>1. \A u \in Threads : call'[u] = call[u] \/ (call[u] = "none" /\ call'[u] = "gone")
    BY <1>1 DEF TypeOK
  <2> QED  BY <1>1, <1>5, <2>1 DEF CallsSound
<1>8. NoLostWakeup'
  BY <1>1, <1>5 DEF NoLostWakeup
<1>9. StaysClosed
  BY <1>3, <1>4 DEF StaysClosed, Settle, Held
<1>10. UnbornSound'
  <2>1. \A p \in Procs : proc'[p] = "unborn" => proc[p] = "unborn" /\ p # Owner[t]
    BY <1>1 DEF TypeOK
  <2>2. fds' = fs
    BY <1>4 DEF Settle
  <2> QED  BY <1>2, <2>1, <2>2 DEF UnbornSound, IInv
<1> QED  BY <1>5, <1>6, <1>7, <1>8, <1>9, <1>10 DEF IInv

(* fork copies references, and creates none to an end nobody holds.        *)
LEMMA ForkOK ==
  ASSUME IInv, NEW t \in Threads, NEW child \in Procs, SysFork(t, child)
  PROVE  IInv' /\ StaysClosed
<1>1. /\ proc' = [proc EXCEPT ![child] = "alive"]
      /\ fds' = [fds EXCEPT ![child] = fds[Owner[t]]]
      /\ result' = "none"
      /\ UNCHANGED <<buf, count, call, end, left, asleep, given>>
      /\ proc[child] = "unborn"
  BY DEF SysFork
<1>2. /\ TypeOK /\ CountExact /\ CallsSound /\ UnbornSound /\ NoLostWakeup
      /\ Owner[t] \in Procs /\ fds \in Tables
  BY DEF IInv, TypeOK, Tables
<1>3. TypeOK'
  BY <1>1, <1>2 DEF TypeOK
<1>4. fds'[child] = fds[Owner[t]] /\ \A p \in Procs : p # child => fds'[p] = fds[p]
  BY <1>1, <1>2 DEF Tables
<1>5. \A fd \in Fds : fds[child][fd] = Closed
  BY <1>1, <1>2 DEF UnbornSound
<1>6. \A e \in Ends : Held(fds, end, e)' <=> Held(fds, end, e)
  <2> SUFFICES ASSUME NEW e \in Ends PROVE Held(fds', end, e) <=> Held(fds, end, e)
    BY <1>1 DEF Held
  <2>1. Held(fds', end, e) => Held(fds, end, e)
    BY <1>2, <1>4 DEF Held
  <2>2. Held(fds, end, e) => Held(fds', end, e)
    BY <1>4, <1>5 DEF Held
  <2> QED  BY <2>1, <2>2
<1>7. CountExact' /\ StaysClosed
  BY <1>1, <1>2, <1>6 DEF CountExact, StaysClosed
<1>8. CallsSound' /\ NoLostWakeup'
  BY <1>1, <1>2 DEF CallsSound, NoLostWakeup
<1>9. UnbornSound'
  <2>1. \A p \in Procs : proc'[p] = "unborn" => proc[p] = "unborn" /\ p # child
    BY <1>1, <1>2 DEF TypeOK
  <2> QED  BY <1>2, <1>4, <2>1 DEF UnbornSound
<1> QED  BY <1>3, <1>7, <1>8, <1>9 DEF IInv

----------------------------------------------------------------------------
(* After sys_pipe its creator holds both ends and nobody is in a call.     *)
LEMMA InitInv == Init => IInv
<1> SUFFICES ASSUME Init PROVE IInv
  OBVIOUS
<1> DEFINE table == [EmptyTable EXCEPT ![0] = "r", ![1] = "w"]
<1>1. 0 \in Fds /\ 1 \in Fds
  BY DEF Fds
<1>2. /\ EmptyTable \in [Fds -> Ends \cup {Closed}]
      /\ \A fd \in Fds : EmptyTable[fd] = Closed
  BY DEF EmptyTable
<1>3. table \in [Fds -> Ends \cup {Closed}] /\ table[0] = "r" /\ table[1] = "w"
  BY <1>1, <1>2 DEF Ends
<1>4. fds = [p \in Procs |-> IF p = Creator THEN table ELSE EmptyTable]
  BY DEF Init
<1> HIDE DEF table
<1>5. TypeOK
  <2>1. fds \in [Procs -> [Fds -> Ends \cup {Closed}]]
    BY <1>2, <1>3, <1>4
  <2>2. buf \in Seq(Threads \X (1..MaxBytes)) /\ Len(buf) = 0
    BY DEF Init
  <2> QED  BY <2>1, <2>2 DEF Init, TypeOK
<1>6. CountExact
  <2>1. fds[Creator][0] = "r" /\ fds[Creator][1] = "w"
    BY <1>3, <1>4
  <2> QED  BY <1>1, <2>1 DEF Init, CountExact, Held, Ends
<1>7. CallsSound /\ NoLostWakeup
  BY DEF Init, CallsSound, NoLostWakeup
<1>8. UnbornSound
  BY <1>2, <1>4 DEF Init, UnbornSound
<1> QED  BY <1>5, <1>6, <1>7, <1>8 DEF IInv

(* A descriptor that is open holds an end.                                 *)
LEMMA FdHolds ==
  ASSUME IInv, NEW t \in Threads, NEW fd \in Fds, GetFd(fds[Owner[t]], fd) # Closed
  PROVE  GetFd(fds[Owner[t]], fd) \in Ends /\ Held(fds, end, GetFd(fds[Owner[t]], fd))
BY DEF IInv, TypeOK, GetFd, Held

(* A thread in user code does not sleep, and holds no end in a call.       *)
LEMMA UserCode ==
  ASSUME IInv, NEW t \in Threads, InUserCode(t)
  PROVE  asleep[t] = "no" /\ end[t] = Closed /\ proc[Owner[t]] # "unborn"
BY DEF IInv, CallsSound, InUserCode

(* The calls that change a table leave references to what it held.         *)
LEMMA SetTableOK ==
  ASSUME IInv, NEW t \in Threads, NEW fd \in Fds, NEW file \in Ends \cup {Closed},
         file = Closed \/ \E g \in Fds : file = fds[Owner[t]][g],
         SetTable(t, [fds[Owner[t]] EXCEPT ![fd] = file])
  PROVE  IInv' /\ StaysClosed
<1> DEFINE old == fds[Owner[t]]
           table == [old EXCEPT ![fd] = file]
<1>1. old \in [Fds -> Ends \cup {Closed}]
  BY DEF IInv, TypeOK
<1>2. /\ table \in [Fds -> Ends \cup {Closed}] /\ table[fd] = file
      /\ \A g \in Fds : g # fd => table[g] = old[g]
  BY <1>1
<1>3. /\ Settle([fds EXCEPT ![Owner[t]] = table], end, {}) /\ result' = "none"
      /\ UNCHANGED <<proc, buf, call, left, given>> /\ proc[Owner[t]] # "unborn"
  BY UserCode DEF SetTable
<1> HIDE DEF table
<1>4. \A g \in Fds : table[g] \in {Closed} \cup {fds[Owner[t]][h] : h \in Fds}
  BY <1>2
<1> QED  BY <1>2, <1>3, <1>4, TableOK

(* The invariant is inductive, and an end that nobody holds stays closed.  *)
LEMMA NextInv ==
  ASSUME IInv, [Next]_vars
  PROVE  IInv' /\ StaysClosed
<1>1. ASSUME NEW t \in Threads, NEW fd \in Fds, NEW n \in 0..MaxCall, SysRead(t, fd, n)
      PROVE  IInv' /\ StaysClosed
  <2> DEFINE e == GetFd(fds[Owner[t]], fd)
  <2>1. InUserCode(t) /\ e # Closed /\ Read(t, e, n) /\ UNCHANGED proc
    BY <1>1 DEF SysRead
  <2>2. e \in Ends /\ Held(fds, end, e) /\ asleep[t] = "no" /\ end[t] = Closed
    BY <2>1, FdHolds, UserCode
  <2> HIDE DEF e
  <2> QED  BY <2>1, <2>2, ReadOK
<1>2. ASSUME NEW t \in Threads, NEW fd \in Fds, NEW n \in 0..MaxCall, SysWrite(t, fd, n)
      PROVE  IInv' /\ StaysClosed
  <2> DEFINE e == GetFd(fds[Owner[t]], fd)
  <2>1. /\ InUserCode(t) /\ e # Closed /\ given[t] + n <= MaxBytes /\ UNCHANGED proc
        /\ WriteNoReader(t) \/ Write(t, e, n)
    BY <1>2 DEF SysWrite
  <2>2. e \in Ends /\ Held(fds, end, e) /\ asleep[t] = "no" /\ end[t] = Closed
    BY <2>1, FdHolds, UserCode
  <2> HIDE DEF e
  <2>3. CASE WriteNoReader(t)
    <3>1. Return(t, {}, "epipe") /\ UNCHANGED <<buf, given>>
      BY <2>3 DEF WriteNoReader
    <3>2. BufferOK({}) /\ GivenOK(t)
      BY <3>1 DEF IInv, TypeOK, BufferOK, GivenOK, Bytes
    <3> QED  BY <3>1, <3>2, <2>1, <2>2, ReturnOK
  <2>4. CASE Write(t, e, n)
    BY <2>1, <2>2, <2>4, WriteOK
  <2> QED  BY <2>1, <2>3, <2>4
<1>3. ASSUME NEW t \in Threads, ResumeRead(t) PROVE IInv' /\ StaysClosed
  <2>1. call[t] = "read" /\ asleep[t] = "no" /\ Read(t, end[t], left[t]) /\ UNCHANGED proc
    BY <1>3 DEF ResumeRead, InCall
  <2>2. end[t] \in Ends /\ left[t] \in 0..MaxCall /\ Held(fds, end, end[t])
    BY <2>1 DEF IInv, TypeOK, CallsSound, Held
  <2> QED  BY <2>1, <2>2, ReadOK
<1>4. ASSUME NEW t \in Threads, ResumeWrite(t) PROVE IInv' /\ StaysClosed
  <2>1. call[t] = "write" /\ asleep[t] = "no" /\ Write(t, end[t], left[t]) /\ UNCHANGED proc
    BY <1>4 DEF ResumeWrite, InCall
  <2>2. /\ end[t] \in Ends /\ left[t] \in 0..MaxCall /\ Held(fds, end, end[t])
        /\ given[t] + left[t] <= MaxBytes
    BY <2>1 DEF IInv, TypeOK, CallsSound, Held
  <2> QED  BY <2>1, <2>2, WriteOK
<1>5. ASSUME NEW t \in Threads, NEW fd \in Fds, SysClose(t, fd) PROVE IInv' /\ StaysClosed
  BY <1>5, SetTableOK DEF SysClose, FreeFd
<1>6. ASSUME NEW t \in Threads, NEW fd \in Fds, SysDup(t, fd) PROVE IInv' /\ StaysClosed
  <2> DEFINE file == GetFd(fds[Owner[t]], fd)
  <2>1. file # Closed /\ \E new \in Fds : SetTable(t, [fds[Owner[t]] EXCEPT ![new] = file])
    BY <1>6 DEF SysDup, AllocateFd, FirstFreeFrom
  <2>2. file \in Ends /\ \E g \in Fds : file = fds[Owner[t]][g]
    BY <2>1, FdHolds DEF GetFd
  <2> HIDE DEF file
  <2> QED  BY <2>1, <2>2, SetTableOK
<1>7. ASSUME NEW t \in Threads, NEW old \in Fds, NEW new \in Fds,
             SysDup2(t, old, new) \/ SysFcntlDup(t, old, new)
      PROVE  IInv' /\ StaysClosed
  <2> DEFINE file == GetFd(fds[Owner[t]], old)
  <2>1. file # Closed /\ \E g \in Fds : SetTable(t, [fds[Owner[t]] EXCEPT ![g] = file])
    BY <1>7 DEF SysDup2, SysFcntlDup, AllocateFdAt, FirstFreeFrom
  <2>2. file \in Ends /\ \E g \in Fds : file = fds[Owner[t]][g]
    BY <2>1, FdHolds DEF GetFd
  <2> HIDE DEF file
  <2> QED  BY <2>1, <2>2, SetTableOK
<1>8. ASSUME NEW t \in Threads, NEW child \in Procs, SysFork(t, child)
      PROVE  IInv' /\ StaysClosed
  BY <1>8, ForkOK
<1>9. ASSUME NEW t \in Threads, SysExit(t) PROVE IInv' /\ StaysClosed
  <2>1. /\ call[t] = "none" /\ proc[Owner[t]] # "unborn"
        /\ proc' = [proc EXCEPT ![Owner[t]] = "zombie"]
        /\ call' = [call EXCEPT ![t] = "gone"]
        /\ Settle([fds EXCEPT ![Owner[t]] = EmptyTable], end, {})
        /\ result' = "none" /\ UNCHANGED <<buf, left, given>>
    BY <1>9 DEF SysExit, InUserCode
  <2>2. EmptyTable \in [Fds -> Ends \cup {Closed}] /\ \A fd \in Fds : EmptyTable[fd] = Closed
    BY DEF EmptyTable
  <2> QED  BY <2>1, <2>2, TableOK
<1>10. CASE UNCHANGED vars
  <2>1. TypeOK' /\ CallsSound' /\ UnbornSound' /\ NoLostWakeup'
    BY <1>10 DEF IInv, vars, TypeOK, CallsSound, UnbornSound, NoLostWakeup
  <2>2. CountExact' /\ StaysClosed
    BY <1>10 DEF IInv, vars, CountExact, Held, StaysClosed
  <2> QED  BY <2>1, <2>2 DEF IInv
<1> QED
  BY <1>1, <1>2, <1>3, <1>4, <1>5, <1>6, <1>7, <1>8, <1>9, <1>10 DEF Next

(* IInv holds of every reachable state.                                    *)
THEOREM Invariance == Spec => []IInv
<1>1. IInv /\ [Next]_vars => IInv'
  BY NextInv
<1> QED  BY <1>1, InitInv, PTL DEF Spec

(* The type invariant: in particular the buffer never overflows.           *)
THEOREM TypeCorrect == Spec => []TypeOK
<1>1. IInv => TypeOK
  BY DEF IInv
<1> QED  BY <1>1, Invariance, PTL

(* Nobody sleeps on a pipe that has what the sleeper waits for, or that    *)
(* can never have it.                                                      *)
THEOREM WakeupsKept == Spec => []NoLostWakeup
<1>1. IInv => NoLostWakeup
  BY DEF IInv
<1> QED  BY <1>1, Invariance, PTL

(* m_readers and m_writers are right: an end counts as open exactly while  *)
(* a descriptor or a call under way holds it, through any sequence of      *)
(* dup, fork, close and exit.                                              *)
THEOREM CountsExact == Spec => []CountExact
<1>1. IInv => CountExact
  BY DEF IInv
<1> QED  BY <1>1, Invariance, PTL

----------------------------------------------------------------------------
(* The pipe implements the byte stream, step by step.  wopen and ropen are *)
(* what Held says of the ends.                                             *)
LEMMA OpenIsHeld ==
  ASSUME IInv, NEW e \in Ends
  PROVE  Refs(fds, end, e) > 0 <=> Held(fds, end, e)
<1>1. fds \in Tables /\ end \in [Threads -> Ends \cup {Closed}]
  BY DEF IInv, TypeOK, Tables
<1> QED  BY <1>1, RefsHeld

(* What a step does to the stream, apart from the ends.                    *)
StreamStep ==
    \/ \E t \in Threads, n \in 0..Capacity : Stream!Take(t, n) \/ Stream!BrokenPipe(t, n)
    \/ \E n \in 0..Capacity : Stream!Deliver(n)
    \/ Stream!EndOfFile
    \/ Stream!Other

(* End of file is reported when no process can write, data is delivered    *)
(* from the front.                                                         *)
LEMMA ReadMaps ==
  ASSUME IInv, NEW t \in Threads, NEW e, NEW n \in 0..MaxCall, Read(t, e, n)
  PROVE  StreamStep
<1>1. Len(buf) \in Nat /\ Len(buf) <= Capacity /\ n \in Nat /\ Capacity \in Nat
  BY DEF IInv, TypeOK
<1>2. CASE ReadEof(t)
  <2>1. buf = <<>> /\ count["w"] = 0 /\ result' = "eof" /\ UNCHANGED <<buf, given>>
    BY <1>2 DEF ReadEof, Return
  <2>2. ~(Refs(fds, end, "w") > 0)
    BY <2>1, OpenIsHeld DEF IInv, CountExact, Ends
  <2> QED  BY <2>1, <2>2 DEF StreamStep, Stream!EndOfFile
<1>3. CASE ReadData(t, n)
  <2> DEFINE k == Min2(n, Len(buf))
  <2>1. /\ buf' = SubSeq(buf, k + 1, Len(buf)) /\ result' = "none" /\ UNCHANGED given
    BY <1>3 DEF ReadData, Return
  <2>2. k \in 0..Capacity /\ k <= Len(buf)
    BY <1>1 DEF Min2
  <2> HIDE DEF k
  <2>3. Stream!Deliver(k)
    BY <2>1, <2>2 DEF Stream!Deliver
  <2> QED  BY <2>2, <2>3 DEF StreamStep
<1>4. CASE ReadWait(t, e, n)
  BY <1>4 DEF ReadWait, Wait, StreamStep, Stream!Other
<1> QED  BY <1>2, <1>3, <1>4 DEF Read

(* A write hands over the thread's next bytes, after everything in the     *)
(* buffer; a broken pipe is reported when no process can read.             *)
LEMMA WriteMaps ==
  ASSUME IInv, NEW t \in Threads, NEW e, NEW n \in 0..MaxCall, given[t] + n <= MaxBytes,
         Write(t, e, n)
  PROVE  StreamStep
<1> DEFINE k == Room(n)
<1>1. k \in 0..(Capacity - Len(buf)) /\ Len(buf) \in Nat
  BY RoomOK
<1>2. /\ Push(t, k)
      /\ \/ result' = "none"
         \/ result' = "epipe" /\ count["r"] = 0
  <2>1. CASE WriteAll(t, n)
    BY <2>1 DEF WriteAll, Return
  <2>2. CASE WriteBroken(t, n)
    BY <2>2 DEF WriteBroken, Return
  <2>3. CASE WriteWait(t, e, n)
    BY <2>3 DEF WriteWait, Wait
  <2> QED  BY <2>1, <2>2, <2>3 DEF Write
<1> HIDE DEF k
<1>3. k \in 0..Capacity /\ Len(buf) + k <= Capacity
  BY <1>1
<1>4. CASE result' = "none"
  <2>1. Stream!Take(t, k)
    BY <1>2, <1>3, <1>4 DEF Stream!Take, Push
  <2> QED  BY <1>3, <2>1 DEF StreamStep
<1>5. CASE result' = "epipe" /\ count["r"] = 0
  <2>1. ~(Refs(fds, end, "r") > 0)
    BY <1>5, OpenIsHeld DEF IInv, CountExact, Ends
  <2>2. Stream!BrokenPipe(t, k)
    BY <1>2, <1>3, <1>5, <2>1 DEF Stream!BrokenPipe, Push
  <2> QED  BY <1>3, <2>2 DEF StreamStep
<1> QED  BY <1>2, <1>4, <1>5

(* A write that finds no reader takes no bytes.                            *)
LEMMA NoReaderMaps ==
  ASSUME IInv, NEW t \in Threads, WriteNoReader(t)
  PROVE  StreamStep
<1>1. count["r"] = 0 /\ result' = "epipe" /\ UNCHANGED <<buf, given>>
  BY DEF WriteNoReader, Return
<1>2. buf \in Seq(Bytes) /\ Len(buf) <= Capacity /\ given \in [Threads -> 0..MaxBytes]
  BY DEF IInv, TypeOK, Bytes
<1>3. ~(Refs(fds, end, "r") > 0)
  BY <1>1, OpenIsHeld DEF IInv, CountExact, Ends
<1> DEFINE none == [i \in 1..0 |-> <<t, given[t] + i>>]
<1>4. buf' = buf \o none
  <2>1. none = <<>>
    OBVIOUS
  <2>2. buf \o <<>> = buf
    BY <1>2
  <2> QED  BY <1>1, <2>1, <2>2
<1>5. given' = [given EXCEPT ![t] = given[t] + 0]
  BY <1>1, <1>2
<1>6. Len(buf) + 0 <= Capacity
  BY <1>2
<1>7. Stream!BrokenPipe(t, 0)
  BY <1>1, <1>3, <1>4, <1>5, <1>6 DEF Stream!BrokenPipe
<1> QED  BY <1>7 DEF StreamStep

(* Every step of the pipe is a step of the stream.                         *)
LEMMA StepMaps ==
  ASSUME IInv, [Next]_vars
  PROVE  [Stream!StreamNext]_(Stream!svars)
<1>1. CASE UNCHANGED vars
  BY <1>1 DEF vars, Stream!svars, Refs, SlotRefs
<1>2. CASE Next
  <2>1. IInv' /\ StaysClosed
    BY <1>2, NextInv
  <2>2. Stream!Ends
    <3>1. \A e \in Ends : (Refs(fds, end, e) > 0)' => Refs(fds, end, e) > 0
      <4> SUFFICES ASSUME NEW e \in Ends, (Refs(fds, end, e) > 0)'
                   PROVE  Refs(fds, end, e) > 0
        OBVIOUS
      <4>1. fds' \in Tables /\ end' \in [Threads -> Ends \cup {Closed}]
        BY <2>1 DEF IInv, TypeOK, Tables
      <4>2. Refs(fds', end', e) > 0
        BY DEF Refs, SlotRefs
      <4>3. Held(fds', end', e)
        BY <4>1, <4>2, RefsHeld
      <4>4. Held(fds, end, e)'
        BY <4>3 DEF Held
      <4> QED  BY <2>1, <4>4, OpenIsHeld DEF StaysClosed
    <3> QED  BY <3>1 DEF Stream!Ends, Ends
  <2>3. PICK t \in Threads :
          \/ \E fd \in Fds, n \in 0..MaxCall : SysRead(t, fd, n) \/ SysWrite(t, fd, n)
          \/ ResumeRead(t)
          \/ ResumeWrite(t)
          \/ \E fd \in Fds : SysClose(t, fd) \/ SysDup(t, fd)
          \/ \E old, new \in Fds : SysDup2(t, old, new) \/ SysFcntlDup(t, old, new)
          \/ \E child \in Procs : SysFork(t, child)
          \/ SysExit(t)
    BY <1>2 DEF Next
  <2>4. ASSUME NEW fd \in Fds, NEW n \in 0..MaxCall, SysRead(t, fd, n) PROVE StreamStep
    BY <2>4, ReadMaps DEF SysRead
  <2>5. ASSUME NEW fd \in Fds, NEW n \in 0..MaxCall, SysWrite(t, fd, n) PROVE StreamStep
    BY <2>5, WriteMaps, NoReaderMaps DEF SysWrite
  <2>6. ASSUME ResumeRead(t) PROVE StreamStep
    <3>1. left[t] \in 0..MaxCall /\ Read(t, end[t], left[t])
      BY <2>6 DEF ResumeRead, IInv, TypeOK
    <3> QED  BY <3>1, ReadMaps
  <2>7. ASSUME ResumeWrite(t) PROVE StreamStep
    <3>1. left[t] \in 0..MaxCall /\ given[t] + left[t] <= MaxBytes /\ Write(t, end[t], left[t])
      BY <2>7 DEF ResumeWrite, InCall, IInv, TypeOK, CallsSound
    <3> QED  BY <3>1, WriteMaps
  <2>8. ASSUME \/ \E fd \in Fds : SysClose(t, fd) \/ SysDup(t, fd)
               \/ \E old, new \in Fds : SysDup2(t, old, new) \/ SysFcntlDup(t, old, new)
               \/ \E child \in Procs : SysFork(t, child)
               \/ SysExit(t)
        PROVE  StreamStep
    <3>1. result' = "none" /\ UNCHANGED <<buf, given>>
      BY <2>8 DEF SysClose, SysDup, SysDup2, SysFcntlDup, SetTable, SysFork, SysExit
    <3> QED  BY <3>1 DEF StreamStep, Stream!Other
  <2>9. StreamStep
    BY <2>3, <2>4, <2>5, <2>6, <2>7, <2>8
  <2> QED  BY <2>2, <2>9 DEF StreamStep, Stream!StreamNext
<1> QED  BY <1>1, <1>2

(* Bytes arrive once each and in order, end of file means that everything  *)
(* has been read and nobody can write, a broken pipe that nobody can read: *)
(* for any mix of partial writes, sleeps, dup, fork, close and exit.       *)
THEOREM IsByteStream == Spec => ImplementsByteStream
<1>1. Init => Stream!StreamInit
  <2> SUFFICES ASSUME Init PROVE Stream!StreamInit
    OBVIOUS
  <2>1. \A e \in Ends : Refs(fds, end, e) > 0
    <3>1. IInv
      BY InitInv
    <3>2. \A e \in Ends : count[e] # 0
      BY DEF Init
    <3> QED  BY <3>1, <3>2, OpenIsHeld DEF IInv, CountExact
  <2>2. Refs(fds, end, "w") > 0 /\ Refs(fds, end, "r") > 0
    BY <2>1 DEF Ends
  <2> QED  BY <2>2 DEF Init, Stream!StreamInit
<1>2. IInv /\ [Next]_vars => [Stream!StreamNext]_(Stream!svars)
  BY StepMaps
<1> QED  BY <1>1, <1>2, Invariance, PTL DEF Spec, ImplementsByteStream, Stream!StreamSpec
=============================================================================
