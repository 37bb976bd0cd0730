------------------------------ MODULE FileSystem ------------------------------
(***************************************************************************)
(* The file system calls.  A call runs with interrupts off and none of     *)
(* these sleeps, so each one is a single step; what interleaves is the     *)
(* calls, through descriptors that share a description (by dup here; fork  *)
(* shares them in the same way, see Pipe).                                 *)
(* read is readv of one buffer, openat is open, lstat and newfstatat are   *)
(* stat, and F_DUPFD is dup with a lower bound.                            *)
(***************************************************************************)
EXTENDS RamFs, FdTable

CONSTANTS
    MaxDescs,       \* open file descriptions the kernel heap has room for
    Paths,          \* the paths programs pass
    OpenFlags,      \* the sets of flags programs open with
    MaxSize,        \* bound on the end of a transfer
    BufferMax,      \* bytes of user memory: no buffer has room for more
    Seeks,          \* the signed offsets programs seek by
    ReadLens,       \* vectors of buffer lengths for readv
    WriteData,      \* buffers for write
    WritevData,     \* vectors of buffers for writev
    Rooms           \* records that fit in the buffers for getdents64

(* The root, six directories and four pseudo nodes.                        *)
BootNodes == 11

ASSUME FileSystemAssumption ==
    /\ MaxDescs \in Nat \ {0} /\ Closed \notin 1..MaxDescs
    /\ BootNodes <= MaxNodes /\ Len(Boot.nodes) = BootNodes
    /\ MaxSize \in Nat /\ MaxSize < Modulus \div 2
    /\ BufferMax \in Nat /\ MaxSize <= BufferMax /\ MaxSize + BufferMax < Modulus
    /\ MaxNodes < Modulus
    /\ Paths \subseteq Seq(STRING) \ {<<>>} /\ WriteData \subseteq Seq(Nat)
    /\ WritevData \subseteq Seq(Seq(Nat))
    /\ ReadLens \subseteq Seq(Nat) /\ Rooms \subseteq Nat

VARIABLES
    fs,         \* the file system (see RamFs)
    fds,        \* the descriptor table
    desc,       \* desc[d] = [vnode, offset]; vnode 0: no such description
    io,         \* the transfer of the last call, if it was on a file
    seen        \* seen[d]: the entries getdents64 returned since cookie 0

vars == <<fs, fds, desc, io, seen>>

Descs == 1..MaxDescs
Files == (BootNodes + 1)..MaxNodes     \* the vnodes that open may create
NoDesc == [vnode |-> 0, offset |-> 0]
NoTransfer == [op |-> "other", data |-> <<>>]

(* A regular file of RamFs.                                                *)
IsFile(F, n) == /\ n \in DOMAIN F.nodes
                /\ F.nodes[n].type = "Regular" /\ F.nodes[n].ops = "ramfs"

(* Positions past MaxSize are followed only to 2^64 - 1, which a seek to   *)
(* before the start of a file gives.                                       *)
Landing(pos) == pos \in (0..MaxSize) \cup {Modulus - 1}

Init ==
    /\ fs = Boot
    /\ fds = EmptyTable
    /\ desc = [d \in Descs |-> NoDesc]
    /\ io = NoTransfer
    /\ seen = [d \in Descs |-> <<>>]

Unused(table, d) == \A fd \in Fds : table[fd] # d
Open(fd) == GetFd(fds, fd) # Closed

(* The table changes; a description that no slot names any more goes, and  *)
(* a description in use is as given.                                       *)
(* Faulty: a description is never destroyed.                               *)
SetTableKeeps(table, descs) ==
    /\ fds' = table
    /\ desc' = descs
    /\ UNCHANGED seen
SetTable(table, descs) ==
    /\ fds' = table
    /\ desc' = [d \in Descs |-> IF Unused(table, d) THEN NoDesc ELSE descs[d]]
    /\ seen' = [d \in Descs |-> IF Unused(table, d) THEN <<>> ELSE seen[d]]

-----------------------------------------------------------------------------
(* O_CREAT: the directory and the name that a path stands for.  A path     *)
(* with no slash, or with its only slash in front, is used whole as a name *)
(* in the working directory, which is the root.                            *)
CreateAt(F, path) ==
    IF Len(path) = 1 \/ (Len(path) = 2 /\ path[1] = "")
    THEN Create(F, Root, path)
    ELSE LET parent == PathToVnode(F, Front(path))
         IN  IF parent < 0 THEN Ok(F, parent)
             ELSE Create(F, parent, <<Last(path)>>)

(* The vnode that open works on, and the file system after finding it.     *)
OpenTarget(F, path, flags) ==
    LET found == PathToVnode(F, path)
    IN  IF found > 0
        THEN Ok(IF "O_TRUNC" \in flags THEN [F EXCEPT !.nodes[found].size = 0] ELSE F, found)
        ELSE IF "O_CREAT" \in flags THEN CreateAt(F, path) ELSE Ok(F, found)

(* open: an error after the vnode was created or truncated undoes nothing. *)
SysOpen(path, flags) ==
    LET target == OpenTarget(fs, path, flags)
        n == target.val
    IN  \E d \in Descs :
        /\ Unused(fds, d) /\ \A e \in Descs : Unused(fds, e) => d <= e
        /\ fs' = target.fs
        /\ io' = NoTransfer
        /\ IF n < 0 \/ AllocateFd(fds, d) = {}
           THEN UNCHANGED <<fds, desc, seen>>
           ELSE \E table \in AllocateFd(fds, d) :
                   SetTable(table, [desc EXCEPT ![d] = [vnode |-> n, offset |->
                       IF "O_APPEND" \in flags THEN target.fs.nodes[n].size
                       ELSE 0]])

(* stat, lstat, newfstatat, access and fstat only look.                    *)
SysStat(path) == PathToVnode(fs, path) > 0 /\ UNCHANGED vars

SysClose(fd) ==
    /\ Open(fd)
    /\ SetTable(FreeFd(fds, fd), desc)
    /\ io' = NoTransfer
    /\ UNCHANGED fs

(* dup and fcntl(F_DUPFD): the first free slot from a given one on.        *)
SysDup(fd, low) ==
    /\ Open(fd)
    /\ \E new \in FirstFreeFrom(fds, low) :
          SetTable(AllocateFdAt(fds, new, fds[fd]), desc)
    /\ io' = NoTransfer
    /\ UNCHANGED fs

SysDup2(fd, new) ==
    /\ Open(fd) /\ fd # new
    /\ SetTable(AllocateFdAt(fds, new, fds[fd]), desc)
    /\ io' = NoTransfer
    /\ UNCHANGED fs

-----------------------------------------------------------------------------
(* Where lseek moves to: {} is EINVAL.  Sums wrap, and SEEK_END has no     *)
(* check that the result is not before the start.                          *)
SeekTarget(d, off, whence) ==
    LET cur == desc[d].offset
        end == fs.nodes[desc[d].vnode].size
    IN  CASE whence = "SEEK_SET" -> IF off < 0 THEN {} ELSE {off}
          [] whence = "SEEK_CUR" ->
                 IF off < 0 /\ -off > cur THEN {} ELSE {(cur + off) % Modulus}
          [] whence = "SEEK_END" -> {(end + off) % Modulus}

(* A directory is only rewound.                                            *)
SysLseek(fd, off, whence) ==
    /\ Open(fd)
    /\ LET d == GetFd(fds, fd)
       IN  \E pos \in SeekTarget(d, off, whence) :
             /\ Landing(pos) /\ (IsDirectory(fs, desc[d].vnode) => pos = 0)
             /\ desc' = [desc EXCEPT ![d].offset = pos]
             /\ seen' = [seen EXCEPT ![d] = IF pos = 0 THEN <<>> ELSE @]
    /\ io' = NoTransfer
    /\ UNCHANGED <<fs, fds>>

(* FileDescription::Read into one buffer, which moves the offset by what   *)
(* was read, and readv for each of its buffers until a read is short.  A   *)
(* read of more bytes than any buffer has room for runs into a page that   *)
(* is not mapped, in the kernel.                                           *)
ReadBuffer(n, acc, len) ==
    LET data == VnodeRead(fs, n, len, acc.offset)
    IN  IF acc.short \/ acc.fault \/ len = 0 THEN acc
        ELSE IF Len(data) > BufferMax THEN [acc EXCEPT !.fault = TRUE]
        ELSE [offset |-> (acc.offset + Len(data)) % Modulus,
              data |-> acc.data \o data, short |-> Len(data) < len,
              fault |-> FALSE]
ReadBuffers(n, lens, offset) ==
    LET acc[k \in 0..Len(lens)] ==
            IF k = 0 THEN [offset |-> offset, data |-> <<>>, short |-> FALSE,
                           fault |-> FALSE]
            ELSE ReadBuffer(n, acc[k - 1], lens[k])
    IN  acc[Len(lens)]

(* The bytes that the buffers have room for.                               *)
Asked(lens) ==
    LET sum[k \in 0..Len(lens)] == IF k = 0 THEN 0 ELSE sum[k - 1] + lens[k]
    IN  sum[Len(lens)]

SysReadv(fd, lens) ==
    /\ Open(fd)
    /\ LET d == GetFd(fds, fd)
           n == desc[d].vnode
           read == ReadBuffers(n, lens, desc[d].offset)
       IN  /\ ReadError(fs, n) = 0 /\ ~read.fault
           /\ Landing(read.offset)
           /\ desc' = [desc EXCEPT ![d].offset = read.offset]
           /\ io' = IF IsFile(fs, n)
                    THEN [op |-> "read", data |-> read.data, asked |-> Asked(lens)]
                    ELSE NoTransfer
    /\ UNCHANGED <<fs, fds, seen>>

(* The page fault handler maps nothing, and the copy faults again for ever *)
(* with interrupts off: no other call ever runs.                           *)
SysReadFaults(fd, lens) ==
    /\ Open(fd)
    /\ LET d == GetFd(fds, fd)
           n == desc[d].vnode
       IN  /\ ReadError(fs, n) = 0
           /\ ReadBuffers(n, lens, desc[d].offset).fault
           /\ io' = [op |-> "hung", data |-> <<>>, file |-> IsFile(fs, n),
                      asked |-> Asked(lens)]
    /\ UNCHANGED <<fs, fds, desc, seen>>

Hung == io.op = "hung"
FaultAgain == Hung /\ UNCHANGED vars

(* FileDescription::Write of one buffer, and writev for each of its        *)
(* buffers but the empty ones.  A buffer that fails ends the call with an  *)
(* error, whatever the ones before it have written.  straight: every       *)
(* buffer so far has gone where a read will look for it.                   *)
Started(offset) ==
    [fs |-> fs, failed |-> FALSE, offset |-> offset, straight |-> TRUE]
WriteBuffer(n, acc, data) ==
    IF acc.failed THEN {acc}
    ELSE {[fs |-> r.fs, failed |-> r.val < 0,
           offset |-> IF r.val < 0 THEN acc.offset
                      ELSE (acc.offset + r.val) % Modulus,
           straight |-> acc.straight /\ InPlace(acc.fs, n, data, acc.offset)] :
             r \in VnodeWrite(acc.fs, n, data, acc.offset)}
WriteBuffers(n, buffers, offset) ==
    LET accs[k \in 0..Len(buffers)] ==
            IF k = 0 THEN {Started(offset)}
            ELSE IF buffers[k] = <<>> THEN accs[k - 1]
            ELSE UNION {WriteBuffer(n, acc, buffers[k]) : acc \in accs[k - 1]}
    IN  accs[Len(buffers)]

(* Where a transfer of whole buffers is after each of them.                *)
Reached(buffers, offset) ==
    LET end[k \in 0..Len(buffers)] ==
            IF k = 0 THEN offset ELSE end[k - 1] + Len(buffers[k])
    IN  end

(* A call that writes some buffers, with one of its outcomes.  MaxSize     *)
(* bounds where a file may end.                                            *)
WriteOut(fd, buffers, outcomes) ==
    /\ LET d == GetFd(fds, fd)
           n == desc[d].vnode
       IN  /\ IsFile(fs, n) =>
                 \A k \in 0..Len(buffers) :
                    Reached(buffers, desc[d].offset)[k] <= MaxSize
           /\ \E w \in outcomes :
                 /\ Landing(w.offset)
                 /\ fs' = w.fs
                 /\ desc' = [desc EXCEPT ![d].offset = w.offset]
                 /\ io' = IF IsFile(fs, n)
                          THEN [op |-> "write", data |-> FlattenSeq(buffers),
                                straight |-> w.straight]
                          ELSE NoTransfer
    /\ UNCHANGED <<fds, seen>>

(* write takes an empty buffer like any other; writev passes over it.      *)
SysWrite(fd, data) ==
    /\ Open(fd)
    /\ LET x == desc[GetFd(fds, fd)]
       IN  WriteOut(fd, <<data>>, WriteBuffer(x.vnode, Started(x.offset), data))

SysWritev(fd, buffers) ==
    /\ Open(fd)
    /\ LET x == desc[GetFd(fds, fd)]
       IN  WriteOut(fd, buffers, WriteBuffers(x.vnode, buffers, x.offset))

(* getdents64: the cookie becomes the d_off of the last record written.    *)
(* Faulty: the cookie of the first record.                                 *)
NextCookieFirst(records, cookie) ==
    IF records = <<>> THEN cookie ELSE Head(records).d_off
NextCookie(records, cookie) ==
    IF records = <<>> THEN cookie ELSE Last(records).d_off

SysGetdents64(fd, room) ==
    /\ Open(fd)
    /\ LET d == GetFd(fds, fd)
           n == desc[d].vnode
           records == Iterate(fs, n, room, desc[d].offset)
       IN  /\ IsDirectory(fs, n)
           /\ desc' = [desc EXCEPT ![d].offset = NextCookie(records, @)]
           /\ seen' = [seen EXCEPT ![d] =
                          @ \o [k \in DOMAIN records |-> records[k].d_ino]]
    /\ io' = NoTransfer
    /\ UNCHANGED <<fs, fds>>

Calls ==
    \/ \E path \in Paths :
          \/ \E flags \in OpenFlags : SysOpen(path, flags)
          \/ SysStat(path)
    \/ \E fd \in Fds :
          \/ SysClose(fd)
          \/ \E g \in Fds : SysDup(fd, g) \/ SysDup2(fd, g)
          \/ \E off \in Seeks, whence \in {"SEEK_SET", "SEEK_CUR", "SEEK_END"} :
                SysLseek(fd, off, whence)
          \/ \E lens \in ReadLens : SysReadv(fd, lens) \/ SysReadFaults(fd, lens)
          \/ \E data \in WriteData : SysWrite(fd, data)
          \/ \E buffers \in WritevData : SysWritev(fd, buffers)
          \/ \E room \in Rooms : SysGetdents64(fd, room)

Next == (~Hung /\ Calls) \/ FaultAgain

Spec == Init /\ [][Next]_vars

-----------------------------------------------------------------------------
(* Type correctness of the tables, the descriptions and the tree: each     *)
(* description in a slot names a vnode, each vnode but the root is in one  *)
(* directory once.                                                         *)
TypeOK ==
    /\ fs.free \subseteq Frames
    /\ fds \in [Fds -> Descs \cup {Closed}]
    /\ \A d \in Descs : /\ Unused(fds, d) <=> desc[d] = NoDesc
                        /\ desc[d].vnode \in {0} \cup DOMAIN fs.nodes
                        /\ desc[d].offset \in 0..(Modulus - 1)
    /\ LET entries == UNION {{e} \X DOMAIN fs.nodes[e].children : e \in DOMAIN fs.nodes}
       IN  /\ {fs.nodes[x[1]].children[x[2]] : x \in entries} = 2..Len(fs.nodes)
           /\ Cardinality(entries) = Len(fs.nodes) - 1

(* Every frame is in one place: a page of one file, or the allocator.  A   *)
(* write that fails half way neither loses frames nor shares them.         *)
FramesExclusive ==
    LET held == UNION {{n} \X DOMAIN fs.nodes[n].vmo : n \in DOMAIN fs.nodes}
        Frame(x) == fs.nodes[x[1]].vmo[x[2]]
    IN  /\ \A x, y \in held : Frame(x) = Frame(y) => x = y
        /\ fs.free = Frames \ {Frame(x) : x \in held}

(* Reading a directory to any point returns each entry up to there once,   *)
(* in order, through whichever descriptor, however large the buffers are,  *)
(* and with files created in between.                                      *)
EachEntryOnce ==
    \A d \in Descs : desc[d].vnode > 0 /\ IsDirectory(fs, desc[d].vnode) =>
        seen[d] = SubSeq(fs.nodes[desc[d].vnode].children, 1, desc[d].offset)

(* The calls implement byte files: over pages, frames that run out,        *)
(* truncation and descriptors that share a position, sizes and positions   *)
(* are those of an array of bytes, a read returns what the file holds, and *)
(* as long as every write begins a page or fills a new one, that is what   *)
(* the writes stored.  A write that begins inside a page it finds leaves   *)
(* the contents of all files open (WriteStores is what it should do).  No  *)
(* read of a file faults whose offset and length do not wrap.              *)
FileContent == [n \in Files |->
                   IF IsFile(fs, n) THEN [pos \in 0..MaxSize |-> ByteAt(fs, n, pos)]
                   ELSE [pos \in 0..MaxSize |-> 0]]
FileSize == [n \in Files |-> IF IsFile(fs, n) THEN fs.nodes[n].size ELSE 0]
FileAt == [d \in Descs |-> IF IsFile(fs, desc[d].vnode)
                           THEN <<desc[d].vnode, desc[d].offset>> ELSE <<0, 0>>]
BF == INSTANCE ByteFile WITH
        Descriptions <- Descs,
        content <- FileContent, size <- FileSize, at <- FileAt
ImplementsByteFile == BF!ByteSpec

(* FileDescription::Write promises to write the data to the file: after a  *)
(* write that succeeds, its bytes are at the position it began at.  The    *)
(* code breaks this for a write that begins inside a page of the file,     *)
(* such as the second of two short ones.                                   *)
Stores(d) ==
    LET n == desc[d].vnode
        start == desc[d].offset
    IN  IsFile(fs, n) /\ io'.op = "write" /\ desc'[d].offset > start =>
            \A i \in 1..(desc'[d].offset - start) :
               ByteAt(fs', n, start + i - 1) = io'.data[i]
WriteStores == [][\A d \in Descs : Stores(d)]_vars
=============================================================================
