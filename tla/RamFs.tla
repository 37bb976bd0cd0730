-------------------------------- MODULE RamFs --------------------------------
(***************************************************************************)
(* The in-memory file system, its vnodes and the pseudo nodes of /dev and  *)
(* /proc, as operators on one record F:                                    *)
(*   nodes  the vnodes in the order of their creation; 1 is the root       *)
(*   mem    the bytes of each physical frame                               *)
(*   free   the frames the page allocator still holds                      *)
(* A node keeps its pages (vmo) as a partial function from page numbers to *)
(* frames.  A path is the sequence of the texts between its slashes: /a/b  *)
(* is <<"", "a", "b">> and a is <<"a">>; the name a node keeps is a path   *)
(* too, because open may store one with its slash.                         *)
(* An operator that can fail answers [fs, val]; an error is a negative val. *)
(***************************************************************************)
EXTENDS Integers, Sequences, FiniteSets, SequencesExt

CONSTANTS
    Frames,     \* the numbers of the physical frames left for file contents
    PageSize,   \* bytes in a page
    MaxNodes,   \* vnodes the kernel heap has room for
    Modulus,    \* 2^64: sizes and offsets are unsigned machine words
    Version     \* the text of /proc/version, a sequence of bytes

ASSUME RamFsAssumption ==
    /\ PageSize \in Nat \ {0} /\ MaxNodes \in Nat
    /\ Frames \subseteq Nat /\ Modulus \in Nat \ {0}

Root == 1
EPERM == -1
ENOENT == -2
ENOMEM == -12
EEXIST == -17
ENOTDIR == -20
EISDIR == -21
Ok(fs, val) == [fs |-> fs, val |-> val]
Bytes(len) == 1..len

(* The constructors.  vmo is made for a regular file of RamFs only.        *)
RamFsNode(type, name) ==
    [type |-> type, ops |-> "ramfs", name |-> name, children |-> <<>>,
     vmo |-> <<>>, size |-> 0]
PseudoFsNode(type, name, callbacks) ==
    [RamFsNode(type, name) EXCEPT !.ops = callbacks]

IsDirectory(F, n) == F.nodes[n].type = "Directory"

(* RamFsNode::InsertChild and the tail of Mknod, Create and Mkdir: the new *)
(* node is the last child of its directory.  MaxNodes bounds operator new. *)
InsertChild(F, dir, node) ==
    IF Len(F.nodes) = MaxNodes THEN Ok(F, ENOMEM)
    ELSE LET n == Len(F.nodes) + 1
             linked == [F.nodes EXCEPT ![dir].children = Append(@, n)]
         IN  Ok([F EXCEPT !.nodes = Append(linked, node)], n)

Named(F, dir, name) ==
    {i \in DOMAIN F.nodes[dir].children :
        F.nodes[F.nodes[dir].children[i]].name = name}

(* The first child that has the name.                                      *)
FirstNamed(F, dir, name) ==
    F.nodes[dir].children[CHOOSE i \in Named(F, dir, name) :
                             \A j \in Named(F, dir, name) : i <= j]

(* RamFsOpsImpl::Lookup; PseudoFsOpsImpl::Lookup knows no children.        *)
Lookup(F, dir, name) ==
    IF F.nodes[dir].ops # "ramfs" THEN ENOENT
    ELSE IF ~IsDirectory(F, dir) THEN ENOTDIR
    ELSE IF Named(F, dir, name) = {} THEN ENOENT
    ELSE FirstNamed(F, dir, name)

(* RamFsOpsImpl::Create, Mkdir and the same entries of PseudoFs.           *)
Create(F, dir, name) ==
    IF F.nodes[dir].ops # "ramfs" THEN Ok(F, EPERM)
    ELSE IF ~IsDirectory(F, dir) THEN Ok(F, ENOTDIR)
    ELSE IF Named(F, dir, name) # {} THEN Ok(F, EEXIST)
    ELSE InsertChild(F, dir, RamFsNode("Regular", name))

Mkdir(F, dir, name) ==
    IF F.nodes[dir].ops # "ramfs" THEN Ok(F, EPERM)
    ELSE IF ~IsDirectory(F, dir) THEN Ok(F, ENOTDIR)
    ELSE IF Named(F, dir, name) # {} THEN Ok(F, FirstNamed(F, dir, name))
    ELSE InsertChild(F, dir, RamFsNode("Directory", name))

(* Vfs::PathToVnode: from the root, whatever the path begins with; empty   *)
(* components and "." are skipped and ".." is a name like any other.       *)
WalkStep(F, cur, component) ==
    IF cur < 0 \/ component \in {"", "."} THEN cur
    ELSE IF ~IsDirectory(F, cur) THEN ENOTDIR
    ELSE Lookup(F, cur, <<component>>)
Walk(F, path) ==
    LET cur[i \in 0..Len(path)] ==
            IF i = 0 THEN Root ELSE WalkStep(F, cur[i - 1], path[i])
    IN  cur
PathToVnode(F, path) == Walk(F, path)[Len(path)]

-----------------------------------------------------------------------------
(* File contents.                                                          *)

Page(pos) == pos \div PageSize
Zeroed == [b \in 0..(PageSize - 1) |-> 0]

(* The byte of a file at a position: VmObject::Lookup gives the address of *)
(* the byte within its frame; a page that was never written reads as zero. *)
ByteAt(F, n, pos) ==
    LET vmo == F.nodes[n].vmo
    IN  IF Page(pos) \in DOMAIN vmo
        THEN F.mem[vmo[Page(pos)]][pos % PageSize] ELSE 0

(* How many bytes a read of size bytes at an offset copies: cut at the end *)
(* of the file, but the sum is a machine word, and a huge size wraps it.   *)
ReadCount(F, n, size, offset) ==
    IF offset >= F.nodes[n].size THEN 0
    ELSE IF (offset + size) % Modulus > F.nodes[n].size
         THEN F.nodes[n].size - offset
    ELSE size

(* RamFsOpsImpl::Read: the bytes stored into the caller's buffer.          *)
RamFsRead(F, n, size, offset) ==
    [i \in Bytes(ReadCount(F, n, size, offset)) |->
        ByteAt(F, n, (offset + i - 1) % Modulus)]

(* The pages that a write has to allocate, those that it gets (it takes    *)
(* them in ascending order and stops at the first that AllocatePage        *)
(* refuses), and how many bytes it has copied when it stops.               *)
Absent(F, n, data, offset) ==
    {Page(offset + i - 1) : i \in Bytes(Len(data))} \ DOMAIN F.nodes[n].vmo
Granted(F, absent) ==
    {p \in absent : Cardinality({q \in absent : q < p}) < Cardinality(F.free)}
Copied(F, n, data, offset) ==
    LET refused == Absent(F, n, data, offset)
                   \ Granted(F, Absent(F, n, data, offset))
    IN  Cardinality({i \in Bytes(Len(data)) :
                        \A p \in refused : Page(offset + i - 1) < p})

(* The frames once MemoryZero has cleared those of the new pages.          *)
(* Faulty: the frames keep what their last owner left in them.             *)
NotCleared(F, new) == F.mem
Cleared(F, new) ==
    [f \in Frames |-> IF \E p \in DOMAIN new : new[p] = f THEN Zeroed ELSE F.mem[f]]

(* Storing a prefix of the data once the new pages have frames: InsertBlock *)
(* of zeroed frames, then the copies, one for each page.  The copy adds the *)
(* offset within the page to the address of the page; for a page that was   *)
(* there before, Lookup gave the address of the byte, and the first copy    *)
(* lands that much too far, in the next frame perhaps.  A later copy, or    *)
(* the zeroing of a new page, covers what it left there.  Addresses outside *)
(* Frames are other memory of the kernel, which is not followed.            *)
Store(F, n, data, offset, new) ==
    LET vmo == [p \in (DOMAIN F.nodes[n].vmo) \cup (DOMAIN new) |->
                   IF p \in DOMAIN new THEN new[p] ELSE F.nodes[n].vmo[p]]
        Ahead(pos) == IF Page(pos) = Page(offset) /\ Page(pos) \notin DOMAIN new
                      THEN offset % PageSize ELSE 0
        Address(pos) == vmo[Page(pos)] * PageSize + (pos % PageSize) + Ahead(pos)
        Written(f, b) == {i \in Bytes(Len(data)) :
                             /\ Address(offset + i - 1) = f * PageSize + b
                             /\ (\E p \in DOMAIN new : new[p] = f) =>
                                   vmo[Page(offset + i - 1)] = f}
    IN  [nodes |-> [F.nodes EXCEPT ![n].vmo = vmo],
         free |-> F.free \ {new[p] : p \in DOMAIN new},
         mem |-> [f \in Frames |-> [b \in DOMAIN Zeroed |->
                     IF Written(f, b) = {} THEN Cleared(F, new)[f][b]
                     ELSE data[CHOOSE i \in Written(f, b) :
                                  \A j \in Written(f, b) : j <= i]]]]

(* A write whose bytes all land where Read looks for them.                 *)
InPlace(F, n, data, offset) ==
    \/ data = <<>>
    \/ offset % PageSize = 0
    \/ Page(offset) \notin DOMAIN F.nodes[n].vmo

GrowTo(F, n, size) ==
    IF size > F.nodes[n].size THEN [F EXCEPT !.nodes[n].size = size] ELSE F

(* The choices of AllocatePage for some pages.                             *)
Allocations(F, pages) ==
    {g \in [pages -> F.free] : \A p, q \in pages : p # q => g[p] # g[q]}

(* RamFsOpsImpl::Write, one outcome for each choice.  The size changes at  *)
(* the end, so a write that runs out of frames has stored a prefix and     *)
(* leaves the size alone.                                                  *)
(* Faulty: a write that fails forgets the frames it has taken.             *)
WriteOutcomeLeaks(F, n, data, offset, new) ==
    LET copied == Copied(F, n, data, offset)
    IN  IF copied < Len(data)
        THEN Ok([F EXCEPT !.free = @ \ {new[p] : p \in DOMAIN new}], ENOMEM)
        ELSE Ok(GrowTo(Store(F, n, data, offset, new), n, offset + copied), copied)
WriteOutcome(F, n, data, offset, new) ==
    LET copied == Copied(F, n, data, offset)
        G == Store(F, n, SubSeq(data, 1, copied), offset, new)
    IN  IF copied = Len(data) THEN Ok(GrowTo(G, n, offset + Len(data)), copied)
        ELSE Ok(G, ENOMEM)
RamFsWrite(F, n, data, offset) ==
    {WriteOutcome(F, n, data, offset, new) :
        new \in Allocations(F, Granted(F, Absent(F, n, data, offset)))}

(* VnodeOps::Read: the bytes read; a directory answers EISDIR instead.     *)
ReadError(F, n) == IF IsDirectory(F, n) THEN EISDIR ELSE 0
VnodeRead(F, n, size, offset) ==
    CASE F.nodes[n].ops \in {"null", "tty", "stdout"} -> <<>>
      [] F.nodes[n].ops = "zero" -> [i \in Bytes(size) |-> 0]
      [] F.nodes[n].ops = "version" ->
             SubSeq(Version, offset + 1,
                    IF offset + size > Len(Version) THEN Len(Version)
                    ELSE offset + size)
      [] OTHER -> RamFsRead(F, n, size, offset)

(* VnodeOps::Write: the devices take everything, /proc/version nothing.    *)
VnodeWrite(F, n, data, offset) ==
    IF F.nodes[n].ops \in {"null", "zero", "tty", "stdout"} THEN {Ok(F, Len(data))}
    ELSE IF F.nodes[n].ops = "version" THEN {Ok(F, EPERM)}
    ELSE IF IsDirectory(F, n) THEN {Ok(F, EISDIR)}
    ELSE RamFsWrite(F, n, data, offset)

(* RamFsOpsImpl::Iterate: the children from a cookie on, as many as fit in *)
(* a buffer.  Names of at most seven characters make every record 32 bytes *)
(* long, so the buffer is counted in records; each record carries the next *)
(* cookie, d_off, beside its child, d_ino.                                 *)
Iterate(F, dir, room, cookie) ==
    LET left == Len(F.nodes[dir].children) - cookie
        count == IF left < 0 THEN 0 ELSE IF left < room THEN left ELSE room
    IN  [k \in 1..count |-> [d_ino |-> F.nodes[dir].children[cookie + k],
                             d_off |-> cookie + k]]

(* start_kernel: the tree the first program finds.                         *)
EmptyFs == [nodes |-> <<RamFsNode("Directory", <<"", "">>)>>,
            mem |-> [f \in Frames |-> [b \in DOMAIN Zeroed |-> 9]],
            free |-> Frames]
BootDir(F, name) == Mkdir(F, Root, <<name>>)
BootNode(F, dir, type, name) ==
    InsertChild(F, dir, PseudoFsNode(type, <<name>>, name)).fs
BootDevices ==
    LET dev == BootDir(EmptyFs, "dev")
        null == BootNode(dev.fs, dev.val, "CharDevice", "null")
        zero == BootNode(null, dev.val, "CharDevice", "zero")
    IN  BootNode(zero, dev.val, "CharDevice", "tty")
BootProc ==
    LET proc == BootDir(BootDevices, "proc")
    IN  BootNode(proc.fs, proc.val, "Regular", "version")
Boot ==
    LET sbin == BootDir(BootProc, "sbin").fs
        bin == BootDir(sbin, "bin").fs
        tmp == BootDir(bin, "tmp").fs
    IN  BootDir(tmp, "etc").fs
=============================================================================
