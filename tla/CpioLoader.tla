------------------------------ MODULE CpioLoader ------------------------------
(***************************************************************************)
(* CpioLoader::Populate, which fills the file system from the boot archive *)
(* before the first program runs.  The archive is what cpio writes (format *)
(* newc, external): the entries one after the other, the end of each name  *)
(* and of each content padded to four bytes.  A header is placed at its    *)
(* offset; its size fields are sequences of hexadecimal digits and its     *)
(* path is the sequence of the texts between the slashes.                  *)
(***************************************************************************)
EXTENDS RamFs

CONSTANTS
    Archives,       \* the archives to load: sequences of entries
    Base,           \* the address the boot loader puts them at
    TrailerNames    \* the texts that begin with TRAILER!!!

(* What remains of a size when its last k hexadecimal digits are cut off,  *)
(* and what cpio can write: the sizes have eight digits.                   *)
Cut(v) ==
    LET rest[k \in 0..8] == IF k = 0 THEN v ELSE rest[k - 1] \div 16
    IN  rest
Fits(v) == v \in Nat /\ Cut(v)[8] = 0
Written(s) ==
    /\ Len(s) \in Nat /\ DOMAIN s = 1..Len(s)
    /\ \A i \in DOMAIN s :
          s[i].namelen \in Nat /\ Fits(s[i].namelen + 1) /\ Fits(Len(s[i].data))

ASSUME CpioAssumption ==
    /\ Base \in Nat /\ Base % 4 = 0
    /\ \A s \in Archives : Written(s)

VARIABLES
    archive,        \* the entries of the archive
    ptr,            \* where Populate reads
    loader,         \* "idle", "loading" or "done"
    F               \* the file system
loaderVars == <<archive, ptr, loader, F>>

HeaderSize == 110
Padded(addr) == ((addr + 3) \div 4) * 4
Hex(v) == [i \in 1..8 |-> Cut(v)[8 - i] % 16]

(* An entry as cpio writes it.  namelen is the length of the whole path;   *)
(* the terminating zero is written too.                                    *)
SizeOf(entry) == Padded(HeaderSize + entry.namelen + 1) + Padded(Len(entry.data))
Offset(i) ==
    LET sum[k \in 0..Len(archive)] ==
            IF k = 0 THEN 0 ELSE sum[k - 1] + SizeOf(archive[k])
    IN  sum[i - 1]
Header(entry) ==
    [namesize |-> Hex(entry.namelen + 1), filesize |-> Hex(Len(entry.data)),
     mode |-> entry.mode, path |-> entry.path, data |-> entry.data]

(* The header at an address, if the magic number is there.                 *)
HeadersAt(addr) == {i \in DOMAIN archive : Base + Offset(i) = addr}
End == Base + Offset(Len(archive) + 1)

ParseHex(str) ==
    LET val[k \in 0..Len(str)] == IF k = 0 THEN 0 ELSE val[k - 1] * 16 + str[k]
    IN  val[Len(str)]

(* CreateEntry: walk and make the directories of the path, then make the   *)
(* directory or the file and store the contents; its outcomes are those of *)
(* Write.  An error ends it, and its effects so far remain.                *)
LeafName(path) == <<path[Len(path)]>>
MakeParents(fs, path) ==
    LET Step(S, name) ==
            IF S.val < 0 \/ name \in {"", "."} THEN S
            ELSE IF Lookup(S.fs, S.val, <<name>>) > 0
            THEN Ok(S.fs, Lookup(S.fs, S.val, <<name>>))
            ELSE Mkdir(S.fs, S.val, <<name>>)
    IN  FoldLeft(Step, Ok(fs, Root), SubSeq(path, 1, Len(path) - 1))
CreateEntry(fs, path, mode, data) ==
    LET parent == MakeParents(fs, path)
        file == Create(parent.fs, parent.val, LeafName(path))
    IN  IF path = <<".">> THEN {fs}
        ELSE IF parent.val < 0 \/ LeafName(path) = <<"">> THEN {parent.fs}
        ELSE IF mode = "S_IFDIR" THEN {Mkdir(parent.fs, parent.val, LeafName(path)).fs}
        ELSE IF mode = "S_IFREG" /\ file.val > 0
        THEN {w.fs : w \in RamFsWrite(file.fs, file.val, data, 0)}
        ELSE {parent.fs}

LoaderInit == archive = <<>> /\ ptr = Base /\ loader = "idle" /\ F = Boot

(* start_kernel calls Populate with the first module.                      *)
Populate ==
    /\ loader = "idle"
    /\ archive' \in Archives /\ loader' = "loading"
    /\ UNCHANGED <<ptr, F>>

(* The loop looks at the first ten bytes of a path, so that any path that  *)
(* begins with the name of the trailer ends it.                            *)
IsTrailer(entry) == entry.path[1] \in TrailerNames
AtTrailer == \E i \in HeadersAt(ptr) : IsTrailer(archive[i])

(* Faulty: the next header is looked for right behind the contents.        *)
LoadEntryUnpadded ==
    /\ loader = "loading" /\ ptr < End /\ ~AtTrailer
    /\ \E i \in HeadersAt(ptr) :
          LET h == Header(archive[i])
          IN  /\ ptr' = Padded(ptr + HeaderSize + ParseHex(h.namesize)) + ParseHex(h.filesize)
              /\ F' \in CreateEntry(F, h.path, h.mode, h.data)
    /\ UNCHANGED <<archive, loader>>

(* One round of the loop.                                                  *)
LoadEntry ==
    /\ loader = "loading" /\ ptr < End /\ ~AtTrailer
    /\ \E i \in HeadersAt(ptr) :
          LET h == Header(archive[i])
              data == Padded(ptr + HeaderSize + ParseHex(h.namesize))
          IN  /\ ptr' = Padded(data + ParseHex(h.filesize))
              /\ F' \in CreateEntry(F, h.path, h.mode, h.data)
    /\ UNCHANGED <<archive, loader>>

(* The loop ends at the trailer, at the end, or where no header begins.    *)
PopulateReturns ==
    /\ loader = "loading"
    /\ ptr >= End \/ HeadersAt(ptr) = {} \/ AtTrailer
    /\ loader' = "done"
    /\ UNCHANGED <<archive, ptr, F>>

LoaderNext ==
    \/ Populate
    \/ LoadEntry
    \/ PopulateReturns

LoaderSpec == LoaderInit /\ [][LoaderNext]_loaderVars

-----------------------------------------------------------------------------
(* What an archive says up to its trailer, entry by entry: the path        *)
(* without its empty components and dots, which entry is the first to name *)
(* a path, itself or as a parent, and whether that makes it a file.  What  *)
(* start_kernel has made comes first.                                      *)
Plain(path) == SelectSeq(path, LAMBDA name : name \notin {"", "."})
BeforeTrailer == {i \in DOMAIN archive : \A j \in 1..i : ~IsTrailer(archive[j])}
Made == {i \in BeforeTrailer : archive[i].mode \in {"S_IFREG", "S_IFDIR"}}
Names(i, p) ==
    /\ p # <<>> /\ IsPrefix(p, Plain(archive[i].path))
    /\ i \in Made \/ p # Plain(archive[i].path)
FirstToName(p) ==
    LET I == {i \in BeforeTrailer : Names(i, p)}
    IN  CHOOSE i \in I : \A j \in I : i <= j
SaysFile(p) ==
    LET first == archive[FirstToName(p)]
    IN  PathToVnode(Boot, p) < 0 /\ Plain(first.path) = p /\ first.mode = "S_IFREG"
BelowFile(p) == \E k \in 1..(Len(p) - 1) : SaysFile(SubSeq(p, 1, k))
Listed == {Plain(archive[i].path) : i \in Made} \ {<<>>}

(* Populate reads the entries in turn: it is always at the header of one   *)
(* or at the end, none behind it is the trailer, and it returns nowhere    *)
(* but at the trailer or the end.                                          *)
EntriesReadInTurn ==
    \E i \in 1..(Len(archive) + 1) :
        /\ ptr = Base + Offset(i)
        /\ \A j \in 1..(i - 1) : ~IsTrailer(archive[j])
        /\ loader = "done" => i = Len(archive) + 1 \/ IsTrailer(archive[i])

(* After Populate every path the archive lists, up to the first that       *)
(* begins like the trailer, is in the file system: the first entry to name *)
(* it decides whether it is a file or a directory, a file has the contents *)
(* of that entry, and only paths below a file are absent.  When memory ran *)
(* out, what is there is a directory or a file that is whole or empty.     *)
InitrdLoaded ==
    loader = "done" =>
      LET short == F.free = {} \/ Len(F.nodes) = MaxNodes
      IN  \A p \in Listed :
            LET node == PathToVnode(F, p)
            IN  IF node < 0 THEN short \/ BelowFile(p)
                ELSE /\ ~BelowFile(p)
                     /\ IsDirectory(F, node) <=> ~SaysFile(p)
                     /\ SaysFile(p) =>
                          LET data == archive[FirstToName(p)].data
                          IN  \/ RamFsRead(F, node, Len(data), 0) = data
                                 /\ F.nodes[node].size = Len(data)
                              \/ short /\ F.nodes[node].size = 0
=============================================================================
