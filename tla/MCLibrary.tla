------------------------------ MODULE MCLibrary ------------------------------
(* An instance for TLC of the three parts of the kernel that share nothing *)
(* with the others at run time: the arithmetic runtime, the console and    *)
(* the loader of the boot archive.  They share nothing with one another    *)
(* either, so only one of them moves in a behaviour.                       *)
EXTENDS CompilerRt, Console, CpioLoader, TLC

Entry(path, namelen, mode, data) ==
    [path |-> path, namelen |-> namelen, mode |-> mode, data |-> data]
Trailer == Entry(<<"TRAILER!!!">>, 10, "none", <<>>)

(* A program, the same program again, a directory, a file in it, a file of *)
(* the directory's name, an entry of a kind that is ignored, and the entry *)
(* for the root that find writes first.                                    *)
MCEntries ==
    {Entry(<<"sbin", "init">>, 9, "S_IFREG", <<1, 2, 1>>),
     Entry(<<".", "sbin", "init">>, 11, "S_IFREG", <<2>>),
     Entry(<<"l">>, 1, "S_IFDIR", <<>>),
     Entry(<<"l", "m", "x">>, 5, "S_IFREG", <<2, 2, 1, 1, 2>>),
     Entry(<<"l">>, 1, "S_IFREG", <<1>>),
     Entry(<<"k", "s">>, 3, "S_IFLNK", <<1, 1>>),
     Entry(<<".">>, 1, "S_IFDIR", <<>>)}
MCArchives ==
    UNION {{s, Append(s, Trailer)} : s \in UNION {[1..k -> MCEntries] : k \in 0..3}}
        \cup {<<e, Entry(<<"TRAILER!!!2", "m">>, 13, "S_IFREG", <<1>>), g>> : e, g \in MCEntries}
MCTrailerNames == {"TRAILER!!!", "TRAILER!!!2"}
MCVersion == <<5, 6>>

Init == ArithInit /\ ConsoleInit /\ LoaderInit
Next ==
    \/ output = 0 /\ loader = "idle" /\ ArithNext /\ UNCHANGED <<consoleVars, loaderVars>>
    \/ fn = "none" /\ loader = "idle" /\ ConsoleNext /\ UNCHANGED <<arithVars, loaderVars>>
    \/ fn = "none" /\ output = 0 /\ LoaderNext /\ UNCHANGED <<arithVars, consoleVars>>
Spec == Init /\ [][Next]_<<arithVars, consoleVars, loaderVars>>
=============================================================================
