----------------------------- MODULE MCFileSystem -----------------------------
(* An instance of FileSystem for TLC: a file in the root, one in /tmp and  *)
(* the root directory.                                                     *)
EXTENDS FileSystem

MCVersion == <<5, 6>>
MCPaths == {<<"g">>, <<"", "tmp", "f">>, <<"", "">>}
(* No call depends on the transfer of the last one, and nothing follows a  *)
(* read that faults.                                                       *)
MCView == IF Hung THEN <<>> ELSE <<fs, fds, desc, seen>>
MCOpenFlags == {{}, {"O_TRUNC"}, {"O_CREAT", "O_APPEND"}}
MCSeeks == {-1, 0}
MCReadLens == {<<2, 1>>, <<1, 15>>}
MCWriteData == {<<>>, <<1>>, <<1, 1, 2>>}
MCWritevData == {<< <<1, 1>>, <<>>, <<2>> >>}
=============================================================================
