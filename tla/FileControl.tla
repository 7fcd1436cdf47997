----------------------------- MODULE FileControl ----------------------------
(***************************************************************************)
(* Class FileController (src/lib.filecontrol/FileControl.cpp) and the      *)
(* stdio calls the daemons make on the file it names.  A file is a record: *)
(* whether the path exists, and its contents.  Of the members of the       *)
(* class only fsize is ever read: file_exist and transfer_append_mode are  *)
(* written by the constructor and consulted by nobody.                     *)
(***************************************************************************)
EXTENDS SocketFunction

Lesser(a, b) == IF a <= b THEN a ELSE b

FileOf(S) == [here : BOOLEAN, data : Seq(S)]
NoFile    == [here |-> FALSE, data |-> << >>]

(* Mutant: the size of a file that cannot be opened is ftell's -1.         *)
FileController_ErrorSize(f) == [fsize |-> IF f.here THEN Len(f.data) ELSE -1]

(* The constructor: open "rb", measure, close; size 0 if the open fails.   *)
FileController(f) == [fsize |-> IF f.here THEN Len(f.data) ELSE 0]

fileExist(fc)            == fc.fsize # 0
getFileSizeExist(fc)     == fc.fsize
appendFileSizeSet(fc, n) == [fc EXCEPT !.fsize = n]

(* fopen64(path, "wb+"): the file exists from now on, and is empty.        *)
fopenTruncate == [here |-> TRUE, data |-> << >>]

(* fread of n units from offset pos into a buffer that memset has cleared: *)
(* past the end of the file the buffer keeps its zeros.                    *)
fread(data, pos, n) ==
    [i \in 1 .. n |-> IF pos + i <= Len(data) THEN data[pos + i] ELSE ZeroUnit]

(* fwrite after an fseeko64 to offset seek, on a file system where the     *)
(* file can hold room units: writing beyond the end leaves a hole that     *)
(* reads as zeros, and what does not fit is not written.                   *)
fwrite(data, seek, units, room) ==
    LET hole  == [i \in 1 .. seek - Len(data) |-> ZeroUnit]
        whole == (data \o hole) \o units
    IN  SubSeq(whole, 1, Lesser(room, Len(whole)))
=============================================================================
